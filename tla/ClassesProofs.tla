---------------------------- MODULE ClassesProofs ---------------------------
(***************************************************************************)
(* Proofs about Classes, for every set of class definitions, every limit    *)
(* and every nesting of constructors.                                       *)
(***************************************************************************)
EXTENDS Classes, Positions, SequenceTheorems, FiniteSetTheorems, TLAPS

-----------------------------------------------------------------------------
(* The inductive invariant *)

\* The entries have increasing ids, all of them given out before.
TableOK(ins, next) ==
  /\ IsSeq(ins)
  /\ \A i \in DOMAIN ins : /\ ins[i] = [id |-> ins[i].id, class |-> ins[i].class, fields |-> ins[i].fields]
                           /\ ins[i].id \in 1 .. next - 1
  /\ \A i, j \in DOMAIN ins : i < j => ins[i].id < ins[j].id

\* The instances of the blocks that run are in the table, each created after
\* those of the blocks it is nested in, and those under construction are not
\* completed.
StackOK(st, ins, finished) ==
  /\ IsSeq(st)
  /\ \A k \in DOMAIN st :
       /\ st[k] = [kind |-> st[k].kind, self |-> st[k].self, at |-> st[k].at, todo |-> st[k].todo, x |-> st[k].x]
       /\ \E i \in DOMAIN ins : ins[i].id = st[k].self
       /\ st[k].kind \in {"new", "call"} /\ (st[k].kind = "new" => st[k].self \notin finished)
  /\ \A k, l \in DOMAIN st : k < l => st[k].self < st[l].self

\* The constructors that run
Building(st) == {k \in DOMAIN st : st[k].kind = "new"}

ClassesInv ==
  /\ capacity \in Nat /\ nextId \in Nat \ {0}
  /\ TableOK(instances, nextId)
  /\ StackOK(stack, instances, done)
  /\ done \subseteq 1 .. nextId - 1
  /\ Len(instances) = Cardinality(done) + Cardinality(Building(stack))
  /\ Len(instances) <= capacity

-----------------------------------------------------------------------------
(* The table *)

\* Front is what the facts about sequences call Shorter.
LEMMA FrontAny ==
  ASSUME NEW s
  PROVE  Front(s) = Shorter(s)
BY DEF Front, Shorter

\* A new instance is put at the end of the table.
LEMMA TableGrows ==
  ASSUME NEW ins, NEW next \in Nat \ {0}, TableOK(ins, next), NEW c, NEW f
  PROVE  TableOK(Append(ins, [id |-> next, class |-> c, fields |-> f]), next + 1)
<1> DEFINE e == [id |-> next, class |-> c, fields |-> f]
           u == Append(ins, e)
           n == Len(ins)
<1>0. n \in Nat /\ DOMAIN ins = 1 .. n
  BY SeqFacts DEF TableOK
<1>1. e = [id |-> e.id, class |-> e.class, fields |-> e.fields] /\ e.id = next
  OBVIOUS
<1>2. /\ IsSeq(u)
      /\ DOMAIN u = 1 .. n + 1 /\ u[n + 1] = e /\ \A i \in 1 .. n : u[i] = ins[i]
  <2>1. IsSeq(ins)
    BY DEF TableOK
  <2> HIDE DEF e
  <2> QED
    BY <2>1, FrontAny, AppendAny
<1> HIDE DEF e, u, n
<1>3. \A i \in 1 .. n + 1 : i = n + 1 \/ i \in 1 .. n
  BY <1>0
<1>4. \A i \in 1 .. n : ins[i].id \in 1 .. next - 1
  BY <1>0 DEF TableOK
<1>5. \A i \in 1 .. n + 1 : /\ u[i] = [id |-> u[i].id, class |-> u[i].class, fields |-> u[i].fields]
                            /\ u[i].id \in 1 .. next + 1 - 1
  <2>1. SUFFICES ASSUME NEW i \in 1 .. n + 1
                 PROVE  /\ u[i] = [id |-> u[i].id, class |-> u[i].class, fields |-> u[i].fields]
                        /\ u[i].id \in 1 .. next + 1 - 1
    OBVIOUS
  <2>2. CASE i = n + 1
    <3>1. next \in 1 .. next + 1 - 1
      OBVIOUS
    <3> QED
      BY <2>2, <1>1, <1>2, <3>1
  <2>3. CASE i \in 1 .. n
    <3>1. u[i] = ins[i] /\ ins[i].id \in 1 .. next - 1
      BY <2>3, <1>2, <1>4
    <3>2. ins[i] = [id |-> ins[i].id, class |-> ins[i].class, fields |-> ins[i].fields]
      BY <2>3, <1>0 DEF TableOK
    <3>3. 1 .. next - 1 \subseteq 1 .. next + 1 - 1
      OBVIOUS
    <3> QED
      BY <3>1, <3>2, <3>3
  <2> QED
    BY <1>3, <2>2, <2>3
<1>6. ASSUME NEW i \in 1 .. n + 1, NEW j \in 1 .. n + 1, i < j PROVE u[i].id < u[j].id
  <2>1. i \in 1 .. n
    BY <1>0, <1>6
  <2>2. CASE j = n + 1
    BY <2>1, <2>2, <1>1, <1>2, <1>4
  <2>3. CASE j \in 1 .. n
    BY <2>1, <2>3, <1>0, <1>2, <1>6 DEF TableOK
  <2> QED
    BY <1>3, <2>2, <2>3
<1> QED
  BY <1>2, <1>5, <1>6 DEF TableOK, u, e

\* The last entry is removed.
LEMMA TableShrinks ==
  ASSUME NEW ins, NEW next, TableOK(ins, next), ins # <<>>
  PROVE  TableOK(Front(ins), next)
<1> DEFINE n == Len(ins)
           v == Front(ins)
<1>1. /\ IsSeq(v)
      /\ n \in Nat \ {0} /\ DOMAIN ins = 1 .. n /\ DOMAIN v = 1 .. n - 1
      /\ \A i \in 1 .. n - 1 : v[i] = ins[i]
  BY FrontAny, ShorterAny DEF TableOK
<1> HIDE DEF n, v
<1>2. 1 .. n - 1 \subseteq 1 .. n
  BY <1>1
<1>3. TableOK(v, next)
  BY <1>1, <1>2 DEF TableOK
<1> QED
  BY <1>3 DEF v

-----------------------------------------------------------------------------
(* The blocks that run *)

\* The two stacks run the same blocks.
SameFrames(a, b) ==
  /\ IsSeq(b)
  /\ DOMAIN b = DOMAIN a /\ Len(b) = Len(a)
  /\ \A k \in DOMAIN a :
       /\ b[k] = [kind |-> b[k].kind, self |-> b[k].self, at |-> b[k].at, todo |-> b[k].todo, x |-> b[k].x]
       /\ b[k].kind = a[k].kind /\ b[k].self = a[k].self

\* Frames that differ only in what a block has left to do and to return serve the
\* same instances.
LEMMA SameFramesKeep ==
  ASSUME NEW a, NEW b, SameFrames(a, b), NEW ins, NEW finished, StackOK(a, ins, finished)
  PROVE  StackOK(b, ins, finished) /\ Building(b) = Building(a)
BY DEF SameFrames, StackOK, Building

\* What the caller gets changes no block.
LEMMA ReturnSame ==
  ASSUME NEW a, SameFrames(a, a), NEW v
  PROVE  SameFrames(a, Return(a, v))
<1>1. CASE a = <<>>
  BY <1>1 DEF Return
<1>2. CASE a # <<>>
  <2> DEFINE n == Len(a)
             f == [a[n] EXCEPT !.x = v]
             u == [a EXCEPT ![n] = f]
  <2>1. n \in DOMAIN a /\ IsSeq(a)
    BY <1>2, SeqFacts DEF SameFrames
  <2>2. a[n] = [kind |-> a[n].kind, self |-> a[n].self, at |-> a[n].at, todo |-> a[n].todo, x |-> a[n].x]
    BY <2>1 DEF SameFrames
  <2>3. f = [kind |-> a[n].kind, self |-> a[n].self, at |-> a[n].at, todo |-> a[n].todo, x |-> v]
    <3> DEFINE g == a[n]
    <3> HIDE DEF n
    <3>1. g = [kind |-> g.kind, self |-> g.self, at |-> g.at, todo |-> g.todo, x |-> g.x]
      BY <2>2
    <3>2. [g EXCEPT !.x = v] = [kind |-> g.kind, self |-> g.self, at |-> g.at, todo |-> g.todo, x |-> v]
      <4> HIDE DEF g
      <4> QED
        BY <3>1
    <3> QED
      BY <3>2
  <2>4. Return(a, v) = u
    BY <1>2 DEF Return
  <2> HIDE DEF f, n
  <2>5. /\ IsSeq(u)
        /\ DOMAIN u = DOMAIN a /\ Len(u) = Len(a) /\ u[n] = f
        /\ \A i \in DOMAIN a : i # n => u[i] = a[i]
    BY <2>1, ReplacedAny
  <2>6. f.kind = a[n].kind /\ f.self = a[n].self
        /\ f = [kind |-> f.kind, self |-> f.self, at |-> f.at, todo |-> f.todo, x |-> f.x]
    BY <2>3
  <2> HIDE DEF u
  <2>7. SameFrames(a, u)
    BY <2>5, <2>6 DEF SameFrames
  <2> QED
    BY <2>4, <2>7
<1> QED
  BY <1>1, <1>2

\* What SameFrames says of one stack follows from StackOK.
LEMMA StackShaped ==
  ASSUME NEW a, NEW ins, NEW finished, StackOK(a, ins, finished)
  PROVE  SameFrames(a, a)
BY DEF StackOK, SameFrames

\* Frames that stay the same twice stay the same.
LEMMA SameFramesChain ==
  ASSUME NEW a, NEW b, NEW c, SameFrames(a, b), SameFrames(b, c)
  PROVE  SameFrames(a, c)
BY DEF SameFrames

\* The block goes on with its next statement.
LEMMA AdvancedSame ==
  ASSUME SameFrames(stack, stack), stack # <<>>
  PROVE  SameFrames(stack, Advanced)
<1> DEFINE n == Len(stack)
           g == stack[n]
           f == [g EXCEPT !.todo = Tail(g.todo)]
           u == [stack EXCEPT ![n] = f]
<1>1. n \in DOMAIN stack /\ IsSeq(stack)
  BY SeqFacts DEF SameFrames
<1>2. g = [kind |-> g.kind, self |-> g.self, at |-> g.at, todo |-> g.todo, x |-> g.x]
  BY <1>1 DEF SameFrames
<1>3. Advanced = u
  BY DEF Advanced
<1>4. f = [kind |-> g.kind, self |-> g.self, at |-> g.at, todo |-> Tail(g.todo), x |-> g.x]
  <2> DEFINE w == Tail(g.todo)
  <2>1. [g EXCEPT !.todo = w] = [kind |-> g.kind, self |-> g.self, at |-> g.at, todo |-> w, x |-> g.x]
    <3> HIDE DEF g, w
    <3> QED
      BY <1>2
  <2> QED
    BY <2>1
<1> HIDE DEF f, n
<1>5. /\ IsSeq(u)
      /\ DOMAIN u = DOMAIN stack /\ Len(u) = Len(stack) /\ u[n] = f
      /\ \A i \in DOMAIN stack : i # n => u[i] = stack[i]
  BY <1>1, ReplacedAny
<1>6. f.kind = g.kind /\ f.self = g.self
      /\ f = [kind |-> f.kind, self |-> f.self, at |-> f.at, todo |-> f.todo, x |-> f.x]
  BY <1>4
<1> HIDE DEF u
<1>7. SameFrames(stack, u)
  BY <1>5, <1>6 DEF SameFrames
<1> QED
  BY <1>3, <1>7

\* A table that has what the other has, at the same or a later place, serves
\* the same blocks.
LEMMA StackServed ==
  ASSUME NEW st, NEW ins, NEW more, NEW finished, StackOK(st, ins, finished),
         \A i \in DOMAIN ins : \E j \in DOMAIN more : more[j].id = ins[i].id
  PROVE  StackOK(st, more, finished)
<1>1. ASSUME NEW k \in DOMAIN st PROVE \E j \in DOMAIN more : more[j].id = st[k].self
  BY DEF StackOK
<1> QED
  BY <1>1 DEF StackOK

\* A block for the instance self, newer than those of the stack, starts.
LEMMA StackGrows ==
  ASSUME NEW st, NEW ins, NEW finished, StackOK(st, ins, finished), NEW f,
         f = [kind |-> f.kind, self |-> f.self, at |-> f.at, todo |-> f.todo, x |-> f.x],
         \E i \in DOMAIN ins : ins[i].id = f.self,
         f.kind \in {"new", "call"}, f.kind = "new" => f.self \notin finished,
         \A k \in DOMAIN st : st[k].self < f.self
  PROVE  /\ StackOK(Append(st, f), ins, finished)
         /\ Building(Append(st, f)) = IF f.kind = "new" THEN Building(st) \cup {Len(st) + 1} ELSE Building(st)
         /\ Len(st) + 1 \notin Building(st)
<1> DEFINE n == Len(st)
           u == Append(st, f)
<1>1. n \in Nat /\ DOMAIN st = 1 .. n /\ IsSeq(st)
  BY SeqFacts DEF StackOK
<1>2. /\ IsSeq(u)
      /\ DOMAIN u = 1 .. n + 1 /\ u[n + 1] = f /\ \A k \in 1 .. n : u[k] = st[k]
  BY <1>1, FrontAny, AppendAny
<1> HIDE DEF u, n
<1>3. (\A k \in 1 .. n + 1 : k = n + 1 \/ k \in 1 .. n) /\ n + 1 \notin 1 .. n /\ 1 .. n \subseteq 1 .. n + 1
      /\ n + 1 \in 1 .. n + 1
  BY <1>1
<1>4. \A k \in DOMAIN u :
       /\ u[k] = [kind |-> u[k].kind, self |-> u[k].self, at |-> u[k].at, todo |-> u[k].todo, x |-> u[k].x]
       /\ \E i \in DOMAIN ins : ins[i].id = u[k].self
       /\ u[k].kind \in {"new", "call"} /\ (u[k].kind = "new" => u[k].self \notin finished)
  <2>1. SUFFICES ASSUME NEW k \in 1 .. n + 1
                 PROVE  /\ u[k] = [kind |-> u[k].kind, self |-> u[k].self, at |-> u[k].at, todo |-> u[k].todo, x |-> u[k].x]
                        /\ \E i \in DOMAIN ins : ins[i].id = u[k].self
                        /\ u[k].kind \in {"new", "call"} /\ (u[k].kind = "new" => u[k].self \notin finished)
    BY <1>2
  <2>2. CASE k = n + 1
    BY <1>2, <2>2
  <2>3. CASE k \in 1 .. n
    BY <1>1, <1>2, <2>3 DEF StackOK
  <2> QED
    BY <1>3, <2>2, <2>3
<1>5. ASSUME NEW k \in 1 .. n + 1, NEW l \in 1 .. n + 1, k < l PROVE u[k].self < u[l].self
  <2>1. k \in 1 .. n
    BY <1>1, <1>5
  <2>2. CASE l = n + 1
    BY <1>1, <1>2, <2>1, <2>2
  <2>3. CASE l \in 1 .. n
    BY <1>1, <1>2, <1>5, <2>1, <2>3 DEF StackOK
  <2> QED
    BY <1>3, <2>2, <2>3
<1>6. StackOK(u, ins, finished)
  BY <1>2, <1>4, <1>5 DEF StackOK
<1>7. Building(u) = (IF f.kind = "new" THEN Building(st) \cup {n + 1} ELSE Building(st)) /\ n + 1 \notin Building(st)
  BY <1>1, <1>2, <1>3 DEF Building
<1> QED
  BY <1>6, <1>7 DEF u, n

\* The innermost block ends.
LEMMA StackShrinks ==
  ASSUME NEW st, NEW ins, NEW finished, StackOK(st, ins, finished), st # <<>>
  PROVE  LET n == Len(st)
         IN  /\ StackOK(Front(st), ins, finished)
             /\ n \in DOMAIN st
             /\ Building(Front(st)) = Building(st) \ {n} /\ (n \in Building(st) <=> st[n].kind = "new")
             /\ \A k \in DOMAIN Front(st) : Front(st)[k].self < st[n].self
<1> DEFINE n == Len(st)
           u == Front(st)
<1>1. /\ IsSeq(u)
      /\ n \in Nat \ {0} /\ DOMAIN st = 1 .. n /\ DOMAIN u = 1 .. n - 1
      /\ \A k \in 1 .. n - 1 : u[k] = st[k]
  BY FrontAny, ShorterAny DEF StackOK
<1> HIDE DEF n, u
<1>2. 1 .. n - 1 \subseteq 1 .. n /\ n \in 1 .. n /\ n \notin 1 .. n - 1 /\ (\A k \in 1 .. n : k = n \/ k \in 1 .. n - 1)
      /\ \A k \in 1 .. n - 1 : k < n
  BY <1>1
<1>3. StackOK(u, ins, finished)
  BY <1>1, <1>2 DEF StackOK
<1>4. Building(u) = Building(st) \ {n} /\ (n \in Building(st) <=> st[n].kind = "new")
  BY <1>1, <1>2 DEF Building
<1>5. \A k \in DOMAIN u : u[k].self < st[n].self
  BY <1>1, <1>2 DEF StackOK
<1> QED
  BY <1>1, <1>2, <1>3, <1>4, <1>5 DEF n, u

\* The constructors that run are finitely many, and so are the instances.
LEMMA FiniteFacts ==
  ASSUME ClassesInv
  PROVE  /\ IsFiniteSet(done) /\ Cardinality(done) \in Nat
         /\ IsFiniteSet(Building(stack)) /\ Cardinality(Building(stack)) \in Nat
         /\ Len(instances) \in Nat /\ DOMAIN instances = 1 .. Len(instances)
<1>1. IsFiniteSet(1 .. nextId - 1) /\ done \subseteq 1 .. nextId - 1
  <2>1. 1 \in Int /\ nextId - 1 \in Int
    BY DEF ClassesInv
  <2> QED
    BY <2>1, FS_Interval DEF ClassesInv
<1>2. Len(stack) \in Nat /\ DOMAIN stack = 1 .. Len(stack)
  BY SeqFacts DEF ClassesInv, StackOK
<1>3. IsFiniteSet(1 .. Len(stack)) /\ Building(stack) \subseteq 1 .. Len(stack)
  <2>1. 1 \in Int /\ Len(stack) \in Int
    BY <1>2
  <2>2. IsFiniteSet(1 .. Len(stack))
    BY <2>1, FS_Interval
  <2> QED
    BY <1>2, <2>2 DEF Building
<1>4. IsFiniteSet(done) /\ IsFiniteSet(Building(stack))
  BY <1>1, <1>3, FS_Subset
<1>5. Len(instances) \in Nat /\ DOMAIN instances = 1 .. Len(instances)
  BY SeqFacts DEF ClassesInv, TableOK
<1> QED
  BY <1>4, <1>5, FS_CardinalityType

-----------------------------------------------------------------------------
(* Steps *)

\* The array has room for what grow_heap_array was asked for.
LEMMA GrownEnough ==
  ASSUME ClassesInv, ~ (capacity < Len(instances) + 1 /\ Len(instances) + 1 > MaxInstances)
  PROVE  Grown(Len(instances) + 1) \in Nat /\ Len(instances) + 1 <= Grown(Len(instances) + 1)
<1> DEFINE n == Len(instances)
<1>1. n \in Nat /\ capacity \in Nat /\ n <= capacity /\ ~ (capacity < n + 1 /\ n + 1 > MaxInstances)
  BY FiniteFacts DEF ClassesInv
<1> HIDE DEF n
<1>2. Grown(n + 1) \in Nat /\ n + 1 <= Grown(n + 1)
  BY <1>1, ClassLimits DEF Grown, Doubled
<1> QED
  BY <1>2 DEF n

\* A construction that failed before it changed anything, and every step that
\* leaves the table alone
LEMMA StackOnly ==
  ASSUME ClassesInv, SameFrames(stack, stack'), UNCHANGED <<instances, capacity, nextId, done>>
  PROVE  ClassesInv'
<1>1. StackOK(stack', instances, done) /\ Building(stack') = Building(stack)
  BY SameFramesKeep DEF ClassesInv
<1> QED
  BY <1>1 DEF ClassesInv

\* arksh_shell_instantiate_class, from outside and from a block
LEMMA InstantiateStep ==
  ASSUME ClassesInv, NEW frames, SameFrames(stack, frames), NEW c, NEW argc, Instantiate(c, argc, frames)
  PROVE  ClassesInv'
<1> DEFINE n == Len(instances)
           e == [id |-> nextId, class |-> c, fields |-> Defaults(classes, c)]
           init == LookupMethod(classes, c, "init")
           full == capacity < n + 1 /\ n + 1 > MaxInstances
           more == Append(instances, e)
<1>f. SameFrames(frames, frames) /\ \A v : SameFrames(stack, Return(frames, v))
  <2>1. SameFrames(frames, frames)
    BY DEF SameFrames
  <2>2. \A v : SameFrames(frames, Return(frames, v))
    BY <2>1, ReturnSame
  <2> QED
    BY <2>1, <2>2, SameFramesChain
<1>1. CASE c \notin DOMAIN classes \/ full
  <2>1. stack' = Return(frames, Nothing) /\ UNCHANGED <<instances, capacity, nextId, done>>
    BY <1>1 DEF Instantiate
  <2> QED
    BY <2>1, <1>f, StackOnly
<1>2. CASE ~ (c \notin DOMAIN classes \/ full)
  <2>1. /\ nextId' = nextId + 1 /\ capacity' = Grown(n + 1)
        /\ \/ instances' = more /\ stack' = Append(frames, Frame("new", nextId, init)) /\ done' = done
           \/ instances' = more /\ done' = done \cup {nextId} /\ stack' = Return(frames, Ref(c, nextId))
           \/ instances' = Rollback(more) /\ stack' = Return(frames, Nothing) /\ done' = done
    BY <1>2 DEF Instantiate
  <2>2. capacity' \in Nat /\ n + 1 <= capacity'
    BY <1>2, <2>1, GrownEnough
  <2>3. /\ nextId \in Nat \ {0} /\ TableOK(instances, nextId) /\ StackOK(stack, instances, done)
        /\ done \subseteq 1 .. nextId - 1
        /\ Len(instances) = Cardinality(done) + Cardinality(Building(stack))
    BY DEF ClassesInv
  <2>4. /\ n \in Nat /\ DOMAIN instances = 1 .. n /\ IsFiniteSet(done) /\ Cardinality(done) \in Nat
        /\ IsFiniteSet(Building(stack)) /\ Cardinality(Building(stack)) \in Nat
    BY FiniteFacts
  <2>5. TableOK(more, nextId + 1) /\ TableOK(instances, nextId + 1)
    <3>1. TableOK(more, nextId + 1)
      BY <2>3, TableGrows
    <3>2. 1 .. nextId - 1 \subseteq 1 .. nextId + 1 - 1
      BY <2>3
    <3>3. TableOK(instances, nextId + 1)
      BY <2>3, <3>2 DEF TableOK
    <3> QED
      BY <3>1, <3>3
  <2>6. /\ Len(more) = n + 1 /\ DOMAIN more = 1 .. n + 1 /\ more[n + 1] = e
        /\ (\A i \in 1 .. n : more[i] = instances[i]) /\ Front(more) = instances
    <3>1. IsSeq(instances)
      BY <2>3 DEF TableOK
    <3> HIDE DEF e
    <3> QED
      BY <3>1, FrontAny, AppendAny
  <2>e. e.id = nextId
    OBVIOUS
  <2>7. nextId + 1 \in Nat \ {0} /\ done \subseteq 1 .. nextId + 1 - 1 /\ nextId \notin done
        /\ done \cup {nextId} \subseteq 1 .. nextId + 1 - 1
    BY <2>3
  <2> HIDE DEF more, n, e
  <2>8. StackOK(frames, more, done) /\ Building(frames) = Building(stack)
    <3>1. \A i \in DOMAIN instances : i \in DOMAIN more /\ more[i].id = instances[i].id
      BY <2>4, <2>6
    <3>2. StackOK(stack, more, done)
      BY <2>3, <3>1, StackServed
    <3> QED
      BY <3>2, SameFramesKeep
  <2>9. CASE instances' = more /\ stack' = Append(frames, Frame("new", nextId, init)) /\ done' = done
    <3> DEFINE f == Frame("new", nextId, init)
               m == Len(frames)
    <3>1. /\ f = [kind |-> f.kind, self |-> f.self, at |-> f.at, todo |-> f.todo, x |-> f.x]
          /\ f.kind = "new" /\ f.self = nextId
      BY DEF Frame
    <3>2. \A k \in DOMAIN frames : frames[k].self < nextId
      <4>1. SUFFICES ASSUME NEW k \in DOMAIN frames PROVE frames[k].self < nextId
        OBVIOUS
      <4>2. k \in DOMAIN stack /\ frames[k].self = stack[k].self
        BY DEF SameFrames
      <4>3. PICK i \in DOMAIN instances : instances[i].id = stack[k].self
        BY <2>3, <4>2 DEF StackOK
      <4>4. instances[i].id \in 1 .. nextId - 1
        BY <2>3 DEF TableOK
      <4> QED
        BY <2>3, <4>2, <4>3, <4>4
    <3>3. \E i \in DOMAIN more : more[i].id = f.self
      <4>1. n + 1 \in 1 .. n + 1
        BY <2>4
      <4> QED
        BY <2>6, <2>e, <3>1, <4>1
    <3> HIDE DEF f
    <3>4. /\ StackOK(Append(frames, f), more, done)
          /\ Building(Append(frames, f)) = Building(frames) \cup {m + 1} /\ m + 1 \notin Building(frames)
      BY <2>7, <2>8, <3>1, <3>2, <3>3, StackGrows
    <3>5. stack' = Append(frames, f)
      BY <2>9 DEF f
    <3>6. Cardinality(Building(stack)') = Cardinality(Building(stack)) + 1
      <4>1. Building(stack)' = Building(stack) \cup {m + 1} /\ m + 1 \notin Building(stack)
        BY <2>8, <3>4, <3>5
      <4> QED
        BY <2>4, <4>1, FS_AddElement
    <3>7. Len(instances)' = Cardinality(done)' + Cardinality(Building(stack))'
      <4>1. n = Cardinality(done) + Cardinality(Building(stack))
        BY <2>3 DEF n
      <4> QED
        BY <2>4, <2>6, <2>9, <3>6, <4>1
    <3> QED
      BY <2>1, <2>2, <2>5, <2>6, <2>7, <2>9, <3>4, <3>5, <3>7 DEF ClassesInv
  <2>10. CASE instances' = more /\ done' = done \cup {nextId} /\ stack' = Return(frames, Ref(c, nextId))
    <3>1. StackOK(stack', more, done) /\ Building(stack)' = Building(stack)
      <4>1. SameFrames(frames, stack')
        BY <1>f, <2>10, ReturnSame
      <4> QED
        BY <2>8, <4>1, SameFramesKeep
    <3>2. \A k \in DOMAIN stack' : stack'[k].self # nextId
      <4>1. SUFFICES ASSUME NEW k \in DOMAIN stack' PROVE stack'[k].self # nextId
        OBVIOUS
      <4>2. k \in DOMAIN stack /\ stack'[k].self = stack[k].self
        BY <1>f, <2>10 DEF SameFrames
      <4>3. PICK i \in DOMAIN instances : instances[i].id = stack[k].self
        BY <2>3, <4>2 DEF StackOK
      <4>4. instances[i].id \in 1 .. nextId - 1
        BY <2>3 DEF TableOK
      <4> QED
        BY <2>3, <4>2, <4>3, <4>4
    <3>3. StackOK(stack', more, done \cup {nextId})
      BY <3>1, <3>2 DEF StackOK
    <3>4. Cardinality(done') = Cardinality(done) + 1
      BY <2>4, <2>7, <2>10, FS_AddElement
    <3>5. Len(instances)' = Cardinality(done)' + Cardinality(Building(stack))'
      <4>1. n = Cardinality(done) + Cardinality(Building(stack))
        BY <2>3 DEF n
      <4> QED
        BY <2>4, <2>6, <2>10, <3>1, <3>4, <4>1
    <3> QED
      BY <2>1, <2>2, <2>5, <2>6, <2>7, <2>10, <3>3, <3>5 DEF ClassesInv
  <2>11. CASE instances' = Rollback(more) /\ stack' = Return(frames, Nothing) /\ done' = done
    <3>1. instances' = instances
      BY <2>6, <2>11 DEF Rollback
    <3>2. StackOK(stack', instances, done) /\ Building(stack)' = Building(stack)
      BY <1>f, <2>3, <2>11, SameFramesKeep
    <3>3. n = Len(instances) /\ n <= capacity'
      BY <2>2, <2>4 DEF n
    <3> QED
      BY <2>1, <2>2, <2>3, <2>5, <2>7, <2>11, <3>1, <3>2, <3>3 DEF ClassesInv
  <2> QED
    BY <2>1, <2>9, <2>10, <2>11
<1> QED
  BY <1>1, <1>2

\* new at the prompt (arksh_shell_instantiate_class).
LEMMA NewStep ==
  ASSUME ClassesInv, NEW c, NEW argc, New(c, argc)
  PROVE  ClassesInv'
<1>1. SameFrames(stack, stack) /\ Instantiate(c, argc, stack)
  BY StackShaped DEF ClassesInv, New
<1> QED
  BY <1>1, InstantiateStep

\* new inside a constructor or a method, which nests one construction in another.
LEMMA NewStatementStep ==
  ASSUME ClassesInv, NewStatement
  PROVE  ClassesInv'
<1>1. stack # <<>> /\ Instantiate(Head(Top.todo)[2], 0, Advanced)
  BY DEF NewStatement, Runs
<1>2. SameFrames(stack, stack)
  BY StackShaped DEF ClassesInv
<1>3. SameFrames(stack, Advanced)
  BY <1>1, <1>2, AdvancedSame
<1> QED
  BY <1>1, <1>3, InstantiateStep

\* A method starts on an instance that is there; no constructor runs.
LEMMA CallStep ==
  ASSUME ClassesInv, NEW id, NEW m, Call(id, m)
  PROVE  ClassesInv'
<1> DEFINE f == Frame("call", id, LookupMethod(classes, instances[Find(id)].class, m))
<1>1. /\ stack = <<>> /\ stack' = <<f>> /\ UNCHANGED <<instances, capacity, nextId, done>>
      /\ \E i \in DOMAIN instances : instances[i].id = id
  BY DEF Call, Slots
<1>2. /\ f = [kind |-> f.kind, self |-> f.self, at |-> f.at, todo |-> f.todo, x |-> f.x]
      /\ f.kind = "call" /\ f.self = id
  BY DEF Frame
<1> HIDE DEF f
<1>3. <<f>> = Append(<<>>, f) /\ DOMAIN <<>> = {} /\ \A k \in {} : k # k
  OBVIOUS
<1>4. StackOK(<<>>, instances, done)
  BY <1>1 DEF ClassesInv
<1>5. StackOK(<<f>>, instances, done) /\ Building(<<f>>) = Building(<<>>)
  <2>1. \A k \in DOMAIN <<>> : <<>>[k].self < f.self
    BY <1>3
  <2>2. f.kind # "new"
    BY <1>2
  <2>3. \E i \in DOMAIN instances : instances[i].id = f.self
    BY <1>1, <1>2
  <2>4. StackOK(Append(<<>>, f), instances, done) /\ Building(Append(<<>>, f)) = Building(<<>>)
    BY <1>2, <1>4, <2>1, <2>2, <2>3, StackGrows
  <2> QED
    BY <1>3, <2>4
<1> QED
  BY <1>1, <1>5 DEF ClassesInv

\* set() changes the fields of an entry and nothing else.
LEMMA SetStatementStep ==
  ASSUME ClassesInv, SetStatement
  PROVE  ClassesInv'
<1>1. stack # <<>> /\ stack' = Advanced /\ UNCHANGED <<capacity, nextId, done>>
  BY DEF SetStatement, Runs
<1>2. SameFrames(stack, stack')
  BY <1>1, StackShaped, AdvancedSame DEF ClassesInv
<1>3. StackOK(stack', instances, done) /\ Building(stack') = Building(stack)
  BY <1>2, SameFramesKeep DEF ClassesInv
<1>4. CASE instances' = instances
  BY <1>1, <1>3, <1>4 DEF ClassesInv
<1>5. CASE instances' # instances
  <2> DEFINE s == Find(Top.self)
             g == instances[s]
             w == With(g.fields, Head(Top.todo)[2], Top.x)
             h == [g EXCEPT !.fields = w]
             u == [instances EXCEPT ![s] = h]
  <2>1. Slots(Top.self) # {}
    BY <1>5 DEF SetStatement
  <2>2. s \in DOMAIN instances
    BY <2>1 DEF Find, Slots
  <2>3. instances' = u
    BY <2>1 DEF SetStatement
  <2>4. g = [id |-> g.id, class |-> g.class, fields |-> g.fields]
    BY <2>2 DEF ClassesInv, TableOK
  <2> HIDE DEF w
  <2>5. h = [id |-> g.id, class |-> g.class, fields |-> w]
    <3> HIDE DEF g
    <3> QED
      BY <2>4
  <2>6. h = [id |-> h.id, class |-> h.class, fields |-> h.fields] /\ h.id = g.id
    BY <2>5
  <2> HIDE DEF h, s
  <2>7. /\ IsSeq(u) /\ DOMAIN u = DOMAIN instances /\ Len(u) = Len(instances) /\ u[s] = h
        /\ \A i \in DOMAIN instances : i # s => u[i] = instances[i]
    <3>1. IsSeq(instances)
      BY DEF ClassesInv, TableOK
    <3> QED
      BY <2>2, <3>1, ReplacedAny
  <2> HIDE DEF u
  <2>8. \A i \in DOMAIN instances : u[i].id = instances[i].id
    BY <2>6, <2>7
  <2>9. \A i \in DOMAIN instances : u[i] = [id |-> u[i].id, class |-> u[i].class, fields |-> u[i].fields]
    <3>1. \A i \in DOMAIN instances :
            instances[i] = [id |-> instances[i].id, class |-> instances[i].class, fields |-> instances[i].fields]
      BY DEF ClassesInv, TableOK
    <3> QED
      BY <2>6, <2>7, <3>1
  <2>10. TableOK(u, nextId)
    BY <2>7, <2>8, <2>9 DEF ClassesInv, TableOK
  <2>11. StackOK(stack', u, done)
    BY <1>3, <2>7, <2>8, StackServed
  <2> QED
    BY <1>1, <1>3, <2>3, <2>7, <2>10, <2>11 DEF ClassesInv
<1> QED
  BY <1>4, <1>5

\* A block that has a result ends; a constructor's instance is completed.
LEMMA ResultStatementStep ==
  ASSUME ClassesInv, ResultStatement
  PROVE  ClassesInv'
<1> DEFINE n == Len(stack)
           rest == Front(stack)
<1>1. stack # <<>> /\ UNCHANGED <<instances, capacity, nextId>>
  BY DEF ResultStatement, Runs
<1>2. /\ StackOK(rest, instances, done) /\ n \in DOMAIN stack
      /\ Building(rest) = Building(stack) \ {n} /\ (n \in Building(stack) <=> stack[n].kind = "new")
      /\ \A k \in DOMAIN rest : rest[k].self < stack[n].self
  BY <1>1, StackShrinks DEF ClassesInv
<1>3. /\ IsFiniteSet(done) /\ Cardinality(done) \in Nat
      /\ IsFiniteSet(Building(stack)) /\ Cardinality(Building(stack)) \in Nat
  BY FiniteFacts
<1>4. Top = stack[n] /\ Rest = rest
  BY DEF Top, Rest
<1>5. SameFrames(rest, rest)
  BY <1>2, StackShaped
<1>6. PICK i \in DOMAIN instances : instances[i].id = stack[n].self
  BY <1>2 DEF ClassesInv, StackOK
<1>7. stack[n].self \in 1 .. nextId - 1
  BY <1>6 DEF ClassesInv, TableOK
<1> HIDE DEF rest, n
<1>8. CASE Top.kind = "new"
  <2>1. PICK v : stack' = Return(rest, v) /\ done' = done \cup {stack[n].self}
    BY <1>4, <1>8 DEF ResultStatement
  <2>2. SameFrames(rest, stack')
    BY <1>5, <2>1, ReturnSame
  <2>3. StackOK(stack', instances, done) /\ Building(stack') = Building(rest)
    BY <1>2, <2>2, SameFramesKeep
  <2>4. \A k \in DOMAIN stack' : stack'[k].self # stack[n].self
    <3>1. SUFFICES ASSUME NEW k \in DOMAIN stack' PROVE stack'[k].self # stack[n].self
      OBVIOUS
    <3>2. k \in DOMAIN rest /\ stack'[k].self = rest[k].self /\ rest[k].self < stack[n].self
      BY <1>2, <2>2 DEF SameFrames
    <3>3. PICK j \in DOMAIN instances : instances[j].id = rest[k].self
      BY <1>2, <3>2 DEF StackOK
    <3>4. rest[k].self \in 1 .. nextId - 1
      BY <3>3 DEF ClassesInv, TableOK
    <3> QED
      BY <1>7, <3>2, <3>4
  <2>5. StackOK(stack', instances, done')
    BY <2>1, <2>3, <2>4 DEF StackOK
  <2>6. stack[n].self \notin done /\ n \in Building(stack)
    BY <1>2, <1>4, <1>8 DEF ClassesInv, StackOK
  <2>7. Cardinality(done') = Cardinality(done) + 1
    BY <1>3, <2>1, <2>6, FS_AddElement
  <2>8. Cardinality(Building(stack')) = Cardinality(Building(stack)) - 1
    <3>1. Building(stack') = Building(stack) \ {n}
      BY <1>2, <2>3
    <3>2. Cardinality(Building(stack) \ {n}) = Cardinality(Building(stack)) - 1
      BY <1>3, <2>6, FS_RemoveElement
    <3> QED
      BY <3>1, <3>2
  <2>9. Cardinality(done') + Cardinality(Building(stack')) = Cardinality(done) + Cardinality(Building(stack))
    BY <1>3, <2>7, <2>8
  <2>10. done' \subseteq 1 .. nextId - 1
    BY <1>7, <2>1 DEF ClassesInv
  <2> QED
    BY <1>1, <2>5, <2>9, <2>10 DEF ClassesInv
<1>9. CASE Top.kind # "new"
  <2>1. Building(rest) = Building(stack)
    BY <1>2, <1>4, <1>9
  <2>2. Top.kind = "call"
    BY <1>2, <1>4, <1>9 DEF ClassesInv, StackOK
  <2>3. stack' = rest /\ done' = done
    BY <1>4, <2>2 DEF ResultStatement
  <2> QED
    BY <1>1, <1>2, <2>1, <2>3 DEF ClassesInv
<1> QED
  BY <1>8, <1>9

\* A block that ends without a result fails; a constructor takes the last entry
\* with it, which is its own or that of an instance it made.
LEMMA BlockFailsStep ==
  ASSUME ClassesInv, BlockFails
  PROVE  ClassesInv'
<1> DEFINE n == Len(stack)
           m == Len(instances)
           rest == Front(stack)
<1>1. /\ stack # <<>> /\ stack' = Return(rest, Nothing) /\ UNCHANGED <<capacity, nextId, done>>
      /\ instances' = IF stack[n].kind = "new" THEN Front(instances) ELSE instances
  BY DEF BlockFails, Rest, Top, Rollback
<1>2. /\ StackOK(rest, instances, done) /\ n \in DOMAIN stack
      /\ Building(rest) = Building(stack) \ {n} /\ (n \in Building(stack) <=> stack[n].kind = "new")
      /\ \A k \in DOMAIN rest : rest[k].self < stack[n].self
  BY <1>1, StackShrinks DEF ClassesInv
<1>3. /\ IsFiniteSet(done) /\ Cardinality(done) \in Nat
      /\ IsFiniteSet(Building(stack)) /\ Cardinality(Building(stack)) \in Nat
      /\ m \in Nat /\ DOMAIN instances = 1 .. m
  BY FiniteFacts
<1>4. SameFrames(rest, stack')
  BY <1>1, <1>2, StackShaped, ReturnSame
<1>5. StackOK(stack', instances, done) /\ Building(stack') = Building(rest)
  BY <1>2, <1>4, SameFramesKeep
<1>6. CASE stack[n].kind # "new"
  <2>1. Building(stack') = Building(stack)
    BY <1>2, <1>5, <1>6
  <2> QED
    BY <1>1, <1>5, <1>6, <2>1 DEF ClassesInv
<1>7. CASE stack[n].kind = "new"
  <2>1. PICK i \in DOMAIN instances : instances[i].id = stack[n].self
    BY <1>2 DEF ClassesInv, StackOK
  <2>2. instances # <<>> /\ IsSeq(instances)
    BY <2>1 DEF ClassesInv, TableOK
  <2>3. instances' = Front(instances)
    BY <1>1, <1>7
  <2>4. /\ m \in Nat \ {0} /\ Len(instances') = m - 1 /\ DOMAIN instances' = 1 .. m - 1
        /\ \A j \in 1 .. m - 1 : instances'[j] = instances[j]
    BY <2>2, <2>3, FrontAny, ShorterAny
  <2>5. TableOK(instances', nextId)
    BY <2>2, <2>3, TableShrinks DEF ClassesInv
  <2> HIDE DEF m, n, rest
  \* The instances of the blocks that go on are older than the one removed.
  <2>6. ASSUME NEW k \in DOMAIN stack' PROVE \E j \in DOMAIN instances' : instances'[j].id = stack'[k].self
    <3>1. k \in DOMAIN rest /\ stack'[k].self = rest[k].self /\ rest[k].self < stack[n].self
      BY <1>2, <1>4 DEF SameFrames
    <3>2. PICK j \in DOMAIN instances : instances[j].id = rest[k].self
      BY <1>2, <3>1 DEF StackOK
    <3>3. instances[j].id < instances[i].id /\ j \in 1 .. m /\ i \in 1 .. m
      BY <1>3, <2>1, <3>1, <3>2
    <3>4. j # m
      <4>1. SUFFICES ASSUME j = m PROVE FALSE
        OBVIOUS
      <4>2. i = j \/ instances[i].id < instances[j].id
        <5>1. i = j \/ i < j
          BY <1>3, <3>3, <4>1
        <5> QED
          BY <5>1, <1>3, <3>3 DEF ClassesInv, TableOK
      <4>3. instances[i].id \in Int /\ instances[j].id \in Int
        <5>1. \A a \in DOMAIN instances : instances[a].id \in 1 .. nextId - 1
          BY DEF ClassesInv, TableOK
        <5>2. \A y \in 1 .. nextId - 1 : y \in Int
          OBVIOUS
        <5> QED
          BY <1>3, <3>3, <5>1, <5>2
      <4> QED
        BY <3>3, <4>2, <4>3
    <3>5. j \in 1 .. m - 1
      BY <1>3, <3>3, <3>4
    <3> QED
      BY <2>4, <3>1, <3>2, <3>5
  <2>7. StackOK(stack', instances', done)
    BY <1>5, <2>6 DEF StackOK
  <2>8. Cardinality(Building(stack')) = Cardinality(Building(stack)) - 1
    <3>1. Building(stack') = Building(stack) \ {n}
      BY <1>2, <1>5
    <3>2. Cardinality(Building(stack) \ {n}) = Cardinality(Building(stack)) - 1
      BY <1>2, <1>3, <1>7, FS_RemoveElement
    <3> QED
      BY <3>1, <3>2
  <2>9. m = Cardinality(done) + Cardinality(Building(stack)) /\ m <= capacity /\ capacity \in Nat
    BY DEF ClassesInv, m
  <2>10. m - 1 = Cardinality(done) + (Cardinality(Building(stack)) - 1) /\ m - 1 <= capacity
    BY <1>3, <2>9
  <2>11. /\ Len(instances') = Cardinality(done) + Cardinality(Building(stack'))
         /\ Len(instances') <= capacity
    BY <2>4, <2>8, <2>10
  <2> QED
    BY <1>1, <2>5, <2>7, <2>11 DEF ClassesInv
<1> QED
  BY <1>6, <1>7

-----------------------------------------------------------------------------
(* The theorem *)

\* There is no instance at the start.
LEMMA ClassesInit == Init => ClassesInv
<1>1. SUFFICES ASSUME Init PROVE ClassesInv
  OBVIOUS
<1>2. IsSeq(<<>>) /\ DOMAIN <<>> = {} /\ Len(<<>>) = 0
  <2>1. <<>> \in Seq({})
    OBVIOUS
  <2> QED
    BY <2>1 DEF IsSeq
<1>3. TableOK(<<>>, 1) /\ StackOK(<<>>, <<>>, {}) /\ Building(<<>>) = {}
  BY <1>2 DEF TableOK, StackOK, Building
<1>4. Cardinality({}) = 0
  BY FS_EmptySet
<1>5. instances = <<>> /\ stack = <<>> /\ capacity = 0 /\ nextId = 1 /\ done = {}
  BY <1>1 DEF Init
<1>6. Len(instances) = 0 /\ Cardinality(done) = 0 /\ Cardinality(Building(stack)) = 0
  BY <1>2, <1>3, <1>4, <1>5
<1>7. TableOK(instances, nextId) /\ StackOK(stack, instances, done)
  BY <1>3, <1>5
<1> QED
  BY <1>5, <1>6, <1>7 DEF ClassesInv

\* One case for each action.
LEMMA ClassesNext == ClassesInv /\ [Next]_vars => ClassesInv'
<1>1. SUFFICES ASSUME ClassesInv, [Next]_vars PROVE ClassesInv'
  OBVIOUS
<1>2. CASE UNCHANGED vars
  BY <1>1, <1>2 DEF vars, ClassesInv
<1>3. CASE \E d \in Definitions : Define(d)
  <2>1. UNCHANGED <<instances, capacity, nextId, stack, done>>
    BY <1>3 DEF Define
  <2> QED
    BY <1>1, <2>1 DEF ClassesInv
<1>4. CASE \E c \in ClassNames, argc \in 0 .. 1 : New(c, argc)
  BY <1>1, <1>4, NewStep
<1>5. CASE \E id \in 1 .. MaxId : Call(id, "go")
  BY <1>1, <1>5, CallStep
<1>6. CASE NewStatement
  BY <1>1, <1>6, NewStatementStep
<1>7. CASE SetStatement
  BY <1>1, <1>7, SetStatementStep
<1>8. CASE ResultStatement
  BY <1>1, <1>8, ResultStatementStep
<1>9. CASE BlockFails
  BY <1>1, <1>9, BlockFailsStep
<1> QED
  BY <1>1, <1>2, <1>3, <1>4, <1>5, <1>6, <1>7, <1>8, <1>9 DEF Next

\* Whatever constructors fail, at whatever depth and with whatever arguments,
\* rollback_last_instance keeps the table of instances in step with the
\* constructions that were completed or still run, and the instance of every
\* block that runs stays in it (shell.c, arksh_shell_instantiate_class).
THEOREM RollbackKeepsStep == Spec => []InstancesInStep
<1>1. ASSUME ClassesInv PROVE InstancesInStep
  <2> DEFINE m == Len(instances)
  <2>1. m \in Nat /\ DOMAIN instances = 1 .. m
    BY <1>1, FiniteFacts
  <2>2. m = Cardinality(done) + Cardinality({k \in DOMAIN stack : stack[k].kind = "new"}) /\ m <= capacity
    BY <1>1 DEF ClassesInv, Building
  <2> HIDE DEF m
  <2>3. \A i \in 1 .. m - 1 : instances[i].id < instances[i + 1].id
    <3>1. \A i \in 1 .. m - 1 : i \in 1 .. m /\ i + 1 \in 1 .. m /\ i < i + 1
      BY <2>1
    <3> QED
      BY <1>1, <2>1, <3>1 DEF ClassesInv, TableOK
  <2>4. \A k \in DOMAIN stack : Slots(stack[k].self) # {}
    BY <1>1 DEF ClassesInv, StackOK, Slots
  <2> QED
    BY <2>2, <2>3, <2>4 DEF InstancesInStep, m
<1> QED
  BY <1>1, ClassesInit, ClassesNext, PTL DEF Spec

-----------------------------------------------------------------------------
(* The hierarchy.  Whether a definition would close a loop is decided by a  *)
(* search of limited depth; the invariant says that following bases always  *)
(* ends, and that the limit is never what ends it.                          *)

\* The recursive function of ChainContains: one round adds the classes that
\* have target, or a class of the set, as a base.
HasBaseIn(cls, c, I) == \E i \in DOMAIN cls[c].bases : cls[c].bases[i] \in I
Derived(cls, target) == [I \in SUBSET DOMAIN cls |-> {c \in DOMAIN cls : HasBaseIn(cls, c, I \cup {target})}]
Chain(f, cls, target) ==
  f = [n \in Depths |->
         IF n = 0 THEN {}
         ELSE {c \in DOMAIN cls : \E i \in DOMAIN cls[c].bases :
                                    cls[c].bases[i] = target \/ cls[c].bases[i] \in f[n - 1]}]

\* Every base is a class, and following bases always ends.
BasesDefined(cls) == \A c \in DOMAIN cls : \A i \in DOMAIN cls[c].bases : cls[c].bases[i] \in DOMAIN cls
WellFounded(cls) == \A S \in SUBSET DOMAIN cls : S # {} => \E c \in S : ~ HasBaseIn(cls, c, S)

HierarchyInv ==
  /\ IsFiniteSet(DOMAIN classes) /\ Cardinality(DOMAIN classes) <= MaxClasses
  /\ BasesDefined(classes)
  /\ WellFounded(classes)

\* There is such a function, and it says what ChainContains says.
LEMMA ChainOf ==
  ASSUME NEW cls, NEW target
  PROVE  \E f : /\ Chain(f, cls, target)
                /\ \A c : ChainContains(cls, c, target) <=> c \in f[MaxClasses + 1]
<1> DEFINE N == MaxClasses + 1
           G == Derived(cls, target)
           P == SUBSET DOMAIN cls
<1>0. N \in Nat /\ Depths = 0 .. N
  BY ClassLimits DEF Depths
<1>1. G \in [P -> P] /\ {} \in P
  BY DEF Derived
<1>2. \A I \in P : G[I] = {c \in DOMAIN cls : HasBaseIn(cls, c, I \cup {target})}
  BY DEF Derived
<1> HIDE DEF N, G
<1>3. PICK f : Iteration(f, P, {}, G, N)
  BY <1>0, <1>1, Iterates
<1>4. f \in [0 .. N -> P] /\ f[0] = {} /\ \A k \in 1 .. N : f[k] = G[f[k - 1]]
  BY <1>3 DEF Iteration
<1>5. ASSUME NEW n \in Depths, n # 0
      PROVE  f[n] = {c \in DOMAIN cls : \E i \in DOMAIN cls[c].bases :
                                           cls[c].bases[i] = target \/ cls[c].bases[i] \in f[n - 1]}
  <2>1. n \in 1 .. N /\ n - 1 \in 0 .. N
    BY <1>0, <1>5
  <2>2. f[n - 1] \in P /\ f[n] = G[f[n - 1]]
    BY <2>1, <1>4
  <2>3. f[n] = {c \in DOMAIN cls : HasBaseIn(cls, c, f[n - 1] \cup {target})}
    BY <2>2, <1>2
  <2>4. \A c : HasBaseIn(cls, c, f[n - 1] \cup {target}) <=>
              \E i \in DOMAIN cls[c].bases : cls[c].bases[i] = target \/ cls[c].bases[i] \in f[n - 1]
    BY DEF HasBaseIn
  <2> QED
    BY <2>3, <2>4
<1>6. Chain(f, cls, target)
  BY <1>0, <1>4, <1>5 DEF Chain
<1>7. Chain(CHOOSE g : Chain(g, cls, target), cls, target)
  BY <1>6
<1>8. \A c : ChainContains(cls, c, target) <=> c \in (CHOOSE g : Chain(g, cls, target))[MaxClasses + 1]
  BY DEF ChainContains, Chain
<1> QED
  BY <1>7, <1>8

\* What a round does
LEMMA ChainFacts ==
  ASSUME NEW cls, NEW target, NEW f, Chain(f, cls, target)
  PROVE  /\ MaxClasses \in Nat
         /\ f[0] = {}
         /\ \A n \in 0 .. MaxClasses : \A c :
              c \in f[n + 1] <=> c \in DOMAIN cls /\ HasBaseIn(cls, c, f[n] \cup {target})
<1>1. MaxClasses \in Nat /\ Depths = 0 .. MaxClasses + 1
  BY ClassLimits DEF Depths
<1> DEFINE Round(I) == {x \in DOMAIN cls : \E i \in DOMAIN cls[x].bases :
                                              cls[x].bases[i] = target \/ cls[x].bases[i] \in I}
<1>r. \A n \in Depths : f[n] = IF n = 0 THEN {} ELSE Round(f[n - 1])
  BY Zenon DEF Chain
<1> HIDE DEF Round
<1>2. f[0] = {}
  <2>1. 0 \in Depths
    BY <1>1
  <2> QED
    BY <2>1, <1>r, Zenon
<1>3. ASSUME NEW n \in 0 .. MaxClasses, NEW c
      PROVE  c \in f[n + 1] <=> c \in DOMAIN cls /\ HasBaseIn(cls, c, f[n] \cup {target})
  <2>1. n + 1 \in Depths /\ n + 1 # 0 /\ n + 1 - 1 = n
    BY <1>1
  <2>2. f[n + 1] = Round(f[n])
    BY <2>1, <1>r
  <2> QED
    BY <2>2 DEF HasBaseIn, Round
<1> QED
  BY <1>1, <1>2, <1>3

\* No more than MaxClasses rounds change anything.
LEMMA Saturates ==
  ASSUME NEW cls, NEW target, NEW f, Chain(f, cls, target),
         IsFiniteSet(DOMAIN cls), Cardinality(DOMAIN cls) <= MaxClasses
  PROVE  f[MaxClasses] = f[MaxClasses + 1]
<1> DEFINE M == MaxClasses
           S == {n \in 0 .. M : /\ f[n] \subseteq f[n + 1]
                                /\ f[n] = f[n + 1] \/ Cardinality(f[n + 1]) >= n + 1}
<1>1. /\ M \in Nat /\ f[0] = {}
      /\ \A n \in 0 .. M : \A c : c \in f[n + 1] <=>
            c \in DOMAIN cls /\ HasBaseIn(cls, c, f[n] \cup {target})
  BY ChainFacts
<1> HIDE DEF M
<1>2. \A n \in 0 .. M : /\ f[n + 1] \subseteq DOMAIN cls /\ IsFiniteSet(f[n + 1])
                        /\ Cardinality(f[n + 1]) \in Nat /\ Cardinality(f[n + 1]) <= M
  <2>1. SUFFICES ASSUME NEW n \in 0 .. M
                 PROVE  /\ f[n + 1] \subseteq DOMAIN cls /\ IsFiniteSet(f[n + 1])
                        /\ Cardinality(f[n + 1]) \in Nat /\ Cardinality(f[n + 1]) <= M
    OBVIOUS
  <2>2. f[n + 1] \subseteq DOMAIN cls
    BY <1>1
  <2>3. IsFiniteSet(f[n + 1]) /\ Cardinality(f[n + 1]) <= Cardinality(DOMAIN cls)
    BY <2>2, FS_Subset
  <2>4. Cardinality(f[n + 1]) \in Nat /\ Cardinality(DOMAIN cls) \in Nat
    BY <2>3, FS_CardinalityType
  <2> QED
    BY <1>1, <2>2, <2>3, <2>4 DEF M
<1>3. 0 \in S
  <2>1. 0 \in 0 .. M /\ f[0] \subseteq f[0 + 1]
    BY <1>1
  <2>2. f[0] = f[0 + 1] \/ Cardinality(f[0 + 1]) >= 0 + 1
    <3>1. SUFFICES ASSUME f[0 + 1] # {} PROVE Cardinality(f[0 + 1]) >= 1
      BY <1>1
    <3>2. Cardinality(f[0 + 1]) # 0 /\ Cardinality(f[0 + 1]) \in Nat
      BY <2>1, <1>2, <3>1, FS_EmptySet
    <3> QED
      BY <3>2
  <2> QED
    BY <2>1, <2>2
<1>4. ASSUME NEW n \in 0 .. M - 1, n \in S PROVE n + 1 \in S
  <2>1. n \in 0 .. M /\ n + 1 \in 0 .. M
    BY <1>1
  <2>2. f[n] \subseteq f[n + 1] /\ (f[n] = f[n + 1] \/ Cardinality(f[n + 1]) >= n + 1)
    BY <1>4
  <2> DEFINE a == f[n]  b == f[n + 1]  c == f[n + 1 + 1]
  <2>3. \A x : x \in b <=> x \in DOMAIN cls /\ HasBaseIn(cls, x, a \cup {target})
    BY <2>1, <1>1
  <2>4. \A x : x \in c <=> x \in DOMAIN cls /\ HasBaseIn(cls, x, b \cup {target})
    BY <2>1, <1>1
  <2>5. b \subseteq c
    <3> HIDE DEF a, b, c
    <3>1. a \subseteq b
      BY <2>2 DEF a, b
    <3>2. \A x : HasBaseIn(cls, x, a \cup {target}) => HasBaseIn(cls, x, b \cup {target})
      BY <3>1 DEF HasBaseIn
    <3> QED
      BY <2>3, <2>4, <3>2
  <2>6. CASE a = b
    <3> HIDE DEF a, b, c
    <3>1. \A x : x \in b <=> x \in c
      BY <2>3, <2>4, <2>6
    <3>2. b = c
      <4>1. b \subseteq c /\ c \subseteq b
        BY <3>1
      <4> QED
        BY <4>1
    <3> QED
      BY <2>1, <2>5, <3>2 DEF b, c
  <2>7. CASE a # b
    <3>1. Cardinality(b) >= n + 1 /\ Cardinality(b) \in Nat /\ Cardinality(c) \in Nat /\ IsFiniteSet(c)
      BY <2>1, <2>2, <2>7, <1>2
    <3> HIDE DEF a, b, c
    <3>2. b = c \/ Cardinality(b) < Cardinality(c)
      <4>1. Cardinality(b) <= Cardinality(c) /\ (Cardinality(b) = Cardinality(c) => b = c)
        BY <2>5, <3>1, FS_Subset
      <4> QED
        BY <3>1, <4>1
    <3>3. b = c \/ Cardinality(c) >= n + 1 + 1
      BY <2>1, <3>1, <3>2
    <3> QED
      BY <2>1, <2>5, <3>3 DEF b, c
  <2> QED
    BY <2>6, <2>7
<1>5. M \in S
  <2> HIDE DEF S
  <2>1. 0 .. M \subseteq S
    BY <1>1, <1>3, <1>4, Induction
  <2> QED
    BY <1>1, <2>1
<1>6. M \in 0 .. M
  BY <1>1
<1>7. ~ (Cardinality(f[M + 1]) >= M + 1)
  BY <1>1, <1>2, <1>6
<1> QED
  BY <1>5, <1>7 DEF M

\* Where following bases always ends, no class is derived from itself.
LEMMA NoLoop ==
  ASSUME NEW cls, BasesDefined(cls), WellFounded(cls), NEW t \in DOMAIN cls
  PROVE  ~ ChainContains(cls, t, t)
<1>1. PICK f : /\ Chain(f, cls, t)
               /\ \A c : ChainContains(cls, c, t) <=> c \in f[MaxClasses + 1]
  BY ChainOf
<1>2. /\ MaxClasses \in Nat /\ f[0] = {}
      /\ \A n \in 0 .. MaxClasses : \A c : c \in f[n + 1] <=>
            c \in DOMAIN cls /\ HasBaseIn(cls, c, f[n] \cup {t})
  BY <1>1, ChainFacts
<1> DEFINE S == {c \in DOMAIN cls : \E n \in 0 .. MaxClasses + 1 : c \in f[n]}
<1>3. SUFFICES ASSUME ChainContains(cls, t, t) PROVE FALSE
  OBVIOUS
<1>4. t \in S
  <2>1. t \in f[MaxClasses + 1] /\ MaxClasses + 1 \in 0 .. MaxClasses + 1
    BY <1>1, <1>2, <1>3
  <2> QED
    BY <2>1
<1>5. PICK c \in S : ~ HasBaseIn(cls, c, S)
  <2>1. S \in SUBSET DOMAIN cls /\ S # {}
    BY <1>4
  <2> HIDE DEF S
  <2> QED
    BY <2>1 DEF WellFounded
<1>6. PICK n \in 0 .. MaxClasses + 1 : c \in f[n]
  BY <1>5
<1>7. n - 1 \in 0 .. MaxClasses /\ n - 1 + 1 = n /\ n - 1 \in 0 .. MaxClasses + 1
  BY <1>2, <1>6
<1>8. c \in DOMAIN cls /\ HasBaseIn(cls, c, f[n - 1] \cup {t})
  BY <1>2, <1>6, <1>7
<1>9. HasBaseIn(cls, c, S)
  <2>1. PICK i \in DOMAIN cls[c].bases : cls[c].bases[i] \in f[n - 1] \cup {t}
    BY <1>8 DEF HasBaseIn
  <2>2. cls[c].bases[i] \in DOMAIN cls
    BY <1>8 DEF BasesDefined
  <2>3. cls[c].bases[i] \in S
    BY <2>1, <2>2, <1>4, <1>7
  <2> HIDE DEF S
  <2> QED
    BY <2>3 DEF HasBaseIn
<1> QED
  BY <1>5, <1>9

\* Bases are looked up by name; members do not matter.
LEMMA FromBases ==
  ASSUME NEW cls, NEW d
  PROVE  LET cand == With(cls, d.name, [bases |-> d.bases])
             new  == With(cls, d.name, Candidate(d))
         IN  /\ DOMAIN cand = DOMAIN cls \cup {d.name} /\ DOMAIN new = DOMAIN cls \cup {d.name}
             /\ cand[d.name].bases = d.bases /\ new[d.name].bases = d.bases
             /\ \A c \in DOMAIN cls : c # d.name => cand[c] = cls[c] /\ new[c] = cls[c]
BY DEF With, Candidate

\* A definition that arksh_shell_set_class accepts leads to no loop, whatever
\* the class it replaces was derived from and whatever was derived from it.
LEMMA DefineStep ==
  ASSUME HierarchyInv, NEW d \in Definitions, Define(d)
  PROVE  HierarchyInv'
<1> DEFINE cand == With(classes, d.name, [bases |-> d.bases])
           new  == With(classes, d.name, Candidate(d))
           D    == DOMAIN classes \cup {d.name}
<1>1. CASE Refused(d)
  BY <1>1 DEF Define, HierarchyInv
<1>2. CASE ~ Refused(d)
  <2>1. classes' = new
    BY <1>2 DEF Define
  <2>2. /\ \A i \in DOMAIN d.bases : /\ d.bases[i] # d.name /\ d.bases[i] \in DOMAIN classes
                                     /\ ~ ChainContains(cand, d.bases[i], d.name)
        /\ d.name \in DOMAIN classes \/ ~ (Cardinality(DOMAIN classes) >= MaxClasses)
    BY <1>2 DEF Refused
  <2>3. /\ DOMAIN cand = D /\ DOMAIN new = D
        /\ cand[d.name].bases = d.bases /\ new[d.name].bases = d.bases
        /\ \A c \in DOMAIN classes : c # d.name => cand[c] = classes[c] /\ new[c] = classes[c]
    BY FromBases
  <2>0. /\ IsFiniteSet(DOMAIN classes) /\ Cardinality(DOMAIN classes) <= MaxClasses
        /\ BasesDefined(classes) /\ WellFounded(classes) /\ MaxClasses \in Nat
    BY ClassLimits DEF HierarchyInv
  <2>4. IsFiniteSet(D) /\ Cardinality(D) <= MaxClasses
    <3>1. CASE d.name \in DOMAIN classes
      <4>1. D = DOMAIN classes
        BY <3>1
      <4> QED
        BY <4>1, <2>0
    <3>2. CASE d.name \notin DOMAIN classes
      <4>1. IsFiniteSet(D) /\ Cardinality(D) = Cardinality(DOMAIN classes) + 1
        BY <2>0, <3>2, FS_AddElement
      <4>2. Cardinality(DOMAIN classes) \in Nat
        BY <2>0, FS_CardinalityType
      <4> QED
        BY <4>1, <4>2, <2>0, <2>2, <3>2
    <3> QED
      BY <3>1, <3>2
  <2> HIDE DEF cand, new
  <2>5. BasesDefined(new)
    BY <2>0, <2>2, <2>3 DEF BasesDefined
  <2>6. PICK f : /\ Chain(f, cand, d.name)
                 /\ \A c : ChainContains(cand, c, d.name) <=> c \in f[MaxClasses + 1]
    BY ChainOf
  <2> DEFINE A == f[MaxClasses]
  <2>7. A = f[MaxClasses + 1]
    BY <2>3, <2>4, <2>6, Saturates
  <2>8. \A c : c \in A <=> c \in D /\ HasBaseIn(cand, c, A \cup {d.name})
    <3>1. MaxClasses \in 0 .. MaxClasses
      BY <2>0
    <3>2. \A c : c \in f[MaxClasses + 1] <=> c \in DOMAIN cand /\ HasBaseIn(cand, c, A \cup {d.name})
      BY <2>6, <3>1, ChainFacts
    <3> QED
      BY <2>3, <2>7, <3>2
  <2>9. \A i \in DOMAIN d.bases : d.bases[i] # d.name /\ d.bases[i] \notin A
    BY <2>2, <2>6, <2>7
  <2> HIDE DEF A
  <2>10. ASSUME NEW S \in SUBSET D, S # {} PROVE \E c \in S : ~ HasBaseIn(new, c, S)
    <3> DEFINE T == {c \in S : c # d.name /\ c \notin A}
    <3>1. CASE d.name \notin S
      <4>1. S \in SUBSET DOMAIN classes /\ \A c \in S : new[c] = classes[c]
        BY <3>1, <2>3
      <4>2. PICK c \in S : ~ HasBaseIn(classes, c, S)
        BY <4>1, <2>10, <2>0 DEF WellFounded
      <4> QED
        BY <4>1, <4>2 DEF HasBaseIn
    <3>2. CASE d.name \in S /\ T = {}
      <4>1. ~ HasBaseIn(new, d.name, S)
        <5>1. \A i \in DOMAIN d.bases : d.bases[i] \notin S
          BY <3>2, <2>9
        <5> QED
          BY <5>1, <2>3 DEF HasBaseIn
      <4> QED
        BY <3>2, <4>1
    <3>3. CASE T # {}
      <4>1. T \in SUBSET DOMAIN classes
        OBVIOUS
      <4>2. PICK c \in T : ~ HasBaseIn(classes, c, T)
        <5> HIDE DEF T
        <5> QED
          BY <4>1, <3>3, <2>0 DEF WellFounded
      <4>3. c \in D /\ c # d.name /\ c \notin A /\ c \in S /\ c \in DOMAIN classes
        BY <4>2
      <4>4. new[c] = classes[c] /\ cand[c] = classes[c]
        BY <4>3, <2>3
      <4>5. ~ HasBaseIn(classes, c, A \cup {d.name})
        BY <4>3, <4>4, <2>8 DEF HasBaseIn
      <4>6. ~ HasBaseIn(new, c, S)
        BY <4>2, <4>4, <4>5 DEF HasBaseIn
      <4> QED
        BY <4>3, <4>6
    <3> QED
      BY <3>1, <3>2, <3>3
  <2>11. WellFounded(new)
    BY <2>3, <2>10 DEF WellFounded
  <2> QED
    BY <2>1, <2>3, <2>4, <2>5, <2>11 DEF HierarchyInv
<1> QED
  BY <1>1, <1>2

\* There is no class at the start.
LEMMA HierarchyInit == Init => HierarchyInv
<1>1. SUFFICES ASSUME Init PROVE HierarchyInv
  OBVIOUS
<1>2. DOMAIN classes = {}
  BY <1>1 DEF Init
<1>3. IsFiniteSet(DOMAIN classes) /\ Cardinality(DOMAIN classes) <= MaxClasses
  BY <1>2, FS_EmptySet, ClassLimits
<1> QED
  BY <1>2, <1>3 DEF HierarchyInv, BasesDefined, WellFounded

\* However classes are defined and redefined, at any limit on their number, no
\* class is derived from itself and every base is defined (shell.c,
\* arksh_shell_set_class, class_chain_contains): a search through the bases
\* ends, and not because of its limit.
THEOREM NoClassDerivesFromItself == Spec => []Hierarchy
<1>1. Init => HierarchyInv
  BY HierarchyInit
<1>2. HierarchyInv /\ [Next]_vars => HierarchyInv'
  <2>1. SUFFICES ASSUME HierarchyInv, [Next]_vars PROVE HierarchyInv'
    OBVIOUS
  <2>2. CASE \E d \in Definitions : Define(d)
    BY <2>1, <2>2, DefineStep
  <2>3. CASE UNCHANGED classes
    BY <2>1, <2>3 DEF HierarchyInv
  <2>4. (\E d \in Definitions : Define(d)) \/ UNCHANGED classes
    BY <2>1 DEF Next, vars, New, Call, NewStatement, SetStatement, ResultStatement, BlockFails
  <2> QED
    BY <2>2, <2>3, <2>4
<1>3. HierarchyInv => Hierarchy
  <2>1. SUFFICES ASSUME HierarchyInv, NEW c \in DOMAIN classes
                 PROVE  /\ ~ ChainContains(classes, c, c)
                        /\ \A i \in DOMAIN classes[c].bases : classes[c].bases[i] \in DOMAIN classes
    BY DEF Hierarchy
  <2> QED
    BY <2>1, NoLoop DEF HierarchyInv, BasesDefined
<1> QED
  BY <1>1, <1>2, <1>3, PTL DEF Spec

-----------------------------------------------------------------------------
(* Lookups and defaults.  Each lookup is computed level by level: what a    *)
(* search that sees classes n deep finds.                                   *)

\* What a lookup finds
Finding(f, cls, own, p) ==
  /\ \A c \in ClassNames : f[0][c] = Unknown
  /\ \A n \in 0 .. MaxClasses : \A c \in ClassNames :
       f[n + 1][c] = IF c \notin DOMAIN cls THEN Unknown
                     ELSE IF p \in DOMAIN own[c] THEN own[c][p]
                     ELSE FirstKnown([i \in DOMAIN cls[c].bases |-> f[n][cls[c].bases[i]]])
  /\ \A c : Lookup(cls, own, c, p) = f[MaxClasses + 1][c]
LEMMA FindRun == ASSUME NEW cls, NEW own, NEW p PROVE \E f : Finding(f, cls, own, p)
<1> DEFINE N == MaxClasses + 1
           Level(n, g) == [c \in ClassNames |-> IF n = 0 \/ c \notin DOMAIN cls THEN Unknown
                                               ELSE IF p \in DOMAIN own[c] THEN own[c][p]
                                               ELSE FirstKnown([i \in DOMAIN cls[c].bases |-> g[cls[c].bases[i]]])]
           Run(f, m) == f = [n \in 0 .. m |-> Level(n, f[n - 1])]
           T == {m \in 0 .. N : \E f : Run(f, m)}
<1>1. N \in Nat /\ Depths = 0 .. N /\ MaxClasses \in Nat
  BY ClassLimits DEF Depths
<1>2. \A g, h : Level(0, g) = Level(0, h)
  OBVIOUS
<1> HIDE DEF Level, N
<1>3. \E f : Run(f, 0)
  <2> DEFINE f == [n \in 0 .. 0 |-> Level(0, 0)]
  <2>1. \A n \in 0 .. 0 : Level(0, 0) = Level(n, f[n - 1])
    BY <1>2
  <2>2. f = [n \in 0 .. 0 |-> Level(n, f[n - 1])]
    BY <2>1
  <2> QED
    BY <2>2
<1>4. ASSUME NEW m \in 0 .. N - 1, NEW f, Run(f, m) PROVE \E h : Run(h, m + 1)
  <2> DEFINE h == [n \in 0 .. m + 1 |-> IF n = m + 1 THEN Level(m + 1, f[m]) ELSE f[n]]
  <2>1. \A n \in 0 .. m : f[n] = Level(n, f[n - 1])
    BY <1>4
  <2>2. \A n \in 0 .. m + 1 : h[n] = Level(n, h[n - 1])
    <3>1. h[m + 1] = Level(m + 1, h[m + 1 - 1])
      BY <1>1
    <3>2. ASSUME NEW n \in 1 .. m PROVE h[n] = Level(n, h[n - 1])
      BY <1>1, <2>1
    <3>3. h[0] = Level(0, h[0 - 1])
      BY <1>1, <1>2, <2>1
    <3>4. \A n \in 0 .. m + 1 : n = 0 \/ n \in 1 .. m \/ n = m + 1
      BY <1>1
    <3> HIDE DEF h
    <3> QED
      BY <3>1, <3>2, <3>3, <3>4
  <2>3. h = [n \in 0 .. m + 1 |-> Level(n, h[n - 1])]
    <3>1. h = [n \in 0 .. m + 1 |-> h[n]]
      OBVIOUS
    <3> HIDE DEF h
    <3> QED
      BY <2>2, <3>1
  <2> QED
    BY <2>3
<1>5. \E f : Run(f, N)
  <2>1. 0 \in T /\ \A k \in 0 .. N - 1 : k \in T => k + 1 \in T
    BY <1>1, <1>3, <1>4
  <2> HIDE DEF T
  <2>2. 0 .. N \subseteq T
    BY <1>1, <2>1, Induction
  <2>3. N \in T
    BY <1>1, <2>2
  <2> QED
    BY <2>3 DEF T
<1> DEFINE r == CHOOSE f : Run(f, N)
<1>6. \A n \in 0 .. N : r[n] = Level(n, r[n - 1])
  <2>1. Run(r, N)
    BY <1>5
  <2>2. r = [n \in 0 .. N |-> Level(n, r[n - 1])]
    BY <2>1
  <2> HIDE DEF r
  <2> QED
    BY <2>2
<1>7. \A c : Lookup(cls, own, c, p) = r[MaxClasses + 1][c]
  <2>1. \A c : Lookup(cls, own, c, p) = r[N][c]
    BY <1>1 DEF Level, N, Lookup
  <2> QED
    BY <2>1 DEF N
<1> HIDE DEF r
<1>8. \A c \in ClassNames : r[0][c] = Unknown
  <2>1. r[0] = Level(0, r[0 - 1])
    BY <1>1, <1>6
  <2> QED
    BY <2>1 DEF Level
<1>9. ASSUME NEW n \in 0 .. MaxClasses, NEW c \in ClassNames
      PROVE  r[n + 1][c] = IF c \notin DOMAIN cls THEN Unknown
                           ELSE IF p \in DOMAIN own[c] THEN own[c][p]
                           ELSE FirstKnown([i \in DOMAIN cls[c].bases |-> r[n][cls[c].bases[i]]])
  <2>1. n + 1 \in 0 .. N /\ n + 1 # 0 /\ n + 1 - 1 = n
    BY <1>1 DEF N
  <2>2. r[n + 1] = Level(n + 1, r[n])
    BY <1>6, <2>1
  <2> QED
    BY <2>1, <2>2 DEF Level
<1> QED
  <2>1. Finding(r, cls, own, p)
    BY <1>7, <1>8, <1>9 DEF Finding
  <2> QED
    BY <2>1

\* What class_is_a_recursive answers
Answering(f, cls, target) ==
  /\ \A c \in ClassNames : f[0][c] = FALSE
  /\ \A n \in 0 .. MaxClasses : \A c \in ClassNames :
       f[n + 1][c] = (c = target \/ (c \in DOMAIN cls /\ \E i \in DOMAIN cls[c].bases : f[n][cls[c].bases[i]]))
  /\ \A c : IsA(cls, c, target) = f[MaxClasses + 1][c]
LEMMA IsARun == ASSUME NEW cls, NEW target PROVE \E f : Answering(f, cls, target)
<1> DEFINE N == MaxClasses + 1
           Level(n, g) == [c \in ClassNames |-> n # 0 /\ (c = target \/ (c \in DOMAIN cls /\
                                                                   \E i \in DOMAIN cls[c].bases : g[cls[c].bases[i]]))]
           Run(f, m) == f = [n \in 0 .. m |-> Level(n, f[n - 1])]
           T == {m \in 0 .. N : \E f : Run(f, m)}
<1>1. N \in Nat /\ Depths = 0 .. N /\ MaxClasses \in Nat
  BY ClassLimits DEF Depths
<1>2. \A g, h : Level(0, g) = Level(0, h)
  OBVIOUS
<1> HIDE DEF Level, N
<1>3. \E f : Run(f, 0)
  <2> DEFINE f == [n \in 0 .. 0 |-> Level(0, 0)]
  <2>1. \A n \in 0 .. 0 : Level(0, 0) = Level(n, f[n - 1])
    BY <1>2
  <2>2. f = [n \in 0 .. 0 |-> Level(n, f[n - 1])]
    BY <2>1
  <2> QED
    BY <2>2
<1>4. ASSUME NEW m \in 0 .. N - 1, NEW f, Run(f, m) PROVE \E h : Run(h, m + 1)
  <2> DEFINE h == [n \in 0 .. m + 1 |-> IF n = m + 1 THEN Level(m + 1, f[m]) ELSE f[n]]
  <2>1. \A n \in 0 .. m : f[n] = Level(n, f[n - 1])
    BY <1>4
  <2>2. \A n \in 0 .. m + 1 : h[n] = Level(n, h[n - 1])
    <3>1. h[m + 1] = Level(m + 1, h[m + 1 - 1])
      BY <1>1
    <3>2. ASSUME NEW n \in 1 .. m PROVE h[n] = Level(n, h[n - 1])
      BY <1>1, <2>1
    <3>3. h[0] = Level(0, h[0 - 1])
      BY <1>1, <1>2, <2>1
    <3>4. \A n \in 0 .. m + 1 : n = 0 \/ n \in 1 .. m \/ n = m + 1
      BY <1>1
    <3> HIDE DEF h
    <3> QED
      BY <3>1, <3>2, <3>3, <3>4
  <2>3. h = [n \in 0 .. m + 1 |-> Level(n, h[n - 1])]
    <3>1. h = [n \in 0 .. m + 1 |-> h[n]]
      OBVIOUS
    <3> HIDE DEF h
    <3> QED
      BY <2>2, <3>1
  <2> QED
    BY <2>3
<1>5. \E f : Run(f, N)
  <2>1. 0 \in T /\ \A k \in 0 .. N - 1 : k \in T => k + 1 \in T
    BY <1>1, <1>3, <1>4
  <2> HIDE DEF T
  <2>2. 0 .. N \subseteq T
    BY <1>1, <2>1, Induction
  <2>3. N \in T
    BY <1>1, <2>2
  <2> QED
    BY <2>3 DEF T
<1> DEFINE r == CHOOSE f : Run(f, N)
<1>6. \A n \in 0 .. N : r[n] = Level(n, r[n - 1])
  <2>1. Run(r, N)
    BY <1>5
  <2>2. r = [n \in 0 .. N |-> Level(n, r[n - 1])]
    BY <2>1
  <2> HIDE DEF r
  <2> QED
    BY <2>2
<1>7. \A c : IsA(cls, c, target) = r[MaxClasses + 1][c]
  <2>1. \A c : IsA(cls, c, target) = r[N][c]
    BY <1>1 DEF Level, N, IsA
  <2> QED
    BY <2>1 DEF N
<1> HIDE DEF r
<1>8. \A c \in ClassNames : r[0][c] = FALSE
  <2>1. r[0] = Level(0, r[0 - 1])
    BY <1>1, <1>6
  <2> QED
    BY <2>1 DEF Level
<1>9. ASSUME NEW n \in 0 .. MaxClasses, NEW c \in ClassNames
      PROVE  r[n + 1][c] = (c = target \/ (c \in DOMAIN cls /\ \E i \in DOMAIN cls[c].bases : r[n][cls[c].bases[i]]))
  <2>1. n + 1 \in 0 .. N /\ n + 1 # 0 /\ n + 1 - 1 = n
    BY <1>1 DEF N
  <2>2. r[n + 1] = Level(n + 1, r[n])
    BY <1>6, <2>1
  <2> QED
    BY <2>1, <2>2 DEF Level
<1> QED
  <2>1. Answering(r, cls, target)
    BY <1>7, <1>8, <1>9 DEF Answering
  <2> QED
    BY <2>1

\* The names that are listed
Listing(f, cls) ==
  /\ \A c \in ClassNames : f[0][c] = {}
  /\ \A n \in 0 .. MaxClasses : \A c \in ClassNames :
       f[n + 1][c] = IF c \notin DOMAIN cls THEN {}
                     ELSE (UNION {f[n][cls[c].bases[i]] : i \in DOMAIN cls[c].bases}) \cup DOMAIN cls[c].props
  /\ \A c : PropertyNames(cls, c) = f[MaxClasses + 1][c]
LEMMA NamesRun == ASSUME NEW cls PROVE \E f : Listing(f, cls)
<1> DEFINE N == MaxClasses + 1
           Level(n, g) == [c \in ClassNames |-> IF n = 0 \/ c \notin DOMAIN cls THEN {}
                                               ELSE (UNION {g[cls[c].bases[i]] : i \in DOMAIN cls[c].bases}) \cup DOMAIN cls[c].props]
           Run(f, m) == f = [n \in 0 .. m |-> Level(n, f[n - 1])]
           T == {m \in 0 .. N : \E f : Run(f, m)}
<1>1. N \in Nat /\ Depths = 0 .. N /\ MaxClasses \in Nat
  BY ClassLimits DEF Depths
<1>2. \A g, h : Level(0, g) = Level(0, h)
  OBVIOUS
<1> HIDE DEF Level, N
<1>3. \E f : Run(f, 0)
  <2> DEFINE f == [n \in 0 .. 0 |-> Level(0, 0)]
  <2>1. \A n \in 0 .. 0 : Level(0, 0) = Level(n, f[n - 1])
    BY <1>2
  <2>2. f = [n \in 0 .. 0 |-> Level(n, f[n - 1])]
    BY <2>1
  <2> QED
    BY <2>2
<1>4. ASSUME NEW m \in 0 .. N - 1, NEW f, Run(f, m) PROVE \E h : Run(h, m + 1)
  <2> DEFINE h == [n \in 0 .. m + 1 |-> IF n = m + 1 THEN Level(m + 1, f[m]) ELSE f[n]]
  <2>1. \A n \in 0 .. m : f[n] = Level(n, f[n - 1])
    BY <1>4
  <2>2. \A n \in 0 .. m + 1 : h[n] = Level(n, h[n - 1])
    <3>1. h[m + 1] = Level(m + 1, h[m + 1 - 1])
      BY <1>1
    <3>2. ASSUME NEW n \in 1 .. m PROVE h[n] = Level(n, h[n - 1])
      BY <1>1, <2>1
    <3>3. h[0] = Level(0, h[0 - 1])
      BY <1>1, <1>2, <2>1
    <3>4. \A n \in 0 .. m + 1 : n = 0 \/ n \in 1 .. m \/ n = m + 1
      BY <1>1
    <3> HIDE DEF h
    <3> QED
      BY <3>1, <3>2, <3>3, <3>4
  <2>3. h = [n \in 0 .. m + 1 |-> Level(n, h[n - 1])]
    <3>1. h = [n \in 0 .. m + 1 |-> h[n]]
      OBVIOUS
    <3> HIDE DEF h
    <3> QED
      BY <2>2, <3>1
  <2> QED
    BY <2>3
<1>5. \E f : Run(f, N)
  <2>1. 0 \in T /\ \A k \in 0 .. N - 1 : k \in T => k + 1 \in T
    BY <1>1, <1>3, <1>4
  <2> HIDE DEF T
  <2>2. 0 .. N \subseteq T
    BY <1>1, <2>1, Induction
  <2>3. N \in T
    BY <1>1, <2>2
  <2> QED
    BY <2>3 DEF T
<1> DEFINE r == CHOOSE f : Run(f, N)
<1>6. \A n \in 0 .. N : r[n] = Level(n, r[n - 1])
  <2>1. Run(r, N)
    BY <1>5
  <2>2. r = [n \in 0 .. N |-> Level(n, r[n - 1])]
    BY <2>1
  <2> HIDE DEF r
  <2> QED
    BY <2>2
<1>7. \A c : PropertyNames(cls, c) = r[MaxClasses + 1][c]
  <2>1. \A c : PropertyNames(cls, c) = r[N][c]
    BY <1>1 DEF Level, N, PropertyNames
  <2> QED
    BY <2>1 DEF N
<1> HIDE DEF r
<1>8. \A c \in ClassNames : r[0][c] = {}
  <2>1. r[0] = Level(0, r[0 - 1])
    BY <1>1, <1>6
  <2> QED
    BY <2>1 DEF Level
<1>9. ASSUME NEW n \in 0 .. MaxClasses, NEW c \in ClassNames
      PROVE  r[n + 1][c] = IF c \notin DOMAIN cls THEN {}
                           ELSE (UNION {r[n][cls[c].bases[i]] : i \in DOMAIN cls[c].bases}) \cup DOMAIN cls[c].props
  <2>1. n + 1 \in 0 .. N /\ n + 1 # 0 /\ n + 1 - 1 = n
    BY <1>1 DEF N
  <2>2. r[n + 1] = Level(n + 1, r[n])
    BY <1>6, <2>1
  <2> QED
    BY <2>1, <2>2 DEF Level
<1> QED
  <2>1. Listing(r, cls)
    BY <1>7, <1>8, <1>9 DEF Listing
  <2> QED
    BY <2>1

\* The fields that are set
Filling(f, cls) ==
  /\ \A c \in ClassNames : f[0][c] = <<>>
  /\ \A n \in 0 .. MaxClasses : \A c \in ClassNames :
       f[n + 1][c] = IF c \notin DOMAIN cls THEN <<>>
                     ELSE Updated(Inherited(f[n], cls[c].bases), cls[c].props)
  /\ \A c : Defaults(cls, c) = f[MaxClasses + 1][c]
LEMMA FillRun == ASSUME NEW cls PROVE \E f : Filling(f, cls)
<1> DEFINE N == MaxClasses + 1
           Level(n, g) == [c \in ClassNames |-> IF n = 0 \/ c \notin DOMAIN cls THEN <<>>
                                               ELSE Updated(Inherited(g, cls[c].bases), cls[c].props)]
           Run(f, m) == f = [n \in 0 .. m |-> Level(n, f[n - 1])]
           T == {m \in 0 .. N : \E f : Run(f, m)}
<1>1. N \in Nat /\ Depths = 0 .. N /\ MaxClasses \in Nat
  BY ClassLimits DEF Depths
<1>2. \A g, h : Level(0, g) = Level(0, h)
  OBVIOUS
<1> HIDE DEF Level, N
<1>3. \E f : Run(f, 0)
  <2> DEFINE f == [n \in 0 .. 0 |-> Level(0, 0)]
  <2>1. \A n \in 0 .. 0 : Level(0, 0) = Level(n, f[n - 1])
    BY <1>2
  <2>2. f = [n \in 0 .. 0 |-> Level(n, f[n - 1])]
    BY <2>1
  <2> QED
    BY <2>2
<1>4. ASSUME NEW m \in 0 .. N - 1, NEW f, Run(f, m) PROVE \E h : Run(h, m + 1)
  <2> DEFINE h == [n \in 0 .. m + 1 |-> IF n = m + 1 THEN Level(m + 1, f[m]) ELSE f[n]]
  <2>1. \A n \in 0 .. m : f[n] = Level(n, f[n - 1])
    BY <1>4
  <2>2. \A n \in 0 .. m + 1 : h[n] = Level(n, h[n - 1])
    <3>1. h[m + 1] = Level(m + 1, h[m + 1 - 1])
      BY <1>1
    <3>2. ASSUME NEW n \in 1 .. m PROVE h[n] = Level(n, h[n - 1])
      BY <1>1, <2>1
    <3>3. h[0] = Level(0, h[0 - 1])
      BY <1>1, <1>2, <2>1
    <3>4. \A n \in 0 .. m + 1 : n = 0 \/ n \in 1 .. m \/ n = m + 1
      BY <1>1
    <3> HIDE DEF h
    <3> QED
      BY <3>1, <3>2, <3>3, <3>4
  <2>3. h = [n \in 0 .. m + 1 |-> Level(n, h[n - 1])]
    <3>1. h = [n \in 0 .. m + 1 |-> h[n]]
      OBVIOUS
    <3> HIDE DEF h
    <3> QED
      BY <2>2, <3>1
  <2> QED
    BY <2>3
<1>5. \E f : Run(f, N)
  <2>1. 0 \in T /\ \A k \in 0 .. N - 1 : k \in T => k + 1 \in T
    BY <1>1, <1>3, <1>4
  <2> HIDE DEF T
  <2>2. 0 .. N \subseteq T
    BY <1>1, <2>1, Induction
  <2>3. N \in T
    BY <1>1, <2>2
  <2> QED
    BY <2>3 DEF T
<1> DEFINE r == CHOOSE f : Run(f, N)
<1>6. \A n \in 0 .. N : r[n] = Level(n, r[n - 1])
  <2>1. Run(r, N)
    BY <1>5
  <2>2. r = [n \in 0 .. N |-> Level(n, r[n - 1])]
    BY <2>1
  <2> HIDE DEF r
  <2> QED
    BY <2>2
<1>7. \A c : Defaults(cls, c) = r[MaxClasses + 1][c]
  <2>1. \A c : Defaults(cls, c) = r[N][c]
    BY <1>1 DEF Level, N, Defaults
  <2> QED
    BY <2>1 DEF N
<1> HIDE DEF r
<1>8. \A c \in ClassNames : r[0][c] = <<>>
  <2>1. r[0] = Level(0, r[0 - 1])
    BY <1>1, <1>6
  <2> QED
    BY <2>1 DEF Level
<1>9. ASSUME NEW n \in 0 .. MaxClasses, NEW c \in ClassNames
      PROVE  r[n + 1][c] = IF c \notin DOMAIN cls THEN <<>>
                           ELSE Updated(Inherited(r[n], cls[c].bases), cls[c].props)
  <2>1. n + 1 \in 0 .. N /\ n + 1 # 0 /\ n + 1 - 1 = n
    BY <1>1 DEF N
  <2>2. r[n + 1] = Level(n + 1, r[n])
    BY <1>6, <2>1
  <2> QED
    BY <2>1, <2>2 DEF Level
<1> QED
  <2>1. Filling(r, cls)
    BY <1>7, <1>8, <1>9 DEF Filling
  <2> QED
    BY <2>1

\* What the bases set, from the last to the first: of every member the value of the
\* first base that has it.
LEMMA InheritedIs ==
  ASSUME NEW of, NEW bases \in Seq(ClassNames)
  PROVE  /\ \A p : p \in DOMAIN Inherited(of, bases) <=> \E i \in DOMAIN bases : p \in DOMAIN of[bases[i]]
         /\ \A i \in DOMAIN bases : \A p \in DOMAIN of[bases[i]] :
              (\A j \in 1 .. i - 1 : p \notin DOMAIN of[bases[j]]) =>
                 Inherited(of, bases)[p] = of[bases[i]][p]
<1> DEFINE L == Len(bases)
           Step(k, g) == IF k = 0 THEN <<>> ELSE Updated(g, of[bases[L - k + 1]])
           Run(x, m) == x = [k \in 0 .. m |-> Step(k, x[k - 1])]
           T == {m \in 0 .. L : \E x : Run(x, m)}
<1>1. L \in Nat /\ DOMAIN bases = 1 .. L
  BY LenProperties
<1>2. \A g, h : Step(0, g) = Step(0, h)
  OBVIOUS
<1> HIDE DEF Step, L
<1>3. \E x : Run(x, 0)
  <2> DEFINE x == [k \in 0 .. 0 |-> Step(0, 0)]
  <2>1. \A k \in 0 .. 0 : Step(0, 0) = Step(k, x[k - 1])
    BY <1>2
  <2>2. x = [k \in 0 .. 0 |-> Step(k, x[k - 1])]
    BY <2>1
  <2> QED
    BY <2>2
<1>4. ASSUME NEW m \in 0 .. L - 1, NEW x, Run(x, m) PROVE \E h : Run(h, m + 1)
  <2> DEFINE h == [k \in 0 .. m + 1 |-> IF k = m + 1 THEN Step(m + 1, x[m]) ELSE x[k]]
  <2>1. \A k \in 0 .. m : x[k] = Step(k, x[k - 1])
    BY <1>4
  <2>2. \A k \in 0 .. m + 1 : h[k] = Step(k, h[k - 1])
    <3>1. h[m + 1] = Step(m + 1, h[m + 1 - 1])
      BY <1>1
    <3>2. ASSUME NEW k \in 1 .. m PROVE h[k] = Step(k, h[k - 1])
      BY <1>1, <2>1
    <3>3. h[0] = Step(0, h[0 - 1])
      BY <1>1, <1>2, <2>1
    <3>4. \A k \in 0 .. m + 1 : k = 0 \/ k \in 1 .. m \/ k = m + 1
      BY <1>1
    <3> HIDE DEF h
    <3> QED
      BY <3>1, <3>2, <3>3, <3>4
  <2>3. h = [k \in 0 .. m + 1 |-> Step(k, h[k - 1])]
    <3>1. h = [k \in 0 .. m + 1 |-> h[k]]
      OBVIOUS
    <3> HIDE DEF h
    <3> QED
      BY <2>2, <3>1
  <2> QED
    BY <2>3
<1>5. \E x : Run(x, L)
  <2>1. 0 \in T /\ \A k \in 0 .. L - 1 : k \in T => k + 1 \in T
    BY <1>1, <1>3, <1>4
  <2> HIDE DEF T
  <2>2. 0 .. L \subseteq T
    BY <1>1, <2>1, Induction
  <2>3. L \in T
    BY <1>1, <2>2
  <2> QED
    BY <2>3 DEF T
<1> DEFINE r == CHOOSE x : Run(x, L)
<1>6. \A k \in 0 .. L : r[k] = Step(k, r[k - 1])
  <2>1. Run(r, L)
    BY <1>5
  <2>2. r = [k \in 0 .. L |-> Step(k, r[k - 1])]
    BY <2>1
  <2> HIDE DEF r
  <2> QED
    BY <2>2
<1>7. Inherited(of, bases) = r[L]
  BY DEF Step, L, Inherited
<1> HIDE DEF r
<1>8. r[0] = <<>>
  <2>1. r[0] = Step(0, r[0 - 1])
    BY <1>1, <1>6
  <2> QED
    BY <2>1 DEF Step
<1>9. \A k \in 0 .. L - 1 : r[k + 1] = Updated(r[k], of[bases[L - k]])
  <2>1. ASSUME NEW k \in 0 .. L - 1 PROVE r[k + 1] = Updated(r[k], of[bases[L - k]])
    <3>1. k + 1 \in 0 .. L /\ k + 1 # 0 /\ k + 1 - 1 = k /\ L - (k + 1) + 1 = L - k
      BY <1>1
    <3>2. r[k + 1] = Step(k + 1, r[k])
      BY <1>6, <3>1
    <3> QED
      BY <3>1, <3>2 DEF Step
  <2> QED
    BY <2>1
\* After k of the bases
<1> DEFINE Set(k) == /\ DOMAIN r[k] = UNION {DOMAIN of[bases[i]] : i \in L - k + 1 .. L}
                     /\ \A i \in L - k + 1 .. L : \A p \in DOMAIN of[bases[i]] :
                          (\A j \in L - k + 1 .. i - 1 : p \notin DOMAIN of[bases[j]]) =>
                             r[k][p] = of[bases[i]][p]
           U == {k \in 0 .. L : Set(k)}
<1>10. 0 \in U
  <2>1. L - 0 + 1 .. L = {} /\ DOMAIN r[0] = {} /\ 0 \in 0 .. L
    BY <1>1, <1>8
  <2>2. Set(0)
    BY <2>1
  <2> HIDE DEF Set
  <2> QED
    BY <2>1, <2>2
<1>11. ASSUME NEW k \in 0 .. L - 1, k \in U PROVE k + 1 \in U
  <2> DEFINE m == L - k
             f == of[bases[m]]
             a == r[k]
             b == r[k + 1]
  <2>1. /\ m \in 1 .. L /\ L - k + 1 = m + 1 /\ L - (k + 1) + 1 = m /\ k + 1 \in 0 .. L
        /\ m .. L = (m + 1 .. L) \cup {m}
    BY <1>1
  <2>2. b = Updated(a, f)
    BY <1>9
  <2>3. Set(k)
    BY <1>11
  <2>4. DOMAIN a = UNION {DOMAIN of[bases[i]] : i \in m + 1 .. L}
    BY <2>1, <2>3
  <2>5. \A i \in m + 1 .. L : \A p \in DOMAIN of[bases[i]] :
           (\A j \in m + 1 .. i - 1 : p \notin DOMAIN of[bases[j]]) => a[p] = of[bases[i]][p]
    BY <2>1, <2>3
  <2> HIDE DEF a, b, m, Set
  <2>6. DOMAIN b = UNION {DOMAIN of[bases[i]] : i \in m .. L}
    <3>1. DOMAIN b = DOMAIN a \cup DOMAIN of[bases[m]]
      BY <2>2 DEF Updated
    <3> QED
      BY <2>1, <2>4, <3>1
  <2>7. ASSUME NEW i \in m .. L, NEW p \in DOMAIN of[bases[i]],
               \A j \in m .. i - 1 : p \notin DOMAIN of[bases[j]]
        PROVE  b[p] = of[bases[i]][p]
    <3>1. p \in DOMAIN b
      BY <2>6
    <3>2. b[p] = IF p \in DOMAIN f THEN f[p] ELSE a[p]
      <4> HIDE DEF f
      <4> QED
        BY <2>2, <3>1 DEF Updated
    <3>3. CASE i = m
      BY <3>2, <3>3
    <3>4. CASE i # m
      <4>1. i \in m + 1 .. L /\ m \in m .. i - 1 /\ \A j \in m + 1 .. i - 1 : j \in m .. i - 1
        BY <1>1, <2>1, <3>4
      <4>2. p \notin DOMAIN f /\ a[p] = of[bases[i]][p]
        BY <2>5, <2>7, <4>1
      <4> QED
        BY <3>2, <4>2
    <3> QED
      BY <3>3, <3>4
  <2>8. Set(k + 1)
    BY <2>1, <2>6, <2>7 DEF Set, b
  <2> QED
    BY <2>1, <2>8
<1>12. Set(L)
  <2>1. 0 .. L \subseteq U
    <3> HIDE DEF U
    <3> QED
      BY <1>1, <1>10, <1>11, Induction
  <2> HIDE DEF Set
  <2> QED
    BY <1>1, <2>1
<1>13. L - L + 1 = 1
  BY <1>1
<1> QED
  BY <1>1, <1>7, <1>12, <1>13

\* A table of classes as arksh_shell_set_class keeps it
ClassTable(cls) ==
  /\ DOMAIN cls \subseteq ClassNames /\ BasesDefined(cls)
  /\ \A c \in DOMAIN cls : /\ cls[c].bases \in Seq(ClassNames)
                           /\ \A p \in DOMAIN cls[c].props : cls[c].props[p] # Unknown

\* What a new instance is filled with is what a lookup finds, for the names that are
\* listed.
LEMMA FilledAsFound ==
  ASSUME NEW cls, ClassTable(cls), NEW c \in DOMAIN cls
  PROVE  /\ DOMAIN Defaults(cls, c) = PropertyNames(cls, c)
         /\ \A p \in PropertyNames(cls, c) : /\ Defaults(cls, c)[p] = LookupProperty(cls, c, p)
                                             /\ LookupProperty(cls, c, p) # Unknown
<1> DEFINE own == [d \in DOMAIN cls |-> cls[d].props]
<1>a. PICK g : Filling(g, cls)
  BY FillRun
<1>1. /\ \A d \in ClassNames : g[0][d] = <<>>
      /\ \A n \in 0 .. MaxClasses : \A d \in ClassNames :
           g[n + 1][d] = IF d \notin DOMAIN cls THEN <<>>
                         ELSE Updated(Inherited(g[n], cls[d].bases), cls[d].props)
      /\ \A d : Defaults(cls, d) = g[MaxClasses + 1][d]
  BY <1>a DEF Filling
<1>b. PICK h : Listing(h, cls)
  BY NamesRun
<1>2. /\ \A d \in ClassNames : h[0][d] = {}
      /\ \A n \in 0 .. MaxClasses : \A d \in ClassNames :
           h[n + 1][d] = IF d \notin DOMAIN cls THEN {}
                         ELSE (UNION {h[n][cls[d].bases[i]] : i \in DOMAIN cls[d].bases}) \cup DOMAIN cls[d].props
      /\ \A d : PropertyNames(cls, d) = h[MaxClasses + 1][d]
  BY <1>b DEF Listing
<1>3. /\ DOMAIN cls \subseteq ClassNames
      /\ \A d \in DOMAIN cls : /\ cls[d].bases \in Seq(ClassNames)
                               /\ \A i \in DOMAIN cls[d].bases : cls[d].bases[i] \in DOMAIN cls
                               /\ \A p \in DOMAIN cls[d].props : cls[d].props[p] # Unknown
                               /\ own[d] = cls[d].props
  BY DEF ClassTable, BasesDefined
<1>4. MaxClasses \in Nat
  BY ClassLimits
<1>5. \A d, p : LookupProperty(cls, d, p) = Lookup(cls, own, d, p)
  BY DEF LookupProperty
<1> HIDE DEF own
<1>6. ASSUME NEW p
      PROVE  \A d \in DOMAIN cls :
               /\ DOMAIN Defaults(cls, d) = PropertyNames(cls, d)
               /\ p \in PropertyNames(cls, d) => /\ Defaults(cls, d)[p] = LookupProperty(cls, d, p)
                                                 /\ LookupProperty(cls, d, p) # Unknown
  <2>a. PICK f : Finding(f, cls, own, p)
    BY FindRun
  <2>1. /\ \A d \in ClassNames : f[0][d] = Unknown
        /\ \A n \in 0 .. MaxClasses : \A d \in ClassNames :
             f[n + 1][d] = IF d \notin DOMAIN cls THEN Unknown
                           ELSE IF p \in DOMAIN own[d] THEN own[d][p]
                           ELSE FirstKnown([i \in DOMAIN cls[d].bases |-> f[n][cls[d].bases[i]]])
        /\ \A d : Lookup(cls, own, d, p) = f[MaxClasses + 1][d]
    BY <2>a DEF Finding
  <2> DEFINE Agree(n) == \A d \in DOMAIN cls :
                           /\ DOMAIN g[n][d] = h[n][d]
                           /\ f[n][d] = IF p \in DOMAIN g[n][d] THEN g[n][d][p] ELSE Unknown
                           /\ p \in DOMAIN g[n][d] => f[n][d] # Unknown
             A == {n \in 0 .. MaxClasses + 1 : Agree(n)}
  <2>2. 0 \in A
    <3>1. DOMAIN <<>> = {}
      OBVIOUS
    <3>2. \A d \in DOMAIN cls : g[0][d] = <<>> /\ h[0][d] = {} /\ f[0][d] = Unknown
      BY <1>1, <1>2, <1>3, <2>1
    <3>3. Agree(0)
      BY <3>1, <3>2
    <3>4. 0 \in 0 .. MaxClasses + 1
      BY <1>4
    <3> HIDE DEF Agree
    <3> QED
      BY <3>3, <3>4
  <2>3. ASSUME NEW n \in 0 .. MaxClasses, n \in A PROVE n + 1 \in A
    <3>1. n \in 0 .. MaxClasses /\ n + 1 \in 0 .. MaxClasses + 1
      BY <1>4
    <3>2. ASSUME NEW d \in DOMAIN cls
          PROVE  /\ DOMAIN g[n + 1][d] = h[n + 1][d]
                 /\ f[n + 1][d] = IF p \in DOMAIN g[n + 1][d] THEN g[n + 1][d][p] ELSE Unknown
                 /\ p \in DOMAIN g[n + 1][d] => f[n + 1][d] # Unknown
      <4> DEFINE b == cls[d].bases
                 o == g[n]
                 w == Inherited(o, b)
                 props == cls[d].props
                 s == [i \in DOMAIN b |-> f[n][b[i]]]
                 known == {i \in DOMAIN s : s[i] # Unknown}
      <4>1. /\ d \in ClassNames /\ b \in Seq(ClassNames) /\ \A i \in DOMAIN b : b[i] \in DOMAIN cls
            /\ \A q \in DOMAIN props : props[q] # Unknown
            /\ own[d] = props
        BY <1>3
      <4>2. Len(b) \in Nat /\ DOMAIN b = 1 .. Len(b)
        <5> HIDE DEF b
        <5> QED
          BY <4>1, LenProperties
      <4>3. g[n + 1][d] = Updated(w, props)
        BY <1>1, <3>1, <4>1
      <4>4. h[n + 1][d] = (UNION {h[n][b[i]] : i \in DOMAIN b}) \cup DOMAIN props
        BY <1>2, <3>1, <4>1
      <4>5. f[n + 1][d] = IF p \in DOMAIN props THEN props[p] ELSE FirstKnown(s)
        BY <2>1, <3>1, <4>1
      <4>6. FirstKnown(s) = IF known = {} THEN Unknown ELSE s[Min(known)]
        BY DEF FirstKnown
      <4>7. \A i \in DOMAIN b :
              /\ DOMAIN o[b[i]] = h[n][b[i]]
              /\ f[n][b[i]] = IF p \in DOMAIN o[b[i]] THEN o[b[i]][p] ELSE Unknown
              /\ p \in DOMAIN o[b[i]] => f[n][b[i]] # Unknown
        <5>1. Agree(n)
          BY <2>3
        <5> QED
          BY <4>1, <5>1
      <4> HIDE DEF b, o, props
      <4>8. /\ \A q : q \in DOMAIN w <=> \E i \in DOMAIN b : q \in DOMAIN o[b[i]]
            /\ \A i \in DOMAIN b : \A q \in DOMAIN o[b[i]] :
                 (\A j \in 1 .. i - 1 : q \notin DOMAIN o[b[j]]) => w[q] = o[b[i]][q]
        <5>1. b \in Seq(ClassNames)
          BY <4>1
        <5>2. w = Inherited(o, b)
          OBVIOUS
        <5> HIDE DEF w
        <5>3. /\ \A q : q \in DOMAIN Inherited(o, b) <=> \E i \in DOMAIN b : q \in DOMAIN o[b[i]]
              /\ \A i \in DOMAIN b : \A q \in DOMAIN o[b[i]] :
                   (\A j \in 1 .. i - 1 : q \notin DOMAIN o[b[j]]) => Inherited(o, b)[q] = o[b[i]][q]
          BY <5>1, InheritedIs
        <5> QED
          BY <5>2, <5>3
      <4>9. \A i : i \in known <=> i \in DOMAIN b /\ p \in DOMAIN o[b[i]]
        BY <4>7
      <4>10. \A i \in DOMAIN b : s[i] = f[n][b[i]]
        OBVIOUS
      <4> HIDE DEF w, s, known
      <4>11. DOMAIN g[n + 1][d] = h[n + 1][d]
        <5>1. DOMAIN g[n + 1][d] = DOMAIN w \cup DOMAIN props
          BY <4>3 DEF Updated
        <5>2. \A q : q \in h[n + 1][d] <=> (\E i \in DOMAIN b : q \in h[n][b[i]]) \/ q \in DOMAIN props
          BY <4>4
        <5>3. \A q : q \in DOMAIN w <=> \E i \in DOMAIN b : q \in h[n][b[i]]
          BY <4>7, <4>8
        <5>4. \A q : q \in DOMAIN g[n + 1][d] <=> q \in h[n + 1][d]
          BY <5>1, <5>2, <5>3
        <5> DEFINE x == DOMAIN g[n + 1][d]
                   y == h[n + 1][d]
        <5> HIDE DEF x, y
        <5>5. x = y
          BY <5>4 DEF x, y
        <5> QED
          BY <5>5 DEF x, y
      <4>12. /\ p \in DOMAIN g[n + 1][d] <=> p \in DOMAIN w \/ p \in DOMAIN props
             /\ p \in DOMAIN g[n + 1][d] =>
                  g[n + 1][d][p] = IF p \in DOMAIN props THEN props[p] ELSE w[p]
        BY <4>3 DEF Updated
      <4>13. CASE p \in DOMAIN props
        BY <4>1, <4>5, <4>11, <4>12, <4>13
      <4>14. CASE p \notin DOMAIN props /\ known = {}
        <5>1. p \notin DOMAIN w
          BY <4>8, <4>9, <4>14
        <5> QED
          BY <4>5, <4>6, <4>11, <4>12, <4>14, <5>1
      <4>15. CASE p \notin DOMAIN props /\ known # {}
        <5> DEFINE m == Min(known)
        <5>1. m \in known /\ \A j \in known : m <= j
          <6>1. known \subseteq 1 .. Len(b)
            BY <4>2, <4>9
          <6>2. \E i \in known : \A k \in known : i <= k
            BY <4>2, <4>15, <6>1, Extremes
          <6>3. m = CHOOSE x \in known : \A y \in known : x <= y
            BY DEF Min
          <6> HIDE DEF m
          <6> QED
            BY <6>2, <6>3
        <5> HIDE DEF m
        <5>2. m \in DOMAIN b /\ p \in DOMAIN o[b[m]] /\ m \in 1 .. Len(b)
          BY <4>2, <4>9, <5>1
        <5>3. \A j \in 1 .. m - 1 : p \notin DOMAIN o[b[j]]
          <6>1. \A j \in 1 .. m - 1 : j \in DOMAIN b /\ ~ (m <= j)
            BY <4>2, <5>2
          <6> QED
            BY <4>9, <5>1, <6>1
        <5>4. p \in DOMAIN w /\ w[p] = o[b[m]][p]
          BY <4>8, <5>2, <5>3
        <5>5. f[n + 1][d] = o[b[m]][p] /\ f[n + 1][d] # Unknown
          BY <4>5, <4>6, <4>7, <4>10, <4>15, <5>2 DEF m
        <5> QED
          BY <4>11, <4>12, <4>15, <5>4, <5>5
      <4> QED
        BY <4>13, <4>14, <4>15
    <3>3. Agree(n + 1)
      BY <3>2
    <3> HIDE DEF Agree
    <3> QED
      BY <3>1, <3>3
  <2>4. Agree(MaxClasses + 1)
    <3>1. 0 .. MaxClasses + 1 \subseteq A
      <4> DEFINE N == MaxClasses + 1
      <4>1. N \in Nat
        BY <1>4
      <4>2. ASSUME NEW n \in 0 .. N - 1, n \in A PROVE n + 1 \in A
        <5>1. n \in 0 .. MaxClasses
          BY <1>4, <4>2
        <5> HIDE DEF A
        <5> QED
          BY <2>3, <4>2, <5>1
      <4> HIDE DEF A, N
      <4>3. 0 .. N \subseteq A
        BY <2>2, <4>1, <4>2, Induction
      <4> QED
        BY <4>3 DEF N
    <3>2. MaxClasses + 1 \in 0 .. MaxClasses + 1
      BY <1>4
    <3> HIDE DEF Agree
    <3> QED
      BY <3>1, <3>2
  <2> QED
    BY <1>1, <1>2, <1>5, <2>1, <2>4
<1> QED
  BY <1>6

\* isa() agrees with the bases: the search that refuses loops and the one that answers
\* isa() see the same classes, since no chain of bases is longer than the table.
LEMMA IsAMeans ==
  ASSUME NEW cls, ClassTable(cls), IsFiniteSet(DOMAIN cls), Cardinality(DOMAIN cls) <= MaxClasses,
         NEW c \in DOMAIN cls, NEW b
  PROVE  IsA(cls, c, b) <=> (b = c \/ ChainContains(cls, c, b))
<1>1. PICK a : /\ Chain(a, cls, b)
               /\ \A d : ChainContains(cls, d, b) <=> d \in a[MaxClasses + 1]
  BY ChainOf
<1>2. /\ MaxClasses \in Nat /\ a[0] = {}
      /\ \A n \in 0 .. MaxClasses : \A d :
           d \in a[n + 1] <=> d \in DOMAIN cls /\ HasBaseIn(cls, d, a[n] \cup {b})
  BY <1>1, ChainFacts
<1>3. a[MaxClasses] = a[MaxClasses + 1]
  BY <1>1, Saturates
<1>a. PICK f : Answering(f, cls, b)
  BY IsARun
<1>4. /\ \A d \in ClassNames : f[0][d] = FALSE
      /\ \A n \in 0 .. MaxClasses : \A d \in ClassNames :
           f[n + 1][d] = (d = b \/ (d \in DOMAIN cls /\ \E i \in DOMAIN cls[d].bases : f[n][cls[d].bases[i]]))
      /\ \A d : IsA(cls, d, b) = f[MaxClasses + 1][d]
  BY <1>a DEF Answering
<1>5. /\ DOMAIN cls \subseteq ClassNames
      /\ \A d \in DOMAIN cls : \A i \in DOMAIN cls[d].bases : cls[d].bases[i] \in DOMAIN cls
  BY DEF ClassTable, BasesDefined
<1> DEFINE Same(n) == \A d \in DOMAIN cls : f[n + 1][d] <=> (d = b \/ d \in a[n])
           A == {n \in 0 .. MaxClasses : Same(n)}
<1>6. 0 \in A
  <2>1. 0 \in 0 .. MaxClasses
    BY <1>2
  <2>2. ASSUME NEW d \in DOMAIN cls PROVE f[0 + 1][d] <=> (d = b \/ d \in a[0])
    <3>1. f[0 + 1][d] = (d = b \/ (d \in DOMAIN cls /\ \E i \in DOMAIN cls[d].bases : f[0][cls[d].bases[i]]))
      BY <1>4, <1>5, <2>1
    <3>2. \A i \in DOMAIN cls[d].bases : f[0][cls[d].bases[i]] = FALSE
      BY <1>4, <1>5
    <3> QED
      BY <1>2, <3>1, <3>2
  <2> QED
    BY <2>1, <2>2
<1>7. ASSUME NEW n \in 0 .. MaxClasses - 1, n \in A PROVE n + 1 \in A
  <2>1. n \in 0 .. MaxClasses /\ n + 1 \in 0 .. MaxClasses
    BY <1>2
  <2>2. \A d \in DOMAIN cls : f[n + 1][d] <=> (d = b \/ d \in a[n])
    BY <1>7
  <2>3. ASSUME NEW d \in DOMAIN cls PROVE f[n + 1 + 1][d] <=> (d = b \/ d \in a[n + 1])
    <3>1. f[n + 1 + 1][d] = (d = b \/ (d \in DOMAIN cls /\ \E i \in DOMAIN cls[d].bases : f[n + 1][cls[d].bases[i]]))
      BY <1>4, <1>5, <2>1
    <3>2. d \in a[n + 1] <=> \E i \in DOMAIN cls[d].bases : cls[d].bases[i] \in a[n] \cup {b}
      BY <1>2, <2>1 DEF HasBaseIn
    <3>3. \A i \in DOMAIN cls[d].bases :
            f[n + 1][cls[d].bases[i]] <=> cls[d].bases[i] \in a[n] \cup {b}
      BY <1>5, <2>2
    <3> QED
      BY <3>1, <3>2, <3>3
  <2> QED
    BY <2>1, <2>3
<1>8. Same(MaxClasses)
  <2>1. 0 .. MaxClasses \subseteq A
    <3> HIDE DEF A
    <3> QED
      BY <1>2, <1>6, <1>7, Induction
  <2>2. MaxClasses \in 0 .. MaxClasses
    BY <1>2
  <2> HIDE DEF Same
  <2> QED
    BY <2>1, <2>2
<1> QED
  BY <1>1, <1>3, <1>4, <1>8

-----------------------------------------------------------------------------
(* What instances hold *)

\* Every instance is of a class that is there; no field, no property and no value
\* of x is missing.
FieldsKnown(ins, cls) ==
  \A i \in DOMAIN ins : /\ ins[i].class \in DOMAIN cls
                        /\ \A p \in DOMAIN ins[i].fields : ins[i].fields[p] # Unknown
ValuesKnown(st) == \A k \in DOMAIN st : st[k].x # Unknown
DefaultsInv ==
  /\ ClassesInv /\ HierarchyInv
  /\ ClassTable(classes)
  /\ FieldsKnown(instances, classes)
  /\ ValuesKnown(stack)

\* No expression has the value that stands for a missing member.
LEMMA ValueKnown == Nothing # Unknown /\ \A c, id : Ref(c, id) # Unknown
<1>1. Nothing # Unknown
  BY DEF Nothing, Unknown
<1>2. \A c, id : <<"instance", c, id>> # <<"unknown">>
  OBVIOUS
<1> QED
  BY <1>1, <1>2 DEF Ref, Unknown

\* Of the values a definition gives a property the last one counts, and it is one.
LEMMA MembersKnown ==
  ASSUME NEW d \in Definitions, NEW p \in DOMAIN Members(d, "property")
  PROVE  Members(d, "property")[p] # Unknown
<1> DEFINE ms == d.members
           I == {i \in OfKind(d, "property") : ms[i][2] = p}
           m == Max(I)
<1>1. Len(ms) \in Nat /\ DOMAIN ms = 1 .. Len(ms)
  <2>1. ms \in Seq(Range(ms))
    BY ClassDefinitions
  <2> HIDE DEF ms
  <2> QED
    BY <2>1, LenProperties
<1>2. I \subseteq 1 .. Len(ms) /\ I # {}
  <2>1. PICK i \in OfKind(d, "property") : p = ms[i][2]
    BY DEF Members
  <2>2. OfKind(d, "property") \subseteq 1 .. Len(ms)
    BY <1>1 DEF OfKind
  <2> QED
    BY <2>1, <2>2
<1>3. m \in I
  <2>1. \E i \in I : \A k \in I : k <= i
    <3> HIDE DEF I, ms
    <3> QED
      BY <1>1, <1>2, Extremes
  <2>2. \E i \in I : \A k \in I : i >= k
    <3>1. \A i, k \in I : k <= i <=> i >= k
      <4> HIDE DEF I
      <4> QED
        BY <1>1, <1>2
    <3> HIDE DEF I
    <3> QED
      BY <2>1, <3>1
  <2>3. m = CHOOSE x \in I : \A y \in I : x >= y
    BY DEF Max
  <2> HIDE DEF m, I
  <2> QED
    BY <2>2, <2>3
<1>4. Members(d, "property")[p] = ms[m][3]
  BY DEF Members
<1>5. m \in DOMAIN ms /\ ms[m][1] = "property"
  <2>1. m \in OfKind(d, "property")
    BY <1>3
  <2> HIDE DEF m
  <2> QED
    BY <2>1 DEF OfKind
<1> HIDE DEF m
<1> QED
  BY <1>4, <1>5, ClassDefinitions

\* What the caller gets is a value.
LEMMA ReturnKnown ==
  ASSUME NEW a, SameFrames(a, a), ValuesKnown(a), NEW v, v # Unknown
  PROVE  ValuesKnown(Return(a, v))
<1>1. CASE a = <<>>
  BY <1>1 DEF Return
<1>2. CASE a # <<>>
  <2> DEFINE n == Len(a)
             g == a[n]
             f == [g EXCEPT !.x = v]
             u == [a EXCEPT ![n] = f]
  <2>1. n \in DOMAIN a /\ IsSeq(a)
    BY <1>2, SeqFacts DEF SameFrames
  <2>2. g = [kind |-> g.kind, self |-> g.self, at |-> g.at, todo |-> g.todo, x |-> g.x]
    BY <2>1 DEF SameFrames
  <2>3. f.x = v
    <3> HIDE DEF g
    <3> QED
      BY <2>2
  <2>4. Return(a, v) = u
    BY <1>2 DEF Return
  <2> HIDE DEF f, n
  <2>5. DOMAIN u = DOMAIN a /\ u[n] = f /\ \A i \in DOMAIN a : i # n => u[i] = a[i]
    BY <2>1, ReplacedAny
  <2> HIDE DEF u
  <2> QED
    BY <2>3, <2>4, <2>5 DEF ValuesKnown
<1> QED
  BY <1>1, <1>2

\* The next statement finds the x of the one before.
LEMMA AdvancedKnown ==
  ASSUME SameFrames(stack, stack), ValuesKnown(stack), stack # <<>>
  PROVE  ValuesKnown(Advanced) /\ Top.x # Unknown
<1> DEFINE n == Len(stack)
           g == stack[n]
           w == Tail(g.todo)
           f == [g EXCEPT !.todo = w]
           u == [stack EXCEPT ![n] = f]
<1>1. n \in DOMAIN stack /\ IsSeq(stack)
  BY SeqFacts DEF SameFrames
<1>2. g = [kind |-> g.kind, self |-> g.self, at |-> g.at, todo |-> g.todo, x |-> g.x]
  BY <1>1 DEF SameFrames
<1>3. Advanced = u /\ Top = g
  BY DEF Advanced, Top
<1>4. f.x = g.x
  <2> HIDE DEF g, w
  <2> QED
    BY <1>2
<1>5. g.x # Unknown
  BY <1>1 DEF ValuesKnown
<1> HIDE DEF f, n
<1>6. DOMAIN u = DOMAIN stack /\ u[n] = f /\ \A i \in DOMAIN stack : i # n => u[i] = stack[i]
  BY <1>1, ReplacedAny
<1> HIDE DEF u, g
<1> QED
  BY <1>3, <1>4, <1>5, <1>6 DEF ValuesKnown

\* A block that starts has a value for x.
LEMMA AppendKnown ==
  ASSUME NEW a, IsSeq(a), ValuesKnown(a), NEW f, f.x # Unknown
  PROVE  ValuesKnown(Append(a, f))
<1> DEFINE n == Len(a)
           u == Append(a, f)
<1>1. n \in Nat /\ DOMAIN a = 1 .. n
  BY SeqFacts
<1>2. DOMAIN u = 1 .. n + 1 /\ u[n + 1] = f /\ \A i \in 1 .. n : u[i] = a[i]
  BY AppendAny
<1> HIDE DEF u, n
<1>3. \A k \in 1 .. n + 1 : k = n + 1 \/ k \in 1 .. n
  BY <1>1
<1>4. ValuesKnown(u)
  BY <1>1, <1>2, <1>3 DEF ValuesKnown
<1> QED
  BY <1>4 DEF u

\* The blocks around one that ends keep theirs.
LEMMA FrontKnown ==
  ASSUME NEW a, IsSeq(a), a # <<>>, ValuesKnown(a)
  PROVE  ValuesKnown(Front(a))
<1> DEFINE n == Len(a)
<1>1. /\ n \in Nat /\ DOMAIN a = 1 .. n /\ DOMAIN Front(a) = 1 .. n - 1
      /\ \A i \in 1 .. n - 1 : Front(a)[i] = a[i]
  BY FrontAny, ShorterAny
<1> HIDE DEF n
<1>2. 1 .. n - 1 \subseteq 1 .. n
  BY <1>1
<1> QED
  BY <1>1, <1>2 DEF ValuesKnown

\* An entry that is removed takes its fields with it.
LEMMA FieldsFront ==
  ASSUME NEW ins, IsSeq(ins), ins # <<>>, NEW cls, FieldsKnown(ins, cls)
  PROVE  FieldsKnown(Front(ins), cls)
<1> DEFINE n == Len(ins)
<1>1. /\ n \in Nat /\ DOMAIN ins = 1 .. n /\ DOMAIN Front(ins) = 1 .. n - 1
      /\ \A i \in 1 .. n - 1 : Front(ins)[i] = ins[i]
  BY FrontAny, ShorterAny
<1> HIDE DEF n
<1>2. 1 .. n - 1 \subseteq 1 .. n
  BY <1>1
<1> QED
  BY <1>1, <1>2 DEF FieldsKnown

\* An entry that is added has the fields it was filled with.
LEMMA FieldsAppend ==
  ASSUME NEW ins, IsSeq(ins), NEW cls, FieldsKnown(ins, cls), NEW id, NEW c \in DOMAIN cls, NEW f,
         \A p \in DOMAIN f : f[p] # Unknown
  PROVE  FieldsKnown(Append(ins, [id |-> id, class |-> c, fields |-> f]), cls)
<1> DEFINE n == Len(ins)
           e == [id |-> id, class |-> c, fields |-> f]
           u == Append(ins, e)
<1>1. n \in Nat /\ DOMAIN ins = 1 .. n
  BY SeqFacts
<1>2. DOMAIN u = 1 .. n + 1 /\ u[n + 1] = e /\ \A i \in 1 .. n : u[i] = ins[i]
  <2> HIDE DEF e
  <2> QED
    BY AppendAny
<1>3. e.class = c /\ e.fields = f
  OBVIOUS
<1> HIDE DEF u, n, e
<1>4. \A k \in 1 .. n + 1 : k = n + 1 \/ k \in 1 .. n
  BY <1>1
<1>5. FieldsKnown(u, cls)
  BY <1>1, <1>2, <1>3, <1>4 DEF FieldsKnown
<1> QED
  BY <1>5 DEF u, e

-----------------------------------------------------------------------------
(* The steps *)

\* A definition that is accepted changes the table of classes and takes none away.
LEMMA DefaultsDefine ==
  ASSUME DefaultsInv, NEW d \in Definitions, Define(d)
  PROVE  ClassTable(classes)' /\ FieldsKnown(instances, classes)' /\ ValuesKnown(stack)'
<1> DEFINE new == With(classes, d.name, Candidate(d))
<1>1. /\ UNCHANGED <<instances, stack>>
      /\ ValuesKnown(stack) /\ FieldsKnown(instances, classes) /\ ClassTable(classes)
  BY DEF Define, DefaultsInv
<1>2. CASE classes' = classes
  BY <1>1, <1>2 DEF ClassTable, FieldsKnown, ValuesKnown, BasesDefined
<1>3. CASE classes' # classes
  <2>1. classes' = new
    BY <1>3 DEF Define
  <2>2. /\ DOMAIN new = DOMAIN classes \cup {d.name} /\ new[d.name] = Candidate(d)
        /\ \A c \in DOMAIN classes : c # d.name => new[c] = classes[c]
    BY DEF With
  <2>3. /\ Candidate(d).bases = d.bases /\ Candidate(d).props = Members(d, "property")
    BY DEF Candidate
  <2>4. d.name \in ClassNames /\ d.bases \in Seq(ClassNames)
    BY ClassDefinitions
  <2>5. BasesDefined(classes)'
    BY DefineStep DEF DefaultsInv, HierarchyInv
  <2> HIDE DEF new
  <2>6. ASSUME NEW c \in DOMAIN new
        PROVE  new[c].bases \in Seq(ClassNames) /\ \A p \in DOMAIN new[c].props : new[c].props[p] # Unknown
    <3>1. CASE c = d.name
      BY <2>2, <2>3, <2>4, <3>1, MembersKnown
    <3>2. CASE c # d.name
      BY <1>1, <2>2, <3>2 DEF ClassTable
    <3> QED
      BY <3>1, <3>2
  <2>7. ClassTable(new)
    BY <1>1, <2>1, <2>2, <2>4, <2>5, <2>6 DEF ClassTable
  <2>8. FieldsKnown(instances, new)
    BY <1>1, <2>2 DEF FieldsKnown
  <2> QED
    BY <1>1, <2>1, <2>7, <2>8
<1> QED
  BY <1>2, <1>3

\* A new instance is filled with known values, whether its constructor runs, is
\* missing or is refused.
LEMMA DefaultsInstantiate ==
  ASSUME DefaultsInv, NEW frames, SameFrames(frames, frames), ValuesKnown(frames),
         NEW c, NEW argc, Instantiate(c, argc, frames)
  PROVE  FieldsKnown(instances', classes) /\ ValuesKnown(stack')
<1> DEFINE n == Len(instances)
           e == [id |-> nextId, class |-> c, fields |-> Defaults(classes, c)]
           init == LookupMethod(classes, c, "init")
           full == capacity < n + 1 /\ n + 1 > MaxInstances
           more == Append(instances, e)
<1>1. IsSeq(instances) /\ FieldsKnown(instances, classes) /\ ClassTable(classes)
  BY DEF DefaultsInv, ClassesInv, TableOK
<1>2. IsSeq(frames) /\ \A v : v # Unknown => ValuesKnown(Return(frames, v))
  BY ReturnKnown DEF SameFrames
<1>3. ValuesKnown(Return(frames, Nothing)) /\ ValuesKnown(Return(frames, Ref(c, nextId)))
  BY <1>2, ValueKnown
<1>4. CASE c \notin DOMAIN classes \/ full
  <2>1. stack' = Return(frames, Nothing) /\ instances' = instances
    BY <1>4 DEF Instantiate
  <2> QED
    BY <1>1, <1>3, <2>1
<1>5. CASE ~ (c \notin DOMAIN classes \/ full)
  <2>1. \/ instances' = more /\ stack' = Append(frames, Frame("new", nextId, init))
        \/ instances' = more /\ stack' = Return(frames, Ref(c, nextId))
        \/ instances' = Front(more) /\ stack' = Return(frames, Nothing)
    BY <1>5 DEF Instantiate, Rollback
  <2>2. \A p \in DOMAIN Defaults(classes, c) : Defaults(classes, c)[p] # Unknown
    <3>1. c \in DOMAIN classes
      BY <1>5
    <3> QED
      BY <1>1, <3>1, FilledAsFound
  <2>3. FieldsKnown(more, classes)
    <3>1. c \in DOMAIN classes
      BY <1>5
    <3> QED
      BY <1>1, <2>2, <3>1, FieldsAppend
  <2>4. Front(more) = instances
    <3> HIDE DEF e
    <3> QED
      BY <1>1, FrontAny, AppendAny
  <2>5. ValuesKnown(Append(frames, Frame("new", nextId, init)))
    <3> DEFINE f == Frame("new", nextId, init)
    <3>1. f.x # Unknown
      BY ValueKnown DEF Frame
    <3> HIDE DEF f
    <3>2. ValuesKnown(Append(frames, f))
      BY <1>2, <3>1, AppendKnown
    <3> QED
      BY <3>2 DEF f
  <2> HIDE DEF more
  <2> QED
    BY <1>1, <1>3, <2>1, <2>3, <2>4, <2>5
<1> QED
  BY <1>4, <1>5

\* set() stores the value of x, under a name the instance had or a new one.
LEMMA DefaultsSet ==
  ASSUME DefaultsInv, SetStatement
  PROVE  FieldsKnown(instances', classes) /\ ValuesKnown(stack')
<1>1. stack # <<>> /\ stack' = Advanced
  BY DEF SetStatement, Runs
<1>2. SameFrames(stack, stack) /\ ValuesKnown(stack) /\ FieldsKnown(instances, classes)
  BY StackShaped DEF DefaultsInv, ClassesInv
<1>3. ValuesKnown(stack') /\ Top.x # Unknown
  BY <1>1, <1>2, AdvancedKnown
<1>4. CASE instances' = instances
  BY <1>2, <1>3, <1>4
<1>5. CASE instances' # instances
  <2> DEFINE s == Find(Top.self)
             g == instances[s]
             w == With(g.fields, Head(Top.todo)[2], Top.x)
             h == [g EXCEPT !.fields = w]
             u == [instances EXCEPT ![s] = h]
  <2>1. Slots(Top.self) # {}
    BY <1>5 DEF SetStatement
  <2>2. s \in DOMAIN instances
    BY <2>1 DEF Find, Slots
  <2>3. instances' = u
    BY <2>1 DEF SetStatement
  <2>4. g = [id |-> g.id, class |-> g.class, fields |-> g.fields] /\ IsSeq(instances)
    BY <2>2 DEF DefaultsInv, ClassesInv, TableOK
  <2>5. g.class \in DOMAIN classes /\ \A p \in DOMAIN g.fields : g.fields[p] # Unknown
    BY <1>2, <2>2 DEF FieldsKnown
  <2>6. \A p \in DOMAIN w : w[p] # Unknown
    <3> DEFINE key == Head(Top.todo)[2]
               f == g.fields
               v == Top.x
    <3>1. \A p \in DOMAIN f : f[p] # Unknown
      BY <2>5
    <3>2. w = With(f, key, v) /\ v # Unknown
      BY <1>3
    <3> HIDE DEF w, key, f, v
    <3> QED
      BY <3>1, <3>2 DEF With
  <2> HIDE DEF w
  <2>7. h.class = g.class /\ h.fields = w
    <3> HIDE DEF g
    <3> QED
      BY <2>4
  <2> HIDE DEF h, s
  <2>8. DOMAIN u = DOMAIN instances /\ u[s] = h /\ \A i \in DOMAIN instances : i # s => u[i] = instances[i]
    BY <2>2, <2>4, ReplacedAny
  <2> HIDE DEF u, g
  <2>9. FieldsKnown(u, classes)
    BY <1>2, <2>5, <2>6, <2>7, <2>8 DEF FieldsKnown
  <2> QED
    BY <1>3, <2>3, <2>9
<1> QED
  BY <1>4, <1>5

\* One case for each action.
LEMMA DefaultsNext == DefaultsInv /\ [Next]_vars => DefaultsInv'
<1>1. SUFFICES ASSUME DefaultsInv, [Next]_vars PROVE DefaultsInv'
  OBVIOUS
<1>2. ClassesInv'
  BY <1>1, ClassesNext DEF DefaultsInv
<1>3. CASE \E d \in Definitions : Define(d)
  <2>1. HierarchyInv'
    BY <1>1, <1>3, DefineStep DEF DefaultsInv
  <2>2. ClassTable(classes)' /\ FieldsKnown(instances, classes)' /\ ValuesKnown(stack)'
    BY <1>1, <1>3, DefaultsDefine
  <2> QED
    BY <1>2, <2>1, <2>2 DEF DefaultsInv
<1>4. ASSUME classes' = classes, FieldsKnown(instances', classes), ValuesKnown(stack')
      PROVE  DefaultsInv'
  <2>1. HierarchyInv' /\ ClassTable(classes)'
    BY <1>1, <1>4 DEF DefaultsInv, HierarchyInv, ClassTable, BasesDefined
  <2> QED
    BY <1>2, <1>4, <2>1 DEF DefaultsInv
<1>5. /\ SameFrames(stack, stack) /\ IsSeq(stack) /\ IsSeq(instances)
      /\ ValuesKnown(stack) /\ FieldsKnown(instances, classes)
  <2>1. StackOK(stack, instances, done) /\ TableOK(instances, nextId)
    BY <1>1 DEF DefaultsInv, ClassesInv
  <2>2. SameFrames(stack, stack)
    BY <2>1, StackShaped
  <2> QED
    BY <1>1, <2>1, <2>2 DEF DefaultsInv, StackOK, TableOK
<1>6. CASE UNCHANGED vars
  BY <1>4, <1>5, <1>6 DEF vars
<1>7. CASE \E c \in ClassNames, argc \in 0 .. 1 : New(c, argc)
  <2>1. PICK c \in ClassNames, argc \in 0 .. 1 : Instantiate(c, argc, stack) /\ classes' = classes
    BY <1>7 DEF New
  <2>2. FieldsKnown(instances', classes) /\ ValuesKnown(stack')
    BY <1>1, <1>5, <2>1, DefaultsInstantiate
  <2> QED
    BY <1>4, <2>1, <2>2
<1>8. CASE \E id \in 1 .. MaxId : Call(id, "go")
  <2>1. PICK id \in 1 .. MaxId : Call(id, "go")
    BY <1>8
  <2> DEFINE f == Frame("call", id, LookupMethod(classes, instances[Find(id)].class, "go"))
  <2>2. stack = <<>> /\ stack' = <<f>> /\ UNCHANGED <<classes, instances>>
    BY <2>1 DEF Call
  <2>3. f.x # Unknown
    BY ValueKnown DEF Frame
  <2> HIDE DEF f
  <2>4. <<f>> = Append(<<>>, f)
    OBVIOUS
  <2>5. ValuesKnown(stack')
    BY <1>5, <2>2, <2>3, <2>4, AppendKnown
  <2> QED
    BY <1>4, <1>5, <2>2, <2>5
<1>9. CASE NewStatement
  <2>1. stack # <<>> /\ Instantiate(Head(Top.todo)[2], 0, Advanced) /\ classes' = classes
    BY <1>9 DEF NewStatement, Runs
  <2>2. SameFrames(stack, Advanced) /\ ValuesKnown(Advanced)
    BY <1>5, <2>1, AdvancedSame, AdvancedKnown
  <2>3. SameFrames(Advanced, Advanced)
    BY <2>2 DEF SameFrames
  <2>4. FieldsKnown(instances', classes) /\ ValuesKnown(stack')
    BY <1>1, <2>1, <2>2, <2>3, DefaultsInstantiate
  <2> QED
    BY <1>4, <2>1, <2>4
<1>10. CASE SetStatement
  <2>1. classes' = classes
    BY <1>10 DEF SetStatement
  <2> QED
    BY <1>1, <1>4, <1>10, <2>1, DefaultsSet
\* The blocks around one that ends
<1>11. ASSUME stack # <<>> PROVE \A v : v # Unknown => ValuesKnown(Rest) /\ ValuesKnown(Return(Rest, v))
  <2>1. StackOK(Rest, instances, done) /\ ValuesKnown(Rest)
    BY <1>1, <1>5, <1>11, StackShrinks, FrontKnown DEF DefaultsInv, ClassesInv, Rest
  <2>2. SameFrames(Rest, Rest)
    BY <2>1, StackShaped
  <2> QED
    BY <2>1, <2>2, ReturnKnown
<1>12. CASE ResultStatement
  <2>1. stack # <<>> /\ UNCHANGED <<classes, instances>>
    BY <1>12 DEF ResultStatement, Runs
  <2>2. \/ stack' = Rest
        \/ \E id : stack' = Return(Rest, Ref(instances[Find(Top.self)].class, id))
    BY <1>12 DEF ResultStatement
  <2>3. ValuesKnown(stack')
    <3>1. CASE stack' = Rest
      BY <1>11, <2>1, <3>1, ValueKnown
    <3>2. CASE \E id : stack' = Return(Rest, Ref(instances[Find(Top.self)].class, id))
      <4>1. PICK v : stack' = Return(Rest, v) /\ v # Unknown
        BY <3>2, ValueKnown
      <4> QED
        BY <1>11, <2>1, <4>1
    <3> QED
      BY <2>2, <3>1, <3>2
  <2> QED
    BY <1>4, <1>5, <2>1, <2>3
<1>13. CASE BlockFails
  <2>1. /\ stack # <<>> /\ stack' = Return(Rest, Nothing) /\ classes' = classes
        /\ instances' = IF Top.kind = "new" THEN Front(instances) ELSE instances
    BY <1>13 DEF BlockFails, Rollback
  <2>2. ValuesKnown(stack')
    BY <1>11, <2>1, ValueKnown
  <2>3. instances # <<>>
    <3>1. Len(stack) \in DOMAIN stack
      BY <1>5, <2>1, SeqFacts
    <3>2. PICK i \in DOMAIN instances : instances[i].id = stack[Len(stack)].self
      BY <1>1, <3>1 DEF DefaultsInv, ClassesInv, StackOK
    <3> QED
      BY <3>2
  <2>4. FieldsKnown(instances', classes)
    BY <1>5, <2>1, <2>3, FieldsFront
  <2> QED
    BY <1>4, <2>1, <2>2, <2>4
<1> QED
  BY <1>1, <1>3, <1>6, <1>7, <1>8, <1>9, <1>10, <1>12, <1>13 DEF Next

\* Whatever classes are defined and redefined, at any depth and with whatever
\* bases in common, a lookup, what a new instance is filled with, the names a class
\* lists and isa() agree, and every instance has every property its class lists
\* (shell.c, lookup_property_recursive, populate_instance_defaults_recursive,
\* build_class_name_list_recursive, class_is_a_recursive).
THEOREM DefaultsAreFound == Spec => []DefaultsAsLookedUp
<1>1. Init => DefaultsInv
  <2>1. SUFFICES ASSUME Init PROVE DefaultsInv
    OBVIOUS
  <2>2. classes = <<>> /\ instances = <<>> /\ stack = <<>> /\ DOMAIN <<>> = {}
    BY <2>1 DEF Init
  <2>3. HierarchyInv
    BY <2>1, HierarchyInit
  <2>4. ClassTable(classes) /\ FieldsKnown(instances, classes) /\ ValuesKnown(stack)
    BY <2>2 DEF ClassTable, BasesDefined, FieldsKnown, ValuesKnown
  <2> QED
    BY <2>1, <2>3, <2>4, ClassesInit DEF DefaultsInv
<1>2. ASSUME DefaultsInv PROVE DefaultsAsLookedUp
  <2>1. /\ ClassTable(classes) /\ FieldsKnown(instances, classes)
        /\ IsFiniteSet(DOMAIN classes) /\ Cardinality(DOMAIN classes) <= MaxClasses
    BY <1>2 DEF DefaultsInv, HierarchyInv
  <2>2. ASSUME NEW i \in DOMAIN instances, NEW p \in PropertyNames(classes, instances[i].class)
        PROVE  GetProperty(i, p) # Unknown
    <3>1. instances[i].class \in DOMAIN classes
      BY <2>1 DEF FieldsKnown
    <3>2. LookupProperty(classes, instances[i].class, p) # Unknown
      BY <2>1, <3>1, FilledAsFound
    <3> QED
      BY <2>1, <3>2 DEF GetProperty, FieldsKnown
  <2>3. ASSUME NEW c \in DOMAIN classes, NEW b \in ClassNames
        PROVE  IsA(classes, c, b) <=> (b = c \/ ChainContains(classes, c, b))
    BY <2>1, IsAMeans
  <2>4. ASSUME NEW c \in DOMAIN classes
        PROVE  /\ DOMAIN Defaults(classes, c) = PropertyNames(classes, c)
               /\ \A p \in PropertyNames(classes, c) : Defaults(classes, c)[p] = LookupProperty(classes, c, p)
    BY <2>1, FilledAsFound
  <2> QED
    BY <2>2, <2>3, <2>4 DEF DefaultsAsLookedUp
<1> QED
  BY <1>1, <1>2, DefaultsNext, PTL DEF Spec
=============================================================================
