---------------------------- MODULE ControlProofs ---------------------------
(***************************************************************************)
(* Proofs about Control, for every depth of nesting, every n of break n and *)
(* every number of overflowing loops.                                       *)
(***************************************************************************)
EXTENDS Control, Positions, SequenceTheorems, FiniteSetTheorems, TLAPS

-----------------------------------------------------------------------------
(* The inductive invariant *)

Flags ==
  /\ ctl \in Statuses \cup {InCall}
  /\ running \in BOOLEAN /\ errexit \in BOOLEAN /\ pending \in BOOLEAN
  /\ err \in {"off", "on", "held"}
  /\ signal \in {"none", "break", "continue", "return"}
  /\ levels \in Nat /\ goal \in Nat /\ leaked \in Nat

Types == stack \in Seq(Activation) /\ Flags

\* The outermost activation is the prompt or a script; only it runs the EXIT
\* trap.
OutermostIn(st) ==
  /\ st # <<>> => st[1].kind \in {"repl", "script"}
  /\ \A i \in 1 .. Len(st) : st[i].kind = "repl" \/ st[i].ph = "exit" => i = 1

\* The ERR trap runs for a line that failed and that nothing shields.
ErrUnshielded(st) ==
  \A i \in 1 .. Len(st) : st[i].kind = "line" /\ st[i].ph = "err" =>
    /\ st[i].st # 0
    /\ st[1].ph # "exit"
    /\ \A k \in 1 .. i - 1 : ~ InCondition(st[k]) /\ ~ BeforeAndOr(st[k])

Unshielded == \A k \in 1 .. Len(stack) - 1 : ~ InCondition(stack[k]) /\ ~ BeforeAndOr(stack[k])

\* Between two entries of a list nothing runs and nothing is pending.
BetweenIdle ==
  \A i \in 1 .. Len(stack) : stack[i].ph = "between" =>
    i = Len(stack) /\ ~ Calling /\ signal = "none"

\* The four sets of activations that the depths count
LoopsIn(st)      == {i \in DOMAIN st : InLoop(st[i])}
FunctionsIn(st)  == {i \in DOMAIN st : InFunction(st[i])}
ConditionsIn(st) == {i \in DOMAIN st : InCondition(st[i])}
AndOrsIn(st)     == {i \in DOMAIN st : BeforeAndOr(st[i])}
BodiesIn(st)     == {i \in DOMAIN st : st[i].kind \in Loops /\ st[i].ph = "body"}

\* While a break or continue is under way to its loop nothing is called, and
\* as many loops are still to be ended as levels says.
Underway ==
  signal \in {"break", "continue"} /\ goal # 0 =>
    /\ ~ Calling
    /\ goal \in BodiesIn(stack)
    /\ Cardinality({k \in BodiesIn(stack) : k >= goal}) = levels

Counted ==
  /\ loopDepth  = Cardinality(LoopsIn(stack)) + leaked
  /\ funDepth   = Cardinality(FunctionsIn(stack))
  /\ inCond     = Cardinality(ConditionsIn(stack))
  /\ suppressed = Cardinality(AndOrsIn(stack))

ControlInv ==
  /\ Types
  /\ Calling => stack # <<>>
  /\ OutermostIn(stack)
  /\ ErrUnshielded(stack)
  /\ BetweenIdle
  /\ Counted
  /\ Underway

-----------------------------------------------------------------------------
(* Counting *)

\* Counting a set of positions, with and without one of them.
LEMMA CardTop ==
  ASSUME NEW n \in Nat, NEW S, S \subseteq 1 .. n
  PROVE  /\ IsFiniteSet(S) /\ Cardinality(S) \in Nat
         /\ Cardinality(S) = 0 <=> S = {}
         /\ \A x \in S : Cardinality(S \ {x}) = Cardinality(S) - 1
<1>1. IsFiniteSet(1 .. n)
  BY FS_Interval
<1>2. IsFiniteSet(S)
  BY <1>1, FS_Subset
<1>3. Cardinality(S) \in Nat
  BY <1>2, FS_CardinalityType
<1>4. Cardinality(S) = 0 <=> S = {}
  BY <1>2, FS_EmptySet
<1>5. \A x \in S : Cardinality(S \ {x}) = Cardinality(S) - 1
  BY <1>2, FS_RemoveElement
<1> QED
  BY <1>2, <1>3, <1>4, <1>5

\* Two sets of positions that differ at x at most
LEMMA CardDiffer ==
  ASSUME NEW n \in Nat, NEW S, NEW T, S \subseteq 1 .. n, T \subseteq 1 .. n, NEW x,
         S \ {x} = T \ {x}
  PROVE  Cardinality(T) = Cardinality(S) + One(x \in T) - One(x \in S)
<1>1. /\ Cardinality(S) \in Nat /\ Cardinality(T) \in Nat
      /\ x \in S => Cardinality(S \ {x}) = Cardinality(S) - 1
      /\ x \in T => Cardinality(T \ {x}) = Cardinality(T) - 1
  BY CardTop
<1>2. /\ x \notin S => S \ {x} = S
      /\ x \notin T => T \ {x} = T
  OBVIOUS
<1> DEFINE a == Cardinality(S)
           b == Cardinality(T)
           c == Cardinality(S \ {x})
<1>3. (IF x \in S THEN c = a - 1 ELSE c = a) /\ (IF x \in T THEN c = b - 1 ELSE c = b)
  BY <1>1, <1>2
<1>4. a \in Nat /\ b \in Nat
  BY <1>1
<1> HIDE DEF a, b, c
<1>5. b = a + One(x \in T) - One(x \in S)
  BY <1>3, <1>4 DEF One
<1> QED
  BY <1>5 DEF a, b

\* Two sets that differ at most in x, and both lack x, are equal.
LEMMA WithoutIt ==
  ASSUME NEW A, NEW B, NEW x, A \ {x} = B \ {x}, x \notin A, x \notin B
  PROVE  A = B
<1>1. A = A \ {x} /\ B = B \ {x}
  OBVIOUS
<1> QED
  BY <1>1

-----------------------------------------------------------------------------
(* The stack *)

\* A line that has ended counts for nothing.
Idle == Act("line", "done")

\* The counted sets of su are those of st with r0 gone and r1 there.
Recounts(su, st, r1, r0) ==
  /\ Cardinality(LoopsIn(su)) = Cardinality(LoopsIn(st)) + One(InLoop(r1)) - One(InLoop(r0))
  /\ Cardinality(FunctionsIn(su)) =
       Cardinality(FunctionsIn(st)) + One(InFunction(r1)) - One(InFunction(r0))
  /\ Cardinality(ConditionsIn(su)) =
       Cardinality(ConditionsIn(st)) + One(InCondition(r1)) - One(InCondition(r0))
  /\ Cardinality(AndOrsIn(su)) =
       Cardinality(AndOrsIn(st)) + One(BeforeAndOr(r1)) - One(BeforeAndOr(r0))

\* Changing, pushing or popping one activation changes each count by that
\* activation alone.
LEMMA RecountFacts ==
  ASSUME NEW st \in Seq(Activation), NEW su \in Seq(Activation), NEW r1, NEW r0, NEW n \in Nat, NEW x,
         DOMAIN st \subseteq 1 .. n, DOMAIN su \subseteq 1 .. n,
         DOMAIN st \ {x} = DOMAIN su \ {x}, \A i \in DOMAIN st \ {x} : su[i] = st[i],
         IF x \in DOMAIN su THEN r1 = su[x] ELSE r1 = Idle,
         IF x \in DOMAIN st THEN r0 = st[x] ELSE r0 = Idle
  PROVE  /\ Recounts(su, st, r1, r0)
         /\ BodiesIn(su) \ {x} = BodiesIn(st) \ {x}
<1>0. ~ InLoop(Idle) /\ ~ InFunction(Idle) /\ ~ InCondition(Idle) /\ ~ BeforeAndOr(Idle)
  BY DEF Idle, Act, InLoop, Loops, InFunction, InCondition, BeforeAndOr
<1>1. Cardinality(LoopsIn(su)) = Cardinality(LoopsIn(st)) + One(InLoop(r1)) - One(InLoop(r0))
  <2>1. LoopsIn(st) \subseteq 1 .. n /\ LoopsIn(su) \subseteq 1 .. n
    BY DEF LoopsIn
  <2>2. LoopsIn(st) \ {x} = LoopsIn(su) \ {x}
    BY DEF LoopsIn
  <2>3. (x \in LoopsIn(su) <=> InLoop(r1)) /\ (x \in LoopsIn(st) <=> InLoop(r0))
    BY <1>0 DEF LoopsIn
  <2>4. Cardinality(LoopsIn(su)) =
          Cardinality(LoopsIn(st)) + One(x \in LoopsIn(su)) - One(x \in LoopsIn(st))
    BY <2>1, <2>2, CardDiffer
  <2> QED
    BY <2>3, <2>4 DEF One
<1>2. Cardinality(FunctionsIn(su)) =
        Cardinality(FunctionsIn(st)) + One(InFunction(r1)) - One(InFunction(r0))
  <2>1. FunctionsIn(st) \subseteq 1 .. n /\ FunctionsIn(su) \subseteq 1 .. n
    BY DEF FunctionsIn
  <2>2. FunctionsIn(st) \ {x} = FunctionsIn(su) \ {x}
    BY DEF FunctionsIn
  <2>3. (x \in FunctionsIn(su) <=> InFunction(r1)) /\ (x \in FunctionsIn(st) <=> InFunction(r0))
    BY <1>0 DEF FunctionsIn
  <2>4. Cardinality(FunctionsIn(su)) =
          Cardinality(FunctionsIn(st)) + One(x \in FunctionsIn(su)) - One(x \in FunctionsIn(st))
    BY <2>1, <2>2, CardDiffer
  <2> QED
    BY <2>3, <2>4 DEF One
<1>3. Cardinality(ConditionsIn(su)) =
        Cardinality(ConditionsIn(st)) + One(InCondition(r1)) - One(InCondition(r0))
  <2>1. ConditionsIn(st) \subseteq 1 .. n /\ ConditionsIn(su) \subseteq 1 .. n
    BY DEF ConditionsIn
  <2>2. ConditionsIn(st) \ {x} = ConditionsIn(su) \ {x}
    BY DEF ConditionsIn
  <2>3. (x \in ConditionsIn(su) <=> InCondition(r1)) /\ (x \in ConditionsIn(st) <=> InCondition(r0))
    BY <1>0 DEF ConditionsIn
  <2>4. Cardinality(ConditionsIn(su)) =
          Cardinality(ConditionsIn(st)) + One(x \in ConditionsIn(su)) - One(x \in ConditionsIn(st))
    BY <2>1, <2>2, CardDiffer
  <2> QED
    BY <2>3, <2>4 DEF One
<1>4. Cardinality(AndOrsIn(su)) =
        Cardinality(AndOrsIn(st)) + One(BeforeAndOr(r1)) - One(BeforeAndOr(r0))
  <2>1. AndOrsIn(st) \subseteq 1 .. n /\ AndOrsIn(su) \subseteq 1 .. n
    BY DEF AndOrsIn
  <2>2. AndOrsIn(st) \ {x} = AndOrsIn(su) \ {x}
    BY DEF AndOrsIn
  <2>3. (x \in AndOrsIn(su) <=> BeforeAndOr(r1)) /\ (x \in AndOrsIn(st) <=> BeforeAndOr(r0))
    BY <1>0 DEF AndOrsIn
  <2>4. Cardinality(AndOrsIn(su)) =
          Cardinality(AndOrsIn(st)) + One(x \in AndOrsIn(su)) - One(x \in AndOrsIn(st))
    BY <2>1, <2>2, CardDiffer
  <2> QED
    BY <2>3, <2>4 DEF One
<1>5. BodiesIn(su) \ {x} = BodiesIn(st) \ {x}
  BY DEF BodiesIn
<1> QED
  BY <1>1, <1>2, <1>3, <1>4, <1>5 DEF Recounts

\* The depths follow: r1 has come and r0 has gone.
DepthsBy(r1, r0) ==
  /\ loopDepth'  = loopDepth + leaked' - leaked + One(InLoop(r1)) - One(InLoop(r0))
  /\ funDepth'   = funDepth + One(InFunction(r1)) - One(InFunction(r0))
  /\ inCond'     = inCond + One(InCondition(r1)) - One(InCondition(r0))
  /\ suppressed' = suppressed + One(BeforeAndOr(r1)) - One(BeforeAndOr(r0))

\* A step that moves the depths as it moves the counts keeps them equal.
LEMMA DepthsFollow ==
  ASSUME Types, Types', Counted, NEW r1, NEW r0, Recounts(stack', stack, r1, r0), DepthsBy(r1, r0)
  PROVE  Counted'
<1> DEFINE n == Len(stack)
<1>1. n \in Nat /\ DOMAIN stack = 1 .. n
  BY LenProperties DEF Types
<1>2. /\ Cardinality(LoopsIn(stack)) \in Nat /\ Cardinality(FunctionsIn(stack)) \in Nat
      /\ Cardinality(ConditionsIn(stack)) \in Nat /\ Cardinality(AndOrsIn(stack)) \in Nat
  BY <1>1, CardTop DEF LoopsIn, FunctionsIn, ConditionsIn, AndOrsIn
<1>3. leaked \in Nat /\ leaked' \in Nat
  BY DEF Types, Flags
<1>4. \A b : One(b) \in Nat
  BY DEF One
<1>5. /\ LoopsIn(stack)' = LoopsIn(stack') /\ FunctionsIn(stack)' = FunctionsIn(stack')
      /\ ConditionsIn(stack)' = ConditionsIn(stack') /\ AndOrsIn(stack)' = AndOrsIn(stack')
  OBVIOUS
<1> QED
  BY <1>2, <1>3, <1>4, <1>5 DEF Counted, DepthsBy, Recounts

\* A depth is zero when no activation of its kind is on the stack.
LEMMA CountedFacts ==
  ASSUME Types, Counted
  PROVE  /\ Len(stack) \in Nat /\ DOMAIN stack = 1 .. Len(stack)
         /\ loopDepth \in Nat /\ funDepth \in Nat /\ inCond \in Nat /\ suppressed \in Nat
         /\ inCond = 0 <=> \A i \in 1 .. Len(stack) : ~ InCondition(stack[i])
         /\ suppressed = 0 <=> \A i \in 1 .. Len(stack) : ~ BeforeAndOr(stack[i])
         /\ stack # <<>> => /\ Len(stack) >= 1 /\ Len(stack) \in 1 .. Len(stack)
                            /\ Top \in Activation
<1> DEFINE n == Len(stack)
<1>1. n \in Nat /\ DOMAIN stack = 1 .. n
  BY LenProperties DEF Types
<1>2. /\ Cardinality(LoopsIn(stack)) \in Nat /\ Cardinality(FunctionsIn(stack)) \in Nat
      /\ Cardinality(ConditionsIn(stack)) \in Nat /\ Cardinality(AndOrsIn(stack)) \in Nat
      /\ Cardinality(ConditionsIn(stack)) = 0 <=> ConditionsIn(stack) = {}
      /\ Cardinality(AndOrsIn(stack)) = 0 <=> AndOrsIn(stack) = {}
  BY <1>1, CardTop DEF LoopsIn, FunctionsIn, ConditionsIn, AndOrsIn
<1>3. /\ ConditionsIn(stack) = {} <=> \A i \in 1 .. n : ~ InCondition(stack[i])
      /\ AndOrsIn(stack) = {} <=> \A i \in 1 .. n : ~ BeforeAndOr(stack[i])
  BY <1>1 DEF ConditionsIn, AndOrsIn
<1>4. stack # <<>> => n >= 1 /\ n \in 1 .. n
  BY <1>1, EmptySeq DEF Types
<1>5. stack # <<>> => Top \in Activation
  BY <1>4, ElementOfSeq DEF Types, Top
<1> QED
  BY <1>1, <1>2, <1>3, <1>4, <1>5 DEF Counted, Types, Flags

\* The innermost activation becomes r.
LEMMA Swapped ==
  ASSUME ControlInv, Flags', Underway', stack # <<>>, NEW r \in Activation, Becomes(r),
         DepthsBy(r, Top),
         Len(stack) = 1 => r.kind \in {"repl", "script"},
         Len(stack) > 1 => r.kind # "repl" /\ r.ph # "exit",
         r.kind = "line" /\ r.ph = "err" => r.st # 0 /\ ~ Exiting /\ Unshielded,
         r.ph = "between" => ctl' # InCall /\ signal' = "none"
  PROVE  ControlInv'
<1> DEFINE n == Len(stack)
<1>1. /\ Types /\ Counted /\ OutermostIn(stack) /\ ErrUnshielded(stack) /\ BetweenIdle
      /\ stack \in Seq(Activation)
  BY DEF ControlInv, Types
<1>2. n \in Nat /\ n >= 1 /\ n \in 1 .. n /\ DOMAIN stack = 1 .. n
  BY <1>1, CountedFacts
<1>3. /\ stack' \in Seq(Activation) /\ Len(stack') = n /\ DOMAIN stack' = 1 .. n
      /\ stack'[n] = r /\ \A i \in 1 .. n : i # n => stack'[i] = stack[i]
  <2>1. stack' = [stack EXCEPT ![n] = r]
    BY DEF Becomes
  <2>2. /\ stack' \in Seq(Activation) /\ Len(stack') = n
        /\ \A i \in 1 .. n : stack'[i] = IF i = n THEN r ELSE stack[i]
    BY <2>1, <1>1, <1>2, ExceptSeq
  <2> QED
    BY <2>2, <1>2
<1>t. /\ Top = stack[n]
      /\ n = 1 => r.kind \in {"repl", "script"}
      /\ n > 1 => r.kind # "repl" /\ r.ph # "exit"
  BY DEF Top
<1>b. BetweenIdle' <=> \A i \in 1 .. n : stack'[i].ph = "between" => i = n /\ ctl' # InCall /\ signal' = "none"
  BY <1>3 DEF BetweenIdle, Calling
<1>c. \A i \in 1 .. n : stack[i].ph = "between" => i = n
  BY <1>1 DEF BetweenIdle
<1>d. /\ \A i \in 1 .. n : stack[i].kind = "repl" \/ stack[i].ph = "exit" => i = 1
      /\ stack[1].kind \in {"repl", "script"}
  BY <1>1 DEF OutermostIn
<1> HIDE DEF n
<1>4. Recounts(stack', stack, r, Top)
  BY <1>t, <1>1, <1>2, <1>3, RecountFacts DEF Top
<1>5. Counted'
  BY <1>1, <1>3, <1>4, DepthsFollow DEF Types
<1>6. OutermostIn(stack')
  <2>1. stack'[1].kind \in {"repl", "script"}
    <3>1. CASE n = 1
      BY <3>1, <1>t, <1>3
    <3>2. CASE n # 1
      <4>1. 1 \in 1 .. n /\ stack'[1] = stack[1]
        BY <3>2, <1>2, <1>3
      <4> QED
        BY <4>1, <1>d
    <3> QED
      BY <3>1, <3>2
  <2>2. ASSUME NEW i \in 1 .. n, stack'[i].kind = "repl" \/ stack'[i].ph = "exit" PROVE i = 1
    <3>1. CASE i = n
      <4>1. ~ (n > 1)
        BY <2>2, <3>1, <1>3, <1>t
      <4> QED
        BY <4>1, <3>1, <1>2
    <3>2. CASE i # n
      <4>1. stack'[i] = stack[i]
        BY <3>2, <1>3
      <4> QED
        BY <2>2, <4>1, <1>d
    <3> QED
      BY <3>1, <3>2
  <2> QED
    BY <2>1, <2>2, <1>3 DEF OutermostIn
<1>7. ErrUnshielded(stack')
  <2>1. SUFFICES ASSUME NEW i \in 1 .. n, stack'[i].kind = "line", stack'[i].ph = "err"
                 PROVE  /\ stack'[i].st # 0
                        /\ stack'[1].ph # "exit"
                        /\ \A k \in 1 .. i - 1 : ~ InCondition(stack'[k]) /\ ~ BeforeAndOr(stack'[k])
    BY <1>3 DEF ErrUnshielded
  <2>n. CASE i = n
    <3>1. n # 1 /\ r.kind = "line" /\ r.ph = "err"
      BY <2>1, <2>n, <1>3, <1>t
    <3>2. 1 \in 1 .. n /\ stack'[1] = stack[1]
      BY <3>1, <1>2, <1>3
    <3>3. \A k \in 1 .. n - 1 : k \in 1 .. n /\ k # n
      BY <1>2
    <3>4. \A k \in 1 .. n - 1 : stack'[k] = stack[k]
      BY <3>3, <1>3
    <3>5. r.st # 0 /\ stack[1].ph # "exit"
      BY <3>1 DEF Exiting
    <3>6. \A k \in 1 .. n - 1 : ~ InCondition(stack[k]) /\ ~ BeforeAndOr(stack[k])
      BY <3>1 DEF Unshielded, n
    <3> QED
      BY <2>n, <3>2, <3>4, <3>5, <3>6, <1>3
  <2>p. SUFFICES ASSUME i # n
                 PROVE  /\ stack'[i].st # 0
                        /\ stack'[1].ph # "exit"
                        /\ \A k \in 1 .. i - 1 : ~ InCondition(stack'[k]) /\ ~ BeforeAndOr(stack'[k])
    BY <2>n
  <2>2. i # n /\ stack'[i] = stack[i]
    BY <2>p, <1>3
  <2>3. \A k \in 1 .. i - 1 : stack'[k] = stack[k]
    <3>1. \A k \in 1 .. i - 1 : k \in 1 .. n /\ k # n
      BY <1>2, <2>2
    <3> QED
      BY <3>1, <1>3
  <2>4. i # 1
    BY <2>1, <2>2, <1>d
  <2>5. stack'[1] = stack[1]
    BY <2>3, <2>4
  <2>6. i \in 1 .. Len(stack)
    BY DEF n
  <2> QED
    BY <2>1, <2>2, <2>3, <2>5, <2>6, <1>1 DEF ErrUnshielded
<1>8. BetweenIdle'
  <2>1. SUFFICES ASSUME NEW i \in 1 .. n, stack'[i].ph = "between"
                 PROVE  i = n /\ ctl' # InCall /\ signal' = "none"
    BY <1>b
  <2>2. i = n
    BY <2>1, <1>c, <1>3
  <2> QED
    BY <2>1, <2>2, <1>3
<1>9. stack' # <<>>
  <2>1. Len(stack') # 0
    BY <1>2, <1>3
  <2> QED
    BY <2>1
<1> QED
  BY <1>3, <1>5, <1>6, <1>7, <1>8, <1>9 DEF ControlInv, Types

\* An activation r is called.
LEMMA Pushed ==
  ASSUME ControlInv, Flags', Underway', Calling, NEW r \in Activation, stack' = Append(stack, r),
         DepthsBy(r, Idle), r.kind # "repl", r.ph \notin {"exit", "between", "err"}
  PROVE  ControlInv'
<1> DEFINE n == Len(stack)
<1>1. /\ Types /\ Counted /\ OutermostIn(stack) /\ ErrUnshielded(stack) /\ BetweenIdle
      /\ stack \in Seq(Activation) /\ stack # <<>>
  BY DEF ControlInv, Types
<1>2. n \in Nat /\ n >= 1 /\ n \in 1 .. n /\ DOMAIN stack = 1 .. n
  BY <1>1, CountedFacts
<1>3. /\ stack' \in Seq(Activation) /\ Len(stack') = n + 1 /\ DOMAIN stack' = 1 .. n + 1
      /\ stack'[n + 1] = r /\ \A i \in 1 .. n : stack'[i] = stack[i]
  BY <1>1, <1>2, AppendProperties
<1>b. BetweenIdle' <=> \A i \in 1 .. n + 1 : stack'[i].ph = "between" => i = n + 1 /\ ~ Calling' /\ signal' = "none"
  BY <1>3 DEF BetweenIdle, Calling
<1>c. \A i \in 1 .. n : stack[i].ph # "between"
  BY <1>1 DEF BetweenIdle
<1>d. /\ \A i \in 1 .. n : stack[i].kind = "repl" \/ stack[i].ph = "exit" => i = 1
      /\ stack[1].kind \in {"repl", "script"}
  BY <1>1 DEF OutermostIn
<1> HIDE DEF n
<1>4. Recounts(stack', stack, r, Idle)
  <2>1. DOMAIN stack \subseteq 1 .. n + 1 /\ n + 1 \in Nat /\ n + 1 \notin DOMAIN stack
        /\ DOMAIN stack \ {n + 1} = DOMAIN stack' \ {n + 1} /\ n + 1 \in DOMAIN stack'
    BY <1>2, <1>3
  <2> QED
    BY <2>1, <1>1, <1>2, <1>3, RecountFacts
<1>5. Counted'
  BY <1>1, <1>3, <1>4, DepthsFollow DEF Types
<1>6. \A i \in 1 .. n + 1 : i \in 1 .. n \/ i = n + 1
  BY <1>2
<1>7. OutermostIn(stack')
  <2>1. stack'[1].kind \in {"repl", "script"}
    BY <1>d, <1>2, <1>3
  <2>2. ASSUME NEW i \in 1 .. n + 1, stack'[i].kind = "repl" \/ stack'[i].ph = "exit" PROVE i = 1
    BY <2>2, <1>d, <1>3, <1>6
  <2> QED
    BY <2>1, <2>2, <1>3 DEF OutermostIn
<1>8. ErrUnshielded(stack')
  <2>1. SUFFICES ASSUME NEW i \in 1 .. n + 1, stack'[i].kind = "line", stack'[i].ph = "err"
                 PROVE  /\ stack'[i].st # 0
                        /\ stack'[1].ph # "exit"
                        /\ \A k \in 1 .. i - 1 : ~ InCondition(stack'[k]) /\ ~ BeforeAndOr(stack'[k])
    BY <1>3 DEF ErrUnshielded
  <2>2. i \in 1 .. n /\ stack'[i] = stack[i]
    BY <2>1, <1>3, <1>6
  <2>3. stack'[1] = stack[1] /\ \A k \in 1 .. i - 1 : stack'[k] = stack[k]
    BY <2>2, <1>2, <1>3
  <2>4. i \in 1 .. Len(stack)
    BY <2>2 DEF n
  <2> QED
    BY <2>1, <2>2, <2>3, <2>4, <1>1 DEF ErrUnshielded
<1>9. BetweenIdle'
  <2>1. ASSUME NEW i \in 1 .. n + 1, stack'[i].ph = "between" PROVE FALSE
    BY <2>1, <1>c, <1>3, <1>6
  <2> QED
    BY <2>1, <1>b
<1>10. stack' # <<>>
  BY <1>2, <1>3
<1> QED
  BY <1>3, <1>5, <1>7, <1>8, <1>9, <1>10 DEF ControlInv, Types

\* A line returns.
LEMMA Popped ==
  ASSUME ControlInv, Flags', stack # <<>>, Top.kind = "line", Top.ph # "cond",
         ~ Calling', Pop, UNCHANGED <<depths, leaked, signal, levels, goal>>
  PROVE  ControlInv'
<1> DEFINE n == Len(stack)
<1>1. /\ Types /\ Counted /\ OutermostIn(stack) /\ ErrUnshielded(stack) /\ BetweenIdle
      /\ stack \in Seq(Activation) /\ stack # <<>>
  BY DEF ControlInv, Types
<1>2. n \in Nat /\ n >= 1 /\ n \in 1 .. n /\ DOMAIN stack = 1 .. n /\ n # 1 /\ Top \in Activation
  BY <1>1, CountedFacts DEF Top, OutermostIn
<1>3. /\ stack' \in Seq(Activation) /\ Len(stack') = n - 1 /\ DOMAIN stack' = 1 .. n - 1
      /\ \A i \in 1 .. n - 1 : stack'[i] = stack[i]
  <2>1. \A i \in 1 .. n - 1 : stack[i] \in Activation
    BY <1>1, <1>2, ElementOfSeq
  <2>2. stack' = SubSeq(stack, 1, n - 1)
    BY DEF Pop
  <2>3. 1 \in Int /\ n - 1 \in Int /\ 1 <= n - 1
    BY <1>2
  <2>4. stack' \in Seq(Activation) /\ Len(stack') = n - 1 /\ \A i \in 1 .. n - 1 : stack'[i] = stack[i]
    BY <2>1, <2>2, <2>3, SubSeqProperties
  <2> QED
    BY <2>4
<1>b. BetweenIdle' <=> \A i \in 1 .. n - 1 : stack'[i].ph = "between" => i = n - 1 /\ ~ Calling' /\ signal' = "none"
  BY <1>3 DEF BetweenIdle, Calling
<1>c. \A i \in 1 .. n : stack[i].ph = "between" => i = n
  BY <1>1 DEF BetweenIdle
<1>d. /\ \A i \in 1 .. n : stack[i].kind = "repl" \/ stack[i].ph = "exit" => i = 1
      /\ stack[1].kind \in {"repl", "script"}
  BY <1>1 DEF OutermostIn
<1>t. Top = stack[n]
  BY DEF Top
<1> HIDE DEF n
<1>4. Recounts(stack', stack, Idle, Top) /\ BodiesIn(stack') \ {n} = BodiesIn(stack) \ {n}
  <2>1. DOMAIN stack \ {n} = DOMAIN stack' \ {n} /\ n \in DOMAIN stack /\ n \notin DOMAIN stack'
        /\ DOMAIN stack' \subseteq 1 .. n /\ \A i \in DOMAIN stack \ {n} : stack'[i] = stack[i]
    BY <1>2, <1>3
  <2>2. Recounts(stack', stack, Idle, Top)
    BY <2>1, <1>t, <1>1, <1>2, <1>3, RecountFacts
  <2>3. BodiesIn(stack') \ {n} = BodiesIn(stack) \ {n}
    BY <2>1 DEF BodiesIn
  <2> QED
    BY <2>2, <2>3
<1>5. DepthsBy(Idle, Top)
  <2>1. ~ InLoop(Top) /\ ~ InFunction(Top) /\ ~ InCondition(Top) /\ ~ BeforeAndOr(Top)
    BY DEF InLoop, Loops, InFunction, InCondition, BeforeAndOr
  <2>2. ~ InLoop(Idle) /\ ~ InFunction(Idle) /\ ~ InCondition(Idle) /\ ~ BeforeAndOr(Idle)
    BY DEF Idle, Act, InLoop, Loops, InFunction, InCondition, BeforeAndOr
  <2>3. loopDepth \in Nat /\ funDepth \in Nat /\ inCond \in Nat /\ suppressed \in Nat /\ leaked \in Nat
    BY <1>1, CountedFacts DEF Types, Flags
  <2> QED
    BY <2>1, <2>2, <2>3 DEF DepthsBy, One, depths
<1>6. Counted'
  BY <1>1, <1>3, <1>4, <1>5, DepthsFollow DEF Types
<1>7. \A i \in 1 .. n - 1 : i \in 1 .. n /\ i # n
  BY <1>2
<1>8. OutermostIn(stack')
  <2>1. 1 \in 1 .. n - 1
    BY <1>2
  <2>2. stack'[1].kind \in {"repl", "script"}
    BY <2>1, <1>3, <1>d
  <2>3. \A i \in 1 .. n - 1 : stack'[i].kind = "repl" \/ stack'[i].ph = "exit" => i = 1
    BY <1>3, <1>7, <1>d
  <2> QED
    BY <2>2, <2>3, <1>3 DEF OutermostIn
<1>9. ErrUnshielded(stack')
  <2>1. SUFFICES ASSUME NEW i \in 1 .. n - 1, stack'[i].kind = "line", stack'[i].ph = "err"
                 PROVE  /\ stack'[i].st # 0
                        /\ stack'[1].ph # "exit"
                        /\ \A k \in 1 .. i - 1 : ~ InCondition(stack'[k]) /\ ~ BeforeAndOr(stack'[k])
    BY <1>3 DEF ErrUnshielded
  <2>2. i \in 1 .. n /\ stack'[i] = stack[i]
    BY <2>1, <1>3, <1>7
  <2>3. stack'[1] = stack[1] /\ \A k \in 1 .. i - 1 : stack'[k] = stack[k]
    BY <2>2, <1>2, <1>3
  <2>4. i \in 1 .. Len(stack)
    BY <2>2 DEF n
  <2> QED
    BY <2>1, <2>2, <2>3, <2>4, <1>1 DEF ErrUnshielded
<1>10. BetweenIdle'
  <2>1. ASSUME NEW i \in 1 .. n - 1, stack'[i].ph = "between" PROVE FALSE
    BY <2>1, <1>c, <1>3, <1>7
  <2> QED
    BY <2>1, <1>b
<1>11. Underway'
  <2>1. n \notin BodiesIn(stack') /\ n \notin BodiesIn(stack)
    BY <1>2, <1>3, <1>t DEF BodiesIn, Loops
  <2>2. BodiesIn(stack') = BodiesIn(stack)
    BY <1>4, <2>1, WithoutIt
  <2>3. BodiesIn(stack)' = BodiesIn(stack)
    BY <2>2
  <2> QED
    BY <2>3 DEF ControlInv, Underway
<1> QED
  BY <1>3, <1>6, <1>8, <1>9, <1>10, <1>11 DEF ControlInv, Types

\* The innermost activation is called and comes back, and nothing is counted.
LEMMA Stays ==
  ASSUME ControlInv, Flags', Underway', stack # <<>>, UNCHANGED <<stack, depths, leaked>>,
         Calling \/ Top.ph # "between" \/ (~ Calling' /\ signal' = "none")
  PROVE  ControlInv'
<1>1. /\ Types /\ Counted /\ OutermostIn(stack) /\ ErrUnshielded(stack) /\ BetweenIdle
  BY DEF ControlInv
<1>2. BetweenIdle'
  BY <1>1 DEF BetweenIdle, Top
<1>3. Counted'
  BY <1>1 DEF Counted, depths
<1> QED
  BY <1>1, <1>2, <1>3 DEF ControlInv, Types

-----------------------------------------------------------------------------
(* A pending break or continue *)

LoopBody(a) == a.kind \in Loops /\ a.ph = "body"

\* Nothing is counted and no loop's body is entered or left.
LEMMA StillUnderway ==
  ASSUME ControlInv, UNCHANGED <<signal, levels>>, goal' \in {goal, 0},
         Calling \/ BodiesIn(stack') = BodiesIn(stack),
         Calling' => Calling \/ goal' = 0 \/ signal = "none"
  PROVE  Underway'
<1>1. Underway
  BY DEF ControlInv
<1>2. BodiesIn(stack)' = BodiesIn(stack')
  OBVIOUS
<1> QED
  BY <1>1, <1>2 DEF Underway

\* Replacing the top activation changes the loop bodies at its position alone.
LEMMA BodiesSwapped ==
  ASSUME ControlInv, stack # <<>>, NEW r \in Activation, Becomes(r)
  PROVE  /\ BodiesIn(stack') \ {Len(stack)} = BodiesIn(stack) \ {Len(stack)}
         /\ Len(stack) \in BodiesIn(stack) <=> LoopBody(Top)
         /\ Len(stack) \in BodiesIn(stack') <=> LoopBody(r)
<1> DEFINE n == Len(stack)
<1>1. /\ Types /\ Counted /\ stack \in Seq(Activation)
  BY DEF ControlInv, Types
<1>2. n \in Nat /\ n >= 1 /\ n \in 1 .. n /\ DOMAIN stack = 1 .. n
  BY <1>1, CountedFacts
<1>3. stack' = [stack EXCEPT ![n] = r]
  BY DEF Becomes
<1>4. DOMAIN stack' = DOMAIN stack /\ stack'[n] = r /\ \A i \in DOMAIN stack : i # n => stack'[i] = stack[i]
  BY <1>2, <1>3
<1>5. Top = stack[n]
  BY DEF Top
<1> HIDE DEF n
<1>6. /\ BodiesIn(stack') \ {n} = BodiesIn(stack) \ {n}
      /\ n \in BodiesIn(stack) <=> LoopBody(Top)
      /\ n \in BodiesIn(stack') <=> LoopBody(r)
  BY <1>2, <1>4, <1>5 DEF BodiesIn, LoopBody
<1> QED
  BY <1>6 DEF n

\* The innermost activation becomes r and nothing is raised.
LEMMA Turned ==
  ASSUME ControlInv, Flags', stack # <<>>, NEW r \in Activation, Becomes(r), DepthsBy(r, Top),
         Len(stack) = 1 => r.kind \in {"repl", "script"},
         Len(stack) > 1 => r.kind # "repl" /\ r.ph # "exit",
         ~ (r.kind = "line" /\ r.ph = "err"),
         r.ph = "between" => ctl' # InCall /\ signal' = "none",
         (~ LoopBody(r) /\ ~ LoopBody(Top)) \/ signal = "none" \/ goal' = 0,
         UNCHANGED <<signal, levels>>, goal' \in {goal, 0},
         Calling' => goal' = 0 \/ signal = "none"
  PROVE  ControlInv'
<1>1. Underway'
  <2>1. CASE ~ LoopBody(r) /\ ~ LoopBody(Top)
    <3>1. BodiesIn(stack') = BodiesIn(stack)
      <4>1. /\ BodiesIn(stack') \ {Len(stack)} = BodiesIn(stack) \ {Len(stack)}
            /\ Len(stack) \notin BodiesIn(stack) /\ Len(stack) \notin BodiesIn(stack')
        BY <2>1, BodiesSwapped
      <4> QED
        BY <4>1, WithoutIt
    <3> QED
      BY <3>1, StillUnderway
  <2>2. CASE signal = "none" \/ goal' = 0
    BY <2>2 DEF Underway
  <2> QED
    BY <2>1, <2>2
<1> QED
  BY <1>1, Swapped

\* An activation r is called and nothing is raised.
LEMMA Called ==
  ASSUME ControlInv, Flags', Calling, NEW r \in Activation, stack' = Append(stack, r),
         DepthsBy(r, Idle), r.kind # "repl", r.ph \notin {"exit", "between", "err"},
         UNCHANGED <<signal, levels, goal>>
  PROVE  ControlInv'
<1>1. Underway'
  BY StillUnderway
<1> QED
  BY <1>1, Pushed

\* A line that has ended counts for nothing, whatever its status.
Over(s) == [Idle EXCEPT !.st = s]

\* A line that is over is in no loop, function, condition or list.
LEMMA OverFacts ==
  ASSUME NEW s \in Statuses
  PROVE  /\ Over(s) \in Activation /\ Over(s).kind = "line" /\ Over(s).ph = "done" /\ Over(s).st = s
         /\ ~ InLoop(Over(s)) /\ ~ InFunction(Over(s)) /\ ~ InCondition(Over(s)) /\ ~ BeforeAndOr(Over(s))
         /\ ~ LoopBody(Over(s))
         /\ ~ InLoop(Idle) /\ ~ InFunction(Idle) /\ ~ InCondition(Idle) /\ ~ BeforeAndOr(Idle)
         /\ [Act("line", "done") EXCEPT !.st = s] = Over(s)
  BY DEF Over, Idle, Act, Activation, Kinds, Phases, Follows, Statuses, Loops, InLoop, InFunction,
         InCondition, BeforeAndOr, LoopBody

\* The command of an activation ends and nothing is raised.
LEMMA Ended ==
  ASSUME ControlInv, Flags', Len(stack) > 1, NEW s \in Statuses, Ends(s), DepthsBy(Idle, Top),
         ~ LoopBody(Top) \/ signal = "none" \/ goal' = 0,
         UNCHANGED <<signal, levels>>, goal' \in {goal, 0}
  PROVE  ControlInv'
<1>1. stack # <<>>
  <2>1. CASE stack = <<>>
    BY <2>1
  <2> QED
    BY <2>1
<1>2. Becomes(Over(s)) /\ ctl' = s
  BY OverFacts DEF Ends
<1>3. DepthsBy(Over(s), Top)
  BY OverFacts DEF DepthsBy, One
<1>4. ~ Calling'
  BY <1>2 DEF Calling, InCall, Statuses
<1>5. Len(stack) # 1
  <2> DEFINE n == Len(stack)
  <2>1. n \in Nat /\ n > 1
    BY CountedFacts DEF ControlInv
  <2> HIDE DEF n
  <2>2. n # 1
    BY <2>1
  <2> QED
    BY <2>2 DEF n
<1> QED
  BY <1>1, <1>2, <1>3, <1>4, <1>5, OverFacts, Turned

-----------------------------------------------------------------------------
(* Lines that are run *)

\* Activations of none of the four kinds come and go without a change of the
\* depths.
LEMMA DepthsKept ==
  ASSUME ControlInv, NEW r1, NEW r0, UNCHANGED <<depths, leaked>>,
         ~ InLoop(r1) /\ ~ InFunction(r1) /\ ~ InCondition(r1) /\ ~ BeforeAndOr(r1),
         ~ InLoop(r0) /\ ~ InFunction(r0) /\ ~ InCondition(r0) /\ ~ BeforeAndOr(r0)
  PROVE  DepthsBy(r1, r0)
<1>1. loopDepth \in Nat /\ funDepth \in Nat /\ inCond \in Nat /\ suppressed \in Nat /\ leaked \in Nat
  BY CountedFacts DEF ControlInv, Types, Flags
<1> QED
  BY <1>1 DEF DepthsBy, One, depths

\* A command or a construct that has a status at once
LEMMA StatusStep ==
  ASSUME ControlInv, Calling, NEW s \in Statuses, Flags',
         stack' = Append(stack, [Act("line", "done") EXCEPT !.st = s]),
         UNCHANGED <<depths, leaked, signal, levels, goal>>
  PROVE  ControlInv'
<1>1. stack' = Append(stack, Over(s))
  BY OverFacts
<1>2. DepthsBy(Over(s), Idle)
  BY OverFacts, DepthsKept
<1> QED
  BY <1>1, <1>2, OverFacts, Called

\* A line that needs no parser, or that is rejected.
LEMMA ShortLineStep ==
  ASSUME ControlInv, NEW s \in Statuses, ShortLine(s)
  PROVE  ControlInv'
<1>1. Flags' /\ stack # <<>> /\ UNCHANGED <<stack, depths, leaked, signal, levels, goal>>
  BY DEF ControlInv, Types, Flags, ShortLine, SameRest, SameFlags, raised, Statuses
<1>2. Underway'
  BY <1>1, StillUnderway DEF ShortLine
<1> QED
  BY <1>1, <1>2, Stays DEF ShortLine

\* Commands that run no other line.
LEMMA SimpleStep ==
  ASSUME ControlInv, NEW s \in Statuses,
         \/ Command(s) \/ ForNothing(s)
         \/ /\ Simple(s) /\ UNCHANGED <<raised, leaked>>
            /\ running' \in BOOLEAN /\ errexit' \in BOOLEAN /\ pending' \in BOOLEAN
            /\ err' \in {"off", "on", "held"}
  PROVE  ControlInv'
<1>1. /\ Calling /\ ctl' = s /\ UNCHANGED <<depths, leaked, signal, levels, goal>>
      /\ stack' = Append(stack, [Act("line", "done") EXCEPT !.st = s])
  BY DEF Command, ForNothing, Simple, Push, SameRest, raised
<1>2. Types
  BY DEF ControlInv
<1>3. Flags'
  BY <1>1, <1>2 DEF Types, Flags, Command, ForNothing, Simple, SameRest, SameFlags, Statuses
<1> QED
  BY <1>1, <1>3, StatusStep

\* The n-th enclosing loop has n loops at and inside it.
LEMMA EnclosingFacts ==
  ASSUME NEW n
  PROVE  Enclosing(n) # 0 => /\ Enclosing(n) \in BodiesIn(stack)
                             /\ Cardinality({k \in BodiesIn(stack) : k >= Enclosing(n)}) = n
<1> DEFINE At_n == {i \in Bodies : Cardinality({k \in Bodies : k >= i}) = n}
<1>1. Bodies = BodiesIn(stack)
  BY DEF Bodies, BodiesIn
<1>2. Enclosing(n) = IF At_n = {} THEN 0 ELSE CHOOSE i \in At_n : TRUE
  BY DEF Enclosing
<1>3. Enclosing(n) # 0 => Enclosing(n) \in At_n
  <2> HIDE DEF At_n
  <2> QED
    BY <1>2
<1> QED
  BY <1>1, <1>3

\* Pushing anything but a loop body leaves the loop bodies as they are.
LEMMA BodiesPushed ==
  ASSUME ControlInv, NEW r, ~ LoopBody(r), r \in Activation, stack' = Append(stack, r)
  PROVE  BodiesIn(stack') = BodiesIn(stack)
<1> DEFINE n == Len(stack)
<1>1. Types /\ Counted /\ stack \in Seq(Activation)
  BY DEF ControlInv, Types
<1>2. n \in Nat /\ DOMAIN stack = 1 .. n
  BY <1>1, CountedFacts
<1>3. DOMAIN stack' = 1 .. n + 1 /\ stack'[n + 1] = r /\ \A i \in 1 .. n : stack'[i] = stack[i]
  BY <1>1, <1>2, AppendProperties
<1> HIDE DEF n
<1>4. \A i \in 1 .. n + 1 : i \in 1 .. n \/ i = n + 1
  BY <1>2
<1>5. \A i \in 1 .. n : i \in 1 .. n + 1
  BY <1>2
<1> QED
  BY <1>2, <1>3, <1>4, <1>5 DEF BodiesIn, LoopBody

\* break and continue, which fix the loop they are for.
LEMMA LoopControlStep ==
  ASSUME ControlInv, NEW k \in {"break", "continue"}, NEW n \in 1 .. MaxLevels, NEW b \in BOOLEAN,
         LoopControl(k, n, b)
  PROVE  ControlInv'
<1>1. /\ Types /\ Counted /\ Calling /\ stack # <<>> /\ UNCHANGED <<depths, leaked>>
      /\ UNCHANGED <<running, errexit, err, pending>>
  BY DEF ControlInv, LoopControl, SameFlags
<1>2. ctl' \in Statuses
  BY DEF LoopControl, Statuses
<1>3. /\ IF b THEN stack' = Append(stack, Over(ctl')) ELSE stack' = stack
      /\ BodiesIn(stack') = BodiesIn(stack)
  <2>1. CASE b
    <3>1. stack' = Append(stack, Over(ctl'))
      BY <2>1, <1>2, OverFacts DEF LoopControl, Push
    <3>2. ~ LoopBody(Over(ctl')) /\ Over(ctl') \in Activation
      BY <1>2, OverFacts
    <3>3. BodiesIn(stack') = BodiesIn(stack)
      BY <3>1, <3>2, BodiesPushed
    <3> QED
      BY <2>1, <3>1, <3>3
  <2>2. CASE ~ b
    BY <2>2 DEF LoopControl
  <2> QED
    BY <2>1, <2>2
<1>4. Flags' /\ Underway'
  <2>1. CASE loopDepth > 0
    <3>1. signal' = k /\ levels' = n /\ goal' = Enclosing(n) /\ ctl' = 0
      BY <2>1 DEF LoopControl
    <3>2. goal' # 0 => goal' \in BodiesIn(stack) /\ Cardinality({i \in BodiesIn(stack) : i >= goal'}) = n
      BY <3>1, EnclosingFacts
    <3>3. BodiesIn(stack) \subseteq Nat
      BY <1>1, CountedFacts DEF BodiesIn
    <3>4. goal' \in Nat
      BY <3>2, <3>3
    <3>5. Flags'
      BY <1>1, <3>1, <3>4, BoundsAssumption DEF Types, Flags, Statuses
    <3>6. BodiesIn(stack)' = BodiesIn(stack)
      BY <1>3
    <3>7. ~ Calling'
      BY <3>1 DEF Calling, InCall
    <3> QED
      BY <3>1, <3>2, <3>5, <3>6, <3>7 DEF Underway
  <2>2. CASE ~ (loopDepth > 0)
    <3>1. ctl' = 1 /\ UNCHANGED <<signal, levels, goal>>
      BY <2>2 DEF LoopControl, raised
    <3>2. Flags'
      BY <1>1, <3>1 DEF Types, Flags, Statuses
    <3> QED
      BY <1>1, <3>1, <3>2, StillUnderway
  <2> QED
    BY <2>1, <2>2
<1>5. CASE b
  <2>1. DepthsBy(Over(ctl'), Idle)
    BY <1>1, <1>2, OverFacts, DepthsKept
  <2>2. Over(ctl') \in Activation /\ Over(ctl').kind # "repl" /\ Over(ctl').ph \notin {"exit", "between", "err"}
    BY <1>2, OverFacts
  <2>3. stack' = Append(stack, Over(ctl'))
    BY <1>3, <1>5
  <2> QED
    BY <1>1, <1>4, <2>1, <2>2, <2>3, Pushed
<1>6. CASE ~ b
  <2>1. UNCHANGED <<stack, depths, leaked>>
    BY <1>1, <1>3, <1>6
  <2> QED
    BY <1>1, <1>4, <2>1, Stays
<1> QED
  BY <1>5, <1>6

\* return, in a function or a sourced file.
LEMMA ReturnLineStep ==
  ASSUME ControlInv, ReturnLine
  PROVE  ControlInv'
<1>1. Types /\ Calling /\ stack # <<>> /\ UNCHANGED <<stack, depths, leaked, running, errexit, err, pending>>
  BY DEF ControlInv, ReturnLine, SameFlags
<1>2. CASE funDepth > 0
  <2>1. signal' = "return" /\ levels' = 1 /\ goal' = 0 /\ ctl' = 0
    BY <1>2 DEF ReturnLine
  <2>2. Flags' /\ Underway'
    BY <1>1, <2>1 DEF Types, Flags, Underway, Statuses
  <2> QED
    BY <1>1, <2>2, Stays
<1>3. CASE ~ (funDepth > 0)
  <2>1. ctl' = 1 /\ UNCHANGED <<signal, levels, goal>>
    BY <1>3 DEF ReturnLine, raised
  <2>2. Flags'
    BY <1>1, <2>1 DEF Types, Flags, Statuses
  <2>3. Underway'
    BY <1>1, <2>1, StillUnderway
  <2> QED
    BY <1>1, <2>2, <2>3, Stays
<1> QED
  BY <1>2, <1>3

\* The commands that run other lines open with one activation.
LEMMA OpensStep ==
  ASSUME ControlInv, List \/ If \/ While \/ For \/ Function \/ Body \/ Source
  PROVE  ControlInv'
<1> USE DEF Act, Activation, Kinds, Loops, Phases, Follows, Statuses
<1>1. Types /\ Counted /\ Calling
  BY DEF ControlInv, List, If, While, For, Function, Body, Source
<1>2. /\ loopDepth \in Nat /\ funDepth \in Nat /\ inCond \in Nat /\ suppressed \in Nat
      /\ leaked \in Nat /\ Flags
  BY <1>1, CountedFacts DEF Types, Flags
<1>3. ~ InLoop(Idle) /\ ~ InFunction(Idle) /\ ~ InCondition(Idle) /\ ~ BeforeAndOr(Idle)
  BY OverFacts
<1>4. CASE List
  <2>1. PICK next \in Follows : /\ stack' = Append(stack, [Act("list", "entry") EXCEPT !.next = next])
                                /\ EntryRuns(next)
    BY <1>4 DEF List, Push
  <2> DEFINE r == [Act("list", "entry") EXCEPT !.next = next]
  <2>2. /\ r \in Activation /\ r.kind = "list" /\ r.ph = "entry" /\ r.next = next
    OBVIOUS
  <2>3. ~ InLoop(r) /\ ~ InFunction(r) /\ ~ InCondition(r) /\ (BeforeAndOr(r) <=> next = "conditional")
    BY <2>2 DEF InLoop, InFunction, InCondition, BeforeAndOr
  <2>4. DepthsBy(r, Idle)
    BY <2>1, <2>3, <1>2, <1>3 DEF EntryRuns, SameRest, DepthsBy, One
  <2>5. Flags' /\ UNCHANGED <<signal, levels, goal>>
    BY <2>1, <1>2 DEF EntryRuns, SameRest, SameFlags, Flags, raised
  <2> QED
    BY <1>1, <2>1, <2>2, <2>4, <2>5, Called
<1>5. CASE If
  <2> DEFINE r == Act("if", "cond")
  <2>2. /\ r \in Activation /\ r.kind = "if" /\ r.ph = "cond"
    OBVIOUS
  <2>3. ~ InLoop(r) /\ ~ InFunction(r) /\ InCondition(r) /\ ~ BeforeAndOr(r)
    BY <2>2 DEF InLoop, InFunction, InCondition, BeforeAndOr
  <2>4. DepthsBy(r, Idle)
    BY <2>3, <1>2, <1>3, <1>5 DEF If, Condition, SameRest, DepthsBy, One
  <2>5. Flags' /\ UNCHANGED <<signal, levels, goal>> /\ stack' = Append(stack, r)
    BY <1>2, <1>5 DEF If, Push, Condition, SameRest, SameFlags, Flags, raised
  <2> QED
    BY <1>1, <2>2, <2>4, <2>5, Called
<1>6. CASE While /\ running
  <2> DEFINE r == [Act("while", "cond") EXCEPT !.ph = "cond"]
  <2>2. /\ r \in Activation /\ r.kind = "while" /\ r.ph = "cond"
    OBVIOUS
  <2>3. InLoop(r) /\ ~ InFunction(r) /\ InCondition(r) /\ ~ BeforeAndOr(r)
    BY <2>2 DEF InLoop, InFunction, InCondition, BeforeAndOr
  <2>6. stack' = Append(stack, r) /\ Condition /\ loopDepth' = loopDepth + 1
    BY <1>6 DEF While, Iterate, Push, One
  <2>4. DepthsBy(r, Idle)
    BY <2>3, <2>6, <1>2, <1>3, <1>6 DEF While, Condition, SameRest, DepthsBy, One
  <2>5. Flags' /\ UNCHANGED <<signal, levels, goal>>
    BY <1>2, <1>6, <2>6 DEF While, Condition, SameRest, SameFlags, Flags, raised
  <2> QED
    BY <1>1, <2>2, <2>4, <2>5, <2>6, Called
<1>7. CASE While /\ ~ running
  <2>1. /\ stack' = Append(stack, [Act("line", "done") EXCEPT !.st = 0]) /\ ctl' = 0
        /\ inCond' = inCond /\ loopDepth' = loopDepth
    BY <1>2, <1>7 DEF While, Iterate, Push, One
  <2>2. Flags' /\ UNCHANGED <<depths, leaked, signal, levels, goal>>
    BY <1>2, <1>7, <2>1 DEF While, SameRest, SameFlags, Flags, raised, depths
  <2> QED
    BY <1>1, <2>1, <2>2, StatusStep
<1>8. CASE For
  <2> DEFINE r == Act("for", "body")
  <2>2. /\ r \in Activation /\ r.kind = "for" /\ r.ph = "body"
    OBVIOUS
  <2>3. InLoop(r) /\ ~ InFunction(r) /\ ~ InCondition(r) /\ ~ BeforeAndOr(r)
    BY <2>2 DEF InLoop, InFunction, InCondition, BeforeAndOr
  <2>4. DepthsBy(r, Idle)
    BY <2>3, <1>2, <1>3, <1>8 DEF For, SameRest, DepthsBy, One
  <2>5. Flags' /\ UNCHANGED <<signal, levels, goal>> /\ stack' = Append(stack, r)
    BY <1>2, <1>8 DEF For, Push, Call, SameRest, SameFlags, Flags, raised
  <2> QED
    BY <1>1, <2>2, <2>4, <2>5, Called
<1>9. CASE Function
  <2> DEFINE r == Act("function", "body")
  <2>2. /\ r \in Activation /\ r.kind = "function" /\ r.ph = "body"
    OBVIOUS
  <2>3. ~ InLoop(r) /\ InFunction(r) /\ ~ InCondition(r) /\ ~ BeforeAndOr(r)
    BY <2>2 DEF InLoop, InFunction, InCondition, BeforeAndOr
  <2>4. DepthsBy(r, Idle)
    BY <2>3, <1>2, <1>3, <1>9 DEF Function, SameRest, DepthsBy, One
  <2>5. Flags' /\ UNCHANGED <<signal, levels, goal>> /\ stack' = Append(stack, r)
    BY <1>2, <1>9 DEF Function, Push, Call, SameRest, SameFlags, Flags, raised
  <2> QED
    BY <1>1, <2>2, <2>4, <2>5, Called
<1>10. CASE Body \/ Source
  <2>1. PICK r \in {Act("body", "body"), Act("script", "body")} : stack' = Append(stack, r)
    BY <1>10 DEF Body, Source, Push
  <2>2. /\ r \in Activation /\ r.kind \in {"body", "script"} /\ r.ph = "body"
    <3>1. CASE r = Act("body", "body")
      BY <3>1
    <3>2. CASE r = Act("script", "body")
      BY <3>2
    <3> QED
      BY <3>1, <3>2, <2>1
  <2>3. ~ InLoop(r) /\ ~ InFunction(r) /\ ~ InCondition(r) /\ ~ BeforeAndOr(r)
    BY <2>2 DEF InLoop, InFunction, InCondition, BeforeAndOr
  <2>4. Flags' /\ UNCHANGED <<depths, leaked, signal, levels, goal>>
    BY <1>2, <1>10 DEF Body, Source, Call, SameRest, SameFlags, Flags, raised
  <2>5. DepthsBy(r, Idle)
    BY <2>3, <2>4, <1>3, DepthsKept
  <2> QED
    BY <1>1, <2>1, <2>2, <2>4, <2>5, Called
<1> QED
  BY <1>4, <1>5, <1>6, <1>7, <1>8, <1>9, <1>10

\* Every form of a line.
LEMMA LinesStep ==
  ASSUME ControlInv, Lines
  PROVE  ControlInv'
<1>1. Flags
  BY DEF ControlInv, Types
<1>2. CASE \E s \in Statuses : ShortLine(s) \/ Command(s) \/ ForNothing(s)
  BY <1>2, ShortLineStep, SimpleStep
<1>3. CASE \E k \in {"break", "continue"}, n \in 1 .. MaxLevels, b \in BOOLEAN : LoopControl(k, n, b)
  BY <1>3, LoopControlStep
<1>4. CASE ReturnLine
  BY <1>4, ReturnLineStep
<1>5. CASE Exit
  <2>1. PICK s \in Statuses : Simple(s)
    BY <1>5 DEF Exit
  <2>2. UNCHANGED <<raised, leaked, errexit, err, pending>> /\ running' = FALSE
    BY <1>5 DEF Exit
  <2>3. running' \in BOOLEAN
    BY <2>2, Zenon
  <2> QED
    BY <1>1, <2>1, <2>2, <2>3, SimpleStep DEF Flags
<1>6. CASE SetErrexit
  BY <1>1, <1>6, SimpleStep DEF SetErrexit, Flags, Statuses
<1>7. CASE TrapErr
  <2>1. Simple(0) /\ 0 \in Statuses /\ err' \in {"off", "on", "held"}
    BY <1>7 DEF TrapErr, Statuses
  <2> QED
    BY <1>1, <1>7, <2>1, SimpleStep DEF TrapErr, Flags
<1>8. CASE List \/ If \/ While \/ For \/ Function \/ Body \/ Source
  BY <1>8, OpensStep
<1> QED
  BY <1>2, <1>3, <1>4, <1>5, <1>6, <1>7, <1>8 DEF Lines

-----------------------------------------------------------------------------
(* Calls that have returned *)

\* What the invariant says of the activation that runs.
LEMMA TopFacts ==
  ASSUME ControlInv, stack # <<>>
  PROVE  /\ Types /\ Counted /\ Flags /\ Top \in Activation
         /\ Top.kind \notin {"repl", "script"} => Len(stack) > 1
         /\ Len(stack) > 1 => Top.kind # "repl" /\ Top.ph # "exit"
         /\ Len(stack) = 1 => Top.kind \in {"repl", "script"} /\ BodiesIn(stack) = {}
         /\ ~ (Len(stack) = 1 /\ Len(stack) > 1) /\ (Len(stack) = 1 \/ Len(stack) > 1)
         /\ loopDepth \in Nat /\ funDepth \in Nat /\ inCond \in Nat /\ suppressed \in Nat
         /\ leaked \in Nat
         /\ BeforeAndOr(Top) => suppressed # 0
<1> DEFINE n == Len(stack)
<1>1. Types /\ Counted /\ Flags /\ OutermostIn(stack)
  BY DEF ControlInv, Types
<1>2. n \in Nat /\ n >= 1 /\ n \in 1 .. n /\ DOMAIN stack = 1 .. n /\ Top \in Activation
  BY <1>1, CountedFacts
<1>3. Top = stack[n]
  BY DEF Top
<1>4. BeforeAndOr(Top) => suppressed # 0
  <2>1. suppressed = 0 => ~ BeforeAndOr(stack[Len(stack)])
    BY <1>1, <1>2, CountedFacts
  <2> QED
    BY <2>1 DEF Top
<1>5. /\ \A i \in 1 .. n : stack[i].kind = "repl" \/ stack[i].ph = "exit" => i = 1
      /\ stack[1].kind \in {"repl", "script"}
  BY <1>1 DEF OutermostIn
<1> HIDE DEF n
<1>6. n > 1 \/ n = 1
  BY <1>2
<1>7. n = 1 => Top.kind \in {"repl", "script"} /\ BodiesIn(stack) = {}
  <2>1. SUFFICES ASSUME n = 1 PROVE Top.kind \in {"repl", "script"} /\ BodiesIn(stack) = {}
    OBVIOUS
  <2>2. DOMAIN stack = {1} /\ Top = stack[1]
    BY <1>2, <1>3, <2>1
  <2> QED
    BY <2>2, <1>5 DEF BodiesIn, Loops
<1>8. Top.kind \notin {"repl", "script"} => n > 1
  BY <1>6, <1>7
<1>9. n > 1 => Top.kind # "repl" /\ Top.ph # "exit"
  BY <1>2, <1>3, <1>5
<1>10. ~ (n = 1 /\ n > 1)
  OBVIOUS
<1> QED
  BY <1>1, <1>2, <1>4, <1>6, <1>7, <1>8, <1>9, <1>10, CountedFacts DEF n, Types, Flags

\* What the innermost activation becomes when its call has returned
LEMMA ListEntryEndsStep ==
  ASSUME ControlInv, ListEntryEnds
  PROVE  ControlInv'
<1> USE DEF Activation, Kinds, Loops, Phases, Follows, Statuses
<1>1. stack # <<>> /\ Top.kind = "list" /\ Top.ph = "entry" /\ ctl # InCall
  BY DEF ListEntryEnds, Returned, At, Calling
<1>2. /\ Types /\ Counted /\ Flags /\ Top \in Activation /\ Len(stack) > 1 /\ Len(stack) # 1
      /\ loopDepth \in Nat /\ funDepth \in Nat /\ inCond \in Nat /\ suppressed \in Nat /\ leaked \in Nat
  BY <1>1, TopFacts
<1>3. BeforeAndOr(Top) => suppressed # 0
  BY <1>1, TopFacts
<1>4. ~ InLoop(Top) /\ ~ InFunction(Top) /\ ~ InCondition(Top) /\ ~ LoopBody(Top)
      /\ (BeforeAndOr(Top) <=> Top.next = "conditional")
  BY <1>1 DEF InLoop, InFunction, InCondition, BeforeAndOr, LoopBody
<1>5. ctl \in Statuses /\ UNCHANGED <<loopDepth, funDepth, inCond, signal, levels, goal, leaked>>
      /\ UNCHANGED <<running, errexit, err, pending>>
  BY <1>1, <1>2 DEF ListEntryEnds, SameRest, SameFlags, raised, Flags
<1>6. suppressed' = suppressed - One(BeforeAndOr(Top))
  BY <1>2, <1>3, <1>4 DEF ListEntryEnds, Unsuppress, One
<1>7. \A r : ~ InLoop(r) /\ ~ InFunction(r) /\ ~ InCondition(r) /\ ~ BeforeAndOr(r) => DepthsBy(r, Top)
  BY <1>2, <1>4, <1>5, <1>6 DEF DepthsBy, One
<1>8. ASSUME NEW s \in Statuses, Ends(s) PROVE ControlInv'
  <2>1. DepthsBy(Idle, Top)
    BY <1>7, OverFacts
  <2>2. Flags'
    BY <1>2, <1>5, <1>8 DEF Flags, Ends
  <2> QED
    BY <1>2, <1>4, <1>5, <1>8, <2>1, <2>2, Ended
<1>9. ASSUME running, signal = "none", UNCHANGED ctl,
             Becomes([Top EXCEPT !.ph = "between", !.st = ctl, !.out = TRUE])
      PROVE  ControlInv'
  <2> DEFINE r == [Top EXCEPT !.ph = "between", !.st = ctl, !.out = TRUE]
  <2>1. r \in Activation /\ r.kind = "list" /\ r.ph = "between"
    BY <1>1, <1>2, <1>5
  <2>2. ~ InLoop(r) /\ ~ InFunction(r) /\ ~ InCondition(r) /\ ~ BeforeAndOr(r) /\ ~ LoopBody(r)
    BY <2>1 DEF InLoop, InFunction, InCondition, BeforeAndOr, LoopBody
  <2>3. DepthsBy(r, Top)
    BY <2>2, <1>7
  <2>4. Flags' /\ ctl' # InCall /\ signal' = "none" /\ ~ Calling'
    BY <1>1, <1>2, <1>5, <1>9 DEF Flags, Calling
  <2>5. Becomes(r)
    BY <1>9
  <2> QED
    BY <1>1, <1>2, <1>4, <1>5, <2>1, <2>2, <2>3, <2>4, <2>5, Turned
<1> QED
  BY <1>5, <1>8, <1>9 DEF ListEntryEnds

\* A list goes on with its next entry, or skips it.
LEMMA ListNextStep ==
  ASSUME ControlInv, ListNext
  PROVE  ControlInv'
<1> USE DEF Activation, Kinds, Loops, Phases, Follows, Statuses
<1>1. stack # <<>> /\ Top.kind = "list" /\ Top.ph = "between" /\ ctl # InCall
  BY DEF ListNext, Returned, At, Calling
<1>2. /\ Types /\ Counted /\ Flags /\ Top \in Activation /\ Len(stack) > 1 /\ Len(stack) # 1
      /\ loopDepth \in Nat /\ funDepth \in Nat /\ inCond \in Nat /\ suppressed \in Nat /\ leaked \in Nat
  BY <1>1, TopFacts
<1>3. signal = "none"
  <2>1. BetweenIdle /\ Len(stack) \in 1 .. Len(stack)
    BY <1>1, <1>2, CountedFacts DEF ControlInv
  <2> QED
    BY <1>1, <2>1 DEF BetweenIdle, Top
<1>4. ~ InLoop(Top) /\ ~ InFunction(Top) /\ ~ InCondition(Top) /\ ~ LoopBody(Top) /\ ~ BeforeAndOr(Top)
  BY <1>1 DEF InLoop, InFunction, InCondition, BeforeAndOr, LoopBody
<1>5. CASE Top.next = "nothing" /\ Ends(Top.st) /\ UNCHANGED depths /\ SameRest
  <2>1. Flags' /\ UNCHANGED <<depths, leaked, signal, levels, goal>> /\ Top.st \in Statuses
    BY <1>2, <1>5 DEF Flags, Ends, SameRest, SameFlags, raised
  <2>2. DepthsBy(Idle, Top)
    BY <2>1, <1>4, OverFacts, DepthsKept
  <2> QED
    BY <1>2, <1>3, <1>5, <2>1, <2>2, Ended
<1>6. ASSUME NEW next \in Follows, EntryRuns(next),
             Becomes([Top EXCEPT !.ph = "entry", !.st = 0, !.next = next])
      PROVE  ControlInv'
  <2> DEFINE r == [Top EXCEPT !.ph = "entry", !.st = 0, !.next = next]
  <2>1. r \in Activation /\ r.kind = "list" /\ r.ph = "entry" /\ r.next = next
    BY <1>1, <1>2
  <2>2. ~ InLoop(r) /\ ~ InFunction(r) /\ ~ InCondition(r) /\ (BeforeAndOr(r) <=> next = "conditional")
        /\ ~ LoopBody(r)
    BY <2>1 DEF InLoop, InFunction, InCondition, BeforeAndOr, LoopBody
  <2>3. DepthsBy(r, Top)
    BY <1>2, <1>4, <1>6, <2>2 DEF EntryRuns, SameRest, DepthsBy, One
  <2>4. Flags' /\ UNCHANGED <<signal, levels, goal>>
    BY <1>2, <1>6 DEF EntryRuns, SameRest, SameFlags, Flags, raised
  <2>5. Becomes(r)
    BY <1>6
  <2> QED
    BY <1>1, <1>2, <1>3, <2>1, <2>2, <2>3, <2>4, <2>5, Turned
<1>7. ASSUME NEW next \in Follows, Becomes([Top EXCEPT !.next = next]), UNCHANGED <<depths, ctl>>, SameRest
      PROVE  ControlInv'
  <2> DEFINE r == [Top EXCEPT !.next = next]
  <2>1. r \in Activation /\ r.kind = "list" /\ r.ph = "between"
    BY <1>1, <1>2
  <2>2. ~ InLoop(r) /\ ~ InFunction(r) /\ ~ InCondition(r) /\ ~ BeforeAndOr(r) /\ ~ LoopBody(r)
    BY <2>1 DEF InLoop, InFunction, InCondition, BeforeAndOr, LoopBody
  <2>3. Flags' /\ UNCHANGED <<depths, leaked, signal, levels, goal>> /\ ctl' # InCall /\ signal' = "none"
    BY <1>1, <1>2, <1>3, <1>7 DEF SameRest, SameFlags, Flags, raised
  <2>4. DepthsBy(r, Top)
    BY <1>4, <2>2, <2>3, DepthsKept
  <2>5. Becomes(r)
    BY <1>7
  <2> QED
    BY <1>1, <1>2, <1>3, <2>1, <2>2, <2>3, <2>4, <2>5, Turned
<1> QED
  BY <1>5, <1>6, <1>7 DEF ListNext

\* An if has its condition.
LEMMA IfConditionStep ==
  ASSUME ControlInv, IfCondition
  PROVE  ControlInv'
<1> USE DEF Activation, Kinds, Loops, Phases, Follows, Statuses
<1>1. stack # <<>> /\ Top.kind = "if" /\ Top.ph = "cond" /\ ctl # InCall
  BY DEF IfCondition, Returned, At, Calling
<1>2. /\ Types /\ Counted /\ Flags /\ Top \in Activation /\ Len(stack) > 1 /\ Len(stack) # 1
      /\ loopDepth \in Nat /\ funDepth \in Nat /\ inCond \in Nat /\ suppressed \in Nat /\ leaked \in Nat
  BY <1>1, TopFacts
<1>3. ~ InLoop(Top) /\ ~ InFunction(Top) /\ InCondition(Top) /\ ~ LoopBody(Top) /\ ~ BeforeAndOr(Top)
  BY <1>1 DEF InLoop, InFunction, InCondition, BeforeAndOr, LoopBody
<1>4. /\ UNCHANGED <<loopDepth, funDepth, suppressed, signal, levels, goal, leaked>>
      /\ inCond' = inCond - 1 /\ UNCHANGED <<running, errexit, err, pending>> /\ ctl \in Statuses
  BY <1>1, <1>2 DEF IfCondition, SameRest, SameFlags, raised, Flags
<1>5. \A r : ~ InLoop(r) /\ ~ InFunction(r) /\ ~ InCondition(r) /\ ~ BeforeAndOr(r) => DepthsBy(r, Top)
  BY <1>2, <1>3, <1>4 DEF DepthsBy, One
<1>6. ASSUME NEW s \in Statuses, Ends(s) PROVE ControlInv'
  <2>1. DepthsBy(Idle, Top)
    BY <1>5, OverFacts
  <2>2. Flags'
    BY <1>2, <1>4, <1>6 DEF Flags, Ends
  <2> QED
    BY <1>2, <1>3, <1>4, <1>6, <2>1, <2>2, Ended
<1>7. CASE signal = "none" /\ Becomes(Act("body", "body")) /\ Call
  <2> DEFINE r == Act("body", "body")
  <2>1. r \in Activation /\ r.kind = "body" /\ r.ph = "body"
    BY DEF Act
  <2>2. ~ InLoop(r) /\ ~ InFunction(r) /\ ~ InCondition(r) /\ ~ BeforeAndOr(r) /\ ~ LoopBody(r)
    BY <2>1 DEF InLoop, InFunction, InCondition, BeforeAndOr, LoopBody
  <2>3. DepthsBy(r, Top)
    BY <1>5, <2>2
  <2>4. Flags'
    BY <1>2, <1>4, <1>7 DEF Flags, Call
  <2> QED
    BY <1>1, <1>2, <1>4, <1>7, <2>1, <2>2, <2>3, <2>4, Turned
<1> QED
  BY <1>4, <1>6, <1>7 DEF IfCondition

\* A while or until has its condition, or reaches the limit of iterations.
LEMMA WhileConditionStep ==
  ASSUME ControlInv, WhileCondition \/ WhileOverflows
  PROVE  ControlInv'
<1> USE DEF Activation, Kinds, Loops, Phases, Follows, Statuses
<1>1. stack # <<>> /\ Top.kind = "while" /\ Top.ph = "cond" /\ ctl # InCall
  BY DEF WhileCondition, WhileOverflows, Returned, At, Calling
<1>2. /\ Types /\ Counted /\ Flags /\ Top \in Activation /\ Len(stack) > 1 /\ Len(stack) # 1
      /\ loopDepth \in Nat /\ funDepth \in Nat /\ inCond \in Nat /\ suppressed \in Nat /\ leaked \in Nat
  BY <1>1, TopFacts
<1>3. InLoop(Top) /\ ~ InFunction(Top) /\ InCondition(Top) /\ ~ LoopBody(Top) /\ ~ BeforeAndOr(Top)
  BY <1>1 DEF InLoop, InFunction, InCondition, BeforeAndOr, LoopBody
<1>4. /\ UNCHANGED <<funDepth, suppressed, signal, levels, goal>> /\ inCond' = inCond - 1
      /\ UNCHANGED <<running, errexit, err, pending>> /\ ctl \in Statuses
  BY <1>1, <1>2 DEF WhileCondition, WhileOverflows, SameRest, SameFlags, raised, Flags
<1>5. ASSUME NEW s \in Statuses, Ends(s),
             \/ loopDepth' = loopDepth - 1 /\ leaked' = leaked
             \/ loopDepth' = loopDepth /\ leaked' = leaked + 1
      PROVE  ControlInv'
  <2>1. DepthsBy(Idle, Top)
    BY <1>2, <1>3, <1>4, <1>5, OverFacts DEF DepthsBy, One
  <2>2. leaked' \in Nat
    BY <1>2, <1>5
  <2>3. Flags'
    BY <1>2, <1>4, <1>5, <2>2 DEF Flags, Ends
  <2> QED
    BY <1>2, <1>3, <1>4, <1>5, <2>1, <2>3, Ended
<1>6. CASE /\ signal = "none" /\ Becomes([Act("while", "body") EXCEPT !.out = TRUE]) /\ Call
           /\ UNCHANGED <<loopDepth, leaked>>
  <2> DEFINE r == [Act("while", "body") EXCEPT !.out = TRUE]
  <2>1. r \in Activation /\ r.kind = "while" /\ r.ph = "body"
    BY DEF Act
  <2>2. InLoop(r) /\ ~ InFunction(r) /\ ~ InCondition(r) /\ ~ BeforeAndOr(r)
    BY <2>1 DEF InLoop, InFunction, InCondition, BeforeAndOr
  <2>3. DepthsBy(r, Top)
    BY <1>2, <1>3, <1>4, <1>6, <2>2 DEF DepthsBy, One
  <2>4. Flags'
    BY <1>2, <1>4, <1>6 DEF Flags, Call
  <2>5. Becomes(r)
    BY <1>6
  <2> QED
    BY <1>1, <1>2, <1>4, <1>6, <2>1, <2>2, <2>3, <2>4, <2>5, Turned
<1>7. CASE WhileCondition
  <2>1. UNCHANGED leaked
    BY <1>7 DEF WhileCondition, SameRest
  <2> QED
    BY <1>2, <1>4, <1>5, <1>6, <1>7, <2>1 DEF WhileCondition
<1>8. CASE WhileOverflows
  BY <1>5, <1>8 DEF WhileOverflows
<1> QED
  BY <1>7, <1>8

\* A loop through which break n or continue n passes: one loop less is left.
LEMMA LoopLeft ==
  ASSUME ControlInv, stack # <<>>, LoopBody(Top), NEW s \in Statuses, Becomes(Over(s)),
         signal \in {"break", "continue"}, levels > 1, levels' = levels - 1,
         UNCHANGED <<signal, goal>>, ~ Calling'
  PROVE  Underway'
<1> DEFINE n == Len(stack)
<1>1. SUFFICES ASSUME goal # 0
               PROVE  /\ goal \in BodiesIn(stack')
                      /\ Cardinality({k \in BodiesIn(stack') : k >= goal}) = levels'
  BY DEF Underway
<1>2. goal \in BodiesIn(stack) /\ Cardinality({k \in BodiesIn(stack) : k >= goal}) = levels
  BY <1>1 DEF ControlInv, Underway
<1>3. n \in BodiesIn(stack) /\ n \notin BodiesIn(stack') /\ BodiesIn(stack') \ {n} = BodiesIn(stack) \ {n}
  BY OverFacts, BodiesSwapped
<1>4. n \in Nat /\ BodiesIn(stack) \subseteq 1 .. n /\ levels \in Nat
  BY CountedFacts DEF ControlInv, Types, Flags, BodiesIn
<1> HIDE DEF n
<1>5. BodiesIn(stack') = BodiesIn(stack) \ {n}
  BY <1>3
<1> DEFINE S == {k \in BodiesIn(stack) : k >= goal}
<1>6. n \in S /\ S \subseteq 1 .. n
  BY <1>2, <1>3, <1>4
<1>7. Cardinality(S) = levels /\ Cardinality(S \ {n}) = levels - 1
  BY <1>2, <1>4, <1>6, CardTop
<1>8. goal # n
  <2>1. SUFFICES ASSUME goal = n PROVE FALSE
    OBVIOUS
  <2>2. S \ {n} = {}
    BY <1>4, <2>1
  <2>3. S \ {n} \subseteq 1 .. n
    BY <1>6
  <2>4. Cardinality(S \ {n}) = 0
    BY <1>4, <2>2, <2>3, CardTop
  <2> HIDE DEF S
  <2> QED
    BY <2>4, <1>4, <1>7
<1>9. {k \in BodiesIn(stack') : k >= goal} = S \ {n}
  BY <1>5
<1> QED
  BY <1>2, <1>5, <1>7, <1>8, <1>9

\* What resolve_loop_control leaves of the signal
LEMMA ResolveFacts ==
  ASSUME Flags, Resolves
  PROVE  /\ signal' \in {"none", "break", "continue", "return"} /\ levels' \in Nat /\ goal' \in Nat
         /\ Resolve[1] # "propagate" => signal' = "none"
         /\ Resolve[1] = "propagate" =>
              /\ UNCHANGED <<signal, goal>>
              /\ signal = "return" \/ (signal \in {"break", "continue"} /\ levels > 1 /\ levels' = levels - 1)
<1>1. levels \in Nat /\ goal \in Nat /\ signal \in {"none", "break", "continue", "return"}
  BY DEF Flags
<1>2. signal' = Resolve[2] /\ levels' = Resolve[3] /\ goal' = IF signal' = "none" THEN 0 ELSE goal
  BY DEF Resolves
<1>3. CASE signal = "none"
  <2>1. Resolve = <<"none", "none", levels>>
    BY <1>3 DEF Resolve
  <2> QED
    BY <1>1, <1>2, <2>1
<1>4. CASE signal = "return"
  <2>1. Resolve = <<"propagate", signal, levels>>
    BY <1>4 DEF Resolve
  <2> QED
    BY <1>1, <1>2, <1>4, <2>1
<1>5. CASE signal \in {"break", "continue"} /\ levels > 1
  <2>1. Resolve = <<"propagate", signal, levels - 1>>
    BY <1>5 DEF Resolve
  <2> QED
    BY <1>1, <1>2, <1>5, <2>1
<1>6. CASE signal \in {"break", "continue"} /\ ~ (levels > 1)
  <2>1. Resolve = <<signal, "none", 0>>
    BY <1>6 DEF Resolve
  <2> QED
    BY <1>1, <1>2, <1>6, <2>1
<1> QED
  BY <1>1, <1>3, <1>4, <1>5, <1>6

\* A loop in its body counts as a loop and as nothing else.
LEMMA BodyFacts ==
  ASSUME ControlInv, stack # <<>>, Top.kind \in Loops, Top.ph = "body"
  PROVE  /\ InLoop(Top) /\ ~ InFunction(Top) /\ ~ InCondition(Top) /\ ~ BeforeAndOr(Top)
         /\ LoopBody(Top) /\ Len(stack) > 1 /\ Len(stack) # 1
<1>1. Top.kind \notin {"repl", "script"}
  BY DEF Loops
<1>2. Len(stack) > 1 /\ Len(stack) # 1
  BY <1>1, TopFacts
<1> QED
  BY <1>2 DEF InLoop, InFunction, InCondition, BeforeAndOr, LoopBody, Loops

\* A loop ends after its body.
LEMMA LoopEndsStep ==
  ASSUME ControlInv, stack # <<>>, Top.kind \in Loops, Top.ph = "body", NEW s \in Statuses, Ends(s),
         loopDepth' = loopDepth - 1, UNCHANGED <<inCond, funDepth, suppressed, leaked>>, Flags', Underway'
  PROVE  ControlInv'
<1>1. Becomes(Over(s)) /\ ctl' = s
  BY OverFacts DEF Ends
<1>2. DepthsBy(Over(s), Top)
  BY TopFacts, BodyFacts, OverFacts DEF DepthsBy, One
<1> QED
  BY <1>1, <1>2, BodyFacts, OverFacts, Swapped

\* The iteration of a loop whose body has ended
LEMMA LoopGoesOn ==
  ASSUME ControlInv, stack # <<>>, Top.kind \in Loops, Top.ph = "body", NEW r \in Activation,
         Becomes(r), r.kind = Top.kind, r.ph \in {"cond", "body"},
         loopDepth' = loopDepth, inCond' = inCond + One(r.ph = "cond"),
         UNCHANGED <<funDepth, suppressed, leaked>>, Flags', signal' = "none"
  PROVE  ControlInv'
<1>1. InLoop(r) /\ ~ InFunction(r) /\ (InCondition(r) <=> r.ph = "cond") /\ ~ BeforeAndOr(r)
      /\ r.kind \notin {"repl", "line"} /\ r.ph \notin {"exit", "between"}
  BY DEF InLoop, InFunction, InCondition, BeforeAndOr, Loops
<1>2. DepthsBy(r, Top)
  BY <1>1, TopFacts, BodyFacts DEF DepthsBy, One
<1>3. Underway'
  BY DEF Underway
<1> QED
  BY <1>1, <1>2, <1>3, BodyFacts, Swapped

\* The body of a loop ends: normally, or with a signal that resolve_loop_control
\* takes up or passes on.
LEMMA LoopBodyStep ==
  ASSUME ControlInv, WhileBody \/ ForBody
  PROVE  ControlInv'
<1> USE DEF Statuses
<1>1. /\ stack # <<>> /\ Top.kind \in Loops /\ Top.ph = "body" /\ ctl # InCall
      /\ WhileBody => Top.kind = "while"
  BY DEF WhileBody, ForBody, Returned, At, Calling, Loops
<1>2. /\ Flags /\ Top \in Activation /\ Len(stack) > 1
      /\ loopDepth \in Nat /\ funDepth \in Nat /\ inCond \in Nat /\ suppressed \in Nat /\ leaked \in Nat
  BY <1>1, TopFacts, BodyFacts
<1>3. ctl \in Statuses
  BY <1>1, <1>2 DEF Flags
<1>4. UNCHANGED <<funDepth, suppressed, leaked, running, errexit, err, pending>>
  BY DEF WhileBody, ForBody, LoopOverflows, Resolves, SameFlags
<1>5. CASE LoopOverflows
  <2>1. Ends(1) /\ loopDepth' = loopDepth - 1 /\ goal' = 0 /\ UNCHANGED <<inCond, signal, levels>>
    BY <1>5 DEF LoopOverflows, LoopEnds
  <2>2. Underway'
    BY <2>1 DEF Underway
  <2>3. Flags'
    BY <1>2, <1>4, <2>1 DEF Flags, Ends
  <2> QED
    BY <1>1, <1>4, <2>1, <2>2, <2>3, LoopEndsStep
<1>6. CASE Resolves
  <2>1. /\ signal' \in {"none", "break", "continue", "return"} /\ levels' \in Nat /\ goal' \in Nat
        /\ Resolve[1] # "propagate" => signal' = "none"
        /\ Resolve[1] = "propagate" =>
             /\ UNCHANGED <<signal, goal>>
             /\ signal = "return" \/ (signal \in {"break", "continue"} /\ levels > 1 /\ levels' = levels - 1)
    BY <1>2, <1>6, ResolveFacts
  <2>2. ctl' \in Statuses \cup {InCall} => Flags'
    BY <1>2, <1>4, <2>1 DEF Flags
  <2>3. ASSUME NEW s \in Statuses, Ends(s), loopDepth' = loopDepth - 1, UNCHANGED inCond
        PROVE  ControlInv'
    <3>1. ctl' = s /\ Becomes(Over(s)) /\ ~ Calling'
      BY <2>3, OverFacts DEF Ends, Calling, InCall
    <3>2. LoopBody(Top)
      BY <1>1, BodyFacts
    <3>3. Underway'
      <4>1. CASE Resolve[1] # "propagate" \/ signal = "return"
        BY <2>1, <4>1 DEF Underway
      <4>2. CASE Resolve[1] = "propagate" /\ signal # "return"
        BY <1>1, <2>1, <3>1, <3>2, <4>2, LoopLeft
      <4> QED
        BY <4>1, <4>2
    <3> QED
      BY <1>1, <1>4, <2>2, <2>3, <3>1, <3>3, LoopEndsStep
  <2>4. ASSUME NEW s \in Statuses, Iterate([Top EXCEPT !.st = s], FALSE), signal' = "none", WhileBody
        PROVE  ControlInv'
    <3> DEFINE act == [Top EXCEPT !.st = s]
    <3>1. act \in Activation /\ act.kind = Top.kind /\ act.st = s
      BY <1>2 DEF Activation
    <3>2. CASE running
      <4> DEFINE r == [act EXCEPT !.ph = "cond"]
      <4>1. r \in Activation /\ r.kind = Top.kind /\ r.ph = "cond"
        BY <3>1 DEF Activation, Phases
      <4>2. Becomes(r) /\ inCond' = inCond + 1 /\ ctl' \in {InCall} \cup Statuses /\ loopDepth' = loopDepth
        BY <1>2, <2>4, <3>2 DEF Iterate, Condition, One
      <4>3. inCond' = inCond + One(r.ph = "cond")
        BY <4>1, <4>2 DEF One
      <4>4. Flags'
        BY <2>2, <4>2
      <4> HIDE DEF r
      <4> QED
        BY <1>1, <1>4, <2>4, <4>1, <4>2, <4>3, <4>4, LoopGoesOn
    <3>3. CASE ~ running
      <4>1. Ends(s) /\ inCond' = inCond /\ loopDepth' = loopDepth - 1
        BY <1>2, <2>4, <3>1, <3>3 DEF Iterate, Ends, One
      <4> QED
        BY <2>3, <4>1
    <3> QED
      BY <3>2, <3>3
  <2>5. ASSUME NEW s \in Statuses, ForNext(s), signal' = "none" PROVE ControlInv'
    <3>1. CASE LoopEnds(s)
      BY <2>3, <3>1 DEF LoopEnds
    <3>2. CASE Becomes([Top EXCEPT !.out = TRUE]) /\ Call /\ UNCHANGED <<loopDepth, inCond>>
      <4> DEFINE r == [Top EXCEPT !.out = TRUE]
      <4>1. r \in Activation /\ r.kind = Top.kind /\ r.ph = "body"
        BY <1>1, <1>2 DEF Activation
      <4>2. inCond' = inCond + One(r.ph = "cond")
        BY <1>2, <3>2, <4>1 DEF One
      <4>3. Flags' /\ Becomes(r)
        BY <2>2, <3>2 DEF Call
      <4> HIDE DEF r
      <4> QED
        BY <1>1, <1>4, <2>5, <3>2, <4>1, <4>2, <4>3, LoopGoesOn
    <3> QED
      BY <2>5, <3>1, <3>2 DEF ForNext
  <2>6. ASSUME NEW s \in Statuses, LoopEnds(s) PROVE ControlInv'
    BY <2>3, <2>6 DEF LoopEnds
  <2>7. CASE WhileBody
    <3>1. \/ LoopOverflows
          \/ Resolve[1] = "break" /\ LoopEnds(0)
          \/ Resolve[1] = "propagate" /\ LoopEnds(ctl)
          \/ Resolve[1] = "continue" /\ Iterate([Top EXCEPT !.st = 0], FALSE)
          \/ Resolve[1] = "none" /\ Iterate([Top EXCEPT !.st = ctl], FALSE)
      BY <2>7 DEF WhileBody
    <3> QED
      BY <1>3, <1>5, <2>1, <2>4, <2>6, <2>7, <3>1
  <2>8. CASE ForBody
    <3>1. \/ LoopOverflows
          \/ Resolve[1] = "break" /\ LoopEnds(0)
          \/ Resolve[1] = "propagate" /\ LoopEnds(ctl)
          \/ Resolve[1] = "continue" /\ ForNext(0)
          \/ Resolve[1] = "none" /\ ForNext(ctl)
      BY <2>8 DEF ForBody
    <3> QED
      BY <1>3, <1>5, <2>1, <2>5, <2>6, <3>1
  <2> QED
    BY <2>7, <2>8
<1> QED
  BY <1>5, <1>6 DEF WhileBody, ForBody

\* A function ends, and a return with it when the function succeeded.
LEMMA FunctionEndsStep ==
  ASSUME ControlInv, FunctionEnds
  PROVE  ControlInv'
<1>1. stack # <<>> /\ Top.kind = "function" /\ Top.ph = "body" /\ ctl # InCall
  BY DEF FunctionEnds, Returned, At, Calling
<1>2. /\ Flags /\ Len(stack) > 1 /\ Len(stack) # 1
      /\ loopDepth \in Nat /\ funDepth \in Nat /\ inCond \in Nat /\ suppressed \in Nat /\ leaked \in Nat
  BY <1>1, TopFacts
<1>3. ~ InLoop(Top) /\ InFunction(Top) /\ ~ InCondition(Top) /\ ~ LoopBody(Top) /\ ~ BeforeAndOr(Top)
  BY <1>1 DEF InLoop, InFunction, InCondition, BeforeAndOr, LoopBody, Loops
<1>4. /\ ctl \in Statuses /\ Ends(ctl) /\ funDepth' = funDepth - 1
      /\ UNCHANGED <<loopDepth, inCond, suppressed, leaked, running, errexit, err, pending>>
  BY <1>1, <1>2 DEF FunctionEnds, DepthAfter, SameFlags, Flags
<1>5. DepthsBy(Idle, Top)
  BY <1>2, <1>3, <1>4, OverFacts DEF DepthsBy, One
<1>6. CASE ctl = 0 /\ signal = "return"
  <2>1. signal' = "none" /\ levels' = 0 /\ goal' = 0 /\ ctl' = ctl
    BY <1>4, <1>6 DEF FunctionEnds, Ends
  <2>2. Flags' /\ Underway'
    BY <1>2, <1>4, <2>1 DEF Flags, Underway
  <2>3. Becomes(Over(ctl)) /\ DepthsBy(Over(ctl), Top)
    BY <1>4, <1>5, OverFacts DEF Ends, DepthsBy, One
  <2> QED
    BY <1>1, <1>2, <1>4, <2>2, <2>3, OverFacts, Swapped
<1>7. CASE ~ (ctl = 0 /\ signal = "return")
  <2>1. UNCHANGED <<signal, levels, goal>> /\ ctl' = ctl
    BY <1>4, <1>7 DEF FunctionEnds, Ends, raised
  <2>2. Flags'
    BY <1>2, <1>4, <2>1 DEF Flags
  <2> QED
    BY <1>2, <1>3, <1>4, <1>5, <2>1, <2>2, Ended
<1> QED
  BY <1>6, <1>7

\* A group, a branch or an eval ends.
LEMMA BodyEndsStep ==
  ASSUME ControlInv, BodyEnds
  PROVE  ControlInv'
<1>1. stack # <<>> /\ Top.kind = "body" /\ Top.ph = "body" /\ ctl # InCall
  BY DEF BodyEnds, Returned, At, Calling
<1>2. Flags /\ Len(stack) > 1
  BY <1>1, TopFacts
<1>3. ~ InLoop(Top) /\ ~ InFunction(Top) /\ ~ InCondition(Top) /\ ~ LoopBody(Top) /\ ~ BeforeAndOr(Top)
  BY <1>1 DEF InLoop, InFunction, InCondition, BeforeAndOr, LoopBody, Loops
<1>4. PICK s \in Statuses : Ends(s)
  BY <1>1, <1>2 DEF BodyEnds, Flags, Statuses
<1>5. /\ UNCHANGED <<depths, leaked, signal, levels, goal>> /\ Flags'
  BY <1>2, <1>4 DEF BodyEnds, Ends, SameRest, SameFlags, Flags, raised
<1>6. DepthsBy(Idle, Top)
  BY <1>3, <1>5, OverFacts, DepthsKept
<1> QED
  BY <1>2, <1>3, <1>4, <1>5, <1>6, Ended

-----------------------------------------------------------------------------
(* The end of a line, the prompt and scripts *)

\* A line, the prompt or a script moves on.
LEMMA MovesStep ==
  ASSUME ControlInv, Flags', stack # <<>>, Top.kind \in {"line", "repl", "script"}, Top.ph # "cond",
         NEW ph \in Phases \ {"cond", "between"}, Moves(ph),
         UNCHANGED <<depths, leaked, signal, levels>>, goal' \in {goal, 0},
         Len(stack) > 1 => ph # "exit",
         Top.kind = "line" /\ ph = "err" => Top.st # 0 /\ ~ Exiting /\ Unshielded,
         Calling' => goal' = 0 \/ Len(stack) = 1
  PROVE  ControlInv'
<1> DEFINE r == [Top EXCEPT !.ph = ph]
<1>1. /\ Top \in Activation
      /\ Len(stack) > 1 => Top.kind # "repl" /\ Top.ph # "exit"
      /\ Len(stack) = 1 => Top.kind \in {"repl", "script"} /\ BodiesIn(stack) = {}
  BY TopFacts
<1>2. r \in Activation /\ r.kind = Top.kind /\ r.ph = ph /\ r.st = Top.st /\ Becomes(r)
  BY <1>1 DEF Activation, Moves
<1> HIDE DEF r
<1>3. /\ ~ InLoop(r) /\ ~ InFunction(r) /\ ~ InCondition(r) /\ ~ BeforeAndOr(r) /\ ~ LoopBody(r)
      /\ ~ InLoop(Top) /\ ~ InFunction(Top) /\ ~ InCondition(Top) /\ ~ BeforeAndOr(Top) /\ ~ LoopBody(Top)
  BY <1>2 DEF InLoop, InFunction, InCondition, BeforeAndOr, LoopBody, Loops
<1>4. DepthsBy(r, Top)
  BY <1>3, DepthsKept
<1>5. Underway'
  <2>1. BodiesIn(stack') = BodiesIn(stack)
    <3>1. /\ BodiesIn(stack') \ {Len(stack)} = BodiesIn(stack) \ {Len(stack)}
          /\ Len(stack) \notin BodiesIn(stack) /\ Len(stack) \notin BodiesIn(stack')
      BY <1>2, <1>3, BodiesSwapped
    <3> QED
      BY <3>1, WithoutIt
  <2>2. BodiesIn(stack)' = BodiesIn(stack)
    BY <2>1
  <2> QED
    BY <1>1, <2>2 DEF ControlInv, Underway
<1> QED
  BY <1>1, <1>2, <1>4, <1>5, Swapped

\* The shell leaves its outermost activation.
LEMMA Emptied ==
  ASSUME ControlInv, Len(stack) = 1, stack # <<>>, ~ Calling, Top.ph # "cond", stack' = <<>>,
         UNCHANGED <<ctl, depths, leaked, signal, levels, goal, running, errexit, err, pending>>
  PROVE  ControlInv'
<1>1. /\ Types /\ Counted /\ Flags /\ Top \in Activation
      /\ Top.kind \in {"repl", "script"} /\ BodiesIn(stack) = {}
  BY TopFacts
<1>2. stack \in Seq(Activation) /\ DOMAIN stack = 1 .. 1
  BY <1>1, CountedFacts DEF Types
<1>3. stack' \in Seq(Activation) /\ DOMAIN stack' = {} /\ Len(stack') = 0
  OBVIOUS
<1>4. Recounts(stack', stack, Idle, Top)
  <2>1. DOMAIN stack \ {1} = DOMAIN stack' \ {1} /\ 1 \in DOMAIN stack /\ 1 \notin DOMAIN stack'
        /\ DOMAIN stack \subseteq 1 .. 1 /\ DOMAIN stack' \subseteq 1 .. 1
        /\ \A i \in DOMAIN stack \ {1} : stack'[i] = stack[i]
    BY <1>2, <1>3
  <2>2. Top = stack[1] /\ 1 \in Nat
    BY DEF Top
  <2>3. \A su \in Seq(Activation) :
          /\ DOMAIN su \subseteq 1 .. 1 /\ DOMAIN stack \ {1} = DOMAIN su \ {1} /\ 1 \notin DOMAIN su
          /\ \A i \in DOMAIN stack \ {1} : su[i] = stack[i]
          => Recounts(su, stack, Idle, Top)
    BY <2>1, <2>2, <1>2, RecountFacts
  <2> QED
    BY <2>1, <2>3, <1>3
<1>5. ~ InLoop(Top) /\ ~ InFunction(Top) /\ ~ InCondition(Top) /\ ~ BeforeAndOr(Top)
  BY <1>1 DEF InLoop, InFunction, InCondition, BeforeAndOr, Loops
<1>6. DepthsBy(Idle, Top)
  <2>1. 0 \in Statuses
    BY DEF Statuses
  <2> QED
    BY <1>5, <2>1, OverFacts, DepthsKept
<1>7. Flags' /\ Types'
  BY <1>1, <1>3 DEF Flags, Types
<1>8. Counted'
  BY <1>1, <1>4, <1>6, <1>7, DepthsFollow
<1>9. Underway'
  BY <1>1 DEF ControlInv, Underway
<1>10. OutermostIn(stack') /\ ErrUnshielded(stack') /\ BetweenIdle'
  BY <1>3 DEF OutermostIn, ErrUnshielded, BetweenIdle
<1>11. ~ Calling'
  BY DEF Calling
<1> QED
  BY <1>7, <1>8, <1>9, <1>10, <1>11 DEF ControlInv

\* The steps of arksh_shell_execute_line between its command and its end.
LEMMA LineStep ==
  ASSUME ControlInv, LineFires \/ LineFired \/ LineErr
  PROVE  ControlInv'
<1>1. stack # <<>> /\ Top.kind = "line" /\ Top.ph \in {"done", "firing", "fired"} /\ ~ Calling
  BY DEF LineFires, LineFired, LineErr, Fired, Returned, At
<1>2. Types /\ Counted /\ Flags /\ Len(stack) > 1
  BY <1>1, TopFacts
<1>3. PICK ph \in {"firing", "fired", "err"} :
        /\ Moves(ph) /\ goal' \in {goal, 0} /\ (Calling' => goal' = 0)
        /\ ph = "err" => LineErr
  BY <1>1 DEF LineFires, LineFired, LineErr, Fire, SameRest, raised, Calling
<1>4. UNCHANGED <<depths, leaked, signal, levels>>
  BY DEF LineFires, LineFired, LineErr, Fire, SameRest, raised
<1>5. Flags'
  <2>1. ctl' \in Statuses \cup {InCall}
    BY <1>2 DEF LineFires, LineFired, LineErr, Fire, Call, Flags
  <2>2. running' \in BOOLEAN /\ errexit' \in BOOLEAN
    BY <1>2 DEF LineFires, LineFired, LineErr, Fire, SameRest, SameFlags, Flags
  <2>3. pending' = pending \/ pending' = FALSE
    BY DEF LineFires, LineFired, LineErr, Fire, SameRest, SameFlags
  <2>4. pending' \in BOOLEAN
    BY <1>2, <2>3, Zenon DEF Flags
  <2>5. err' \in {"off", "on", "held"}
    BY <1>2 DEF LineFires, LineFired, LineErr, Fire, SameRest, SameFlags, Flags
  <2> QED
    BY <1>2, <1>3, <1>4, <2>1, <2>2, <2>4, <2>5 DEF Flags
<1>6. LineErr => Top.st # 0 /\ ~ Exiting /\ Unshielded
  <2>1. SUFFICES ASSUME LineErr PROVE Top.st # 0 /\ ~ Exiting /\ Unshielded
    OBVIOUS
  <2>2. Top.st # 0 /\ inCond = 0 /\ suppressed = 0 /\ ~ Exiting
    BY <2>1 DEF LineErr, Counts
  <2> DEFINE n == Len(stack)
  <2>3. n \in Nat /\ \A i \in 1 .. n : ~ InCondition(stack[i]) /\ ~ BeforeAndOr(stack[i])
    BY <1>2, <2>2, CountedFacts
  <2> HIDE DEF n
  <2>4. \A i \in 1 .. n - 1 : i \in 1 .. n
    BY <2>3
  <2>5. \A i \in 1 .. n - 1 : ~ InCondition(stack[i]) /\ ~ BeforeAndOr(stack[i])
    BY <2>3, <2>4
  <2> QED
    BY <2>2, <2>5 DEF n, Unshielded
<1>7. ph \in Phases \ {"cond", "between"} /\ ph # "exit"
  BY DEF Phases
<1> QED
  BY <1>1, <1>3, <1>4, <1>5, <1>6, <1>7, MovesStep

\* arksh_shell_execute_line ends, and errexit may end the shell.
LEMMA LineEndsStep ==
  ASSUME ControlInv, LineEnds
  PROVE  ControlInv'
<1>1. stack # <<>> /\ Top.kind = "line" /\ Top.ph \in {"done", "fired", "err"} /\ ~ Calling
  BY DEF LineEnds, Fired, Returned, At
<1>2. Flags /\ Top \in Activation
  BY <1>1, TopFacts
<1>3. /\ Pop /\ ctl' = Top.st /\ UNCHANGED <<depths, leaked, signal, levels, goal, errexit, pending>>
      /\ running' = (running /\ ~ (errexit /\ (Top.ph = "err" \/ Counts(Top.st))))
      /\ err' = IF Top.ph = "err" /\ err = "held" THEN "on" ELSE err
  BY DEF LineEnds, raised
<1>4. running' \in BOOLEAN
  BY <1>3, Zenon
<1>5. ctl' \in Statuses /\ ~ Calling'
  BY <1>2, <1>3 DEF Activation, Statuses, Calling, InCall
<1>6. err' \in {"off", "on", "held"}
  BY <1>2, <1>3 DEF Flags
<1>7. Flags'
  BY <1>2, <1>3, <1>4, <1>5, <1>6 DEF Flags
<1> QED
  BY <1>1, <1>3, <1>5, <1>7, Popped

\* The REPL, a script and a signal.
LEMMA TopLevelStep ==
  ASSUME ControlInv,
         ScriptNext \/ ScriptEnds \/ ReplPrompts \/ ReplFires \/ ReplReads \/ ReplEnds \/ ExitTrapEnds \/ Signal
  PROVE  ControlInv'
<1>1. stack # <<>> /\ ~ Calling /\ Top.ph \in {"body", "firing", "read", "exit", "done"}
  BY DEF ScriptNext, ScriptEnds, ReplPrompts, ReplFires, ReplReads, ReplEnds, ExitTrapEnds, Signal,
         Returned, At
<1>2. /\ Types /\ Counted /\ Flags /\ Top \in Activation
      /\ Len(stack) > 1 => Top.kind # "repl" /\ Top.ph # "exit"
      /\ ~ (Len(stack) > 1) => Len(stack) = 1
  BY <1>1, TopFacts
<1>3. ASSUME Leave, Len(stack) = 1, Top.kind \in {"repl", "script"} PROVE ControlInv'
  <2>1. UNCHANGED <<depths, leaked, signal, levels, goal, running, errexit, err, pending>>
    BY <1>3 DEF Leave, SameRest, SameFlags, raised
  <2>2. CASE Moves("exit") /\ Call
    <3>1. Flags' /\ "exit" \in Phases \ {"cond", "between"}
      BY <1>2, <2>1, <2>2 DEF Flags, Call, Phases
    <3>2. ~ (Len(stack) > 1)
      BY <1>3
    <3> QED
      BY <1>1, <1>3, <2>1, <2>2, <3>1, <3>2, MovesStep
  <2>3. CASE stack' = <<>> /\ UNCHANGED ctl
    BY <1>1, <1>3, <2>1, <2>3, Emptied
  <2> QED
    BY <1>3, <2>2, <2>3 DEF Leave
<1>4. CASE ScriptNext
  <2>1. /\ UNCHANGED <<stack, depths, leaked, signal, levels, running, errexit, err, pending>>
        /\ ctl' = InCall /\ goal' = 0
    BY <1>4 DEF ScriptNext, SameFlags, Call
  <2>2. Flags' /\ Underway'
    BY <1>2, <2>1 DEF Flags, Underway
  <2> QED
    BY <1>1, <2>1, <2>2, Stays
<1>5. CASE ScriptEnds /\ Len(stack) > 1
  <2>1. Ends(ctl) /\ UNCHANGED <<depths, leaked, signal, levels, goal, running, errexit, err, pending>>
        /\ Top.kind = "script" /\ Top.ph = "body" /\ ctl \in Statuses
    BY <1>1, <1>2, <1>5 DEF ScriptEnds, SameRest, SameFlags, raised, Returned, At, Calling, Flags
  <2>2. ~ InLoop(Top) /\ ~ InFunction(Top) /\ ~ InCondition(Top) /\ ~ LoopBody(Top) /\ ~ BeforeAndOr(Top)
    BY <2>1 DEF InLoop, InFunction, InCondition, BeforeAndOr, LoopBody, Loops
  <2>3. Flags'
    BY <1>2, <2>1 DEF Flags, Ends
  <2>4. DepthsBy(Idle, Top)
    BY <2>1, <2>2, OverFacts, DepthsKept
  <2> QED
    BY <1>5, <2>1, <2>2, <2>3, <2>4, Ended
<1>6. CASE ScriptEnds /\ ~ (Len(stack) > 1)
  BY <1>2, <1>3, <1>6 DEF ScriptEnds, Returned, At
<1>7. CASE ReplPrompts \/ ReplFires \/ ReplReads
  <2>1. Top.kind = "repl" /\ Len(stack) = 1 /\ ~ (Len(stack) > 1)
    BY <1>2, <1>7 DEF ReplPrompts, ReplFires, ReplReads, Returned, At
  <2>2. PICK ph \in {"read", "firing", "body"} : Moves(ph)
    BY <1>7 DEF ReplPrompts, ReplFires, ReplReads, Fire
  <2>3. UNCHANGED <<depths, leaked, signal, levels, running, errexit, err>> /\ goal' \in {goal, 0}
    BY <1>7 DEF ReplPrompts, ReplFires, ReplReads, Fire, SameRest, SameFlags, raised
  <2>4. ctl' \in Statuses \cup {InCall}
    BY <1>2, <1>7 DEF ReplPrompts, ReplFires, ReplReads, Fire, Call, Flags
  <2>5. pending' = pending \/ pending' = FALSE
    BY <1>7 DEF ReplPrompts, ReplFires, ReplReads, Fire, SameRest, SameFlags
  <2>6. pending' \in BOOLEAN
    BY <1>2, <2>5, Zenon DEF Flags
  <2>7. Flags'
    BY <1>2, <2>3, <2>4, <2>6 DEF Flags
  <2>8. ph \in Phases \ {"cond", "between"}
    BY DEF Phases
  <2> QED
    BY <1>1, <2>1, <2>2, <2>3, <2>7, <2>8, MovesStep
<1>8. CASE ReplEnds
  <2>1. Top.kind = "repl" /\ Leave
    BY <1>8 DEF ReplEnds, Returned, At
  <2> QED
    BY <1>2, <1>3, <2>1
<1>9. CASE ExitTrapEnds
  <2>1. /\ Top.ph = "exit" /\ stack' = <<>>
        /\ UNCHANGED <<ctl, depths, leaked, signal, levels, goal, running, errexit, err, pending>>
    BY <1>9 DEF ExitTrapEnds, Returned, At, SameRest, SameFlags, raised
  <2>2. Len(stack) = 1
    BY <1>2, <2>1
  <2> QED
    BY <1>1, <2>1, <2>2, Emptied
<1>10. CASE Signal
  <2>1. /\ UNCHANGED <<ctl, stack, depths, leaked, signal, levels, goal, running, errexit, err>>
        /\ pending' = TRUE
    BY <1>10 DEF Signal, raised
  <2>2. pending' \in BOOLEAN
    BY <2>1, Zenon
  <2>3. Flags'
    BY <1>2, <2>1, <2>2 DEF Flags
  <2>4. Underway'
    BY <2>1 DEF ControlInv, Underway, Calling
  <2> QED
    BY <1>1, <2>1, <2>3, <2>4, Stays
<1> QED
  BY <1>4, <1>5, <1>6, <1>7, <1>8, <1>9, <1>10

-----------------------------------------------------------------------------
(* The invariant *)

\* The shell starts with one activation and all depths zero.
LEMMA ControlInit ==
  ASSUME Init
  PROVE  ControlInv
<1>1. PICK k \in {"repl", "script"} : stack = <<Act(k, "body")>>
  BY DEF Init
<1> DEFINE a == Act(k, "body")
<1>2. a \in Activation /\ a.kind = k /\ a.ph = "body"
  BY DEF Act, Activation, Kinds, Loops, Phases, Statuses, Follows
<1>3. stack \in Seq(Activation) /\ DOMAIN stack = {1} /\ stack[1] = a /\ stack # <<>> /\ Len(stack) = 1
  BY <1>1, <1>2
<1> HIDE DEF a
<1>4. Flags
  <2>1. running = TRUE /\ errexit = FALSE /\ pending = FALSE
    BY DEF Init
  <2>2. running \in BOOLEAN /\ errexit \in BOOLEAN /\ pending \in BOOLEAN
    BY <2>1, Zenon
  <2> QED
    BY <2>2 DEF Init, Flags
<1>5. LoopsIn(stack) = {} /\ FunctionsIn(stack) = {} /\ ConditionsIn(stack) = {} /\ AndOrsIn(stack) = {}
  BY <1>2, <1>3 DEF LoopsIn, FunctionsIn, ConditionsIn, AndOrsIn, InLoop, InFunction, InCondition,
     BeforeAndOr, Loops
<1>6. Counted
  BY <1>5, FS_EmptySet DEF Counted, Init
<1>7. OutermostIn(stack) /\ ErrUnshielded(stack) /\ BetweenIdle
  BY <1>2, <1>3 DEF OutermostIn, ErrUnshielded, BetweenIdle
<1>8. Underway
  BY DEF Underway, Init
<1> QED
  BY <1>3, <1>4, <1>6, <1>7, <1>8 DEF ControlInv, Types

\* One case for each action.
LEMMA ControlStep ==
  ASSUME ControlInv, [Next]_vars
  PROVE  ControlInv'
<1>1. CASE Lines
  BY <1>1, LinesStep
<1>2. CASE Returns
  BY <1>2, ListEntryEndsStep, ListNextStep, IfConditionStep, WhileConditionStep, LoopBodyStep,
     FunctionEndsStep, BodyEndsStep, LineStep, LineEndsStep, TopLevelStep DEF Returns
<1>3. CASE Signal
  BY <1>3, TopLevelStep
<1>4. CASE UNCHANGED vars
  <2>1. UNCHANGED <<running, signal, levels, loopDepth, funDepth, inCond, suppressed, errexit, err,
                    pending, stack, ctl, goal, leaked>>
    BY <1>4 DEF vars
  <2>2. Flags' /\ Types'
    BY <2>1 DEF ControlInv, Types, Flags
  <2>3. Counted' /\ Underway' /\ BetweenIdle' /\ (Calling' <=> Calling)
    BY <2>1 DEF ControlInv, Counted, Underway, BetweenIdle, Calling
  <2> QED
    BY <2>1, <2>2, <2>3 DEF ControlInv
<1> QED
  BY <1>1, <1>2, <1>3, <1>4 DEF Next

\* ControlInv is inductive.
LEMMA ControlInvariant == Spec => []ControlInv
<1>1. Init => ControlInv
  BY ControlInit
<1>2. ControlInv /\ [Next]_vars => ControlInv'
  BY ControlStep
<1> QED
  BY <1>1, <1>2, PTL DEF Spec

-----------------------------------------------------------------------------
(* What it is for *)

\* The four depths of the shell are those of the activations that are really
\* there (DepthsMatch), for every nesting and after every way out of a
\* construct: arksh_shell_execute_line and the executor leave a loop, a
\* function, a condition and an && or || list exactly once.
THEOREM DepthsExact == Spec => []DepthsMatch
<1>1. ControlInv => DepthsMatch
  BY DEF ControlInv, Counted, DepthsMatch, Count, LoopsIn, FunctionsIn, ConditionsIn, AndOrsIn
<1> QED
  BY <1>1, ControlInvariant, PTL

\* A step that takes up a break or continue is a loop's, after its body.
LEMMA TakenUp ==
  ASSUME ControlInv, Next, signal \in {"break", "continue"}, signal' = "none", goal # 0
  PROVE  Len(stack) = goal
<1>1. ~ Calling /\ goal \in BodiesIn(stack) /\ Cardinality({k \in BodiesIn(stack) : k >= goal}) = levels
  BY DEF ControlInv, Underway
<1>2. signal' # signal /\ signal # "return"
  OBVIOUS
<1>3. ~ Lines /\ ~ Signal
  BY <1>1, <1>2 DEF Lines, Signal, ShortLine, Command, ForNothing, LoopControl, ReturnLine, Exit, SetErrexit,
     TrapErr, Simple, List, If, While, For, Function, Body, Source, raised
<1>4. (WhileBody \/ ForBody) /\ Resolves
  BY <1>2, <1>3 DEF Next, Returns, ListEntryEnds, ListNext, EntryRuns, IfCondition, WhileCondition,
     WhileOverflows, WhileBody, ForBody, LoopOverflows, FunctionEnds, BodyEnds, LineFires, LineFired, LineErr,
     LineEnds, Fire, ScriptNext, ScriptEnds, Leave, ReplPrompts, ReplFires, ReplReads, ReplEnds, ExitTrapEnds,
     SameRest, raised
<1>5. stack # <<>> /\ Top.kind \in Loops /\ Top.ph = "body" /\ Flags
  BY <1>4 DEF WhileBody, ForBody, Returned, At, Loops, ControlInv, Types
<1>6. ~ (levels > 1)
  <2>1. SUFFICES ASSUME levels > 1 PROVE FALSE
    OBVIOUS
  <2>2. Resolve = <<"propagate", signal, levels - 1>>
    BY <2>1, <1>2 DEF Resolve
  <2>3. signal' = Resolve[2]
    BY <1>4 DEF Resolves
  <2> QED
    BY <2>2, <2>3, <1>2
<1> DEFINE n == Len(stack)
           S == {k \in BodiesIn(stack) : k >= goal}
<1>7. n \in Nat /\ n \in 1 .. n /\ DOMAIN stack = 1 .. n /\ Top = stack[n]
  BY <1>5, CountedFacts DEF ControlInv, Top
<1> HIDE DEF n
<1>8. n \in S /\ goal \in S /\ S \subseteq 1 .. n
  BY <1>1, <1>5, <1>7 DEF BodiesIn
<1>9. /\ Cardinality(S) = levels /\ Cardinality(S \ {n}) = Cardinality(S) - 1
      /\ Cardinality(S \ {n}) \in Nat /\ (Cardinality(S \ {n}) = 0 <=> S \ {n} = {})
  BY <1>1, <1>7, <1>8, CardTop
<1>10. levels \in Nat
  BY <1>5 DEF Flags
<1>11. S \ {n} = {}
  <2> HIDE DEF S
  <2> QED
    BY <1>6, <1>9, <1>10
<1>12. goal = n
  BY <1>8, <1>11
<1> QED
  BY <1>12 DEF n

\* break n and continue n are taken up by the n-th loop whose body runs them,
\* at any depth of lists, branches and functions and for every n
\* (resolve_loop_control).
THEOREM BreaksTheNth == Spec => BreakTarget
<1>1. ControlInv /\ [Next]_vars =>
        [(signal \in {"break", "continue"} /\ signal' = "none" /\ goal # 0) => Len(stack) = goal]_vars
  BY TakenUp
<1> QED
  BY <1>1, ControlInvariant, PTL DEF Spec, BreakTarget

\* Only the end of a line takes the innermost of several activations away.
LEMMA OnlyLinesLeave ==
  ASSUME ControlInv, Next, ~ LineEnds, Len(stack) > 1
  PROVE  Len(stack') # Len(stack) - 1
<1> DEFINE n == Len(stack)
<1>1. stack # <<>>
  <2>1. CASE stack = <<>>
    BY <2>1
  <2> QED
    BY <2>1
<1>2. stack \in Seq(Activation) /\ n \in Nat
  BY <1>1, CountedFacts DEF ControlInv, Types
<1>3. \/ \E r : Becomes(r)
      \/ \E r : stack' = Append(stack, r)
      \/ UNCHANGED stack
  <2>0. /\ Returned({"repl"}, "read") => FALSE
        /\ Returned({"repl", "script"}, "exit") => FALSE
    BY <1>1, TopFacts DEF Returned, At
  <2>1. CASE Lines
    BY <2>1 DEF Lines, ShortLine, Command, ForNothing, LoopControl, ReturnLine, Exit, SetErrexit, TrapErr,
       Simple, List, If, While, Iterate, For, Function, Body, Source, Push
  <2>2. CASE ListEntryEnds \/ ListNext \/ IfCondition \/ WhileCondition \/ WhileOverflows
    BY <2>2 DEF ListEntryEnds, ListNext, IfCondition, WhileCondition, WhileOverflows, Ends
  <2>3. CASE WhileBody \/ ForBody
    BY <2>3 DEF WhileBody, ForBody, LoopOverflows, LoopEnds, Ends, Iterate, ForNext
  <2>4. CASE FunctionEnds \/ BodyEnds \/ LineFires \/ LineFired \/ LineErr
    BY <2>4 DEF FunctionEnds, BodyEnds, LineFires, LineFired, LineErr, Fire, Moves, Ends
  <2>5. CASE ScriptNext \/ ScriptEnds \/ ReplPrompts \/ ReplFires \/ ReplReads
    BY <2>5 DEF ScriptNext, ScriptEnds, ReplPrompts, ReplFires, ReplReads, Fire, Moves, Ends
  <2>6. CASE ReplEnds \/ ExitTrapEnds
    BY <2>0, <2>6 DEF ReplEnds, ExitTrapEnds
  <2>7. CASE Signal
    BY <2>7 DEF Signal
  <2> QED
    BY <2>1, <2>2, <2>3, <2>4, <2>5, <2>6, <2>7 DEF Next, Returns
<1>4. Len(stack') \in {n, n + 1}
  <2>1. ASSUME NEW r, Becomes(r) PROVE Len(stack') = n
    <3>1. stack' = [stack EXCEPT ![n] = r]
      BY <2>1 DEF Becomes
    <3>2. DOMAIN stack' = 1 .. n /\ stack' \in [1 .. n -> Activation \cup {r}]
      BY <1>2, <3>1
    <3> QED
      BY <1>2, <3>2
  <2>2. ASSUME NEW r, stack' = Append(stack, r) PROVE Len(stack') = n + 1
    BY <1>2, <2>2
  <2> QED
    BY <1>3, <2>1, <2>2
<1> HIDE DEF n
<1>5. n # n - 1 /\ n + 1 # n - 1
  BY <1>2
<1>6. Len(stack') # n - 1
  BY <1>4, <1>5
<1> QED
  BY <1>6 DEF n

\* What the end of a line does to a shell that runs.
LEMMA ErrexitStep ==
  ASSUME ControlInv, LineEnds, running
  PROVE  ~ running' <=> errexit /\ Top.st # 0 /\ ~ Shielded /\ ~ Exiting
<1>1. /\ stack # <<>> /\ Top.kind = "line" /\ Top.ph \in {"done", "fired", "err"}
      /\ running' = (running /\ ~ (errexit /\ (Top.ph = "err" \/ Counts(Top.st))))
  BY DEF LineEnds, Fired, Returned, At
<1> DEFINE n == Len(stack)
<1>2. Types /\ Counted /\ n \in Nat /\ n \in 1 .. n /\ Top = stack[n]
  BY <1>1, CountedFacts DEF ControlInv, Top
<1>3. /\ inCond = 0 <=> \A i \in 1 .. n : ~ InCondition(stack[i])
      /\ suppressed = 0 <=> \A i \in 1 .. n : ~ BeforeAndOr(stack[i])
  BY <1>2, CountedFacts
<1>4. Shielded <=> \E i \in 1 .. n - 1 : InCondition(stack[i]) \/ BeforeAndOr(stack[i])
  BY DEF Shielded
<1>5. Top.ph = "err" => /\ Top.st # 0
                        /\ ~ Exiting
                        /\ \A i \in 1 .. n - 1 : ~ InCondition(stack[i]) /\ ~ BeforeAndOr(stack[i])
  BY <1>1, <1>2 DEF ControlInv, ErrUnshielded, Exiting
<1> HIDE DEF n
<1>6. ~ InCondition(stack[n]) /\ ~ BeforeAndOr(stack[n])
  BY <1>1, <1>2 DEF InCondition, BeforeAndOr
<1>7. \A i \in 1 .. n : i = n \/ i \in 1 .. n - 1
  BY <1>2
<1>8. \A i \in 1 .. n - 1 : i \in 1 .. n
  BY <1>2
<1>9. (inCond = 0 /\ suppressed = 0) <=> ~ Shielded
  BY <1>3, <1>4, <1>6, <1>7, <1>8
<1>10. (Top.ph = "err" \/ Counts(Top.st)) <=> Top.st # 0 /\ ~ Shielded /\ ~ Exiting
  BY <1>4, <1>5, <1>9 DEF Counts
<1> QED
  BY <1>1, <1>10, Zenon

\* Under errexit a command that failed ends the shell if and only if no
\* enclosing command tests it, at any depth of functions, sourced files and
\* constructs (shell.c:14394, executor.c:6910).
THEOREM ErrexitEndsExactly == Spec => ErrexitExact
<1>1. ControlInv /\ [Next]_vars =>
        [(Len(stack) > 1 /\ Len(stack') = Len(stack) - 1 /\ running) =>
           (~ running' <=> errexit /\ Top.st # 0 /\ ~ Shielded /\ ~ Exiting)]_vars
  BY OnlyLinesLeave, ErrexitStep
<1> QED
  BY <1>1, ControlInvariant, PTL DEF Spec, ErrexitExact
=============================================================================
