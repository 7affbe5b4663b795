------------------------------- MODULE Classes ------------------------------
(***************************************************************************)
(* Classes and instances (shell.c).  A class has base classes, properties  *)
(* with default values and methods; definitions may be replaced while      *)
(* instances live.  Instances are entries of a heap array that grows by    *)
(* moving; they leave it only when their constructor fails.  Constructors  *)
(* and methods are blocks that may create further instances, so several    *)
(* of them run nested in each other.                                       *)
(***************************************************************************)
EXTENDS Integers, Sequences, SequencesExt, FiniteSets

CONSTANTS ClassNames,
          Definitions,     \* the class commands given: [name, bases, members]
          MaxClasses,      \* ARKSH_MAX_CLASSES
          MaxInstances,    \* ARKSH_MAX_INSTANCES
          FirstCapacity,   \* capacity of an array that grew once
          MaxId            \* number of instances ever created (model bound)

ASSUME ClassLimits == /\ MaxClasses \in Nat \ {0}
                      /\ MaxInstances \in Nat \ {0}
                      /\ FirstCapacity \in Nat \ {0}

VARIABLES classes,    \* name -> [bases, props, methods]
          instances,  \* the array: [id, class, fields]
          capacity,   \* its capacity
          nextId,     \* next_instance_id
          stack,      \* the blocks that run, innermost last
          done        \* the instances whose construction was completed (history)
vars == <<classes, instances, capacity, nextId, stack, done>>

Nothing    == <<"path">>                 \* the value of an expression that failed
Unknown    == <<"unknown">>              \* no such member
Ref(c, id) == <<"instance", c, id>>

(* A definition names known classes; of a property it gives the value.      *)
ASSUME ClassDefinitions ==
    \A d \in Definitions :
        /\ d.name \in ClassNames /\ d.bases \in Seq(ClassNames)
        /\ d.members \in Seq(Range(d.members))
        /\ \A i \in DOMAIN d.members : d.members[i][1] = "property" => d.members[i][3] # Unknown

-----------------------------------------------------------------------------
(* Lookups.  cls is a table of classes; every recursion stops at a depth of *)
(* MaxClasses.                                                              *)

Depths == 0..(MaxClasses + 1)

(* class_chain_contains: is target among the bases, at any depth, of start? *)
(* above[n] are the classes for which a search n classes deep finds it.     *)
ChainContains(cls, start, target) ==
    LET above[n \in Depths] ==
            IF n = 0 THEN {}
            ELSE { c \in DOMAIN cls : \E i \in DOMAIN cls[c].bases :
                                         cls[c].bases[i] = target \/ cls[c].bases[i] \in above[n - 1] }
    IN start \in above[MaxClasses + 1]

(* lookup_property_recursive, lookup_method_recursive: what the class itself *)
(* has, or else the first of its bases, at any depth; own[c] are the members *)
(* of class c.                                                               *)
FirstKnown(s) ==
    LET known == { i \in DOMAIN s : s[i] # Unknown }
    IN IF known = {} THEN Unknown ELSE s[Min(known)]
Lookup(cls, own, name, member) ==
    LET find[n \in Depths] ==
            [c \in ClassNames |->
                IF n = 0 \/ c \notin DOMAIN cls THEN Unknown
                ELSE IF member \in DOMAIN own[c] THEN own[c][member]
                ELSE FirstKnown([i \in DOMAIN cls[c].bases |-> find[n - 1][cls[c].bases[i]]])]
    IN find[MaxClasses + 1][name]
LookupProperty(cls, name, p) == Lookup(cls, [c \in DOMAIN cls |-> cls[c].props], name, p)
LookupMethod(cls, name, m)   == Lookup(cls, [c \in DOMAIN cls |-> cls[c].methods], name, m)

(* class_is_a_recursive                                                     *)
IsA(cls, name, target) ==
    LET isa[n \in Depths] ==
            [c \in ClassNames |->
                /\ n # 0
                /\ c = target \/ (c \in DOMAIN cls /\ \E i \in DOMAIN cls[c].bases : isa[n - 1][cls[c].bases[i]])]
    IN isa[MaxClasses + 1][name]

(* build_class_name_list_recursive: the bases left to right, then the       *)
(* class; a name is listed once.                                            *)
PropertyNames(cls, name) ==
    LET names[n \in Depths] ==
            [c \in ClassNames |->
                IF n = 0 \/ c \notin DOMAIN cls THEN {}
                ELSE (UNION { names[n - 1][cls[c].bases[i]] : i \in DOMAIN cls[c].bases })
                     \cup DOMAIN cls[c].props]
    IN names[MaxClasses + 1][name]

(* arksh_value_map_set: an entry is replaced or added; and a loop of it.    *)
With(f, key, value) == [k \in DOMAIN f \cup {key} |-> IF k = key THEN value ELSE f[k]]
Updated(f, new) == [k \in DOMAIN f \cup DOMAIN new |-> IF k \in DOMAIN new THEN new[k] ELSE f[k]]

(* populate_instance_defaults_recursive: the bases from the last to the     *)
(* first, then the class; what is set later replaces what was set before.   *)
(* of[b] is what the base b sets.                                           *)
LeftFirst(of, bases) ==
    LET set[k \in 0..Len(bases)] == IF k = 0 THEN <<>> ELSE Updated(set[k - 1], of[bases[k]])
    IN set[Len(bases)]
Inherited(of, bases) ==
    LET set[k \in 0..Len(bases)] ==
            IF k = 0 THEN <<>> ELSE Updated(set[k - 1], of[bases[Len(bases) - k + 1]])
    IN set[Len(bases)]
Defaults(cls, name) ==
    LET fill[n \in Depths] ==
            [c \in ClassNames |->
                IF n = 0 \/ c \notin DOMAIN cls THEN <<>>
                ELSE Updated(Inherited(fill[n - 1], cls[c].bases), cls[c].props)]
    IN fill[MaxClasses + 1][name]

(* find_instance_entry, by id.                                              *)
Slots(id) == { i \in DOMAIN instances : instances[i].id = id }
Find(id)  == CHOOSE i \in Slots(id) : TRUE

(* arksh_shell_get_class_property_value of an instance: its field, or else  *)
(* the default its class has now.                                           *)
GetProperty(i, p) == IF p \in DOMAIN instances[i].fields THEN instances[i].fields[p]
                     ELSE LookupProperty(classes, instances[i].class, p)

-----------------------------------------------------------------------------
(* class ... endclass                                                       *)

(* Of the members of the same kind and name the last one counts.            *)
OfKind(d, kind) == { i \in DOMAIN d.members : d.members[i][1] = kind }
Members(d, kind) ==
    [m \in { d.members[i][2] : i \in OfKind(d, kind) } |->
        d.members[Max({ i \in OfKind(d, kind) : d.members[i][2] = m })][3]]
Candidate(d) == [bases |-> d.bases, props |-> Members(d, "property"), methods |-> Members(d, "method")]

(* The reasons arksh_shell_set_class refuses a definition: a base that is   *)
(* the class itself, unknown, or derived from the class; a member that      *)
(* cannot be read; a full table.                                            *)
RefusedNoCycle(d) ==
    \/ \E i \in DOMAIN d.bases : d.bases[i] = d.name \/ d.bases[i] \notin DOMAIN classes
    \/ \E i \in DOMAIN d.members : d.members[i][1] = "invalid"
    \/ d.name \notin DOMAIN classes /\ Cardinality(DOMAIN classes) >= MaxClasses
Refused(d) ==
    \/ \E i \in DOMAIN d.bases :
          \/ d.bases[i] = d.name
          \/ d.bases[i] \notin DOMAIN classes
          \/ ChainContains(With(classes, d.name, [bases |-> d.bases]), d.bases[i], d.name)
    \/ \E i \in DOMAIN d.members : d.members[i][1] = "invalid"
    \/ d.name \notin DOMAIN classes /\ Cardinality(DOMAIN classes) >= MaxClasses

Define(d) ==
    /\ stack = <<>>
    /\ classes' = IF Refused(d) THEN classes ELSE With(classes, d.name, Candidate(d))
    /\ UNCHANGED <<instances, capacity, nextId, stack, done>>

-----------------------------------------------------------------------------
(* Blocks.  A body is a sequence of statements                              *)
(*   <<"new", class>>  local x = class -> new()                             *)
(*   <<"set", field>>  local y = self -> set(field, x)                      *)
(*   <<"result">>      the final expression                                 *)
(* and a body that ends without a result fails.  A block value is           *)
(* <<"block", arguments after self, body>>.  A frame holds the instance it  *)
(* is called on, the address of the array at that time (a constructor keeps *)
(* a pointer into it), and the value of x.                                  *)

Frame(kind, self, block) ==
    [kind |-> kind, self |-> self, at |-> capacity', todo |-> block[3], x |-> Nothing]

(* What the caller of the block that ended gets.                            *)
Return(frames, v) == IF frames = <<>> THEN frames
                     ELSE [frames EXCEPT ![Len(frames)].x = v]

(* grow_heap_array: the array moves whenever its capacity changes.          *)
Doubled(n) == IF n = 0 THEN FirstCapacity ELSE 2 * n
Grown(required) == IF capacity >= required THEN capacity
                   ELSE IF Doubled(capacity) > MaxInstances THEN MaxInstances ELSE Doubled(capacity)

(* rollback_last_instance removes the last entry of the array, whichever    *)
(* instance that is.                                                        *)
NoRollback(entries) == entries
Rollback(entries) == Front(entries)

(* arksh_shell_instantiate_class, up to the call of init.  frames are the   *)
(* blocks that stay on the stack.                                           *)
Instantiate(c, argc, frames) ==
    LET full  == capacity < Len(instances) + 1 /\ Len(instances) + 1 > MaxInstances
        entry == [id |-> nextId, class |-> c, fields |-> Defaults(classes, c)]
        init  == LookupMethod(classes, c, "init")
    IN IF c \notin DOMAIN classes \/ full
       THEN /\ stack' = Return(frames, Nothing)
            /\ UNCHANGED <<instances, capacity, nextId, done>>
       ELSE /\ nextId < MaxId
            /\ nextId' = nextId + 1
            /\ capacity' = Grown(Len(instances) + 1)
            /\ \/ /\ init # Unknown /\ init[2] = argc
                  /\ instances' = Append(instances, entry)
                  /\ stack' = Append(frames, Frame("new", nextId, init))
                  /\ UNCHANGED done
               \/ /\ init = Unknown /\ argc = 0
                  /\ instances' = Append(instances, entry)
                  /\ done' = done \cup {nextId}
                  /\ stack' = Return(frames, Ref(c, nextId))
               \/ /\ IF init = Unknown THEN argc # 0 ELSE init[2] # argc
                  /\ instances' = Rollback(Append(instances, entry))
                  /\ stack' = Return(frames, Nothing)
                  /\ UNCHANGED done

New(c, argc) == /\ stack = <<>>
                /\ Instantiate(c, argc, stack)
                /\ UNCHANGED classes

(* A method called on an instance from outside.                             *)
Call(id, m) ==
    /\ stack = <<>>
    /\ Slots(id) # {}
    /\ LET method == LookupMethod(classes, instances[Find(id)].class, m)
       IN /\ method # Unknown /\ method[2] = 0
          /\ UNCHANGED capacity
          /\ stack' = <<Frame("call", id, method)>>
    /\ UNCHANGED <<classes, instances, nextId, done>>

-----------------------------------------------------------------------------
(* The innermost block runs.                                                *)

Top  == stack[Len(stack)]
Rest == Front(stack)
Runs(statement) == stack # <<>> /\ Top.todo # <<>> /\ Head(Top.todo)[1] = statement
Advanced == [stack EXCEPT ![Len(stack)].todo = Tail(@)]

NewStatement ==
    /\ Runs("new")
    /\ Instantiate(Head(Top.todo)[2], 0, Advanced)
    /\ UNCHANGED classes

(* set(): an unknown instance makes the expression fail, not the block.     *)
SetStatement ==
    /\ Runs("set")
    /\ stack' = Advanced
    /\ instances' = IF Slots(Top.self) = {} THEN instances
                    ELSE [instances EXCEPT ![Find(Top.self)].fields = With(@, Head(Top.todo)[2], Top.x)]
    /\ UNCHANGED <<classes, capacity, nextId, done>>

(* A constructor that succeeds returns the id it reads through the pointer  *)
(* it took before init ran.  When the array moved since, that memory is     *)
(* free: it still holds the id or whatever was written there.               *)
ReadBack(f) == IF f.at = capacity THEN {f.self} ELSE 1..(nextId - 1)
ResultStatement ==
    /\ Runs("result")
    /\ IF Top.kind = "call" THEN stack' = Rest /\ UNCHANGED done
       ELSE \E id \in ReadBack(Top) :
              /\ stack' = Return(Rest, Ref(instances[Find(Top.self)].class, id))
              /\ done' = done \cup {Top.self}
    /\ UNCHANGED <<classes, instances, capacity, nextId>>

BlockFails ==
    /\ stack # <<>> /\ Top.todo = <<>>
    /\ stack' = Return(Rest, Nothing)
    /\ instances' = IF Top.kind = "new" THEN Rollback(instances) ELSE instances
    /\ UNCHANGED <<classes, capacity, nextId, done>>

Init == /\ classes = <<>>
        /\ instances = <<>>
        /\ capacity = 0
        /\ nextId = 1
        /\ stack = <<>>
        /\ done = {}

Next == \/ \E d \in Definitions : Define(d)
        \/ \E c \in ClassNames, argc \in 0..1 : New(c, argc)
        \/ \E id \in 1..MaxId : Call(id, "go")
        \/ NewStatement
        \/ SetStatement
        \/ ResultStatement
        \/ BlockFails
Spec == Init /\ [][Next]_vars

-----------------------------------------------------------------------------
(* Properties.                                                              *)

(* However classes are defined and redefined, none is derived from itself,  *)
(* and every base of a class is defined.                                    *)
Hierarchy ==
    \A c \in DOMAIN classes :
        /\ ~ ChainContains(classes, c, c)
        /\ \A i \in DOMAIN classes[c].bases : classes[c].bases[i] \in DOMAIN classes

(* docs/sintassi-arksh.md:297: a lookup searches the class and then its     *)
(* bases from left to right.  The fields a new instance is filled with, in  *)
(* the opposite order, are the values that search finds, for exactly the    *)
(* names the class lists, also when a class is inherited twice; isa()       *)
(* agrees with the bases; and an instance has every property its class      *)
(* lists, also one that a later definition added.                           *)
DefaultsAsLookedUp ==
    /\ \A i \in DOMAIN instances : \A p \in PropertyNames(classes, instances[i].class) :
            GetProperty(i, p) # Unknown
    /\ \A c \in DOMAIN classes :
        /\ \A b \in ClassNames : IsA(classes, c, b) <=> (b = c \/ ChainContains(classes, c, b))
        /\ DOMAIN Defaults(classes, c) = PropertyNames(classes, c)
        /\ \A p \in PropertyNames(classes, c) : Defaults(classes, c)[p] = LookupProperty(classes, c, p)

(* Every way out of a construction keeps the table in step: it holds as     *)
(* many entries as there are completed and running constructions, in the    *)
(* order of their ids, within the capacity, and the instance of every block *)
(* that runs is among them, at whatever depth others fail.                  *)
InstancesInStep ==
    /\ Len(instances) = Cardinality(done) + Cardinality({ k \in DOMAIN stack : stack[k].kind = "new" })
    /\ Len(instances) <= capacity
    /\ \A i \in 1..(Len(instances) - 1) : instances[i].id < instances[i + 1].id
    /\ \A k \in DOMAIN stack : Slots(stack[k].self) # {}
=============================================================================
