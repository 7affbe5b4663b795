------------------------------- MODULE Scopes -------------------------------
(***************************************************************************)
(* Shell variables: the global table, the scope frames of functions and     *)
(* blocks, the positional parameters, the process environment that follows  *)
(* the exported variables, and the copy of the shell that a command         *)
(* substitution runs on (src/src/shell.c, src/src/executor.c,               *)
(* src/src/expand.c).                                                       *)
(*                                                                          *)
(* Everything here is one thread.  What makes it delicate is nesting: a     *)
(* function, a block, a `NAME=value command` and a `$(...)` each change the *)
(* scope, run arbitrary commands and then undo what they did, to any depth, *)
(* and the environment of the process is shared by all of them.             *)
(***************************************************************************)
EXTENDS Integers, Sequences, FiniteSets

CONSTANTS
  Names,        \* variable names
  Pwd, OldPwd,  \* the names PWD and OLDPWD
  Values,       \* plain values
  Empty,        \* the empty string
  Dirs,         \* the values that are directories
  NoValue,      \* NULL
  Inherited,    \* names the process got in its environment, not in the table
  RefTargets,   \* targets of declare -n and local -n
  MaxVars,      \* ARKSH_MAX_SHELL_VARS
  MaxHops,      \* 32: the longest chain of namerefs that is followed
  MaxParams,    \* ARKSH_MAX_POSITIONAL_PARAMS
  MaxDepth,     \* bound on the nesting of calls and substitutions
  RichDepth,    \* bound on the nesting at which namerefs are declared and a prefix
                \* has two assignments
  LostDepth     \* bound on the nesting once lost

ASSUME NamesAssumption ==
  /\ Pwd \in Names /\ OldPwd \in Names /\ Pwd # OldPwd
  /\ Inherited \subseteq Names \ {Pwd}
  /\ RefTargets \subseteq Names

ASSUME ValuesAssumption ==
  /\ Empty \in Values
  /\ Dirs \subseteq Values \ {Empty} /\ Dirs # {}
  /\ NoValue \notin Values \cup {<<"ref", t>> : t \in Names}

ASSUME LimitsAssumption ==
  /\ MaxVars \in Nat \ {0} /\ MaxHops \in Nat /\ MaxParams \in Nat /\ MaxDepth \in Nat
  /\ RichDepth \in Nat /\ LostDepth \in Nat

VARIABLES
  vars,    \* shell->vars, shared by a substitution and its parent
  frames,  \* scope_frame of the executing shell, innermost last
  env,     \* the environment of the process
  cwd,     \* shell->cwd of the executing shell
  dir,     \* the working directory of the process
  params,  \* shell->positional_params, shared by a substitution and its parent
  count,   \* positional_count of the executing shell
  stack,   \* what the C stack will undo, innermost last
  lost     \* ghost: a substitution could not go back to its directory

all == <<vars, frames, env, cwd, dir, params, count, stack, lost>>

-----------------------------------------------------------------------------
(* Types *)

\* The text "\x01nameref:t" that a nameref to t holds
Ref(t)   == <<"ref", t>>
Refs     == {Ref(t) : t \in Names}
Texts    == Values \cup Refs

\* ArkshShellVar and ArkshScopedVar
Entry    == [value : Texts, exported : BOOLEAN, deleted : BOOLEAN]
Absent   == [value |-> NoValue, exported |-> FALSE, deleted |-> TRUE]

\* A table of entries: a function on the names it has an entry for
Tables   == UNION {[N -> Entry] : N \in SUBSET Names}
ParamSeqs == UNION {[1 .. k -> Texts] : k \in 0 .. MaxParams}

\* ArkshScopeFrame
Frame    == [vars : Tables, positional : BOOLEAN, params : ParamSeqs]
NewFrame == [vars |-> <<>>, positional |-> FALSE, params |-> <<>>]

-----------------------------------------------------------------------------
(* Looking names up *)

\* The frames that have an entry for n
Holding(fs, n) == {i \in DOMAIN fs : n \in DOMAIN fs[i].vars}

\* lookup_visible_var without the process environment
Visible(vs, fs, n) ==
  IF Holding(fs, n) # {}
  THEN fs[CHOOSE i \in Holding(fs, n) : \A k \in Holding(fs, n) : k <= i].vars[n]
  ELSE IF n \in DOMAIN vs THEN vs[n] ELSE Absent

\* arksh_shell_get_var: a name without any entry is looked up in the environment
Value(vs, fs, e, n) ==
  IF Holding(fs, n) = {} /\ n \notin DOMAIN vs /\ n \in DOMAIN e THEN e[n]
  ELSE IF Visible(vs, fs, n).deleted THEN NoValue ELSE Visible(vs, fs, n).value

GetVar(n) == Value(vars, frames, env, n)

\* arksh_shell_resolve_nameref: the name at the end of a chain of namerefs; n
\* itself when n is no nameref, or when the chain is too long or circular.
Resolved(n) ==
  LET isRef(m) == GetVar(m) \in Refs
      next(m)  == GetVar(m)[2]
      chain[k \in 0 .. MaxHops] ==
        IF k = 0 THEN n
        ELSE IF isRef(chain[k - 1]) THEN next(chain[k - 1]) ELSE chain[k - 1]
  IN  IF isRef(chain[MaxHops]) THEN n ELSE chain[MaxHops]

\* Mutant: functions have no parameters of their own.
OwnParams(fs) == 0

\* The frame whose positional parameters are in force; 0: the shell's own
PositionalFrame(fs) ==
  LET I == {i \in DOMAIN fs : fs[i].positional}
  IN  IF I = {} THEN 0 ELSE CHOOSE i \in I : \A k \in I : k <= i

\* $1 ... $#
ParamsOf(fs, ps, c) ==
  IF PositionalFrame(fs) = 0 THEN SubSeq(ps, 1, c) ELSE fs[PositionalFrame(fs)].params

-----------------------------------------------------------------------------
(* Changing them.  The operations work on a scope s, a record of the table, *)
(* the frames and the environment, so that one command can apply several.   *)

Scope == [vars |-> vars, frames |-> frames, env |-> env]

Becomes(s) == vars' = s.vars /\ frames' = s.frames /\ env' = s.env

\* f with n mapped to x; f without n
With(f, n, x) == [m \in DOMAIN f \cup {n} |-> IF m = n THEN x ELSE f[m]]
Without(f, n) == [m \in DOMAIN f \ {n} |-> f[m]]

Last(s)  == s[Len(s)]
Front(s) == SubSeq(s, 1, Len(s) - 1)

\* The table the executing shell writes to: that of its innermost frame
Target(s) == IF s.frames = <<>> THEN s.vars ELSE Last(s.frames).vars
Outer(s, n) ==
  IF s.frames = <<>> THEN Absent ELSE Visible(s.vars, Front(s.frames), n)

Written(s, t, e) ==
  IF s.frames = <<>> THEN [s EXCEPT !.vars = t, !.env = e]
  ELSE [s EXCEPT !.frames[Len(s.frames)].vars = t, !.env = e]

\* grow_heap_array: there is, or there can be, an entry for n
HasRoom(t, n) == n \in DOMAIN t \/ Cardinality(DOMAIN t) < MaxVars

\* arksh_shell_set_var
Assign(s, n, v, exported) ==
  LET t  == Target(s)
      ex == exported \/ (n \in DOMAIN t /\ t[n].exported) \/ Outer(s, n).exported
  IN  IF HasRoom(t, n)
      THEN Written(s, With(t, n, [value |-> v, exported |-> ex, deleted |-> FALSE]),
                   IF ex THEN With(s.env, n, v) ELSE s.env)
      ELSE s

\* sync_visible_var_env for every name in N, seen from the frames fs
Synced(e, N, vs, fs) ==
  LET shown(n) == Visible(vs, fs, n)
  IN  [n \in (DOMAIN e \ N) \cup {m \in N : shown(m).exported} |->
         IF n \in N THEN shown(n).value ELSE e[n]]

\* arksh_shell_unset_var: in a frame a deleted entry hides the outer ones.
Unset(s, n) ==
  IF s.frames = <<>>
  THEN [s EXCEPT !.vars = Without(s.vars, n), !.env = Without(s.env, n)]
  ELSE IF HasRoom(Target(s), n)
       THEN Written(s, With(Target(s), n, [value |-> Empty, exported |-> FALSE, deleted |-> TRUE]),
                    Without(s.env, n))
       ELSE s

-----------------------------------------------------------------------------
(* Commands *)

Elsewhere == UNCHANGED <<cwd, dir, params, count, stack, lost>>

\* function_depth: a substitution inherits it
InFunction == \E i \in DOMAIN stack : stack[i].kind = "call"

\* `n=v`: goes through a nameref
Assignment(n, v) ==
  /\ Becomes(Assign(Scope, Resolved(n), v, FALSE))
  /\ Elsewhere

\* `set n v`, `read n`, `readonly n=v`, ${n:=v}: do not
SetBuiltin(n, v) ==
  /\ Becomes(Assign(Scope, n, v, FALSE))
  /\ Elsewhere

\* `export n=v`
ExportValue(n, v) ==
  /\ Becomes(Assign(Scope, n, v, TRUE))
  /\ Elsewhere

\* `export n`
Export(n) ==
  /\ Becomes(Assign(Scope, n, IF GetVar(n) = NoValue THEN Empty ELSE GetVar(n), TRUE))
  /\ Elsewhere

\* `unset n`, `unset -n n`
UnsetBuiltin(n, refOnly) ==
  /\ Becomes(Unset(Scope, IF refOnly THEN n ELSE Resolved(n)))
  /\ Elsewhere

\* `local n`; `local n=v` is SetBuiltin
Local(n) ==
  /\ InFunction
  /\ Becomes(Assign(Scope, n, IF GetVar(n) = NoValue THEN Empty ELSE GetVar(n), FALSE))
  /\ Elsewhere

\* `declare -n n=t`, `local -n n=t`
DeclareRef(n, t) ==
  /\ n # t
  /\ Becomes(Assign(Scope, n, Ref(t), FALSE))
  /\ Elsewhere

\* `cd d` and update_directory_vars, which gives up when OLDPWD has no room
Cd(d) ==
  LET old == Assign(Scope, OldPwd, cwd, FALSE)
  IN
  /\ dir' = d
  /\ cwd' = d
  /\ Becomes(IF HasRoom(Target(Scope), OldPwd) THEN Assign(old, Pwd, d, TRUE) ELSE Scope)
  /\ UNCHANGED <<params, count, stack, lost>>

\* `cd -`: OLDPWD names a directory
CdBack == GetVar(OldPwd) \in Dirs /\ Cd(GetVar(OldPwd))

\* `set -- args`: arksh_shell_set_positional_argv on the innermost frame
SetPositional(args) ==
  /\ IF frames = <<>>
     THEN /\ params' = [k \in DOMAIN params |-> IF k \in DOMAIN args THEN args[k]
                                                 ELSE IF k <= count THEN Empty ELSE params[k]]
          /\ count' = Len(args)
          /\ UNCHANGED frames
     ELSE /\ frames' = [frames EXCEPT ![Len(frames)].params = args,
                                      ![Len(frames)].positional = TRUE]
          /\ UNCHANGED <<params, count>>
  /\ UNCHANGED <<vars, env, cwd, dir, stack, lost>>

\* `shift`: arksh_shell_shift_positional on the frame in force
Shift ==
  LET i == PositionalFrame(frames)
  IN
  /\ ParamsOf(frames, params, count) # <<>>
  /\ IF i = 0
     THEN /\ params' = [k \in DOMAIN params |-> IF k < count THEN params[k + 1]
                                                 ELSE IF k = count THEN Empty ELSE params[k]]
          /\ count' = count - 1
          /\ UNCHANGED frames
     ELSE /\ frames' = [frames EXCEPT ![i].params = Tail(@)]
          /\ UNCHANGED <<params, count>>
  /\ UNCHANGED <<vars, env, cwd, dir, stack, lost>>

-----------------------------------------------------------------------------
(* Nesting.  A record of the stack holds what will be undone; seen and given *)
(* are ghosts: what the variables and parameters of the caller were.         *)

Record(kind, saved) ==
  [kind |-> kind, saved |-> saved,
   frames |-> IF kind = "subst" THEN frames ELSE <<>>,
   count  |-> IF kind = "subst" THEN count ELSE 0,
   cwd    |-> IF kind = "subst" THEN cwd ELSE Empty,
   seen   |-> [n \in Names |-> IF kind = "prefix" THEN NoValue ELSE GetVar(n)],
   given  |-> IF kind \in {"call", "subst"} THEN ParamsOf(frames, params, count) ELSE <<>>]

Enter(kind, saved) ==
  /\ Len(stack) < IF lost THEN LostDepth ELSE MaxDepth
  /\ stack' = Append(stack, Record(kind, saved))

Leaving(kind) ==
  /\ stack # <<>>
  /\ Last(stack).kind = kind
  /\ stack' = Front(stack)

\* execute_shell_function and bind_function_parameters: a POSIX function gets
\* its arguments as positional parameters ...
CallFrame(args) == [NewFrame EXCEPT !.positional = TRUE, !.params = args]

Call(args) ==
  /\ Enter("call", <<>>)
  /\ frames' = Append(frames, CallFrame(args))
  /\ UNCHANGED <<vars, env, cwd, dir, params, count, lost>>

\* ... and one with a named parameter n also as a variable.
CallNamed(n, v) ==
  /\ MaxParams > 0
  /\ Enter("call", <<>>)
  /\ Becomes(Assign([Scope EXCEPT !.frames = Append(frames, CallFrame(<<v>>))], n, v, FALSE))
  /\ UNCHANGED <<cwd, dir, params, count, lost>>

\* evaluate_block: push_scope_frame
Block ==
  /\ Enter("block", <<>>)
  /\ frames' = Append(frames, NewFrame)
  /\ UNCHANGED <<vars, env, cwd, dir, params, count, lost>>

\* Mutant: the environment is not synchronised with what becomes visible.
PoppedNoSync(s) == [s EXCEPT !.frames = Front(s.frames)]

\* arksh_shell_pop_scope_frame
Popped(s) ==
  LET fs == Front(s.frames)
  IN  [s EXCEPT !.frames = fs,
                !.env = Synced(s.env, DOMAIN Last(s.frames).vars, s.vars, fs)]

CallEnds ==
  /\ Leaving("call") \/ Leaving("block")
  /\ Becomes(Popped(Scope))
  /\ UNCHANGED <<cwd, dir, params, count, lost>>

\* `NAME=value ... command`: the assignments are exported, one after the other,
\* each after its old value was saved.
PrefixStep(s, a) == Assign(s, a[1], a[2], TRUE)

Prefix(a, b) ==
  LET s1 == PrefixStep(Scope, a)
      s2 == IF b = <<>> THEN s1 ELSE PrefixStep(s1, b)
      old1 == <<a[1], GetVar(a[1])>>
      old2 == <<b[1], Value(s1.vars, s1.frames, s1.env, b[1])>>
  IN
  /\ Enter("prefix", IF b = <<>> THEN <<old1>> ELSE <<old1, old2>>)
  /\ Becomes(s2)
  /\ UNCHANGED <<cwd, dir, params, count, lost>>

\* After the command the values are put back in the same order.
PutBack(s, o) == IF o[2] = NoValue THEN Unset(s, o[1]) ELSE Assign(s, o[1], o[2], FALSE)

PrefixEnds ==
  LET o == Last(stack).saved
      s == PutBack(Scope, o[1])
  IN
  /\ Leaving("prefix")
  /\ Becomes(IF Len(o) = 1 THEN s ELSE PutBack(s, o[2]))
  /\ UNCHANGED <<cwd, dir, params, count, lost>>

\* Mutant: the clone has no root frame.
SubstituteBare ==
  /\ Enter("subst", <<>>)
  /\ UNCHANGED <<vars, frames, env, cwd, dir, params, count, lost>>

\* `$(...)`: arksh_shell_clone_subshell.  The clone has its own frames, at
\* least one, its own cwd and count, and shares vars and params.
Substitute ==
  /\ Enter("subst", <<>>)
  /\ frames' = IF frames = <<>> THEN <<NewFrame>> ELSE frames
  /\ UNCHANGED <<vars, env, cwd, dir, params, count, lost>>

\* Mutant: nothing is restored.
NoNames(fs) == {}

\* restore_cloned_scope_env: the names its frames have entries for
NamesOf(fs) == UNION {DOMAIN fs[i].vars : i \in DOMAIN fs}

\* arksh_shell_restore_after_subshell and arksh_shell_destroy_subshell
SubstituteEnds ==
  /\ Leaving("subst")
  /\ frames' = Last(stack).frames
  /\ env' = Synced(env, NamesOf(frames), vars, Last(stack).frames)
  /\ dir' = Last(stack).cwd
  /\ cwd' = Last(stack).cwd
  /\ count' = Last(stack).count
  /\ UNCHANGED <<vars, params, lost>>

\* The directory was removed and chdir fails: the environment is not restored
\* either.
SubstituteLost ==
  /\ Leaving("subst")
  /\ frames' = Last(stack).frames
  /\ cwd' = Last(stack).cwd
  /\ count' = Last(stack).count
  /\ lost' = TRUE
  /\ UNCHANGED <<vars, env, dir, params>>

-----------------------------------------------------------------------------
\* initialize_default_variables: PWD is exported; any other name is unset, set
\* or exported by the startup files, or only in the environment.
Init ==
  /\ cwd \in Dirs
  /\ dir = cwd
  /\ vars = [n \in {Pwd} |-> [value |-> cwd, exported |-> TRUE, deleted |-> FALSE]]
  /\ env = [n \in {Pwd} \cup Inherited |-> IF n = Pwd THEN cwd ELSE CHOOSE d \in Dirs : TRUE]
  /\ frames = <<>>
  /\ params = [k \in 1 .. MaxParams |-> Empty]
  /\ count = 0
  /\ stack = <<>>
  /\ lost = FALSE

Args == UNION {[1 .. k -> Values \ {Empty}] : k \in 0 .. MaxParams}

Commands ==
  \/ \E n \in Names, v \in Values : Assignment(n, v) \/ SetBuiltin(n, v) \/ ExportValue(n, v)
  \/ \E n \in Names : Export(n) \/ Local(n) \/ UnsetBuiltin(n, TRUE) \/ UnsetBuiltin(n, FALSE)
  \/ /\ Len(stack) <= RichDepth
     /\ \E n \in Names, t \in RefTargets : DeclareRef(n, t)
  \/ \E d \in Dirs : Cd(d)
  \/ CdBack
  \/ \E a \in Args : SetPositional(a)
  \/ Shift

Nesting ==
  \/ \E a \in Args : Call(a)
  \/ \E n \in Names, v \in Values \ {Empty} : CallNamed(n, v)
  \/ Block
  \/ CallEnds
  \/ \E n \in Names, v \in Values : Prefix(<<n, v>>, <<>>)
  \/ /\ Len(stack) <= RichDepth
     /\ \E n, m \in Names, v, w \in Values : Prefix(<<n, v>>, <<m, w>>)
  \/ PrefixEnds
  \/ Substitute
  \/ SubstituteEnds
  \/ SubstituteLost

Next == Commands \/ Nesting

Spec == Init /\ [][Next]_all

-----------------------------------------------------------------------------
(* Invariants *)

\* A child process sees exactly the exported variables that are visible where
\* it is started, with their values: entering, shadowing, unsetting, leaving
\* and restoring, in any nesting, keep the environment of the process in step
\* with the tables, unless the directory of a substitution's parent was removed
\* (shell.c:1414, shell.c:1503, shell.c:3480).
EnvExact ==
  ~lost => \A n \in Names \ Inherited :
    LET e == Visible(vars, frames, n)
    IN  /\ n \in DOMAIN env <=> e.exported
        /\ n \in DOMAIN env => env[n] = e.value

-----------------------------------------------------------------------------
(* Action properties *)

Left(kinds) == Len(stack') < Len(stack) /\ Last(stack).kind \in kinds

ValueAfter(n)  == Value(vars', frames', env', n)
ParamsAfter    == ParamsOf(frames', params', count')

\* Whatever a function, a block or a substitution did, its caller finds every
\* variable as it left it (shell.c:1503, shell.c:3712, executor.c:5294).
CallerKeeps ==
  [][Left({"call", "block", "subst"}) /\ ~lost' =>
       \A n \in Names \ Inherited : ValueAfter(n) = Last(stack).seen[n]]_all

\* A function's caller finds its positional parameters as it left them,
\* whatever was shifted or set inside, also in nested blocks and
\* substitutions (shell.c:1531, shell.c:1634).
ParamsKept == [][Left({"call"}) => ParamsAfter = Last(stack).given]_all

\* A substitution shares the table of global variables with its parent and
\* never writes to it (shell.c:3693, docs/benchmarks-baseline.md:148).
GlobalsShared == [][(\E i \in DOMAIN stack : stack[i].kind = "subst") => vars' = vars]_all

=============================================================================
