------------------------------ MODULE Control -------------------------------
(***************************************************************************)
(* Control flow of the interpreter: arksh_shell_execute_line (src/src/      *)
(* shell.c) and the compound commands of src/src/executor.c call each other *)
(* recursively and share a handful of counters and flags of the shell: the  *)
(* pending break, continue or return, the depths of loops, functions,       *)
(* conditions and of && and || lists, errexit, the ERR, EXIT and signal     *)
(* traps and the flag that ends the shell.                                  *)
(*                                                                          *)
(* stack is the C stack, one record per activation.  The text that is run   *)
(* is any text: each call of execute_line picks what it runs.  $? is left   *)
(* out, because none of this code reads it; and whether there is an EXIT    *)
(* trap, or still a trap for a pending signal, is a choice where it counts. *)
(***************************************************************************)
EXTENDS Integers, Sequences, FiniteSets

CONSTANTS
  MaxDepth,   \* bound on the nesting of compound commands
  MaxLevels,  \* bound on n in break n and continue n; 1024 in the code
  MaxLeaks    \* bound on loops whose condition's output overflows the buffer

ASSUME BoundsAssumption == MaxDepth \in Nat \ {0} /\ MaxLevels \in Nat \ {0} /\ MaxLeaks \in Nat

VARIABLES
  running,     \* shell->running
  signal,      \* shell->control_signal
  levels,      \* shell->control_levels
  loopDepth,   \* shell->loop_depth
  funDepth,    \* shell->function_depth
  inCond,      \* shell->in_condition
  suppressed,  \* shell->errexit_suppressed
  errexit,     \* shell->opt_errexit
  err,         \* traps[ERR]: "off", "on", or "held" while its command runs
  pending,     \* s_pending_traps of a signal that had a trap command
  stack,       \* the activations, innermost last
  ctl,         \* InCall: the innermost activation calls execute_line; else
               \* the status that its call has just returned
  goal,        \* ghost: the loop that the pending break or continue is for
  leaked       \* ghost: loops that ended without leaving loop_depth

depths   == <<loopDepth, funDepth, inCond, suppressed>>
raised   == <<signal, levels, goal>>
vars     == <<running, signal, levels, loopDepth, funDepth, inCond, suppressed, errexit, err,
              pending, stack, ctl, goal, leaked>>

Statuses == {0, 1}
InCall   == -1
Loops    == {"while", "for"}
Kinds    == Loops \cup {"repl", "script", "line", "list", "if", "function", "body"}

\* Where an activation is.  After its command has ended ("done"), each line
\* fires the signal traps ("firing", "fired") and the ERR trap ("err").
Phases   == {"read", "entry", "between", "cond", "body", "done", "firing", "fired", "err", "exit"}

\* What follows the current entry of a list: nothing, an entry after `;`, or
\* one after && or ||
Follows  == {"nothing", "always", "conditional"}

\* out: the activation has collected output, so that what follows may not fit
Activation == [kind : Kinds, ph : Phases, st : Statuses, next : Follows, out : BOOLEAN]

-----------------------------------------------------------------------------
(* The stack *)

One(b) == IF b THEN 1 ELSE 0

Top == stack[Len(stack)]

Act(kind, ph) == [kind |-> kind, ph |-> ph, st |-> 0, next |-> "nothing", out |-> FALSE]

At(kinds, ph)  == stack # <<>> /\ Top.kind \in kinds /\ Top.ph = ph
Calling        == ctl = InCall
Returned(kinds, ph) == ~ Calling /\ At(kinds, ph)

Becomes(r) == stack' = [stack EXCEPT ![Len(stack)] = r]
Moves(ph)  == Becomes([Top EXCEPT !.ph = ph])
Push(r)    == Len(stack) < MaxDepth + One(r.kind = "line") /\ stack' = Append(stack, r)
Pop        == stack' = SubSeq(stack, 1, Len(stack) - 1)

\* arksh_execute_ast returned s: what is left is the end of the line.
Ends(s) == Becomes([Act("line", "done") EXCEPT !.st = s]) /\ ctl' = s

Call == ctl' = InCall

\* Nothing changes but what is said otherwise.
SameFlags == UNCHANGED <<running, errexit, err, pending>>
SameRest  == SameFlags /\ UNCHANGED <<raised, leaked>>

-----------------------------------------------------------------------------
(* execute_line: lines that need no parser, and lines that are rejected     *)

\* Blank lines, let and extend; parse errors, alias errors and sh-mode errors.
\* None of these fires a trap or obeys errexit.
ShortLine(s) ==
  /\ Calling
  /\ ctl' = s
  /\ UNCHANGED <<depths, stack>> /\ SameRest

\* The loops whose bodies are running
Bodies == {i \in DOMAIN stack : stack[i].kind \in Loops /\ stack[i].ph = "body"}

\* The n-th enclosing one; 0: there is none
Enclosing(n) ==
  LET At_n == {i \in Bodies : Cardinality({k \in Bodies : k >= i}) = n}
  IN  IF At_n = {} THEN 0 ELSE CHOOSE i \in At_n : TRUE

\* handle_loop_control_line; from the builtins break and continue the line
\* also has an end.
LoopControl(k, n, builtin) ==
  /\ Calling
  /\ IF loopDepth > 0
     THEN signal' = k /\ levels' = n /\ goal' = Enclosing(n) /\ ctl' = 0
     ELSE ctl' = 1 /\ UNCHANGED raised
  /\ IF builtin THEN Push([Act("line", "done") EXCEPT !.st = ctl']) ELSE UNCHANGED stack
  /\ UNCHANGED <<depths, leaked>> /\ SameFlags

\* handle_return_line, whose expression may be wrong
ReturnLine ==
  /\ Calling
  /\ IF funDepth > 0
     THEN signal' = "return" /\ levels' = 1 /\ goal' = 0 /\ ctl' = 0
     ELSE ctl' = 1 /\ UNCHANGED raised
  /\ UNCHANGED <<depths, leaked, stack>> /\ SameFlags

-----------------------------------------------------------------------------
(* Simple commands *)

Simple(s) ==
  /\ Calling
  /\ Push([Act("line", "done") EXCEPT !.st = s])
  /\ ctl' = s
  /\ UNCHANGED depths

\* Any command that leaves the interpreter's own state alone
Command(s) == Simple(s) /\ SameRest

\* command_exit, and command_exec, which may have failed
Exit ==
  /\ \E s \in Statuses : Simple(s)
  /\ running' = FALSE
  /\ UNCHANGED <<raised, leaked, errexit, err, pending>>

\* set -e, set +e
SetErrexit ==
  /\ Simple(0)
  /\ errexit' \in BOOLEAN
  /\ UNCHANGED <<raised, leaked, running, err, pending>>

\* command_trap for ERR: set or reset
TrapErr ==
  /\ Simple(0)
  /\ err' \in {"on", "off"}
  /\ UNCHANGED <<raised, leaked, running, errexit, pending>>

\* A signal that has a trap command arrives: arksh_generic_signal_handler.  Its
\* flag is only looked at where a line ends and before the prompt, so that is
\* where it arrives; one that came earlier waits there.
Signal ==
  /\ Returned({"line"}, "done") \/ Returned({"repl"}, "read")
  /\ pending' = TRUE
  /\ UNCHANGED <<running, raised, depths, errexit, err, stack, ctl, leaked>>

-----------------------------------------------------------------------------
(* Lists *)

\* An entry whose failure && or || looks at is not a failure for errexit.
Unsuppress(next) == IF next = "conditional" /\ suppressed > 0 THEN suppressed - 1 ELSE suppressed

\* An entry runs; one before & is started as a job and only has a status.
EntryRuns(next) ==
  /\ suppressed' = suppressed + One(next = "conditional")
  /\ ctl' \in {InCall} \cup Statuses
  /\ UNCHANGED <<loopDepth, funDepth, inCond>> /\ SameRest

List ==
  /\ Calling
  /\ \E next \in Follows : Push([Act("list", "entry") EXCEPT !.next = next]) /\ EntryRuns(next)

\* If the output does not fit, the list fails.
ListEntryEnds ==
  /\ Returned({"list"}, "entry")
  /\ suppressed' = Unsuppress(Top.next)
  /\ \/ Top.out /\ Ends(1)
     \/ (~ running \/ signal # "none") /\ Ends(ctl)
     \/ running /\ signal = "none" /\ Becomes([Top EXCEPT !.ph = "between", !.st = ctl, !.out = TRUE]) /\ UNCHANGED ctl
  /\ UNCHANGED <<loopDepth, funDepth, inCond>> /\ SameRest

\* should_run_list_entry: && and || run the next entry or skip it.
ListNext ==
  /\ Returned({"list"}, "between")
  /\ \/ /\ Top.next = "nothing"
        /\ Ends(Top.st)
        /\ UNCHANGED depths /\ SameRest
     \/ /\ Top.next # "nothing"
        /\ \E next \in Follows : Becomes([Top EXCEPT !.ph = "entry", !.st = 0, !.next = next]) /\ EntryRuns(next)
     \/ /\ Top.next = "conditional"
        /\ \E next \in Follows : Becomes([Top EXCEPT !.next = next])
        /\ UNCHANGED <<depths, ctl>> /\ SameRest

-----------------------------------------------------------------------------
(* if *)

\* evaluate_condition_status: a value expression, or a line
Condition == inCond' = inCond + 1 /\ ctl' \in {InCall} \cup Statuses

If ==
  /\ Calling
  /\ Push(Act("if", "cond"))
  /\ Condition
  /\ UNCHANGED <<loopDepth, funDepth, suppressed>> /\ SameRest

IfCondition ==
  /\ Returned({"if"}, "cond")
  /\ inCond' = inCond - 1
  /\ \/ (~ running \/ signal # "none") /\ Ends(ctl)
     \/ running /\ signal = "none" /\ Becomes(Act("body", "body")) /\ Call
     \/ running /\ signal = "none" /\ ctl # 0 /\ Ends(0)
  /\ UNCHANGED <<loopDepth, funDepth, suppressed>> /\ SameRest

-----------------------------------------------------------------------------
(* Loops: while and until, and for *)

\* while (shell->running): the next iteration, or the end
Iterate(act, push) ==
  IF running
  THEN /\ IF push THEN Push([act EXCEPT !.ph = "cond"]) ELSE Becomes([act EXCEPT !.ph = "cond"])
       /\ Condition
       /\ loopDepth' = loopDepth + One(push)
  ELSE /\ LET over == [Act("line", "done") EXCEPT !.st = act.st]
          IN  IF push THEN Push(over) ELSE Becomes(over)
       /\ ctl' = act.st
       /\ inCond' = inCond
       /\ loopDepth' = loopDepth - One(~ push)

While ==
  /\ Calling
  /\ Iterate(Act("while", "cond"), TRUE)
  /\ UNCHANGED <<funDepth, suppressed>> /\ SameRest

WhileCondition ==
  /\ Returned({"while"}, "cond")
  /\ inCond' = inCond - 1
  /\ \/ (~ running \/ signal # "none") /\ Ends(ctl) /\ loopDepth' = loopDepth - 1
     \/ running /\ signal = "none" /\ Ends(Top.st) /\ loopDepth' = loopDepth - 1
     \/ running /\ signal = "none" /\ Becomes([Act("while", "body") EXCEPT !.out = TRUE]) /\ Call /\ UNCHANGED loopDepth
  /\ UNCHANGED <<funDepth, suppressed>> /\ SameRest

\* The output of the condition does not fit: loop_depth is not left.
WhileOverflows ==
  /\ Returned({"while"}, "cond")
  /\ Top.out
  /\ leaked < MaxLeaks
  /\ leaked' = leaked + 1
  /\ inCond' = inCond - 1
  /\ Ends(1)
  /\ UNCHANGED <<loopDepth, funDepth, suppressed, raised>> /\ SameFlags

\* Mutant: break n ends one loop more.
ResolveOneMore ==
  IF signal \in {"none", "return"} \/ levels > 0
  THEN <<IF signal = "none" THEN "none" ELSE "propagate", signal, levels - One(signal \in {"break", "continue"})>>
  ELSE <<signal, "none", 0>>

\* resolve_loop_control: what the loop does, and what is left of the signal
Resolve ==
  IF signal = "none" THEN <<"none", "none", levels>>
  ELSE IF signal = "return" THEN <<"propagate", signal, levels>>
  ELSE IF levels > 1 THEN <<"propagate", signal, levels - 1>>
  ELSE <<signal, "none", 0>>

Resolves ==
  /\ signal' = Resolve[2]
  /\ levels' = Resolve[3]
  /\ goal' = IF signal' = "none" THEN 0 ELSE goal
  /\ UNCHANGED leaked /\ SameFlags

\* The loop ends and leaves loop_depth.
LoopEnds(s) == Ends(s) /\ loopDepth' = loopDepth - 1 /\ UNCHANGED inCond

\* The output of the body does not fit: the signal is not looked at.
LoopOverflows ==
  /\ Top.out
  /\ LoopEnds(1)
  /\ goal' = 0
  /\ UNCHANGED <<signal, levels, leaked>> /\ SameFlags

WhileBody ==
  /\ Returned({"while"}, "body")
  /\ \/ LoopOverflows
     \/ /\ Resolves
        /\ \/ Resolve[1] = "break" /\ LoopEnds(0)
           \/ Resolve[1] = "propagate" /\ LoopEnds(ctl)
           \/ Resolve[1] = "continue" /\ Iterate([Top EXCEPT !.st = 0], FALSE)
           \/ Resolve[1] = "none" /\ Iterate([Top EXCEPT !.st = ctl], FALSE)
  /\ UNCHANGED <<funDepth, suppressed>>

\* for: nothing to iterate over, or a source or variable that fails
ForNothing(s) == Calling /\ Push([Act("line", "done") EXCEPT !.st = s]) /\ ctl' = s
                 /\ UNCHANGED depths /\ SameRest

For ==
  /\ Calling
  /\ running
  /\ Push(Act("for", "body"))
  /\ Call
  /\ loopDepth' = loopDepth + 1
  /\ UNCHANGED <<funDepth, inCond, suppressed>> /\ SameRest

\* The next item, if there is one
ForNext(s) ==
  \/ LoopEnds(s)
  \/ running /\ Becomes([Top EXCEPT !.out = TRUE]) /\ Call /\ UNCHANGED <<loopDepth, inCond>>

ForBody ==
  /\ Returned({"for"}, "body")
  /\ \/ LoopOverflows
     \/ /\ Resolves
        /\ \/ Resolve[1] = "break" /\ LoopEnds(0)
           \/ Resolve[1] = "propagate" /\ LoopEnds(ctl)
           \/ Resolve[1] = "continue" /\ ForNext(0)
           \/ Resolve[1] = "none" /\ ForNext(ctl)
  /\ UNCHANGED <<funDepth, suppressed>>

-----------------------------------------------------------------------------
(* Functions, and the commands that run one line: case, switch, { }, with   *)
(* sudo, eval, and the branches of if                                       *)

Function ==
  /\ Calling
  /\ Push(Act("function", "body"))
  /\ Call
  /\ funDepth' = funDepth + 1
  /\ UNCHANGED <<loopDepth, inCond, suppressed>> /\ SameRest

\* Mutant: the depth is only left by functions that succeed.
FunctionDepthAfter(s) == IF s = 0 THEN funDepth - 1 ELSE funDepth

DepthAfter(s) == funDepth - 1

\* A return is over when the function succeeded.
FunctionEnds ==
  /\ Returned({"function"}, "body")
  /\ Ends(ctl)
  /\ funDepth' = DepthAfter(ctl)
  /\ IF ctl = 0 /\ signal = "return"
     THEN signal' = "none" /\ levels' = 0 /\ goal' = 0
     ELSE UNCHANGED raised
  /\ UNCHANGED <<loopDepth, inCond, suppressed, leaked>> /\ SameFlags

Body ==
  /\ Calling
  /\ Push(Act("body", "body"))
  /\ Call
  /\ UNCHANGED depths /\ SameRest

\* A redirection of a group, or the output of a branch, may fail.
BodyEnds ==
  /\ Returned({"body"}, "body")
  /\ Ends(ctl) \/ Ends(1)
  /\ UNCHANGED depths /\ SameRest

-----------------------------------------------------------------------------
(* The end of a line in execute_line *)

\* fire_pending_traps: the trap command runs unless the trap was reset
Fire(ph, next) ==
  /\ pending' = FALSE
  /\ \/ Moves(ph) /\ Call /\ goal' = 0
     \/ Moves(next) /\ UNCHANGED <<ctl, goal>>
  /\ UNCHANGED <<running, signal, levels, depths, errexit, err, leaked>>

LineFires  == pending /\ Returned({"line"}, "done") /\ Fire("firing", "fired")

LineFired ==
  /\ Returned({"line"}, "firing")
  /\ Moves("fired")
  /\ UNCHANGED <<ctl, depths>> /\ SameRest

\* shell->running_exit_trap
Exiting == stack[1].ph = "exit"

\* Mutant: && and || do not shield a command.
CountsInCondition(s) == s # 0 /\ inCond = 0 /\ ~ Exiting

\* A failure that ERR and errexit look at
Counts(s) == s # 0 /\ inCond = 0 /\ suppressed = 0 /\ ~ Exiting

\* The traps of the line have been fired.
Fired == Returned({"line"}, "fired") \/ (~ pending /\ Returned({"line"}, "done"))

LineErr ==
  /\ Fired
  /\ Counts(Top.st)
  /\ err = "on"
  /\ err' = "held"
  /\ Moves("err")
  /\ Call
  /\ goal' = 0
  /\ UNCHANGED <<depths, signal, levels, leaked, running, errexit, pending>>

\* The line returns; the ERR trap is in force again unless it reset itself.
LineEnds ==
  /\ \/ Fired /\ ~ (Counts(Top.st) /\ err = "on")
     \/ Returned({"line"}, "err")
  /\ err' = IF Top.ph = "err" /\ err = "held" THEN "on" ELSE err
  /\ running' = (running /\ ~ (errexit /\ (Top.ph = "err" \/ Counts(Top.st))))
  /\ Pop
  /\ ctl' = Top.st
  /\ UNCHANGED <<depths, raised, leaked, errexit, pending>>

-----------------------------------------------------------------------------
(* Scripts, the prompt, and the end of the shell *)

\* source; an empty file, or one that cannot be read, is a Command.
Source ==
  /\ Calling
  /\ Push(Act("script", "body"))
  /\ Call
  /\ UNCHANGED depths /\ SameRest

\* arksh_shell_source_file: the next command of the file
ScriptNext ==
  /\ Returned({"script"}, "body")
  /\ ctl = 0
  /\ Call
  /\ goal' = 0
  /\ UNCHANGED <<depths, stack, signal, levels, leaked>> /\ SameFlags

\* arksh_shell_run_exit_trap, if there is an EXIT trap
Leave ==
  /\ \/ Moves("exit") /\ Call
     \/ stack' = <<>> /\ UNCHANGED ctl
  /\ UNCHANGED depths /\ SameRest

\* The file ends, or a command failed.
ScriptEnds ==
  /\ Returned({"script"}, "body")
  /\ IF Len(stack) > 1
     THEN Ends(ctl) /\ UNCHANGED depths /\ SameRest
     ELSE Leave

\* arksh_shell_run_repl
ReplPrompts ==
  /\ Returned({"repl"}, "body") \/ Returned({"repl"}, "firing")
  /\ Moves("read")
  /\ UNCHANGED <<ctl, depths>> /\ SameRest

ReplFires == pending /\ running /\ Returned({"repl"}, "read") /\ Fire("firing", "read")

ReplReads ==
  /\ Returned({"repl"}, "read")
  /\ running
  /\ Moves("body")
  /\ Call
  /\ UNCHANGED depths /\ SameRest

\* exit, or the end of the input
ReplEnds == Returned({"repl"}, "read") /\ Leave

ExitTrapEnds ==
  /\ Returned({"repl", "script"}, "exit")
  /\ stack' = <<>>
  /\ UNCHANGED <<ctl, depths>> /\ SameRest

-----------------------------------------------------------------------------
Init ==
  /\ running = TRUE
  /\ signal = "none" /\ levels = 0 /\ goal = 0
  /\ loopDepth = 0 /\ funDepth = 0 /\ inCond = 0 /\ suppressed = 0
  /\ errexit = FALSE
  /\ err = "off"
  /\ pending = FALSE
  /\ stack \in {<<Act("repl", "body")>>, <<Act("script", "body")>>}
  /\ ctl = InCall
  /\ leaked = 0

Lines ==
  \/ \E s \in Statuses : ShortLine(s) \/ Command(s) \/ ForNothing(s)
  \/ \E k \in {"break", "continue"}, n \in 1 .. MaxLevels, b \in BOOLEAN : LoopControl(k, n, b)
  \/ ReturnLine
  \/ Exit \/ SetErrexit \/ TrapErr
  \/ List \/ If \/ While \/ For \/ Function \/ Body \/ Source

Returns ==
  \/ ListEntryEnds \/ ListNext
  \/ IfCondition
  \/ WhileCondition \/ WhileOverflows \/ WhileBody \/ ForBody
  \/ FunctionEnds \/ BodyEnds
  \/ LineFires \/ LineFired \/ LineErr \/ LineEnds
  \/ ScriptNext \/ ScriptEnds
  \/ ReplPrompts \/ ReplFires \/ ReplReads \/ ReplEnds \/ ExitTrapEnds

Next == Lines \/ Returns \/ Signal

Spec == Init /\ [][Next]_vars

-----------------------------------------------------------------------------
(* Invariants *)

Count(P(_)) == Cardinality({i \in DOMAIN stack : P(stack[i])})

InLoop(a)       == a.kind \in Loops /\ a.ph \in {"cond", "body"}
InFunction(a)   == a.kind = "function" /\ a.ph = "body"
InCondition(a)  == a.ph = "cond"
BeforeAndOr(a)  == a.kind = "list" /\ a.ph = "entry" /\ a.next = "conditional"

\* The four depths the shell counts are those of the activations that are
\* really there, on every way out of a list, a loop, a condition or a function
\* and inside every trap command, except for loops whose condition's output
\* overflowed (executor.c:7278 to 7336, executor.c:6910, executor.c:5316).
DepthsMatch ==
  /\ loopDepth  = Count(InLoop) + leaked
  /\ funDepth   = Count(InFunction)
  /\ inCond     = Count(InCondition)
  /\ suppressed = Count(BeforeAndOr)

-----------------------------------------------------------------------------
(* Action properties *)

\* break n and continue n are taken up by the n-th loop whose body runs
\* them, through lists, branches and functions, unless a sourced file or a trap
\* command ran on, or the output of a body overflowed, while it was pending
\* (executor.c:6862).
BreakTarget ==
  [][(signal \in {"break", "continue"} /\ signal' = "none" /\ goal # 0) => Len(stack) = goal]_vars

Shielded == \E i \in 1 .. Len(stack) - 1 : InCondition(stack[i]) \/ BeforeAndOr(stack[i])

\* Under errexit a command that failed ends the shell if and only if no
\* enclosing command tests it: no condition of if, while or until, and no &&
\* or || after it, at any depth of functions and sourced files
\* (shell.c:14394, executor.c:6910).
ErrexitExact ==
  [][(Len(stack) > 1 /\ Len(stack') = Len(stack) - 1 /\ running) =>
       (~ running' <=> errexit /\ Top.st # 0 /\ ~ Shielded /\ ~ Exiting)]_vars
=============================================================================
