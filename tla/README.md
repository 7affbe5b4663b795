# Formal verification of arksh

arksh is an interactive shell and script interpreter in C (`src/src/*.c`,
headers in `src/include/arksh/`).  One process with one thread runs the
read-eval loop; it forks children for external commands, pipelines, `&` jobs,
`( )` subshells and process substitutions.  Command substitutions are not
forked: they run in the same process, on a copy of the shell.

This directory holds TLA+ models of its parts, the TLC configurations that
check them on small instances, and proofs that TLAPS checks for every value of
the constants.  `PROJECT.json` maps each definition to the lines it models and
lists the runs, the mutants that show each property can fail, the hazards and
the theorems.  Line numbers in comments are those of `src/src/`.

## Inventory

| Part | State it keeps | Operations | What makes it hard | Module |
|---|---|---|---|---|
| Job control (`shell.c` 7791-8060 and 9942-10204, `platform.c` 1328-2335, `executor.c` 4945-5016 and 5902-6076) | `jobs`, `job_count`, `job_capacity`, `next_job_id`, the SIGCHLD flag, foreground group of the terminal | `&`, `jobs`, `fg`, `bg`, `wait`, foreground and captured pipelines, `fire_pending_traps` | children stop, continue and exit between any two steps; the kernel merges notifications; six places read them | `JobControl`, `JobLifecycle` |
| Variable scopes (`shell.c` 1265-1950, 3353-3784) | `vars`, scope frames, positional parameters, the process environment, `cwd` | assignment, `export`, `unset`, `local`, `declare -n`, `cd`, `set --`, `shift`, function and block entry and exit, prefix assignments, clone and restore | everything is undone by whoever changed it, to any depth, while one environment is shared | `Scopes` |
| Control flow (`executor.c` 5294-5340, 6843-7858, `shell.c` 7288-7414, 8113-8300, 9619-9785, 14276-14524) | `control_signal`, `control_levels`, `loop_depth`, `function_depth`, `in_condition`, `errexit_suppressed`, `running`, traps | lists, `if`, loops, `case`, functions, `eval`, `source`, `break`, `return`, `exit`, `set -e`, `trap` | recursive handlers share counters; traps run commands in the middle of an unwinding | `Control` |
| Registry and plugins (`shell.c` 209-480, 1253-1735, 2047-2170, 2640-2780, 8930-9205, 13889; `plugin.c`) | tables of commands, resolvers, stages and extensions with sorted indices, plugin table, library handles, completion cache | register, find, load, enable, disable, clone, destroy | a load that fails half-way; copies of tables that share libraries; an index or a cache that is stale | `Plugins` |
| Redirections and descriptors (`executor.c` 4736-4945, 5018-5260, 5485-5700, 6078-6210; `platform.c` 1650-1930; `parser.c`) | the descriptor table, `inherited_input_redirection` | `exec` redirections with backup and rollback, built-ins with redirected stdin, groups, pipes of a pipeline | numbers reused by `dup`; one of several steps failing | `Redirect` |
| Values (`object.c`; `shell.c` 5822-6570, 12585-13330) | value trees | path get and set, merge, pick; matrices; JSON and CSV both ways | limits, nesting, texts that must read back as they were written | `Values`, `Formats` |
| Object expressions, stages, bindings (`executor.c` 745-4735) | bindings and their frames | `where`, `sort`, `take`, `map`, `reduce`, `group_by`, ..., blocks, `let` | lists filtered and sorted in place; failure in the middle of a list | `Pipeline` |
| Classes and instances (`shell.c` 3786-4910) | `classes`, `instances`, capacities | define, redefine, lookup, `new`, `init`, methods, rollback | constructors that create instances and fail; multiple inheritance; redefinition | `Classes` |
| Word expansion (`expand.c`), `test`, `[[`, `read`, `getopts` (`shell.c` 10931-12480) | the scope; what `getopts` keeps between calls; `BASH_REMATCH` | parameter forms, patterns, IFS splitting, quoting, globbing, arithmetic; conditions; reading fields; scanning options | boundary cases; ten levels of precedence; a second parser that skips; state between calls | `Arith`, `Tests`, `Words` |
| Line editor, history, completion (`line_editor.c`; `shell.c` 7682-7790) | buffer, cursor, undo, kill buffer, history index, draft, multi-line text; `history`, its file | keys, history walk, reverse search, completion; load, add, save | a long sequence of keys; the limit; crashes, and two sessions with one file | `Editor`; the cache of command names is in `Plugins` |
| Process substitution, forked subshells (`shell.c` 573-748, 8055-8111; `executor.c` 6222-6408) | `process_substitutions`, FIFOs, workers | prepare, cleanup, fork and wait | a worker that does not end, is stopped, or is reaped by someone else | not modelled |
| Lexer, parser, aliases (`lexer.c`, `parser.c`; `shell.c` 8309-8418) | none beyond the AST | dispatch of a line, lists, pipelines, compound commands, here-documents, "needs more input" | nesting and keyword positions found by several scanners that must agree | pieces in `Redirect`, `Arith`, `Tests`, `Editor` |
| Scratch arena (`arena.c`) | chunks, current chunk, active shell | alloc, frame begin, frame end | nested frames of nested shells | not modelled |
| Other built-in utilities, prompt, startup, platform wrappers, sh mode, perf, bundled plugins | little or none | functions of their arguments, or file-system work | - | not modelled, see the end |

How they interact.  `arksh_shell_execute_line` is the hub: it parses a line,
executes the AST (which calls it again for every body), then fires the traps of
pending signals, refreshes the job table if SIGCHLD arrived, and applies the
ERR trap and errexit.  Job control is called from it and from the built-ins;
scopes are changed by every assignment and by functions, blocks and prefixes
around a nested `execute_line`; a command substitution clones the shell, which
touches scopes (own frames, shared table), jobs (own table, shared children)
and the registry (own tables, shared libraries).  The first and the last are in
`Scopes` and `Plugins`.  The descriptors of a command are set up around the same
calls (`Redirect`).  A value expression is a line too: its stages call blocks,
which push frames (`Pipeline`), and methods and constructors, which run blocks
that create instances (`Classes`).  Words are expanded before a command is
looked up (`Words`), and the REPL gets its lines from the editor and hands each
one to the history before it runs it (`Editor`).

What has to be right: the table tells the truth about the children and no exit
status is lost; the terminal comes back to the shell; no wait blocks for good; a
child sees exactly the exported variables; a caller finds its variables and
parameters as it left them; counters match the activations that are really
there, so `break n`, `return` and `set -e` end what they should; a lookup finds
exactly what is registered and never code that is not mapped; a program starts
with the descriptors its redirections name and the shell keeps its own; a stage
loses no item and a block no binding; what is written as JSON, CSV or Base64
reads back; a class never derives from itself and a failed constructor leaves no
entry too many; fields, patterns, arithmetic, conditions and options mean what a
short definition says they mean; the history is what was typed, and the line
being typed is not lost.

## Plan

The modules of the system are written: job control first, because that is where
processes interleave, then the state that nested execution shares (`Scopes`,
`Control`, `Plugins`, `Redirect`), then the value layer (`Values`, `Formats`,
`Pipeline`, `Classes`), the words (`Arith`, `Tests`, `Words`) and the editor.

```
JobLifecycle <- JobControl <- JobControlProofs      Values <- Formats <- Pipeline
Scopes   <- ScopesProofs                            Arith, Tests <- Words
Control  <- ControlProofs
Plugins  <- PluginsProofs
Redirect <- RedirectProofs
Classes  <- ClassesProofs
Editor   <- EditorProofs
Positions: what all the proofs say of numbers and sequences
```

Abstract specifications: `JobLifecycle` for the job table.  The other components
promise a result rather than a protocol; there the abstract side is a reference
definition inside a property (`intended` in `Redirect`, `SelectSeq` and counting
in `Pipeline`, `Runs`, `Means`, `TreeValue`, `TestMeaning` and `ScanOnce` in
`Words`, `Deduped` and `Newest` in `Editor`).

Every safety property that the passing runs check of a module without RECURSIVE
operators is a theorem.  `Arith`, `Tests`, `Words`, `Formats` and `Pipeline`
describe recursive descent with RECURSIVE operators and are left to TLC.

Worth modelling later: a process substitution worker with its poll, kill and
wait; forked subshells; a substitution's copy of the job table.

## The modules

### `JobControl`

State.  The kernel's side is `pst` (each child none, run, stop, zombie or
gone), `note` (its one unread stop or continue), `code`, `grp`, `nextPid` and
`ttyFg`.  The shell's side is `jobs`, `capacity`, `nextJobId` and
`chldPending`, and, for the operation in progress, `pc`, `cur`, `pipe`,
`anyStopped`, `anyFailed`, `status`.

Steps.  The shell is one thread, so what it does between two blocking calls is
one step, and children move between its steps.  A handler that blocks or loops
is several actions: `Foreground`, `ForegroundResume`, `ForegroundWait`;
`StartBackground`, `PruneStep`, `PruneEnds`, `Spawn`; `WaitAll`, `WaitForJob`,
`WaitAllEnds`; `StartPipeline`, `CaptureEnds`, `PipelineWaitStage`,
`PipelineEnds`; `FireClear`, `FireRefresh`.  `arksh_shell_refresh_jobs` polls
each child with `WNOHANG`; those polls commute, so `Refresh` is one step.

A write outside the job array (a stopped pipeline is written to
`jobs[job_count]` without growing it) ends in `pc = "dead"`, from which nothing
is promised.

### `JobLifecycle`

The life of one job number: unborn, running and stopped in turns, done,
forgotten; numbers are given out once and in ascending order.  `JobControl`
implements it under the mapping `LifeOf`, property `JobsLive`.

### `Scopes`

State: the shared table `vars`, the frames of the executing shell, the
environment, the parameters and their count, the shell's `cwd`, the
process's directory, and `stack`, what each pending call, block, prefix or
substitution will undo.  The ghosts `seen` and `given` in a stack record hold
what the caller could see.  A text is a plain value or a nameref; nothing else
about text matters here.  The ghost `lost` records that the directory to go back
to after a substitution had vanished: the restore then gives up half-way, and
`EnvExact` and `CallerKeeps` promise nothing from there on, the other two still
do.  `RichDepth` is the nesting up to which namerefs and prefixes of two
assignments are explored, `LostDepth` the nesting once a directory is lost.

### `Control`

`stack` is the C stack, one record per activation of `execute_line`, of a
compound command, of a script and of the REPL; `ctl` says whether the innermost
one has just called `execute_line` or got a status back.  What a line contains
is any of the forms, chosen when it is run, so one behaviour is one run of one
program.  `goal` is a ghost: the loop a pending `break` or `continue` was
raised for.  `leaked` is a ghost that counts the loops left without lowering
`loop_depth` (an output that overflows in the condition).  `out` records that an
activation has collected output, without which appending cannot overflow.  A
signal is only seen where `fire_pending_traps` is called, so that is where it
arrives.

### `Plugins`

`shells` is the main shell and the clones above it.  An entry is its name, the
library its function pointer points into, and `owner_plugin_index + 1`.
`Search` is the binary search over the sorted index; `Rebuilt` the rebuild after
a change.  A load goes through `LoadOpens`, `LoadInit`, any number of `Register`
and `LoadSucceeds`, or ends in `LoadRejected` or `LoadFails`.  The generation
counter of the completion cache is abstracted to "fresh or stale"; it wraps
after 2^64 changes.

### `Redirect`

A descriptor table maps numbers to streams, and `open`, `dup` and `pipe` take the
lowest free number.  `Parsed` gives the node each operator is parsed to.
Commands run in groups and in built-ins that run commands (`stack`), as `exec`
with its persistent redirections, as one process, or as a pipeline: `Exec`,
`ExecRedirects`, `ExecSucceeds` and `ExecUnwinds`, which releases the backups or
puts them back; `Fork` per stage with
what the child does to its own table (`Child`, `ChildRedirects`, `ChildCloses`).
`intended` is a ghost: the table of a shell that applies the redirections of
`exec` without using any number itself.  `stray` is a ghost too: the read ends that
pipelines which failed in the middle left open, by number; `Expected` is `intended`
with those ends in it, and `ShellKeeps` says that the table between commands is
`Expected`.  So a leak of any other kind violates it, and the one the code has is
excepted by name, not silently: nothing else ever puts an end into `stray`.  `plain`
is a ghost that becomes false with an `exec` the properties say nothing about: one
that redirects a number above 2 (where the code's own backups and pipe ends live),
closes one, or has an empty here-document.  `ProgramSees` asks the same of the
redirections of the program itself.

### `Values`, `Formats`, `Pipeline`

`Values` has the maps, dicts, matrices and paths of `object.c` as functions of
values; `Formats` what writes and reads JSON and CSV; `Pipeline` the stages, the
methods, Base64 and blocks, and a state machine that applies any operation to the
result of the last one.  `where`, `sort` and `group_by` are written as the
in-place loops of the code (`MoveDown`, `Compact`, `Swap`), so that an item that
is skipped or moved twice would show.  Fixed buffers are limits: a key is looked up
whole and stored cut to `MaxName`, as are column names and cells; `split`, `lines`
and `trim` cut to `MaxPiece` and `MaxOutput`; `to_csv` leaves out what does not fit
`MaxOutput`, and the other stages that write a text refuse it.  A block runs in a
frame that is pushed on `frames` and popped however its body ends.  An expression in a block that has no
value names a path, as in the code.

### `Classes`

`classes` maps names to definitions; `Define` builds the candidate, refuses an
unknown or a cyclic base and replaces what has the name.  `instances` is the
array with its `capacity`; `stack` the constructors and methods that run, each
a block of statements that sets a field, creates an instance or fails.  When the
array moves while a constructor runs, the pointer the code kept to its entry
dangles: what is read through it afterwards is any of the outcomes
(`ResultStatement`, `ReadBack`).  The code searches the bases recursively, to a
depth of `MaxClasses`; `Lookup`, `IsA`, `PropertyNames` and `Defaults` say the same
level by level: entry `n` of a function gives, for every class, what the recursion
finds that may go `n` classes deep.

### `Arith`, `Tests`, `Words`

`Arith` is the recursive descent of `$(( ))` over characters, one operator per
level that decides from the next characters whether an operator is its own, with
integers of `Width` bits that wrap.  `Tests` is `test`, `[` and `[[` over argument
lists, with what a primary says given by constants.  `Words` is the expansion of a
word made of parts into fields, `read` and `getopts`; `read` keeps `MaxLine`
characters of a line and a variable `MaxValue` of a text.  A script of one kind
expands words, evaluates expressions, tests conditions, reads lines or scans
options; the variables, the input and what `getopts` stores live on from one
command to the next.  `${x//}` is the result `Hangs`.

### `Editor`

A key is an action on `line`, `cursor`, `undo`, `kill`, `index`, `scratch`,
`multi` and `search`; Enter joins lines while a parenthesis is open and hands the
command to the history, which normalises newlines to ` ; `, drops a repetition and
drops the oldest entry at its limit.  Leaving truncates the file and writes it
when it is closed, two steps, and the process may be killed before either.  A
second shell of the same user, interactive or with its commands on a pipe, ends at
any time.  A text is a sequence over `Char`, of which `Typed` are the characters a
key enters.  `wanted` and `draft` are ghosts: everything entered since the file was
read, and the line that Up left.

## The runs

| Run | Instance | What it shows |
|---|---|---|
| `job_control` | 3 children, 2 slots, pipelines of 1 or 2 stages, exit codes 0 and 3, pipefail | `IdsAscend`, `TtyOwner`, `NeverStuck`, `TableExact`, `ExitStatusKept`, `ForgetsOnlyTheDead`, `PipelineStatus`, and the refinement `JobsLive` |
| `job_control_live` | 2 children, 2 slots | `PromptReturns` under fairness |
| `stopped_is_listed` | as `job_control`, exit code 0 | violated: Ctrl-Z on a foreground pipeline does not always list it |
| `scopes` | PWD, OLDPWD; table size 1; depth 2; one parameter; namerefs, two prefix assignments and vanishing directories at depth 0 | `EnvExact`, `CallerKeeps`, `ParamsKept`, `GlobalsShared`, with full tables |
| `control` | nesting of three activations and a line, `break 2` | `DepthsMatch`, `BreakTarget`, `ErrexitExact` |
| `plugins` | 2 libraries, 3 entries per table, one nested clone, names around those of the built-ins | `FindExact`, `OpenCount`, `CallableLoaded`, `CacheFresh` |
| `redirect` | two commands of up to two redirections out of nine, in up to two groups or built-ins | `ShellKeeps`, `ProgramSees`, `WrittenOnce`, `InnermostInput` |
| `pipeline` | chains of two operations on 20 values, with 5 blocks, 6 texts and 11 paths; keys of 2 characters, pieces of 6, texts of 40 | `SelectsAndSorts`, `GroupsPartition`, `PathsExact`, `RoundTrips`, `BindingsKept` |
| `classes` | 4 classes with 9 definitions, 3 instances, 4 ids, first capacity 2 | `Hierarchy`, `DefaultsAsLookedUp`, `InstancesInStep` |
| `words` | 1,198 words under 23 environments, with and without `set -u`; 22,747 expressions at 8 bits, with and without blanks; 2,742 conditions in three forms; every input of up to four characters, and 6 to 10 for a line of 8 and variables of 6; 10 option scans started over twice | `FieldsExact`, `ParametersExact`, `ArithmeticAgrees`, `ConditionsAgree`, `OptionsOnce` |
| `editor` | 5 keys in one or two shells, 2 history entries, lines of up to 5 characters, a second shell | `HistoryExact`, `DraftReturns` |
| `piped_history` | the same | violated: a shell that reads a pipe replaces the history file |

Why the bounds are enough for what is asked.  Job control: two slots and three
children give a full table, a pruned one, an entry behind a removed one and a
pipeline whose stages stop and exit in any order while another job changes; the
first capacity 1 makes the array grow.  Scopes: depth two nests any kind of call
in any other; tables of size one are full at once; a nameref is followed one hop,
or refers to itself until the hop limit of two.  Control: two compound commands
around a line give every pair of nestings, `break 2` crosses one loop and ends
the next, and a trap command takes a level of its own.  Plugins: one more
library and one more name than fit.  Redirect: two redirections give every order
and every pair in which the first has to be undone because the second fails;
pipelines have one or two stages, so there is a first, a last and a neighbour;
the operators left out (`>>`, `2>`, `2>&1`, `n>>`, `n<&m`) are parsed to nodes
that are applied by the same lines as one that is in.  Pipeline: two operations
are enough for a result to be the input of every other operation; the JSON depth
and the matrix limits are smaller than the values, and of keys, pieces and CSV texts
some just fit their buffers and some do not.  Classes: three definitions
can close a cycle, `D` inherits `A` twice, and the array moves once.  Words: the
properties speak of one command at a time and the inputs contain each boundary
(empty text, separators at both ends and next to each other, every pattern of up
to three elements, every pair of operators in both shapes).  Editor: five keys
reach any two entries and back with an edit in between, a joined line longer than
an entry, and an end of the shell after an entry; the history is full at once.

Deadlock is not checked where the system may stop: a shell that has ended, or
that is lost, takes no step, the children in a model are finite in number, and so
are the keys, commands and operations of the other models.  `scopes` checks it.

Fairness (`job_control_live` only): weak fairness of the shell's own steps,
since a thread that is not blocked runs; strong fairness of the end of a line,
since a line has finitely many commands; and of the end of each child that keeps
getting to run.  Nothing is assumed about a stopped child, a signal or a user.
`PromptReturns` excepts the one blocking call that a stop does not end, the read
of a captured output: there the terminal belongs to the stopped group and only
someone else's SIGCONT, or a window resize that interrupts the read, frees the
shell.

## Proofs

`tlapm` checks every theorem below to the last leaf; each holds for every value of
the constants that the assumptions of the module allow.  Those say that limits are
positive numbers and that names which have to differ do (`BoundsAssumption`,
`CodesAssumption`, `NamesAssumption`, `ValuesAssumption`, `LimitsAssumption`,
`ClassLimits`); those of `Redirect`, `Classes` and `Editor` that say more are named
there.
TLC evaluates them in every run.  In each module the argument is an invariant that
holds at the start and is kept by every action, one lemma per action or group of
actions, and the property follows from it.

| Module | Theorem | States | Invariant |
|---|---|---|---|
| `JobControlProofs` | `TypeCorrect` | `TypeOK` | `Inv` |
| | `NumbersAscend` | `IdsAscend` | `OrderInv` |
| | `TerminalOwned` | `TtyOwner` | `TtyInv` |
| | `WaitsAnswered` | `NeverStuck` | `WaitInv` |
| | `NothingLost`, `StatusKept` | `TableExact`, `ExitStatusKept` | `TableInv` |
| | `OnlyTheDead`, `StatusOfPipeline` | `ForgetsOnlyTheDead`, `PipelineStatus` | `TableInv` |
| | `ImplementsLifecycle` | `JobsLive`, the refinement of `JobLifecycle` | `OrderInv` |
| `ScopesProofs` | `ChildrenSeeExported` | `EnvExact` | `ScopesInv` |
| | `CallersKeepVariables`, `CallersKeepParameters` | `CallerKeeps`, `ParamsKept` | `ScopesInv` |
| | `SubstitutionsShareGlobals` | `GlobalsShared` | `ScopesInv` |
| `ControlProofs` | `DepthsExact`, `BreaksTheNth`, `ErrexitEndsExactly` | `DepthsMatch`, `BreakTarget`, `ErrexitExact` | `ControlInv` |
| `PluginsProofs` | `FindsExactly`, `NeitherLeakedNorClosedTwice` | `FindExact`, `OpenCount` | `PluginsInv` |
| | `FoundIsCallable`, `CacheIsFresh` | `CallableLoaded`, `CacheFresh` | `PluginsInv` |
| `RedirectProofs` | `InputOfInnermost` | `InnermostInput` | `InputInv` |
| | `TableRestored` | `ShellKeeps` | `RedirectInv` |
| | `ProgramsStartRight` | `ProgramSees` | `ProgramsInv` |
| | `OutputWrittenOnce` | `WrittenOnce` | `WrittenInv` |
| `ClassesProofs` | `RollbackKeepsStep` | `InstancesInStep` | `ClassesInv` |
| | `NoClassDerivesFromItself` | `Hierarchy` | `HierarchyInv` |
| | `DefaultsAreFound` | `DefaultsAsLookedUp` | `DefaultsInv` |
| `EditorProofs` | `LineComesBack` | `DraftReturns` | `DraftInv` |
| | `HistoryIsExact` | `HistoryExact` | `HistoryInv` |

**`JobControlProofs`.**  The invariants are built on each other.  `TypeOK` is not
inductive: `Inv` adds `EntriesOK` (an entry that is not done still has the pid and
the group of the process it was made for) and `LocalsOK` (the index that `fg`,
`bg`, `wait`, pruning and pipelines keep across a blocking call still points into
the table or the pipeline).  `OrderInv` adds that no stage of the pipeline in the
foreground is the process of an entry (`PipeApart`), since the entry made for a
stopped pipeline would otherwise list a process twice.  `WaitInv` says of every
child the shell may still wait for that it exists and that its stop is unread: the
children of running entries at all times and not only during a `wait`, the entry
`fg` or `bg` has chosen, the stages not waited for yet; and that an unread
notification agrees with the state of its child, because a refresh believes what
it reads.  `TableInv` relates the table to the children while children move:
an entry that is done is for a child that was reaped and holds its status; an entry
that is not done was not reaped behind its back; a stopped job that was continued
has a notification the shell has yet to read (`RecordsOK`); unless a refresh is
due each entry shows what its child does (`ShowsOK`); and while the stages are
waited for one by one, `anyFailed` is what the stages so far ended with (`PipeOK`).
Every poll is the same event for this invariant, so there is one lemma about a
child that is polled and one about a child that is not.  The refinement follows
step by step: each entry keeps its state or moves along the life of a job
(`Follows`), and the numbers given out are those below `nextJobId`.

**`ScopesProofs`.**  What a call, a block or a substitution must find again is
under other calls while it runs, and substitutions put whole shells aside.
`ScopesInv` says that `EnvExact` holds, and that the depths of the frames can be
recovered from the stack (`Depths`) so that below each record nothing has changed
(`Undone`, `Kept`): the variables its caller saw, the parameters its caller had,
in the executing shell and in every shell that a substitution above it will return
to.  `EnvExact` is kept because each write, removal and restore brings the
environment in step name by name (`SyncedTo`).

**`ControlProofs`.**  `ControlInv` says that each of the four counters is the
cardinality of a set of activations, that a `break` under way has exactly as many
loops between it and its goal as `control_levels` says and nothing is being called
meanwhile (`Underway`), that only the outermost activation runs the EXIT trap, and
that the ERR trap runs for lines that nothing shields.

**`PluginsProofs`.**  Two pure algorithms are proved exact for every table: the
insertion sort that rebuilds an index yields a sorted permutation of the positions,
and the binary search over it finds exactly the name.  `PluginsInv` then says that
each index is that of its table, a name is in a table once and a plugin in the list
once; that every entry is the shell's own or belongs to the plugin it came with or
to the one being loaded; that the plugins of a clone are held open by it or by a
shell below it; that the `dlopen` count is the number of shells that will close the
library, plus the load under way; and that a cache that is not stale lists what the
main shell finds.

**`RedirectProofs`.**  Two assumptions: `MaxFd >= 2 * MaxCommands +
MaxRedirections + 4`, so that `open`, `dup` and `pipe` always find a number
(`EMFILE` is not modelled), and `WrittenAssumption`, that a written redirection
has one of the thirteen operators.  `InputInv` says that each group keeps the input
of the frames around it.  `RedirectInv` adds the descriptors: between commands
every number from `Height` on is free, a backup sits in a number that was closed
and holds what its descriptor was, different backups have different numbers, and a
pipeline under way holds two read ends at most; so what is undone is exactly what
was done, also when an `exec` fails in the middle of its list.  `ProgramsInv` says
that the program of each stage started so far has what it is entitled to; the
argument follows a child through its list, on the descriptors 0 to 2, and shows
that the numbers it opens are none of the pipe ends it holds.  The ends that failed
pipelines left open are kept apart from all of this (`StraysKeep`): they are in
numbers above 2 that no built-in under way has taken, and nothing moves them.  `WrittenInv` says
that the numbers in the texts (of the terminal, the files and the frames) are below
`produced` and that each occurs once; it is kept because every redirection
empties the stream it writes or moves it as a whole, whatever the order.  The folds
over lists are replaced by the sequence of their results (`FoldRuns`), over which a
set of positions can be exhausted.  Doing these proofs showed that several
`CASE`s of the module had overlapping guards, of which TLA+ leaves the choice open;
they are disjoint now, in the order of the code's branches.

**`ClassesProofs`.**  `ClassesInv` says that the ids in the array ascend, that
the blocks that run have their instances in it in the order in which they were
created, and that its length is the number of instances completed and under
construction; so the last entry, which a rollback removes, may be another instance
but the count stays in step.  `HierarchyInv` says that following bases always ends
(every set of classes has one with no base in the set).  A candidate is refused by a
search of depth `MaxClasses + 1`: the sets it collects grow until they repeat, and
since there are at most `MaxClasses` classes the search is exhaustive, so that a
definition that is let in closes no loop.  For `DefaultsAreFound` two walks in
opposite directions have to meet: what a new instance is filled with comes from the
bases taken from the last to the first, each replacing what is there; a lookup stops
at the first base that knows the name.  `InheritedIs` says of the loop that what
remains of a name is what the first base that has it gave, for any sequence of
bases; with it the two agree at every depth (`FilledAsFound`), by induction on the
depth.  That `isa()` agrees with the test for loops (`IsAMeans`) needs that the
latter's search repeats itself before its limit.  `DefaultsInv` adds that the table
is one a definition can lead to, that every instance is of a class that is there and
that no field holds the value that stands for a missing member.  The assumption
`ClassDefinitions` says what a definition is: a name, a sequence of names, a sequence
of members, and a value for each property.

**`EditorProofs`.**  `DraftInv`: while the history is shown, `scratch` is the line
Up left.  `HistoryInv` says that every history, in memory, written to the file or in
the other shell, is clean: its entries are normalised, none equals the one before,
and there are at most `MaxHistory`.  A clean history is what `load_history` reads
back from what `save_history` wrote (`RoundTrip`): an entry is not empty, not
longer than the buffer it is read into, has no newline and keeps its form when it is
normalised again.  Whatever is in the file before, the history read from it is clean
(`LoadedClean`), and one command more keeps it so (`AddedClean`).  That the limit and
the repetitions may be applied at each command or once to everything entered is
`WantedAdded`: the entry before the new one is always among the newest, so it is seen
also when the rest was cut off.  `EditorAssumption` says that the characters the code
treats specially exist, that a newline is not typed, and that files, candidates and
the commands of the other shell are texts.

**`Positions`.**  The facts that need induction, in a form the provers can use: a
set of numbers that has 0 and is closed under the successor has all up to n; a set
of numbers has a least and a greatest member; what holds of a sequence with an
element appended, dropped or replaced.

Only model-checked: `PromptReturns` (liveness is out of the prover's reach), and
everything about `Words` and `Pipeline`, because `Arith`, `Tests`, `Words`, `Formats` and `Pipeline` use
RECURSIVE operators, about which TLAPS proves nothing.

## Disagreements between the code and its documents

Two have a run (`stopped_is_listed`, `piped_history`) and an entry under
`findings`.  Others that the models show, or that were met while modelling, and
that no run states:

Job control, scopes, control flow, plugins.

- A command substitution polls the shell's own children into its copy of the job
  table, which is then thrown away: the parent marks the job done with status 0
  whatever the child returned (`docs/backlog-implementazione.md:1097`).  Not in
  `JobControl`.
- A `local X` that shadows a variable only inherited from the environment removes
  it for good (`docs/reference.md:304`); `EnvExact` is about the names that are
  not inherited.
- `x=$(shift; echo $1)` moves the parent's parameters, because the copy keeps the
  pointer to them (`docs/benchmarks-baseline.md:148`).  `ParamsKept` is about
  calls.
- A script, and a sourced file, goes on after an `exit` with status 0, because the
  loop of `arksh_shell_source_file` never looks at `running`
  (`docs/reference.md:175`).
- Ctrl-Z on a captured pipeline (a pipeline inside `$(...)` or a value
  expression) leaves the shell blocked, as said above;
  `docs/backlog-implementazione.md:313` has Ctrl-Z list the pipeline as stopped.
- `jobs` marks with `+` the last entry that is not done, while `fg` and `bg`
  without an argument take the last stopped one (`docs/reference.md:284` and 66).
- A stopped pipeline is remembered by its last stage only: when that stage has
  already exited, the entry is done at the next refresh while an earlier stage
  is still stopped.
- When the directory to return to has vanished, the restore after a substitution
  gives up before the environment is restored (`docs/benchmarks-baseline.md:150`).
- `X=1 X=2 command` leaves `X=1`, since the second assignment saves what the
  first has set; and a variable that a prefix exported stays exported
  (`docs/backlog-implementazione.md:164`, the comment at `executor.c:5787`).
- A `return` that is pending when its function ends with another status than 0
  stays pending (`executor.c:5332`, `docs/reference.md:386`).
- `break n` with n larger than the number of enclosing loops stays pending.
- The EXIT trap runs after `running` was cleared: only the first entry of its
  list is executed.
- Lines that need no parser, and lines that do not parse, skip errexit and the
  ERR trap; a sourced file stops at its first failing line also without `set -e`.
- A plugin whose init fails leaves what it registered.  The entries become
  callable, pointing into a library that is no longer mapped, when the next
  plugin takes the same index; and the failed plugin cannot be loaded again,
  because its own commands are in its way.
- Disabling a plugin that replaced a built-in resolver leaves none.

Redirections.

- `sh -c "echo hi >&3" 3>file` finds 3 closed: the child closes what it opened
  when the number it got is the one named (`docs/reference.md:953`).
- Backups and pipe ends take the lowest free number, which may be one above 2
  that the user names; `exec` then restores or closes the wrong stream.
- `cmd >a >b` of a built-in or group writes to `a` and empties `b`.
- `{ read a; read b; } < f` opens `f` again for each command; an empty
  here-document, and the empty output of a built-in at the head of a pipeline,
  leave the child reading the shell's input.
- A pipe or fork that fails in the middle of a pipeline leaves one read end open in
  the shell for good, and every later program inherits it
  (`platform.c` 1735-1766).  `ShellKeeps` excepts these ends and no others;
  `ProgramSees` counts them as the shell's own.

Values and classes.

- `fill_na` replaces numbers and booleans too (`docs/reference.md:748`).
- `sort` is no order when numbers and texts are mixed; `transpose` drops what does
  not fit; `group_by` fails on an empty key.
- JSON deeper than the limit can be written and not read; `to_json` of a matrix
  does not escape newlines; CSV loses empty rows of a single column and a trailing
  empty column name.  `RoundTrips` excepts these.
- `split` cuts a piece after 1023 characters (`executor.c` 2485), and `to_csv` leaves
  out, without a word, the fields that would pass 8191 characters, while their commas
  stay (`shell.c` 13156, 13168).  `RoundTrips` speaks of texts whose pieces fit and of
  matrices whose whole CSV text fits, and of those without exception.
- A key of more than 127 characters is compared whole and stored cut (`object.c`
  2232, 2246): `group_by` puts each item with such a key into a group of its own, all
  under the same cut key; `set_path` appends it again each time and `get_path` does
  not find it.  `GroupsPartition` says this of long keys and promises one group per
  key when all keys fit; `PathsExact` excepts paths with a long key.
- An instance created while `init` moved the array is returned as whatever is in
  its old place (`docs/user-manual.md:500`); the rollback of a failed constructor
  removes the last entry, which may be another instance.

Words.

- `OPTIND=1` does not restart a scan that was left inside the first word
  (`docs/backlog-implementazione.md:1004`).
- `"$@"` is one word; `a:` has a trailing empty field and `a : b` one in the
  middle under `IFS=": "`; a word that globs is not split; `read` keeps leading
  blanks, gives the rest of a field longer than a variable to the next name, drops
  what exceeds its line, and `read -n N` consumes one character more; `${x//}` never returns.
- `&&`, `||` and `?:` in arithmetic evaluate all operands; a conditional inside a
  conditional needs parentheses; the smallest number divided by -1 traps.
- `[[ f || error || t ]]` forgets the error; `[[ ( t || ) ]]` is true;
  `test a = = -a x` is cut in the wrong place.  `ConditionsAgree` is about the
  trees that are written unambiguously.

Editor.

- Escape sequences it does not know (Home, Page Up, Alt with a letter) end the
  shell; a resize in the middle of one types its rest.
- Ctrl-D in a continuation drops the current line, where the comment says "submit
  whatever we have"; a reverse search replaces the draft without saving it; the
  undo snapshot is not taken by Tab, the history or Enter.
- A command of several lines with parentheses comes back from the history as
  `( ; echo x ; )`, which does not parse.
- Two shells that end at once write over each other, and a crash between the
  truncation and the write leaves an empty file (`docs/security-backlog.md:237`).
  `HistoryExact` excepts these.

## What the models leave out

The Windows branches; reuse of pids; `trap '' CHLD`; a standard input that is
not a terminal; failing allocations (tables fail by their limits instead).
Lines run inside a value expression, and forked subshells, are not in `Control`.
Autoload files, path resolution and type descriptors are not in `Plugins`.
`EMFILE` and the contents of here-documents are not in `Redirect`.  Numbers that
are not integers, Unicode escapes and file objects beyond their path are not in
`Values`.  Bracket expressions are left to `glob(3)` in `Words`.  Which
candidates a completion offers, highlighting, suggestions and drawing are not in
`Editor`.

Not modelled: process substitution, whose difficulty is a timer of one second
against FIFO opens that block in the kernel; forked subshells, whose child is a
whole shell; the scratch arena, whose hazard is a pointer used after its frame,
and the models have no pointers; the parser as such.

Not planned: prompt formatting, `perf.c`, startup files and directory
resolution, the platform wrappers of single system calls, `printf`, `echo`
and the other utilities that are functions of their arguments, and what
the bundled plugins compute.
