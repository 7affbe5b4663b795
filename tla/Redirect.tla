------------------------------ MODULE Redirect ------------------------------
(***************************************************************************)
(* Redirections: what the written operators mean (parser.c), how a         *)
(* built-in, a group, `exec` and the processes of a pipeline apply them to *)
(* file descriptors, and what the shell's own descriptor table is after    *)
(* each of them (executor.c, platform.c, POSIX branches).                  *)
(*                                                                         *)
(* A descriptor table maps numbers to streams.  open, dup and pipe take    *)
(* the lowest free number, which is where the hazards of this code are: it *)
(* keeps its own backups and pipe ends in the numbers a user may name.     *)
(* Program output is abstracted to the number of the command that wrote it.*)
(***************************************************************************)
EXTENDS Integers, Sequences, FiniteSets, SequencesExt, FiniteSetsExt

CONSTANTS
  MaxFd,            \* the last number of the table; EMFILE is not modelled
  Written,          \* the written redirections that commands may carry
  Paths,            \* paths that can be opened
  MaxRedirections,  \* redirections of one command (ARKSH_MAX_REDIRECTIONS)
  MaxCommands,      \* commands run before the model stops
  MaxDepth          \* nested groups and built-ins that run commands

None == "none"
Closed == <<"closed">>
Empty == "empty"    \* a here-document or a built-in's output of length 0
Fds == 0 .. MaxFd
Std == 0 .. 2

\* The table is never full: the standard descriptors, two numbers for every command
\* that can be under way, three backups of an exec and the file it opens, or three
\* pipe ends and one number for each redirection of a child.
ASSUME BoundsAssumption ==
  /\ MaxFd \in Nat /\ MaxFd >= 2 * MaxCommands + MaxRedirections + 4
  /\ MaxRedirections \in Nat \ {0} /\ MaxCommands \in Nat /\ MaxDepth \in Nat

VARIABLES
  table,      \* the descriptors of the shell process
  inherited,  \* inherited_input_redirection, NoInput when not active
  stack,      \* the groups and built-ins being executed, innermost last
  exec,       \* apply_exec_redirections_persistently in progress, or NoExec
  pipeline,   \* arksh_platform_run_process_pipeline in progress, or NoPipeline
  programs,   \* what the processes of the last pipeline were started with
  files,      \* what built-ins and groups have written, by path
  shown,      \* output that reached the terminal
  produced,   \* commands run so far
  \* No action reads the next three.
  intended,   \* the table a shell that uses no number of the user would have
  stray,      \* the read ends that pipelines which failed left open, by number
  plain       \* no step so far left the range the properties speak about

vars == <<table, inherited, stack, exec, pipeline, programs, files, shown, produced, intended, stray, plain>>

-----------------------------------------------------------------------------
(* What the operators mean: the token kinds of parse_command_stage_tokens. *)

Node(kind, fd, target, path) == [kind |-> kind, fd |-> fd, target |-> target, path |-> path]

Duplication(w) ==
  CASE w.op = "n>&m" -> Node("dupOutput", w.n, w.m, None)
    [] w.op = "n<&m" -> Node("dupInput", w.n, w.m, None)
    [] w.op = "n>&-" -> Node("close", w.n, -1, None)

\* A written redirection w has an operator, the digits before and after it, and a word.
Parsed(w) ==
  CASE w.op = "<"    -> Node("input", 0, -1, w.word)
    [] w.op = ">"    -> Node("output", 1, -1, w.word)
    [] w.op = ">>"   -> Node("append", 1, -1, w.word)
    [] w.op = "2>"   -> Node("error", 2, -1, w.word)
    [] w.op = "2>>"  -> Node("errorAppend", 2, -1, w.word)
    [] w.op = "2>&1" -> Node("errorToOutput", 2, 1, None)
    [] w.op = "<<"   -> Node("here", 0, -1, w.word)
    [] w.op = "n<"   -> Node("fdInput", w.n, -1, w.word)
    [] w.op = "n>"   -> Node("fdOutput", w.n, -1, w.word)
    [] w.op = "n>>"  -> Node("fdAppend", w.n, -1, w.word)
    [] OTHER         -> Duplication(w)

\* The operators that are redirections (is_redirect_token; the here-string and both here-documents are "<<").
ASSUME WrittenAssumption == \A w \in Written : w.op \in
  {"<", ">", ">>", "2>", "2>>", "2>&1", "<<", "n<", "n>", "n>>", "n>&m", "n<&m", "n>&-"}

NoInput == Node(None, -1, -1, None)

Redirections == {Parsed(w) : w \in Written}
\* The redirections of a command; the tail of a group takes the same operators.
Lists(n) == UNION {[1 .. k -> Redirections] : k \in 0 .. n}
GroupTails(n) == Lists(n)

Inputs == {"input", "fdInput"}
Outputs == {"output", "append", "error", "errorAppend", "fdOutput", "fdAppend"}
Dups == {"errorToOutput", "dupInput", "dupOutput"}

AffectsStdin(r) ==
  \/ r.kind \in {"input", "here"}
  \/ (r.kind \in {"fdInput", "dupInput", "close"} /\ r.fd = 0)

-----------------------------------------------------------------------------
(* Descriptors, as the kernel keeps them.                                  *)

Lowest(t) == Min({n \in Fds : t[n] = Closed})
Put(t, n, s) == [t EXCEPT ![n] = s]
Close(t, n) == IF n \in Fds THEN Put(t, n, Closed) ELSE t
CloseAll(t, S) == [n \in Fds |-> IF n \in S THEN Closed ELSE t[n]]
Dup2(t, from, to) == IF t[from] = Closed THEN t ELSE Put(t, to, t[from])
PipeEnds(t) == LET r == Lowest(t) IN [r |-> r, w |-> Lowest(Put(t, r, <<"pipe">>))]
NoEnds == [r |-> -1, w |-> -1]
OpenEnds(t, e, s) == IF e = NoEnds THEN t ELSE Put(Put(t, e.r, <<"pipe", s, "read">>), e.w, <<"pipe", s, "write">>)

CanOpen(r) == r.path \in Paths
Stream(r) == IF r.kind = "here" THEN <<"text", r.path>> ELSE <<"file", r.path>>

(* What the list rs means for the table t: each redirection in turn,       *)
(* on the numbers it names and on no other.                                *)
Meant(t, r) ==
  CASE r.kind = "close" -> Put(t, r.fd, Closed)
    [] r.kind \in Dups  -> Put(t, r.fd, t[r.target])
    [] OTHER            -> Put(t, r.fd, Stream(r))
AllMeant(t, rs) == FoldLeft(Meant, t, rs)

\* The redirections the properties speak about: standard descriptors, opened
\* or duplicated from an output, with a text that is not empty.
Plain(rs) == \A i \in 1 .. Len(rs) :
  /\ rs[i].fd \in Std /\ rs[i].kind # "close" /\ rs[i].path # Empty
  /\ rs[i].kind \in Dups => rs[i].target \in {1, 2}

-----------------------------------------------------------------------------
(* exec without a command: the redirections become the shell's own.        *)

NoExec == [rs |-> <<>>, i |-> 0, backups |-> <<>>, doing |-> None, was |-> <<>>]
NoPipeline == [specs |-> <<>>, i |-> 0, prev |-> -1, capture |-> FALSE, read |-> -1]

Idle == exec = NoExec /\ pipeline = NoPipeline
CanRun == Idle /\ produced < MaxCommands

Exec(rs) ==
  /\ CanRun /\ rs # <<>>
  /\ exec' = [rs |-> rs, i |-> 1, backups |-> <<>>, doing |-> "apply", was |-> intended]
  /\ produced' = produced + 1
  /\ plain' = (plain /\ Plain(rs))
  /\ UNCHANGED <<table, inherited, stack, pipeline, programs, files, shown, intended, stray>>

\* ensure_persistent_fd_backup: the first save of fd, with dup; -1 when fd is closed.
Backed(st, fd) ==
  IF \E b \in ToSet(st.backups) : b.fd = fd THEN st
  ELSE IF st.t[fd] = Closed THEN [st EXCEPT !.backups = Append(@, [fd |-> fd, saved |-> -1])]
  ELSE LET n == Lowest(st.t) IN
       [t |-> Put(st.t, n, st.t[fd]), backups |-> Append(st.backups, [fd |-> fd, saved |-> n])]

\* open (or pipe) takes the lowest number, dup2 moves it, close drops it.
MoveTo(t, r) == LET n == Lowest(t) IN Close(Dup2(Put(t, n, Stream(r)), n, r.fd), n)

ApplyPersistently(r, st) ==
  CASE r.kind = "close" -> [st EXCEPT !.t = Close(@, r.fd)]
    [] r.kind \in Dups  -> [st EXCEPT !.t = Dup2(@, r.target, r.fd)]
    [] OTHER            -> [st EXCEPT !.t = MoveTo(@, r)]

\* The duplicated descriptor is saved too, before the switch can fail on it.
Saved(r, st) == LET s1 == Backed(st, r.fd) IN IF r.kind \in Dups THEN Backed(s1, r.target) ELSE s1

Fails(r, t) ==
  \/ (r.kind \in Inputs \union Outputs /\ ~CanOpen(r))
  \/ (r.kind \in Dups /\ t[r.target] = Closed)

ExecRedirects ==
  /\ exec # NoExec /\ exec.doing = "apply" /\ exec.i <= Len(exec.rs)
  /\ LET r == exec.rs[exec.i]
         st == Saved(r, [t |-> table, backups |-> exec.backups])
         done == ApplyPersistently(r, st)
     IN  IF Fails(r, st.t)
         THEN /\ table' = st.t
              /\ exec' = [exec EXCEPT !.backups = st.backups, !.doing = "rollback"]
              /\ intended' = exec.was
         ELSE /\ table' = done.t
              /\ exec' = [exec EXCEPT !.backups = done.backups, !.i = @ + 1]
              /\ intended' = Meant(intended, r)
  /\ UNCHANGED <<inherited, stack, pipeline, programs, files, shown, produced, stray, plain>>

ExecSucceeds ==
  /\ exec # NoExec /\ exec.doing = "apply" /\ exec.i > Len(exec.rs)
  /\ exec' = [exec EXCEPT !.doing = "release"]
  /\ UNCHANGED <<table, inherited, stack, pipeline, programs, files, shown, produced, intended, stray, plain>>

RestoredLeaks(t, b) == IF b.saved >= 0 THEN Dup2(t, b.saved, b.fd) ELSE Close(t, b.fd)
Restored(t, b) == IF b.saved >= 0 THEN Close(Dup2(t, b.saved, b.fd), b.saved) ELSE Close(t, b.fd)
Released(t, b) == Close(t, b.saved)

ExecUnwinds ==
  /\ exec # NoExec /\ exec.doing # "apply"
  /\ IF exec.backups = <<>> THEN exec' = NoExec /\ UNCHANGED table
     ELSE LET b == Head(exec.backups) IN
          /\ table' = IF exec.doing = "rollback" THEN Restored(table, b) ELSE Released(table, b)
          /\ exec' = [exec EXCEPT !.backups = Tail(@)]
  /\ UNCHANGED <<inherited, stack, pipeline, programs, files, shown, produced, intended, stray, plain>>

-----------------------------------------------------------------------------
(* Built-ins and groups.                                                   *)

\* Output of the innermost frame's command goes to its buffer, else to the terminal.
Emit(frames, text) ==
  IF frames = <<>> THEN stack' = frames /\ shown' = shown \o text
  ELSE stack' = [frames EXCEPT ![Len(frames)].out = @ \o text] /\ shown' = shown

\* The last redirection of standard input, else the one of the enclosing group.
StdinOf(rs) ==
  LET S == {i \in 1 .. Len(rs) : rs[i].kind = "here" \/ (rs[i].kind \in Inputs /\ rs[i].fd = 0)}
  IN  IF S # {} THEN rs[Max(S)] ELSE inherited
OpensFile(r) == r # NoInput /\ r.kind \in Inputs \union {"here"}

Frame(kind, rs, saved, file, was) ==
  [kind |-> kind, rs |-> rs, saved |-> saved, file |-> file, prior |-> inherited, was |-> was, out |-> <<>>]

\* execute_builtin_with_redirection up to the call: stdin is saved with dup and replaced.
Builtin(rs) ==
  LET r == StdinOf(rs)
      saved == Lowest(table)
      t1 == IF r = NoInput THEN table ELSE Put(table, saved, table[0])
      file == Lowest(t1)
      t2 == IF OpensFile(r) THEN Dup2(Put(t1, file, Stream(r)), file, 0) ELSE t1
  IN  /\ CanRun /\ Len(stack) < MaxDepth
      /\ r # NoInput => table[0] # Closed
      /\ OpensFile(r) => r.kind = "here" \/ CanOpen(r)
      /\ table' = t2
      /\ stack' = Append(stack, Frame("builtin", rs, IF r = NoInput THEN -1 ELSE saved,
                                      IF OpensFile(r) THEN file ELSE -1, intended))
      /\ intended' = [n \in Fds |->
           CASE r # NoInput /\ n = saved         -> intended[0]
             [] OpensFile(r) /\ n \in {0, file} -> Stream(r)
             [] OTHER                          -> intended[n]]
      /\ produced' = produced + 1
      /\ UNCHANGED <<inherited, exec, pipeline, programs, files, shown, stray, plain>>

\* stdin cannot be saved, or its file cannot be opened: what was changed is put back.
BuiltinUnredirected(rs) ==
  LET r == StdinOf(rs)
      saved == Lowest(table)
  IN  /\ CanRun /\ r # NoInput
      /\ \/ table[0] = Closed /\ UNCHANGED table
         \/ /\ table[0] # Closed /\ r.kind \in Inputs /\ ~CanOpen(r)
            /\ table' = Close(Dup2(Put(table, saved, table[0]), saved, 0), saved)
      /\ produced' = produced + 1
      /\ UNCHANGED <<inherited, stack, exec, pipeline, programs, files, shown, intended, stray, plain>>

\* Where a command's text goes, one redirection at a time; bad is the error return.
WriteTwice(st, r, field, keep) ==
  IF ~CanOpen(r) THEN [st EXCEPT !.bad = TRUE]
  ELSE [st EXCEPT !.files[r.path] = (IF keep THEN @ ELSE <<>>) \o st[field]]
Write(st, r, field, keep) ==
  IF ~CanOpen(r) THEN [st EXCEPT !.bad = TRUE]
  ELSE [st EXCEPT !.files[r.path] = (IF keep THEN @ ELSE <<>>) \o st[field], ![field] = <<>>]

BuiltinWrites(st, r) ==
  IF st.bad THEN st
  ELSE CASE r.kind = "output" -> Write(st, r, "out", FALSE)
         [] r.kind = "append" -> Write(st, r, "out", TRUE)
         [] r.kind = "error"  -> Write(st, r, "err", FALSE)
         [] OTHER             -> st

Restore(f) ==
  LET t1 == IF f.saved >= 0 THEN Close(Dup2(table, f.saved, 0), f.saved) ELSE table
  IN  Close(t1, f.file)

\* The call returns: stdin comes back, then the output is written.
BuiltinEnds(ok) ==
  LET f == Last(stack)
      text == f.out \o <<produced>>
      st == FoldLeft(BuiltinWrites, [files |-> files, out |-> text, err |-> <<>>, bad |-> FALSE], f.rs)
  IN  /\ Idle /\ stack # <<>> /\ f.kind = "builtin"
      /\ table' = Restore(f)
      /\ intended' = IF f.saved < 0 THEN intended
                     ELSE [n \in Fds |-> IF n \in {0, f.saved, f.file} THEN f.was[n] ELSE intended[n]]
      /\ IF ok THEN files' = st.files /\ Emit(Front(stack), IF st.bad THEN <<>> ELSE st.out)
               ELSE files' = files /\ Emit(Front(stack), text)
      /\ produced' = produced + 1
      /\ UNCHANGED <<inherited, exec, pipeline, programs, stray, plain>>

\* execute_compound_body: the last redirection of standard input is what every
\* command of the body starts with; it is opened anew for each of them.
Group(rs) ==
  LET S == {i \in 1 .. Len(rs) : AffectsStdin(rs[i])}
  IN  /\ CanRun /\ Len(stack) < MaxDepth
      /\ stack' = Append(stack, Frame("group", rs, -1, -1, intended))
      /\ inherited' = IF S = {} THEN inherited ELSE rs[Max(S)]
      /\ produced' = produced + 1
      /\ UNCHANGED <<table, exec, pipeline, programs, files, shown, intended, stray, plain>>

GroupWrites(st, r) ==
  IF st.bad \/ AffectsStdin(r) THEN st
  ELSE CASE r.kind = "output"        -> Write(st, r, "out", FALSE)
         [] r.kind = "append"        -> Write(st, r, "out", TRUE)
         [] r.kind = "error"         -> Write(st, r, "err", FALSE)
         [] r.kind = "errorAppend"   -> Write(st, r, "err", TRUE)
         [] r.kind = "errorToOutput" -> [st EXCEPT !.out = @ \o st.err, !.err = <<>>]
         [] OTHER                    -> [st EXCEPT !.bad = TRUE]

InheritedForgotten(f) == NoInput
InheritedAfter(f) == f.prior

GroupEnds(ok) ==
  LET f == Last(stack)
      st == FoldLeft(GroupWrites, [files |-> files, out |-> IF ok THEN f.out ELSE <<>>,
                                   err |-> IF ok THEN <<>> ELSE f.out, bad |-> FALSE], f.rs)
  IN  /\ Idle /\ stack # <<>> /\ f.kind = "group"
      /\ inherited' = InheritedAfter(f)
      /\ files' = st.files
      /\ Emit(Front(stack), IF st.bad THEN <<>> ELSE IF ok \/ st.err = <<>> THEN st.out ELSE st.err)
      /\ UNCHANGED <<table, exec, pipeline, programs, produced, intended, stray, plain>>

-----------------------------------------------------------------------------
(* The processes of a pipeline.                                            *)

\* The first process gets the group's input, when it names none of its own.
WithInherited(rs) ==
  IF inherited = NoInput \/ \E i \in 1 .. Len(rs) : rs[i].fd = 0 THEN rs ELSE Append(rs, inherited)

Launch(specs, capture) ==
  /\ pipeline' = [specs |-> specs, i |-> 1, prev |-> -1, capture |-> capture, read |-> -1]
  /\ programs' = <<>>
  /\ produced' = produced + 1
  /\ UNCHANGED <<table, inherited, stack, exec, files, shown, intended, stray, plain>>

Pipeline(specs, capture) ==
  /\ CanRun
  /\ Launch([specs EXCEPT ![1] = WithInherited(@)], capture)

\* exec with a command and redirections: a child runs it, with no input of a group;
\* the shell then ends, unless it is a script that goes on (see Control).
ExecCommand(rs, capture) == CanRun /\ rs # <<>> /\ Launch(<<rs>>, capture)

\* A built-in at the head of the pipeline: its output is the text the next
\* stage reads, put after that stage's own redirections.
PipelineFromBuiltin(specs, capture, text) ==
  LET r == [kind |-> "here", fd |-> 0, target |-> 0, path |-> text]
  IN  CanRun /\ Launch([specs EXCEPT ![1] = Append(@, r)], capture)

Opened(c, r) ==
  LET n == Lowest(c.t)
  IN  [c EXCEPT !.t = Dup2(Put(@, n, Stream(r)), n, r.fd), !.opened = @ \union {n}]

\* One redirection of the child, between fork and execvp.
ChildRedirects(c, r) ==
  LET opens == (r.kind = "here" /\ r.path # Empty) \/ r.kind \in Inputs \union Outputs
  IN  CASE c.dead -> c
        [] ~c.dead /\ r.kind = "close" -> [c EXCEPT !.t = Close(@, r.fd)]
        [] ~c.dead /\ opens -> IF r.kind = "here" \/ CanOpen(r) THEN Opened(c, r) ELSE [c EXCEPT !.dead = TRUE]
        [] ~c.dead /\ r.kind # "close" /\ ~opens /\ r.target >= 0 ->
             IF c.t[r.target] = Closed THEN [c EXCEPT !.dead = TRUE] ELSE [c EXCEPT !.t = Dup2(@, r.target, r.fd)]
        [] OTHER -> c

\* What the child closes before execvp: the shell's pipe ends and what it opened.
ChildKeepsNext(c, prev, next, cap) == CloseAll(c.t, {prev, next.w, cap.r, cap.w} \union c.opened)
ChildCloses(c, prev, next, cap) == CloseAll(c.t, {prev, next.r, next.w, cap.r, cap.w} \union c.opened)

Child(t, prev, next, cap, rs) ==
  LET t1 == IF prev >= 0 THEN Dup2(t, prev, 0) ELSE t
      out == IF next # NoEnds THEN next.w ELSE cap.w
      t2 == IF out >= 0 THEN Dup2(t1, out, 1) ELSE t1
      c == FoldLeft(ChildRedirects, [t |-> t2, opened |-> {}, dead |-> FALSE], rs)
  IN  [dead |-> c.dead, sees |-> ChildCloses(c, prev, next, cap)]

\* What the shell's table should be, but for the ends it left open.
Expected == [n \in Fds |-> IF stray[n] = Closed THEN intended[n] ELSE stray[n]]

\* What the program of stage i is entitled to: its pipe ends, then its redirections.
Entitled(i, n) ==
  LET rs == pipeline.specs[i]
      in == IF i = 1 THEN Expected[0] ELSE <<"pipe", i - 1, "read">>
      out == IF i < n THEN <<"pipe", i, "write">>
             ELSE IF pipeline.capture THEN <<"pipe", 0, "write">> ELSE Expected[1]
  IN  AllMeant([Expected EXCEPT ![0] = in, ![1] = out], rs)

Fork ==
  /\ pipeline # NoPipeline /\ pipeline.i <= Len(pipeline.specs)
  /\ LET i == pipeline.i
         n == Len(pipeline.specs)
         rs == pipeline.specs[i]
         next == IF i < n THEN PipeEnds(table) ELSE NoEnds
         t1 == OpenEnds(table, next, i)
         cap == IF i = n /\ pipeline.capture THEN PipeEnds(t1) ELSE NoEnds
         t2 == OpenEnds(t1, cap, 0)
         c == Child(t2, pipeline.prev, next, cap, rs)
     IN  /\ table' = CloseAll(t2, {pipeline.prev, next.w, cap.w})
         /\ pipeline' = [pipeline EXCEPT !.i = i + 1, !.prev = next.r, !.read = cap.r]
         /\ programs' = Append(programs, [dead |-> c.dead, sees |-> c.sees, wants |-> Entitled(i, n), rs |-> rs])
  /\ UNCHANGED <<inherited, stack, exec, files, shown, produced, intended, stray, plain>>

\* pipe or fork fails: the new pipes are closed, the read end of the last stage is not.
ForkFails ==
  /\ pipeline # NoPipeline /\ pipeline.i <= Len(pipeline.specs)
  /\ pipeline' = NoPipeline
  /\ stray' = IF pipeline.prev >= 0 THEN [stray EXCEPT ![pipeline.prev] = table[pipeline.prev]] ELSE stray
  /\ UNCHANGED <<table, inherited, stack, exec, programs, files, shown, produced, intended, plain>>

\* The captured output is read to its end, then every process is waited for.
PipelineEnds ==
  /\ pipeline # NoPipeline /\ pipeline.i > Len(pipeline.specs)
  /\ table' = CloseAll(table, {pipeline.prev, pipeline.read})
  /\ pipeline' = NoPipeline
  /\ UNCHANGED <<inherited, stack, exec, programs, files, shown, produced, intended, stray, plain>>

-----------------------------------------------------------------------------
Start == [n \in Fds |-> IF n \in Std THEN <<"std", n>> ELSE Closed]

Init ==
  /\ table = Start /\ intended = Start /\ stray = [n \in Fds |-> Closed] /\ plain = TRUE
  /\ inherited = NoInput /\ stack = <<>> /\ exec = NoExec /\ pipeline = NoPipeline /\ programs = <<>>
  /\ files = [p \in Paths |-> <<>>] /\ shown = <<>> /\ produced = 0

\* Pipelines of one process, or of two that carry one redirection together.
Single(n) == {<<rs>> : rs \in Lists(n)}
Double == {<<rs, <<>>>> : rs \in Lists(1)} \union {<<<<>>, rs>> : rs \in Lists(1)}

Next ==
  \/ \E rs \in Lists(MaxRedirections) : Exec(rs)
  \/ ExecRedirects \/ ExecSucceeds \/ ExecUnwinds
  \/ \E rs \in Lists(MaxRedirections) : Builtin(rs)
  \/ \E rs \in Lists(MaxRedirections) : BuiltinUnredirected(rs)
  \/ \E ok \in BOOLEAN : BuiltinEnds(ok)
  \/ \E rs \in GroupTails(MaxRedirections) : Group(rs)
  \/ \E ok \in BOOLEAN : GroupEnds(ok)
  \/ \E specs \in Single(MaxRedirections) \union Double, capture \in BOOLEAN : Pipeline(specs, capture)
  \/ \E specs \in Single(1) \union Double, capture \in BOOLEAN, text \in {"out", Empty} : PipelineFromBuiltin(specs, capture, text)
  \/ \E rs \in Lists(1), capture \in BOOLEAN : ExecCommand(rs, capture)
  \/ Fork \/ ForkFails \/ PipelineEnds

Spec == Init /\ [][Next]_vars

-----------------------------------------------------------------------------

\* Between commands the shell's descriptors are the ones it had, changed only by
\* the redirections of an exec that succeeded: a failed exec is undone, and no
\* backup or here-document stays open, nor a pipe end of a pipeline whose processes
\* were all started (apply_exec_redirections_persistently,
\* execute_builtin_with_redirection, arksh_platform_run_process_pipeline).  A pipeline
\* that fails in the middle does leave one open, for good: the read end of the last
\* process it started.  Those ends, and they alone, are excepted.
ShellKeeps == (plain /\ Idle) => table = Expected

\* A program is started with exactly the descriptors its redirections name, over
\* its pipe ends, and with no end of a pipe between other stages: a stage that held
\* one would keep its neighbour from ever reading end of file.  It inherits the ends
\* that failed pipelines left open in the shell.  It is not started only when one of
\* its redirections cannot be applied.  Redirections of numbers above 2 are not spoken
\* about (Plain): a child closes the number a file was opened at, also when it is the
\* one the user named, so that 3>file gives a program no descriptor 3.
ProgramSees == \A c \in ToSet(programs) :
  (plain /\ Plain(c.rs)) =>
    IF \E r \in ToSet(c.rs) : r.kind \in Inputs \union Outputs /\ ~CanOpen(r)
    THEN c.dead ELSE ~c.dead /\ c.sees = c.wants

\* Where output is: on the terminal, in a file, or waiting in a frame for its end.
Places == {<<"terminal", 0>>} \union ({"file"} \X Paths) \union ({"frame"} \X (1 .. Len(stack)))
Text(x) == CASE x[1] = "terminal" -> shown
             [] x[1] = "file"     -> files[x[2]]
             [] x[1] = "frame"    -> stack[x[2]].out

\* The output of a command is in one place: redirecting it to two files, or
\* through nested groups, never writes it twice.
WrittenOnce == \A x, y \in Places : \A i \in 1 .. Len(Text(x)), j \in 1 .. Len(Text(y)) :
  Text(x)[i] = Text(y)[j] => x = y /\ i = j

\* The redirections of standard input of the groups being executed: <<group, position>>.
GroupInputs ==
  {x \in (1 .. Len(stack)) \X (1 .. MaxRedirections) :
     LET f == stack[x[1]] IN f.kind = "group" /\ x[2] <= Len(f.rs) /\ AffectsStdin(f.rs[x[2]])}
Innermost == {x \in GroupInputs : \A y \in GroupInputs : y[1] < x[1] \/ (y[1] = x[1] /\ y[2] <= x[2])}

\* The input a command starts with is the one of the innermost group that redirects
\* it, also after groups inside that group have ended or failed.
InnermostInput ==
  inherited = IF GroupInputs = {} THEN NoInput
              ELSE LET x == CHOOSE x \in Innermost : TRUE IN stack[x[1]].rs[x[2]]
=============================================================================
