----------------------------- MODULE JobControl -----------------------------
(***************************************************************************)
(* Job control of the interactive shell: the job table of src/src/shell.c,  *)
(* the foreground pipelines of src/src/executor.c and src/src/platform.c,   *)
(* and the part of the kernel they talk to (fork, waitpid, kill, tcsetpgrp).*)
(*                                                                          *)
(* The shell is one thread.  Everything it does between two blocking calls  *)
(* is one step; the children it forked run, stop, continue and exit between *)
(* its steps.  The kernel keeps at most one unread notification per child,  *)
(* a later one replacing an earlier one, and SIGCHLD only raises a flag     *)
(* that the shell reads at the next command boundary.                       *)
(***************************************************************************)
EXTENDS Integers, Sequences, FiniteSets

CONSTANTS
  MaxProcs,      \* bound on the children forked in one behaviour
  MaxJobs,       \* ARKSH_MAX_JOBS
  FirstCapacity, \* the first size grow_heap_array allocates (4 in the code)
  MaxStages,     \* bound on the stages of a foreground pipeline
  ExitCodes,     \* exit statuses a child may end with (128+n: signal n)
  Pipefail       \* shell->opt_pipefail

ASSUME BoundsAssumption ==
  /\ MaxProcs \in Nat \ {0}
  /\ MaxJobs \in Nat \ {0}
  /\ FirstCapacity \in 1 .. MaxJobs
  /\ MaxStages \in Nat \ {0}
  /\ Pipefail \in BOOLEAN

ASSUME CodesAssumption == ExitCodes \subseteq Nat /\ 0 \in ExitCodes

VARIABLES
  \* the kernel's view of the shell's children
  pst,        \* process state of each pid
  note,       \* its unread stop or continue notification
  code,       \* its exit status
  grp,        \* its process group
  nextPid,    \* the next pid fork returns
  ttyFg,      \* foreground process group of the terminal; 0 is the shell's own
  \* ArkshShell
  jobs,       \* shell->jobs[0 .. job_count-1]
  capacity,   \* shell->job_capacity
  nextJobId,  \* shell->next_job_id
  chldPending,\* s_pending_traps[ARKSH_TRAP_CHLD]
  \* where the shell is
  pc,         \* the operation in progress
  cur,        \* position in the job table or in the pipeline
  pipe,       \* pids of the foreground pipeline
  anyStopped, \* any_stopped of arksh_platform_run_process_pipeline
  anyFailed,  \* some entry of its stage_exit_codes is not 0
  status      \* shell->last_status

kernel == <<pst, note, code, grp, nextPid>>
table  == <<jobs, capacity, nextJobId>>
call   == <<cur, pipe, anyStopped, anyFailed>>
vars   == <<pst, note, code, grp, nextPid, ttyFg, jobs, capacity, nextJobId,
            chldPending, pc, cur, pipe, anyStopped, anyFailed, status>>

-----------------------------------------------------------------------------
(* Types *)

Pids      == 1 .. MaxProcs
NoPid     == 0
ShellPgid == 0
StopCode  == 148                      \* 128 + SIGTSTP
Codes     == ExitCodes \cup {0, 1, StopCode}

PStates   == {"none", "run", "stop", "zombie", "gone"}
Notes     == {"none", "stopped", "continued"}
JobStates == {"running", "stopped", "done"}

\* idle: reading a line; next: between two commands of a line; prune and
\* spawn: inside `cmd &`; fgResume and fgWait: inside fg; bgResume: inside bg; waitAll, waitOne: inside wait;
\* capture, pipe: inside a foreground pipeline; fire, refresh: fire_pending_traps at the end of
\* arksh_shell_execute_line; replFire, replRefresh: the same call at the head
\* of the REPL's loop; dead: the shell wrote outside its job array.
PCs       == {"idle", "next", "prune", "spawn", "fgResume", "fgWait", "bgResume",
              "waitAll", "waitOne", "capture", "pipe", "fire", "refresh", "replFire", "replRefresh", "dead"}

\* ArkshJob.  The field child is a ghost: the process the entry was made for,
\* kept after process.pid is zeroed.
Job == [id : Nat \ {0}, state : JobStates, exit_code : Codes,
        pid : Pids \cup {NoPid}, pgid : Pids \cup {NoPid}, child : Pids]

-----------------------------------------------------------------------------
(* The kernel *)

Alive(p) == pst[p] \in {"run", "stop"}

\* Mutant: WUNTRACED is not asked for.
WaitableDead(p) == pst[p] = "zombie"

\* waitpid(p, WUNTRACED) has something to report
Waitable(p) == pst[p] = "zombie" \/ note[p] = "stopped"

\* waitpid reported on the children in P: the dead ones are reaped, the
\* notifications of the others are read.
Consumed(P) ==
  /\ pst'  = [p \in Pids |-> IF p \in P /\ pst[p] = "zombie" THEN "gone" ELSE pst[p]]
  /\ note' = [p \in Pids |-> IF p \in P THEN "none" ELSE note[p]]

\* kill(-g, SIGCONT)
ContinueGroup(g) ==
  LET woken == {p \in Pids : grp[p] = g /\ pst[p] = "stop"}
  IN  /\ pst'  = [p \in Pids |-> IF p \in woken THEN "run" ELSE pst[p]]
      /\ note' = [p \in Pids |-> IF p \in woken THEN "continued" ELSE note[p]]
      /\ chldPending' = (chldPending \/ woken # {})

\* A child exits or is killed.
ChildExits(p, c) ==
  /\ Alive(p)
  /\ pst' = [pst EXCEPT ![p] = "zombie"]
  /\ note' = [note EXCEPT ![p] = "none"]
  /\ code' = [code EXCEPT ![p] = c]
  /\ chldPending' = TRUE
  /\ UNCHANGED <<grp, nextPid, ttyFg, table, pc, call, status>>

\* The group g is stopped: by Ctrl-Z when it owns the terminal, by SIGTTIN or
\* an explicit SIGSTOP when it does not.
GroupStops(g) ==
  LET hit == {p \in Pids : grp[p] = g /\ pst[p] = "run"}
  IN
  /\ hit # {}
  /\ pst'  = [p \in Pids |-> IF p \in hit THEN "stop" ELSE pst[p]]
  /\ note' = [p \in Pids |-> IF p \in hit THEN "stopped" ELSE note[p]]
  /\ chldPending' = TRUE
  /\ UNCHANGED <<code, grp, nextPid, ttyFg, table, pc, call, status>>

\* Someone other than the shell continues the group g.
GroupContinues(g) ==
  /\ \E p \in Pids : grp[p] = g /\ pst[p] = "stop"
  /\ ContinueGroup(g)
  /\ UNCHANGED <<code, grp, nextPid, ttyFg, table, pc, call, status>>

\* n children are forked into one process group, led by the first.
Fork(n) ==
  LET new == nextPid .. nextPid + n - 1
  IN
  /\ nextPid + n - 1 <= MaxProcs
  /\ pst' = [p \in Pids |-> IF p \in new THEN "run" ELSE pst[p]]
  /\ grp' = [p \in Pids |-> IF p \in new THEN nextPid ELSE grp[p]]
  /\ nextPid' = nextPid + n

\* Mutant: SIGTTOU is not ignored, so taking the terminal back fails.
SetForegroundTtou(g) == IF g = ShellPgid THEN UNCHANGED ttyFg ELSE ttyFg' = g

\* set_foreground_pgrp_safely
SetForeground(g) == ttyFg' = g

-----------------------------------------------------------------------------
(* The job table *)

\* Mutant: the exit status is not copied to the entry.
FinishedOnly(j, c) == [j EXCEPT !.state = "done", !.pid = NoPid, !.pgid = NoPid]

\* What arksh_shell_refresh_jobs makes of an entry with the answer of
\* arksh_platform_poll_background_process.
Finished(j, c) == [j EXCEPT !.state = "done", !.exit_code = c, !.pid = NoPid, !.pgid = NoPid]

\* Mutant: ECHILD is an error that leaves the entry as it is.
PolledKeepsGone(j) ==
  IF j.state = "done" THEN j
  ELSE IF pst[j.pid] = "zombie" THEN Finished(j, code[j.pid])
  ELSE IF note[j.pid] = "stopped" THEN [j EXCEPT !.state = "stopped", !.exit_code = StopCode]
  ELSE IF note[j.pid] = "continued" THEN [j EXCEPT !.state = "running"]
  ELSE j

\* Mutant: WCONTINUED is read but not acted on.
PolledNoContinue(j) ==
  IF j.state = "done" THEN j
  ELSE IF pst[j.pid] = "gone" THEN Finished(j, 0)
  ELSE IF pst[j.pid] = "zombie" THEN Finished(j, code[j.pid])
  ELSE IF note[j.pid] = "stopped" THEN [j EXCEPT !.state = "stopped", !.exit_code = StopCode]
  ELSE j

Polled(j) ==
  IF j.state = "done" THEN j
  ELSE IF pst[j.pid] = "gone" THEN Finished(j, 0)                 \* ECHILD
  ELSE IF pst[j.pid] = "zombie" THEN Finished(j, code[j.pid])
  ELSE IF note[j.pid] = "stopped" THEN [j EXCEPT !.state = "stopped", !.exit_code = StopCode]
  ELSE IF note[j.pid] = "continued" THEN [j EXCEPT !.state = "running"]
  ELSE j

Refreshed  == [i \in DOMAIN jobs |-> Polled(jobs[i])]
PolledPids == {jobs[i].pid : i \in {k \in DOMAIN jobs : jobs[k].state # "done"}}

\* arksh_shell_refresh_jobs.  The polls of different children commute with
\* each other and with what the children do meanwhile, so they are one step.
Refresh == Consumed(PolledPids) /\ UNCHANGED <<code, grp, nextPid>>

\* remove_job_at
RemoveAt(s, i) == [k \in 1 .. Len(s) - 1 |-> IF k < i THEN s[k] ELSE s[k + 1]]

\* The last entry of s in one of the states S; 0 when there is none.
LastIn(s, S) ==
  LET I == {i \in DOMAIN s : s[i].state \in S}
  IN  IF I = {} THEN 0 ELSE CHOOSE i \in I : \A k \in I : k <= i

\* find_default_job: the last stopped job, else the last running one.
DefaultJob(s) ==
  IF LastIn(s, {"stopped"}) # 0 THEN LastIn(s, {"stopped"}) ELSE LastIn(s, {"running"})

\* find_job_by_id; 0 when there is none
IndexOfId(s, id) ==
  LET I == {i \in DOMAIN s : s[i].id = id}
  IN  IF I = {} THEN 0 ELSE CHOOSE i \in I : \A k \in I : i <= k

\* The job that the argument of fg or bg names; 0 stands for "no argument".
Lookup(s, arg) == IF arg = 0 THEN DefaultJob(s) ELSE IndexOfId(s, arg)

\* Mutant: the array is not grown.
NotGrown(cap, required) == cap

\* grow_heap_array: doubling from FirstCapacity, clipped to MaxJobs.  One
\* doubling is enough: required is at most one more than the capacity.
Grown(cap, required) ==
  LET start == IF cap = 0 THEN FirstCapacity ELSE cap
      next  == IF start >= required THEN start ELSE 2 * start
  IN  IF cap >= required THEN cap ELSE IF next > MaxJobs THEN MaxJobs ELSE next

\* Mutant: the next number is one more than the number of entries.
NewJobByCount(state, p, g) ==
  [id |-> Len(jobs) + 1, state |-> state, exit_code |-> 0, pid |-> p, pgid |-> g, child |-> p]

\* The entry written for a new job.
NewJob(state, p, g) ==
  [id |-> nextJobId, state |-> state, exit_code |-> 0, pid |-> p, pgid |-> g, child |-> p]

-----------------------------------------------------------------------------
(* The commands.  Each one starts at the prompt or after another command of *)
(* the same line.                                                           *)

Command == pc \in {"idle", "next"}

\* The locals of the operation in progress
Locals(c, p, stopped, failed) ==
  cur' = c /\ pipe' = p /\ anyStopped' = stopped /\ anyFailed' = failed

NoLocals == Locals(0, <<>>, FALSE, FALSE)

\* The command ends with status s.
Return(s) == pc' = "next" /\ status' = s /\ NoLocals

OneUnless0(c) == IF c = 0 THEN 0 ELSE 1

\* `cmd &`: arksh_shell_start_background_job refreshes the table and, when it
\* is full, prunes it.
StartBackground ==
  /\ Command
  /\ Refresh
  /\ jobs' = Refreshed
  /\ pc' = IF Len(jobs) >= MaxJobs THEN "prune" ELSE "spawn"
  /\ Locals(1, <<>>, FALSE, FALSE)
  /\ UNCHANGED <<ttyFg, capacity, nextJobId, chldPending, status>>

\* Mutant: stopped jobs are pruned too.
NotRunning(j) == j.state # "running"

\* prune_completed_jobs: the test, and one round of its loop
Completed(j) == j.state = "done"

PruneStep ==
  /\ pc = "prune"
  /\ cur <= Len(jobs)
  /\ \/ /\ Completed(jobs[cur])
        /\ jobs' = RemoveAt(jobs, cur)
        /\ UNCHANGED cur
     \/ /\ ~ Completed(jobs[cur])
        /\ cur' = cur + 1
        /\ UNCHANGED jobs
  /\ UNCHANGED <<kernel, ttyFg, capacity, nextJobId, chldPending, pc,
                 pipe, anyStopped, anyFailed, status>>

PruneEnds ==
  /\ pc = "prune"
  /\ cur > Len(jobs)
  /\ pc' = "spawn"
  /\ UNCHANGED <<kernel, ttyFg, table, chldPending, call, status>>

\* The child is forked and entered ...
Spawn ==
  /\ pc = "spawn"
  /\ Len(jobs) < MaxJobs
  /\ Fork(1)
  /\ capacity' = Grown(capacity, Len(jobs) + 1)
  /\ jobs' = Append(jobs, NewJob("running", nextPid, nextPid))
  /\ nextJobId' = nextJobId + 1
  /\ Return(0)
  /\ UNCHANGED <<note, code, ttyFg, chldPending>>

\* ... or the table is still full, or fork fails.
SpawnFails ==
  /\ pc = "spawn"
  /\ Return(1)
  /\ UNCHANGED <<kernel, ttyFg, table, chldPending>>

\* `jobs`
ListJobs ==
  /\ Command
  /\ Refresh
  /\ jobs' = Refreshed
  /\ Return(0)
  /\ UNCHANGED <<ttyFg, capacity, nextJobId, chldPending>>

\* `fg [%n]` up to the resume
Foreground(arg) ==
  /\ Command
  /\ Refresh
  /\ jobs' = Refreshed
  /\ LET i == Lookup(Refreshed, arg)
     IN  \/ /\ i = 0                                    \* job not found
            /\ Return(1)
         \/ /\ i # 0
            /\ Refreshed[i].state = "done"              \* already completed
            /\ Return(OneUnless0(Refreshed[i].exit_code))
         \/ /\ i # 0
            /\ Refreshed[i].state # "done"
            /\ pc' = "fgResume"
            /\ Locals(i, <<>>, FALSE, FALSE)
            /\ UNCHANGED status
  /\ UNCHANGED <<ttyFg, capacity, nextJobId, chldPending>>

\* `bg [%n]` up to the resume
Background(arg) ==
  /\ Command
  /\ Refresh
  /\ jobs' = Refreshed
  /\ LET i == Lookup(Refreshed, arg)
     IN  \/ /\ IF i = 0 THEN TRUE ELSE Refreshed[i].state = "done"
            /\ Return(1)
         \/ /\ i # 0
            /\ Refreshed[i].state = "running"
            /\ Return(0)
         \/ /\ i # 0
            /\ Refreshed[i].state = "stopped"
            /\ pc' = "bgResume"
            /\ Locals(i, <<>>, FALSE, FALSE)
            /\ UNCHANGED status
  /\ UNCHANGED <<ttyFg, capacity, nextJobId, chldPending>>

\* arksh_platform_resume_background_process(&job->process, 1, ...)
ForegroundResume ==
  /\ pc = "fgResume"
  /\ SetForeground(jobs[cur].pgid)
  /\ ContinueGroup(jobs[cur].pgid)
  /\ pc' = "fgWait"
  /\ UNCHANGED <<code, grp, nextPid, table, call, status>>

\* arksh_platform_resume_background_process(&job->process, 0, ...)
BackgroundResume ==
  /\ pc = "bgResume"
  /\ ContinueGroup(jobs[cur].pgid)
  /\ jobs' = [jobs EXCEPT ![cur].state = "running"]
  /\ Return(0)
  /\ UNCHANGED <<code, grp, nextPid, ttyFg, capacity, nextJobId>>

\* The resume fails: the terminal is the shell's again and the entry is kept.
ResumeFails ==
  /\ pc \in {"fgResume", "bgResume"}
  /\ Return(1)
  /\ UNCHANGED <<kernel, ttyFg, table, chldPending>>

\* arksh_platform_wait_background_process(&job->process, 1, ...) and the rest
\* of command_fg
ForegroundWait ==
  LET p == jobs[cur].pid
  IN
  /\ pc = "fgWait"
  /\ Waitable(p)
  /\ Consumed({p})
  /\ SetForeground(ShellPgid)
  /\ \/ /\ pst[p] = "stop"
        /\ jobs' = [jobs EXCEPT ![cur].state = "stopped", ![cur].exit_code = StopCode]
        /\ Return(1)
     \/ /\ pst[p] = "zombie"
        /\ jobs' = RemoveAt(jobs, cur)
        /\ Return(OneUnless0(code[p]))
  /\ UNCHANGED <<code, grp, nextPid, capacity, nextJobId, chldPending>>

\* `wait`
WaitAll ==
  /\ Command
  /\ Refresh
  /\ jobs' = Refreshed
  /\ pc' = "waitAll"
  /\ Locals(1, <<>>, FALSE, FALSE)
  /\ status' = 0
  /\ UNCHANGED <<ttyFg, capacity, nextJobId, chldPending>>

\* `wait %n`
WaitOne(id) ==
  /\ Command
  /\ Refresh
  /\ jobs' = Refreshed
  /\ LET i == IndexOfId(Refreshed, id)
     IN  \/ i = 0 /\ Return(1)
         \/ i # 0 /\ pc' = "waitOne" /\ Locals(i, <<>>, FALSE, FALSE) /\ UNCHANGED status
  /\ UNCHANGED <<ttyFg, capacity, nextJobId, chldPending>>

\* wait_for_job_at leaves the entry cur in place ...
WaitKeeps ==
  \/ pc = "waitOne" /\ Return(1)
  \/ /\ pc = "waitAll"
     /\ status' = 1
     /\ Locals(cur + 1, <<>>, FALSE, FALSE)
     /\ UNCHANGED pc

\* ... or removes it and returns c.
WaitRemoves(c) ==
  /\ jobs' = RemoveAt(jobs, cur)
  /\ \/ pc = "waitOne" /\ Return(c)
     \/ pc = "waitAll" /\ status' = c /\ UNCHANGED <<pc, call>>

\* wait_for_job_at on the entry cur
WaitForJob ==
  /\ pc \in {"waitAll", "waitOne"}
  /\ cur <= Len(jobs)
  /\ LET j == jobs[cur]
     IN  \/ /\ j.state = "done"
            /\ WaitRemoves(j.exit_code)
            /\ UNCHANGED <<pst, note>>
         \/ /\ j.state = "stopped"
            /\ WaitKeeps
            /\ UNCHANGED <<pst, note, jobs>>
         \/ /\ j.state = "running"
            /\ note[j.pid] = "stopped"
            /\ Waitable(j.pid)
            /\ Consumed({j.pid})
            /\ jobs' = [jobs EXCEPT ![cur].state = "stopped", ![cur].exit_code = StopCode]
            /\ WaitKeeps
         \/ /\ j.state = "running"
            /\ pst[j.pid] = "zombie"
            /\ Consumed({j.pid})
            /\ WaitRemoves(code[j.pid])
  /\ UNCHANGED <<code, grp, nextPid, ttyFg, capacity, nextJobId, chldPending>>

\* `wait` reached the end of the table.
WaitAllEnds ==
  /\ pc = "waitAll"
  /\ cur > Len(jobs)
  /\ Return(status)
  /\ UNCHANGED <<kernel, ttyFg, table, chldPending>>

-----------------------------------------------------------------------------
(* A foreground pipeline: arksh_platform_run_process_pipeline under         *)
(* execute_shell_pipeline or arksh_execute_external_command                 *)

\* The n stages are forked and given the terminal.  Under force_capture the
\* shell first reads their output to its end.
StartPipeline(n, capture) ==
  /\ Command
  /\ Fork(n)
  /\ SetForeground(nextPid)
  /\ Locals(1, [k \in 1 .. n |-> nextPid + k - 1], FALSE, FALSE)
  /\ pc' = IF capture THEN "capture" ELSE "pipe"
  /\ UNCHANGED <<note, code, table, chldPending, status>>

\* pipe() or fork() fails after n stages: the call returns at once, without
\* waiting for them and without having given them the terminal.
PipelineForkFails(n) ==
  /\ Command
  /\ Fork(n)
  /\ Return(1)
  /\ UNCHANGED <<note, code, ttyFg, table, chldPending>>

\* read_fd_to_buffer returns: the last stage closed its output, or SIGWINCH,
\* whose handler is installed without SA_RESTART, interrupted the read.
CaptureEnds ==
  /\ pc = "capture"
  /\ pst[pipe[Len(pipe)]] = "zombie"
  /\ pc' = "pipe"
  /\ UNCHANGED <<kernel, ttyFg, table, chldPending, call, status>>

CaptureInterrupted ==
  /\ pc = "capture"
  /\ pc' = "pipe"
  /\ UNCHANGED <<kernel, ttyFg, table, chldPending, call, status>>

\* Mutant: the status of a stage that exited is not collected.
StageStopped(p) == pst[p] = "stop"

\* stage_exit_codes[i] is not 0
StageFailed(p) == pst[p] = "stop" \/ code[p] # 0

\* waitpid on a stage that is not the last
PipelineWaitStage ==
  LET p == pipe[cur]
  IN
  /\ pc = "pipe"
  /\ cur < Len(pipe)
  /\ Waitable(p)
  /\ Consumed({p})
  /\ anyStopped' = (anyStopped \/ pst[p] = "stop")
  /\ anyFailed' = (anyFailed \/ StageFailed(p))
  /\ cur' = cur + 1
  /\ UNCHANGED <<code, grp, nextPid, ttyFg, table, chldPending, pc, pipe, status>>

\* The last stage, and what the caller does with the result.  A stopped
\* pipeline is written to jobs[job_count] without growing the array: beyond
\* the capacity that write is outside the allocation, and the shell is lost.
PipelineEnds ==
  LET p       == pipe[cur]
      stopped == anyStopped \/ pst[p] = "stop"
      failed  == code[p] # 0 \/ (Pipefail /\ anyFailed)
  IN
  /\ pc = "pipe"
  /\ cur = Len(pipe)
  /\ Waitable(p)
  /\ Consumed({p})
  /\ SetForeground(ShellPgid)
  /\ \/ /\ ~ stopped
        /\ Return(IF failed THEN 1 ELSE 0)
        /\ UNCHANGED <<jobs, nextJobId>>
     \/ /\ stopped
        /\ Len(jobs) >= MaxJobs                         \* not recorded at all
        /\ Return(0)
        /\ UNCHANGED <<jobs, nextJobId>>
     \/ /\ stopped
        /\ Len(jobs) < MaxJobs
        /\ Len(jobs) < capacity
        /\ jobs' = Append(jobs, NewJob("stopped", p, grp[p]))
        /\ nextJobId' = nextJobId + 1
        /\ Return(1)
     \/ /\ stopped
        /\ Len(jobs) < MaxJobs
        /\ Len(jobs) >= capacity
        /\ pc' = "dead"
        /\ NoLocals
        /\ UNCHANGED <<jobs, nextJobId, status>>
  /\ UNCHANGED <<code, grp, nextPid, capacity, chldPending>>

-----------------------------------------------------------------------------
(* Between commands *)

\* The line has no further command: arksh_shell_execute_line goes on to its
\* fire_pending_traps.
LineEnds ==
  /\ pc = "next"
  /\ pc' = "fire"
  /\ UNCHANGED <<kernel, ttyFg, table, chldPending, call, status>>

\* A line with nothing to execute: the REPL goes round once.
EmptyLine ==
  /\ pc = "idle"
  /\ pc' = "replFire"
  /\ UNCHANGED <<kernel, ttyFg, table, chldPending, call, status>>

\* fire_pending_traps clears the SIGCHLD flag ...
FireClear ==
  /\ pc \in {"fire", "replFire"}
  /\ pc' = IF pc = "fire" THEN IF chldPending THEN "refresh" ELSE "replFire"
                          ELSE IF chldPending THEN "replRefresh" ELSE "idle"
  /\ chldPending' = FALSE
  /\ UNCHANGED <<kernel, ttyFg, table, call, status>>

\* ... and then refreshes the job table.
FireRefresh ==
  /\ pc \in {"refresh", "replRefresh"}
  /\ Refresh
  /\ jobs' = Refreshed
  /\ pc' = IF pc = "refresh" THEN "replFire" ELSE "idle"
  /\ UNCHANGED <<ttyFg, capacity, nextJobId, chldPending, call, status>>

-----------------------------------------------------------------------------
Init ==
  /\ pst  = [p \in Pids |-> "none"]
  /\ note = [p \in Pids |-> "none"]
  /\ code = [p \in Pids |-> 0]
  /\ grp  = [p \in Pids |-> NoPid]
  /\ nextPid = 1
  /\ ttyFg = ShellPgid
  /\ jobs = <<>>
  /\ capacity = 0
  /\ nextJobId = 1
  /\ chldPending = FALSE
  /\ pc = "idle"
  /\ cur = 0
  /\ pipe = <<>>
  /\ anyStopped = FALSE
  /\ anyFailed = FALSE
  /\ status = 0

\* What the user types.  Job ids never exceed the number of children.
Commands ==
  \/ StartBackground
  \/ ListJobs
  \/ \E arg \in 0 .. MaxProcs : Foreground(arg)
  \/ \E arg \in 0 .. MaxProcs : Background(arg)
  \/ WaitAll
  \/ \E id \in Pids : WaitOne(id)
  \/ \E n \in 1 .. MaxStages, capture \in BOOLEAN : StartPipeline(n, capture)
  \/ \E n \in 0 .. MaxStages - 1 : PipelineForkFails(n)
  \/ EmptyLine

\* What the shell does by itself.
Shell ==
  \/ PruneStep
  \/ PruneEnds
  \/ Spawn
  \/ SpawnFails
  \/ ForegroundResume
  \/ BackgroundResume
  \/ ForegroundWait
  \/ WaitForJob
  \/ WaitAllEnds
  \/ CaptureEnds
  \/ PipelineWaitStage
  \/ PipelineEnds
  \/ FireClear
  \/ FireRefresh

\* What may go wrong, or end a line, at any time.
Chance == ResumeFails \/ CaptureInterrupted \/ LineEnds

Children ==
  \/ \E p \in Pids, c \in ExitCodes : ChildExits(p, c)
  \/ \E g \in Pids : GroupStops(g)
  \/ \E g \in Pids : GroupContinues(g)

Next == Commands \/ Shell \/ Chance \/ Children

Spec == Init /\ [][Next]_vars

-----------------------------------------------------------------------------
(* Fairness.  The shell does not stop between two blocking calls; a line    *)
(* has finitely many commands; a child that keeps getting to run ends.      *)

Fairness ==
  /\ WF_vars(Shell)
  /\ SF_vars(LineEnds)
  /\ \A p \in Pids : SF_vars(pst[p] = "run" /\ \E c \in ExitCodes : ChildExits(p, c))

FairSpec == Spec /\ Fairness

-----------------------------------------------------------------------------
(* Invariants *)

\* Types, and the bounds of the job array (grow_heap_array, shell.c:209).
TypeOK ==
  /\ pst \in [Pids -> PStates]
  /\ note \in [Pids -> Notes]
  /\ code \in [Pids -> Codes]
  /\ grp \in [Pids -> Pids \cup {NoPid}]
  /\ nextPid \in 1 .. MaxProcs + 1
  /\ ttyFg \in Pids \cup {ShellPgid}
  /\ jobs \in Seq(Job)
  /\ capacity \in 0 .. MaxJobs
  /\ Len(jobs) <= capacity
  /\ nextJobId \in Nat \ {0}
  /\ chldPending \in BOOLEAN
  /\ pc \in PCs
  /\ cur \in Nat
  /\ pipe \in Seq(Pids)
  /\ anyStopped \in BOOLEAN
  /\ anyFailed \in BOOLEAN
  /\ status \in Codes

\* Job numbers ascend along the table and stay below the next one to give
\* out, whatever was removed in between, so %n names at most one job and never
\* a different one later; and no two entries hold the same live process
\* (shell.c:7791, shell.c:8041).
IdsAscend ==
  /\ \A i \in DOMAIN jobs : jobs[i].id < nextJobId
  /\ \A i, k \in DOMAIN jobs : i < k => jobs[i].id < jobs[k].id /\ jobs[i].child # jobs[k].child

\* The terminal belongs to the group the shell is waiting for, and to the
\* shell itself in every other state: no path out of fg or of a pipeline keeps
\* it (platform.c:1930, platform.c:1996, platform.c:2250).
TtyOwner ==
  ttyFg = CASE pc = "fgWait"               -> jobs[cur].pgid
            [] pc \in {"capture", "pipe"}  -> grp[pipe[1]]
            [] OTHER                       -> ShellPgid

\* The children a blocking waitpid of the shell is, or will be, called on.
Awaited ==
  CASE pc \in {"fgResume", "fgWait"}      -> {jobs[cur].pid}
    [] pc \in {"capture", "pipe"}         -> {pipe[k] : k \in cur .. Len(pipe)}
    [] pc \in {"waitAll", "waitOne"}      ->
         {jobs[i].pid : i \in {k \in DOMAIN jobs : k >= cur /\ jobs[k].state = "running"}}
    [] OTHER                              -> {}

\* The shell never blocks for good on a child whose end it has already reaped
\* or whose stop it has already been told about: such a waitpid fails with
\* ECHILD or never returns (platform.c:1953, platform.c:2246, shell.c:7917).
NeverStuck ==
  \A p \in Awaited :
    CASE pst[p] = "stop" -> note[p] = "stopped" \/ pc = "fgResume"
      [] OTHER           -> pst[p] \in {"run", "zombie"}

\* No notification is lost: while no SIGCHLD is pending and no refresh is
\* due, every entry whose process still exists shows what that process is
\* doing, although notifications are read in six different places
\* (shell.c:7946, shell.c:8276).
TableExact ==
  (~ chldPending /\ pc \notin {"refresh", "replRefresh"}) =>
    \A i \in DOMAIN jobs :
      LET j == jobs[i]
      IN  (j.state # "done" /\ pst[j.pid] # "gone") =>
            pst[j.pid] = IF j.state = "running" THEN "run" ELSE "stop"

\* A done entry whose process led its own group (every `&` job, and a stopped
\* pipeline of one stage) holds that process's exit status, whichever of
\* jobs, fg, wait, `&` or the SIGCHLD flag saw it end (platform.c:2186).
ExitStatusKept ==
  \A i \in DOMAIN jobs :
    LET j == jobs[i]
    IN  (j.state = "done" /\ grp[j.child] = j.child) =>
          pst[j.child] = "gone" /\ j.exit_code = code[j.child]

-----------------------------------------------------------------------------
(* Action properties *)

InTable(n, s) == \E i \in DOMAIN s : s[i].id = n

\* An entry leaves the table only after its process has ended, and when a wait
\* removes the entry of a process that led its group, its status is that
\* process's exit status (shell.c:7791, shell.c:7906, shell.c:7937).
ForgetsOnlyTheDead ==
  [][\A i \in DOMAIN jobs :
       ~ InTable(jobs[i].id, jobs') =>
         /\ pst[jobs[i].child] \in {"zombie", "gone"}
         /\ (pc \in {"waitAll", "waitOne"} /\ grp[jobs[i].child] = jobs[i].child)
              => status' = code[jobs[i].child]]_vars

\* A pipeline that ends without a stop reports failure exactly when its last
\* stage failed or, under pipefail, when any stage failed, although the
\* statuses of the stages are collected one blocking wait at a time
\* (platform.c:1969, executor.c:6075).
PipelineStatus ==
  [][(pc = "pipe" /\ pc' = "next" /\ Len(jobs') = Len(jobs)
      /\ ~ anyStopped /\ \A k \in DOMAIN pipe : pst'[pipe[k]] = "gone") =>
       (status' # 0 <=> \E k \in DOMAIN pipe :
                          code[pipe[k]] # 0 /\ (Pipefail \/ k = Len(pipe)))]_vars

-----------------------------------------------------------------------------
(* Liveness *)

\* The one blocking call a stop does not end: the read of a captured output.
BlockedCapture == pc = "capture" /\ pst[pipe[Len(pipe)]] = "stop"

\* Every command gives the prompt back, whatever its children do, unless it is
\* reading the output of a stopped pipeline (platform.c:1936) or the shell is
\* lost (shell.c:9942 to 10204, executor.c:5902).
PromptReturns == (pc # "idle") ~> (pc \in {"idle", "dead"} \/ BlockedCapture)

-----------------------------------------------------------------------------
(* The life of a job, as JobLifecycle tells it *)

LifeOf(n) ==
  IF n >= nextJobId THEN "unborn"
  ELSE IF InTable(n, jobs) THEN jobs[IndexOfId(jobs, n)].state
  ELSE "forgotten"

Lifecycle == INSTANCE JobLifecycle WITH Ids <- Pids, life <- [n \in Pids |-> LifeOf(n)]

\* The job table implements JobLifecycle: numbers are given out once and in
\* order, and no refresh, resume or removal brings a job back once it is done
\* (shell.c:7791 to 8060, executor.c:6064).
JobsLive == Lifecycle!LSpec

-----------------------------------------------------------------------------
(* What the documentation says *)

\* docs/backlog-implementazione.md:313: Ctrl-Z stops the pipeline and adds it
\* to jobs as stopped (executor.c:6064).
StoppedIsListed ==
  [][(pc = "pipe" /\ pc' # "pipe" /\ \E k \in DOMAIN pipe : pst'[pipe[k]] = "stop") =>
       \E i \in DOMAIN jobs' : jobs'[i].state = "stopped" /\ jobs'[i].child = pipe[Len(pipe)]]_vars
=============================================================================
