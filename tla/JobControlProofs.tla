-------------------------- MODULE JobControlProofs --------------------------
(***************************************************************************)
(* Proofs about JobControl, for every number of children, jobs, stages and  *)
(* every set of exit codes: the type invariant; from it and the             *)
(* strengthenings that follow, the order of the table, the terminal and the *)
(* waits; then what the table says about the children, its removals and the *)
(* pipeline's result; then the refinement of JobLifecycle.                  *)
(***************************************************************************)
EXTENDS JobControl, Positions, SequenceTheorems, WellFoundedInduction, TLAPS

-----------------------------------------------------------------------------
(* The inductive invariant *)

\* An entry that is not done holds the process it was made for and that
\* process's group.
EntryIn(j, g, np, nj) ==
  /\ j.id < nj
  /\ j.child < np
  /\ j.state # "done" => j.pid = j.child /\ j.pgid = g[j.child] /\ g[j.child] \in Pids

EntryOK(j) == EntryIn(j, grp, nextPid, nextJobId)

EntriesOK == \A i \in 1 .. Len(jobs) : EntryOK(jobs[i])

\* The locals of the operation in progress point into the table or the
\* pipeline they came from.
LocalsOK ==
  /\ pc \in {"fgResume", "fgWait", "bgResume"} =>
       cur \in 1 .. Len(jobs) /\ jobs[cur].state # "done"
  /\ pc = "waitOne" => cur \in 1 .. Len(jobs)
  /\ pc \in {"waitAll", "prune"} => cur >= 1
  /\ pc \in {"capture", "pipe"} =>
       /\ cur \in 1 .. Len(pipe)
       /\ \A k \in 1 .. Len(pipe) : pipe[k] < nextPid /\ grp[pipe[k]] \in Pids

Inv == TypeOK /\ EntriesOK /\ LocalsOK

-----------------------------------------------------------------------------
(* Lemmas about the helpers *)

\* Neither the shell nor no process is a child.
LEMMA PidsFacts == Pids \subseteq Nat /\ NoPid \notin Pids /\ ShellPgid \notin Pids
BY BoundsAssumption DEF Pids, NoPid, ShellPgid

\* The statuses the code names are statuses.
LEMMA CodesFacts == 0 \in Codes /\ 1 \in Codes /\ StopCode \in Codes /\ ExitCodes \subseteq Codes
BY CodesAssumption DEF Codes

\* The length, the numbers and the processes of the entries survive a refresh.
LEMMA RefreshedFacts ==
  ASSUME TypeOK, EntriesOK
  PROVE  /\ Refreshed \in Seq(Job)
         /\ Len(Refreshed) = Len(jobs)
         /\ \A i \in 1 .. Len(jobs) : /\ Refreshed[i] = Polled(jobs[i])
                                      /\ Refreshed[i].id = jobs[i].id
                                      /\ Refreshed[i].child = jobs[i].child
                                      /\ EntryOK(Refreshed[i])
<1>1. jobs \in Seq(Job) /\ Len(jobs) \in Nat /\ DOMAIN jobs = 1 .. Len(jobs)
  BY LenProperties DEF TypeOK
<1>2. ASSUME NEW i \in 1 .. Len(jobs)
      PROVE  /\ Polled(jobs[i]) \in Job
             /\ Polled(jobs[i]).id = jobs[i].id
             /\ Polled(jobs[i]).child = jobs[i].child
             /\ EntryOK(Polled(jobs[i]))
  <2>1. jobs[i] \in Job /\ EntryOK(jobs[i])
    BY <1>1, ElementOfSeq DEF EntriesOK, EntryOK, EntryIn
  <2>2. CASE jobs[i].state = "done"
    BY <2>1, <2>2 DEF Polled
  <2>3. CASE jobs[i].state # "done"
    <3>1. jobs[i].pid \in Pids /\ code[jobs[i].pid] \in Codes
      BY <2>1, <2>3 DEF EntryOK, EntryIn, Job, TypeOK
    <3>2. \/ \E c \in Codes : Polled(jobs[i]) = Finished(jobs[i], c)
          \/ Polled(jobs[i]) = [jobs[i] EXCEPT !.state = "stopped", !.exit_code = StopCode]
          \/ Polled(jobs[i]) = [jobs[i] EXCEPT !.state = "running"]
          \/ Polled(jobs[i]) = jobs[i]
      BY <3>1, <2>3, CodesFacts DEF Polled
    <3>3. QED
      BY <3>2, <2>1, <2>3, CodesFacts DEF Finished, Job, JobStates, EntryOK, EntryIn, NoPid
  <2>4. QED
    BY <2>2, <2>3
<1>3. Refreshed = [i \in 1 .. Len(jobs) |-> Polled(jobs[i])]
  BY <1>1 DEF Refreshed
<1>4. Refreshed \in Seq(Job) /\ Len(Refreshed) = Len(jobs)
  BY <1>1, <1>2, <1>3
<1>5. QED
  BY <1>2, <1>3, <1>4

\* Removing an entry keeps the others, in order.
LEMMA RemoveAtFacts ==
  ASSUME NEW s \in Seq(Job), NEW i \in 1 .. Len(s)
  PROVE  /\ RemoveAt(s, i) \in Seq(Job)
         /\ Len(RemoveAt(s, i)) = Len(s) - 1
         /\ \A k \in 1 .. Len(s) - 1 :
              RemoveAt(s, i)[k] = IF k < i THEN s[k] ELSE s[k + 1]
<1>1. Len(s) \in Nat /\ Len(s) - 1 \in Nat
  BY LenProperties
<1>2. \A k \in 1 .. Len(s) - 1 : (IF k < i THEN s[k] ELSE s[k + 1]) \in Job
  BY <1>1, ElementOfSeq
<1>3. QED
  BY <1>1, <1>2 DEF RemoveAt

\* ensure_jobs_capacity makes room for one more entry and stops at the limit.
LEMMA GrownFacts ==
  ASSUME NEW cap \in 0 .. MaxJobs, NEW n \in 1 .. MaxJobs, n <= cap + 1
  PROVE  Grown(cap, n) \in n .. MaxJobs
BY BoundsAssumption DEF Grown

\* A job number or the default leads to an entry of the table or to 0.
LEMMA LookupFacts ==
  ASSUME NEW s \in Seq(Job), NEW arg
  PROVE  /\ Lookup(s, arg) = 0 \/ Lookup(s, arg) \in 1 .. Len(s)
         /\ IndexOfId(s, arg) = 0 \/ IndexOfId(s, arg) \in 1 .. Len(s)
<1>0. Len(s) \in Nat /\ DOMAIN s = 1 .. Len(s)
  BY LenProperties
<1>1. ASSUME NEW S PROVE LastIn(s, S) = 0 \/ LastIn(s, S) \in 1 .. Len(s)
  <2> DEFINE I == {i \in DOMAIN s : s[i].state \in S}
  <2>1. CASE I = {}
    BY <2>1 DEF LastIn
  <2>2. CASE I # {}
    <3>1. I \subseteq 1 .. Len(s)
      BY <1>0
    <3>2. \E i \in I : \A k \in I : k <= i
      BY <1>0, <2>2, <3>1, Extremes
    <3>3. (CHOOSE i \in I : \A k \in I : k <= i) \in I
      BY <3>2
    <3>4. QED
      BY <3>1, <3>3, <2>2 DEF LastIn
  <2>3. QED
    BY <2>1, <2>2
<1>2. IndexOfId(s, arg) = 0 \/ IndexOfId(s, arg) \in 1 .. Len(s)
  <2> DEFINE I == {i \in DOMAIN s : s[i].id = arg}
  <2>1. CASE I = {}
    BY <2>1 DEF IndexOfId
  <2>2. CASE I # {}
    <3>1. I \subseteq 1 .. Len(s)
      BY <1>0
    <3>2. \E i \in I : \A k \in I : i <= k
      BY <1>0, <2>2, <3>1, Extremes
    <3>3. (CHOOSE i \in I : \A k \in I : i <= k) \in I
      BY <3>2
    <3>4. QED
      BY <3>1, <3>3, <2>2 DEF IndexOfId
  <2>3. QED
    BY <2>1, <2>2
<1>3. QED
  BY <1>1, <1>2 DEF Lookup, DefaultJob

-----------------------------------------------------------------------------
(* The invariant holds initially and is preserved by every step *)

\* The table starts empty and unallocated.
LEMMA InitInv == Init => Inv
<1> SUFFICES ASSUME Init PROVE Inv
  OBVIOUS
<1>1. TypeOK
  <2>1. jobs \in Seq(Job) /\ Len(jobs) = 0 /\ pipe \in Seq(Pids)
    BY EmptySeq DEF Init
  <2>2. /\ pst \in [Pids -> PStates] /\ note \in [Pids -> Notes]
        /\ code \in [Pids -> Codes] /\ grp \in [Pids -> Pids \cup {NoPid}]
    BY CodesFacts DEF Init, PStates, Notes
  <2>3. nextPid \in 1 .. MaxProcs + 1 /\ capacity \in 0 .. MaxJobs /\ nextJobId \in Nat \ {0}
    BY BoundsAssumption DEF Init
  <2>4. ttyFg \in Pids \cup {ShellPgid} /\ pc \in PCs /\ cur \in Nat /\ status \in Codes
    BY CodesFacts DEF Init, PCs
  <2>5. chldPending \in BOOLEAN /\ anyStopped \in BOOLEAN /\ anyFailed \in BOOLEAN
    BY DEF Init
  <2>6. Len(jobs) <= capacity
    BY <2>1 DEF Init
  <2>7. QED
    BY <2>1, <2>2, <2>3, <2>4, <2>5, <2>6 DEF TypeOK
<1>2. EntriesOK /\ LocalsOK
  BY EmptySeq DEF Init, EntriesOK, LocalsOK
<1>3. QED
  BY <1>1, <1>2 DEF Inv

\* What every refreshing command does to the table and the children.
LEMMA RefreshStep ==
  ASSUME Inv, Refresh, jobs' = Refreshed, UNCHANGED <<capacity, nextJobId>>
  PROVE  /\ pst' \in [Pids -> PStates] /\ note' \in [Pids -> Notes]
         /\ code' = code /\ grp' = grp /\ nextPid' = nextPid
         /\ jobs' \in Seq(Job) /\ Len(jobs') = Len(jobs) /\ Len(jobs') <= capacity'
         /\ EntriesOK'
<1>1. pst' \in [Pids -> PStates] /\ note' \in [Pids -> Notes]
  BY DEF Refresh, Consumed, Inv, TypeOK, PStates, Notes
<1>2. jobs' \in Seq(Job) /\ Len(jobs') = Len(jobs) /\ Len(jobs') <= capacity'
  BY RefreshedFacts DEF Inv, TypeOK
<1>3. EntriesOK'
  BY RefreshedFacts DEF Inv, EntriesOK, EntryOK, EntryIn, Refresh
<1>4. QED
  BY <1>1, <1>2, <1>3 DEF Refresh

\* Removing the entry at cur keeps the table well formed.
LEMMA RemoveStep ==
  ASSUME Inv, cur \in 1 .. Len(jobs), jobs' = RemoveAt(jobs, cur),
         UNCHANGED <<capacity, nextJobId, nextPid, grp>>
  PROVE  jobs' \in Seq(Job) /\ Len(jobs') = Len(jobs) - 1 /\ Len(jobs') <= capacity' /\ EntriesOK'
<1>1. jobs \in Seq(Job) /\ Len(jobs) \in Nat /\ capacity \in Nat /\ Len(jobs) <= capacity
  BY LenProperties, BoundsAssumption DEF Inv, TypeOK
<1>2. /\ jobs' \in Seq(Job) /\ Len(jobs') = Len(jobs) - 1
      /\ \A k \in 1 .. Len(jobs) - 1 : jobs'[k] = IF k < cur THEN jobs[k] ELSE jobs[k + 1]
  BY <1>1, RemoveAtFacts
<1>3. EntriesOK'
  BY <1>1, <1>2 DEF Inv, EntriesOK, EntryOK, EntryIn
<1>4. QED
  BY <1>1, <1>2, <1>3

\* Changing the state of the entry at cur keeps the table well formed.
LEMMA ExceptStep ==
  ASSUME Inv, cur \in 1 .. Len(jobs), jobs[cur].state # "done",
         NEW st \in {"running", "stopped"}, NEW c \in Codes,
         jobs' = [jobs EXCEPT ![cur] = [jobs[cur] EXCEPT !.state = st, !.exit_code = c]],
         UNCHANGED <<capacity, nextJobId, nextPid, grp>>
  PROVE  jobs' \in Seq(Job) /\ Len(jobs') = Len(jobs) /\ Len(jobs') <= capacity' /\ EntriesOK'
<1>1. jobs \in Seq(Job) /\ Len(jobs) \in Nat /\ Len(jobs) <= capacity
  BY LenProperties DEF Inv, TypeOK
<1>2. [jobs[cur] EXCEPT !.state = st, !.exit_code = c] \in Job
  <2>1. jobs[cur] \in Job
    BY <1>1, ElementOfSeq
  <2>2. QED
    BY <2>1 DEF Job, JobStates
<1>3. /\ jobs' \in Seq(Job) /\ Len(jobs') = Len(jobs)
      /\ \A j \in 1 .. Len(jobs) :
           jobs'[j] = IF j = cur THEN [jobs[cur] EXCEPT !.state = st, !.exit_code = c] ELSE jobs[j]
  BY <1>1, <1>2, ExceptSeq
<1>4. EntriesOK'
  <2>1. SUFFICES ASSUME NEW i \in 1 .. Len(jobs) PROVE EntryIn(jobs'[i], grp', nextPid', nextJobId')
    BY <1>3 DEF EntriesOK, EntryOK
  <2>2. EntryOK(jobs[i]) /\ jobs[i] \in Job
    BY <1>1, ElementOfSeq DEF Inv, EntriesOK
  <2>3. QED
    BY <1>3, <2>2 DEF EntryOK, EntryIn, Job
<1>5. QED
  BY <1>1, <1>3, <1>4

\* A new entry at the end of the table.
LEMMA AppendStep ==
  ASSUME Inv, NEW st \in {"running", "stopped"}, NEW p \in Pids,
         jobs' = Append(jobs, NewJob(st, p, grp'[p])), nextJobId' = nextJobId + 1,
         nextPid' \in Nat, p < nextPid', nextPid' >= nextPid, grp'[p] \in Pids,
         \A q \in Pids : q < nextPid => grp'[q] = grp[q],
         Len(jobs) + 1 <= capacity'
  PROVE  jobs' \in Seq(Job) /\ Len(jobs') = Len(jobs) + 1 /\ Len(jobs') <= capacity' /\ EntriesOK'
<1>1. jobs \in Seq(Job) /\ Len(jobs) \in Nat /\ nextJobId \in Nat \ {0} /\ nextPid \in Nat
  BY LenProperties, BoundsAssumption DEF Inv, TypeOK
<1>2. NewJob(st, p, grp'[p]) \in Job
  BY <1>1, CodesFacts DEF NewJob, Job, JobStates
<1>3. /\ jobs' \in Seq(Job) /\ Len(jobs') = Len(jobs) + 1
      /\ \A j \in 1 .. Len(jobs) + 1 :
           jobs'[j] = IF j <= Len(jobs) THEN jobs[j] ELSE NewJob(st, p, grp'[p])
  BY <1>1, <1>2, AppendProperties
<1>4. EntriesOK'
  <2>1. SUFFICES ASSUME NEW i \in 1 .. Len(jobs) + 1 PROVE EntryIn(jobs'[i], grp', nextPid', nextJobId')
    BY <1>3 DEF EntriesOK, EntryOK
  <2>2. CASE i <= Len(jobs)
    <3>1. EntryOK(jobs[i]) /\ jobs[i] \in Job
      BY <1>1, <2>2, ElementOfSeq DEF Inv, EntriesOK
    <3>2. jobs'[i] = jobs[i]
      BY <1>3, <2>2
    <3>3. jobs[i].child \in Pids /\ jobs[i].child < nextPid /\ jobs[i].id \in Nat
      BY <3>1 DEF EntryOK, EntryIn, Job
    <3>4. grp'[jobs[i].child] = grp[jobs[i].child]
      BY <3>3
    <3>5. jobs[i].child < nextPid' /\ jobs[i].id < nextJobId'
      <4>1. jobs[i].child \in Nat
        BY <3>3, PidsFacts
      <4>2. jobs[i].id < nextJobId
        BY <3>1 DEF EntryOK, EntryIn
      <4>3. QED
        BY <1>1, <3>3, <4>1, <4>2
    <3>6. QED
      BY <3>1, <3>2, <3>4, <3>5 DEF EntryOK, EntryIn
  <2>3. CASE ~ (i <= Len(jobs))
    BY <1>1, <1>3, <2>3, PidsFacts DEF EntryOK, EntryIn, NewJob
  <2>4. QED
    BY <2>2, <2>3
<1>5. QED
  BY <1>3, <1>4

\* fork gives the new children, and no old one, their group.
LEMMA ForkStep ==
  ASSUME Inv, NEW n \in Nat, Fork(n)
  PROVE  /\ pst' \in [Pids -> PStates] /\ grp' \in [Pids -> Pids \cup {NoPid}]
         /\ nextPid' \in 1 .. MaxProcs + 1 /\ nextPid' = nextPid + n
         /\ \A q \in Pids : q < nextPid => grp'[q] = grp[q]
         /\ \A q \in Pids : nextPid <= q /\ q < nextPid' => grp'[q] = nextPid
         /\ n > 0 => nextPid \in Pids
<1>1. nextPid \in Nat /\ nextPid >= 1 /\ nextPid <= MaxProcs + 1 /\ MaxProcs \in Nat
  BY BoundsAssumption DEF Inv, TypeOK
<1>2. nextPid + n <= MaxProcs + 1 /\ nextPid' = nextPid + n
  BY <1>1 DEF Fork
<1>3. pst' \in [Pids -> PStates]
  BY DEF Fork, Inv, TypeOK, PStates
<1>4. n > 0 => nextPid \in Pids
  BY <1>1, <1>2 DEF Pids
<1>5. grp' \in [Pids -> Pids \cup {NoPid}]
  BY <1>1, <1>2, <1>4 DEF Fork, Inv, TypeOK, Pids
<1>6. QED
  BY <1>1, <1>2, <1>3, <1>4, <1>5 DEF Fork, Pids

\* New children do not disturb the entries of old ones.
LEMMA ForkKeepsEntries ==
  ASSUME Inv, NEW n \in Nat, Fork(n), UNCHANGED <<jobs, nextJobId>>
  PROVE  EntriesOK'
<1>1. SUFFICES ASSUME NEW i \in 1 .. Len(jobs)
               PROVE  EntryIn(jobs[i], grp', nextPid', nextJobId)
  BY DEF EntriesOK, EntryOK
<1>2. jobs[i] \in Job /\ EntryOK(jobs[i])
  BY ElementOfSeq DEF Inv, TypeOK, EntriesOK
<1>3. jobs[i].child \in Pids /\ jobs[i].child \in Nat /\ jobs[i].child < nextPid
  BY <1>2, PidsFacts DEF EntryOK, EntryIn, Job
<1>4. nextPid \in Nat /\ nextPid' \in Nat /\ nextPid <= nextPid'
  BY ForkStep, BoundsAssumption DEF Inv, TypeOK
<1>5. grp'[jobs[i].child] = grp[jobs[i].child]
  BY <1>3, ForkStep
<1>6. QED
  BY <1>2, <1>3, <1>4, <1>5 DEF EntryOK, EntryIn

\* The ends of a command: an empty set of locals.
LEMMA ReturnStep ==
  ASSUME NEW c \in Codes, Return(c)
  PROVE  /\ pc' \in PCs /\ status' \in Codes /\ cur' \in Nat /\ pipe' \in Seq(Pids)
         /\ anyStopped' \in BOOLEAN /\ anyFailed' \in BOOLEAN
         /\ LocalsOK'
BY EmptySeq DEF Return, NoLocals, Locals, PCs, LocalsOK

\* Reading notifications keeps the types of the children.
LEMMA ConsumedStep ==
  ASSUME Inv, NEW Q, Consumed(Q)
  PROVE  pst' \in [Pids -> PStates] /\ note' \in [Pids -> Notes]
BY DEF Consumed, Inv, TypeOK, PStates, Notes

\* SIGCONT to a group resumes its stopped members.
LEMMA ContinueStep ==
  ASSUME Inv, NEW g, ContinueGroup(g)
  PROVE  /\ pst' \in [Pids -> PStates] /\ note' \in [Pids -> Notes]
         /\ chldPending' \in BOOLEAN
<1>1. pst' \in [Pids -> PStates] /\ note' \in [Pids -> Notes]
  BY DEF ContinueGroup, Inv, TypeOK, PStates, Notes
<1>2. chldPending' \in BOOLEAN
  BY DEF ContinueGroup, Inv, TypeOK
<1>3. QED
  BY <1>1, <1>2

\* Steps that leave the table, the groups and the counters alone keep every entry right.
LEMMA SameEntries ==
  ASSUME EntriesOK, UNCHANGED <<jobs, grp, nextPid, nextJobId>>
  PROVE  EntriesOK'
BY DEF EntriesOK, EntryOK, EntryIn

\* One case for each action.
LEMMA NextInv == Inv /\ [Next]_vars => Inv'
<1> SUFFICES ASSUME Inv, [Next]_vars PROVE Inv'
  OBVIOUS
<1> USE PidsFacts, CodesFacts
<1>a. jobs \in Seq(Job) /\ Len(jobs) \in Nat /\ Len(jobs) <= capacity /\ capacity \in 0 .. MaxJobs
  BY LenProperties DEF Inv, TypeOK
<1>b. MaxJobs \in Nat /\ MaxProcs \in Nat /\ nextPid \in Nat
  BY BoundsAssumption DEF Inv, TypeOK
<1>1. CASE StartBackground
  <2>1. TypeOK'
    BY <1>1, RefreshStep, EmptySeq DEF StartBackground, Inv, TypeOK, PCs, Locals
  <2>2. LocalsOK'
    BY <1>1 DEF StartBackground, LocalsOK, Locals
  <2>3. QED
    BY <1>1, <2>1, <2>2, RefreshStep DEF Inv, StartBackground
<1>2. CASE PruneStep
  <2>1. CASE jobs' = RemoveAt(jobs, cur) /\ UNCHANGED cur
    <3>1. cur \in 1 .. Len(jobs)
      BY <1>2, <1>a DEF PruneStep, Inv, LocalsOK, TypeOK
    <3>2. jobs' \in Seq(Job) /\ Len(jobs') <= capacity' /\ EntriesOK'
      BY <1>2, <2>1, <3>1, RemoveStep DEF PruneStep, kernel
    <3>3. QED
      BY <1>2, <2>1, <3>2 DEF PruneStep, Inv, TypeOK, LocalsOK, kernel
  <2>2. CASE UNCHANGED jobs /\ cur' = cur + 1
    BY <1>2, <2>2 DEF PruneStep, Inv, TypeOK, EntriesOK, EntryOK, EntryIn, LocalsOK, kernel
  <2>3. QED
    BY <1>2, <2>1, <2>2 DEF PruneStep
<1>3. CASE PruneEnds
  <2>1. TypeOK'
    BY <1>3 DEF PruneEnds, Inv, TypeOK, PCs, kernel, table, call
  <2>2. EntriesOK'
    BY <1>3, SameEntries DEF PruneEnds, Inv, kernel, table
  <2>3. LocalsOK'
    BY <1>3 DEF PruneEnds, LocalsOK
  <2>4. QED
    BY <2>1, <2>2, <2>3 DEF Inv
<1>4. CASE Spawn
  <2>1. Fork(1) /\ 1 \in Nat
    BY <1>4 DEF Spawn
  <2>2. /\ nextPid \in Pids /\ nextPid' = nextPid + 1 /\ grp'[nextPid] = nextPid
        /\ \A q \in Pids : q < nextPid => grp'[q] = grp[q]
    BY <1>b, <2>1, ForkStep
  <2>3. capacity' \in 0 .. MaxJobs /\ Len(jobs) + 1 <= capacity'
    <3>1. Len(jobs) + 1 \in 1 .. MaxJobs /\ Len(jobs) + 1 <= capacity + 1
      BY <1>4, <1>a, <1>b DEF Spawn
    <3>2. Grown(capacity, Len(jobs) + 1) \in Len(jobs) + 1 .. MaxJobs
      BY <1>a, <3>1, GrownFacts
    <3>3. QED
      BY <1>4, <1>a, <1>b, <3>2 DEF Spawn
  <2>4. jobs' \in Seq(Job) /\ Len(jobs') <= capacity' /\ EntriesOK'
    BY <1>4, <1>b, <2>2, <2>3, AppendStep DEF Spawn
  <2>5. TypeOK'
    <3>1. nextJobId' \in Nat \ {0}
      BY <1>4 DEF Spawn, Inv, TypeOK
    <3>2. pst' \in [Pids -> PStates] /\ grp' \in [Pids -> Pids \cup {NoPid}]
          /\ nextPid' \in 1 .. MaxProcs + 1
      BY <2>1, ForkStep
    <3>3. QED
      BY <1>4, <2>3, <2>4, <3>1, <3>2, ReturnStep DEF Spawn, Inv, TypeOK
  <2>6. QED
    BY <1>4, <2>4, <2>5, ReturnStep DEF Spawn, Inv
<1>5. CASE SpawnFails
  <2>1. EntriesOK'
    BY <1>5, SameEntries DEF SpawnFails, Inv, kernel, table
  <2>2. QED
    BY <1>5, <2>1, ReturnStep DEF SpawnFails, Inv, TypeOK, kernel, table
<1>6. CASE ListJobs
  <2>1. TypeOK'
    BY <1>6, RefreshStep, ReturnStep DEF ListJobs, Inv, TypeOK
  <2>2. QED
    BY <1>6, <2>1, RefreshStep, ReturnStep DEF Inv, ListJobs
<1>7. ASSUME NEW arg \in 0 .. MaxProcs, Foreground(arg) PROVE Inv'
  <2> DEFINE i == Lookup(Refreshed, arg)
  <2>1. /\ pst' \in [Pids -> PStates] /\ note' \in [Pids -> Notes]
        /\ code' = code /\ grp' = grp /\ nextPid' = nextPid
        /\ jobs' \in Seq(Job) /\ Len(jobs') <= capacity' /\ EntriesOK'
    BY <1>7, RefreshStep DEF Foreground
  <2>2. i = 0 \/ i \in 1 .. Len(jobs')
    BY <1>7, <2>1, LookupFacts DEF Foreground
  <2>3. CASE \E c \in Codes : Return(c)
    BY <1>7, <2>1, <2>3, ReturnStep DEF Foreground, Inv, TypeOK
  <2>4. CASE i # 0 /\ Refreshed[i].state # "done" /\ pc' = "fgResume"
             /\ Locals(i, <<>>, FALSE, FALSE) /\ UNCHANGED status
    <3>1. LocalsOK'
      BY <1>7, <2>2, <2>4 DEF Foreground, LocalsOK, Locals
    <3>2. TypeOK'
      <4>1. i \in Nat
        BY <2>1, <2>2, LenProperties
      <4>2. /\ cur' \in Nat /\ pipe' \in Seq(Pids) /\ pc' \in PCs
            /\ anyStopped' \in BOOLEAN /\ anyFailed' \in BOOLEAN
        BY <2>4, <4>1, EmptySeq DEF Locals, PCs
      <4>3. QED
        BY <1>7, <2>1, <2>4, <4>2 DEF Foreground, Inv, TypeOK
    <3>3. QED
      BY <2>1, <3>1, <3>2 DEF Inv
  <2>5. QED
    BY <1>7, <2>3, <2>4 DEF Foreground, OneUnless0
<1>8. ASSUME NEW arg \in 0 .. MaxProcs, Background(arg) PROVE Inv'
  <2> DEFINE i == Lookup(Refreshed, arg)
  <2>1. /\ pst' \in [Pids -> PStates] /\ note' \in [Pids -> Notes]
        /\ code' = code /\ grp' = grp /\ nextPid' = nextPid
        /\ jobs' \in Seq(Job) /\ Len(jobs') <= capacity' /\ EntriesOK'
    BY <1>8, RefreshStep DEF Background
  <2>2. i = 0 \/ i \in 1 .. Len(jobs')
    BY <1>8, <2>1, LookupFacts DEF Background
  <2>3. CASE \E c \in Codes : Return(c)
    BY <1>8, <2>1, <2>3, ReturnStep DEF Background, Inv, TypeOK
  <2>4. CASE i # 0 /\ Refreshed[i].state = "stopped" /\ pc' = "bgResume"
             /\ Locals(i, <<>>, FALSE, FALSE) /\ UNCHANGED status
    <3>1. LocalsOK'
      BY <1>8, <2>2, <2>4 DEF Background, LocalsOK, Locals
    <3>2. TypeOK'
      <4>1. i \in Nat
        BY <2>1, <2>2, LenProperties
      <4>2. /\ cur' \in Nat /\ pipe' \in Seq(Pids) /\ pc' \in PCs
            /\ anyStopped' \in BOOLEAN /\ anyFailed' \in BOOLEAN
        BY <2>4, <4>1, EmptySeq DEF Locals, PCs
      <4>3. QED
        BY <1>8, <2>1, <2>4, <4>2 DEF Background, Inv, TypeOK
    <3>3. QED
      BY <2>1, <3>1, <3>2 DEF Inv
  <2>5. QED
    BY <1>8, <2>3, <2>4 DEF Background
<1>9. CASE ForegroundResume
  <2>1. cur \in 1 .. Len(jobs) /\ jobs[cur].state # "done" /\ jobs[cur].pgid \in Pids
    BY <1>9 DEF ForegroundResume, Inv, LocalsOK, EntriesOK, EntryOK, EntryIn
  <2>2. TypeOK'
    BY <1>9, <2>1, ContinueStep DEF ForegroundResume, SetForeground, Inv, TypeOK, PCs, table, call
  <2>3. EntriesOK' /\ LocalsOK'
    <3>1. EntriesOK'
      BY <1>9, SameEntries DEF ForegroundResume, Inv, table
    <3>2. LocalsOK'
      BY <1>9 DEF ForegroundResume, Inv, LocalsOK, table, call
    <3>3. QED
      BY <2>1, <3>1, <3>2 DEF Inv
  <2>4. QED
    BY <2>2, <2>3 DEF Inv
<1>10. CASE BackgroundResume
  <2>1. cur \in 1 .. Len(jobs) /\ jobs[cur].state # "done"
    BY <1>10 DEF BackgroundResume, Inv, LocalsOK
  <2>2. jobs[cur] \in Job
    BY <2>1, ElementOfSeq DEF Inv, TypeOK
  <2>3. jobs' = [jobs EXCEPT ![cur] = [jobs[cur] EXCEPT !.state = "running",
                                                        !.exit_code = jobs[cur].exit_code]]
    BY <1>10, <2>1, <2>2 DEF BackgroundResume, Job
  <2>4. jobs' \in Seq(Job) /\ Len(jobs') <= capacity' /\ EntriesOK'
    BY <1>10, <2>1, <2>2, <2>3, ExceptStep DEF BackgroundResume, Job
  <2>5. TypeOK'
    BY <1>10, <2>4, ContinueStep, ReturnStep DEF BackgroundResume, Inv, TypeOK
  <2>6. QED
    BY <1>10, <2>4, <2>5, ReturnStep DEF BackgroundResume, Inv
<1>11. CASE ResumeFails
  <2>1. EntriesOK'
    BY <1>11, SameEntries DEF ResumeFails, Inv, kernel, table
  <2>2. QED
    BY <1>11, <2>1, ReturnStep DEF ResumeFails, Inv, TypeOK, kernel, table
<1>12. CASE ForegroundWait
  <2>1. cur \in 1 .. Len(jobs) /\ jobs[cur].state # "done" /\ jobs[cur].pid \in Pids
    <3>1. cur \in 1 .. Len(jobs) /\ jobs[cur].state # "done"
      BY <1>12 DEF ForegroundWait, Inv, LocalsOK
    <3>2. jobs[cur] \in Job /\ EntryOK(jobs[cur])
      BY <1>a, <3>1, ElementOfSeq DEF Inv, EntriesOK
    <3>3. QED
      BY <3>1, <3>2 DEF EntryOK, EntryIn, Job
  <2>2. pst' \in [Pids -> PStates] /\ note' \in [Pids -> Notes]
    BY <1>12, ConsumedStep DEF ForegroundWait
  <2>3. ttyFg' = ShellPgid
    BY <1>12 DEF ForegroundWait, SetForeground
  <2>4. CASE jobs' = [jobs EXCEPT ![cur].state = "stopped", ![cur].exit_code = StopCode] /\ Return(1)
    <3>1. jobs' = [jobs EXCEPT ![cur] = [jobs[cur] EXCEPT !.state = "stopped", !.exit_code = StopCode]]
      BY <2>4
    <3>2. jobs' \in Seq(Job) /\ Len(jobs') <= capacity' /\ EntriesOK'
      BY <1>12, <2>1, <3>1, ExceptStep DEF ForegroundWait
    <3>3. QED
      BY <1>12, <2>2, <2>3, <2>4, <3>2, ReturnStep DEF ForegroundWait, Inv, TypeOK
  <2>5. CASE jobs' = RemoveAt(jobs, cur) /\ Return(OneUnless0(code[jobs[cur].pid]))
    <3>1. jobs' \in Seq(Job) /\ Len(jobs') <= capacity' /\ EntriesOK'
      BY <1>12, <2>1, <2>5, RemoveStep DEF ForegroundWait
    <3>2. OneUnless0(code[jobs[cur].pid]) \in Codes
      BY DEF OneUnless0
    <3>3. QED
      BY <1>12, <2>2, <2>3, <2>5, <3>1, <3>2, ReturnStep DEF ForegroundWait, Inv, TypeOK
  <2>6. QED
    BY <1>12, <2>4, <2>5 DEF ForegroundWait
<1>13. CASE WaitAll
  <2>1. TypeOK'
    BY <1>13, RefreshStep, EmptySeq DEF WaitAll, Inv, TypeOK, PCs, Locals
  <2>2. LocalsOK'
    BY <1>13 DEF WaitAll, LocalsOK, Locals
  <2>3. QED
    BY <1>13, <2>1, <2>2, RefreshStep DEF Inv, WaitAll
<1>14. ASSUME NEW id \in Pids, WaitOne(id) PROVE Inv'
  <2> DEFINE i == IndexOfId(Refreshed, id)
  <2>1. /\ pst' \in [Pids -> PStates] /\ note' \in [Pids -> Notes]
        /\ code' = code /\ grp' = grp /\ nextPid' = nextPid
        /\ jobs' \in Seq(Job) /\ Len(jobs') <= capacity' /\ EntriesOK'
    BY <1>14, RefreshStep DEF WaitOne
  <2>2. i = 0 \/ i \in 1 .. Len(jobs')
    BY <1>14, <2>1, LookupFacts DEF WaitOne
  <2>3. CASE Return(1)
    BY <1>14, <2>1, <2>3, ReturnStep DEF WaitOne, Inv, TypeOK
  <2>4. CASE i # 0 /\ pc' = "waitOne" /\ Locals(i, <<>>, FALSE, FALSE) /\ UNCHANGED status
    <3>1. LocalsOK'
      BY <1>14, <2>2, <2>4 DEF WaitOne, LocalsOK, Locals
    <3>2. TypeOK'
      <4>1. i \in Nat
        BY <2>1, <2>2, LenProperties
      <4>2. /\ cur' \in Nat /\ pipe' \in Seq(Pids) /\ pc' \in PCs
            /\ anyStopped' \in BOOLEAN /\ anyFailed' \in BOOLEAN
        BY <2>4, <4>1, EmptySeq DEF Locals, PCs
      <4>3. QED
        BY <1>14, <2>1, <2>4, <4>2 DEF WaitOne, Inv, TypeOK
    <3>3. QED
      BY <2>1, <3>1, <3>2 DEF Inv
  <2>5. QED
    BY <1>14, <2>3, <2>4 DEF WaitOne
<1>15. CASE WaitForJob
  <2>1. cur \in 1 .. Len(jobs) /\ pc \in {"waitAll", "waitOne"}
    BY <1>15, <1>a DEF WaitForJob, Inv, LocalsOK, TypeOK
  <2>2. jobs[cur] \in Job /\ EntryOK(jobs[cur])
    BY <1>a, <2>1, ElementOfSeq DEF Inv, EntriesOK
  <2>3. jobs[cur].exit_code \in Codes
        /\ (jobs[cur].state # "done" => jobs[cur].pid \in Pids /\ code[jobs[cur].pid] \in Codes)
    BY <2>2 DEF Job, EntryOK, EntryIn, Inv, TypeOK
  <2>4. pst' \in [Pids -> PStates] /\ note' \in [Pids -> Notes]
    BY <1>15, ConsumedStep DEF WaitForJob, Inv, TypeOK
  <2>5. ASSUME WaitKeeps
        PROVE  /\ pc' \in PCs /\ status' \in Codes /\ cur' \in Nat /\ pipe' \in Seq(Pids)
               /\ anyStopped' \in BOOLEAN /\ anyFailed' \in BOOLEAN
               /\ LocalsOK'
    <3>1. CASE Return(1)
      BY <3>1, ReturnStep
    <3>2. CASE pc = "waitAll" /\ status' = 1 /\ Locals(cur + 1, <<>>, FALSE, FALSE) /\ UNCHANGED pc
      <4>1. cur + 1 \in Nat /\ cur + 1 >= 1 /\ <<>> \in Seq(Pids)
        BY <2>1, EmptySeq DEF Inv, TypeOK
      <4>2. pc' = "waitAll" /\ cur' = cur + 1 /\ pipe' = <<>> /\ ~ anyStopped' /\ ~ anyFailed'
            /\ anyStopped' \in BOOLEAN /\ anyFailed' \in BOOLEAN
        BY <3>2 DEF Locals
      <4>3. LocalsOK'
        BY <4>1, <4>2 DEF LocalsOK
      <4>4. QED
        BY <3>2, <4>1, <4>2, <4>3 DEF PCs
    <3>3. QED
      BY <2>5, <3>1, <3>2 DEF WaitKeeps
  <2>6. ASSUME NEW c \in Codes, WaitRemoves(c), UNCHANGED <<capacity, nextJobId, nextPid, grp>>
        PROVE  /\ pc' \in PCs /\ status' \in Codes /\ cur' \in Nat /\ pipe' \in Seq(Pids)
               /\ anyStopped' \in BOOLEAN /\ anyFailed' \in BOOLEAN
               /\ LocalsOK'
               /\ jobs' \in Seq(Job) /\ Len(jobs') <= capacity' /\ EntriesOK'
    <3>1. jobs' \in Seq(Job) /\ Len(jobs') <= capacity' /\ EntriesOK'
      BY <2>1, <2>6, RemoveStep DEF WaitRemoves
    <3>2. CASE Return(c)
      BY <3>1, <3>2, ReturnStep
    <3>3. CASE pc = "waitAll" /\ status' = c /\ UNCHANGED <<pc, call>>
      BY <2>1, <3>1, <3>3 DEF Inv, TypeOK, LocalsOK, call
    <3>4. QED
      BY <2>6, <3>2, <3>3 DEF WaitRemoves
  <2>7. CASE jobs[cur].state = "done" /\ WaitRemoves(jobs[cur].exit_code)
    BY <1>15, <2>3, <2>4, <2>6, <2>7 DEF WaitForJob, Inv, TypeOK
  <2>8. CASE UNCHANGED jobs /\ WaitKeeps
    <3>1. EntriesOK'
      BY <1>15, <2>8 DEF WaitForJob, Inv, EntriesOK, EntryOK, EntryIn
    <3>2. QED
      BY <1>15, <2>4, <2>5, <2>8, <3>1 DEF WaitForJob, Inv, TypeOK
  <2>9. CASE /\ jobs[cur].state = "running"
             /\ jobs' = [jobs EXCEPT ![cur].state = "stopped", ![cur].exit_code = StopCode]
             /\ WaitKeeps
    <3>1. jobs' = [jobs EXCEPT ![cur] = [jobs[cur] EXCEPT !.state = "stopped", !.exit_code = StopCode]]
      BY <2>9
    <3>2. jobs' \in Seq(Job) /\ Len(jobs') <= capacity' /\ EntriesOK'
      BY <1>15, <2>1, <2>9, <3>1, ExceptStep DEF WaitForJob
    <3>3. QED
      BY <1>15, <2>4, <2>5, <2>9, <3>2 DEF WaitForJob, Inv, TypeOK
  <2>10. CASE jobs[cur].state = "running" /\ WaitRemoves(code[jobs[cur].pid])
    BY <1>15, <2>3, <2>4, <2>6, <2>10 DEF WaitForJob, Inv, TypeOK
  <2>11. QED
    BY <1>15, <2>7, <2>8, <2>9, <2>10 DEF WaitForJob
<1>16. CASE WaitAllEnds
  <2>1. status \in Codes
    BY DEF Inv, TypeOK
  <2>2. EntriesOK'
    BY <1>16, SameEntries DEF WaitAllEnds, Inv, kernel, table
  <2>3. QED
    BY <1>16, <2>1, <2>2, ReturnStep DEF WaitAllEnds, Inv, TypeOK, kernel, table
<1>17. ASSUME NEW n \in 1 .. MaxStages, NEW capture \in BOOLEAN, StartPipeline(n, capture)
       PROVE  Inv'
  <2> DEFINE new == [k \in 1 .. n |-> nextPid + k - 1]
  <2>1. Fork(n) /\ n \in Nat /\ n > 0
    BY <1>17, BoundsAssumption DEF StartPipeline
  <2>2. /\ pst' \in [Pids -> PStates] /\ grp' \in [Pids -> Pids \cup {NoPid}]
        /\ nextPid' \in 1 .. MaxProcs + 1 /\ nextPid' = nextPid + n /\ nextPid \in Pids
        /\ \A q \in Pids : nextPid <= q /\ q < nextPid' => grp'[q] = nextPid
    BY <2>1, ForkStep
  <2>3. \A k \in 1 .. n : new[k] \in Pids /\ new[k] < nextPid' /\ nextPid <= new[k]
    BY <1>b, <2>1, <2>2 DEF Pids
  <2>4. new \in Seq(Pids) /\ Len(new) = n
    BY <2>1, <2>3
  <2>5. pipe' = new /\ cur' = 1 /\ anyStopped' = FALSE /\ anyFailed' = FALSE
        /\ pc' \in {"capture", "pipe"}
    BY <1>17 DEF StartPipeline, Locals
  <2>6. LocalsOK'
    <3>1. \A k \in 1 .. Len(new) : new[k] < nextPid' /\ grp'[new[k]] \in Pids
      BY <2>2, <2>3, <2>4
    <3>2. QED
      BY <2>1, <2>4, <2>5, <3>1 DEF LocalsOK
  <2>7. TypeOK'
    <3>1. pc' \in PCs /\ cur' \in Nat /\ pipe' \in Seq(Pids)
          /\ anyStopped' \in BOOLEAN /\ anyFailed' \in BOOLEAN
      BY <2>4, <2>5 DEF PCs
    <3>2. ttyFg' \in Pids \cup {ShellPgid}
      BY <1>17, <2>2 DEF StartPipeline, SetForeground
    <3>3. QED
      BY <1>17, <2>2, <3>1, <3>2 DEF StartPipeline, Inv, TypeOK, table
  <2>8. EntriesOK'
    BY <1>17, <2>1, ForkKeepsEntries DEF StartPipeline, table
  <2>9. QED
    BY <2>6, <2>7, <2>8 DEF Inv
<1>18. ASSUME NEW n \in 0 .. MaxStages - 1, PipelineForkFails(n) PROVE Inv'
  <2>1. Fork(n) /\ n \in Nat
    BY <1>18, BoundsAssumption DEF PipelineForkFails
  <2>2. /\ pst' \in [Pids -> PStates] /\ grp' \in [Pids -> Pids \cup {NoPid}]
        /\ nextPid' \in 1 .. MaxProcs + 1
    BY <2>1, ForkStep
  <2>3. EntriesOK'
    BY <1>18, <2>1, ForkKeepsEntries DEF PipelineForkFails, table
  <2>4. QED
    BY <1>18, <2>2, <2>3, ReturnStep DEF PipelineForkFails, Inv, TypeOK, table
<1>19. CASE CaptureEnds \/ CaptureInterrupted
  <2>1. TypeOK'
    BY <1>19 DEF CaptureEnds, CaptureInterrupted, Inv, TypeOK, PCs, kernel, table, call
  <2>2. EntriesOK'
    BY <1>19, SameEntries DEF CaptureEnds, CaptureInterrupted, Inv, kernel, table, call
  <2>3. LocalsOK'
    BY <1>19 DEF CaptureEnds, CaptureInterrupted, Inv, LocalsOK, kernel, table, call
  <2>4. QED
    BY <2>1, <2>2, <2>3 DEF Inv
<1>20. CASE PipelineWaitStage
  <2>1. pst' \in [Pids -> PStates] /\ note' \in [Pids -> Notes]
    BY <1>20, ConsumedStep DEF PipelineWaitStage
  <2>2. anyStopped' \in BOOLEAN /\ anyFailed' \in BOOLEAN
    BY <1>20 DEF PipelineWaitStage
  <2>3. cur' \in Nat /\ LocalsOK'
    <3>1. Len(pipe) \in Nat /\ cur \in Nat
      BY LenProperties DEF Inv, TypeOK
    <3>2. QED
      BY <1>20, <3>1 DEF PipelineWaitStage, Inv, LocalsOK
  <2>4. EntriesOK'
    BY <1>20, SameEntries DEF PipelineWaitStage, Inv, table
  <2>5. QED
    BY <1>20, <2>1, <2>2, <2>3, <2>4 DEF PipelineWaitStage, Inv, TypeOK, table
<1>21. CASE PipelineEnds
  <2> DEFINE p == pipe[cur]
  <2>1. p \in Pids /\ p < nextPid /\ grp[p] \in Pids
    <3>1. cur \in 1 .. Len(pipe) /\ pipe \in Seq(Pids)
      BY <1>21 DEF PipelineEnds, Inv, LocalsOK, TypeOK
    <3>2. p < nextPid /\ grp[p] \in Pids
      BY <1>21, <3>1 DEF PipelineEnds, Inv, LocalsOK
    <3>3. QED
      BY <3>1, <3>2, ElementOfSeq
  <2>2. /\ pst' \in [Pids -> PStates] /\ note' \in [Pids -> Notes] /\ ttyFg' = ShellPgid
        /\ UNCHANGED <<code, grp, nextPid, capacity, chldPending>>
    BY <1>21, ConsumedStep DEF PipelineEnds, SetForeground
  <2>3. CASE UNCHANGED <<jobs, nextJobId>> /\ \E c \in Codes : Return(c)
    <3>1. EntriesOK'
      BY <2>2, <2>3 DEF Inv, EntriesOK, EntryOK, EntryIn
    <3>2. QED
      BY <2>2, <2>3, <3>1, ReturnStep DEF Inv, TypeOK
  <2>4. CASE /\ Len(jobs) < capacity
             /\ jobs' = Append(jobs, NewJob("stopped", p, grp[p]))
             /\ nextJobId' = nextJobId + 1
             /\ Return(1)
    <3>1. Len(jobs) + 1 <= capacity'
      BY <1>a, <2>2, <2>4
    <3>2. jobs' \in Seq(Job) /\ Len(jobs') <= capacity' /\ EntriesOK'
      BY <1>b, <2>1, <2>2, <2>4, <3>1, AppendStep
    <3>3. nextJobId' \in Nat \ {0}
      BY <2>4 DEF Inv, TypeOK
    <3>4. QED
      BY <2>2, <2>4, <3>2, <3>3, ReturnStep DEF Inv, TypeOK
  <2>5. CASE pc' = "dead" /\ NoLocals /\ UNCHANGED <<jobs, nextJobId, status>>
    <3>1. EntriesOK' /\ LocalsOK'
      BY <2>2, <2>5 DEF Inv, EntriesOK, EntryOK, EntryIn, LocalsOK
    <3>2. cur' \in Nat /\ pipe' \in Seq(Pids) /\ pc' \in PCs
          /\ anyStopped' \in BOOLEAN /\ anyFailed' \in BOOLEAN
      BY <2>5, EmptySeq DEF NoLocals, Locals, PCs
    <3>3. QED
      BY <2>2, <2>5, <3>1, <3>2 DEF Inv, TypeOK
  <2>6. QED
    BY <1>21, <2>3, <2>4, <2>5 DEF PipelineEnds
<1>22. CASE LineEnds \/ EmptyLine
  <2>1. TypeOK'
    BY <1>22 DEF LineEnds, EmptyLine, Inv, TypeOK, PCs, kernel, table, call
  <2>2. EntriesOK'
    BY <1>22, SameEntries DEF LineEnds, EmptyLine, Inv, kernel, table, call
  <2>3. LocalsOK'
    BY <1>22 DEF LineEnds, EmptyLine, Inv, LocalsOK, kernel, table, call
  <2>4. QED
    BY <2>1, <2>2, <2>3 DEF Inv
<1>23. CASE FireClear
  <2>1. TypeOK'
    BY <1>23 DEF FireClear, Inv, TypeOK, PCs, kernel, table, call
  <2>2. EntriesOK'
    BY <1>23, SameEntries DEF FireClear, Inv, kernel, table, call
  <2>3. LocalsOK'
    BY <1>23 DEF FireClear, Inv, LocalsOK, kernel, table, call
  <2>4. QED
    BY <2>1, <2>2, <2>3 DEF Inv
<1>24. CASE FireRefresh
  <2>1. TypeOK'
    BY <1>24, RefreshStep DEF FireRefresh, Inv, TypeOK, PCs, call
  <2>2. LocalsOK'
    BY <1>24 DEF FireRefresh, LocalsOK
  <2>3. QED
    BY <1>24, <2>1, <2>2, RefreshStep DEF Inv, FireRefresh
<1>25. ASSUME NEW p \in Pids, NEW c \in ExitCodes, ChildExits(p, c) PROVE Inv'
  <2>1. pst' \in [Pids -> PStates] /\ note' \in [Pids -> Notes] /\ code' \in [Pids -> Codes]
    BY <1>25 DEF ChildExits, Inv, TypeOK, PStates, Notes
  <2>2. TypeOK'
    BY <1>25, <2>1 DEF ChildExits, Inv, TypeOK, table, call
  <2>3. EntriesOK'
    BY <1>25, SameEntries DEF ChildExits, Inv, table
  <2>4. LocalsOK'
    BY <1>25 DEF ChildExits, Inv, LocalsOK, table, call
  <2>5. QED
    BY <2>2, <2>3, <2>4 DEF Inv
<1>26. ASSUME NEW g \in Pids, GroupStops(g) PROVE Inv'
  <2>1. pst' \in [Pids -> PStates] /\ note' \in [Pids -> Notes]
    BY <1>26 DEF GroupStops, Inv, TypeOK, PStates, Notes
  <2>2. TypeOK'
    BY <1>26, <2>1 DEF GroupStops, Inv, TypeOK, table, call
  <2>3. EntriesOK'
    BY <1>26, SameEntries DEF GroupStops, Inv, table
  <2>4. LocalsOK'
    BY <1>26 DEF GroupStops, Inv, LocalsOK, table, call
  <2>5. QED
    BY <2>2, <2>3, <2>4 DEF Inv
<1>27. ASSUME NEW g \in Pids, GroupContinues(g) PROVE Inv'
  <2>2. TypeOK'
    BY <1>27, ContinueStep DEF GroupContinues, Inv, TypeOK, table, call
  <2>3. EntriesOK'
    BY <1>27, SameEntries DEF GroupContinues, Inv, table
  <2>4. LocalsOK'
    BY <1>27 DEF GroupContinues, Inv, LocalsOK, table, call
  <2>5. QED
    BY <2>2, <2>3, <2>4 DEF Inv
<1>28. CASE UNCHANGED vars
  <2>1. TypeOK'
    BY <1>28 DEF vars, Inv, TypeOK, PCs
  <2>2. EntriesOK'
    BY <1>28, SameEntries DEF vars, Inv
  <2>3. LocalsOK'
    BY <1>28 DEF vars, Inv, LocalsOK
  <2>4. QED
    BY <2>1, <2>2, <2>3 DEF Inv
<1>29. QED
  BY <1>1, <1>2, <1>3, <1>4, <1>5, <1>6, <1>7, <1>8, <1>9, <1>10, <1>11, <1>12, <1>13, <1>14,
     <1>15, <1>16, <1>17, <1>18, <1>19, <1>20, <1>21, <1>22, <1>23, <1>24, <1>25, <1>26, <1>27,
     <1>28 DEF Next, Commands, Shell, Chance, Children

\* The job array is never indexed or filled beyond its capacity by the commands
\* that grow it, and every variable keeps its type, for any number of children,
\* jobs and stages.
THEOREM TypeCorrect == Spec => []TypeOK
<1>1. Inv => TypeOK
  BY DEF Inv
<1>2. QED
  BY InitInv, NextInv, <1>1, PTL DEF Spec

-----------------------------------------------------------------------------
(* Strengthenings for the order, the terminal and the waits *)

\* The numbers ascend along a table, and its entries are for different
\* processes.
Ascending(s) ==
  \A i, k \in 1 .. Len(s) : i < k => s[i].id < s[k].id /\ s[i].child # s[k].child

\* The stages of a pipeline in the foreground are different processes, and
\* none of them is in the table.
PipeApart ==
  pc \in {"capture", "pipe"} =>
    /\ \A k, m \in 1 .. Len(pipe) : k < m => pipe[k] # pipe[m]
    /\ \A k \in 1 .. Len(pipe), i \in 1 .. Len(jobs) : pipe[k] # jobs[i].child

OrderInv == Inv /\ Ascending(jobs) /\ PipeApart

-----------------------------------------------------------------------------
(* The order of the table *)

\* A refresh changes no number and no child.
LEMMA AscendingRefreshed ==
  ASSUME Inv, Ascending(jobs)
  PROVE  Ascending(Refreshed)
BY RefreshedFacts DEF Ascending, Inv

\* Closing the gap of a removed entry keeps the order.
LEMMA AscendingRemoved ==
  ASSUME NEW s \in Seq(Job), NEW i \in 1 .. Len(s), Ascending(s)
  PROVE  Ascending(RemoveAt(s, i))
<1> DEFINE up(k) == IF k < i THEN k ELSE k + 1
<1>1. Len(s) \in Nat
  BY LenProperties
<1>2. /\ Len(RemoveAt(s, i)) = Len(s) - 1
      /\ \A k \in 1 .. Len(s) - 1 : RemoveAt(s, i)[k] = s[up(k)] /\ up(k) \in 1 .. Len(s)
  BY <1>1, RemoveAtFacts
<1>3. \A k, m \in 1 .. Len(s) - 1 : k < m => up(k) < up(m)
  BY <1>1
<1> HIDE DEF up
<1>4. ASSUME NEW k \in 1 .. Len(s) - 1, NEW m \in 1 .. Len(s) - 1, k < m
      PROVE  RemoveAt(s, i)[k].id < RemoveAt(s, i)[m].id /\ RemoveAt(s, i)[k].child # RemoveAt(s, i)[m].child
  <2>1. up(k) \in 1 .. Len(s) /\ up(m) \in 1 .. Len(s) /\ up(k) < up(m)
    BY <1>2, <1>3, <1>4
  <2>2. s[up(k)].id < s[up(m)].id /\ s[up(k)].child # s[up(m)].child
    BY <2>1 DEF Ascending
  <2> QED
    BY <1>2, <1>4, <2>2
<1>5. QED
  BY <1>2, <1>4 DEF Ascending

\* A new entry with a higher number and another child keeps the order.
LEMMA AscendingAppended ==
  ASSUME NEW s \in Seq(Job), NEW j \in Job, Ascending(s),
         \A i \in 1 .. Len(s) : s[i].id < j.id /\ s[i].child # j.child
  PROVE  Ascending(Append(s, j))
<1>1. /\ Len(s) \in Nat /\ Len(Append(s, j)) = Len(s) + 1
      /\ \A k \in 1 .. Len(s) + 1 : Append(s, j)[k] = IF k <= Len(s) THEN s[k] ELSE j
  BY LenProperties, AppendProperties
<1>2. SUFFICES ASSUME NEW a \in 1 .. Len(s) + 1, NEW b \in 1 .. Len(s) + 1, a < b
               PROVE  /\ Append(s, j)[a].id < Append(s, j)[b].id
                      /\ Append(s, j)[a].child # Append(s, j)[b].child
  BY <1>1 DEF Ascending
<1>3. a \in 1 .. Len(s) /\ Append(s, j)[a] = s[a]
  BY <1>1, <1>2
<1>4. CASE b <= Len(s)
  BY <1>1, <1>2, <1>3, <1>4 DEF Ascending
<1>5. CASE ~ (b <= Len(s))
  BY <1>1, <1>3, <1>5
<1>6. QED
  BY <1>4, <1>5

\* Only state and exit_code of one entry change.
LEMMA AscendingExcept ==
  ASSUME NEW s \in Seq(Job), NEW i \in 1 .. Len(s), NEW j \in Job, Ascending(s),
         j.id = s[i].id, j.child = s[i].child
  PROVE  Ascending([s EXCEPT ![i] = j])
<1>1. /\ Len([s EXCEPT ![i] = j]) = Len(s)
      /\ \A k \in 1 .. Len(s) : [s EXCEPT ![i] = j][k] = IF k = i THEN j ELSE s[k]
  BY ExceptSeq
<1>2. QED
  BY <1>1 DEF Ascending

\* A step leaves the table alone, refreshes it, removes the entry at cur,
\* changes the state of that entry, which is not done, or appends an entry with
\* the next number for a process that no other entry is for.
LEMMA TableStep ==
  ASSUME OrderInv, [Next]_vars
  PROVE  \/ /\ \/ UNCHANGED jobs
               \/ jobs' = Refreshed
               \/ cur \in 1 .. Len(jobs) /\ jobs' = RemoveAt(jobs, cur)
               \/ /\ cur \in 1 .. Len(jobs) /\ jobs[cur].state # "done"
                  /\ \E st \in {"running", "stopped"}, c \in Codes :
                       jobs' = [jobs EXCEPT ![cur] = [jobs[cur] EXCEPT !.state = st, !.exit_code = c]]
            /\ UNCHANGED nextJobId
         \/ \E st \in {"running", "stopped"}, p \in Pids, g \in Pids :
              /\ jobs' = Append(jobs, NewJob(st, p, g)) /\ nextJobId' = nextJobId + 1
              /\ \A i \in 1 .. Len(jobs) : jobs[i].child # p
<1> USE PidsFacts, CodesFacts
<1>a. jobs \in Seq(Job) /\ Len(jobs) \in Nat /\ nextPid \in Nat
  BY LenProperties, BoundsAssumption DEF OrderInv, Inv, TypeOK
<1>b. \A i \in 1 .. Len(jobs) : jobs[i] \in Job /\ EntryOK(jobs[i])
  BY <1>a, ElementOfSeq DEF OrderInv, Inv, EntriesOK
<1>1. CASE StartBackground \/ ListJobs \/ WaitAll \/ FireRefresh
  BY <1>1 DEF StartBackground, ListJobs, WaitAll, FireRefresh
<1>2. CASE \E arg \in 0 .. MaxProcs : Foreground(arg) \/ Background(arg)
  BY <1>2 DEF Foreground, Background
<1>3. CASE \E id \in Pids : WaitOne(id)
  BY <1>3 DEF WaitOne
<1>4. CASE PruneStep
  <2>1. cur \in Nat /\ cur >= 1 /\ cur <= Len(jobs)
    BY <1>4 DEF PruneStep, OrderInv, Inv, LocalsOK, TypeOK
  <2>2. cur \in 1 .. Len(jobs)
    BY <1>a, <2>1
  <2>3. QED
    BY <1>4, <2>2 DEF PruneStep
<1>5. CASE Spawn
  <2>1. Fork(1) /\ 1 \in Nat /\ Inv
    BY <1>5 DEF Spawn, OrderInv
  <2>2. nextPid \in Pids
    BY <2>1, ForkStep
  <2>3. \A i \in 1 .. Len(jobs) : jobs[i].child # nextPid
    <3>1. SUFFICES ASSUME NEW i \in 1 .. Len(jobs) PROVE jobs[i].child # nextPid
      OBVIOUS
    <3>2. jobs[i].child \in Nat /\ jobs[i].child < nextPid
      BY <1>b DEF EntryOK, EntryIn, Job
    <3>3. QED
      BY <1>a, <3>2
  <2>4. QED
    BY <1>5, <2>2, <2>3 DEF Spawn
<1>6. CASE BackgroundResume
  <2>1. cur \in 1 .. Len(jobs) /\ jobs[cur] \in Job /\ jobs[cur].state # "done" /\ UNCHANGED nextJobId
    BY <1>6, <1>b DEF BackgroundResume, OrderInv, Inv, LocalsOK
  <2>2. jobs' = [jobs EXCEPT ![cur] = [jobs[cur] EXCEPT !.state = "running",
                                                        !.exit_code = jobs[cur].exit_code]]
    BY <1>6, <2>1 DEF BackgroundResume, Job
  <2>3. jobs[cur].exit_code \in Codes
    BY <2>1 DEF Job
  <2>4. QED
    BY <2>1, <2>2, <2>3
<1>7. CASE ForegroundWait
  <2>1. cur \in 1 .. Len(jobs) /\ jobs[cur].state # "done" /\ UNCHANGED nextJobId
    BY <1>7 DEF ForegroundWait, OrderInv, Inv, LocalsOK
  <2>2. CASE jobs' = [jobs EXCEPT ![cur].state = "stopped", ![cur].exit_code = StopCode]
    <3>1. jobs' = [jobs EXCEPT ![cur] = [jobs[cur] EXCEPT !.state = "stopped", !.exit_code = StopCode]]
      BY <2>2
    <3>2. QED
      BY <2>1, <3>1
  <2>3. CASE jobs' = RemoveAt(jobs, cur)
    BY <2>1, <2>3
  <2>4. QED
    BY <1>7, <2>2, <2>3 DEF ForegroundWait
<1>8. CASE WaitForJob
  <2>1. cur \in Nat /\ cur >= 1 /\ cur <= Len(jobs)
    BY <1>8 DEF WaitForJob, OrderInv, Inv, LocalsOK, TypeOK
  <2>2. cur \in 1 .. Len(jobs)
    BY <1>a, <2>1
  <2>3. CASE /\ jobs[cur].state = "running"
             /\ jobs' = [jobs EXCEPT ![cur].state = "stopped", ![cur].exit_code = StopCode]
    <3>1. jobs' = [jobs EXCEPT ![cur] = [jobs[cur] EXCEPT !.state = "stopped", !.exit_code = StopCode]]
      BY <2>3
    <3>2. UNCHANGED nextJobId
      BY <1>8 DEF WaitForJob
    <3>3. QED
      BY <2>2, <2>3, <3>1, <3>2
  <2>4. QED
    BY <1>8, <2>2, <2>3 DEF WaitForJob, WaitRemoves
<1>9. CASE PipelineEnds
  <2>1. cur \in 1 .. Len(pipe) /\ pipe \in Seq(Pids)
    BY <1>9 DEF PipelineEnds, OrderInv, Inv, LocalsOK, TypeOK
  <2>2. pipe[cur] \in Pids /\ grp[pipe[cur]] \in Pids
    BY <1>9, <2>1, ElementOfSeq DEF PipelineEnds, OrderInv, Inv, LocalsOK
  <2>3. \A i \in 1 .. Len(jobs) : jobs[i].child # pipe[cur]
    BY <1>9, <2>1 DEF PipelineEnds, OrderInv, PipeApart
  <2>4. CASE /\ jobs' = Append(jobs, NewJob("stopped", pipe[cur], grp[pipe[cur]]))
             /\ nextJobId' = nextJobId + 1
    BY <2>2, <2>3, <2>4
  <2>5. QED
    BY <1>9, <2>4 DEF PipelineEnds
<1>10. CASE PruneEnds \/ SpawnFails \/ ForegroundResume \/ WaitAllEnds \/ CaptureEnds \/ EmptyLine
            \/ PipelineWaitStage \/ FireClear \/ Chance
  BY <1>10 DEF PruneEnds, SpawnFails, ForegroundResume, WaitAllEnds, CaptureEnds, EmptyLine,
               PipelineWaitStage, FireClear, Chance, ResumeFails, CaptureInterrupted, LineEnds, table
<1>11. CASE \/ \E n \in 1 .. MaxStages, capture \in BOOLEAN : StartPipeline(n, capture)
            \/ \E n \in 0 .. MaxStages - 1 : PipelineForkFails(n)
  BY <1>11 DEF StartPipeline, PipelineForkFails, table
<1>12. CASE Children
  BY <1>12 DEF Children, ChildExits, GroupStops, GroupContinues, table
<1>13. CASE UNCHANGED vars
  BY <1>13 DEF vars
<1>14. QED
  BY <1>1, <1>2, <1>3, <1>4, <1>5, <1>6, <1>7, <1>8, <1>9, <1>10, <1>11, <1>12, <1>13
  DEF Next, Commands, Shell

\* A step that ends inside a pipeline started it or was already inside it.
LEMMA PipeStep ==
  ASSUME Inv, [Next]_vars, pc' \in {"capture", "pipe"}
  PROVE  \/ \E n \in 1 .. MaxStages, capture \in BOOLEAN : StartPipeline(n, capture)
         \/ pc \in {"capture", "pipe"} /\ UNCHANGED <<jobs, pipe, grp, ttyFg>>
<1>1. CASE Commands
  BY <1>1 DEF Commands, StartBackground, ListJobs, Foreground, Background, WaitAll, WaitOne,
              PipelineForkFails, EmptyLine, Return
<1>2. CASE PipelineWaitStage \/ CaptureEnds \/ CaptureInterrupted
  BY <1>2 DEF PipelineWaitStage, CaptureEnds, CaptureInterrupted, kernel, table, call
<1>3. CASE PruneStep \/ PruneEnds \/ Spawn \/ SpawnFails \/ ForegroundResume \/ BackgroundResume
           \/ ForegroundWait \/ WaitAllEnds \/ PipelineEnds \/ ResumeFails \/ LineEnds
  BY <1>3 DEF PruneStep, PruneEnds, Spawn, SpawnFails, ForegroundResume, BackgroundResume,
              ForegroundWait, WaitAllEnds, PipelineEnds, ResumeFails, LineEnds, Return
<1>4. CASE WaitForJob \/ FireClear \/ FireRefresh
  BY <1>4 DEF WaitForJob, WaitKeeps, WaitRemoves, FireClear, FireRefresh, Return
<1>5. CASE Children \/ UNCHANGED vars
  BY <1>5 DEF Children, ChildExits, GroupStops, GroupContinues, table, call, vars
<1>6. QED
  BY <1>1, <1>2, <1>3, <1>4, <1>5 DEF Next, Shell, Chance

\* The stages of a new pipeline are new processes.
LEMMA NewPipe ==
  ASSUME Inv, NEW n \in 1 .. MaxStages, NEW capture \in BOOLEAN, StartPipeline(n, capture)
  PROVE  /\ Len(pipe') = n
         /\ \A k \in 1 .. n : pipe'[k] = nextPid + k - 1 /\ pipe'[k] \in Pids /\ grp'[pipe'[k]] = nextPid
         /\ UNCHANGED jobs /\ ttyFg' = nextPid
<1>1. n \in Nat /\ n > 0 /\ nextPid \in Nat /\ MaxProcs \in Nat /\ nextPid >= 1
  BY BoundsAssumption DEF Inv, TypeOK
<1>2. Fork(n) /\ pipe' = [k \in 1 .. n |-> nextPid + k - 1] /\ UNCHANGED jobs /\ ttyFg' = nextPid
  BY DEF StartPipeline, Locals, table, SetForeground
<1>3. /\ nextPid' = nextPid + n /\ nextPid' <= MaxProcs + 1
      /\ \A q \in Pids : nextPid <= q /\ q < nextPid' => grp'[q] = nextPid
  BY <1>1, <1>2, ForkStep
<1>4. \A k \in 1 .. n : /\ nextPid + k - 1 \in Pids
                        /\ nextPid <= nextPid + k - 1 /\ nextPid + k - 1 < nextPid'
  BY <1>1, <1>3 DEF Pids
<1>5. Len(pipe') = n /\ \A k \in 1 .. n : pipe'[k] = nextPid + k - 1
  BY <1>1, <1>2
<1>6. QED
  BY <1>2, <1>3, <1>4, <1>5

\* A pipeline that stops is entered under the next number, after whatever `&`
\* entered before it.
LEMMA OrderNext == OrderInv /\ [Next]_vars => OrderInv'
<1> SUFFICES ASSUME OrderInv, [Next]_vars PROVE OrderInv'
  OBVIOUS
<1> USE PidsFacts, CodesFacts
<1>1. Inv /\ Inv' /\ Ascending(jobs) /\ PipeApart
  BY NextInv DEF OrderInv
<1>2. jobs \in Seq(Job) /\ Len(jobs) \in Nat /\ nextPid \in Nat /\ nextJobId \in Nat
  BY <1>1, LenProperties, BoundsAssumption DEF Inv, TypeOK
<1>3. \A i \in 1 .. Len(jobs) : jobs[i] \in Job /\ EntryOK(jobs[i])
  BY <1>1, <1>2, ElementOfSeq DEF Inv, EntriesOK
<1>4. Ascending(jobs')
  <2>1. CASE UNCHANGED jobs
    BY <1>1, <2>1
  <2>2. CASE jobs' = Refreshed
    BY <1>1, <2>2, AscendingRefreshed
  <2>3. CASE cur \in 1 .. Len(jobs) /\ jobs' = RemoveAt(jobs, cur)
    BY <1>1, <1>2, <2>3, AscendingRemoved
  <2>4. ASSUME cur \in 1 .. Len(jobs), NEW st \in JobStates, NEW c \in Codes,
               jobs' = [jobs EXCEPT ![cur] = [jobs[cur] EXCEPT !.state = st, !.exit_code = c]]
        PROVE  Ascending(jobs')
    <3> DEFINE j == [jobs[cur] EXCEPT !.state = st, !.exit_code = c]
    <3>1. j \in Job /\ j.id = jobs[cur].id /\ j.child = jobs[cur].child
      BY <1>3, <2>4 DEF Job
    <3> HIDE DEF j
    <3>2. Ascending([jobs EXCEPT ![cur] = j])
      BY <1>1, <1>2, <2>4, <3>1, AscendingExcept
    <3>3. QED
      BY <2>4, <3>2 DEF j
  <2>5. ASSUME NEW st \in JobStates, NEW p \in Pids, NEW g \in Pids,
               jobs' = Append(jobs, NewJob(st, p, g)),
               \A i \in 1 .. Len(jobs) : jobs[i].child # p
        PROVE  Ascending(jobs')
    <3> DEFINE j == NewJob(st, p, g)
    <3>1. j \in Job /\ j.id = nextJobId /\ j.child = p
      BY <1>1, <1>2 DEF NewJob, Job, Inv, TypeOK
    <3>2. \A i \in 1 .. Len(jobs) : jobs[i].id < j.id /\ jobs[i].child # j.child
      BY <1>3, <2>5, <3>1 DEF EntryOK, EntryIn
    <3> HIDE DEF j
    <3>3. Ascending(Append(jobs, j))
      BY <1>1, <1>2, <3>1, <3>2, AscendingAppended
    <3>4. QED
      BY <2>5, <3>3 DEF j
  <2>6. QED
    BY <2>1, <2>2, <2>3, <2>4, <2>5, TableStep DEF JobStates
<1>5. PipeApart'
  <2>1. CASE pc' \notin {"capture", "pipe"}
    BY <2>1 DEF PipeApart
  <2>2. CASE pc \in {"capture", "pipe"} /\ UNCHANGED <<jobs, pipe, grp, ttyFg>>
    BY <1>1, <2>2 DEF PipeApart
  <2>3. ASSUME NEW n \in 1 .. MaxStages, NEW capture \in BOOLEAN, StartPipeline(n, capture)
        PROVE  PipeApart'
    <3>1. /\ Len(pipe') = n /\ UNCHANGED jobs
          /\ \A k \in 1 .. n : pipe'[k] = nextPid + k - 1
      BY <1>1, <2>3, NewPipe
    <3>2. \A i \in 1 .. Len(jobs) : jobs[i].child \in Nat /\ jobs[i].child < nextPid
      BY <1>3 DEF EntryOK, EntryIn, Job
    <3>3. n \in Nat
      BY BoundsAssumption
    <3>4. \A k, m \in 1 .. n : k < m => pipe'[k] # pipe'[m]
      BY <1>2, <3>1, <3>3
    <3>5. \A k \in 1 .. n, i \in 1 .. Len(jobs) : pipe'[k] # jobs[i].child
      BY <1>2, <3>1, <3>2, <3>3
    <3>6. QED
      BY <3>1, <3>4, <3>5 DEF PipeApart
  <2>4. QED
    BY <1>1, <2>1, <2>2, <2>3, PipeStep
<1>6. QED
  BY <1>1, <1>4, <1>5 DEF OrderInv

\* The table starts empty.
LEMMA OrderInit == Init => OrderInv
<1>1. Init => Inv
  BY InitInv
<1>2. Init => Ascending(jobs) /\ PipeApart
  BY EmptySeq DEF Init, Ascending, PipeApart
<1>3. QED
  BY <1>1, <1>2 DEF OrderInv

\* %n never names two jobs, and never a different job than it did before: the
\* numbers of the table ascend below the next one to give out, and no two
\* entries are for the same process (shell.c:7791, shell.c:8041).
THEOREM NumbersAscend == Spec => []IdsAscend
<1>1. OrderInv => IdsAscend
  <2>1. SUFFICES ASSUME OrderInv PROVE IdsAscend
    OBVIOUS
  <2>2. DOMAIN jobs = 1 .. Len(jobs)
    BY <2>1, LenProperties DEF OrderInv, Inv, TypeOK
  <2>3. QED
    BY <2>1, <2>2 DEF OrderInv, Inv, EntriesOK, EntryOK, EntryIn, Ascending, IdsAscend
<1>2. QED
  BY OrderInit, OrderNext, <1>1, PTL DEF Spec

-----------------------------------------------------------------------------
(* The terminal *)

\* TtyOwner, one place of the shell at a time.
TtyInv ==
  /\ Inv
  /\ pc = "fgWait" => ttyFg = jobs[cur].pgid
  /\ pc \in {"capture", "pipe"} => ttyFg = grp[pipe[1]]
  /\ pc \notin {"fgWait", "capture", "pipe"} => ttyFg = ShellPgid

\* A step that ends in the wait of fg gave the terminal away or changed
\* nothing the owner depends on.
LEMMA FgStep ==
  ASSUME Inv, [Next]_vars, pc' = "fgWait"
  PROVE  \/ ttyFg' = jobs'[cur'].pgid
         \/ pc = "fgWait" /\ UNCHANGED <<jobs, cur, ttyFg>>
<1>1. CASE ForegroundResume
  BY <1>1 DEF ForegroundResume, SetForeground, table, call
<1>2. CASE Commands
  BY <1>2 DEF Commands, StartBackground, ListJobs, Foreground, Background, WaitAll, WaitOne,
              StartPipeline, PipelineForkFails, EmptyLine, Return
<1>3. CASE PruneStep \/ PruneEnds \/ Spawn \/ SpawnFails \/ BackgroundResume
           \/ ForegroundWait \/ WaitAllEnds \/ PipelineEnds \/ Chance
  BY <1>3 DEF PruneStep, PruneEnds, Spawn, SpawnFails, BackgroundResume, Chance, CaptureInterrupted,
              ForegroundWait, WaitAllEnds, PipelineEnds, ResumeFails, LineEnds, Return
<1>4. CASE WaitForJob \/ FireClear \/ FireRefresh \/ CaptureEnds \/ PipelineWaitStage
  BY <1>4 DEF WaitForJob, WaitKeeps, WaitRemoves, FireClear, FireRefresh, CaptureEnds,
              PipelineWaitStage, Return
<1>5. CASE Children \/ UNCHANGED vars
  BY <1>5 DEF Children, ChildExits, GroupStops, GroupContinues, table, call, vars
<1>6. QED
  BY <1>1, <1>2, <1>3, <1>4, <1>5 DEF Next, Shell

\* A step that ends anywhere else took the terminal back, or did not touch it
\* and did not start where it was given away.
LEMMA BackStep ==
  ASSUME Inv, [Next]_vars, pc' \notin {"fgWait", "capture", "pipe"}
  PROVE  \/ ttyFg' = ShellPgid
         \/ pc \notin {"fgWait", "capture", "pipe"} /\ UNCHANGED ttyFg
<1>1. CASE ForegroundWait \/ PipelineEnds
  BY <1>1 DEF ForegroundWait, PipelineEnds, SetForeground
<1>2. CASE Commands
  BY <1>2 DEF Commands, StartBackground, ListJobs, Foreground, Background, WaitAll, WaitOne,
              StartPipeline, PipelineForkFails, EmptyLine, Command
<1>3. CASE PruneStep \/ PruneEnds \/ Spawn \/ SpawnFails \/ BackgroundResume \/ ForegroundResume
           \/ WaitAllEnds \/ Chance
  BY <1>3 DEF PruneStep, PruneEnds, Spawn, SpawnFails, BackgroundResume, Chance, CaptureInterrupted,
              ForegroundResume, WaitAllEnds, ResumeFails, LineEnds
<1>4. CASE WaitForJob \/ FireClear \/ FireRefresh \/ CaptureEnds \/ PipelineWaitStage
  BY <1>4 DEF WaitForJob, FireClear, FireRefresh, CaptureEnds, PipelineWaitStage
<1>5. CASE Children \/ UNCHANGED vars
  BY <1>5 DEF Children, ChildExits, GroupStops, GroupContinues, vars
<1>6. QED
  BY <1>1, <1>2, <1>3, <1>4, <1>5 DEF Next, Shell

\* One case for each control state the step leads to.
LEMMA TtyNext == TtyInv /\ [Next]_vars => TtyInv'
<1> SUFFICES ASSUME TtyInv, [Next]_vars PROVE TtyInv'
  OBVIOUS
<1>1. Inv /\ Inv'
  BY NextInv DEF TtyInv
<1>2. CASE pc' = "fgWait"
  BY <1>1, <1>2, FgStep DEF TtyInv
<1>3. CASE pc' \in {"capture", "pipe"}
  <2>1. CASE pc \in {"capture", "pipe"} /\ UNCHANGED <<jobs, pipe, grp, ttyFg>>
    BY <1>1, <1>3, <2>1 DEF TtyInv
  <2>2. ASSUME NEW n \in 1 .. MaxStages, NEW capture \in BOOLEAN, StartPipeline(n, capture)
        PROVE  ttyFg' = grp'[pipe'[1]]
    <3>1. 1 \in 1 .. n
      BY BoundsAssumption
    <3>2. QED
      BY <1>1, <2>2, <3>1, NewPipe
  <2>3. QED
    BY <1>1, <1>3, <2>1, <2>2, PipeStep DEF TtyInv
<1>4. CASE pc' \notin {"fgWait", "capture", "pipe"}
  BY <1>1, <1>4, BackStep DEF TtyInv
<1>5. QED
  BY <1>2, <1>3, <1>4

\* The shell owns the terminal whenever it is not waiting for a foreground
\* group, and that group owns it while it waits: every way out of fg and of a
\* pipeline takes the terminal back (platform.c:1930, platform.c:2250).
THEOREM TerminalOwned == Spec => []TtyOwner
<1>1. Init => TtyInv
  BY InitInv DEF Init, TtyInv
<1>2. TtyInv => TtyOwner
  BY DEF TtyInv, TtyOwner
<1>3. QED
  BY <1>1, <1>2, TtyNext, PTL DEF Spec

-----------------------------------------------------------------------------
(* The blocking waits *)

\* With the states S and the unread notifications N: the child p is there to
\* be waited for; and if it is stopped, the shell has not been told yet.
Live(S, p)    == S[p] \in {"run", "stop", "zombie"}
Told(S, N, p) == S[p] = "stop" => N[p] = "stopped"

\* An unread notification tells what the child is doing, and the children that
\* exist are the ones forked so far.
NotesOK ==
  \A p \in Pids :
    /\ note[p] = "stopped" => pst[p] = "stop"
    /\ note[p] = "continued" => pst[p] = "run"
    /\ pst[p] = "none" <=> p >= nextPid

\* Every child the shell may still wait for exists, and its stop is unread:
\* the children of running entries, the one fg or bg is about to resume, and
\* the stages of the pipeline not waited for yet.
RunningOK ==
  \A i \in 1 .. Len(jobs) :
    jobs[i].state = "running" => Live(pst, jobs[i].child) /\ Told(pst, note, jobs[i].child)

ResumedOK ==
  /\ pc \in {"fgResume", "bgResume", "fgWait"} => Live(pst, jobs[cur].child)
  /\ pc = "fgWait" => Told(pst, note, jobs[cur].child)

StagesOK ==
  pc \in {"capture", "pipe"} =>
    \A k \in cur .. Len(pipe) : Live(pst, pipe[k]) /\ Told(pst, note, pipe[k])

WaitInv == OrderInv /\ NotesOK /\ RunningOK /\ ResumedOK /\ StagesOK

\* What a step does to the children.
Reads(Q) == Consumed(Q) /\ UNCHANGED nextPid

Bystanders ==
  \/ \E p \in Pids, c \in ExitCodes : ChildExits(p, c)
  \/ \E g \in Pids : GroupStops(g)
  \/ (\E g : ContinueGroup(g)) /\ UNCHANGED nextPid
  \/ (\E n \in Nat : Fork(n)) /\ UNCHANGED note
  \/ UNCHANGED <<pst, note, nextPid>>

\* A step that reads no notification of p keeps p alive and its stop unread.
LEMMA Undisturbed ==
  ASSUME Inv, NEW p \in Pids, Bystanders \/ \E Q : p \notin Q /\ Reads(Q)
  PROVE  (Live(pst, p) => Live(pst', p)) /\ (Told(pst, note, p) => Told(pst', note', p))
<1> USE DEF Live, Told
<1>0. pst \in [Pids -> PStates] /\ note \in [Pids -> Notes]
  BY DEF Inv, TypeOK
<1>1. CASE \E q \in Pids, c \in ExitCodes : ChildExits(q, c)
  BY <1>0, <1>1 DEF ChildExits
<1>2. CASE \E g \in Pids : GroupStops(g)
  BY <1>0, <1>2 DEF GroupStops
<1>3. CASE \E g : ContinueGroup(g)
  BY <1>0, <1>3 DEF ContinueGroup
<1>4. CASE (\E n \in Nat : Fork(n)) /\ UNCHANGED note
  BY <1>0, <1>4 DEF Fork
<1>5. CASE UNCHANGED <<pst, note, nextPid>>
  BY <1>5
<1>6. CASE \E Q : p \notin Q /\ Reads(Q)
  BY <1>0, <1>6 DEF Reads, Consumed
<1>7. QED
  BY <1>1, <1>2, <1>3, <1>4, <1>5, <1>6 DEF Bystanders

\* A child that stopped or ended and was not read still has its notification.
LEMMA NotesStep ==
  ASSUME Inv, NotesOK, Bystanders \/ \E Q : Reads(Q)
  PROVE  NotesOK'
<1>0. pst \in [Pids -> PStates] /\ note \in [Pids -> Notes]
  BY DEF Inv, TypeOK
<1>1. CASE \E q \in Pids, c \in ExitCodes : ChildExits(q, c)
  BY <1>0, <1>1 DEF ChildExits, NotesOK, Alive
<1>2. CASE \E g \in Pids : GroupStops(g)
  BY <1>0, <1>2 DEF GroupStops, NotesOK
<1>3. CASE (\E g : ContinueGroup(g)) /\ UNCHANGED nextPid
  BY <1>0, <1>3 DEF ContinueGroup, NotesOK
<1>4. CASE (\E n \in Nat : Fork(n)) /\ UNCHANGED note
  <2>1. PICK n \in Nat : Fork(n)
    BY <1>4
  <2>2. nextPid \in Nat /\ nextPid' = nextPid + n /\ Pids \subseteq Nat
    BY <2>1, PidsFacts, BoundsAssumption DEF Fork, Inv, TypeOK
  <2>3. SUFFICES ASSUME NEW p \in Pids
                 PROVE  /\ note[p] = "stopped" => pst'[p] = "stop"
                        /\ note[p] = "continued" => pst'[p] = "run"
                        /\ pst'[p] = "none" <=> p >= nextPid'
    BY <1>4 DEF NotesOK
  <2>4. CASE p \in nextPid .. nextPid + n - 1
    <3>1. pst'[p] = "run" /\ ~ (p >= nextPid')
      BY <2>1, <2>2, <2>4 DEF Fork
    <3>2. QED
      <4>1. pst[p] = "none"
        BY <2>4 DEF NotesOK
      <4>2. QED
        BY <3>1, <4>1 DEF NotesOK
  <2>5. CASE p \notin nextPid .. nextPid + n - 1
    <3>1. pst'[p] = pst[p]
      BY <2>1, <2>5 DEF Fork
    <3>2. pst[p] = "none" <=> p >= nextPid
      BY DEF NotesOK
    <3>3. p \in Nat /\ (p >= nextPid <=> p >= nextPid')
      BY <2>2, <2>5
    <3>4. QED
      BY <3>1, <3>2, <3>3 DEF NotesOK
  <2>6. QED
    BY <2>4, <2>5
<1>5. CASE UNCHANGED <<pst, note, nextPid>>
  BY <1>5 DEF NotesOK
<1>6. CASE \E Q : Reads(Q)
  BY <1>0, <1>6 DEF Reads, Consumed, NotesOK
<1>7. QED
  BY <1>1, <1>2, <1>3, <1>4, <1>5, <1>6 DEF Bystanders

\* The entries that are running after a step were running before it, and their
\* notifications are not the ones the step reads.
LEMMA RunningKept ==
  ASSUME Inv, RunningOK,
         \A i \in 1 .. Len(jobs') : jobs'[i].state = "running" =>
           \E k \in 1 .. Len(jobs) : jobs[k].state = "running" /\ jobs[k].child = jobs'[i].child,
         \/ Bystanders
         \/ \E Q : Reads(Q) /\ \A i \in 1 .. Len(jobs') : jobs'[i].state = "running" => jobs'[i].child \notin Q
  PROVE  RunningOK'
<1>1. SUFFICES ASSUME NEW i \in 1 .. Len(jobs'), jobs'[i].state = "running"
               PROVE  Live(pst', jobs'[i].child) /\ Told(pst', note', jobs'[i].child)
  BY DEF RunningOK
<1>2. PICK k \in 1 .. Len(jobs) : jobs[k].state = "running" /\ jobs[k].child = jobs'[i].child
  BY <1>1
<1>3. jobs[k].child \in Pids
  <2>1. jobs[k] \in Job
    BY ElementOfSeq DEF Inv, TypeOK
  <2>2. QED
    BY <2>1 DEF Job
<1> DEFINE p == jobs[k].child
<1>4. Live(pst, p) /\ Told(pst, note, p)
  BY <1>2 DEF RunningOK
<1>5. Bystanders \/ \E Q : p \notin Q /\ Reads(Q)
  BY <1>1, <1>2
<1> HIDE DEF p
<1>6. Live(pst', p) /\ Told(pst', note', p)
  BY <1>3, <1>4, <1>5, Undisturbed DEF p
<1>7. QED
  BY <1>2, <1>6 DEF p

\* After a refresh an entry that is not done is for a child that exists, and a
\* running one for a child that runs.
LEMMA RefreshWaits ==
  ASSUME WaitInv, Refresh, jobs' = Refreshed, Inv'
  PROVE  /\ NotesOK' /\ RunningOK'
         /\ \A i \in 1 .. Len(jobs') : jobs'[i].state # "done" => Live(pst', jobs'[i].child)
<1>1. Inv /\ NotesOK /\ RunningOK /\ TypeOK /\ EntriesOK
  BY DEF WaitInv, OrderInv, Inv
<1>2. Reads(PolledPids)
  BY DEF Refresh, Reads
<1>3. NotesOK'
  BY <1>1, <1>2, NotesStep
<1>4. ASSUME NEW i \in 1 .. Len(jobs'), jobs'[i].state # "done"
      PROVE  Live(pst', jobs'[i].child) /\ (jobs'[i].state = "running" => Told(pst', note', jobs'[i].child))
  <2> DEFINE p == jobs[i].child
  <2>1. i \in 1 .. Len(jobs) /\ jobs'[i] = Polled(jobs[i]) /\ jobs'[i].child = p
    BY <1>1, <1>4, RefreshedFacts
  <2>2. jobs[i] \in Job /\ EntryOK(jobs[i])
    BY <1>1, <2>1, ElementOfSeq DEF TypeOK, EntriesOK
  <2>3. jobs[i].state # "done"
    BY <1>4, <2>1 DEF Polled
  <2>4. jobs[i].pid = p /\ p \in Pids /\ p < nextPid
    BY <2>2, <2>3 DEF EntryOK, EntryIn, Job
  <2>5. pst[p] # "none"
    <3>0. nextPid \in Nat
      BY <1>1, BoundsAssumption DEF TypeOK
    <3>1. p \in Nat /\ nextPid \in Nat
      BY <2>4, <3>0, PidsFacts
    <3>2. ~ (p >= nextPid)
      BY <2>4, <3>1
    <3>3. QED
      BY <1>1, <2>4, <3>2 DEF NotesOK
  <2>6. pst[p] # "gone" /\ pst[p] # "zombie"
    BY <1>4, <2>1, <2>2, <2>3, <2>4 DEF Polled, Finished, Job
  <2>7. pst[p] \in {"run", "stop"} /\ pst'[p] = pst[p]
    <3>1. pst[p] \in PStates /\ pst'[p] = pst[p]
      BY <1>1, <1>2, <2>4, <2>6 DEF TypeOK, Reads, Consumed
    <3>2. QED
      BY <2>5, <2>6, <3>1 DEF PStates
  <2>8. ASSUME jobs'[i].state = "running" PROVE pst[p] = "run"
    <3>1. note[p] # "stopped"
      BY <2>1, <2>2, <2>3, <2>4, <2>6, <2>8 DEF Polled, Job
    <3>2. CASE note[p] = "continued"
      BY <1>1, <2>4, <3>2 DEF NotesOK
    <3>3. CASE note[p] # "continued"
      <4>1. jobs'[i] = jobs[i]
        BY <2>1, <2>3, <2>4, <2>6, <3>1, <3>3 DEF Polled
      <4>2. Told(pst, note, p)
        BY <1>1, <2>1, <2>8, <4>1 DEF RunningOK
      <4>3. QED
        BY <2>7, <3>1, <4>2 DEF Told
    <3>4. QED
      BY <3>2, <3>3
  <2>9. QED
    BY <2>1, <2>7, <2>8 DEF Live, Told
<1>5. QED
  BY <1>3, <1>4 DEF RunningOK

\* Outside fg, bg and a pipeline only the running entries matter.
LEMMA Elsewhere ==
  ASSUME pc' \notin {"fgResume", "bgResume", "fgWait", "capture", "pipe"}
  PROVE  ResumedOK' /\ StagesOK'
BY DEF ResumedOK, StagesOK

\* One case for each action.
LEMMA WaitNext == WaitInv /\ [Next]_vars => WaitInv'
<1> SUFFICES ASSUME WaitInv, [Next]_vars PROVE WaitInv'
  OBVIOUS
<1> USE PidsFacts
<1>a. OrderInv /\ OrderInv' /\ Inv /\ Inv' /\ NotesOK /\ RunningOK /\ ResumedOK /\ StagesOK
  BY OrderNext DEF WaitInv, OrderInv
<1>b. jobs \in Seq(Job) /\ Len(jobs) \in Nat /\ jobs' \in Seq(Job) /\ Len(jobs') \in Nat
  BY <1>a, LenProperties DEF Inv, TypeOK
<1>c. \A i \in 1 .. Len(jobs) : jobs[i] \in Job /\ EntryOK(jobs[i]) /\ jobs[i].child \in Pids
  <2>1. \A i \in 1 .. Len(jobs) : jobs[i] \in Job /\ EntryOK(jobs[i])
    BY <1>a, <1>b, ElementOfSeq DEF Inv, EntriesOK
  <2>2. QED
    BY <2>1 DEF Job
<1>d. SUFFICES NotesOK' /\ RunningOK' /\ ResumedOK' /\ StagesOK'
  BY <1>a DEF WaitInv
<1>1. CASE Refresh /\ jobs' = Refreshed /\ pc' \notin {"fgWait", "capture", "pipe"}
  <2>1. NotesOK' /\ RunningOK'
    BY <1>a, <1>1, RefreshWaits
  <2>2. \A i \in 1 .. Len(jobs') : jobs'[i].state # "done" => Live(pst', jobs'[i].child)
    BY <1>a, <1>1, RefreshWaits
  <2>3. pc' \in {"fgResume", "bgResume"} => cur' \in 1 .. Len(jobs') /\ jobs'[cur'].state # "done"
    BY <1>a DEF Inv, LocalsOK
  <2>4. ResumedOK' /\ StagesOK'
    BY <1>1, <2>2, <2>3 DEF ResumedOK, StagesOK
  <2>5. QED
    BY <2>1, <2>4
<1>2. ASSUME UNCHANGED jobs, Bystanders, pc' \notin {"fgResume", "bgResume", "fgWait", "capture", "pipe"}
      PROVE  NotesOK' /\ RunningOK' /\ ResumedOK' /\ StagesOK'
  BY <1>a, <1>2, NotesStep, RunningKept, Elsewhere
<1>3. ASSUME UNCHANGED <<jobs, pc, cur, pipe>>, Bystanders
      PROVE  NotesOK' /\ RunningOK' /\ ResumedOK' /\ StagesOK'
  <2>1. NotesOK' /\ RunningOK'
    BY <1>a, <1>3, NotesStep, RunningKept
  <2>2. ResumedOK'
    <3>1. CASE pc \in {"fgResume", "bgResume", "fgWait"}
      <4>1. jobs[cur].child \in Pids
        BY <1>a, <1>c, <3>1 DEF Inv, LocalsOK
      <4>2. QED
        BY <1>a, <1>3, <3>1, <4>1, Undisturbed DEF ResumedOK
    <3>2. QED
      BY <1>3, <3>1 DEF ResumedOK
  <2>3. StagesOK'
    <3>1. CASE pc \in {"capture", "pipe"}
      <4>1. \A k \in cur .. Len(pipe) : pipe[k] \in Pids
        <5>1. pipe \in Seq(Pids) /\ cur \in 1 .. Len(pipe) /\ Len(pipe) \in Nat
          BY <1>a, <3>1, LenProperties DEF Inv, TypeOK, LocalsOK
        <5>2. QED
          BY <5>1, ElementOfSeq
      <4>2. QED
        BY <1>a, <1>3, <3>1, <4>1, Undisturbed DEF StagesOK
    <3>2. QED
      BY <1>3, <3>1 DEF StagesOK
  <2>4. QED
    BY <2>1, <2>2, <2>3
\* Removing the entry at cur and reading no notification but its child's.
<1>4. ASSUME cur \in 1 .. Len(jobs), jobs' = RemoveAt(jobs, cur),
             Bystanders \/ Reads({jobs[cur].child})
      PROVE  NotesOK' /\ RunningOK'
  <2>1. /\ Len(jobs') = Len(jobs) - 1
        /\ \A k \in 1 .. Len(jobs) - 1 : jobs'[k] = IF k < cur THEN jobs[k] ELSE jobs[k + 1]
    BY <1>b, <1>4, RemoveAtFacts
  <2>2. \A i \in 1 .. Len(jobs') : \E k \in 1 .. Len(jobs) : k # cur /\ jobs'[i] = jobs[k]
    <3>1. SUFFICES ASSUME NEW i \in 1 .. Len(jobs) - 1
                   PROVE  \E k \in 1 .. Len(jobs) : k # cur /\ jobs'[i] = jobs[k]
      BY <2>1
    <3>2. CASE i < cur
      BY <1>b, <2>1, <3>2
    <3>3. CASE ~ (i < cur)
      <4>1. i + 1 \in 1 .. Len(jobs) /\ i + 1 # cur
        BY <1>b, <1>4, <3>3
      <4>2. QED
        BY <2>1, <3>3, <4>1
    <3>4. QED
      BY <3>2, <3>3
  <2>3. \A i \in 1 .. Len(jobs') : jobs'[i].child # jobs[cur].child
    <3>1. \A k \in 1 .. Len(jobs) : k # cur => jobs[k].child # jobs[cur].child
      <4>1. \A k \in 1 .. Len(jobs) : k # cur => k < cur \/ cur < k
        BY <1>b, <1>4
      <4>2. QED
        BY <1>a, <1>4, <4>1 DEF OrderInv, Ascending
    <3>2. QED
      BY <2>2, <3>1
  <2>4. NotesOK'
    BY <1>a, <1>4, NotesStep
  <2>5. RunningOK'
    BY <1>a, <1>4, <2>2, <2>3, RunningKept
  <2>6. QED
    BY <2>4, <2>5
\* Entering the stop of the child of the entry at cur and reading no
\* notification but that child's.
<1>5. ASSUME cur \in 1 .. Len(jobs), Reads({jobs[cur].child}),
             jobs' = [jobs EXCEPT ![cur].state = "stopped", ![cur].exit_code = StopCode]
      PROVE  NotesOK' /\ RunningOK'
  <2> DEFINE j == [jobs[cur] EXCEPT !.state = "stopped", !.exit_code = StopCode]
  <2>1. jobs' = [jobs EXCEPT ![cur] = j]
    BY <1>5
  <2>2. j \in Job /\ j.state = "stopped"
    BY <1>c, <1>5, CodesFacts DEF Job, JobStates
  <2> HIDE DEF j
  <2>3. Len(jobs') = Len(jobs) /\ \A k \in 1 .. Len(jobs) : jobs'[k] = IF k = cur THEN j ELSE jobs[k]
    BY <1>b, <1>5, <2>1, <2>2, ExceptSeq
  <2>4. \A i \in 1 .. Len(jobs') : jobs'[i].state = "running" => i # cur /\ jobs'[i] = jobs[i]
    BY <2>2, <2>3
  <2>5. \A i \in 1 .. Len(jobs') : jobs'[i].state = "running" => jobs'[i].child # jobs[cur].child
    <3>1. \A k \in 1 .. Len(jobs) : k # cur => k < cur \/ cur < k
      BY <1>b, <1>5
    <3>2. QED
      BY <1>a, <1>5, <2>3, <2>4, <3>1 DEF OrderInv, Ascending
  <2>6. NotesOK'
    BY <1>a, <1>5, NotesStep
  <2>7. RunningOK'
    BY <1>a, <1>5, <2>3, <2>4, <2>5, RunningKept
  <2>8. QED
    BY <2>6, <2>7
<1>6. CASE StartBackground \/ ListJobs \/ WaitAll \/ FireRefresh
  BY <1>1, <1>6 DEF StartBackground, ListJobs, WaitAll, FireRefresh, Return
<1>7. CASE \E arg \in 0 .. MaxProcs : Foreground(arg) \/ Background(arg)
  BY <1>1, <1>7 DEF Foreground, Background, Return
<1>8. CASE \E id \in Pids : WaitOne(id)
  BY <1>1, <1>8 DEF WaitOne, Return
<1>9. CASE PruneStep
  <2>1. Bystanders /\ pc' = "prune"
    BY <1>9 DEF PruneStep, Bystanders, kernel
  <2>2. cur \in Nat /\ cur >= 1 /\ cur <= Len(jobs)
    BY <1>9, <1>a DEF PruneStep, Inv, LocalsOK, TypeOK
  <2>3. cur \in 1 .. Len(jobs)
    BY <1>b, <2>2
  <2>4. CASE jobs' = RemoveAt(jobs, cur)
    BY <1>4, <2>1, <2>3, <2>4, Elsewhere
  <2>5. CASE UNCHANGED jobs
    BY <1>2, <2>1, <2>5
  <2>6. QED
    BY <1>9, <2>4, <2>5 DEF PruneStep
<1>10. CASE PruneEnds \/ SpawnFails \/ WaitAllEnds \/ EmptyLine \/ FireClear \/ LineEnds \/ ResumeFails
  <2>1. Bystanders /\ UNCHANGED jobs
    BY <1>10 DEF PruneEnds, SpawnFails, WaitAllEnds, EmptyLine, FireClear, LineEnds, ResumeFails,
                 Bystanders, kernel, table
  <2>2. pc' \notin {"fgResume", "bgResume", "fgWait", "capture", "pipe"}
    BY <1>10 DEF PruneEnds, SpawnFails, WaitAllEnds, EmptyLine, FireClear, LineEnds, ResumeFails, Return
  <2>3. QED
    BY <1>2, <2>1, <2>2
<1>11. CASE \E n \in 0 .. MaxStages - 1 : PipelineForkFails(n)
  <2>1. MaxStages \in Nat
    BY BoundsAssumption
  <2>2. Bystanders /\ UNCHANGED jobs /\ pc' = "next"
    BY <1>11, <2>1 DEF PipelineForkFails, Bystanders, table, Return
  <2>3. QED
    BY <1>2, <2>2
<1>12. CASE Children
  <2>1. UNCHANGED <<jobs, pc, cur, pipe>> /\ Bystanders
    BY <1>12 DEF Children, ChildExits, GroupStops, GroupContinues, Bystanders, table, call
  <2>2. QED
    BY <1>3, <2>1
<1>13. CASE UNCHANGED vars
  BY <1>3, <1>13 DEF vars, Bystanders
<1>14. CASE Spawn
  <2>1. Fork(1) /\ 1 \in Nat /\ UNCHANGED note /\ pc' = "next"
    BY <1>14 DEF Spawn, Return
  <2>2. Bystanders
    BY <2>1 DEF Bystanders
  <2>3. nextPid \in Pids /\ pst'[nextPid] = "run"
    <3>0. nextPid \in Pids /\ nextPid \in Nat
      <4>1. Inv /\ Fork(1)
        BY <1>a, <2>1
      <4>2. 1 \in Nat /\ 1 > 0
        OBVIOUS
      <4>3. nextPid \in Pids
        BY <4>1, <4>2, ForkStep
      <4>4. QED
        BY <4>3
    <3>1. nextPid \in Pids /\ nextPid \in nextPid .. nextPid + 1 - 1
      BY <3>0
    <3>2. QED
      BY <2>1, <3>1 DEF Fork
  <2>4. NewJob("running", nextPid, nextPid) \in Job /\ NewJob("running", nextPid, nextPid).child = nextPid
    BY <1>a, <2>3, CodesFacts DEF NewJob, Job, JobStates, Inv, TypeOK
  <2>5. /\ Len(jobs') = Len(jobs) + 1
        /\ \A i \in 1 .. Len(jobs) + 1 :
             jobs'[i] = IF i <= Len(jobs) THEN jobs[i] ELSE NewJob("running", nextPid, nextPid)
    BY <1>14, <1>b, <2>4, AppendProperties DEF Spawn
  <2>6. RunningOK'
    <3>1. SUFFICES ASSUME NEW i \in 1 .. Len(jobs) + 1, jobs'[i].state = "running"
                   PROVE  Live(pst', jobs'[i].child) /\ Told(pst', note', jobs'[i].child)
      BY <2>5 DEF RunningOK
    <3>2. CASE i <= Len(jobs)
      <4>1. i \in 1 .. Len(jobs) /\ jobs'[i] = jobs[i] /\ jobs[i].child \in Pids
        BY <1>b, <1>c, <2>5, <3>2
      <4>2. Live(pst, jobs[i].child) /\ Told(pst, note, jobs[i].child)
        BY <1>a, <3>1, <4>1 DEF RunningOK
      <4>3. QED
        BY <1>a, <2>2, <4>1, <4>2, Undisturbed
    <3>3. CASE ~ (i <= Len(jobs))
      BY <2>3, <2>4, <2>5, <3>3 DEF Live, Told
    <3>4. QED
      BY <3>2, <3>3
  <2>7. QED
    BY <1>a, <2>1, <2>2, <2>6, NotesStep, Elsewhere
<1>15. CASE ForegroundResume
  <2>1. pc = "fgResume" /\ pc' = "fgWait" /\ UNCHANGED <<jobs, cur>> /\ Bystanders
    BY <1>15 DEF ForegroundResume, table, call, Bystanders
  <2>2. NotesOK' /\ RunningOK'
    BY <1>a, <2>1, NotesStep, RunningKept
  <2> DEFINE p == jobs[cur].child
  <2>3. p \in Pids /\ jobs[cur].pgid = grp[p] /\ Live(pst, p)
    BY <1>a, <1>c, <2>1 DEF Inv, LocalsOK, EntryOK, EntryIn, ResumedOK
  <2>4. pst'[p] # "stop"
    BY <1>15, <2>3 DEF ForegroundResume, ContinueGroup
  <2> HIDE DEF p
  <2>5. Live(pst', p) /\ Told(pst', note', p)
    BY <1>a, <2>1, <2>3, <2>4, Undisturbed DEF Told
  <2>6. ResumedOK' /\ StagesOK'
    BY <2>1, <2>5 DEF ResumedOK, StagesOK, p
  <2>7. QED
    BY <2>2, <2>6
<1>16. CASE BackgroundResume
  <2>1. pc = "bgResume" /\ pc' = "next" /\ Bystanders
    BY <1>16 DEF BackgroundResume, Bystanders, Return
  <2> DEFINE p == jobs[cur].child
  <2>2. cur \in 1 .. Len(jobs) /\ p \in Pids /\ jobs[cur].pgid = grp[p] /\ Live(pst, p)
    BY <1>a, <1>c, <2>1 DEF Inv, LocalsOK, EntryOK, EntryIn, ResumedOK
  <2>3. pst'[p] # "stop"
    BY <1>16, <2>2 DEF BackgroundResume, ContinueGroup
  <2>4. /\ Len(jobs') = Len(jobs)
        /\ \A i \in 1 .. Len(jobs) : jobs'[i].child = jobs[i].child /\ (i # cur => jobs'[i] = jobs[i])
    <3> DEFINE j == [jobs[cur] EXCEPT !.state = "running"]
    <3>1. j \in Job /\ j.child = p
      BY <1>c, <2>2 DEF Job, JobStates
    <3>2. jobs' = [jobs EXCEPT ![cur] = j]
      BY <1>16 DEF BackgroundResume
    <3> HIDE DEF j
    <3>3. Len(jobs') = Len(jobs) /\ \A i \in 1 .. Len(jobs) : jobs'[i] = IF i = cur THEN j ELSE jobs[i]
      BY <1>b, <2>2, <3>1, <3>2, ExceptSeq
    <3>4. QED
      BY <3>1, <3>3
  <2> HIDE DEF p
  <2>5. Live(pst', p) /\ Told(pst', note', p)
    BY <1>a, <2>1, <2>2, <2>3, Undisturbed DEF Told
  <2>6. RunningOK'
    <3>1. SUFFICES ASSUME NEW i \in 1 .. Len(jobs), jobs'[i].state = "running"
                   PROVE  Live(pst', jobs[i].child) /\ Told(pst', note', jobs[i].child)
      BY <2>4 DEF RunningOK
    <3>2. CASE i = cur
      BY <2>5, <3>2 DEF p
    <3>3. CASE i # cur
      <4>1. Live(pst, jobs[i].child) /\ Told(pst, note, jobs[i].child) /\ jobs[i].child \in Pids
        BY <1>a, <1>c, <2>4, <3>1, <3>3 DEF RunningOK
      <4>2. QED
        BY <1>a, <2>1, <4>1, Undisturbed
    <3>4. QED
      BY <3>2, <3>3
  <2>7. QED
    BY <1>a, <2>1, <2>6, NotesStep, Elsewhere
<1>17. CASE ForegroundWait
  <2>1. cur \in 1 .. Len(jobs) /\ jobs[cur].pid = jobs[cur].child /\ pc' = "next"
    BY <1>17, <1>a, <1>c DEF ForegroundWait, Inv, LocalsOK, EntryOK, EntryIn, Return
  <2>2. Reads({jobs[cur].child})
    BY <1>17, <2>1 DEF ForegroundWait, Reads
  <2>3. NotesOK' /\ RunningOK'
    BY <1>4, <1>5, <1>17, <2>1, <2>2 DEF ForegroundWait
  <2>4. QED
    BY <2>1, <2>3, Elsewhere
<1>18. CASE WaitForJob
  <2>1. cur \in Nat /\ cur >= 1 /\ cur <= Len(jobs)
    BY <1>18, <1>a DEF WaitForJob, Inv, LocalsOK, TypeOK
  <2>2. cur \in 1 .. Len(jobs)
    BY <1>b, <2>1
  <2>3. jobs[cur].state # "done" => jobs[cur].pid = jobs[cur].child
    BY <1>c, <2>2 DEF EntryOK, EntryIn
  <2>4. pc' \notin {"fgResume", "bgResume", "fgWait", "capture", "pipe"}
    BY <1>18 DEF WaitForJob, WaitKeeps, WaitRemoves, Return
  <2>5. UNCHANGED nextPid
    BY <1>18 DEF WaitForJob
  <2>6. CASE UNCHANGED <<pst, note, jobs>>
    BY <1>2, <2>4, <2>5, <2>6 DEF Bystanders
  <2>7. CASE UNCHANGED <<pst, note>> /\ jobs' = RemoveAt(jobs, cur)
    <3>1. Bystanders
      BY <2>5, <2>7 DEF Bystanders
    <3>2. QED
      BY <1>4, <2>2, <2>4, <2>7, <3>1, Elsewhere
  <2>8. CASE jobs[cur].state = "running" /\ Consumed({jobs[cur].pid}) /\ jobs' = RemoveAt(jobs, cur)
    <3>1. Reads({jobs[cur].child})
      BY <2>3, <2>5, <2>8 DEF Reads
    <3>2. QED
      BY <1>4, <2>2, <2>4, <2>8, <3>1, Elsewhere
  <2>9. CASE /\ jobs[cur].state = "running" /\ Consumed({jobs[cur].pid})
             /\ jobs' = [jobs EXCEPT ![cur].state = "stopped", ![cur].exit_code = StopCode]
    <3>1. Reads({jobs[cur].child})
      BY <2>3, <2>5, <2>9 DEF Reads
    <3>2. QED
      BY <1>5, <2>2, <2>4, <2>9, <3>1, Elsewhere
  <2>10. QED
    BY <1>18, <2>6, <2>7, <2>8, <2>9 DEF WaitForJob, WaitRemoves
<1>19. ASSUME NEW n \in 1 .. MaxStages, NEW capture \in BOOLEAN, StartPipeline(n, capture)
       PROVE  NotesOK' /\ RunningOK' /\ ResumedOK' /\ StagesOK'
  <2>1. n \in Nat /\ nextPid \in Nat
    BY <1>a, BoundsAssumption DEF Inv, TypeOK
  <2>2. Fork(n) /\ UNCHANGED <<note, jobs>> /\ pc' \in {"capture", "pipe"} /\ cur' = 1
    BY <1>19 DEF StartPipeline, table, Locals
  <2>3. Bystanders
    BY <2>1, <2>2 DEF Bystanders
  <2>4. Len(pipe') = n /\ \A k \in 1 .. n : pipe'[k] = nextPid + k - 1 /\ pipe'[k] \in Pids
    BY <1>a, <1>19, NewPipe
  <2>5. \A k \in 1 .. n : pipe'[k] \in nextPid .. nextPid + n - 1
    BY <2>1, <2>4
  <2>6. \A k \in 1 .. n : pst'[pipe'[k]] = "run"
    BY <2>2, <2>4, <2>5 DEF Fork
  <2>7. StagesOK' /\ ResumedOK'
    BY <2>2, <2>4, <2>6 DEF StagesOK, ResumedOK, Live, Told
  <2>8. QED
    BY <1>a, <2>2, <2>3, <2>7, NotesStep, RunningKept
<1>20. CASE CaptureEnds \/ CaptureInterrupted
  <2>1. UNCHANGED <<pst, note, nextPid, jobs, cur, pipe>> /\ pc = "capture" /\ pc' = "pipe"
    BY <1>20 DEF CaptureEnds, CaptureInterrupted, kernel, table, call
  <2>2. QED
    BY <1>a, <2>1 DEF NotesOK, RunningOK, ResumedOK, StagesOK
\* The stage waited for is no entry's child and no other stage.
<1>21. ASSUME pc = "pipe", Reads({pipe[cur]}), UNCHANGED jobs
       PROVE  NotesOK' /\ RunningOK'
  <2>1. cur \in 1 .. Len(pipe) /\ \A i \in 1 .. Len(jobs) : jobs[i].child # pipe[cur]
    BY <1>a, <1>21 DEF Inv, LocalsOK, OrderInv, PipeApart
  <2>2. QED
    BY <1>a, <1>21, <2>1, NotesStep, RunningKept
<1>22. CASE PipelineWaitStage
  <2>1. pc = "pipe" /\ pc' = "pipe" /\ Reads({pipe[cur]}) /\ UNCHANGED <<jobs, pipe>> /\ cur' = cur + 1
    BY <1>22 DEF PipelineWaitStage, Reads, table
  <2>2. cur \in 1 .. Len(pipe) /\ pipe \in Seq(Pids) /\ Len(pipe) \in Nat
    BY <1>a, <2>1, LenProperties DEF Inv, LocalsOK, TypeOK
  <2>3. \A k \in cur + 1 .. Len(pipe) : k \in 1 .. Len(pipe) /\ k \in cur .. Len(pipe) /\ cur < k
    BY <2>2
  <2>4. \A k \in cur + 1 .. Len(pipe) : pipe[k] \in Pids /\ pipe[k] \notin {pipe[cur]}
    BY <1>a, <2>1, <2>2, <2>3, ElementOfSeq DEF OrderInv, PipeApart
  <2>5. \A k \in cur + 1 .. Len(pipe) : Live(pst, pipe[k]) /\ Told(pst, note, pipe[k])
    BY <1>a, <2>1, <2>3 DEF StagesOK
  <2>6. \A k \in cur + 1 .. Len(pipe) : Live(pst', pipe[k]) /\ Told(pst', note', pipe[k])
    BY <1>a, <2>1, <2>4, <2>5, Undisturbed
  <2>7. StagesOK' /\ ResumedOK'
    BY <2>1, <2>6 DEF StagesOK, ResumedOK
  <2>8. QED
    BY <1>21, <2>1, <2>7
<1>23. CASE PipelineEnds
  <2>1. pc = "pipe" /\ pc' \in {"next", "dead"} /\ Reads({pipe[cur]})
    BY <1>23 DEF PipelineEnds, Reads, Return
  <2>2. CASE UNCHANGED jobs
    BY <1>21, <2>1, <2>2, Elsewhere
  <2>3. CASE jobs' = Append(jobs, NewJob("stopped", pipe[cur], grp[pipe[cur]]))
    <3> DEFINE j == NewJob("stopped", pipe[cur], grp[pipe[cur]])
    <3>1. cur \in 1 .. Len(pipe) /\ pipe \in Seq(Pids)
      BY <1>a, <2>1 DEF Inv, LocalsOK, TypeOK
    <3>2. pipe[cur] \in Pids /\ grp[pipe[cur]] \in Pids
      BY <1>a, <2>1, <3>1, ElementOfSeq DEF Inv, LocalsOK
    <3>3. j \in Job /\ j.state = "stopped"
      BY <1>a, <3>2, CodesFacts DEF NewJob, Job, JobStates, Inv, TypeOK
    <3>4. \A i \in 1 .. Len(jobs) : jobs[i].child # pipe[cur]
      BY <1>a, <2>1, <3>1 DEF OrderInv, PipeApart
    <3> HIDE DEF j
    <3>5. /\ Len(jobs') = Len(jobs) + 1
          /\ \A i \in 1 .. Len(jobs) + 1 : jobs'[i] = IF i <= Len(jobs) THEN jobs[i] ELSE j
      BY <1>b, <2>3, <3>3, AppendProperties DEF j
    <3>6. \A i \in 1 .. Len(jobs') : jobs'[i].state = "running" => i \in 1 .. Len(jobs) /\ jobs'[i] = jobs[i]
      BY <1>b, <3>3, <3>5
    <3>7. RunningOK'
      <4>1. /\ Reads({pipe[cur]})
            /\ \A i \in 1 .. Len(jobs') : jobs'[i].state = "running" => jobs'[i].child \notin {pipe[cur]}
        BY <2>1, <3>4, <3>6
      <4>2. QED
        BY <1>a, <3>6, <4>1, RunningKept
    <3>8. QED
      BY <1>a, <2>1, <3>7, NotesStep, Elsewhere
  <2>4. QED
    BY <1>23, <2>2, <2>3 DEF PipelineEnds
<1>24. QED
  BY <1>6, <1>7, <1>8, <1>9, <1>10, <1>11, <1>12, <1>13, <1>14, <1>15, <1>16, <1>17, <1>18, <1>19,
     <1>20, <1>22, <1>23 DEF Next, Commands, Shell, Chance

\* No wait of the shell is for a child that is gone or whose stop it has
\* already read, so none of them blocks for good or fails with ECHILD, however
\* stops, continues and ends of children fall between the steps of fg, bg,
\* wait, a refresh and a pipeline (platform.c:1953, platform.c:2246,
\* shell.c:7917).
THEOREM WaitsAnswered == Spec => []NeverStuck
<1>1. Init => WaitInv
  <2>1. Init => OrderInv
    BY OrderInit
  <2>2. Init => NotesOK
    BY BoundsAssumption DEF Init, NotesOK, Pids
  <2>3. Init => RunningOK /\ ResumedOK /\ StagesOK
    BY EmptySeq DEF Init, RunningOK, ResumedOK, StagesOK
  <2>4. QED
    BY <2>1, <2>2, <2>3 DEF WaitInv
<1>2. WaitInv => NeverStuck
  <2>1. SUFFICES ASSUME WaitInv, NEW p \in Awaited
                 PROVE  Live(pst, p) /\ (pc = "fgResume" \/ Told(pst, note, p))
    BY DEF NeverStuck, Live, Told
  <2>2. jobs \in Seq(Job) /\ DOMAIN jobs = 1 .. Len(jobs) /\ Inv
    BY <2>1, LenProperties DEF WaitInv, OrderInv, Inv, TypeOK
  <2>3. \A i \in 1 .. Len(jobs) : jobs[i].state # "done" => jobs[i].pid = jobs[i].child
    BY <2>2 DEF Inv, EntriesOK, EntryOK, EntryIn
  <2>4. CASE pc \in {"fgResume", "fgWait"}
    <3>1. p = jobs[cur].child
      BY <2>1, <2>2, <2>3, <2>4 DEF Awaited, Inv, LocalsOK
    <3>2. QED
      BY <2>1, <2>4, <3>1 DEF WaitInv, ResumedOK
  <2>5. CASE pc \in {"capture", "pipe"}
    BY <2>1, <2>5 DEF Awaited, WaitInv, StagesOK
  <2>6. CASE pc \in {"waitAll", "waitOne"}
    <3>1. \E i \in 1 .. Len(jobs) : jobs[i].state = "running" /\ p = jobs[i].child
      BY <2>1, <2>2, <2>3, <2>6 DEF Awaited
    <3>2. QED
      BY <2>1, <3>1 DEF WaitInv, RunningOK
  <2>7. CASE pc \notin {"fgResume", "fgWait", "capture", "pipe", "waitAll", "waitOne"}
    BY <2>1, <2>7 DEF Awaited
  <2>8. QED
    BY <2>4, <2>5, <2>6, <2>7
<1>3. QED
  BY <1>1, <1>2, WaitNext, PTL DEF Spec

-----------------------------------------------------------------------------
(* What the table says about the children *)

(* Strengthenings for the order, the terminal and the waits *)

\* What an entry j records of its child, with the states S, the unread
\* notifications N, the exit statuses C and the groups G of the children: a
\* done entry is for a child that was reaped; if that child led its group, its
\* exit status was kept, and it was not reaped behind the entry's back; and
\* when a stopped job was continued, the shell has yet to hear of it.
Records(j, S, N, C, G) ==
  /\ j.state = "done" => S[j.child] = "gone"
  /\ (j.state = "done" /\ G[j.child] = j.child) => j.exit_code = C[j.child]
  /\ (j.state # "done" /\ G[j.child] = j.child) => S[j.child] # "gone"
  /\ (j.state = "stopped" /\ S[j.child] = "run") => N[j.child] = "continued"

\* An entry whose child still exists shows what the child is doing.
Shows(j, S) ==
  (j.state # "done" /\ S[j.child] # "gone") =>
    S[j.child] = IF j.state = "running" THEN "run" ELSE "stop"

\* A refresh of the table is due.
RefreshPcs == {"refresh", "replRefresh"}
Due        == chldPending \/ pc \in RefreshPcs

RecordsOK == \A i \in 1 .. Len(jobs) : Records(jobs[i], pst, note, code, grp)
ShowsOK   == Due \/ \A i \in 1 .. Len(jobs) : Shows(jobs[i], pst)

\* The stages of a pipeline are one group, led by the first; and the stages
\* already waited for, if none of them had stopped, were reaped and anyFailed
\* is what they ended with.
PipeOK ==
  pc \in {"capture", "pipe"} =>
    /\ \A k \in 1 .. Len(pipe) : grp[pipe[k]] = pipe[1]
    /\ anyStopped => cur > 1
    /\ ~ anyStopped => \A k \in 1 .. cur - 1 : pst[pipe[k]] = "gone"
    /\ ~ anyStopped => (anyFailed <=> \E k \in 1 .. cur - 1 : code[pipe[k]] # 0)

TableInv == WaitInv /\ RecordsOK /\ ShowsOK /\ PipeOK

-----------------------------------------------------------------------------
(* One child *)

\* What a step that reads no notification of the child p may do to it.
Quiet(p) ==
  /\ grp'[p] = grp[p]
  /\ pst'[p] = "gone" <=> pst[p] = "gone"
  /\ pst[p] = "gone" => code'[p] = code[p]
  /\ pst'[p] = "run" => (pst[p] = "run" /\ note'[p] = note[p]) \/ note'[p] = "continued"
  /\ pst'[p] = pst[p] \/ chldPending'

\* The steps that read nothing of a child change only what it tells.
LEMMA QuietStep ==
  ASSUME Inv, NotesOK, NEW p \in Pids, p < nextPid,
         \/ \E q \in Pids, c \in ExitCodes : ChildExits(q, c)
         \/ \E g \in Pids : GroupStops(g)
         \/ (\E g : ContinueGroup(g)) /\ UNCHANGED <<code, grp>>
         \/ (\E n \in Nat : Fork(n)) /\ UNCHANGED <<note, code>>
         \/ UNCHANGED <<pst, note, code, grp>>
         \/ (\E Q : p \notin Q /\ Consumed(Q)) /\ UNCHANGED <<code, grp>>
  PROVE  Quiet(p)
<1> USE DEF Quiet
<1>0. /\ pst \in [Pids -> PStates] /\ note \in [Pids -> Notes] /\ code \in [Pids -> Codes]
      /\ grp \in [Pids -> Pids \cup {NoPid}]
  BY DEF Inv, TypeOK
<1>1. CASE \E q \in Pids, c \in ExitCodes : ChildExits(q, c)
  BY <1>0, <1>1 DEF ChildExits, Alive
<1>2. CASE \E g \in Pids : GroupStops(g)
  BY <1>0, <1>2 DEF GroupStops
<1>3. CASE (\E g : ContinueGroup(g)) /\ UNCHANGED <<code, grp>>
  <2>1. PICK g : ContinueGroup(g)
    BY <1>3
  <2>2. CASE grp[p] = g /\ pst[p] = "stop"
    <3>1. p \in {q \in Pids : grp[q] = g /\ pst[q] = "stop"}
      BY <2>2
    <3>2. pst'[p] = "run" /\ note'[p] = "continued"
      BY <2>1, <3>1 DEF ContinueGroup
    <3>3. chldPending'
      BY <2>1, <3>1 DEF ContinueGroup
    <3>4. QED
      BY <1>3, <2>2, <3>2, <3>3
  <2>3. CASE ~ (grp[p] = g /\ pst[p] = "stop")
    <3>1. pst'[p] = pst[p] /\ note'[p] = note[p]
      BY <2>1, <2>3 DEF ContinueGroup
    <3>2. QED
      BY <1>3, <3>1
  <2>4. QED
    BY <2>2, <2>3
<1>4. CASE (\E n \in Nat : Fork(n)) /\ UNCHANGED <<note, code>>
  <2>1. PICK n \in Nat : Fork(n)
    BY <1>4
  <2>2. p \notin nextPid .. nextPid + n - 1
    BY PidsFacts, BoundsAssumption DEF Inv, TypeOK
  <2>3. pst'[p] = pst[p] /\ grp'[p] = grp[p]
    BY <2>1, <2>2 DEF Fork
  <2>4. QED
    BY <1>4, <2>3
<1>5. CASE UNCHANGED <<pst, note, code, grp>>
  BY <1>5
<1>6. CASE (\E Q : p \notin Q /\ Consumed(Q)) /\ UNCHANGED <<code, grp>>
  <2>1. pst'[p] = pst[p] /\ note'[p] = note[p]
    BY <1>6 DEF Consumed
  <2>2. QED
    BY <1>6, <2>1
<1>7. QED
  BY <1>1, <1>2, <1>3, <1>4, <1>5, <1>6

-----------------------------------------------------------------------------
(* One entry *)

\* The child of an entry is one of the children forked so far.
LEMMA ChildFacts ==
  ASSUME Inv, NEW i \in 1 .. Len(jobs)
  PROVE  /\ jobs[i] \in Job /\ EntryOK(jobs[i])
         /\ jobs[i].child \in Pids /\ jobs[i].child \in Nat /\ nextPid \in Nat
         /\ jobs[i].child < nextPid
<1>1. jobs[i] \in Job
  BY ElementOfSeq DEF Inv, TypeOK
<1>2. EntryOK(jobs[i])
  BY DEF Inv, EntriesOK
<1>3. jobs[i].child \in Pids /\ jobs[i].child \in Nat
  BY <1>1, PidsFacts DEF Job
<1>4. nextPid \in Nat
  BY BoundsAssumption DEF Inv, TypeOK
<1>5. QED
  BY <1>1, <1>2, <1>3, <1>4 DEF EntryOK, EntryIn

\* An entry whose child is not read stays right.
LEMMA KeptEntry ==
  ASSUME TableInv, NEW j \in Job, Quiet(j.child), Due => Due',
         Records(j, pst, note, code, grp), Due \/ Shows(j, pst)
  PROVE  Records(j, pst', note', code', grp') /\ (Due' \/ Shows(j, pst'))
<1>1. Records(j, pst', note', code', grp')
  BY DEF Records, Quiet
<1>2. Due' \/ Shows(j, pst')
  BY DEF Shows, Due, Quiet
<1>3. QED
  BY <1>1, <1>2

\* Entries that are kept, and entries that are written, suit their children.
LEMMA TableKept ==
  ASSUME TableInv, Due => Due',
         \A i \in 1 .. Len(jobs') :
           \/ \E k \in 1 .. Len(jobs) : jobs'[i] = jobs[k] /\ Quiet(jobs[k].child)
           \/ Records(jobs'[i], pst', note', code', grp') /\ Shows(jobs'[i], pst')
  PROVE  RecordsOK' /\ ShowsOK'
<1>1. ASSUME NEW i \in 1 .. Len(jobs')
      PROVE  Records(jobs'[i], pst', note', code', grp') /\ (Due' \/ Shows(jobs'[i], pst'))
  <2>1. CASE Records(jobs'[i], pst', note', code', grp') /\ Shows(jobs'[i], pst')
    BY <2>1
  <2>2. ASSUME NEW k \in 1 .. Len(jobs), jobs'[i] = jobs[k], Quiet(jobs[k].child)
        PROVE  Records(jobs'[i], pst', note', code', grp') /\ (Due' \/ Shows(jobs'[i], pst'))
    <3>1. jobs[k] \in Job
      BY ElementOfSeq DEF TableInv, WaitInv, OrderInv, Inv, TypeOK
    <3>2. Records(jobs[k], pst, note, code, grp) /\ (Due \/ Shows(jobs[k], pst))
      BY DEF TableInv, RecordsOK, ShowsOK
    <3>3. Records(jobs[k], pst', note', code', grp') /\ (Due' \/ Shows(jobs[k], pst'))
      BY <2>2, <3>1, <3>2, KeptEntry
    <3>4. QED
      BY <2>2, <3>3
  <2>3. QED
    BY <2>1, <2>2
<1>2. RecordsOK'
  BY <1>1 DEF RecordsOK
<1>3. ShowsOK'
  BY <1>1 DEF ShowsOK
<1>4. QED
  BY <1>2, <1>3

\* A refresh makes the whole table right.
LEMMA TableRefreshed ==
  ASSUME TableInv, Refresh, jobs' = Refreshed
  PROVE  RecordsOK' /\ ShowsOK'
<1>0. Inv /\ TypeOK /\ EntriesOK /\ NotesOK /\ RunningOK /\ RecordsOK
  BY DEF TableInv, WaitInv, OrderInv, Inv
<1>1. ASSUME NEW i \in 1 .. Len(jobs)
      PROVE  Records(jobs'[i], pst', note', code', grp') /\ Shows(jobs'[i], pst')
  <2> DEFINE p == jobs[i].child
  <2>1. jobs'[i] = Polled(jobs[i]) /\ jobs'[i].child = p
    BY <1>0, RefreshedFacts
  <2>2. jobs[i] \in Job /\ EntryOK(jobs[i])
    BY <1>0, ChildFacts
  <2>3. p \in Pids /\ p < nextPid /\ p \in Nat /\ nextPid \in Nat
    BY <1>0, ChildFacts
  <2>4. Records(jobs[i], pst, note, code, grp)
    BY <1>0 DEF RecordsOK
  <2>5. /\ code' = code /\ grp' = grp
        /\ pst'[p] = IF p \in PolledPids /\ pst[p] = "zombie" THEN "gone" ELSE pst[p]
    BY <2>3 DEF Refresh, Consumed
  <2>6. CASE jobs[i].state = "done"
    <3>1. jobs'[i] = jobs[i]
      BY <2>1, <2>6 DEF Polled
    <3>2. pst[p] = "gone" /\ pst'[p] = "gone"
      BY <2>4, <2>5, <2>6 DEF Records
    <3>3. QED
      BY <2>4, <2>5, <2>6, <3>1, <3>2 DEF Records, Shows
  <2>7. CASE jobs[i].state # "done"
    <3>1. jobs[i].pid = p
      BY <2>2, <2>7 DEF EntryOK, EntryIn
    <3>2. p \in PolledPids
      <4>1. i \in DOMAIN jobs
        BY <1>0, LenProperties DEF TypeOK
      <4>2. QED
        BY <2>7, <3>1, <4>1 DEF PolledPids
    <3>3. pst[p] # "none"
      <4>1. ~ (p >= nextPid)
        BY <2>3
      <4>2. QED
        BY <1>0, <2>3, <4>1 DEF NotesOK
    <3>4. CASE pst[p] = "gone"
      <4>1. jobs'[i].state = "done" /\ pst'[p] = "gone" /\ grp[p] # p
        BY <2>1, <2>2, <2>4, <2>5, <2>7, <3>1, <3>4 DEF Polled, Finished, Job, Records
      <4>2. QED
        BY <2>1, <2>5, <4>1 DEF Records, Shows
    <3>5. CASE pst[p] = "zombie"
      <4>1. jobs'[i].state = "done" /\ jobs'[i].exit_code = code[p] /\ pst'[p] = "gone"
        BY <2>1, <2>2, <2>5, <2>7, <3>1, <3>2, <3>5 DEF Polled, Finished, Job
      <4>2. QED
        BY <2>1, <2>5, <4>1 DEF Records, Shows
    <3>6. CASE pst[p] \in {"run", "stop"}
      <4>1. pst'[p] = pst[p]
        BY <2>5, <3>6
      <4>2. note[p] \in Notes /\ jobs[i].state \in {"running", "stopped"}
        BY <1>0, <2>2, <2>3, <2>7 DEF TypeOK, Job, JobStates
      <4>3. jobs'[i].state = IF pst[p] = "run" THEN "running" ELSE "stopped"
        <5>1. CASE note[p] = "stopped"
          BY <1>0, <2>1, <2>2, <2>3, <2>7, <3>1, <3>6, <5>1 DEF Polled, NotesOK, Job
        <5>2. CASE note[p] = "continued"
          BY <1>0, <2>1, <2>2, <2>3, <2>7, <3>1, <3>6, <5>2 DEF Polled, NotesOK, Job
        <5>3. CASE note[p] = "none"
          <6>1. jobs'[i] = jobs[i]
            BY <2>1, <3>1, <3>6, <5>3 DEF Polled
          <6>2. jobs[i].state = "running" => pst[p] = "run"
            BY <1>0, <3>6, <5>3 DEF RunningOK, Told
          <6>3. jobs[i].state = "stopped" => pst[p] = "stop"
            BY <2>4, <3>6, <5>3 DEF Records
          <6>4. QED
            BY <3>6, <4>2, <6>1, <6>2, <6>3
        <5>4. QED
          BY <4>2, <5>1, <5>2, <5>3 DEF Notes
      <4>4. QED
        BY <2>1, <3>6, <4>1, <4>3 DEF Records, Shows
    <3>7. QED
      BY <1>0, <2>3, <3>3, <3>4, <3>5, <3>6 DEF TypeOK, PStates
  <2>8. QED
    BY <2>6, <2>7
<1>2. Len(jobs') = Len(jobs)
  BY <1>0, RefreshedFacts
<1>3. QED
  BY <1>1, <1>2 DEF RecordsOK, ShowsOK

\* Removing the entry at cur, and reading no notification but its child's.
LEMMA TableRemoved ==
  ASSUME TableInv, Due => Due', cur \in 1 .. Len(jobs), jobs' = RemoveAt(jobs, cur),
         \/ UNCHANGED <<pst, note>>
         \/ Consumed({jobs[cur].child}),
         UNCHANGED <<code, grp>>
  PROVE  RecordsOK' /\ ShowsOK'
<1>0. Inv /\ NotesOK /\ Ascending(jobs) /\ jobs \in Seq(Job) /\ Len(jobs) \in Nat
  BY LenProperties DEF TableInv, WaitInv, OrderInv, Inv, TypeOK
<1>1. ASSUME NEW i \in 1 .. Len(jobs')
      PROVE  \E k \in 1 .. Len(jobs) : jobs'[i] = jobs[k] /\ Quiet(jobs[k].child)
  <2> DEFINE k == IF i < cur THEN i ELSE i + 1
  <2>1. k \in 1 .. Len(jobs) /\ k # cur /\ jobs'[i] = jobs[k]
    <3>1. Len(jobs') = Len(jobs) - 1 /\ i \in 1 .. Len(jobs) - 1
      BY <1>0, <1>1, RemoveAtFacts
    <3>2. jobs'[i] = jobs[k]
      BY <1>0, <3>1, RemoveAtFacts
    <3>3. k \in 1 .. Len(jobs) /\ k # cur
      BY <1>0, <3>1
    <3>4. QED
      BY <3>2, <3>3
  <2> HIDE DEF k
  <2>2. jobs[k].child # jobs[cur].child
    BY <1>0, <2>1 DEF Ascending
  <2>3. jobs[k].child \in Pids /\ jobs[k].child < nextPid
    BY <1>0, <2>1, ChildFacts
  <2>4. Quiet(jobs[k].child)
    <3>1. \/ UNCHANGED <<pst, note, code, grp>>
          \/ (\E Q : jobs[k].child \notin Q /\ Consumed(Q)) /\ UNCHANGED <<code, grp>>
      BY <2>2
    <3>2. QED
      BY <1>0, <2>3, <3>1, QuietStep
  <2>5. QED
    BY <2>1, <2>4
<1>2. QED
  BY <1>1, TableKept

\* Entering the stop of the child of the entry at cur.
LEMMA TableStopped ==
  ASSUME TableInv, Due => Due', cur \in 1 .. Len(jobs), pst[jobs[cur].child] = "stop",
         jobs' = [jobs EXCEPT ![cur].state = "stopped", ![cur].exit_code = StopCode],
         Consumed({jobs[cur].child}), UNCHANGED <<code, grp>>
  PROVE  RecordsOK' /\ ShowsOK'
<1>0. Inv /\ NotesOK /\ Ascending(jobs) /\ jobs \in Seq(Job) /\ Len(jobs) \in Nat
  BY LenProperties DEF TableInv, WaitInv, OrderInv, Inv, TypeOK
<1> DEFINE j == [jobs[cur] EXCEPT !.state = "stopped", !.exit_code = StopCode]
<1>1. jobs[cur] \in Job /\ jobs[cur].child \in Pids
  BY <1>0, ChildFacts
<1>2. j \in Job /\ j.state = "stopped" /\ j.child = jobs[cur].child
  BY <1>1, CodesFacts DEF Job, JobStates
<1>3. jobs' = [jobs EXCEPT ![cur] = j]
  OBVIOUS
<1> HIDE DEF j
<1>4. Len(jobs') = Len(jobs) /\ \A k \in 1 .. Len(jobs) : jobs'[k] = IF k = cur THEN j ELSE jobs[k]
  BY <1>0, <1>2, <1>3, ExceptSeq
<1>5. ASSUME NEW i \in 1 .. Len(jobs')
      PROVE  \/ \E k \in 1 .. Len(jobs) : jobs'[i] = jobs[k] /\ Quiet(jobs[k].child)
             \/ Records(jobs'[i], pst', note', code', grp') /\ Shows(jobs'[i], pst')
  <2>1. CASE i = cur
    <3>1. jobs'[i] = j /\ pst'[j.child] = "stop"
      BY <1>1, <1>2, <1>4, <2>1 DEF Consumed
    <3>2. QED
      BY <1>2, <3>1 DEF Records, Shows
  <2>2. CASE i # cur
    <3>1. i \in 1 .. Len(jobs) /\ jobs'[i] = jobs[i] /\ jobs[i].child # jobs[cur].child
      BY <1>0, <1>4, <1>5, <2>2 DEF Ascending
    <3>2. jobs[i].child \in Pids /\ jobs[i].child < nextPid
      BY <1>0, <3>1, ChildFacts
    <3>3. (\E Q : jobs[i].child \notin Q /\ Consumed(Q)) /\ UNCHANGED <<code, grp>>
      BY <3>1
    <3>4. QED
      BY <1>0, <3>1, <3>2, <3>3, QuietStep
  <2>3. QED
    BY <2>1, <2>2
<1>6. QED
  BY <1>5, TableKept

\* The table is left alone, and the children it is about are not read.
LEMMA TableAlone ==
  ASSUME TableInv, Due => Due', UNCHANGED jobs,
         \A i \in 1 .. Len(jobs) : Quiet(jobs[i].child)
  PROVE  RecordsOK' /\ ShowsOK'
BY TableKept

\* A new entry after entries whose children are not read.
LEMMA TableAppended ==
  ASSUME TableInv, Due => Due', NEW j \in Job, jobs' = Append(jobs, j),
         \A i \in 1 .. Len(jobs) : Quiet(jobs[i].child),
         Records(j, pst', note', code', grp'), Shows(j, pst')
  PROVE  RecordsOK' /\ ShowsOK'
<1>0. jobs \in Seq(Job) /\ Len(jobs) \in Nat
  BY LenProperties DEF TableInv, WaitInv, OrderInv, Inv, TypeOK
<1>1. /\ Len(jobs') = Len(jobs) + 1
      /\ \A i \in 1 .. Len(jobs) + 1 : jobs'[i] = IF i <= Len(jobs) THEN jobs[i] ELSE j
  BY <1>0, AppendProperties
<1>2. ASSUME NEW i \in 1 .. Len(jobs')
      PROVE  \/ \E k \in 1 .. Len(jobs) : jobs'[i] = jobs[k] /\ Quiet(jobs[k].child)
             \/ Records(jobs'[i], pst', note', code', grp') /\ Shows(jobs'[i], pst')
  <2>1. CASE i <= Len(jobs)
    <3>1. i \in 1 .. Len(jobs) /\ jobs'[i] = jobs[i]
      BY <1>0, <1>1, <1>2, <2>1
    <3>2. QED
      BY <3>1
  <2>2. CASE ~ (i <= Len(jobs))
    BY <1>0, <1>1, <1>2, <2>2
  <2>3. QED
    BY <2>1, <2>2
<1>3. QED
  BY <1>2, TableKept

\* No notification of a child in the table is read.
LEMMA EntriesQuiet ==
  ASSUME TableInv,
         \/ \E q \in Pids, c \in ExitCodes : ChildExits(q, c)
         \/ \E g \in Pids : GroupStops(g)
         \/ (\E g : ContinueGroup(g)) /\ UNCHANGED <<code, grp>>
         \/ (\E n \in Nat : Fork(n)) /\ UNCHANGED <<note, code>>
         \/ UNCHANGED <<pst, note, code, grp>>
         \/ /\ \E Q : Consumed(Q) /\ \A i \in 1 .. Len(jobs) : jobs[i].child \notin Q
            /\ UNCHANGED <<code, grp>>
  PROVE  \A i \in 1 .. Len(jobs) : Quiet(jobs[i].child)
<1>1. SUFFICES ASSUME NEW i \in 1 .. Len(jobs) PROVE Quiet(jobs[i].child)
  OBVIOUS
<1>2. Inv /\ NotesOK
  BY DEF TableInv, WaitInv, OrderInv
<1>3. jobs[i].child \in Pids /\ jobs[i].child < nextPid
  BY <1>2, ChildFacts
<1>4. QED
  BY <1>2, <1>3, QuietStep

\* A child that waitpid reports on has ended or is stopped.
LEMMA WaitableFacts ==
  ASSUME NotesOK, NEW p \in Pids, Waitable(p)
  PROVE  pst[p] \in {"zombie", "stop"}
BY DEF NotesOK, Waitable

\* One case for each action.
LEMMA TableNext == TableInv /\ [Next]_vars => RecordsOK' /\ ShowsOK'
<1> SUFFICES ASSUME TableInv, [Next]_vars PROVE RecordsOK' /\ ShowsOK'
  OBVIOUS
<1>a. /\ WaitInv /\ OrderInv /\ Inv /\ NotesOK /\ RunningOK /\ PipeApart /\ LocalsOK
      /\ PipeOK /\ RecordsOK /\ ShowsOK
  BY DEF TableInv, WaitInv, OrderInv, Inv
<1>b. Len(jobs) \in Nat /\ cur \in Nat
  BY <1>a, LenProperties DEF Inv, TypeOK
<1>c. \A i \in 1 .. Len(jobs) : /\ jobs[i] \in Job
                                /\ jobs[i].state # "done" =>
                                     jobs[i].pid = jobs[i].child /\ jobs[i].pgid = grp[jobs[i].child]
  BY <1>a, ChildFacts DEF EntryOK, EntryIn
<1> USE DEF Due, RefreshPcs
<1>1. CASE StartBackground \/ ListJobs \/ WaitAll \/ FireRefresh
  BY <1>1, TableRefreshed DEF StartBackground, ListJobs, WaitAll, FireRefresh
<1>2. CASE \E arg \in 0 .. MaxProcs : Foreground(arg) \/ Background(arg)
  BY <1>2, TableRefreshed DEF Foreground, Background
<1>3. CASE \E id \in Pids : WaitOne(id)
  BY <1>3, TableRefreshed DEF WaitOne
<1>4. CASE PruneStep
  <2>1. UNCHANGED <<pst, note, code, grp, chldPending, pc>>
    BY <1>4 DEF PruneStep, kernel
  <2>2. cur \in 1 .. Len(jobs)
    BY <1>4, <1>a, <1>b DEF PruneStep, LocalsOK
  <2>3. CASE jobs' = RemoveAt(jobs, cur)
    BY <2>1, <2>2, <2>3, TableRemoved
  <2>4. CASE UNCHANGED jobs
    BY <2>1, <2>4, EntriesQuiet, TableAlone
  <2>5. QED
    BY <1>4, <2>3, <2>4 DEF PruneStep
<1>5. CASE PruneEnds \/ SpawnFails \/ WaitAllEnds \/ EmptyLine \/ LineEnds \/ ResumeFails
           \/ CaptureEnds \/ CaptureInterrupted
  <2>1. UNCHANGED <<pst, note, code, grp, chldPending, jobs>> /\ pc \notin RefreshPcs
    BY <1>5 DEF PruneEnds, SpawnFails, WaitAllEnds, EmptyLine, LineEnds, ResumeFails,
                CaptureEnds, CaptureInterrupted, kernel, table
  <2>2. QED
    BY <2>1, EntriesQuiet, TableAlone
<1>6. CASE FireClear
  <2>1. UNCHANGED <<pst, note, code, grp, jobs>> /\ (Due => Due')
    BY <1>6 DEF FireClear, kernel, table
  <2>2. QED
    BY <2>1, EntriesQuiet, TableAlone
<1>7. CASE \/ \E n \in 0 .. MaxStages - 1 : PipelineForkFails(n)
           \/ \E n \in 1 .. MaxStages, capture \in BOOLEAN : StartPipeline(n, capture)
  <2>1. MaxStages \in Nat
    BY BoundsAssumption
  <2>2. (\E n \in Nat : Fork(n)) /\ UNCHANGED <<note, code, jobs, chldPending>> /\ pc \notin RefreshPcs
    <3>1. CASE \E n \in 0 .. MaxStages - 1 : PipelineForkFails(n)
      <4>1. PICK n \in 0 .. MaxStages - 1 : PipelineForkFails(n)
        BY <3>1
      <4>2. n \in Nat
        BY <2>1
      <4>3. QED
        BY <4>1, <4>2 DEF PipelineForkFails, table, Command
    <3>2. CASE \E n \in 1 .. MaxStages, capture \in BOOLEAN : StartPipeline(n, capture)
      <4>1. PICK n \in 1 .. MaxStages, capture \in BOOLEAN : StartPipeline(n, capture)
        BY <3>2
      <4>2. n \in Nat
        BY <2>1
      <4>3. QED
        BY <4>1, <4>2 DEF StartPipeline, table, Command
    <3>3. QED
      BY <1>7, <3>1, <3>2
  <2>3. QED
    BY <2>2, EntriesQuiet, TableAlone
<1>8. CASE Children
  <2>1. UNCHANGED <<jobs, pc>> /\ (Due => Due')
    BY <1>8 DEF Children, ChildExits, GroupStops, GroupContinues, ContinueGroup, table
  <2>2. \A i \in 1 .. Len(jobs) : Quiet(jobs[i].child)
    BY <1>8, EntriesQuiet DEF Children, GroupContinues
  <2>3. QED
    BY <2>1, <2>2, TableAlone
<1>9. CASE UNCHANGED vars
  <2>1. UNCHANGED <<pst, note, code, grp, jobs, chldPending, pc>>
    BY <1>9 DEF vars
  <2>2. QED
    BY <2>1, EntriesQuiet, TableAlone
<1>10. CASE Spawn
  <2> DEFINE j == NewJob("running", nextPid, nextPid)
  <2>1. Fork(1) /\ 1 \in Nat /\ UNCHANGED <<note, code, chldPending>> /\ pc \notin RefreshPcs
    BY <1>10 DEF Spawn
  <2>2. nextPid \in Pids /\ nextPid \in Nat
    <3>1. 1 > 0
      OBVIOUS
    <3>2. nextPid \in Pids
      BY <1>a, <2>1, <3>1, ForkStep
    <3>3. QED
      BY <3>2, PidsFacts
  <2>3. pst'[nextPid] = "run"
    <3>1. nextPid \in nextPid .. nextPid + 1 - 1
      BY <2>2
    <3>2. QED
      BY <2>1, <2>2, <3>1 DEF Fork
  <2>4. j \in Job /\ j.child = nextPid /\ j.state = "running"
    BY <1>a, <2>2, CodesFacts DEF NewJob, Job, JobStates, Inv, TypeOK
  <2>5. jobs' = Append(jobs, j)
    BY <1>10 DEF Spawn
  <2> HIDE DEF j
  <2>6. Records(j, pst', note', code', grp') /\ Shows(j, pst')
    BY <2>3, <2>4 DEF Records, Shows
  <2>7. \A i \in 1 .. Len(jobs) : Quiet(jobs[i].child)
    BY <2>1, EntriesQuiet
  <2>8. Due => Due'
    BY <2>1
  <2>9. QED
    BY <2>4, <2>5, <2>6, <2>7, <2>8, TableAppended
<1>11. CASE ForegroundResume
  <2>1. UNCHANGED <<jobs, code, grp>> /\ (\E g : ContinueGroup(g)) /\ (Due => Due')
    BY <1>11 DEF ForegroundResume, ContinueGroup, table
  <2>2. QED
    BY <2>1, EntriesQuiet, TableAlone
<1>12. CASE BackgroundResume
  <2> DEFINE j == [jobs[cur] EXCEPT !.state = "running"]
  <2> DEFINE p == jobs[cur].child
  <2>1. /\ cur \in 1 .. Len(jobs) /\ jobs[cur].state # "done"
        /\ ContinueGroup(jobs[cur].pgid) /\ UNCHANGED <<code, grp>> /\ pc = "bgResume"
        /\ jobs' = [jobs EXCEPT ![cur] = j]
    BY <1>12, <1>a DEF BackgroundResume, LocalsOK
  <2>2. Due => Due'
    BY <1>12 DEF BackgroundResume, ContinueGroup
  <2>3. p \in Pids /\ jobs[cur].pgid = grp[p] /\ jobs[cur] \in Job
    BY <1>a, <1>c, <2>1, ChildFacts
  <2>4. j \in Job /\ j.child = p /\ j.state = "running"
    BY <2>3 DEF Job, JobStates
  <2>5. \A i \in 1 .. Len(jobs) : Quiet(jobs[i].child)
    BY <2>1, EntriesQuiet
  <2>6. Live(pst, p) /\ Live(pst', p)
    <3>1. Live(pst, p)
      BY <1>a, <2>1 DEF WaitInv, ResumedOK
    <3>2. QED
      BY <2>1, <2>3, <3>1 DEF ContinueGroup, Live
  <2>7. Due' \/ pst'[p] = "run"
    <3>1. CASE pst[p] = "stop"
      <4>1. p \in {q \in Pids : grp[q] = grp[p] /\ pst[q] = "stop"}
        BY <2>3, <3>1
      <4>2. chldPending'
        BY <2>1, <2>3, <4>1 DEF ContinueGroup
      <4>3. QED
        BY <4>2
    <3>2. CASE pst[p] # "stop" /\ ~ Due
      <4>1. Shows(jobs[cur], pst)
        BY <1>a, <2>1, <3>2 DEF ShowsOK
      <4>2. pst[p] = "run"
        BY <2>1, <2>6, <3>2, <4>1 DEF Shows, Live
      <4>3. QED
        BY <2>1, <2>3, <4>2 DEF ContinueGroup
    <3>3. QED
      BY <2>2, <3>1, <3>2
  <2> HIDE DEF j
  <2>8. Len(jobs') = Len(jobs) /\ \A i \in 1 .. Len(jobs) : jobs'[i] = IF i = cur THEN j ELSE jobs[i]
    BY <1>a, <2>1, <2>4, ExceptSeq DEF Inv, TypeOK
  <2>9. ASSUME NEW i \in 1 .. Len(jobs)
        PROVE  Records(jobs'[i], pst', note', code', grp') /\ (Due' \/ Shows(jobs'[i], pst'))
    <3>1. CASE i = cur
      BY <2>4, <2>6, <2>7, <2>8, <3>1 DEF Records, Shows, Live
    <3>2. CASE i # cur
      <4>1. Records(jobs[i], pst', note', code', grp') /\ (Due' \/ Shows(jobs[i], pst'))
        BY <1>a, <1>c, <2>2, <2>5, KeptEntry DEF RecordsOK, ShowsOK
      <4>2. QED
        BY <2>8, <3>2, <4>1
    <3>3. QED
      BY <3>1, <3>2
  <2>10. QED
    BY <2>8, <2>9 DEF RecordsOK, ShowsOK
<1>13. CASE ForegroundWait
  <2>1. cur \in 1 .. Len(jobs) /\ jobs[cur].pid = jobs[cur].child
    BY <1>13, <1>a, <1>c DEF ForegroundWait, LocalsOK
  <2>2. UNCHANGED <<code, grp, chldPending>> /\ pc = "fgWait" /\ Consumed({jobs[cur].child})
    BY <1>13, <2>1 DEF ForegroundWait
  <2>3. Due => Due'
    BY <2>2
  <2>4. CASE /\ pst[jobs[cur].child] = "stop"
             /\ jobs' = [jobs EXCEPT ![cur].state = "stopped", ![cur].exit_code = StopCode]
    BY <2>1, <2>2, <2>3, <2>4, TableStopped
  <2>5. CASE jobs' = RemoveAt(jobs, cur)
    BY <2>1, <2>2, <2>3, <2>5, TableRemoved
  <2>6. QED
    BY <1>13, <2>1, <2>4, <2>5 DEF ForegroundWait
<1>14. CASE WaitForJob
  <2>1. cur \in 1 .. Len(jobs)
    BY <1>14, <1>a, <1>b DEF WaitForJob, LocalsOK
  <2>2. UNCHANGED <<code, grp, chldPending>> /\ pc \in {"waitAll", "waitOne"}
    BY <1>14 DEF WaitForJob
  <2>3. Due => Due'
    BY <2>2
  <2>4. CASE UNCHANGED <<pst, note>> /\ jobs' = RemoveAt(jobs, cur)
    BY <2>1, <2>2, <2>3, <2>4, TableRemoved
  <2>5. CASE UNCHANGED <<pst, note, jobs>>
    BY <2>2, <2>3, <2>5, EntriesQuiet, TableAlone
  <2>6. CASE /\ jobs[cur].state = "running" /\ Consumed({jobs[cur].pid})
             /\ note[jobs[cur].pid] = "stopped"
             /\ jobs' = [jobs EXCEPT ![cur].state = "stopped", ![cur].exit_code = StopCode]
    <3>1. jobs[cur].pid = jobs[cur].child /\ jobs[cur].child \in Pids
      BY <1>a, <1>c, <2>1, <2>6, ChildFacts
    <3>2. pst[jobs[cur].child] = "stop"
      BY <1>a, <2>6, <3>1 DEF NotesOK
    <3>3. QED
      BY <2>1, <2>2, <2>3, <2>6, <3>1, <3>2, TableStopped
  <2>7. CASE jobs[cur].state = "running" /\ Consumed({jobs[cur].pid}) /\ jobs' = RemoveAt(jobs, cur)
    BY <1>c, <2>1, <2>2, <2>3, <2>7, TableRemoved
  <2>8. QED
    BY <1>14, <2>4, <2>5, <2>6, <2>7 DEF WaitForJob, WaitRemoves
<1>15. ASSUME pc = "pipe", Consumed({pipe[cur]}), UNCHANGED <<code, grp, chldPending>>
       PROVE  (\A i \in 1 .. Len(jobs) : Quiet(jobs[i].child)) /\ (Due => Due')
  <2>1. cur \in 1 .. Len(pipe) /\ \A i \in 1 .. Len(jobs) : jobs[i].child # pipe[cur]
    BY <1>15, <1>a DEF LocalsOK, PipeApart
  <2>2. QED
    BY <1>15, <2>1, EntriesQuiet
<1>16. CASE PipelineWaitStage
  <2>1. UNCHANGED <<code, grp, chldPending, jobs>> /\ pc = "pipe" /\ Consumed({pipe[cur]})
    BY <1>16 DEF PipelineWaitStage, table
  <2>2. QED
    BY <1>15, <2>1, TableAlone
<1>17. CASE PipelineEnds
  <2> DEFINE p == pipe[cur]
  <2> DEFINE j == NewJob("stopped", p, grp[p])
  <2>1. /\ UNCHANGED <<code, grp, chldPending>> /\ pc = "pipe" /\ Waitable(p) /\ Consumed({p})
        /\ cur \in 1 .. Len(pipe)
    BY <1>17, <1>a DEF PipelineEnds, LocalsOK
  <2>2. (\A i \in 1 .. Len(jobs) : Quiet(jobs[i].child)) /\ (Due => Due')
    BY <1>15, <2>1
  <2>3. CASE UNCHANGED jobs
    BY <2>2, <2>3, TableAlone
  <2>4. CASE (anyStopped \/ pst[p] = "stop") /\ jobs' = Append(jobs, j)
    <3>1. p \in Pids /\ grp[p] \in Pids /\ grp[p] = pipe[1]
      BY <1>a, <2>1, ElementOfSeq DEF Inv, TypeOK, LocalsOK, PipeOK
    <3>2. j \in Job /\ j.child = p /\ j.state = "stopped"
      BY <1>a, <3>1, CodesFacts DEF NewJob, Job, JobStates, Inv, TypeOK
    <3>3. pst[p] \in {"zombie", "stop"}
      BY <1>a, <2>1, <3>1, WaitableFacts
    <3>4. CASE pst[p] = "stop"
      <4>1. pst'[p] = "stop"
        BY <2>1, <3>1, <3>4 DEF Consumed
      <4>2. Records(j, pst', note', code', grp') /\ Shows(j, pst')
        BY <3>2, <4>1 DEF Records, Shows
      <4> HIDE DEF j
      <4>3. QED
        BY <2>2, <2>4, <3>2, <4>2, TableAppended
    <3>5. CASE pst[p] = "zombie"
      <4>1. anyStopped
        BY <2>4, <3>5
      <4>2. cur > 1
        BY <1>a, <2>1, <4>1 DEF PipeOK
      <4>3. 1 \in 1 .. Len(pipe) /\ cur # 1
        BY <1>b, <2>1, <4>2
      <4>4. grp'[p] # p
        BY <1>a, <1>b, <2>1, <3>1, <4>2, <4>3 DEF PipeApart
      <4>5. pst'[p] = "gone"
        BY <2>1, <3>1, <3>5 DEF Consumed
      <4>6. Records(j, pst', note', code', grp') /\ Shows(j, pst')
        BY <3>2, <4>4, <4>5 DEF Records, Shows
      <4> HIDE DEF j
      <4>7. QED
        BY <2>2, <2>4, <3>2, <4>6, TableAppended
    <3>6. QED
      BY <3>3, <3>4, <3>5
  <2>5. QED
    BY <1>17, <2>3, <2>4 DEF PipelineEnds
<1>18. QED
  BY <1>1, <1>2, <1>3, <1>4, <1>5, <1>6, <1>7, <1>8, <1>9, <1>10, <1>11, <1>12, <1>13, <1>14,
     <1>16, <1>17 DEF Next, Commands, Shell, Chance

-----------------------------------------------------------------------------
(* The pipeline in the foreground *)

\* The flags of a pipeline hold what the stages that were waited for did.
LEMMA PipeNext == TableInv /\ [Next]_vars => PipeOK'
<1> SUFFICES ASSUME TableInv, [Next]_vars, pc' \in {"capture", "pipe"} PROVE PipeOK'
  BY DEF PipeOK
<1>a. Inv /\ TypeOK /\ NotesOK /\ PipeOK /\ PipeApart /\ LocalsOK
  BY DEF TableInv, WaitInv, OrderInv, Inv
<1>b. pipe \in Seq(Pids) /\ Len(pipe) \in Nat /\ cur \in Nat /\ nextPid \in Nat
  BY <1>a, LenProperties, BoundsAssumption DEF TypeOK
<1>1. ASSUME NEW n \in 1 .. MaxStages, NEW capture \in BOOLEAN, StartPipeline(n, capture)
      PROVE  PipeOK'
  <2>1. cur' = 1 /\ ~ anyStopped' /\ ~ anyFailed'
    BY <1>1 DEF StartPipeline, Locals
  <2>2. Len(pipe') = n /\ n \in Nat /\ \A k \in 1 .. n : pipe'[k] = nextPid + k - 1 /\ grp'[pipe'[k]] = nextPid
    BY <1>a, <1>1, NewPipe, BoundsAssumption
  <2>3. 1 \in 1 .. n /\ pipe'[1] = nextPid
    BY <1>b, <2>2
  <2>4. 1 .. cur' - 1 = {}
    BY <2>1
  <2>5. QED
    BY <2>1, <2>2, <2>3, <2>4 DEF PipeOK
\* Nothing but the children moves.
<1>2. ASSUME pc \in {"capture", "pipe"}, UNCHANGED <<cur, pipe, anyStopped, anyFailed, grp>>,
             \/ \E q \in Pids, c \in ExitCodes : ChildExits(q, c)
             \/ \E g \in Pids : GroupStops(g)
             \/ (\E g : ContinueGroup(g)) /\ UNCHANGED <<code, grp>>
             \/ UNCHANGED <<pst, note, code, grp>>
      PROVE  PipeOK'
  <2>1. ASSUME NEW k \in 1 .. cur - 1
        PROVE  pst[pipe[k]] = "gone" => pst'[pipe[k]] = "gone" /\ code'[pipe[k]] = code[pipe[k]]
    <3>1. k \in 1 .. Len(pipe)
      BY <1>2, <1>a, <1>b DEF LocalsOK
    <3>2. pipe[k] \in Pids /\ pipe[k] < nextPid
      BY <1>2, <1>a, <1>b, <3>1, ElementOfSeq DEF LocalsOK
    <3>3. Quiet(pipe[k])
      BY <1>2, <1>a, <3>2, QuietStep
    <3>4. QED
      BY <3>3 DEF Quiet
  <2>2. QED
    BY <1>2, <1>a, <2>1 DEF PipeOK
<1>3. CASE CaptureEnds \/ CaptureInterrupted
  <2>1. UNCHANGED <<pst, note, code, grp, cur, pipe, anyStopped, anyFailed>> /\ pc = "capture"
    BY <1>3 DEF CaptureEnds, CaptureInterrupted, kernel, call
  <2>2. QED
    BY <1>2, <2>1
<1>4. CASE Children
  <2>1. UNCHANGED <<pc, cur, pipe, anyStopped, anyFailed, grp>>
    BY <1>4 DEF Children, ChildExits, GroupStops, GroupContinues, call
  <2>2. \/ \E q \in Pids, c \in ExitCodes : ChildExits(q, c)
        \/ \E g \in Pids : GroupStops(g)
        \/ (\E g : ContinueGroup(g)) /\ UNCHANGED <<code, grp>>
    BY <1>4 DEF Children, GroupContinues
  <2>3. pc \in {"capture", "pipe"}
    BY <2>1
  <2>4. QED
    BY <1>2, <2>1, <2>2, <2>3
<1>5. CASE UNCHANGED vars
  BY <1>2, <1>5 DEF vars
<1>6. CASE PipelineWaitStage
  <2> DEFINE p == pipe[cur]
  <2>1. /\ pc = "pipe" /\ UNCHANGED <<code, grp, pipe>> /\ cur' = cur + 1
        /\ Waitable(p) /\ Consumed({p})
        /\ anyStopped' = (anyStopped \/ pst[p] = "stop")
        /\ anyFailed' = (anyFailed \/ StageFailed(p))
    BY <1>6 DEF PipelineWaitStage
  <2>2. cur \in 1 .. Len(pipe) /\ \A k \in 1 .. cur : k \in 1 .. Len(pipe) /\ pipe[k] \in Pids
    BY <1>a, <1>b, <2>1, ElementOfSeq DEF LocalsOK
  <2>3. pst[p] \in {"zombie", "stop"}
    BY <1>a, <1>b, <2>1, <2>2, WaitableFacts
  <2>4. ~ anyStopped' => /\ ~ anyStopped /\ pst'[p] = "gone" /\ (StageFailed(p) <=> code[p] # 0)
                         /\ \A k \in 1 .. cur - 1 : pst'[pipe[k]] = "gone"
    <3>1. SUFFICES ASSUME ~ anyStopped'
                   PROVE  /\ ~ anyStopped /\ pst'[p] = "gone" /\ (StageFailed(p) <=> code[p] # 0)
                          /\ \A k \in 1 .. cur - 1 : pst'[pipe[k]] = "gone"
      OBVIOUS
    <3>2. ~ anyStopped /\ pst[p] = "zombie"
      BY <2>1, <2>3, <3>1
    <3>3. p \in Pids
      BY <1>b, <2>2
    <3>4. pst'[p] = "gone" /\ (StageFailed(p) <=> code[p] # 0)
      BY <2>1, <3>2, <3>3 DEF Consumed, StageFailed
    <3>5. \A k \in 1 .. cur - 1 : pst[pipe[k]] = "gone" /\ pipe[k] \in Pids
      BY <1>a, <1>b, <2>1, <2>2, <3>2 DEF PipeOK
    <3>6. QED
      BY <2>1, <3>2, <3>4, <3>5 DEF Consumed
  <2>5. anyStopped' => cur' > 1
    BY <1>b, <2>1, <2>2
  <2>6. ~ anyStopped' => \A k \in 1 .. cur' - 1 : pst'[pipe'[k]] = "gone"
    <3>1. \A k \in 1 .. cur' - 1 : k = cur \/ k \in 1 .. cur - 1
      BY <1>b, <2>1
    <3>2. QED
      BY <2>1, <2>4, <3>1
  <2>7. ~ anyStopped' => (anyFailed' <=> \E k \in 1 .. cur' - 1 : code'[pipe'[k]] # 0)
    <3>1. 1 .. cur' - 1 = (1 .. cur - 1) \cup {cur}
      BY <1>b, <2>1, <2>2
    <3>2. ~ anyStopped => (anyFailed <=> \E k \in 1 .. cur - 1 : code[pipe[k]] # 0)
      BY <1>a, <2>1 DEF PipeOK
    <3>3. QED
      BY <2>1, <2>4, <3>1, <3>2
  <2>8. \A k \in 1 .. Len(pipe') : grp'[pipe'[k]] = pipe'[1]
    BY <1>a, <2>1 DEF PipeOK
  <2>9. QED
    BY <2>5, <2>6, <2>7, <2>8 DEF PipeOK
<1>7. CASE Commands /\ ~ (\E n \in 1 .. MaxStages, capture \in BOOLEAN : StartPipeline(n, capture))
  BY <1>7 DEF Commands, StartBackground, ListJobs, Foreground, Background, WaitAll, WaitOne,
              PipelineForkFails, EmptyLine, Return
<1>8. CASE PruneStep \/ PruneEnds \/ Spawn \/ SpawnFails \/ ForegroundResume \/ BackgroundResume
           \/ ForegroundWait \/ WaitAllEnds \/ PipelineEnds \/ ResumeFails \/ LineEnds
  BY <1>8 DEF PruneStep, PruneEnds, Spawn, SpawnFails, ForegroundResume, BackgroundResume,
              ForegroundWait, WaitAllEnds, PipelineEnds, ResumeFails, LineEnds, Return
<1>9. CASE WaitForJob \/ FireClear \/ FireRefresh
  BY <1>9 DEF WaitForJob, WaitKeeps, WaitRemoves, FireClear, FireRefresh, Return
<1>10. QED
  BY <1>1, <1>3, <1>4, <1>5, <1>6, <1>7, <1>8, <1>9 DEF Next, Shell, Chance

\* The table starts empty.
LEMMA TableInvInit == Init => TableInv
<1> SUFFICES ASSUME Init PROVE TableInv
  OBVIOUS
<1>1. WaitInv
  <2>1. OrderInv
    BY OrderInit
  <2>2. NotesOK
    BY BoundsAssumption DEF Init, NotesOK, Pids
  <2>3. RunningOK /\ ResumedOK /\ StagesOK
    BY EmptySeq DEF Init, RunningOK, ResumedOK, StagesOK
  <2>4. QED
    BY <2>1, <2>2, <2>3 DEF WaitInv
<1>2. RecordsOK /\ ShowsOK /\ PipeOK
  BY EmptySeq DEF Init, RecordsOK, ShowsOK, PipeOK
<1>3. QED
  BY <1>1, <1>2 DEF TableInv

\* TableInv is inductive.
LEMMA TableInvNext == TableInv /\ [Next]_vars => TableInv'
BY WaitNext, TableNext, PipeNext DEF TableInv

-----------------------------------------------------------------------------
(* The theorems *)

\* While no SIGCHLD is pending and no refresh is due, every entry whose child
\* still exists shows what that child is doing: the notifications that jobs,
\* fg, bg, wait, `&` and fire_pending_traps read one by one add up to no lost
\* one (shell.c:7946, shell.c:8276).
THEOREM NothingLost == Spec => []TableExact
<1>1. TableInv => TableExact
  <2>1. SUFFICES ASSUME TableInv, ~ Due, NEW i \in DOMAIN jobs, jobs[i].state # "done",
                        pst[jobs[i].pid] # "gone"
                 PROVE  pst[jobs[i].pid] = IF jobs[i].state = "running" THEN "run" ELSE "stop"
    BY DEF TableExact, Due, RefreshPcs
  <2>2. Inv /\ i \in 1 .. Len(jobs)
    BY <2>1, LenProperties DEF TableInv, WaitInv, OrderInv, Inv, TypeOK
  <2>3. jobs[i].pid = jobs[i].child
    BY <2>1, <2>2, ChildFacts DEF EntryOK, EntryIn
  <2>4. QED
    BY <2>1, <2>2, <2>3 DEF TableInv, ShowsOK, Shows
<1>2. QED
  BY TableInvInit, TableInvNext, <1>1, PTL DEF Spec

\* A done entry for a child that led its group holds that child's exit status,
\* whichever call of waitpid saw it end (platform.c:2186).
THEOREM StatusKept == Spec => []ExitStatusKept
<1>1. TableInv => ExitStatusKept
  <2>1. SUFFICES ASSUME TableInv, NEW i \in DOMAIN jobs, jobs[i].state = "done",
                        grp[jobs[i].child] = jobs[i].child
                 PROVE  pst[jobs[i].child] = "gone" /\ jobs[i].exit_code = code[jobs[i].child]
    BY DEF ExitStatusKept
  <2>2. i \in 1 .. Len(jobs)
    BY <2>1, LenProperties DEF TableInv, WaitInv, OrderInv, Inv, TypeOK
  <2>3. QED
    BY <2>1, <2>2 DEF TableInv, RecordsOK, Records
<1>2. QED
  BY TableInvInit, TableInvNext, <1>1, PTL DEF Spec

\* The number of the entry k is in the table that has it at i.
LEMMA StillThere ==
  ASSUME NEW s \in Seq(Job), NEW i \in 1 .. Len(s), NEW n, s[i].id = n
  PROVE  InTable(n, s)
BY LenProperties DEF InTable

\* Removing the entry at cur forgets no other number.
LEMMA RemoveForgets ==
  ASSUME Inv, cur \in 1 .. Len(jobs), jobs' = RemoveAt(jobs, cur),
         NEW i \in 1 .. Len(jobs), ~ InTable(jobs[i].id, jobs')
  PROVE  i = cur
<1>0. jobs \in Seq(Job) /\ Len(jobs) \in Nat
  BY LenProperties DEF Inv, TypeOK
<1>1. /\ jobs' \in Seq(Job) /\ Len(jobs') = Len(jobs) - 1
      /\ \A k \in 1 .. Len(jobs) - 1 : jobs'[k] = IF k < cur THEN jobs[k] ELSE jobs[k + 1]
  BY <1>0, RemoveAtFacts
<1>2. CASE i < cur
  <2>1. i \in 1 .. Len(jobs') /\ jobs'[i] = jobs[i]
    BY <1>0, <1>1, <1>2
  <2>2. QED
    BY <1>1, <2>1, StillThere
<1>3. CASE i > cur
  <2>1. i - 1 \in 1 .. Len(jobs') /\ jobs'[i - 1] = jobs[i]
    BY <1>0, <1>1, <1>3
  <2>2. QED
    BY <1>1, <2>1, StillThere
<1>4. QED
  BY <1>0, <1>2, <1>3

\* No other step forgets a number.
LEMMA OthersRemember ==
  ASSUME OrderInv, [Next]_vars, NEW i \in 1 .. Len(jobs), ~ InTable(jobs[i].id, jobs')
  PROVE  cur \in 1 .. Len(jobs) /\ jobs' = RemoveAt(jobs, cur)
<1>a. Inv /\ Inv' /\ jobs \in Seq(Job) /\ jobs' \in Seq(Job) /\ Len(jobs) \in Nat
  BY NextInv, LenProperties DEF OrderInv, Inv, TypeOK
<1>1. CASE UNCHANGED jobs
  BY <1>a, <1>1, StillThere
<1>2. CASE jobs' = Refreshed
  <2>1. i \in 1 .. Len(jobs') /\ jobs'[i].id = jobs[i].id
    BY <1>a, <1>2, RefreshedFacts DEF Inv
  <2>2. QED
    BY <1>a, <2>1, StillThere
<1>3. ASSUME cur \in 1 .. Len(jobs), NEW st \in JobStates, NEW c \in Codes,
             jobs' = [jobs EXCEPT ![cur] = [jobs[cur] EXCEPT !.state = st, !.exit_code = c]]
      PROVE  FALSE
  <2> DEFINE j == [jobs[cur] EXCEPT !.state = st, !.exit_code = c]
  <2>1. j \in Job /\ j.id = jobs[cur].id
    BY <1>a, <1>3, ChildFacts DEF Job
  <2>2. jobs' = [jobs EXCEPT ![cur] = j]
    BY <1>3
  <2> HIDE DEF j
  <2>3. i \in 1 .. Len(jobs') /\ jobs'[i].id = jobs[i].id
    BY <1>a, <1>3, <2>1, <2>2, ExceptSeq
  <2>4. QED
    BY <1>a, <2>3, StillThere
<1>4. ASSUME NEW st \in JobStates, NEW p \in Pids, NEW g \in Pids,
             jobs' = Append(jobs, NewJob(st, p, g))
      PROVE  FALSE
  <2>1. NewJob(st, p, g) \in Job
    BY <1>a, <1>4, CodesFacts DEF NewJob, Job, Inv, TypeOK
  <2>2. i \in 1 .. Len(jobs') /\ jobs'[i] = jobs[i]
    BY <1>a, <1>4, <2>1, AppendProperties
  <2>3. QED
    BY <1>a, <2>2, StillThere
<1>5. QED
  BY <1>1, <1>2, <1>3, <1>4, TableStep DEF JobStates

\* The table is shorter after a removal, so only these steps can be one.
LEMMA RemovalStep ==
  ASSUME OrderInv, Next, cur \in 1 .. Len(jobs), jobs' = RemoveAt(jobs, cur)
  PROVE  PruneStep \/ ForegroundWait \/ WaitForJob
<1>a. jobs \in Seq(Job) /\ Len(jobs) \in Nat /\ Inv
  BY LenProperties DEF OrderInv, Inv, TypeOK
<1>b. Len(jobs') = Len(jobs) - 1
  BY <1>a, RemoveAtFacts
<1>c. ~ UNCHANGED jobs
  BY <1>a, <1>b
<1>d. jobs' # Refreshed
  BY <1>a, <1>b, RefreshedFacts DEF Inv
<1>e. \A j \in Job : jobs' # Append(jobs, j)
  BY <1>a, <1>b, AppendProperties
<1>1. CASE StartBackground \/ ListJobs \/ WaitAll \/ FireRefresh
  BY <1>1, <1>d DEF StartBackground, ListJobs, WaitAll, FireRefresh
<1>2. CASE \E arg \in 0 .. MaxProcs : Foreground(arg) \/ Background(arg)
  BY <1>2, <1>d DEF Foreground, Background
<1>3. CASE \E id \in Pids : WaitOne(id)
  BY <1>3, <1>d DEF WaitOne
<1>4. CASE PruneEnds \/ SpawnFails \/ ForegroundResume \/ WaitAllEnds \/ CaptureEnds \/ EmptyLine
            \/ PipelineWaitStage \/ FireClear \/ Chance
  BY <1>4, <1>c DEF PruneEnds, SpawnFails, ForegroundResume, WaitAllEnds, CaptureEnds, EmptyLine,
               PipelineWaitStage, FireClear, Chance, ResumeFails, CaptureInterrupted, LineEnds, table
<1>5. CASE \/ \E n \in 1 .. MaxStages, capture \in BOOLEAN : StartPipeline(n, capture)
           \/ \E n \in 0 .. MaxStages - 1 : PipelineForkFails(n)
  BY <1>5, <1>c DEF StartPipeline, PipelineForkFails, table
<1>6. CASE Children
  BY <1>6, <1>c DEF Children, ChildExits, GroupStops, GroupContinues, table
<1>7. CASE Spawn
  <2>1. Fork(1) /\ 1 \in Nat /\ 1 > 0 /\ jobs' = Append(jobs, NewJob("running", nextPid, nextPid))
    BY <1>7 DEF Spawn
  <2>2. nextPid \in Pids
    BY <1>a, <2>1, ForkStep
  <2>3. NewJob("running", nextPid, nextPid) \in Job
    BY <1>a, <2>2, CodesFacts DEF NewJob, Job, JobStates, Inv, TypeOK
  <2>4. QED
    BY <1>e, <2>1, <2>3
<1>8. CASE PipelineEnds
  <2>1. cur \in 1 .. Len(pipe) /\ pipe \in Seq(Pids) /\ grp[pipe[cur]] \in Pids
    BY <1>8, <1>a DEF PipelineEnds, Inv, LocalsOK, TypeOK
  <2>2. pipe[cur] \in Pids
    BY <2>1, ElementOfSeq
  <2>3. NewJob("stopped", pipe[cur], grp[pipe[cur]]) \in Job
    BY <1>a, <2>1, <2>2, CodesFacts DEF NewJob, Job, JobStates, Inv, TypeOK
  <2>4. jobs' # Append(jobs, NewJob("stopped", pipe[cur], grp[pipe[cur]]))
    BY <1>e, <2>3
  <2>5. QED
    BY <1>8, <1>c, <2>4 DEF PipelineEnds
<1>9. CASE BackgroundResume
  <2> DEFINE j == [jobs[cur] EXCEPT !.state = "running"]
  <2>1. jobs' = [jobs EXCEPT ![cur] = j] /\ j \in Job
    BY <1>9, <1>a, ChildFacts DEF BackgroundResume, Job, JobStates
  <2> HIDE DEF j
  <2>2. Len(jobs') = Len(jobs)
    BY <1>a, <2>1, ExceptSeq
  <2>3. QED
    BY <1>a, <1>b, <2>2
<1>10. QED
  BY <1>1, <1>2, <1>3, <1>4, <1>5, <1>6, <1>7, <1>8, <1>9 DEF Next, Commands, Shell

\* An entry leaves the table only when its child has ended, and when wait takes
\* it out the status is that child's (shell.c:7791, shell.c:7906,
\* shell.c:7937).
THEOREM OnlyTheDead == Spec => ForgetsOnlyTheDead
<1> DEFINE Gone(i) ==
      ~ InTable(jobs[i].id, jobs') =>
         /\ pst[jobs[i].child] \in {"zombie", "gone"}
         /\ (pc \in {"waitAll", "waitOne"} /\ grp[jobs[i].child] = jobs[i].child)
              => status' = code[jobs[i].child]
<1>1. TableInv /\ [Next]_vars => [\A i \in DOMAIN jobs : Gone(i)]_vars
  <2>1. SUFFICES ASSUME TableInv, Next, NEW i \in DOMAIN jobs, ~ InTable(jobs[i].id, jobs')
                 PROVE  /\ pst[jobs[i].child] \in {"zombie", "gone"}
                        /\ (pc \in {"waitAll", "waitOne"} /\ grp[jobs[i].child] = jobs[i].child)
                             => status' = code[jobs[i].child]
    OBVIOUS
  <2>a. OrderInv /\ Inv /\ RecordsOK /\ NotesOK
    BY <2>1 DEF TableInv, WaitInv, OrderInv
  <2>b. i \in 1 .. Len(jobs)
    BY <2>1, <2>a, LenProperties DEF Inv, TypeOK
  <2>2. cur \in 1 .. Len(jobs) /\ jobs' = RemoveAt(jobs, cur)
    BY <2>1, <2>a, <2>b, OthersRemember
  <2>3. i = cur
    BY <2>1, <2>2, <2>a, <2>b, RemoveForgets
  <2>4. /\ Records(jobs[i], pst, note, code, grp)
        /\ jobs[i].state # "done" => jobs[i].pid = jobs[i].child
        /\ Len(jobs') = Len(jobs) - 1 /\ Len(jobs) \in Nat /\ jobs[i] \in Job
    <3>1. jobs \in Seq(Job)
      BY <2>a DEF Inv, TypeOK
    <3>2. Len(jobs') = Len(jobs) - 1 /\ Len(jobs) \in Nat
      BY <2>2, <3>1, RemoveAtFacts, LenProperties
    <3>3. QED
      BY <2>a, <2>b, <3>2, ChildFacts DEF RecordsOK, EntryOK, EntryIn
  <2>5. CASE PruneStep
    <3>1. pc = "prune"
      BY <2>5 DEF PruneStep
    <3>2. Completed(jobs[i])
      BY <2>3, <2>4, <2>5 DEF PruneStep
    <3>3. QED
      BY <2>4, <3>1, <3>2 DEF Records, Completed
  <2>6. \A j \in Job : jobs' # [jobs EXCEPT ![cur] = j]
    BY <2>2, <2>4, <2>a, ExceptSeq DEF Inv, TypeOK
  <2>7. jobs' # [jobs EXCEPT ![cur].state = "stopped", ![cur].exit_code = StopCode]
    <3> DEFINE j == [jobs[cur] EXCEPT !.state = "stopped", !.exit_code = StopCode]
    <3>1. j \in Job
      BY <2>3, <2>4, CodesFacts DEF Job, JobStates
    <3>2. jobs' # [jobs EXCEPT ![cur] = j]
      BY <2>6, <3>1
    <3>3. QED
      BY <3>2
  <2>8. CASE ForegroundWait
    <3>1. pc = "fgWait" /\ jobs[cur].state # "done"
      BY <2>8, <2>a DEF ForegroundWait, Inv, LocalsOK
    <3>2. pst[jobs[cur].pid] = "zombie"
      BY <2>7, <2>8 DEF ForegroundWait
    <3>3. QED
      BY <2>3, <2>4, <3>1, <3>2
  <2>9. CASE WaitForJob
    <3>1. CASE jobs[cur].state = "done" /\ WaitRemoves(jobs[cur].exit_code)
      BY <2>3, <2>4, <3>1 DEF Records, WaitRemoves, Return
    <3>2. CASE jobs[cur].state = "running" /\ pst[jobs[cur].pid] = "zombie" /\ WaitRemoves(code[jobs[cur].pid])
      BY <2>3, <2>4, <3>2 DEF WaitRemoves, Return
    <3>3. ~ UNCHANGED jobs
      BY <2>4
    <3>4. QED
      BY <2>7, <2>9, <3>1, <3>2, <3>3 DEF WaitForJob
  <2>10. QED
    BY <2>1, <2>2, <2>5, <2>8, <2>9, <2>a, RemovalStep
<1>2. QED
  BY TableInvInit, TableInvNext, <1>1, PTL DEF Spec, ForgetsOnlyTheDead

\* A pipeline that ends without a stop fails exactly when its last stage
\* failed or, under pipefail, any stage did, although the statuses are
\* collected one blocking wait at a time (platform.c:1969, executor.c:6075).
THEOREM StatusOfPipeline == Spec => PipelineStatus
<1> DEFINE Ended == pc = "pipe" /\ pc' = "next" /\ Len(jobs') = Len(jobs)
                    /\ ~ anyStopped /\ \A k \in DOMAIN pipe : pst'[pipe[k]] = "gone"
<1> DEFINE Failed == \E k \in DOMAIN pipe : code[pipe[k]] # 0 /\ (Pipefail \/ k = Len(pipe))
<1>1. TableInv /\ [Next]_vars => [Ended => (status' # 0 <=> Failed)]_vars
  <2>1. SUFFICES ASSUME TableInv, Next, Ended PROVE status' # 0 <=> Failed
    OBVIOUS
  <2>a. Inv /\ NotesOK /\ PipeOK /\ LocalsOK
    BY <2>1 DEF TableInv, WaitInv, OrderInv, Inv
  <2>b. pipe \in Seq(Pids) /\ Len(pipe) \in Nat /\ DOMAIN pipe = 1 .. Len(pipe) /\ Pipefail \in BOOLEAN
    BY <2>a, LenProperties, BoundsAssumption DEF Inv, TypeOK
  <2>2. PipelineEnds
    <3>1. pc = "pipe" /\ pc' = "next"
      BY <2>1
    <3> HIDE DEF Ended, Failed
    <3>2. ~ Commands
      BY <3>1 DEF Commands, Command, StartBackground, ListJobs, Foreground, Background, WaitAll,
                  WaitOne, StartPipeline, PipelineForkFails, EmptyLine
    <3>3. ~ Children
      BY <3>1 DEF Children, ChildExits, GroupStops, GroupContinues
    <3>4. ~ Chance
      BY <3>1 DEF Chance, ResumeFails, CaptureInterrupted, LineEnds
    <3>5. ~ (PruneStep \/ PruneEnds \/ Spawn \/ SpawnFails \/ ForegroundResume \/ BackgroundResume
             \/ ForegroundWait \/ WaitForJob \/ WaitAllEnds \/ CaptureEnds \/ PipelineWaitStage
             \/ FireClear \/ FireRefresh)
      BY <3>1 DEF PruneStep, PruneEnds, Spawn, SpawnFails, ForegroundResume, BackgroundResume,
                  ForegroundWait, WaitForJob, WaitAllEnds, CaptureEnds, PipelineWaitStage,
                  FireClear, FireRefresh
    <3>6. QED
      BY <2>1, <3>2, <3>3, <3>4, <3>5 DEF Next, Shell
  <2> DEFINE p == pipe[cur]
  <2>3. cur = Len(pipe) /\ cur \in 1 .. Len(pipe) /\ p \in Pids /\ Waitable(p) /\ Consumed({p})
    BY <2>1, <2>2, <2>a, <2>b, ElementOfSeq DEF PipelineEnds, LocalsOK
  <2>4. pst[p] = "zombie"
    <3>1. pst'[p] = "gone"
      BY <2>1, <2>3, <2>b
    <3>2. pst[p] \in {"zombie", "stop"}
      BY <2>3, <2>a, WaitableFacts
    <3>3. QED
      BY <2>3, <3>1, <3>2 DEF Consumed
  <2>5. status' = IF code[p] # 0 \/ (Pipefail /\ anyFailed) THEN 1 ELSE 0
    BY <2>1, <2>2, <2>4 DEF PipelineEnds, Return
  <2>6. anyFailed <=> \E k \in 1 .. cur - 1 : code[pipe[k]] # 0
    BY <2>1, <2>a DEF PipeOK
  <2>7. 1 .. Len(pipe) = (1 .. cur - 1) \cup {cur} /\ cur \notin 1 .. cur - 1
    BY <2>3, <2>b
  <2>8. QED
    BY <2>3, <2>5, <2>6, <2>7, <2>b
<1>2. QED
  BY TableInvInit, TableInvNext, <1>1, PTL DEF Spec, PipelineStatus

-----------------------------------------------------------------------------
(* The life of one number *)

\* What the number n stands for in a table s with next number nj.
LifeIn(n, s, nj) ==
  IF n >= nj THEN "unborn"
  ELSE IF InTable(n, s) THEN s[IndexOfId(s, n)].state
  ELSE "forgotten"

\* In a table whose numbers ascend, the entry found for a number is its entry.
LEMMA FoundEntry ==
  ASSUME NEW s \in Seq(Job), Ascending(s), NEW i \in 1 .. Len(s)
  PROVE  InTable(s[i].id, s) /\ IndexOfId(s, s[i].id) = i
<1>0. Len(s) \in Nat /\ DOMAIN s = 1 .. Len(s)
  BY LenProperties
<1> DEFINE I == {k \in DOMAIN s : s[k].id = s[i].id}
<1>1. \A k \in 1 .. Len(s) : s[k].id \in Nat
  <2>1. \A k \in 1 .. Len(s) : s[k] \in Job
    BY ElementOfSeq
  <2>2. QED
    BY <2>1 DEF Job
<1>2. I = {i}
  <2>1. i \in I
    BY <1>0
  <2>2. \A k \in 1 .. Len(s) : k # i => s[k].id # s[i].id
    BY <1>0, <1>1 DEF Ascending
  <2>3. QED
    BY <1>0, <2>1, <2>2
<1>3. (CHOOSE k \in {i} : \A m \in {i} : k <= m) = i
  BY <1>0
<1>4. IndexOfId(s, s[i].id) = IF I = {} THEN 0 ELSE CHOOSE k \in I : \A m \in I : k <= m
  BY DEF IndexOfId
<1>5. QED
  BY <1>0, <1>2, <1>3, <1>4 DEF InTable

\* The life of a number is the state of its entry, or forgotten.
LEMMA LifeFacts ==
  ASSUME NEW s \in Seq(Job), Ascending(s), NEW nj \in Nat, NEW n \in Nat, n < nj
  PROVE  /\ \A i \in 1 .. Len(s) : s[i].id = n => LifeIn(n, s, nj) = s[i].state
         /\ (\A i \in 1 .. Len(s) : s[i].id # n) => LifeIn(n, s, nj) = "forgotten"
<1>0. DOMAIN s = 1 .. Len(s)
  BY LenProperties
<1>1. ~ (n >= nj)
  OBVIOUS
<1>2. ASSUME NEW i \in 1 .. Len(s), s[i].id = n PROVE LifeIn(n, s, nj) = s[i].state
  BY <1>1, <1>2, FoundEntry DEF LifeIn
<1>3. ASSUME \A i \in 1 .. Len(s) : s[i].id # n PROVE LifeIn(n, s, nj) = "forgotten"
  BY <1>0, <1>1, <1>3 DEF LifeIn, InTable
<1>4. QED
  BY <1>2, <1>3

-----------------------------------------------------------------------------
(* One step *)

\* The states an entry that is still in the table may go to.
After(st) == IF st = "done" THEN {"done"} ELSE JobStates

\* Every entry of the new table is an entry of the old one, with a state that
\* may follow, or the one entry made under the next number.
Follows(n, st) ==
  \/ \E i \in 1 .. Len(jobs) : jobs[i].id = n /\ st \in After(jobs[i].state)
  \/ n = nextJobId /\ nextJobId' = nextJobId + 1 /\ st \in {"running", "stopped"}

\* Every entry after a step follows from the one of the same number before it.
LEMMA EntriesFollow ==
  ASSUME OrderInv, [Next]_vars
  PROVE  /\ \A k \in 1 .. Len(jobs') : Follows(jobs'[k].id, jobs'[k].state)
         /\ \/ nextJobId' = nextJobId
            \/ nextJobId' = nextJobId + 1 /\ \E k \in 1 .. Len(jobs') : jobs'[k].id = nextJobId
<1>a. Inv /\ jobs \in Seq(Job) /\ Len(jobs) \in Nat /\ nextJobId \in Nat \ {0}
  BY LenProperties DEF OrderInv, Inv, TypeOK
<1>b. \A i \in 1 .. Len(jobs) : /\ jobs[i] \in Job /\ jobs[i].state \in JobStates
                                /\ jobs[i].state \in After(jobs[i].state)
  BY <1>a, ChildFacts DEF Job, After
<1>1. CASE UNCHANGED <<jobs, nextJobId>>
  BY <1>b, <1>1 DEF Follows
<1>2. CASE jobs' = Refreshed /\ UNCHANGED nextJobId
  <2>1. Refreshed \in Seq(Job) /\ Len(jobs') = Len(jobs)
    BY <1>a, <1>2, RefreshedFacts DEF Inv
  <2>2. ASSUME NEW k \in 1 .. Len(jobs') PROVE Follows(jobs'[k].id, jobs'[k].state)
    <3>1. k \in 1 .. Len(jobs) /\ jobs'[k] = Polled(jobs[k]) /\ jobs'[k].id = jobs[k].id
      BY <1>a, <1>2, <2>1, <2>2, RefreshedFacts DEF Inv
    <3>2. jobs'[k] \in Job
      BY <1>2, <2>1, <2>2, ElementOfSeq
    <3>3. jobs'[k].state \in After(jobs[k].state)
      BY <3>1, <3>2 DEF After, Polled, Job
    <3>4. QED
      BY <3>1, <3>3 DEF Follows
  <2>3. QED
    BY <1>2, <2>2
<1>3. CASE cur \in 1 .. Len(jobs) /\ jobs' = RemoveAt(jobs, cur) /\ UNCHANGED nextJobId
  <2>1. ASSUME NEW k \in 1 .. Len(jobs') PROVE Follows(jobs'[k].id, jobs'[k].state)
    <3> DEFINE i == IF k < cur THEN k ELSE k + 1
    <3>1. Len(jobs') = Len(jobs) - 1 /\ k \in 1 .. Len(jobs) - 1
      BY <1>a, <1>3, <2>1, RemoveAtFacts
    <3>2. jobs'[k] = jobs[i]
      BY <1>a, <1>3, <3>1, RemoveAtFacts
    <3>3. i \in 1 .. Len(jobs)
      BY <1>a, <1>3, <3>1
    <3> HIDE DEF i
    <3>4. QED
      BY <1>b, <3>2, <3>3 DEF Follows
  <2>2. QED
    BY <1>3, <2>1
<1>4. ASSUME cur \in 1 .. Len(jobs), jobs[cur].state # "done", UNCHANGED nextJobId,
             NEW st \in {"running", "stopped"}, NEW c \in Codes,
             jobs' = [jobs EXCEPT ![cur] = [jobs[cur] EXCEPT !.state = st, !.exit_code = c]]
      PROVE  \A k \in 1 .. Len(jobs') : Follows(jobs'[k].id, jobs'[k].state)
  <2> DEFINE j == [jobs[cur] EXCEPT !.state = st, !.exit_code = c]
  <2>1. j \in Job /\ j.id = jobs[cur].id /\ j.state = st /\ st \in After(jobs[cur].state)
    BY <1>b, <1>4 DEF Job, JobStates, After
  <2>2. jobs' = [jobs EXCEPT ![cur] = j]
    BY <1>4
  <2> HIDE DEF j
  <2>3. Len(jobs') = Len(jobs) /\ \A k \in 1 .. Len(jobs) : jobs'[k] = IF k = cur THEN j ELSE jobs[k]
    BY <1>a, <1>4, <2>1, <2>2, ExceptSeq
  <2>4. QED
    BY <1>b, <1>4, <2>1, <2>3 DEF Follows
<1>5. ASSUME NEW st \in {"running", "stopped"}, NEW p \in Pids, NEW g \in Pids,
             jobs' = Append(jobs, NewJob(st, p, g)), nextJobId' = nextJobId + 1
      PROVE  /\ \A k \in 1 .. Len(jobs') : Follows(jobs'[k].id, jobs'[k].state)
             /\ \E k \in 1 .. Len(jobs') : jobs'[k].id = nextJobId
  <2> DEFINE j == NewJob(st, p, g)
  <2>1. j \in Job /\ j.id = nextJobId /\ j.state = st
    BY <1>a, CodesFacts DEF NewJob, Job, JobStates
  <2>2. jobs' = Append(jobs, j)
    BY <1>5
  <2> HIDE DEF j
  <2>3. /\ Len(jobs') = Len(jobs) + 1
        /\ \A k \in 1 .. Len(jobs) + 1 : jobs'[k] = IF k <= Len(jobs) THEN jobs[k] ELSE j
    BY <1>a, <2>1, <2>2, AppendProperties
  <2>4. ASSUME NEW k \in 1 .. Len(jobs') PROVE Follows(jobs'[k].id, jobs'[k].state)
    <3>1. CASE k <= Len(jobs)
      <4>1. k \in 1 .. Len(jobs) /\ jobs'[k] = jobs[k]
        BY <1>a, <2>3, <2>4, <3>1
      <4>2. QED
        BY <1>b, <4>1 DEF Follows
    <3>2. CASE ~ (k <= Len(jobs))
      BY <1>5, <2>1, <2>3, <2>4, <3>2 DEF Follows
    <3>3. QED
      BY <3>1, <3>2
  <2>5. Len(jobs) + 1 \in 1 .. Len(jobs') /\ jobs'[Len(jobs) + 1].id = nextJobId
    BY <1>a, <2>1, <2>3
  <2>6. QED
    BY <2>4, <2>5
<1>6. QED
  BY <1>1, <1>2, <1>3, <1>4, <1>5, TableStep

\* A number only moves along the lifecycle.
LEMMA LifeStep ==
  ASSUME OrderInv, [Next]_vars, NEW n \in Pids
  PROVE  /\ LifeIn(n, jobs', nextJobId') \in Lifecycle!Successors(LifeIn(n, jobs, nextJobId))
         /\ LifeIn(n, jobs', nextJobId') \in Lifecycle!LifeStates
<1>a. /\ Inv /\ Inv' /\ OrderInv' /\ jobs \in Seq(Job) /\ jobs' \in Seq(Job)
      /\ Ascending(jobs) /\ Ascending(jobs')
      /\ nextJobId \in Nat /\ nextJobId' \in Nat /\ n \in Nat
  BY OrderNext, PidsFacts DEF OrderInv, Inv, TypeOK
<1>b. /\ \A k \in 1 .. Len(jobs') : Follows(jobs'[k].id, jobs'[k].state)
      /\ \/ nextJobId' = nextJobId
         \/ nextJobId' = nextJobId + 1 /\ \E k \in 1 .. Len(jobs') : jobs'[k].id = nextJobId
  BY EntriesFollow
<1>c. /\ \A i \in 1 .. Len(jobs) : jobs[i].id < nextJobId /\ jobs[i].id \in Nat /\ jobs[i].state \in JobStates
      /\ \A k \in 1 .. Len(jobs') : jobs'[k].id \in Nat /\ jobs'[k].state \in JobStates
  <2>1. \A i \in 1 .. Len(jobs) : jobs[i] \in Job /\ EntryOK(jobs[i])
    BY <1>a, ChildFacts
  <2>2. \A k \in 1 .. Len(jobs') : jobs'[k] \in Job
    BY <1>a, ElementOfSeq
  <2>3. QED
    BY <2>1, <2>2 DEF EntryOK, EntryIn, Job
<1> DEFINE new == LifeIn(n, jobs', nextJobId')
<1> DEFINE old == LifeIn(n, jobs, nextJobId)
<1>1. CASE n >= nextJobId'
  <2>1. n >= nextJobId
    BY <1>a, <1>b, <1>1
  <2>2. old = "unborn" /\ new = "unborn"
    BY <1>1, <2>1 DEF LifeIn
  <2> HIDE DEF old, new
  <2>3. QED
    BY <2>2 DEF Lifecycle!Successors, Lifecycle!LifeStates, old, new
<1>2. CASE n < nextJobId' /\ ~ (n < nextJobId)
  <2>1. nextJobId' = nextJobId + 1 /\ n = nextJobId
    BY <1>a, <1>b, <1>2
  <2>2. PICK k \in 1 .. Len(jobs') : jobs'[k].id = n
    BY <1>a, <1>b, <2>1
  <2>3. jobs'[k].state \in {"running", "stopped"}
    BY <1>a, <1>b, <1>c, <2>1, <2>2 DEF Follows
  <2>4. old = "unborn" /\ new = jobs'[k].state
    <3>1. n >= nextJobId
      BY <1>a, <2>1
    <3>2. old = "unborn"
      BY <3>1 DEF LifeIn
    <3>3. new = jobs'[k].state
      BY <1>a, <1>2, <2>2, LifeFacts
    <3>4. QED
      BY <3>2, <3>3
  <2> HIDE DEF old, new
  <2>5. QED
    BY <2>3, <2>4 DEF Lifecycle!Successors, Lifecycle!LifeStates, old, new
<1>3. CASE n < nextJobId
  <2>0. n < nextJobId' /\ n # nextJobId
    BY <1>a, <1>b, <1>3
  <2>1. CASE \E k \in 1 .. Len(jobs') : jobs'[k].id = n
    <3>1. PICK k \in 1 .. Len(jobs') : jobs'[k].id = n
      BY <2>1
    <3>2. PICK i \in 1 .. Len(jobs) : jobs[i].id = n /\ jobs'[k].state \in After(jobs[i].state)
      BY <1>b, <2>0, <3>1 DEF Follows
    <3>3. new = jobs'[k].state
      BY <1>a, <2>0, <3>1, LifeFacts
    <3>4. old = jobs[i].state
      BY <1>a, <1>3, <3>2, LifeFacts
    <3>5. jobs[i].state \in JobStates /\ jobs'[k].state \in JobStates
      BY <1>c
    <3> HIDE DEF old, new
    <3>6. QED
      BY <3>2, <3>3, <3>4, <3>5
      DEF Lifecycle!Successors, Lifecycle!LifeStates, After, JobStates, old, new
  <2>2. CASE ~ \E k \in 1 .. Len(jobs') : jobs'[k].id = n
    <3>1. new = "forgotten"
      BY <1>a, <2>0, <2>2, LifeFacts
    <3>2. old \in {"running", "stopped", "done", "forgotten"}
      <4>1. CASE \E i \in 1 .. Len(jobs) : jobs[i].id = n
        <5>1. PICK i \in 1 .. Len(jobs) : jobs[i].id = n
          BY <4>1
        <5>2. old = jobs[i].state
          BY <1>a, <1>3, <5>1, LifeFacts
        <5>3. QED
          BY <1>c, <5>2 DEF JobStates
      <4>2. CASE ~ \E i \in 1 .. Len(jobs) : jobs[i].id = n
        BY <1>a, <1>3, <4>2, LifeFacts
      <4>3. QED
        BY <4>1, <4>2
    <3> HIDE DEF old, new
    <3>3. QED
      BY <3>1, <3>2 DEF Lifecycle!Successors, Lifecycle!LifeStates, old, new
  <2>3. QED
    BY <2>1, <2>2
<1>4. QED
  BY <1>a, <1>1, <1>2, <1>3

\* A number given out by a step is the next one, so every smaller one was
\* given out before.
LEMMA BirthOrder ==
  ASSUME OrderInv, [Next]_vars, NEW n \in Pids, NEW m \in Pids, n < m,
         LifeIn(m, jobs, nextJobId) = "unborn", LifeIn(m, jobs', nextJobId') # "unborn"
  PROVE  LifeIn(n, jobs, nextJobId) # "unborn"
<1>a. /\ Inv /\ nextJobId \in Nat /\ n \in Nat /\ m \in Nat /\ jobs \in Seq(Job) /\ Ascending(jobs)
      /\ nextJobId' \in {nextJobId, nextJobId + 1}
  BY EntriesFollow, PidsFacts DEF OrderInv, Inv, TypeOK
<1>b. \A i \in 1 .. Len(jobs) : jobs[i].state # "unborn"
  BY <1>a, ChildFacts DEF Job, JobStates
<1>1. ~ (m >= nextJobId')
  BY DEF LifeIn
<1>2. n < nextJobId
  BY <1>a, <1>1
<1>3. CASE \E i \in 1 .. Len(jobs) : jobs[i].id = n
  BY <1>a, <1>b, <1>2, <1>3, LifeFacts
<1>4. CASE ~ \E i \in 1 .. Len(jobs) : jobs[i].id = n
  BY <1>a, <1>2, <1>4, LifeFacts
<1>5. QED
  BY <1>3, <1>4

-----------------------------------------------------------------------------
(* The refinement *)

\* The job table implements JobLifecycle: each number is given out once and in
\* order, and no refresh, resume, wait, prune or pipeline brings a job back
\* once it is done or forgotten (shell.c:7791 to 8060, executor.c:6064).
THEOREM ImplementsLifecycle == Spec => JobsLive
<1> DEFINE bar == [n \in Pids |-> LifeOf(n)]
<1>0. \A n \in Pids : LifeOf(n) = LifeIn(n, jobs, nextJobId)
  BY DEF LifeOf, LifeIn
<1>0p. \A n \in Pids : LifeOf(n)' = LifeIn(n, jobs', nextJobId')
  BY DEF LifeOf, LifeIn
<1>1. Init => Lifecycle!LInit
  <2>1. SUFFICES ASSUME Init, NEW n \in Pids PROVE LifeOf(n) = "unborn"
    BY DEF Lifecycle!LInit
  <2>2. n >= nextJobId
    BY <2>1 DEF Init, Pids
  <2>3. QED
    BY <2>2 DEF LifeOf
<1>2. OrderInv /\ [Next]_vars => [Lifecycle!LNext]_bar
  <2>1. SUFFICES ASSUME OrderInv, [Next]_vars PROVE Lifecycle!LNext
    OBVIOUS
  <2>2. \A n \in Pids : LifeOf(n)' \in Lifecycle!LifeStates
                     /\ LifeOf(n)' \in Lifecycle!Successors(LifeOf(n))
    BY <1>0, <1>0p, <2>1, LifeStep
  <2>3. \A n, m \in Pids :
          (n < m /\ LifeOf(m) = "unborn" /\ LifeOf(m)' # "unborn") => LifeOf(n) # "unborn"
    BY <1>0, <1>0p, <2>1, BirthOrder
  <2>4. QED
    BY <2>2, <2>3 DEF Lifecycle!LNext
<1>3. QED
  BY OrderInit, OrderNext, <1>1, <1>2, PTL DEF Spec, JobsLive, Lifecycle!LSpec
=============================================================================
