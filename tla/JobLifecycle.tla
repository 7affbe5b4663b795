---------------------------- MODULE JobLifecycle ----------------------------
(***************************************************************************)
(* What the job table promises about one job number: it is given out once,  *)
(* in ascending order, its job runs and stops until it is done, and once    *)
(* done or forgotten it never comes back.                                   *)
(***************************************************************************)
EXTENDS Integers

CONSTANT Ids          \* job numbers, an interval from 1

VARIABLE life         \* life[n] for every job number n

LifeStates == {"unborn", "running", "stopped", "done", "forgotten"}

\* From each state, the states one step of the shell may put the job in.
Successors(s) ==
  CASE s = "unborn"    -> {"unborn", "running", "stopped"}
    [] s = "running"   -> {"running", "stopped", "done", "forgotten"}
    [] s = "stopped"   -> {"running", "stopped", "done", "forgotten"}
    [] s = "done"      -> {"done", "forgotten"}
    [] s = "forgotten" -> {"forgotten"}

LInit == life = [n \in Ids |-> "unborn"]

\* One step moves any number of jobs (a refresh polls the whole table) but
\* creates at most one, under the smallest number not yet given out.
LNext ==
  /\ life' \in [Ids -> LifeStates]
  /\ \A n \in Ids : life'[n] \in Successors(life[n])
  /\ \A n, m \in Ids :
       (n < m /\ life[m] = "unborn" /\ life'[m] # "unborn") => life[n] # "unborn"

LSpec == LInit /\ [][LNext]_life
=============================================================================
