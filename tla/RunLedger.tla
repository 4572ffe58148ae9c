----------------------------- MODULE RunLedger ------------------------------
(***************************************************************************)
(* What the run tables of the state repository promise about a follower,   *)
(* whatever the invocations that use them do: runs are opened one at a     *)
(* time, ownership records change only while a run is open, and a run      *)
(* leaves the open states once and for good.                               *)
(***************************************************************************)
EXTENDS Naturals

CONSTANTS
  Resource,  \* resources with an ownership record
  Digest,    \* what an ownership record may say
  MaxRuns    \* bound on the runs started

VARIABLES
  cur,      \* number of runs started
  status,   \* synchronization_runs.status of each
  applied   \* applied_resources

ledger == <<cur, status, applied>>

Open == {"applying", "Interrupted"}
Outcome == {"Converged", "Failed", "FollowerDrift", "HumanActionRequired"}

Init ==
  /\ cur = 0
  /\ status = [r \in 1..MaxRuns |-> "none"]
  /\ applied \in [Resource -> Digest]

\* startRun.
Start ==
  /\ cur < MaxRuns
  /\ cur = 0 \/ status[cur] \notin Open
  /\ cur' = cur + 1
  /\ status' = [status EXCEPT ![cur + 1] = "applying"]
  /\ UNCHANGED applied

\* journalAction of the open run.
Own ==
  /\ cur > 0 /\ status[cur] \in Open
  /\ applied' \in [Resource -> Digest]
  /\ UNCHANGED <<cur, status>>

\* completeRun of the open run with a terminal outcome.
Close(o) ==
  /\ cur > 0 /\ status[cur] \in Open
  /\ status' = [status EXCEPT ![cur] = o]
  /\ applied' \in [Resource -> Digest]
  /\ UNCHANGED cur

\* completeRun of the open run as Interrupted: it stays recoverable.
Interrupt ==
  /\ cur > 0 /\ status[cur] \in Open
  /\ status' = [status EXCEPT ![cur] = "Interrupted"]
  /\ UNCHANGED <<cur, applied>>

Next == Start \/ Own \/ (\E o \in Outcome : Close(o)) \/ Interrupt

Spec == Init /\ [][Next]_ledger
=============================================================================
