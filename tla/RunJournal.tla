----------------------------- MODULE RunJournal -----------------------------
(***************************************************************************)
(* The action journal of one synchronization run, as the state repository  *)
(* stores it and as recovery reads it back: the events of one planned      *)
(* action in the order they were committed, and the questions recovery     *)
(* asks of them.                                                           *)
(*                                                                         *)
(* An event keeps what recovery tells apart: its state, its attempt,       *)
(* whether it names a rollback snapshot, the ownership record it displaced *)
(* (removed_resource_json), and its verification method.                   *)
(***************************************************************************)
EXTENDS Naturals, Sequences

\* Digests an ownership record (applied_resources row) may carry.
Record == {"none", "old", "new"}

EventState == {"pending", "running", "succeeded", "failed", "skipped"}

\* "passed" is passing verification evidence, "run-rolled-back" marks the
\* inverse of a completed action, "other" every remaining method.
Method == {"none", "passed", "run-rolled-back", "other"}

\* ActionJournalRecord.
Event == [st: EventState, att: Nat, ref: BOOLEAN, prev: Record, method: Method]

Ev(st, att, ref, prev, method) ==
  [st |-> st, att |-> att, ref |-> ref, prev |-> prev, method |-> method]

PendingEvent == Ev("pending", 0, FALSE, "none", "none")

Last(s) == s[Len(s)]

(***************************************************************************)
(* validateJournal for one action: exactly one pending event, first and    *)
(* with attempt 0; attempts start at 1 and never decrease; inside one      *)
(* attempt nothing follows a skipped event, and only one run-rolled-back   *)
(* failure may follow a succeeded one; the last success is verified.       *)
(***************************************************************************)
LaterInAttempt(s, k) == {m \in (k + 1)..Len(s) : s[m].att = s[k].att}

ValidJournal(s) ==
  /\ Len(s) > 0
  /\ s[1].st = "pending" /\ s[1].att = 0
  /\ \A k \in 2..Len(s) :
       /\ s[k].st # "pending"
       /\ s[k].att >= 1
       /\ s[k].att >= s[k - 1].att
  /\ \A k \in 2..Len(s) : s[k].st \in {"succeeded", "skipped"} =>
       \/ LaterInAttempt(s, k) = {}
       \/ /\ s[k].st = "succeeded"
          /\ LaterInAttempt(s, k) = {k + 1}
          /\ s[k + 1].st = "failed"
          /\ s[k + 1].method = "run-rolled-back"
  /\ Last(s).st = "succeeded" => Last(s).method = "passed"

\* latestRollbackReference: some event of the action names a snapshot. The
\* snapshot's name is derived from the action, so every reference is the same.
HasReference(s) == \E k \in 1..Len(s) : s[k].ref

\* loadRecovery's removedResources, one resource: the record displaced by the
\* last event that displaced one.
Displaced(s) ==
  LET at == {k \in 1..Len(s) : s[k].prev # "none"}
      latest == {k \in at : \A m \in at : m <= k}
  IN  IF latest = {} THEN "none" ELSE s[CHOOSE k \in latest : TRUE].prev
=============================================================================
