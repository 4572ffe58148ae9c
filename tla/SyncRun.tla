------------------------------ MODULE SyncRun ------------------------------
(***************************************************************************)
(* The durable apply engine of a follower: Synchronization.run and         *)
(* Synchronization.recover, the plan executor, the recovery executor, the  *)
(* run tables of the state repository, and the rollback snapshots on disk. *)
(*                                                                         *)
(* A process is one CLI invocation (`sync --apply`, `recover`, `recover    *)
(* --abandon`).  Nothing in the program keeps two of them apart except     *)
(* the transactions of the state repository, so any number may be alive.   *)
(* Each repository transaction, each filesystem operation of an action and *)
(* each external call is one step; a crash keeps the database and the      *)
(* filesystem and loses the process.                                       *)
(*                                                                         *)
(* Action a of a plan works on resource a.  A content stands for the       *)
(* managed bytes: "old" is what an earlier revision wrote, "new" what this *)
(* revision wants, "local" what the user wrote, "mixed" the desired        *)
(* managed text with later local additions (append-local only), "partial"  *)
(* a half-written directory or installation.                               *)
(***************************************************************************)
EXTENDS Integers, FiniteSets, Sequences, RunJournal

CONSTANTS
  Proc,      \* CLI invocations that may be alive at the same time
  N,         \* number of actions of a plan
  Plans,     \* plans `sync --apply` may compute, functions from 1..N to Kind
  MaxRuns,   \* bound on the runs started
  Limits,    \* mixes of mishaps that may happen: bounds on each kind of them
  EditTo     \* what a user may turn a managed file into

Act == 1..N
Run == 1..MaxRuns
Mishap == {"crash", "fs", "db", "interrupt", "edit", "abandon"}

Kind == {"write", "mirror", "append", "remove", "verify",
         "transfer", "install", "human", "agent", "drift"}
Content == {"absent", "old", "new", "local", "mixed", "partial"}

ASSUME ConstantsAssumption ==
  /\ N \in Nat \ {0}
  /\ MaxRuns \in Nat
  /\ Plans \subseteq [1..N -> Kind]
  /\ Limits \subseteq [Mishap -> Nat]
  /\ EditTo \subseteq Content

VARIABLES
  cur,      \* number of runs started; run cur is the latest
  status,   \* synchronization_runs.status
  plan,     \* synchronization_runs.plan_json
  journal,  \* action_journal of run cur
  applied,  \* applied_resources: the ownership record of each resource
  drifts,   \* drift_records of run cur
  file,     \* the managed target of each resource
  snap,     \* rollback snapshots, per run and action
  proc,     \* the volatile state of each process
  spent,    \* mishaps so far
  base,     \* history: files and records when run cur was started
  edited,   \* history: resources a user edited since run cur was started
  kept      \* history: actions of run cur whose inverse failed

db == <<cur, status, plan, journal, applied, drifts>>
fs == <<file, snap>>
history == <<base, edited, kept>>
vars == <<cur, status, plan, journal, applied, drifts, file, snap, proc,
          spent, base, edited, kept>>

Terminal == {"Converged", "Failed", "FollowerDrift", "HumanActionRequired"}
Recoverable == {"applying", "Interrupted"}
Status == {"none"} \cup Recoverable \cup Terminal

PC == {"idle", "planned", "next", "restore", "reverify", "installer",
       "prepare", "running", "execute", "verify", "succeed",
       "undoVerify", "failVerify", "undo", "fail",
       "human", "drift", "driftSkip", "agent", "agentResolve", "agentVerify",
       "agentSucceed", "agentFail", "agentSkip", "agentError",
       "ownback", "cascade", "cascadeJournal", "skip", "complete", "cleanup",
       "intUndo", "intUnlink", "intFail", "intAgent", "intComplete", "abandon"}

----------------------------------------------------------------------------
(* What an action's kind determines. *)

\* Kinds whose preparation captures a rollback snapshot.
FileBacked == {"write", "mirror", "append", "remove"}
\* Kinds whose success replaces the ownership record (the resource has a
\* digest); tools and credentials have none.
Owning == {"write", "mirror", "append", "verify"}
\* Kinds whose completed action has an inverse to run if the run fails.
Invertible == FileBacked \cup Owning
\* Mutations of several files or of an external installer, which can stop
\* half way; the others are one atomic rename or unlink.
Divisible == {"mirror", "install"}

\* What the mutation makes of the content c. append-local composes its output
\* from what it finds: over the desired managed text it keeps the local one.
Desired(k, c) ==
  CASE k = "remove" -> "absent"
    [] k = "append" /\ c = "mixed" -> "mixed"
    [] OTHER -> "new"

\* The target holds what the profile wants.
Matches(k, c) == c = "new" \/ (k = "append" /\ c = "mixed")

\* verifyResource: evidence that passed or failed, or an error. A content that is
\* not the desired one mostly may be either: a declared file that a directory
\* lacks, a local text or configuration that cannot be parsed and a command that
\* is not found are errors, while a link that is missing is failed evidence. Only
\* a missing text is always an error, and only a missing directory root, or a
\* text Canonfig wrote itself, always failed evidence.
Verification(k, c) ==
  CASE Matches(k, c) -> {"passed"}
    [] ~Matches(k, c) /\ k = "append" /\ c = "absent" -> {"error"}
    [] ~Matches(k, c) /\ \/ k = "mirror" /\ c = "absent"
                         \/ k \in {"write", "append"} /\ c = "old" -> {"failed"}
    [] OTHER -> {"failed", "error"}

\* What a mutation that does not complete may leave behind. Writing a content
\* over itself cannot tear it.
Unfinished(k, from, to) ==
  {from, to} \cup (IF k \in Divisible /\ from # to THEN {"partial"} ELSE {})

\* Faulty variant: an append-local rollback overwrites whatever it finds.
OverwritableAlways(k, c, pre) == TRUE

\* restoreAppendLocal accepts only the exact pre- or post-write state; the
\* other kinds overwrite what they find.
Overwritable(k, c, pre) == k = "append" => c \in {pre, Desired(k, pre)}

Open(r) == r \in Run /\ status[r] \in Recoverable

----------------------------------------------------------------------------
(* The volatile state of a process. *)

NoSeen == [a \in Act |-> [last |-> PendingEvent, ref |-> FALSE]]

Idle == [pc |-> "idle", run |-> 0, mode |-> "run", plan |-> [a \in Act |-> "verify"],
         i |-> 1, att |-> 1, inp |-> [a \in Act |-> "none"], seen |-> NoSeen,
         own |-> "unset", prep |-> FALSE, mem |-> [a \in Act |-> "none"], undone |-> TRUE, done |-> <<>>,
         fail |-> FALSE, human |-> FALSE, drift |-> FALSE, keep |-> {}]

Done == [a: Act, att: Nat, prev: Record]

Process ==
  [pc: PC, run: 0..MaxRuns, mode: {"run", "recover"}, plan: [Act -> Kind],
   i: 1..(N + 1), att: Nat, inp: [Act -> Record],
   seen: [Act -> [last: Event, ref: BOOLEAN]],
   own: Record \cup {"unset"}, prep: BOOLEAN,
   mem: [Act -> Content \cup {"none"}], undone: BOOLEAN, done: Seq(Done),
   fail: BOOLEAN, human: BOOLEAN, drift: BOOLEAN, keep: SUBSET Act]

\* The kind of the action process p is working on.
K(p) == proc[p].plan[proc[p].i]

Set(p, ps) == proc' = [proc EXCEPT ![p] = ps]
Goto(p, l) == Set(p, [proc[p] EXCEPT !.pc = l])

\* executeSynchronizationAction's dispatch on the action's detail.
Entry(k) ==
  CASE k = "human" -> "human"
    [] k = "drift" -> "drift"
    [] k = "agent" -> "agent"
    [] OTHER -> "prepare"

\* Faulty variant: the inverse is kept without falling back on the record the
\* invocation had loaded.
VerifiedWithoutFallback(ps, invertible) ==
  [ps EXCEPT !.pc = "next", !.i = @ + 1, !.own = "unset", !.prep = FALSE,
             !.done = IF invertible
                      THEN Append(@, [a |-> ps.i, att |-> ps.att, prev |-> ps.own])
                      ELSE @]

\* A verified action: the loop goes on, keeping the inverse when there is one.
Verified(ps, invertible) ==
  LET prev == IF ps.own = "unset" THEN ps.inp[ps.i] ELSE ps.own
  IN  [ps EXCEPT !.pc = "next", !.i = @ + 1, !.own = "unset", !.prep = FALSE,
                 !.done = IF invertible
                          THEN Append(@, [a |-> ps.i, att |-> ps.att, prev |-> prev])
                          ELSE @]

\* A failed action: recovery first restores ownership it had already restored
\* physically, then both executors run the inverses in reverse order.
FailedAction(ps) ==
  [ps EXCEPT !.fail = TRUE,
             !.pc = IF ps.mode = "recover" /\ ps.own # "unset" /\ ps.undone
                    THEN "ownback" ELSE "cascade"]

\* A human or drift outcome stops the loop without rolling anything back; the
\* run journals the later actions as skipped, recovery does not.
Stopped(ps) == [ps EXCEPT !.pc = IF ps.mode = "run" THEN "skip" ELSE "complete"]

----------------------------------------------------------------------------
(* Transactions of the state repository and mishaps. *)

Spend(m) ==
  /\ spent' = [spent EXCEPT ![m] = @ + 1]
  /\ \E limit \in Limits : \A x \in Mishap : spent'[x] <= limit[x]

\* journalAction commits: the event is appended and, in the same transaction,
\* the ownership record of the action's resource becomes rec.
JournalAction(p, a, e, rec) ==
  /\ Open(proc[p].run)
  /\ journal' = [journal EXCEPT ![a] = Append(@, e)]
  /\ applied' = [applied EXCEPT ![a] = rec]
  /\ UNCHANGED <<cur, status, plan, drifts, spent>>

\* A transaction of process p fails: the run is no longer recoverable
\* (InvalidRunTransitionError), or the database refuses.
TransactionFails(p) ==
  /\ UNCHANGED db
  /\ \/ ~Open(proc[p].run) /\ UNCHANGED spent
     \/ Open(proc[p].run) /\ Spend("db")

\* The event process p journals for its current action, keeping ownership.
Note(p, st, ref, method) ==
  LET i == proc[p].i
  IN  JournalAction(p, i, Ev(st, proc[p].att, ref, "none", method), applied[i])

\* The preimage a restore of action a writes back: the one process p captured
\* itself (a prepared rollback, whose bytes are still read from the backup and
\* checked against the captured digest), or else the snapshot the journal
\* refers to.
Preimage(p, a) ==
  IF proc[p].mem[a] # "none" THEN proc[p].mem[a] ELSE snap[proc[p].run][a]

CanRestore(p, a) ==
  /\ Preimage(p, a) # "none"
  /\ Preimage(p, a) \in {"absent", snap[proc[p].run][a]}
  /\ Overwritable(proc[p].plan[a], file[a], Preimage(p, a))

Restored(p, a) ==
  /\ CanRestore(p, a)
  /\ file' = [file EXCEPT ![a] = Preimage(p, a)]
  /\ UNCHANGED spent

\* The restore is refused outright, or fails and may have stopped half way.
RestoreFails(p, a) ==
  \/ ~CanRestore(p, a) /\ UNCHANGED <<file, spent>>
  \/ /\ CanRestore(p, a)
     /\ Spend("fs")
     /\ \E c \in Unfinished(proc[p].plan[a], file[a], Preimage(p, a)) :
          file' = [file EXCEPT ![a] = c]

----------------------------------------------------------------------------
(* sync --apply: plan, start. *)

\* What the planner has to observe to draft an action of kind k.
Drafted(k, c, rec) ==
  CASE k = "write"    -> c # "new"
    [] k = "mirror"   -> c # "new"
    [] k = "append"   -> c \in {"absent", "local", "old"}
    [] k = "remove"   -> rec # "none" /\ c \in {"absent", rec}
    [] k = "verify"   -> c = "new"
    [] k = "install"  -> c = "absent" /\ rec = "none"
    [] k = "drift"    -> c = "local"
    [] OTHER          -> rec = "none"

\* synchronizeFollower up to Synchronization.run: the ownership records are
\* loaded and the plan is computed from what is observed now.
Plan(p) ==
  /\ proc[p].pc = "idle"
  /\ cur < MaxRuns
  /\ \E pl \in Plans :
       /\ \A a \in Act : Drafted(pl[a], file[a], applied[a])
       /\ Set(p, [Idle EXCEPT !.pc = "planned", !.plan = pl, !.inp = applied])
  /\ UNCHANGED <<db, fs, spent, history>>

\* Faulty variant: a run is started next to an open one.
StartRunUnchecked(p) ==
  /\ proc[p].pc = "planned"
  /\ cur < MaxRuns
  /\ cur' = cur + 1
  /\ status' = [status EXCEPT ![cur + 1] = "applying"]
  /\ plan' = [plan EXCEPT ![cur + 1] = proc[p].plan]
  /\ journal' = [a \in Act |-> <<PendingEvent>>]
  /\ Set(p, [proc[p] EXCEPT !.pc = "next", !.run = cur + 1])
  /\ UNCHANGED <<applied, drifts, fs, spent, history>>

\* startRun: the run and one pending event per action in one transaction,
\* refused while the follower has a recoverable run.
StartRun(p) ==
  /\ proc[p].pc = "planned"
  /\ cur < MaxRuns
  /\ \A r \in Run : ~Open(r)
  /\ cur' = cur + 1
  /\ status' = [status EXCEPT ![cur + 1] = "applying"]
  /\ plan' = [plan EXCEPT ![cur + 1] = proc[p].plan]
  /\ journal' = [a \in Act |-> <<PendingEvent>>]
  /\ drifts' = {}
  /\ base' = [file |-> file, applied |-> applied]
  /\ edited' = {}
  /\ kept' = {}
  /\ Set(p, [proc[p] EXCEPT !.pc = "next", !.run = cur + 1])
  /\ UNCHANGED <<applied, fs, spent>>

\* ActiveRunExistsError, or the database refuses: nothing was started.
StartRefused(p) ==
  /\ proc[p].pc = "planned"
  /\ \/ cur = MaxRuns /\ UNCHANGED spent
     \/ (\E r \in Run : Open(r)) /\ UNCHANGED spent
     \/ Spend("db")
  /\ Set(p, Idle)
  /\ UNCHANGED <<db, fs, history>>

\* executeSynchronizationPlan's loop: the next action, or the outcome.
RunNext(p) ==
  /\ proc[p].pc = "next" /\ proc[p].mode = "run"
  /\ Goto(p, IF proc[p].i <= N THEN Entry(K(p)) ELSE "complete")
  /\ UNCHANGED <<db, fs, spent, history>>

----------------------------------------------------------------------------
(* executeSynchronizationAction for deterministic work. *)

\* prepareResourceAction: the snapshot is captured (under a name derived from
\* the action, replacing an earlier one) before anything is journaled.
Prepare(p) ==
  /\ proc[p].pc = "prepare"
  /\ snap' = IF K(p) \in FileBacked
             THEN [snap EXCEPT ![proc[p].run][proc[p].i] = file[proc[p].i]]
             ELSE snap
  /\ Set(p, [proc[p] EXCEPT !.pc = "running", !.prep = K(p) \in FileBacked,
                            !.mem[proc[p].i] = IF K(p) \in FileBacked
                                               THEN file[proc[p].i] ELSE "none"])
  /\ UNCHANGED <<db, file, spent, history>>

\* Preparation fails before any rollback material exists for this attempt.
PrepareFails(p) ==
  /\ proc[p].pc = "prepare"
  /\ Spend("fs")
  /\ Goto(p, "fail")
  /\ UNCHANGED <<db, fs, history>>

JournalRunning(p) ==
  /\ proc[p].pc = "running"
  /\ \/ Note(p, "running", proc[p].prep, "none") /\ Goto(p, "execute")
     \/ TransactionFails(p) /\ Goto(p, "undo")
  /\ UNCHANGED <<fs, history>>

\* append-local refuses a target that changed since its snapshot was captured.
Stale(p) ==
  K(p) = "append" /\ file[proc[p].i] # snap[proc[p].run][proc[p].i]

\* The content of the target once the mutation is through.
Written(p) ==
  LET c == file[proc[p].i]
  IN  IF K(p) \in {"transfer", "verify"} \/ Stale(p) THEN c ELSE Desired(K(p), c)

\* prepared.execute: the mutation.
Execute(p) ==
  /\ proc[p].pc = "execute"
  /\ file' = [file EXCEPT ![proc[p].i] = Written(p)]
  /\ Goto(p, CASE Stale(p) -> "undo"
               [] ~Stale(p) /\ K(p) \in {"transfer", "remove"} -> "succeed"
               [] OTHER -> "verify")
  /\ UNCHANGED <<db, snap, spent, history>>

\* The mutation fails part of the way.
ExecuteFails(p) ==
  LET i == proc[p].i
  IN  /\ proc[p].pc = "execute"
      /\ K(p) \notin {"transfer", "verify"}
      /\ Spend("fs")
      /\ \E c \in Unfinished(K(p), file[i], Written(p)) :
           file' = [file EXCEPT ![i] = c]
      /\ Goto(p, "undo")
      /\ UNCHANGED <<db, snap, history>>

\* verifyResource after the mutation.
Verify(p) ==
  /\ proc[p].pc = "verify"
  /\ \E v \in Verification(K(p), file[proc[p].i]) :
       Goto(p, CASE v = "passed" -> "succeed" [] v = "failed" -> "undoVerify"
                 [] v = "error" -> "undo")
  /\ UNCHANGED <<db, fs, spent, history>>

\* The succeeded event; the same transaction replaces or deletes the
\* ownership record and keeps the record it displaces in the journal.
JournalSucceeded(p) ==
  LET i == proc[p].i
      k == K(p)
      prev == IF k \in Invertible THEN proc[p].inp[i] ELSE "none"
      rec == CASE k = "remove" -> "none"
               [] k \in Owning -> "new"
               [] OTHER -> applied[i]
  IN  /\ proc[p].pc = "succeed"
      /\ \/ /\ JournalAction(p, i,
                 Ev("succeeded", proc[p].att, proc[p].prep, prev, "passed"), rec)
            /\ Set(p, Verified(proc[p], k \in Invertible))
         \/ TransactionFails(p) /\ Goto(p, "undo")
      /\ UNCHANGED <<fs, history>>

\* Verification failed: roll the action back inside the same effect; if that
\* fails the error handler tries the rollback again.
UndoVerify(p) ==
  LET i == proc[p].i
  IN  /\ proc[p].pc = "undoVerify"
      /\ \/ proc[p].prep /\ Restored(p, i) /\ Goto(p, "failVerify")
         \/ ~proc[p].prep /\ UNCHANGED <<file, spent>> /\ Goto(p, "failVerify")
         \/ proc[p].prep /\ RestoreFails(p, i) /\ Goto(p, "undo")
      /\ UNCHANGED <<db, snap, history>>

JournalFailVerify(p) ==
  /\ proc[p].pc = "failVerify"
  /\ \/ /\ Note(p, "failed", proc[p].prep, "other")
        /\ Set(p, FailedAction(proc[p]))
     \/ TransactionFails(p) /\ Goto(p, "undo")
  /\ UNCHANGED <<fs, history>>

\* The error handler: rollbackPrepared, remembering a rollback that failed.
Undo(p) ==
  LET i == proc[p].i
  IN  /\ proc[p].pc = "undo"
      /\ \/ proc[p].prep /\ Restored(p, i) /\ Goto(p, "fail")
         \/ ~proc[p].prep /\ UNCHANGED <<file, spent>> /\ Goto(p, "fail")
         \/ /\ proc[p].prep
            /\ RestoreFails(p, i)
            /\ Set(p, [proc[p] EXCEPT !.pc = "fail", !.undone = FALSE,
                                      !.keep = @ \cup {i}])
      /\ UNCHANGED <<db, snap, history>>

\* The failed event of the error handler; a failure to journal it changes
\* only the reason.
JournalFail(p) ==
  /\ proc[p].pc = "fail"
  /\ Note(p, "failed", proc[p].prep, "other") \/ TransactionFails(p)
  /\ Set(p, FailedAction(proc[p]))
  /\ UNCHANGED <<fs, history>>

----------------------------------------------------------------------------
(* Outcome actions: human action, drift conflict, agent task. *)

Human(p) ==
  /\ proc[p].pc = "human"
  /\ \/ /\ Note(p, "skipped", FALSE, "none")
        /\ Set(p, Stopped([proc[p] EXCEPT !.human = TRUE]))
     \/ TransactionFails(p) /\ Set(p, FailedAction(proc[p]))
  /\ UNCHANGED <<fs, history>>

\* recordDrift accepts any existing run; only the database may refuse it.
RecordDrift(p) ==
  /\ proc[p].pc = "drift"
  /\ \/ /\ drifts' = IF proc[p].run = cur THEN drifts \cup {proc[p].i} ELSE drifts
        /\ Goto(p, "driftSkip")
        /\ UNCHANGED <<cur, status, plan, journal, applied, spent>>
     \/ UNCHANGED db /\ Spend("db") /\ Set(p, FailedAction(proc[p]))
  /\ UNCHANGED <<fs, history>>

DriftSkip(p) ==
  /\ proc[p].pc = "driftSkip"
  /\ \/ /\ Note(p, "skipped", FALSE, "none")
        /\ Set(p, Stopped([proc[p] EXCEPT !.drift = TRUE]))
     \/ TransactionFails(p) /\ Set(p, FailedAction(proc[p]))
  /\ UNCHANGED <<fs, history>>

\* An agent task: skipped without an apply-authorized harness, else resolved.
Agent(p) ==
  /\ proc[p].pc = "agent"
  /\ \/ Goto(p, "agentSkip") /\ UNCHANGED <<db, spent>>
     \/ Note(p, "running", FALSE, "none") /\ Goto(p, "agentResolve")
     \/ TransactionFails(p) /\ Goto(p, "agentError")
  /\ UNCHANGED <<fs, history>>

\* The harness answers: it applied the task or says so wrongly, it only
\* proposed, or it was refused or timed out, having changed what it may.
AgentResolve(p) ==
  /\ proc[p].pc = "agentResolve"
  /\ \E c \in {file[proc[p].i], "new"} : file' = [file EXCEPT ![proc[p].i] = c]
  /\ \E l \in {"agentVerify", "agentSkip", "agentError"} : Goto(p, l)
  /\ UNCHANGED <<db, snap, spent, history>>

AgentVerify(p) ==
  /\ proc[p].pc = "agentVerify"
  /\ \E v \in Verification("agent", file[proc[p].i]) :
       Goto(p, CASE v = "passed" -> "agentSucceed" [] v = "failed" -> "agentFail"
                 [] v = "error" -> "agentError")
  /\ UNCHANGED <<db, fs, spent, history>>

AgentSucceed(p) ==
  /\ proc[p].pc = "agentSucceed"
  /\ \/ Note(p, "succeeded", FALSE, "passed") /\ Set(p, Verified(proc[p], FALSE))
     \/ TransactionFails(p) /\ Goto(p, "agentError")
  /\ UNCHANGED <<fs, history>>

AgentFail(p) ==
  /\ proc[p].pc = "agentFail"
  /\ \/ Note(p, "failed", FALSE, "other") /\ Set(p, FailedAction(proc[p]))
     \/ TransactionFails(p) /\ Goto(p, "agentError")
  /\ UNCHANGED <<fs, history>>

AgentSkip(p) ==
  /\ proc[p].pc = "agentSkip"
  /\ \/ /\ Note(p, "skipped", FALSE, "none")
        /\ Set(p, Stopped([proc[p] EXCEPT !.human = TRUE]))
     \/ TransactionFails(p) /\ Goto(p, "agentError")
  /\ UNCHANGED <<fs, history>>

\* Any error of the agent task is journaled as well as it can be and becomes
\* a human action.
AgentError(p) ==
  /\ proc[p].pc = "agentError"
  /\ Note(p, "failed", FALSE, "other") \/ TransactionFails(p)
  /\ Set(p, Stopped([proc[p] EXCEPT !.human = TRUE]))
  /\ UNCHANGED <<fs, history>>

----------------------------------------------------------------------------
(* After a failed action: inverses in reverse order, then the outcome. *)

Top(p) == Last(proc[p].done)
Pop(p) == SubSeq(proc[p].done, 1, Len(proc[p].done) - 1)

\* The inverse of the latest completed action; one that fails is remembered
\* and the next one is tried.
Cascade(p) ==
  LET a == Top(p).a
      backed == proc[p].plan[a] \in FileBacked
  IN  /\ proc[p].pc = "cascade" /\ proc[p].done # <<>>
      /\ \/ backed /\ Restored(p, a) /\ Goto(p, "cascadeJournal")
         \/ ~backed /\ UNCHANGED <<file, spent>> /\ Goto(p, "cascadeJournal")
         \/ /\ backed
            /\ RestoreFails(p, a)
            /\ Set(p, [proc[p] EXCEPT !.done = Pop(p), !.keep = @ \cup {a}])
      /\ UNCHANGED <<db, snap, history>>

\* Faulty variant: the inverse is journaled, the ownership record is not restored.
CascadeJournalKeepingRecord(p) ==
  LET d == Top(p)
      ref == proc[p].plan[d.a] \in FileBacked
  IN  /\ proc[p].pc = "cascadeJournal"
      /\ \/ JournalAction(p, d.a,
              Ev("failed", d.att, ref, "none", "run-rolled-back"), applied[d.a])
         \/ TransactionFails(p)
      /\ Set(p, [proc[p] EXCEPT !.pc = "cascade", !.done = Pop(p)])
      /\ UNCHANGED <<fs, history>>

\* The run-rolled-back event; its transaction restores the ownership record
\* the action had replaced, or deletes the one it had created.
CascadeJournal(p) ==
  LET d == Top(p)
      ref == proc[p].plan[d.a] \in FileBacked
  IN  /\ proc[p].pc = "cascadeJournal"
      /\ \/ JournalAction(p, d.a,
              Ev("failed", d.att, ref, "none", "run-rolled-back"), d.prev)
         \/ TransactionFails(p)
      /\ Set(p, [proc[p] EXCEPT !.pc = "cascade", !.done = Pop(p)])
      /\ UNCHANGED <<fs, history>>

CascadeEnd(p) ==
  /\ proc[p].pc = "cascade" /\ proc[p].done = <<>>
  /\ Set(p, Stopped(proc[p]))
  /\ UNCHANGED <<db, fs, spent, history>>

\* completeSkipped: the actions the run never reached; journal errors are
\* ignored.
Skip(p) ==
  LET j == proc[p].i + 1
  IN  /\ proc[p].pc = "skip"
      /\ IF proc[p].i >= N
         THEN Goto(p, "complete") /\ UNCHANGED <<db, spent>>
         ELSE /\ \/ JournalAction(p, j, Ev("skipped", 1, FALSE, "none", "none"), applied[j])
                 \/ TransactionFails(p)
              /\ Set(p, [proc[p] EXCEPT !.i = j])
      /\ UNCHANGED <<fs, history>>

\* The outcome of a run: a failed action decides it, then drift, then a human.
Outcome(ps) ==
  CASE ps.fail -> "Failed"
    [] ~ps.fail /\ ps.drift -> "FollowerDrift"
    [] ~ps.fail /\ ~ps.drift /\ ps.human -> "HumanActionRequired"
    [] OTHER -> "Converged"

\* completeRun: the outcome, and on convergence every verified record, in one
\* transaction.
Complete(p) ==
  LET r == proc[p].run
      o == Outcome(proc[p])
  IN  /\ proc[p].pc = "complete"
      /\ Open(r)
      /\ status' = [status EXCEPT ![r] = o]
      /\ applied' = IF o # "Converged" THEN applied
                    ELSE [a \in Act |-> CASE proc[p].plan[a] \in Owning -> "new"
                                          [] proc[p].plan[a] = "remove" -> "none"
                                          [] OTHER -> applied[a]]
      /\ kept' = proc[p].keep
      /\ Goto(p, "cleanup")
      /\ UNCHANGED <<cur, plan, journal, drifts, fs, spent, base, edited>>

\* completeRun is refused: the invocation ends with an error, nothing more.
CompleteFails(p) ==
  /\ proc[p].pc = "complete"
  /\ TransactionFails(p)
  /\ Set(p, Idle)
  /\ UNCHANGED <<fs, history>>

\* Faulty variant: the snapshots of failed inverses go too.
CleanupEverything(p) ==
  /\ proc[p].pc = "cleanup"
  /\ snap' = [snap EXCEPT ![proc[p].run] = [a \in Act |-> "none"]]
  /\ Set(p, Idle)
  /\ UNCHANGED <<db, file, spent, history>>

\* cleanupRollbackSnapshots: every snapshot of the run but those of failed
\* inverses; it may stop half way (RollbackCleanupError).
Cleanup(p) ==
  LET r == proc[p].run
      disposable == Act \ proc[p].keep
  IN  /\ proc[p].pc = "cleanup"
      /\ \E gone \in SUBSET disposable :
           /\ IF gone = disposable THEN UNCHANGED spent ELSE Spend("fs")
           /\ snap' = [snap EXCEPT ![r] = [a \in Act |-> IF a \in gone THEN "none" ELSE @[a]]]
      /\ Set(p, Idle)
      /\ UNCHANGED <<db, file, history>>

----------------------------------------------------------------------------
(* recover: resume the open run from its journal. *)

\* recoverSynchronizationPlan up to its loop: load the open run, validate its
\* journal (otherwise RecoveryIntegrityError, and nothing changes), and take
\* the displaced ownership records of the journal before the current ones.
RecoverStart(p) ==
  /\ proc[p].pc = "idle"
  /\ Open(cur)
  /\ \A a \in Act : ValidJournal(journal[a])
  /\ Set(p, [Idle EXCEPT
       !.pc = "next", !.mode = "recover", !.run = cur, !.plan = plan[cur],
       !.inp = [a \in Act |-> IF Displaced(journal[a]) # "none"
                              THEN Displaced(journal[a]) ELSE applied[a]],
       !.seen = [a \in Act |-> [last |-> Last(journal[a]),
                                ref |-> HasReference(journal[a])]],
       !.drift = drifts # {}])
  /\ UNCHANGED <<db, fs, spent, history>>

\* RecoveryIntegrityError: recovery gives up and the run stays open.
GiveUp(p) == Set(p, Idle)

\* preservedOutcome of an action journaled as skipped.
Preserved(ps, k) ==
  CASE k \in {"human", "agent"} -> Stopped([ps EXCEPT !.human = TRUE])
    [] k = "drift" -> Stopped([ps EXCEPT !.drift = TRUE])
    [] OTHER -> FailedAction(ps)

\* Faulty variant: recovery goes on under the attempt it found.
SameAttempt(last) == last.att

\* Every action recovery executes again is a new attempt.
NextAttempt(last) == last.att + 1

\* The recovery loop's choice for the next action.
RecoverNext(p) ==
  LET ps == [proc[p] EXCEPT !.att = NextAttempt(proc[p].seen[proc[p].i].last),
                            !.undone = TRUE]
      last == proc[p].seen[proc[p].i].last
      ref == proc[p].seen[proc[p].i].ref
      k == K(p)
      completedRemoval == k = "remove" /\ last.st = "succeeded"
  IN  /\ proc[p].pc = "next" /\ proc[p].mode = "recover" /\ proc[p].i <= N
      /\ Set(p,
           CASE last.st = "skipped" -> Preserved(ps, k)
             [] last.st = "succeeded" /\ k = "transfer" -> Verified(ps, FALSE)
             [] k = "install" /\ last.st \notin {"pending", "skipped"} ->
                  [ps EXCEPT !.pc = "installer"]
             [] completedRemoval /\ last.ref ->
                  [ps EXCEPT !.pc = "restore", !.own = last.prev]
             [] completedRemoval /\ ~last.ref -> Idle
             [] last.st = "succeeded" /\ k \notin {"transfer", "install", "remove"} ->
                  [ps EXCEPT !.pc = "reverify"]
             [] last.st \in {"running", "failed"} /\ k # "install" /\ ref ->
                  [ps EXCEPT !.pc = "restore"]
             [] OTHER -> [ps EXCEPT !.pc = Entry(k)])
      /\ UNCHANGED <<db, fs, spent, history>>

RecoverLoopEnd(p) ==
  /\ proc[p].pc = "next" /\ proc[p].mode = "recover" /\ proc[p].i > N
  /\ Goto(p, "complete")
  /\ UNCHANGED <<db, fs, spent, history>>

\* Faulty variant: the action is executed again without restoring its preimage.
RestoreSkipped(p) ==
  /\ proc[p].pc = "restore"
  /\ Goto(p, Entry(K(p)))
  /\ UNCHANGED <<db, fs, spent, history>>

\* restoreRollbackReference before the action is executed again.
Restore(p) ==
  /\ proc[p].pc = "restore"
  /\ \/ Restored(p, proc[p].i) /\ Goto(p, Entry(K(p)))
     \/ RestoreFails(p, proc[p].i) /\ GiveUp(p)
  /\ UNCHANGED <<db, snap, history>>

\* Faulty variant: failed evidence gives up as an error does.
ReverifyGivingUp(p) ==
  LET i == proc[p].i
      last == proc[p].seen[i].last
  IN  /\ proc[p].pc = "reverify"
      /\ \E v \in Verification(K(p), file[i]) :
           Set(p, IF v = "passed"
                  THEN Verified([proc[p] EXCEPT !.own = last.prev], K(p) \in Invertible)
                  ELSE Idle)
      /\ UNCHANGED <<db, fs, spent, history>>

\* A succeeded action is verified again. An error gives up; failed evidence
\* runs the action again from its snapshot, if it has one.
Reverify(p) ==
  LET i == proc[p].i
      k == K(p)
      last == proc[p].seen[i].last
  IN  /\ proc[p].pc = "reverify"
      /\ \E v \in Verification(k, file[i]) :
           Set(p,
             CASE v = "error" -> Idle
               [] v = "passed" ->
                    Verified([proc[p] EXCEPT !.own = last.prev], k \in Invertible)
               [] v = "failed" /\ last.ref ->
                    [proc[p] EXCEPT !.pc = "restore", !.own = last.prev]
               [] v = "failed" /\ ~last.ref -> FailedAction(proc[p]))
      /\ UNCHANGED <<db, fs, spent, history>>

\* Faulty variant: an installer that may have run counts as done.
InstallerTrusting(p) ==
  /\ proc[p].pc = "installer"
  /\ Note(p, "succeeded", FALSE, "passed")
  /\ Set(p, Verified(proc[p], FALSE))
  /\ UNCHANGED <<fs, history>>

\* uncertainInstaller: an installer that may have run is never run again. A
\* verification command that cannot be found is an error, and journals nothing.
Installer(p) ==
  /\ proc[p].pc = "installer"
  /\ \E v \in Verification("install", file[proc[p].i]) :
       \/ /\ v = "passed"
          /\ Note(p, "succeeded", FALSE, "passed")
          /\ Set(p, Verified(proc[p], FALSE))
       \/ /\ \/ v = "failed" /\ Note(p, "skipped", FALSE, "other")
             \/ v # "error" /\ TransactionFails(p)
             \/ v = "error" /\ UNCHANGED <<db, spent>>
          /\ Set(p, Stopped([proc[p] EXCEPT !.human = TRUE]))
  /\ UNCHANGED <<fs, history>>

\* A re-executed action failed after its earlier success had been undone:
\* journal the ownership that belongs to the restored preimage.
OwnBack(p) ==
  LET i == proc[p].i
  IN  /\ proc[p].pc = "ownback"
      /\ \/ /\ JournalAction(p, i, Ev("failed", proc[p].att, FALSE, "none",
                                      "run-rolled-back"), proc[p].own)
            /\ Goto(p, "cascade")
         \/ TransactionFails(p) /\ GiveUp(p)
      /\ UNCHANGED <<fs, history>>

----------------------------------------------------------------------------
(* recover --abandon: close the open run as Failed, touching nothing else. *)

AbandonStart(p) ==
  /\ proc[p].pc = "idle"
  /\ Open(cur)
  /\ Spend("abandon")
  /\ Set(p, [Idle EXCEPT !.pc = "abandon", !.run = cur, !.plan = plan[cur],
                         !.inp = applied])
  /\ UNCHANGED <<db, fs, history>>

\* completeRun with the ownership records read one transaction earlier.
Abandon(p) ==
  /\ proc[p].pc = "abandon"
  /\ \/ /\ Open(proc[p].run)
        /\ status' = [status EXCEPT ![proc[p].run] = "Failed"]
        /\ applied' = [a \in Act |-> IF proc[p].inp[a] # "none"
                                     THEN proc[p].inp[a] ELSE applied[a]]
        /\ kept' = Act
        /\ UNCHANGED <<cur, plan, journal, drifts, spent>>
     \/ TransactionFails(p) /\ UNCHANGED kept
  /\ Set(p, Idle)
  /\ UNCHANGED <<fs, base, edited>>

----------------------------------------------------------------------------
(* Crashes, interrupts and users. *)

\* What process p may leave of the files when it stops where it is.
Torn(p) ==
  LET a == IF proc[p].pc = "cascade" THEN Top(p).a ELSE proc[p].i
      restoring == /\ \/ proc[p].pc = "restore"
                      \/ proc[p].pc \in {"undoVerify", "undo", "intUndo", "intUnlink"}
                         /\ proc[p].prep
                      \/ proc[p].pc = "cascade" /\ proc[p].done # <<>>
                   /\ proc[p].plan[a] \in FileBacked /\ CanRestore(p, a)
      left == CASE proc[p].pc = "execute" -> Unfinished(K(p), file[a], Written(p))
                [] restoring -> Unfinished(proc[p].plan[a], file[a], Preimage(p, a))
                [] OTHER -> {}
  IN  {file} \cup {[file EXCEPT ![a] = c] : c \in left}

\* The process dies; the database and the filesystem stay.
Crash(p) ==
  /\ proc[p].pc # "idle"
  /\ Spend("crash")
  /\ file' \in Torn(p)
  /\ Set(p, Idle)
  /\ UNCHANGED <<db, snap, history>>

\* SIGINT or SIGTERM interrupts the fiber: the handler of the innermost effect
\* runs first. An action's own handler rolls it back, the error handlers and
\* the loops have only the plan's handler, and a run that is being completed
\* has none.
Interrupt(p) ==
  LET work == {"prepare", "running", "execute", "verify", "succeed",
               "undoVerify", "failVerify"}
      task == {"agent", "agentResolve", "agentVerify", "agentSucceed",
               "agentFail", "agentSkip"}
      ending == {"complete", "cleanup"}
      unlinking == proc[p].pc = "execute" /\ K(p) = "remove"
  IN  /\ proc[p].pc \notin {"idle", "intUndo", "intUnlink", "intFail", "intAgent",
                             "intComplete"}
      /\ Spend("interrupt")
      /\ file' \in Torn(p)
      /\ CASE unlinking -> Goto(p, "intUnlink")
           [] proc[p].pc \in work /\ ~unlinking -> Goto(p, "intUndo")
           [] proc[p].pc \in task -> Goto(p, "intAgent")
           [] proc[p].pc \in {"planned", "abandon"} -> Set(p, Idle)
           [] proc[p].pc \in ending /\ proc[p].mode = "run" -> Set(p, Idle)
           [] OTHER -> Goto(p, "intComplete")
      /\ UNCHANGED <<db, snap, history>>

\* rollbackPrepared in the interrupt handler. The interrupted unlink of a
\* removal is not awaited and may land after the preimage was put back.
InterruptUndo(p) ==
  LET i == proc[p].i
  IN  /\ proc[p].pc \in {"intUndo", "intUnlink"}
      /\ \/ /\ proc[p].prep /\ CanRestore(p, i)
            /\ \E c \in {Preimage(p, i)} \cup
                        (IF proc[p].pc = "intUnlink" THEN {"absent"} ELSE {}) :
                 file' = [file EXCEPT ![i] = c]
            /\ UNCHANGED spent
            /\ Goto(p, "intFail")
         \/ ~proc[p].prep /\ UNCHANGED <<file, spent>> /\ Goto(p, "intFail")
         \/ proc[p].prep /\ RestoreFails(p, i) /\ Goto(p, "intComplete")
      /\ UNCHANGED <<db, snap, history>>

InterruptFail(p) ==
  /\ proc[p].pc \in {"intFail", "intAgent"}
  /\ Note(p, "failed", proc[p].prep, "other") \/ TransactionFails(p)
  /\ Goto(p, "intComplete")
  /\ UNCHANGED <<fs, history>>

\* Faulty variant: the interrupted run writes back the records its invocation
\* had loaded.
InterruptCompleteOwning(p) ==
  LET r == IF proc[p].mode = "run" THEN proc[p].run ELSE cur
  IN  /\ proc[p].pc = "intComplete"
      /\ \/ /\ Open(r)
            /\ status' = [status EXCEPT ![r] = "Interrupted"]
            /\ applied' = proc[p].inp
         \/ ~Open(r) /\ UNCHANGED <<status, applied>>
      /\ Set(p, Idle)
      /\ UNCHANGED <<cur, plan, journal, drifts, fs, spent, history>>

\* completeRun Interrupted: the run's own handler closes its run, recovery's
\* handler whatever run is open; errors are ignored.
InterruptComplete(p) ==
  LET r == IF proc[p].mode = "run" THEN proc[p].run ELSE cur
  IN  /\ proc[p].pc = "intComplete"
      /\ \/ Open(r) /\ status' = [status EXCEPT ![r] = "Interrupted"] /\ UNCHANGED spent
         \/ ~Open(r) /\ UNCHANGED <<status, spent>>
         \/ Open(r) /\ Spend("db") /\ UNCHANGED status
      /\ Set(p, Idle)
      /\ UNCHANGED <<cur, plan, journal, applied, drifts, fs, history>>

\* A user or another program changes a managed file.
Edit(a) ==
  /\ Spend("edit")
  /\ \E c \in EditTo :
       /\ c # file[a]
       /\ c = "mixed" => file[a] = "new"
       /\ file' = [file EXCEPT ![a] = c]
  /\ edited' = edited \cup {a}
  /\ UNCHANGED <<db, snap, proc, base, kept>>

----------------------------------------------------------------------------

\* Nothing is open, no invocation is alive, and the bound on runs is reached or
\* no plan of the instance fits what is observed.
Rest ==
  /\ \/ cur = MaxRuns
     \/ ~\E pl \in Plans : \A a \in Act : Drafted(pl[a], file[a], applied[a])
  /\ \A p \in Proc : proc[p].pc = "idle"
  /\ \A r \in Run : ~Open(r)
  /\ UNCHANGED vars

Init ==
  /\ cur = 0
  /\ status = [r \in Run |-> "none"]
  /\ plan = [r \in Run |-> [a \in Act |-> "verify"]]
  /\ journal = [a \in Act |-> <<PendingEvent>>]
  /\ drifts = {}
  /\ \E start \in [Act -> {<<"absent", "none">>, <<"old", "old">>,
                           <<"local", "none">>, <<"new", "none">>}] :
       /\ file = [a \in Act |-> start[a][1]]
       /\ applied = [a \in Act |-> start[a][2]]
  /\ snap = [r \in Run |-> [a \in Act |-> "none"]]
  /\ proc = [p \in Proc |-> Idle]
  /\ spent = [m \in Mishap |-> 0]
  /\ base = [file |-> file, applied |-> applied]
  /\ edited = {}
  /\ kept = {}

\* The steps an invocation takes by itself once it is under way.
Step(p) ==
  \/ StartRun(p) \/ StartRefused(p) \/ RunNext(p)
  \/ Prepare(p) \/ PrepareFails(p) \/ JournalRunning(p)
  \/ Execute(p) \/ ExecuteFails(p) \/ Verify(p) \/ JournalSucceeded(p)
  \/ UndoVerify(p) \/ JournalFailVerify(p) \/ Undo(p) \/ JournalFail(p)
  \/ Human(p) \/ RecordDrift(p) \/ DriftSkip(p)
  \/ Agent(p) \/ AgentResolve(p) \/ AgentVerify(p)
  \/ AgentSucceed(p) \/ AgentFail(p) \/ AgentSkip(p) \/ AgentError(p)
  \/ Cascade(p) \/ CascadeJournal(p) \/ CascadeEnd(p) \/ Skip(p)
  \/ Complete(p) \/ CompleteFails(p) \/ Cleanup(p)
  \/ RecoverNext(p) \/ RecoverLoopEnd(p) \/ Restore(p) \/ Reverify(p)
  \/ Installer(p) \/ OwnBack(p) \/ Abandon(p)
  \/ InterruptUndo(p) \/ InterruptFail(p) \/ InterruptComplete(p)

Next ==
  \/ \E p \in Proc : \/ Step(p) \/ Plan(p) \/ RecoverStart(p) \/ AbandonStart(p)
                     \/ Crash(p) \/ Interrupt(p)
  \/ \E a \in Act : Edit(a)
  \/ Rest

Spec == Init /\ [][Next]_vars

\* An invocation that is under way keeps running, and the operator keeps
\* answering an open run with `canonfig recover`.
FairSpec ==
  /\ Spec
  /\ \A p \in Proc : WF_vars(Step(p)) /\ WF_vars(RecoverStart(p))

----------------------------------------------------------------------------
(* Properties. *)

\* Type correctness of the durable and the volatile state.
TypeOK ==
  /\ cur \in 0..MaxRuns
  /\ status \in [Run -> Status]
  /\ plan \in [Run -> [Act -> Kind]]
  /\ journal \in [Act -> Seq(Event)]
  /\ applied \in [Act -> Record]
  /\ drifts \subseteq Act
  /\ file \in [Act -> Content]
  /\ snap \in [Run -> [Act -> Content \cup {"none"}]]
  /\ proc \in [Proc -> Process]
  /\ spent \in [Mishap -> Nat]
  /\ base \in [file: [Act -> Content], applied: [Act -> Record]]
  /\ edited \subseteq Act
  /\ kept \subseteq Act

Ended == cur > 0 /\ status[cur] \in Terminal
KindOf(a) == plan[cur][a]

\* Before each mutation the engine has written rollback material and a journal
\* entry that refers to it (captureRollback, then journalAction running): in
\* every state of an open run, also between a crash and its recovery, a
\* managed file that differs from what the run found has a snapshot of exactly
\* that content, reachable from the journal.
MutationsAreRecoverable ==
  Open(cur) => \A a \in Act \ edited :
    KindOf(a) \in FileBacked /\ file[a] # base.file[a]
      => snap[cur][a] = base.file[a] /\ HasReference(journal[a])

\* Whatever sequence of failures, interrupts, crashes and recoveries wrote it,
\* the journal of an open run passes validateJournal, so recovery is never
\* refused by what the engine itself recorded.
JournalStaysValid == Open(cur) => \A a \in Act : ValidJournal(journal[a])

\* Canonfig never reports convergence because some actions succeeded: when a
\* run ends Converged every managed target the user left alone holds the
\* desired content and its ownership record says so.
ConvergedMeansConverged ==
  cur > 0 /\ status[cur] = "Converged" => \A a \in Act \ edited :
    /\ KindOf(a) \in Owning => Matches(KindOf(a), file[a]) /\ applied[a] = "new"
    /\ KindOf(a) = "remove" => file[a] = "absent" /\ applied[a] = "none"
    /\ KindOf(a) \in {"install", "agent"} => Matches(KindOf(a), file[a])

\* No event of the action names another displaced record than the one the run
\* found: a recovery that executes the action again may take the run's own
\* record for the displaced one, and journal it as such.
Remembered(a) == \A n \in 1..Len(journal[a]) :
  journal[a][n].st = "succeeded" => journal[a][n].prev = base.applied[a]

\* A failed run rolls its file and directory mutations back and restores the
\* prior ownership records, except where an inverse itself failed, and for the
\* records except where the journal has lost the prior one.
FailedRunIsUndone ==
  cur > 0 /\ status[cur] = "Failed" => \A a \in Act \ (edited \cup kept) :
    KindOf(a) \in Invertible
      => file[a] = base.file[a] /\ (Remembered(a) => applied[a] = base.applied[a])

\* No run ends with a mutation half done and its preimage gone: a target is as
\* the run found it, or desired and owned, or its snapshot is retained.
NothingHalfDone ==
  Ended => \A a \in Act \ edited : KindOf(a) \in FileBacked =>
    \/ file[a] = base.file[a]
    \/ KindOf(a) # "remove" /\ Matches(KindOf(a), file[a]) /\ applied[a] = "new"
    \/ KindOf(a) = "remove" /\ file[a] = "absent" /\ applied[a] = "none"
    \/ snap[cur][a] = base.file[a]

\* append-local text a user added after a write is never overwritten by a
\* rollback or a recovery (restoreAppendLocal).
LocalAdditionsSurvive ==
  [][\A a \in Act : cur > 0 /\ KindOf(a) = "append" /\ file[a] = "mixed"
       => file'[a] = "mixed" \/ spent'["edit"] > spent["edit"]]_vars

\* At most one run of a follower is recoverable, and it is the latest
\* (startRun, block_run_while_recoverable).
OneOpenRun == \A r \in Run : Open(r) => r = cur

\* A run that has ended is never reopened and its outcome never changes, also
\* by a process that was still working on it (completeRun).
EndedIsFinal ==
  [][\A r \in Run : status[r] \in Terminal => status'[r] = status[r]]_vars

\* Only a run that is still open changes ownership records: a process whose run
\* was closed under it can no longer touch them (journalAction).
OwnershipNeedsOpenRun == [][applied' # applied => Open(cur)]_vars

\* The run tables keep the promises of RunLedger: every transaction of every
\* invocation is one of its steps or leaves the tables alone.
Ledger == INSTANCE RunLedger WITH Resource <- Act, Digest <- Record
LedgerSpec == Ledger!Spec

\* An open run is eventually closed when the operator keeps running recovery.
OpenRunsClose == Open(cur) ~> ~Open(cur)

\* A run is stranded at an action that recovery will verify again, because its
\* last event is a success, while its inverse is through, or begun, and the
\* verification of what is there now may be an error. An invocation that was cut
\* short between an inverse and its event leaves that.
StrandedAt(a) ==
  /\ Last(journal[a]).st = "succeeded"
  /\ file[a] \in {base.file[a], "partial"}
  /\ "error" \in Verification(KindOf(a), file[a])

Stranded ==
  spent["crash"] + spent["interrupt"] > 0 /\ \E a \in Act : StrandedAt(a)

\* An open run is eventually closed when the operator keeps running recovery
\* (recoverSynchronizationPlan), whatever failed or stopped before, unless it is
\* stranded and stays so: nothing else keeps a run open for ever.
OnlyStrandedRunsStayOpen == Open(cur) ~> ~Open(cur) \/ []Stranded
=============================================================================
