--------------------------- MODULE SyncRunProofs ---------------------------
(***************************************************************************)
(* Theorems about SyncRun for every set of processes, every plan and every *)
(* bound: type correctness, and that the run table keeps the promises of   *)
(* RunLedger whatever the processes, crashes and interrupts do.  Behind    *)
(* these, the invariant Recovering, by which an invocation is right about  *)
(* the journal, the snapshots and the files of its run as long as no two   *)
(* overlap: RecoveryProofs rests on it.                                    *)
(***************************************************************************)
EXTENDS SyncRun, SequenceTheorems, TLAPS

(***************************************************************************)
(* Where a process may be with which registers: the loop index names an    *)
(* action wherever an action is worked on, a process past its start has a  *)
(* run, an inverse that is journaled is still on the stack, and ownership  *)
(* is only put back where recovery knows which.                            *)
(***************************************************************************)
LocalInv(ps) ==
  /\ ps.pc \notin {"next", "complete", "cleanup", "intComplete"} => ps.i \in Act
  /\ ps.pc \notin {"idle", "planned"} => ps.run \in Run
  /\ ps.pc = "cascadeJournal" => ps.done # <<>>
  /\ ps.pc = "ownback" => ps.own # "unset"

Good == {ps \in Process : LocalInv(ps)}

\* A process that works on an action of a run.
Busy(ps) == ps \in Good /\ ps.i \in Act /\ ps.run \in Run

\* TypeOK without the processes.
DurableOK ==
  /\ cur \in 0..MaxRuns
  /\ status \in [Run -> Status]
  /\ plan \in [Run -> [Act -> Kind]]
  /\ journal \in [Act -> Seq(Event)]
  /\ applied \in [Act -> Record]
  /\ drifts \subseteq Act
  /\ file \in [Act -> Content]
  /\ snap \in [Run -> [Act -> Content \cup {"none"}]]
  /\ spent \in [Mishap -> Nat]
  /\ base \in [file: [Act -> Content], applied: [Act -> Record]]
  /\ edited \subseteq Act
  /\ kept \subseteq Act

\* The inductive strengthening of TypeOK.
TypeInv == DurableOK /\ proc \in [Proc -> Good]

----------------------------------------------------------------------------
(* Updates of a process. *)

\* The idle process of a new invocation is well formed.
LEMMA IdleGood == Idle \in Good
  BY ConstantsAssumption
  DEF Idle, Good, LocalInv, Process, Act, NoSeen, PendingEvent, Ev, Event,
      Record, EventState, Method, PC, Kind, Content

\* Moving a working process to another place of the same action.
LEMMA GotoGood ==
  ASSUME NEW ps, Busy(ps), NEW l \in PC \ {"cascadeJournal", "ownback"}
  PROVE  [ps EXCEPT !.pc = l] \in Good
  BY DEF Busy, Good, LocalInv, Process

\* Moving a process to a place that needs no action.
LEMMA GotoEndGood ==
  ASSUME NEW ps \in Good, ps.run \in Run, NEW l \in {"next", "complete", "cleanup", "intComplete"}
  PROVE  [ps EXCEPT !.pc = l] \in Good
<1>1. l \in PC
  BY DEF PC
<1>2. QED
  BY <1>1 DEF Good, LocalInv, Process

\* The update of Verified keeps every register in its type.
LEMMA VerifiedUpdate ==
  ASSUME NEW ps \in Process, NEW k \in 1..(N + 1), NEW d \in Seq(Done)
  PROVE  [ps EXCEPT !.pc = "next", !.i = k, !.own = "unset", !.prep = FALSE,
                    !.done = d] \in Process
  BY DEF Process, PC

\* A verified action leaves a well-formed process.
LEMMA VerifiedGood ==
  ASSUME NEW ps, Busy(ps), NEW b \in BOOLEAN
  PROVE  Verified(ps, b) \in Good
<1> DEFINE prev == IF ps.own = "unset" THEN ps.inp[ps.i] ELSE ps.own
           d == IF b THEN Append(ps.done, [a |-> ps.i, att |-> ps.att, prev |-> prev])
                ELSE ps.done
           k == ps.i + 1
<1>1. ps \in Process /\ ps.i \in Act /\ ps.run \in Run
  BY DEF Busy, Good
<1>2. prev \in Record
  BY <1>1 DEF Process
<1>3. [a |-> ps.i, att |-> ps.att, prev |-> prev] \in Done
  BY <1>1, <1>2 DEF Process, Done
<1>4. d \in Seq(Done)
  BY <1>1, <1>3 DEF Process
<1>5. k \in 1..(N + 1)
  BY <1>1, ConstantsAssumption DEF Act
<1>6. Verified(ps, b) = [ps EXCEPT !.pc = "next", !.i = k, !.own = "unset",
                                   !.prep = FALSE, !.done = d]
  BY <1>1 DEF Verified, Process
<1> HIDE DEF d, prev, k
<1>7. Verified(ps, b) \in Process
  <2>1. ps \in Process
    BY <1>1
  <2>2. [ps EXCEPT !.pc = "next", !.i = k, !.own = "unset", !.prep = FALSE,
                   !.done = d] \in Process
    BY <2>1, <1>4, <1>5, VerifiedUpdate
  <2>3. QED
    BY <2>2, <1>6
<1>8. LocalInv(Verified(ps, b))
  BY <1>1, <1>6 DEF Process, LocalInv
<1>9. QED
  BY <1>7, <1>8 DEF Good

\* A failed action leaves a well-formed process.
LEMMA FailedActionGood ==
  ASSUME NEW ps, Busy(ps)
  PROVE  FailedAction(ps) \in Good
<1>1. "ownback" \in PC /\ "cascade" \in PC
  BY DEF PC
<1>2. CASE ps.mode = "recover" /\ ps.own # "unset" /\ ps.undone
  <2>1. FailedAction(ps) = [ps EXCEPT !.fail = TRUE, !.pc = "ownback"]
    BY <1>2 DEF FailedAction
  <2>2. QED
    BY <1>1, <1>2, <2>1 DEF Busy, Good, LocalInv, Process
<1>3. CASE ~(ps.mode = "recover" /\ ps.own # "unset" /\ ps.undone)
  <2>1. FailedAction(ps) = [ps EXCEPT !.fail = TRUE, !.pc = "cascade"]
    BY <1>3 DEF FailedAction
  <2>2. QED
    BY <1>1, <1>3, <2>1 DEF Busy, Good, LocalInv, Process
<1>4. QED
  BY <1>2, <1>3

\* Stopping the loop leaves a well-formed process.
LEMMA StoppedGood ==
  ASSUME NEW ps, Busy(ps)
  PROVE  Stopped(ps) \in Good
<1>1. "skip" \in PC /\ "complete" \in PC
  BY DEF PC
<1>2. [ps EXCEPT !.pc = "skip"] \in Good
  BY <1>1, GotoGood
<1>3. [ps EXCEPT !.pc = "complete"] \in Good
  BY <1>1, GotoGood
<1>4. QED
  BY <1>2, <1>3 DEF Stopped

\* Remembering an outcome keeps a process at work.
LEMMA NotedBusy ==
  ASSUME NEW ps, Busy(ps), ps.pc \notin {"cascadeJournal", "ownback"}
  PROVE  /\ Busy([ps EXCEPT !.human = TRUE])
         /\ Busy([ps EXCEPT !.drift = TRUE])
  BY DEF Busy, Good, LocalInv, Process

\* Entering an action leaves a well-formed process.
LEMMA EntryGood ==
  ASSUME NEW ps, Busy(ps), NEW k
  PROVE  [ps EXCEPT !.pc = Entry(k)] \in Good
<1>1. Entry(k) \in PC \ {"cascadeJournal", "ownback"}
  BY DEF Entry, PC
<1>2. QED
  BY <1>1, GotoGood

\* A process update that is well formed keeps all processes well formed.
LEMMA SetGood ==
  ASSUME NEW p \in Proc, proc \in [Proc -> Good], NEW ps \in Good, Set(p, ps)
  PROVE  proc' \in [Proc -> Good]
  BY DEF Set

----------------------------------------------------------------------------
(* Updates of the durable state. *)

\* Nothing durable changes.
LEMMA FrameType ==
  ASSUME DurableOK, UNCHANGED <<db, fs, spent, history>>
  PROVE  DurableOK'
  BY DEF DurableOK, db, fs, history

\* A mishap is counted.
LEMMA SpendType ==
  ASSUME DurableOK, NEW m \in Mishap, Spend(m)
  PROVE  spent' \in [Mishap -> Nat]
  BY DEF DurableOK, Spend

\* Only a mishap is counted.
LEMMA SpendFrameType ==
  ASSUME DurableOK, NEW m \in Mishap, Spend(m), UNCHANGED <<db, fs, history>>
  PROVE  DurableOK'
  BY SpendType DEF DurableOK, db, fs, history

\* A committed journal transaction.
LEMMA JournalActionType ==
  ASSUME DurableOK, NEW p, NEW a \in Act, NEW e \in Event, NEW rec \in Record,
         JournalAction(p, a, e, rec), UNCHANGED <<fs, history>>
  PROVE  DurableOK'
<1>1. journal' \in [Act -> Seq(Event)]
  BY DEF DurableOK, JournalAction
<1>2. applied' \in [Act -> Record]
  BY DEF DurableOK, JournalAction
<1>3. QED
  BY <1>1, <1>2 DEF DurableOK, JournalAction, fs, history

\* A refused transaction.
LEMMA TransactionFailsType ==
  ASSUME DurableOK, NEW p, TransactionFails(p), UNCHANGED <<fs, history>>
  PROVE  DurableOK'
  BY FrameType, SpendFrameType DEF TransactionFails, Mishap

\* Every journaled event is an event.
LEMMA EvType ==
  ASSUME NEW st \in EventState, NEW att \in Nat, NEW ref \in BOOLEAN,
         NEW prev \in Record, NEW method \in Method
  PROVE  Ev(st, att, ref, prev, method) \in Event
  BY DEF Ev, Event

\* A committed event about the current action.
LEMMA NoteType ==
  ASSUME DurableOK, NEW p, Busy(proc[p]), NEW st \in EventState,
         NEW ref \in BOOLEAN, NEW method \in Method,
         Note(p, st, ref, method), UNCHANGED <<fs, history>>
  PROVE  DurableOK'
<1> DEFINE i == proc[p].i
           e == Ev(st, proc[p].att, ref, "none", method)
<1>1. i \in Act /\ proc[p].att \in Nat
  BY DEF Busy, Good, Process
<1>2. "none" \in Record
  BY DEF Record
<1>3. e \in Event
  BY <1>1, <1>2, EvType
<1>4. applied[i] \in Record
  BY <1>1 DEF DurableOK
<1>5. JournalAction(p, i, e, applied[i])
  BY DEF Note
<1> HIDE DEF i, e
<1>6. QED
  BY <1>1, <1>3, <1>4, <1>5, JournalActionType

\* What an unfinished mutation leaves is a content.
LEMMA UnfinishedType ==
  ASSUME NEW k, NEW from \in Content, NEW to \in Content
  PROVE  Unfinished(k, from, to) \subseteq Content
  BY DEF Unfinished, Content

\* What a restore writes back is a content.
LEMMA PreimageType ==
  ASSUME DurableOK, NEW p, proc[p] \in Good, proc[p].run \in Run, NEW a \in Act,
         CanRestore(p, a)
  PROVE  Preimage(p, a) \in Content
<1>1. snap[proc[p].run][a] \in Content \cup {"none"}
  BY DEF DurableOK
<1>2. proc[p].mem[a] \in Content \cup {"none"}
  BY DEF Good, Process
<1>3. QED
  BY <1>1, <1>2 DEF CanRestore, Preimage

\* A restore, successful or not, leaves a content in every target.
LEMMA RestoreType ==
  ASSUME DurableOK, NEW p, proc[p] \in Good, proc[p].run \in Run, NEW a \in Act,
         Restored(p, a) \/ RestoreFails(p, a), UNCHANGED <<db, snap, history>>
  PROVE  DurableOK'
<1>1. CASE Restored(p, a)
  <2>1. file' \in [Act -> Content]
    BY <1>1, PreimageType DEF Restored, DurableOK
  <2>2. QED
    BY <1>1, <2>1 DEF Restored, DurableOK, db, history
<1>2. CASE ~CanRestore(p, a) /\ UNCHANGED <<file, spent>>
  BY <1>2 DEF DurableOK, db, history
<1>3. CASE /\ CanRestore(p, a)
           /\ Spend("fs")
           /\ \E c \in Unfinished(proc[p].plan[a], file[a], Preimage(p, a)) :
                file' = [file EXCEPT ![a] = c]
  <2>1. PICK c \in Unfinished(proc[p].plan[a], file[a], Preimage(p, a)) :
               file' = [file EXCEPT ![a] = c]
    BY <1>3
  <2>2. c \in Content
    BY <1>3, PreimageType, UnfinishedType DEF DurableOK
  <2>3. file' \in [Act -> Content]
    BY <2>1, <2>2 DEF DurableOK
  <2>4. spent' \in [Mishap -> Nat]
    BY <1>3, SpendType DEF Mishap
  <2>5. QED
    BY <2>3, <2>4 DEF DurableOK, db, history
<1>4. QED
  BY <1>1, <1>2, <1>3 DEF RestoreFails

----------------------------------------------------------------------------
(* Every action preserves TypeInv. *)

\* Outside the loops' own places a process works on an action of its run.
LEMMA AtWork ==
  ASSUME TypeInv, NEW p \in Proc,
         proc[p].pc \notin {"idle", "planned", "next", "complete", "cleanup", "intComplete"}
  PROVE  Busy(proc[p])
  BY DEF TypeInv, Busy, Good, LocalInv

\* The common ends of an action's proof.
LEMMA SetType ==
  ASSUME TypeInv, DurableOK', NEW p \in Proc, NEW ps \in Good, Set(p, ps)
  PROVE  TypeInv'
  BY SetGood DEF TypeInv

\* A process moves to another place of its action and nothing durable changes.
LEMMA GotoType ==
  ASSUME TypeInv, DurableOK', NEW p \in Proc, Busy(proc[p]),
         NEW l \in PC \ {"cascadeJournal", "ownback"}, Goto(p, l)
  PROVE  TypeInv'
<1>1. [proc[p] EXCEPT !.pc = l] \in Good
  BY GotoGood
<1>2. QED
  BY <1>1, SetType DEF Goto

\* An invocation ends and nothing durable changes.
LEMMA IdleType ==
  ASSUME TypeInv, DurableOK', NEW p \in Proc, Set(p, Idle)
  PROVE  TypeInv'
  BY IdleGood, SetType

\* sync --apply computes its plan.
LEMMA PlanType ==
  ASSUME TypeInv, NEW p \in Proc, Plan(p)
  PROVE  TypeInv'
<1>1. PICK pl \in Plans : Set(p, [Idle EXCEPT !.pc = "planned", !.plan = pl, !.inp = applied])
  BY DEF Plan
<1>2. pl \in [Act -> Kind] /\ applied \in [Act -> Record]
  BY ConstantsAssumption DEF TypeInv, DurableOK, Act
<1>3. "planned" \in PC /\ 1 \in Act
  BY ConstantsAssumption DEF PC, Act
<1>4. Idle \in Process /\ Idle.i = 1
  BY IdleGood DEF Good, Idle
<1>5. [Idle EXCEPT !.pc = "planned", !.plan = pl, !.inp = applied] \in Good
  BY <1>2, <1>3, <1>4 DEF Good, LocalInv, Process
<1>6. DurableOK'
  BY FrameType DEF Plan, TypeInv
<1>7. QED
  BY <1>1, <1>5, <1>6, SetType

\* startRun commits.
LEMMA StartRunType ==
  ASSUME TypeInv, NEW p \in Proc, StartRun(p)
  PROVE  TypeInv'
<1>1. proc[p] \in Process /\ proc[p].pc = "planned" /\ proc[p].i \in Act
  BY DEF StartRun, TypeInv, Good, LocalInv
<1>2. cur + 1 \in Run /\ cur + 1 \in 0..MaxRuns
  BY ConstantsAssumption DEF StartRun, TypeInv, DurableOK, Run
<1>3. "next" \in PC
  BY DEF PC
<1>4. [proc[p] EXCEPT !.pc = "next", !.run = cur + 1] \in Good
  BY <1>1, <1>2, <1>3 DEF Good, LocalInv, Process
<1>5. PendingEvent \in Event
  BY DEF PendingEvent, Ev, Event, EventState, Record, Method
<1>6. journal' \in [Act -> Seq(Event)]
  BY <1>5 DEF StartRun
<1>7. status' \in [Run -> Status] /\ plan' \in [Run -> [Act -> Kind]]
  BY <1>1, <1>2 DEF StartRun, TypeInv, DurableOK, Status, Recoverable, Process
<1>8. base' \in [file: [Act -> Content], applied: [Act -> Record]]
  BY DEF StartRun, TypeInv, DurableOK
<1>9. DurableOK'
  BY <1>2, <1>6, <1>7, <1>8 DEF StartRun, TypeInv, DurableOK, fs
<1>10. QED
  BY <1>4, <1>9, SetType DEF StartRun

\* startRun refuses: the invocation ends, a refused transaction is counted.
LEMMA StartRefusedType ==
  ASSUME TypeInv, NEW p \in Proc, StartRefused(p)
  PROVE  TypeInv'
<1>1. DurableOK'
  BY FrameType, SpendFrameType DEF StartRefused, TypeInv, Mishap
<1>2. QED
  BY <1>1, IdleType DEF StartRefused

\* The loop of executeSynchronizationPlan.
LEMMA RunNextType ==
  ASSUME TypeInv, NEW p \in Proc, RunNext(p)
  PROVE  TypeInv'
<1>1. DurableOK'
  BY FrameType DEF RunNext, TypeInv
<1>2. proc[p] \in Good /\ proc[p].run \in Run
  BY DEF RunNext, TypeInv, Good, LocalInv
<1>3. CASE proc[p].i <= N
  <2>1. Busy(proc[p])
    BY <1>2, <1>3, ConstantsAssumption DEF Busy, Good, Process, Act
  <2>2. [proc[p] EXCEPT !.pc = Entry(K(p))] \in Good
    BY <2>1, EntryGood
  <2>3. Set(p, [proc[p] EXCEPT !.pc = Entry(K(p))])
    BY <1>3 DEF RunNext, Goto
  <2>4. QED
    BY <1>1, <2>2, <2>3, SetType
<1>4. CASE ~(proc[p].i <= N)
  <2>1. [proc[p] EXCEPT !.pc = "complete"] \in Good
    BY <1>2, GotoEndGood
  <2>2. Set(p, [proc[p] EXCEPT !.pc = "complete"])
    BY <1>4 DEF RunNext, Goto
  <2>3. QED
    BY <1>1, <2>1, <2>2, SetType
<1>5. QED
  BY <1>3, <1>4

\* prepareResourceAction.
LEMMA PrepareType ==
  ASSUME TypeInv, NEW p \in Proc, Prepare(p) \/ PrepareFails(p)
  PROVE  TypeInv'
<1>1. Busy(proc[p])
  BY AtWork DEF Prepare, PrepareFails
<1>2. CASE Prepare(p)
  <2> DEFINE i == proc[p].i
             b == K(p) \in FileBacked
             x == IF b THEN file[i] ELSE "none"
  <2>1. proc[p] \in Process /\ i \in Act /\ proc[p].run \in Run
    BY <1>1 DEF Busy, Good
  <2>2. x \in Content \cup {"none"} /\ b \in BOOLEAN
    BY <2>1 DEF TypeInv, DurableOK
  <2>3. "running" \in PC
    BY DEF PC
  <2>4. [proc[p].mem EXCEPT ![i] = x] \in [Act -> Content \cup {"none"}]
    BY <2>1, <2>2 DEF Process
  <2>5. Set(p, [proc[p] EXCEPT !.pc = "running", !.prep = b,
                               !.mem = [proc[p].mem EXCEPT ![i] = x]])
    BY <1>2, <2>1 DEF Prepare, Set, Process
  <2>6. snap' \in [Run -> [Act -> Content \cup {"none"}]]
    BY <1>2, <2>1, <2>2 DEF Prepare, TypeInv, DurableOK
  <2>7. DurableOK'
    BY <1>2, <2>6 DEF Prepare, TypeInv, DurableOK, db, history
  <2> HIDE DEF b, x
  <2>8. [proc[p] EXCEPT !.pc = "running", !.prep = b,
                        !.mem = [proc[p].mem EXCEPT ![i] = x]] \in Good
    BY <2>1, <2>2, <2>3, <2>4 DEF Good, LocalInv, Process
  <2>9. QED
    BY <2>5, <2>7, <2>8, SetType
<1>3. CASE PrepareFails(p)
  <2>1. DurableOK'
    BY <1>3, SpendFrameType DEF PrepareFails, TypeInv, Mishap
  <2>2. "fail" \in PC
    BY DEF PC
  <2>3. QED
    BY <1>1, <1>3, <2>1, <2>2, GotoType DEF PrepareFails
<1>4. QED
  BY <1>2, <1>3

\* An event about the current action, committed or refused.
LEMMA NoteOrFailType ==
  ASSUME TypeInv, NEW p \in Proc, Busy(proc[p]), NEW st \in EventState,
         NEW ref \in BOOLEAN, NEW method \in Method,
         Note(p, st, ref, method) \/ TransactionFails(p), UNCHANGED <<fs, history>>
  PROVE  DurableOK'
  BY NoteType, TransactionFailsType DEF TypeInv

\* The running event before the mutation.
LEMMA JournalRunningType ==
  ASSUME TypeInv, NEW p \in Proc, JournalRunning(p)
  PROVE  TypeInv'
<1>1. Busy(proc[p])
  BY AtWork DEF JournalRunning
<1>2. proc[p].prep \in BOOLEAN /\ "running" \in EventState /\ "none" \in Method
  BY <1>1 DEF Busy, Good, Process, EventState, Method
<1>3. DurableOK'
  BY <1>1, <1>2, NoteOrFailType DEF JournalRunning
<1>4. "execute" \in PC /\ "undo" \in PC
  BY DEF PC
<1>5. QED
  BY <1>1, <1>3, <1>4, GotoType DEF JournalRunning

\* What a mutation writes is a content.
LEMMA WrittenType ==
  ASSUME TypeInv, NEW p \in Proc, proc[p].i \in Act
  PROVE  Written(p) \in Content
<1>1. file[proc[p].i] \in Content
  BY DEF TypeInv, DurableOK
<1>2. Desired(K(p), file[proc[p].i]) \in Content
  BY DEF Desired, Content
<1> QED BY <1>1, <1>2 DEF Written

\* prepared.execute, complete or not.
LEMMA ExecuteType ==
  ASSUME TypeInv, NEW p \in Proc, Execute(p) \/ ExecuteFails(p)
  PROVE  TypeInv'
<1>1. Busy(proc[p])
  BY AtWork DEF Execute, ExecuteFails
<1>2. "undo" \in PC /\ "succeed" \in PC /\ "verify" \in PC
  BY DEF PC
<1>3. Written(p) \in Content /\ file[proc[p].i] \in Content
  BY <1>1, WrittenType DEF Busy, TypeInv, DurableOK
<1>4. CASE Execute(p)
  <2>1. file' \in [Act -> Content]
    BY <1>3, <1>4 DEF Execute, TypeInv, DurableOK
  <2>2. DurableOK'
    BY <1>4, <2>1 DEF Execute, TypeInv, DurableOK, db, history
  <2>3. Goto(p, "undo") \/ Goto(p, "succeed") \/ Goto(p, "verify")
    BY <1>4 DEF Execute
  <2>4. QED
    BY <1>1, <1>2, <2>2, <2>3, GotoType
<1>5. CASE ExecuteFails(p)
  <2>1. PICK c \in Unfinished(K(p), file[proc[p].i], Written(p)) :
               file' = [file EXCEPT ![proc[p].i] = c]
    BY <1>5 DEF ExecuteFails
  <2>2. c \in Content
    BY <1>3, UnfinishedType
  <2>3. file' \in [Act -> Content]
    BY <2>1, <2>2 DEF TypeInv, DurableOK
  <2>4. spent' \in [Mishap -> Nat]
    BY <1>5, SpendType DEF ExecuteFails, TypeInv, Mishap
  <2>5. DurableOK'
    BY <1>5, <2>3, <2>4 DEF ExecuteFails, TypeInv, DurableOK, db, history
  <2>6. QED
    BY <1>1, <1>2, <1>5, <2>5, GotoType DEF ExecuteFails
<1>6. QED
  BY <1>4, <1>5

\* verifyResource answers with evidence or an error.
LEMMA VerificationType ==
  ASSUME NEW k, NEW c
  PROVE  Verification(k, c) \subseteq {"passed", "failed", "error"}
  BY DEF Verification

\* verifyResource after the mutation.
LEMMA VerifyType ==
  ASSUME TypeInv, NEW p \in Proc, Verify(p)
  PROVE  TypeInv'
<1>1. Busy(proc[p])
  BY AtWork DEF Verify
<1>2. DurableOK'
  BY FrameType DEF Verify, TypeInv
<1>3. "undo" \in PC /\ "succeed" \in PC /\ "undoVerify" \in PC
  BY DEF PC
<1>4. Goto(p, "undo") \/ Goto(p, "succeed") \/ Goto(p, "undoVerify")
  BY VerificationType DEF Verify
<1>5. QED
  BY <1>1, <1>2, <1>3, <1>4, GotoType

\* The succeeded event with its ownership record.
LEMMA JournalSucceededType ==
  ASSUME TypeInv, NEW p \in Proc, JournalSucceeded(p)
  PROVE  TypeInv'
<1> DEFINE i == proc[p].i
           k == K(p)
           prev == IF k \in Invertible THEN proc[p].inp[i] ELSE "none"
           rec == CASE k = "remove" -> "none"
                    [] k \in Owning -> "new"
                    [] OTHER -> applied[i]
           e == Ev("succeeded", proc[p].att, proc[p].prep, prev, "passed")
<1>1. Busy(proc[p])
  BY AtWork DEF JournalSucceeded
<1>2. proc[p] \in Process /\ i \in Act
  BY <1>1 DEF Busy, Good
<1>3. prev \in Record
  BY <1>2 DEF Process, Record
<1>4. rec \in Record
  BY <1>2 DEF TypeInv, DurableOK, Record, Owning
<1>5. "succeeded" \in EventState /\ "passed" \in Method
  BY DEF EventState, Method
<1>6. e \in Event
  BY <1>2, <1>3, <1>5, EvType DEF Process
<1>7. UNCHANGED <<fs, history>>
  BY DEF JournalSucceeded
<1>8. \/ JournalAction(p, i, e, rec) /\ Set(p, Verified(proc[p], k \in Invertible))
      \/ TransactionFails(p) /\ Goto(p, "undo")
  BY DEF JournalSucceeded
<1>9. (k \in Invertible) \in BOOLEAN /\ "undo" \in PC
  BY DEF PC
<1> HIDE DEF i, k, prev, rec, e
<1>10. CASE JournalAction(p, i, e, rec) /\ Set(p, Verified(proc[p], k \in Invertible))
  <2>1. DurableOK'
    BY <1>2, <1>4, <1>6, <1>7, <1>10, JournalActionType DEF TypeInv
  <2>2. Verified(proc[p], k \in Invertible) \in Good
    BY <1>1, <1>9, VerifiedGood
  <2>3. QED
    BY <1>10, <2>1, <2>2, SetType
<1>11. CASE TransactionFails(p) /\ Goto(p, "undo")
  <2>1. DurableOK'
    BY <1>7, <1>11, TransactionFailsType DEF TypeInv
  <2>2. QED
    BY <1>1, <1>9, <1>11, <2>1, GotoType
<1>12. QED
  BY <1>8, <1>10, <1>11

\* Rolling one action back, in the effect and in its error handler.
LEMMA UndoType ==
  ASSUME TypeInv, NEW p \in Proc, UndoVerify(p) \/ Undo(p)
  PROVE  TypeInv'
<1>1. Busy(proc[p])
  BY AtWork DEF UndoVerify, Undo
<1>2. proc[p] \in Good /\ proc[p].run \in Run /\ proc[p].i \in Act
  BY <1>1 DEF Busy
<1>3. DurableOK'
  <2>1. UNCHANGED <<db, snap, history>>
    BY DEF UndoVerify, Undo
  <2>2. CASE UNCHANGED <<file, spent>>
    BY <2>1, <2>2, FrameType DEF TypeInv, fs
  <2>3. CASE Restored(p, proc[p].i) \/ RestoreFails(p, proc[p].i)
    BY <1>2, <2>1, <2>3, RestoreType DEF TypeInv
  <2>4. QED
    BY <2>2, <2>3 DEF UndoVerify, Undo
<1>4. "failVerify" \in PC /\ "undo" \in PC /\ "fail" \in PC
  BY DEF PC
<1>5. CASE Goto(p, "failVerify") \/ Goto(p, "undo") \/ Goto(p, "fail")
  BY <1>1, <1>3, <1>4, <1>5, GotoType
<1>6. CASE Set(p, [proc[p] EXCEPT !.pc = "fail", !.undone = FALSE,
                                  !.keep = @ \cup {proc[p].i}])
  <2>1. [proc[p] EXCEPT !.pc = "fail", !.undone = FALSE,
                        !.keep = @ \cup {proc[p].i}] \in Good
    BY <1>2, <1>4 DEF Good, LocalInv, Process
  <2>2. QED
    BY <1>3, <1>6, <2>1, SetType
<1>7. QED
  BY <1>5, <1>6 DEF UndoVerify, Undo

\* The failed events.
LEMMA JournalFailType ==
  ASSUME TypeInv, NEW p \in Proc, JournalFailVerify(p) \/ JournalFail(p)
  PROVE  TypeInv'
<1>1. Busy(proc[p])
  BY AtWork DEF JournalFailVerify, JournalFail
<1>2. proc[p].prep \in BOOLEAN /\ "failed" \in EventState /\ "other" \in Method
  BY <1>1 DEF Busy, Good, Process, EventState, Method
<1>3. DurableOK'
  BY <1>1, <1>2, NoteOrFailType DEF JournalFailVerify, JournalFail
<1>4. FailedAction(proc[p]) \in Good
  BY <1>1, FailedActionGood
<1>5. "undo" \in PC
  BY DEF PC
<1>6. CASE Set(p, FailedAction(proc[p]))
  BY <1>3, <1>4, <1>6, SetType
<1>7. CASE Goto(p, "undo")
  BY <1>1, <1>3, <1>5, <1>7, GotoType
<1>8. QED
  BY <1>6, <1>7 DEF JournalFailVerify, JournalFail

\* The places an action stops the loop from.
LEMMA StopType ==
  ASSUME TypeInv, DurableOK', NEW p \in Proc, Busy(proc[p]),
         proc[p].pc \notin {"cascadeJournal", "ownback"},
         \/ Set(p, Stopped([proc[p] EXCEPT !.human = TRUE]))
         \/ Set(p, Stopped([proc[p] EXCEPT !.drift = TRUE]))
         \/ Set(p, FailedAction(proc[p]))
  PROVE  TypeInv'
<1>1. /\ Stopped([proc[p] EXCEPT !.human = TRUE]) \in Good
      /\ Stopped([proc[p] EXCEPT !.drift = TRUE]) \in Good
  BY NotedBusy, StoppedGood
<1>2. FailedAction(proc[p]) \in Good
  BY FailedActionGood
<1>3. QED
  BY <1>1, <1>2, SetType

\* Human actions and drift conflicts.
LEMMA OutcomeActionType ==
  ASSUME TypeInv, NEW p \in Proc, Human(p) \/ RecordDrift(p) \/ DriftSkip(p)
  PROVE  TypeInv'
<1>1. Busy(proc[p]) /\ proc[p].pc \notin {"cascadeJournal", "ownback"}
  BY AtWork DEF Human, RecordDrift, DriftSkip
<1>2. "skipped" \in EventState /\ "none" \in Method /\ "driftSkip" \in PC
  BY DEF EventState, Method, PC
<1>3. CASE Human(p)
  <2>1. DurableOK'
    BY <1>1, <1>2, <1>3, NoteOrFailType DEF Human
  <2>2. QED
    BY <1>1, <1>3, <2>1, StopType DEF Human
<1>4. CASE DriftSkip(p)
  <2>1. DurableOK'
    BY <1>1, <1>2, <1>4, NoteOrFailType DEF DriftSkip
  <2>2. QED
    BY <1>1, <1>4, <2>1, StopType DEF DriftSkip
<1>5. CASE RecordDrift(p)
  <2>1. CASE UNCHANGED db /\ Spend("db") /\ Set(p, FailedAction(proc[p]))
    <3>1. DurableOK'
      BY <1>5, <2>1, SpendFrameType DEF RecordDrift, TypeInv, Mishap
    <3>2. QED
      BY <1>1, <2>1, <3>1, StopType
  <2>2. CASE /\ drifts' = IF proc[p].run = cur THEN drifts \cup {proc[p].i} ELSE drifts
             /\ Goto(p, "driftSkip")
             /\ UNCHANGED <<cur, status, plan, journal, applied, spent>>
    <3>1. DurableOK'
      BY <1>1, <1>5, <2>2 DEF RecordDrift, TypeInv, DurableOK, Busy, fs, history
    <3>2. QED
      BY <1>1, <1>2, <2>2, <3>1, GotoType
  <2>3. QED
    BY <1>5, <2>1, <2>2 DEF RecordDrift
<1>6. QED
  BY <1>3, <1>4, <1>5

\* agentActionResult.
LEMMA AgentType ==
  ASSUME TypeInv, NEW p \in Proc,
         \/ Agent(p) \/ AgentResolve(p) \/ AgentVerify(p) \/ AgentSucceed(p)
         \/ AgentFail(p) \/ AgentSkip(p) \/ AgentError(p)
  PROVE  TypeInv'
<1>1. Busy(proc[p]) /\ proc[p].pc \notin {"cascadeJournal", "ownback"}
  BY AtWork DEF Agent, AgentResolve, AgentVerify, AgentSucceed, AgentFail, AgentSkip, AgentError
<1>2. /\ {"running", "succeeded", "failed", "skipped"} \subseteq EventState
      /\ {"none", "passed", "other"} \subseteq Method
  BY DEF EventState, Method
<1>3. {"agentResolve", "agentVerify", "agentSucceed", "agentFail", "agentSkip", "agentError"}
        \subseteq PC \ {"cascadeJournal", "ownback"}
  BY DEF PC
<1>4. CASE Agent(p)
  <2>1. DurableOK'
    BY <1>1, <1>2, <1>4, NoteOrFailType, FrameType DEF Agent, TypeInv
  <2>2. QED
    BY <1>1, <1>3, <1>4, <2>1, GotoType DEF Agent
<1>5. CASE AgentResolve(p)
  <2>1. file' \in [Act -> Content]
    BY <1>1, <1>5 DEF AgentResolve, TypeInv, DurableOK, Busy, Content
  <2>2. DurableOK'
    BY <1>5, <2>1 DEF AgentResolve, TypeInv, DurableOK, db, history
  <2>3. QED
    BY <1>1, <1>3, <1>5, <2>2, GotoType DEF AgentResolve
<1>6. CASE AgentVerify(p)
  <2>1. DurableOK'
    BY <1>6, FrameType DEF AgentVerify, TypeInv
  <2>2. Goto(p, "agentSucceed") \/ Goto(p, "agentFail") \/ Goto(p, "agentError")
    BY <1>6, VerificationType DEF AgentVerify
  <2>3. QED
    BY <1>1, <1>3, <2>1, <2>2, GotoType
<1>7. CASE AgentSucceed(p)
  <2>1. DurableOK'
    BY <1>1, <1>2, <1>7, NoteOrFailType DEF AgentSucceed
  <2>2. Verified(proc[p], FALSE) \in Good
    BY <1>1, VerifiedGood
  <2>3. QED
    BY <1>1, <1>3, <1>7, <2>1, <2>2, GotoType, SetType DEF AgentSucceed
<1>8. CASE AgentFail(p)
  <2>1. DurableOK'
    BY <1>1, <1>2, <1>8, NoteOrFailType DEF AgentFail
  <2>2. QED
    BY <1>1, <1>3, <1>8, <2>1, GotoType, StopType DEF AgentFail
<1>9. CASE AgentSkip(p)
  <2>1. DurableOK'
    BY <1>1, <1>2, <1>9, NoteOrFailType DEF AgentSkip
  <2>2. QED
    BY <1>1, <1>3, <1>9, <2>1, GotoType, StopType DEF AgentSkip
<1>10. CASE AgentError(p)
  <2>1. DurableOK'
    BY <1>1, <1>2, <1>10, NoteOrFailType DEF AgentError
  <2>2. QED
    BY <1>1, <1>10, <2>1, StopType DEF AgentError
<1>11. QED
  BY <1>4, <1>5, <1>6, <1>7, <1>8, <1>9, <1>10

\* The stack of inverses.
LEMMA StackType ==
  ASSUME NEW p, proc[p] \in Process, proc[p].done # <<>>
  PROVE  Top(p) \in Done /\ Pop(p) \in Seq(Done)
<1>1. proc[p].done \in Seq(Done) /\ Len(proc[p].done) \in Nat \ {0}
  BY EmptySeq, LenProperties DEF Process
<1>2. Top(p) \in Done
  BY <1>1, ElementOfSeq DEF Top, Last
<1>3. Pop(p) \in Seq(Done)
  <2>1. \A k \in 1..(Len(proc[p].done) - 1) : proc[p].done[k] \in Done
    BY <1>1, ElementOfSeq
  <2>2. QED
    BY <1>1, <2>1, SubSeqProperties DEF Pop
<1>4. QED
  BY <1>2, <1>3

\* The inverses of completed actions.
LEMMA CascadeType ==
  ASSUME TypeInv, NEW p \in Proc, Cascade(p) \/ CascadeJournal(p) \/ CascadeEnd(p)
  PROVE  TypeInv'
<1>1. Busy(proc[p])
  BY AtWork DEF Cascade, CascadeJournal, CascadeEnd
<1>2. proc[p] \in Good /\ proc[p] \in Process /\ proc[p].run \in Run /\ proc[p].i \in Act
  BY <1>1 DEF Busy, Good
<1>3. "cascadeJournal" \in PC /\ "cascade" \in PC
  BY DEF PC
<1>4. CASE Cascade(p)
  <2> DEFINE a == Top(p).a
  <2>1. proc[p].done # <<>> /\ proc[p].pc = "cascade" /\ UNCHANGED <<db, snap, history>>
    BY <1>4 DEF Cascade
  <2>2. a \in Act /\ Pop(p) \in Seq(Done)
    BY <1>2, <2>1, StackType DEF Done
  <2>3. DurableOK'
    <3>1. CASE UNCHANGED <<file, spent>>
      BY <2>1, <3>1, FrameType DEF TypeInv, fs
    <3>2. CASE Restored(p, a) \/ RestoreFails(p, a)
      <4> HIDE DEF a
      <4>1. QED
        BY <1>2, <2>1, <2>2, <3>2, RestoreType DEF TypeInv
    <3>3. QED
      BY <1>4, <3>1, <3>2 DEF Cascade
  <2>4. \/ Set(p, [proc[p] EXCEPT !.pc = "cascadeJournal"])
        \/ Set(p, [proc[p] EXCEPT !.done = Pop(p), !.keep = @ \cup {a}])
    BY <1>4 DEF Cascade, Goto
  <2> HIDE DEF a
  <2>5. [proc[p] EXCEPT !.pc = "cascadeJournal"] \in Good
    BY <1>2, <1>3, <2>1 DEF Good, LocalInv, Process
  <2>6. [proc[p] EXCEPT !.done = Pop(p), !.keep = @ \cup {a}] \in Good
    BY <1>2, <2>1, <2>2 DEF Good, LocalInv, Process
  <2>7. QED
    BY <2>3, <2>4, <2>5, <2>6, SetType
<1>5. CASE CascadeJournal(p)
  <2> DEFINE d == Top(p)
             ref == proc[p].plan[d.a] \in FileBacked
             e == Ev("failed", d.att, ref, "none", "run-rolled-back")
  <2>1. proc[p].done # <<>>
    BY <1>2, <1>5 DEF CascadeJournal, Good, LocalInv
  <2>2. d \in Done /\ Pop(p) \in Seq(Done)
    BY <1>2, <2>1, StackType
  <2>3. d.a \in Act /\ d.att \in Nat /\ d.prev \in Record
    BY <2>2 DEF Done
  <2>4. "failed" \in EventState /\ "none" \in Record /\ "run-rolled-back" \in Method
    BY DEF EventState, Record, Method
  <2>5. e \in Event
    <3>1. ref \in BOOLEAN
      OBVIOUS
    <3> HIDE DEF d, ref
    <3>2. QED
      BY <2>3, <2>4, <3>1, EvType
  <2>6. JournalAction(p, d.a, e, d.prev) \/ TransactionFails(p)
    BY <1>5 DEF CascadeJournal
  <2>7. Set(p, [proc[p] EXCEPT !.pc = "cascade", !.done = Pop(p)]) /\ UNCHANGED <<fs, history>>
    BY <1>5 DEF CascadeJournal
  <2> HIDE DEF d, ref, e
  <2>8. DurableOK'
    BY <2>3, <2>5, <2>6, <2>7, JournalActionType, TransactionFailsType DEF TypeInv
  <2>9. [proc[p] EXCEPT !.pc = "cascade", !.done = Pop(p)] \in Good
    BY <1>2, <1>3, <2>2 DEF Good, LocalInv, Process
  <2>10. QED
    BY <2>7, <2>8, <2>9, SetType
<1>6. CASE CascadeEnd(p)
  <2>1. DurableOK'
    BY <1>6, FrameType DEF CascadeEnd, TypeInv
  <2>2. Stopped(proc[p]) \in Good
    BY <1>1, StoppedGood
  <2>3. QED
    BY <1>6, <2>1, <2>2, SetType DEF CascadeEnd
<1>7. QED
  BY <1>4, <1>5, <1>6

\* completeSkipped.
LEMMA SkipType ==
  ASSUME TypeInv, NEW p \in Proc, Skip(p)
  PROVE  TypeInv'
<1>1. Busy(proc[p])
  BY AtWork DEF Skip
<1>2. proc[p] \in Good /\ proc[p] \in Process /\ proc[p].run \in Run /\ proc[p].i \in Act
  BY <1>1 DEF Busy, Good
<1>3. proc[p].pc = "skip" /\ UNCHANGED <<fs, history>>
  BY DEF Skip
<1>4. CASE proc[p].i >= N
  <2>1. Goto(p, "complete") /\ UNCHANGED <<db, spent>>
    BY <1>4 DEF Skip
  <2>2. DurableOK'
    BY <1>3, <2>1, FrameType DEF TypeInv
  <2>3. "complete" \in PC
    BY DEF PC
  <2>4. QED
    BY <1>1, <2>1, <2>2, <2>3, GotoType
<1>5. CASE ~(proc[p].i >= N)
  <2> DEFINE j == proc[p].i + 1
             e == Ev("skipped", 1, FALSE, "none", "none")
  <2>1. j \in Act /\ j \in 1..(N + 1)
    BY <1>2, <1>5, ConstantsAssumption DEF Act
  <2>2. e \in Event
    BY EvType DEF EventState, Record, Method
  <2>3. applied[j] \in Record
    BY <2>1 DEF TypeInv, DurableOK
  <2>4. /\ JournalAction(p, j, e, applied[j]) \/ TransactionFails(p)
        /\ Set(p, [proc[p] EXCEPT !.i = j])
    BY <1>5 DEF Skip
  <2> HIDE DEF j, e
  <2>5. DurableOK'
    BY <1>3, <2>1, <2>2, <2>3, <2>4, JournalActionType, TransactionFailsType DEF TypeInv
  <2>6. [proc[p] EXCEPT !.i = j] \in Good
    BY <1>2, <1>3, <2>1 DEF Good, LocalInv, Process
  <2>7. QED
    BY <2>4, <2>5, <2>6, SetType
<1>6. QED
  BY <1>4, <1>5

\* completeRun and the cleanup of snapshots.
LEMMA CompleteType ==
  ASSUME TypeInv, NEW p \in Proc, Complete(p) \/ CompleteFails(p) \/ Cleanup(p)
  PROVE  TypeInv'
<1>1. proc[p] \in Good /\ proc[p] \in Process /\ proc[p].run \in Run
  BY DEF Complete, CompleteFails, Cleanup, TypeInv, Good, LocalInv
<1>2. CASE Complete(p)
  <2>1. Outcome(proc[p]) \in Status
    BY DEF Outcome, Status, Terminal
  <2>2. status' \in [Run -> Status]
    BY <1>2, <2>1 DEF Complete, TypeInv, DurableOK
  <2>3. applied' \in [Act -> Record]
    BY <1>2 DEF Complete, TypeInv, DurableOK, Record
  <2>4. kept' \subseteq Act
    BY <1>1, <1>2 DEF Complete, Process
  <2>5. DurableOK'
    BY <1>2, <2>2, <2>3, <2>4 DEF Complete, TypeInv, DurableOK, fs
  <2>6. [proc[p] EXCEPT !.pc = "cleanup"] \in Good
    BY <1>1, GotoEndGood
  <2>7. QED
    BY <1>2, <2>5, <2>6, SetType DEF Complete, Goto
<1>3. CASE CompleteFails(p)
  <2>1. DurableOK'
    BY <1>3, TransactionFailsType DEF CompleteFails, TypeInv
  <2>2. QED
    BY <1>3, <2>1, IdleType DEF CompleteFails
<1>4. CASE Cleanup(p)
  <2> DEFINE r == proc[p].run
  <2>1. PICK gone \in SUBSET (Act \ proc[p].keep) :
          /\ IF gone = Act \ proc[p].keep THEN UNCHANGED spent ELSE Spend("fs")
          /\ snap' = [snap EXCEPT ![r] = [a \in Act |-> IF a \in gone THEN "none" ELSE @[a]]]
    BY <1>4 DEF Cleanup
  <2>2. spent' \in [Mishap -> Nat]
    BY <2>1, SpendType DEF TypeInv, DurableOK, Mishap
  <2>3. snap' \in [Run -> [Act -> Content \cup {"none"}]]
    BY <1>1, <2>1 DEF TypeInv, DurableOK
  <2>4. DurableOK'
    BY <1>4, <2>2, <2>3 DEF Cleanup, TypeInv, DurableOK, db, history
  <2>5. QED
    BY <1>4, <2>4, IdleType DEF Cleanup
<1>5. QED
  BY <1>2, <1>3, <1>4

\* What recovery reads from a journal.
LEMMA DisplacedType ==
  ASSUME NEW s \in Seq(Event)
  PROVE  Displaced(s) \in Record
<1> DEFINE at == {k \in 1..Len(s) : s[k].prev # "none"}
           latest == {k \in at : \A m \in at : m <= k}
<1>1. CASE latest = {}
  BY <1>1 DEF Displaced, Record
<1>2. CASE latest # {}
  <2>1. (CHOOSE k \in latest : TRUE) \in latest
    BY <1>2
  <2>2. (CHOOSE k \in latest : TRUE) \in 1..Len(s)
    BY <2>1
  <2>3. s[CHOOSE k \in latest : TRUE] \in Event
    BY <2>2, ElementOfSeq
  <2>4. Displaced(s) = s[CHOOSE k \in latest : TRUE].prev
    BY <1>2 DEF Displaced
  <2>5. QED
    BY <2>3, <2>4 DEF Event
<1>3. QED
  BY <1>1, <1>2

\* A process that has just loaded the open run keeps its registers in type.
LEMMA RecoverUpdate ==
  ASSUME NEW ps \in Process, NEW r \in Run, NEW pl \in [Act -> Kind],
         NEW rs \in [Act -> Record], NEW sn \in [Act -> [last: Event, ref: BOOLEAN]],
         NEW b \in BOOLEAN, 0..MaxRuns = {0} \cup Run
  PROVE  [ps EXCEPT !.pc = "next", !.mode = "recover", !.run = r, !.plan = pl,
                    !.inp = rs, !.seen = sn, !.drift = b] \in Process
<1>1. "next" \in PC
  BY DEF PC
<1>2. QED
  BY <1>1 DEF Process

\* recoverSynchronizationPlan up to its loop.
LEMMA RecoverStartType ==
  ASSUME TypeInv, NEW p \in Proc, RecoverStart(p)
  PROVE  TypeInv'
<1> DEFINE rs == [a \in Act |-> IF Displaced(journal[a]) # "none"
                                THEN Displaced(journal[a]) ELSE applied[a]]
           sn == [a \in Act |-> [last |-> Last(journal[a]), ref |-> HasReference(journal[a])]]
           b == drifts # {}
           pl == plan[cur]
           ps == [Idle EXCEPT !.pc = "next", !.mode = "recover", !.run = cur, !.plan = pl,
                              !.inp = rs, !.seen = sn, !.drift = b]
<1>1. cur \in Run /\ 0..MaxRuns = {0} \cup Run
  BY ConstantsAssumption DEF RecoverStart, Open, Run
<1>2. pl \in [Act -> Kind]
  BY <1>1 DEF TypeInv, DurableOK
<1>3. rs \in [Act -> Record]
  <2>1. \A a \in Act : Displaced(journal[a]) \in Record
    BY DisplacedType DEF TypeInv, DurableOK
  <2>2. QED
    BY <2>1 DEF TypeInv, DurableOK
<1>4. sn \in [Act -> [last: Event, ref: BOOLEAN]]
  <2>1. SUFFICES ASSUME NEW a \in Act
                 PROVE  /\ Last(journal[a]) \in Event
                        /\ HasReference(journal[a]) \in BOOLEAN
    OBVIOUS
  <2>2. journal[a] \in Seq(Event) /\ Len(journal[a]) > 0
    BY DEF RecoverStart, ValidJournal, TypeInv, DurableOK
  <2>3. Len(journal[a]) \in 1..Len(journal[a])
    BY <2>2, LenProperties
  <2>4. Last(journal[a]) \in Event
    BY <2>2, <2>3, ElementOfSeq DEF Last
  <2>5. HasReference(journal[a]) \in BOOLEAN
    BY DEF HasReference
  <2>6. QED
    BY <2>4, <2>5
<1>5. Set(p, ps)
  BY DEF RecoverStart
<1>6. Idle \in Process /\ b \in BOOLEAN
  BY IdleGood DEF Good
<1>7. DurableOK'
  BY FrameType DEF RecoverStart, TypeInv
<1> HIDE DEF rs, sn, b, pl
<1>8. ps \in Process
  BY <1>1, <1>2, <1>3, <1>4, <1>6, RecoverUpdate
<1>9. ps.pc = "next" /\ ps.run = cur
  BY <1>6 DEF Process
<1>10. ps \in Good
  BY <1>1, <1>8, <1>9 DEF Good, LocalInv
<1> HIDE DEF ps
<1>11. QED
  BY <1>5, <1>7, <1>10, SetType

\* The recovery loop's choice.
LEMMA RecoverNextType ==
  ASSUME TypeInv, NEW p \in Proc, RecoverNext(p) \/ RecoverLoopEnd(p)
  PROVE  TypeInv'
<1>1. proc[p] \in Good /\ proc[p] \in Process /\ proc[p].run \in Run /\ proc[p].pc = "next"
  BY DEF RecoverNext, RecoverLoopEnd, TypeInv, Good, LocalInv
<1>2. DurableOK'
  BY FrameType DEF RecoverNext, RecoverLoopEnd, TypeInv
<1>3. CASE RecoverLoopEnd(p)
  <2>1. [proc[p] EXCEPT !.pc = "complete"] \in Good
    BY <1>1, GotoEndGood
  <2>2. QED
    BY <1>2, <1>3, <2>1, SetType DEF RecoverLoopEnd, Goto
<1>4. CASE RecoverNext(p)
  <2> DEFINE i == proc[p].i
             last == proc[p].seen[i].last
             att == NextAttempt(proc[p].seen[i].last)
             ps == [proc[p] EXCEPT !.att = att, !.undone = TRUE]
             k == K(p)
  <2>1. i \in Act
    <3>1. proc[p].i <= N
      BY <1>4 DEF RecoverNext
    <3>2. proc[p].i \in 1..(N + 1)
      BY <1>1 DEF Process
    <3>3. QED
      BY <3>1, <3>2, ConstantsAssumption DEF Act
  <2>2. last \in Event /\ att \in Nat /\ last.prev \in Record
    BY <1>1, <2>1 DEF Process, Event, NextAttempt
  <2>3. \E x : /\ Set(p, x)
               /\ \/ x = Preserved(ps, k)
                  \/ x = Verified(ps, FALSE)
                  \/ x = [ps EXCEPT !.pc = "installer"]
                  \/ x = [ps EXCEPT !.pc = "restore", !.own = last.prev]
                  \/ x = Idle
                  \/ x = [ps EXCEPT !.pc = "reverify"]
                  \/ x = [ps EXCEPT !.pc = "restore"]
                  \/ x = [ps EXCEPT !.pc = Entry(k)]
    BY <1>4, Zenon DEF RecoverNext
  <2> HIDE DEF att, last, k
  <2>4. /\ ps \in Process /\ ps.i = i /\ ps.run = proc[p].run /\ ps.pc = "next"
    BY <1>1, <2>2 DEF Process
  <2>5. Busy(ps)
    BY <1>1, <2>1, <2>4 DEF Busy, Good, LocalInv
  <2> HIDE DEF ps
  <2>6. "installer" \in PC /\ "restore" \in PC /\ "reverify" \in PC
    BY DEF PC
  <2>7. /\ [ps EXCEPT !.pc = "installer"] \in Good
        /\ [ps EXCEPT !.pc = "reverify"] \in Good
        /\ [ps EXCEPT !.pc = "restore"] \in Good
    BY <2>5, <2>6, GotoGood
  <2>8. [ps EXCEPT !.pc = "restore", !.own = last.prev] \in Good
    BY <2>2, <2>5, <2>6 DEF Busy, Good, LocalInv, Process
  <2>9. Preserved(ps, k) \in Good
    BY <2>4, <2>5, NotedBusy, StoppedGood, FailedActionGood DEF Preserved
  <2>10. Verified(ps, FALSE) \in Good
    BY <2>5, VerifiedGood
  <2>11. [ps EXCEPT !.pc = Entry(k)] \in Good
    BY <2>5, EntryGood
  <2>12. QED
    BY <1>2, <2>3, <2>7, <2>8, <2>9, <2>10, <2>11, IdleGood, SetType
<1>5. QED
  BY <1>3, <1>4

\* Restoring a preimage before an action is executed again.
LEMMA RecoverRestoreType ==
  ASSUME TypeInv, NEW p \in Proc, Restore(p)
  PROVE  TypeInv'
<1>1. Busy(proc[p])
  BY AtWork DEF Restore
<1>2. proc[p] \in Good /\ proc[p].run \in Run /\ proc[p].i \in Act
  BY <1>1 DEF Busy
<1>3. DurableOK'
  BY <1>2, RestoreType DEF Restore, TypeInv
<1>4. [proc[p] EXCEPT !.pc = Entry(K(p))] \in Good
  BY <1>1, EntryGood
<1>5. QED
  BY <1>3, <1>4, IdleGood, SetType DEF Restore, GiveUp, Goto

\* Verifying a completed action again.
LEMMA ReverifyType ==
  ASSUME TypeInv, NEW p \in Proc, Reverify(p)
  PROVE  TypeInv'
<1> DEFINE i == proc[p].i
           last == proc[p].seen[i].last
           ps == [proc[p] EXCEPT !.own = last.prev]
<1>1. Busy(proc[p]) /\ proc[p].pc = "reverify"
  BY AtWork DEF Reverify
<1>2. proc[p] \in Process /\ i \in Act /\ proc[p].run \in Run
  BY <1>1 DEF Busy, Good
<1>3. last \in Event /\ last.prev \in Record
  BY <1>2 DEF Process, Event
<1>4. DurableOK'
  BY FrameType DEF Reverify, TypeInv
<1>5. \E x : /\ Set(p, x)
             /\ \/ x = Idle
                \/ \E b \in BOOLEAN : x = Verified(ps, b)
                \/ x = [proc[p] EXCEPT !.pc = "restore", !.own = last.prev]
                \/ x = FailedAction(proc[p])
  <2>1. PICK v \in Verification(K(p), file[i]) :
         Set(p, CASE v = "error" -> Idle
                  [] v = "passed" -> Verified(ps, K(p) \in Invertible)
                  [] v = "failed" /\ last.ref ->
                       [proc[p] EXCEPT !.pc = "restore", !.own = last.prev]
                  [] v = "failed" /\ ~last.ref -> FailedAction(proc[p]))
    BY Zenon DEF Reverify
  <2>2. v \in {"passed", "failed", "error"}
    BY VerificationType
  <2>3. last.ref \in BOOLEAN /\ (K(p) \in Invertible) \in BOOLEAN
    BY <1>3 DEF Event
  <2> HIDE DEF last, ps
  <2>4. CASE v = "error"
    BY <2>1, <2>4
  <2>5. CASE v = "passed"
    BY <2>1, <2>3, <2>5
  <2>6. CASE v = "failed" /\ last.ref
    BY <2>1, <2>6
  <2>7. CASE v = "failed" /\ ~last.ref
    BY <2>1, <2>7
  <2>8. QED
    BY <2>2, <2>3, <2>4, <2>5, <2>6, <2>7
<1> HIDE DEF last
<1>6. Busy(ps)
  BY <1>1, <1>2, <1>3 DEF Busy, Good, LocalInv, Process
<1> HIDE DEF ps
<1>7. "restore" \in PC
  BY DEF PC
<1>8. [proc[p] EXCEPT !.pc = "restore", !.own = last.prev] \in Good
  BY <1>1, <1>2, <1>3, <1>7 DEF Busy, Good, LocalInv, Process
<1>9. FailedAction(proc[p]) \in Good
  BY <1>1, FailedActionGood
<1>10. \A b \in BOOLEAN : Verified(ps, b) \in Good
  BY <1>6, VerifiedGood
<1>11. QED
  BY <1>4, <1>5, <1>8, <1>9, <1>10, IdleGood, SetType

\* uncertainInstaller.
LEMMA InstallerType ==
  ASSUME TypeInv, NEW p \in Proc, Installer(p)
  PROVE  TypeInv'
<1>1. Busy(proc[p]) /\ proc[p].pc \notin {"cascadeJournal", "ownback"}
  BY AtWork DEF Installer
<1>2. /\ {"succeeded", "skipped"} \subseteq EventState
      /\ {"passed", "other"} \subseteq Method
  BY DEF EventState, Method
<1>3. DurableOK'
  <2>1. UNCHANGED <<fs, history>>
    BY DEF Installer
  <2>2. \/ Note(p, "succeeded", FALSE, "passed") \/ Note(p, "skipped", FALSE, "other")
        \/ TransactionFails(p) \/ UNCHANGED <<db, spent>>
    BY DEF Installer
  <2>3. QED
    BY <1>1, <1>2, <2>1, <2>2, NoteOrFailType, FrameType DEF TypeInv
<1>4. Verified(proc[p], FALSE) \in Good
  BY <1>1, VerifiedGood
<1>5. Set(p, Verified(proc[p], FALSE)) \/ Set(p, Stopped([proc[p] EXCEPT !.human = TRUE]))
  BY DEF Installer
<1>6. QED
  BY <1>1, <1>3, <1>4, <1>5, SetType, StopType

\* Ownership is put back after a re-executed action failed.
LEMMA OwnBackType ==
  ASSUME TypeInv, NEW p \in Proc, OwnBack(p)
  PROVE  TypeInv'
<1> DEFINE i == proc[p].i
           o == proc[p].own
           e == Ev("failed", proc[p].att, FALSE, "none", "run-rolled-back")
<1>1. Busy(proc[p]) /\ proc[p].pc = "ownback"
  BY AtWork DEF OwnBack
<1>2. i \in Act /\ proc[p].att \in Nat /\ o \in Record
  BY <1>1 DEF Busy, Good, LocalInv, Process
<1>3. "failed" \in EventState /\ "none" \in Record /\ "run-rolled-back" \in Method
  BY DEF EventState, Record, Method
<1>4. e \in Event
  BY <1>2, <1>3, EvType
<1>5. \/ JournalAction(p, i, e, o) /\ Goto(p, "cascade")
      \/ TransactionFails(p) /\ Set(p, Idle)
  BY DEF OwnBack, GiveUp
<1>6. UNCHANGED <<fs, history>>
  BY DEF OwnBack
<1> HIDE DEF i, o, e
<1>7. DurableOK'
  BY <1>2, <1>4, <1>5, <1>6, JournalActionType, TransactionFailsType DEF TypeInv
<1>8. "cascade" \in PC
  BY DEF PC
<1>9. QED
  BY <1>1, <1>5, <1>7, <1>8, GotoType, IdleType

\* recover --abandon.
LEMMA AbandonType ==
  ASSUME TypeInv, NEW p \in Proc, AbandonStart(p) \/ Abandon(p)
  PROVE  TypeInv'
<1>1. CASE AbandonStart(p)
  <2> DEFINE pl == plan[cur]
  <2>1. cur \in Run /\ cur \in 0..MaxRuns
    BY <1>1 DEF AbandonStart, Open, TypeInv, DurableOK
  <2>2. pl \in [Act -> Kind] /\ applied \in [Act -> Record]
    BY <2>1 DEF TypeInv, DurableOK
  <2>3. "abandon" \in PC
    BY DEF PC
  <2>4. Idle \in Process /\ Idle.i \in Act
    BY IdleGood, ConstantsAssumption DEF Good, Idle, Act
  <2>5. Set(p, [Idle EXCEPT !.pc = "abandon", !.run = cur, !.plan = pl, !.inp = applied])
    BY <1>1 DEF AbandonStart
  <2> HIDE DEF pl
  <2>6. [Idle EXCEPT !.pc = "abandon", !.run = cur, !.plan = pl, !.inp = applied] \in Good
    BY <2>1, <2>2, <2>3, <2>4 DEF Good, LocalInv, Process
  <2>7. DurableOK'
    BY <1>1, SpendFrameType DEF AbandonStart, TypeInv, Mishap
  <2>8. QED
    BY <2>5, <2>6, <2>7, SetType
<1>2. CASE Abandon(p)
  <2>1. Busy(proc[p])
    BY <1>2, AtWork DEF Abandon
  <2>2. proc[p].inp \in [Act -> Record]
    BY <2>1 DEF Busy, Good, Process
  <2>3. CASE /\ Open(proc[p].run)
             /\ status' = [status EXCEPT ![proc[p].run] = "Failed"]
             /\ applied' = [a \in Act |-> IF proc[p].inp[a] # "none"
                                          THEN proc[p].inp[a] ELSE applied[a]]
             /\ kept' = Act
             /\ UNCHANGED <<cur, plan, journal, drifts, spent>>
    <3>1. "Failed" \in Status
      BY DEF Status, Terminal
    <3>2. status' \in [Run -> Status]
      BY <2>3, <3>1 DEF TypeInv, DurableOK
    <3>3. applied' \in [Act -> Record]
      BY <2>2, <2>3 DEF TypeInv, DurableOK
    <3>4. DurableOK'
      BY <1>2, <2>3, <3>2, <3>3 DEF Abandon, TypeInv, DurableOK, fs
    <3>5. QED
      BY <1>2, <3>4, IdleType DEF Abandon
  <2>4. CASE TransactionFails(p) /\ UNCHANGED kept
    <3>1. DurableOK'
      BY <1>2, <2>4, TransactionFailsType DEF Abandon, TypeInv, history
    <3>2. QED
      BY <1>2, <3>1, IdleType DEF Abandon
  <2>5. QED
    BY <1>2, <2>3, <2>4 DEF Abandon
<1>3. QED
  BY <1>1, <1>2

\* What a process leaves of the files when it stops is a content everywhere.
LEMMA TornType ==
  ASSUME TypeInv, NEW p \in Proc
  PROVE  Torn(p) \subseteq [Act -> Content]
<1> DEFINE a == IF proc[p].pc = "cascade" THEN Top(p).a ELSE proc[p].i
           executing == proc[p].pc = "execute"
           restoring == /\ \/ proc[p].pc = "restore"
                           \/ proc[p].pc \in {"undoVerify", "undo", "intUndo", "intUnlink"}
                              /\ proc[p].prep
                           \/ proc[p].pc = "cascade" /\ proc[p].done # <<>>
                        /\ proc[p].plan[a] \in FileBacked /\ CanRestore(p, a)
           left == CASE executing -> Unfinished(K(p), file[a], Written(p))
                     [] restoring -> Unfinished(proc[p].plan[a], file[a], Preimage(p, a))
                     [] OTHER -> {}
<1>1. Torn(p) = {file} \cup {[file EXCEPT ![a] = c] : c \in left}
  BY DEF Torn
<1>2. file \in [Act -> Content]
  BY DEF TypeInv, DurableOK
<1>3. executing \/ restoring => a \in Act /\ proc[p] \in Good /\ proc[p].run \in Run
  <2>1. CASE executing \/ restoring
    <3>1. Busy(proc[p])
      BY <2>1, AtWork
    <3>2. proc[p] \in Process /\ proc[p].i \in Act
      BY <3>1 DEF Busy, Good
    <3>3. CASE proc[p].pc = "cascade"
      <4>1. proc[p].done # <<>>
        BY <2>1, <3>3
      <4>2. Top(p).a \in Act
        BY <3>2, <4>1, StackType DEF Done
      <4>3. QED
        BY <3>1, <3>3, <4>2 DEF Busy
    <3>4. CASE proc[p].pc # "cascade"
      BY <3>1, <3>2, <3>4 DEF Busy
    <3>5. QED
      BY <3>3, <3>4
  <2>2. QED
    BY <2>1
<1>4. left \subseteq Content
  <2>1. CASE executing
    <3>1. left = Unfinished(K(p), file[a], Written(p))
      BY <2>1
    <3>2. Written(p) \in Content
      <4>1. proc[p].i \in Act
        BY <1>3, <2>1
      <4> QED BY <4>1, WrittenType
    <3> HIDE DEF a, executing, restoring, left
    <3>3. file[a] \in Content
      BY <1>2, <1>3, <2>1
    <3>4. QED
      BY <3>1, <3>2, <3>3, UnfinishedType
  <2>2. CASE ~executing /\ restoring
    <3>1. left = Unfinished(proc[p].plan[a], file[a], Preimage(p, a)) /\ CanRestore(p, a)
      BY <2>2
    <3> HIDE DEF a, executing, restoring, left
    <3>2. file[a] \in Content
      BY <1>2, <1>3, <2>2
    <3>3. Preimage(p, a) \in Content
      BY <1>3, <2>2, <3>1, PreimageType DEF TypeInv
    <3>4. QED
      BY <3>1, <3>2, <3>3, UnfinishedType
  <2>3. CASE ~executing /\ ~restoring
    <3>1. left = {}
      BY <2>3
    <3>2. QED
      BY <3>1
  <2>4. QED
    BY <2>1, <2>2, <2>3
<1> HIDE DEF a, executing, restoring, left
<1>5. QED
  BY <1>1, <1>2, <1>4

\* A step that only tears files and counts a mishap.
LEMMA TearType ==
  ASSUME TypeInv, NEW p \in Proc, NEW m \in Mishap, Spend(m), file' \in Torn(p),
         UNCHANGED <<db, snap, history>>
  PROVE  DurableOK'
<1>1. file' \in [Act -> Content]
  BY TornType
<1>2. spent' \in [Mishap -> Nat]
  BY SpendType DEF TypeInv
<1>3. QED
  BY <1>1, <1>2 DEF TypeInv, DurableOK, db, history

\* A process dies where it is.
LEMMA CrashType ==
  ASSUME TypeInv, NEW p \in Proc, Crash(p)
  PROVE  TypeInv'
<1>1. DurableOK'
  BY TearType DEF Crash, Mishap
<1>2. QED
  BY <1>1, IdleType DEF Crash

\* An interrupt selects the innermost handler.
LEMMA InterruptType ==
  ASSUME TypeInv, NEW p \in Proc, Interrupt(p)
  PROVE  TypeInv'
<1>1. DurableOK'
  BY TearType DEF Interrupt, Mishap
<1>2. \/ Set(p, Idle)
      \/ /\ proc[p].pc \notin {"idle", "planned"}
         /\ Goto(p, "intComplete")
      \/ /\ proc[p].pc \notin {"idle", "planned", "next", "complete", "cleanup", "intComplete"}
         /\ Goto(p, "intUnlink") \/ Goto(p, "intUndo") \/ Goto(p, "intAgent")
  BY DEF Interrupt
<1>3. CASE Set(p, Idle)
  BY <1>1, <1>3, IdleType
<1>4. CASE proc[p].pc \notin {"idle", "planned"} /\ Goto(p, "intComplete")
  <2>1. proc[p] \in Good /\ proc[p].run \in Run
    BY <1>4 DEF TypeInv, Good, LocalInv
  <2>2. [proc[p] EXCEPT !.pc = "intComplete"] \in Good
    BY <2>1, GotoEndGood
  <2>3. QED
    BY <1>1, <1>4, <2>2, SetType DEF Goto
<1>5. CASE /\ proc[p].pc \notin {"idle", "planned", "next", "complete", "cleanup", "intComplete"}
           /\ Goto(p, "intUnlink") \/ Goto(p, "intUndo") \/ Goto(p, "intAgent")
  <2>1. Busy(proc[p])
    BY <1>5, AtWork
  <2>2. "intUnlink" \in PC /\ "intUndo" \in PC /\ "intAgent" \in PC
    BY DEF PC
  <2>3. QED
    BY <1>1, <1>5, <2>1, <2>2, GotoType
<1>6. QED
  BY <1>2, <1>3, <1>4, <1>5

\* The interrupt handlers.
LEMMA InterruptHandlerType ==
  ASSUME TypeInv, NEW p \in Proc,
         InterruptUndo(p) \/ InterruptFail(p) \/ InterruptComplete(p)
  PROVE  TypeInv'
<1>1. "intFail" \in PC /\ "intComplete" \in PC
  BY DEF PC
<1>2. CASE InterruptUndo(p)
  <2>1. Busy(proc[p]) /\ UNCHANGED <<db, snap, history>>
    BY <1>2, AtWork DEF InterruptUndo
  <2>2. proc[p] \in Good /\ proc[p].run \in Run /\ proc[p].i \in Act
    BY <2>1 DEF Busy
  <2>3. Goto(p, "intFail") \/ Goto(p, "intComplete")
    BY <1>2 DEF InterruptUndo
  <2>4. DurableOK'
    <3>1. CASE UNCHANGED <<file, spent>>
      BY <2>1, <3>1, FrameType DEF TypeInv, fs
    <3>2. CASE RestoreFails(p, proc[p].i)
      BY <2>1, <2>2, <3>2, RestoreType DEF TypeInv
    <3>3. CASE /\ CanRestore(p, proc[p].i)
               /\ \E c \in {Preimage(p, proc[p].i), "absent"} :
                    file' = [file EXCEPT ![proc[p].i] = c]
               /\ UNCHANGED spent
      <4>1. Preimage(p, proc[p].i) \in Content /\ "absent" \in Content
        BY <2>2, <3>3, PreimageType DEF TypeInv, Content
      <4>2. file' \in [Act -> Content]
        <5>1. PICK c \in {Preimage(p, proc[p].i), "absent"} :
                     file' = [file EXCEPT ![proc[p].i] = c]
          BY <3>3
        <5>2. c \in Content
          BY <4>1
        <5>3. QED
          BY <5>1, <5>2 DEF TypeInv, DurableOK
      <4>3. QED
        BY <2>1, <3>3, <4>2 DEF TypeInv, DurableOK, db, history
    <3>4. QED
      BY <1>2, <3>1, <3>2, <3>3 DEF InterruptUndo
  <2>5. QED
    BY <1>1, <2>1, <2>3, <2>4, GotoType
<1>3. CASE InterruptFail(p)
  <2>1. Busy(proc[p])
    BY <1>3, AtWork DEF InterruptFail
  <2>2. proc[p].prep \in BOOLEAN /\ "failed" \in EventState /\ "other" \in Method
    BY <2>1 DEF Busy, Good, Process, EventState, Method
  <2>3. DurableOK'
    BY <1>3, <2>1, <2>2, NoteOrFailType DEF InterruptFail
  <2>4. QED
    BY <1>1, <1>3, <2>1, <2>3, GotoType DEF InterruptFail
<1>4. CASE InterruptComplete(p)
  <2>1. "Interrupted" \in Status
    BY DEF Status, Recoverable
  <2>2. status' \in [Run -> Status]
    BY <1>4, <2>1 DEF InterruptComplete, TypeInv, DurableOK
  <2>3. spent' \in [Mishap -> Nat]
    BY <1>4, SpendType DEF InterruptComplete, TypeInv, DurableOK, Mishap
  <2>4. DurableOK'
    BY <1>4, <2>2, <2>3 DEF InterruptComplete, TypeInv, DurableOK, fs, history
  <2>5. QED
    BY <1>4, <2>4, IdleType DEF InterruptComplete
<1>5. QED
  BY <1>2, <1>3, <1>4

\* A user edits a managed file.
LEMMA EditType ==
  ASSUME TypeInv, NEW a \in Act, Edit(a)
  PROVE  TypeInv'
<1>1. file' \in [Act -> Content]
  BY ConstantsAssumption DEF Edit, TypeInv, DurableOK
<1>2. spent' \in [Mishap -> Nat]
  BY SpendType DEF Edit, TypeInv, Mishap
<1>3. DurableOK'
  BY <1>1, <1>2 DEF Edit, TypeInv, DurableOK, db
<1>4. QED
  BY <1>3 DEF Edit, TypeInv

\* The initial states.
LEMMA InitType ==
  ASSUME Init
  PROVE  TypeInv
<1>1. PICK start \in [Act -> {<<"absent", "none">>, <<"old", "old">>,
                              <<"local", "none">>, <<"new", "none">>}] :
        /\ file = [a \in Act |-> start[a][1]]
        /\ applied = [a \in Act |-> start[a][2]]
  BY DEF Init
<1>2. \A a \in Act : start[a][1] \in Content /\ start[a][2] \in Record
  BY DEF Content, Record
<1>3. file \in [Act -> Content] /\ applied \in [Act -> Record]
  BY <1>1, <1>2
<1>4. PendingEvent \in Event
  BY DEF PendingEvent, Ev, Event, EventState, Record, Method
<1>5. journal \in [Act -> Seq(Event)]
  BY <1>4 DEF Init
<1>6. proc \in [Proc -> Good]
  BY IdleGood DEF Init
<1>7. cur \in 0..MaxRuns /\ status \in [Run -> Status] /\ spent \in [Mishap -> Nat]
  BY ConstantsAssumption DEF Init, Status
<1>8. plan \in [Run -> [Act -> Kind]] /\ snap \in [Run -> [Act -> Content \cup {"none"}]]
  BY DEF Init, Kind
<1>9. QED
  BY <1>3, <1>5, <1>6, <1>7, <1>8 DEF Init, TypeInv, DurableOK

\* TypeInv is inductive.
LEMMA NextType ==
  ASSUME TypeInv, [Next]_vars
  PROVE  TypeInv'
<1>1. CASE UNCHANGED vars
  BY <1>1 DEF vars, TypeInv, DurableOK
<1>2. ASSUME NEW p \in Proc, Step(p)
      PROVE  TypeInv'
  BY <1>2, StartRunType, StartRefusedType, RunNextType, PrepareType, JournalRunningType,
     ExecuteType, VerifyType, JournalSucceededType, UndoType, JournalFailType,
     OutcomeActionType, AgentType, CascadeType, SkipType, CompleteType, RecoverNextType,
     RecoverRestoreType, ReverifyType, InstallerType, OwnBackType, AbandonType,
     InterruptHandlerType
  DEF Step
<1>3. ASSUME NEW p \in Proc, Plan(p) \/ RecoverStart(p) \/ AbandonStart(p)
                             \/ Crash(p) \/ Interrupt(p)
      PROVE  TypeInv'
  BY <1>3, PlanType, RecoverStartType, AbandonType, CrashType, InterruptType
<1>4. ASSUME NEW a \in Act, Edit(a)
      PROVE  TypeInv'
  BY <1>4, EditType
<1>5. CASE Rest
  BY <1>1, <1>5 DEF Rest
<1>6. QED
  BY <1>1, <1>2, <1>3, <1>4, <1>5 DEF Next

\* The inductive invariant implies TypeOK.
LEMMA TypeInvTypeOK ==
  ASSUME TypeInv
  PROVE  TypeOK
<1>1. proc \in [Proc -> Process]
  BY DEF TypeInv, Good
<1>2. QED
  BY <1>1 DEF TypeInv, DurableOK, TypeOK

\* Every reachable state of the run table, the journal, the ownership records,
\* the snapshots and the registers of every invocation has its type, for any
\* number of invocations, actions and mishaps.
THEOREM TypeCorrect == Spec => []TypeOK
<1>1. Init => TypeInv
  BY InitType
<1>2. TypeInv /\ [Next]_vars => TypeInv'
  BY NextType
<1>3. TypeInv => TypeOK
  BY TypeInvTypeOK
<1>4. QED
  BY <1>1, <1>2, <1>3, PTL DEF Spec

----------------------------------------------------------------------------
(* The run tables implement RunLedger. *)

\* Runs that were not started have no status, and only the latest may be open.
RunsInv ==
  \A r \in Run : /\ r > cur => status[r] = "none"
                 /\ Open(r) => r = cur

\* The transactions of an invocation, as far as the run tables are concerned.
NoEffect == UNCHANGED <<cur, status, applied>>
Owns(p) == UNCHANGED <<cur, status>> /\ Open(proc[p].run)
Closes(p) ==
  /\ Open(proc[p].run)
  /\ \E o \in Terminal : status' = [status EXCEPT ![proc[p].run] = o]
  /\ UNCHANGED cur
Suspends ==
  \E r \in Run : /\ Open(r)
                 /\ status' = [status EXCEPT ![r] = "Interrupted"]
                 /\ UNCHANGED <<cur, applied>>

\* A journal transaction owns or does nothing.
LEMMA JournalEffect ==
  ASSUME NEW p
  PROVE  /\ \A a, e, rec : JournalAction(p, a, e, rec) => Owns(p)
         /\ \A st, ref, method : Note(p, st, ref, method) => Owns(p)
         /\ TransactionFails(p) => NoEffect
  BY DEF JournalAction, Note, TransactionFails, Owns, NoEffect, db

\* The steps of the executor.
LEMMA ExecutorEffect ==
  ASSUME NEW p \in Proc,
         \/ StartRefused(p) \/ RunNext(p) \/ Prepare(p) \/ PrepareFails(p)
         \/ JournalRunning(p) \/ Execute(p) \/ ExecuteFails(p) \/ Verify(p)
         \/ JournalSucceeded(p) \/ UndoVerify(p) \/ JournalFailVerify(p) \/ Undo(p)
         \/ JournalFail(p) \/ Human(p) \/ RecordDrift(p) \/ DriftSkip(p)
         \/ Cascade(p) \/ CascadeJournal(p) \/ CascadeEnd(p) \/ Skip(p)
         \/ CompleteFails(p) \/ Cleanup(p)
  PROVE  NoEffect \/ Owns(p)
<1>1. CASE \/ StartRefused(p) \/ RunNext(p) \/ Prepare(p) \/ PrepareFails(p)
           \/ Execute(p) \/ ExecuteFails(p) \/ Verify(p) \/ UndoVerify(p) \/ Undo(p)
           \/ Cascade(p) \/ CascadeEnd(p) \/ Cleanup(p)
  BY <1>1 DEF StartRefused, RunNext, Prepare, PrepareFails, Execute, ExecuteFails, Verify,
              UndoVerify, Undo, Cascade, CascadeEnd, Cleanup, NoEffect, db
<1>2. CASE JournalRunning(p) \/ JournalSucceeded(p) \/ JournalFailVerify(p) \/ JournalFail(p)
  BY <1>2, JournalEffect DEF JournalRunning, JournalSucceeded, JournalFailVerify, JournalFail
<1>3. CASE Human(p) \/ DriftSkip(p) \/ CascadeJournal(p) \/ CompleteFails(p)
  BY <1>3, JournalEffect DEF Human, DriftSkip, CascadeJournal, CompleteFails
<1>4. CASE RecordDrift(p)
  BY <1>4 DEF RecordDrift, NoEffect, db
<1>5. CASE Skip(p)
  <2>1. UNCHANGED <<db, spent>> \/ Owns(p) \/ NoEffect
    BY <1>5, JournalEffect DEF Skip
  <2>2. QED
    BY <2>1 DEF NoEffect, db
<1>6. QED
  BY <1>1, <1>2, <1>3, <1>4, <1>5

\* The steps of agent tasks, of recovery and of the interrupt handlers.
LEMMA RecoveryEffect ==
  ASSUME NEW p \in Proc,
         \/ Agent(p) \/ AgentResolve(p) \/ AgentVerify(p) \/ AgentSucceed(p)
         \/ AgentFail(p) \/ AgentSkip(p) \/ AgentError(p)
         \/ RecoverNext(p) \/ RecoverLoopEnd(p) \/ Restore(p) \/ Reverify(p)
         \/ Installer(p) \/ OwnBack(p) \/ InterruptUndo(p) \/ InterruptFail(p)
         \/ Plan(p) \/ RecoverStart(p) \/ AbandonStart(p) \/ Crash(p) \/ Interrupt(p)
  PROVE  NoEffect \/ Owns(p)
<1>1. CASE \/ AgentResolve(p) \/ AgentVerify(p) \/ RecoverNext(p) \/ RecoverLoopEnd(p)
           \/ Restore(p) \/ Reverify(p) \/ InterruptUndo(p) \/ Plan(p) \/ RecoverStart(p)
           \/ AbandonStart(p) \/ Crash(p) \/ Interrupt(p)
  <2>1. UNCHANGED db
    BY <1>1 DEF AgentResolve, AgentVerify, RecoverNext, RecoverLoopEnd, Restore, Reverify,
                InterruptUndo, Plan, RecoverStart, AbandonStart, Crash, Interrupt
  <2>2. QED
    BY <2>1 DEF NoEffect, db
<1>2. CASE AgentSucceed(p) \/ AgentFail(p) \/ AgentSkip(p) \/ AgentError(p)
           \/ OwnBack(p) \/ InterruptFail(p)
  BY <1>2, JournalEffect DEF AgentSucceed, AgentFail, AgentSkip, AgentError, OwnBack, InterruptFail
<1>3. CASE Agent(p) \/ Installer(p)
  <2>1. UNCHANGED <<db, spent>> \/ Owns(p) \/ NoEffect
    BY <1>3, JournalEffect DEF Agent, Installer
  <2>2. QED
    BY <2>1 DEF NoEffect, db
<1>4. QED
  BY <1>1, <1>2, <1>3

\* The steps that close or suspend a run.
LEMMA ClosingEffect ==
  ASSUME TypeInv, NEW p \in Proc, Complete(p) \/ Abandon(p) \/ InterruptComplete(p)
  PROVE  NoEffect \/ Closes(p) \/ Suspends
<1>1. CASE Complete(p)
  <2>1. Outcome(proc[p]) \in Terminal
    BY DEF Outcome, Terminal
  <2>2. QED
    BY <1>1, <2>1 DEF Complete, Closes
<1>2. CASE Abandon(p)
  <2>1. "Failed" \in Terminal
    BY DEF Terminal
  <2>2. QED
    BY <1>2, <2>1, JournalEffect DEF Abandon, Closes
<1>3. CASE InterruptComplete(p)
  <2> DEFINE r == IF proc[p].mode = "run" THEN proc[p].run ELSE cur
  <2>1. UNCHANGED <<cur, applied>>
    BY <1>3 DEF InterruptComplete
  <2>2. \/ Open(r) /\ status' = [status EXCEPT ![r] = "Interrupted"]
        \/ UNCHANGED status
    BY <1>3 DEF InterruptComplete
  <2>3. Open(r) => r \in Run
    BY DEF Open
  <2> HIDE DEF r
  <2>4. QED
    BY <2>1, <2>2, <2>3 DEF Suspends, NoEffect
<1>4. QED
  BY <1>1, <1>2, <1>3

\* Every step of the system is one of these.
LEMMA StepEffect ==
  ASSUME TypeInv, [Next]_vars
  PROVE  \/ NoEffect
         \/ Suspends
         \/ \E p \in Proc : Owns(p) \/ Closes(p) \/ StartRun(p)
<1>1. CASE UNCHANGED vars
  BY <1>1 DEF vars, NoEffect
<1>2. ASSUME NEW p \in Proc, Step(p) \/ Plan(p) \/ RecoverStart(p) \/ AbandonStart(p)
                             \/ Crash(p) \/ Interrupt(p)
      PROVE  NoEffect \/ Suspends \/ Owns(p) \/ Closes(p) \/ StartRun(p)
  BY <1>2, ExecutorEffect, RecoveryEffect, ClosingEffect DEF Step
<1>3. ASSUME NEW a \in Act, Edit(a)
      PROVE  NoEffect
  BY <1>3 DEF Edit, NoEffect, db
<1>4. CASE Rest
  BY <1>1, <1>4 DEF Rest
<1>5. QED
  BY <1>1, <1>2, <1>3, <1>4 DEF Next

\* Each effect keeps RunsInv and is a step of RunLedger.
LEMMA LedgerStep ==
  ASSUME TypeInv, RunsInv, [Next]_vars
  PROVE  RunsInv' /\ [Ledger!Next]_(Ledger!ledger)
<1>1. TypeInv'
  BY NextType
<1>2. cur \in Nat /\ status \in [Run -> Status] /\ applied' \in [Act -> Record]
  BY <1>1, ConstantsAssumption DEF TypeInv, DurableOK
<1>3. \A r \in Run : r \in Nat /\ r > 0 /\ r <= MaxRuns
  BY ConstantsAssumption DEF Run
<1>4. CASE NoEffect
  BY <1>4 DEF NoEffect, RunsInv, Open, Ledger!ledger
<1>5. ASSUME NEW p \in Proc, Owns(p)
      PROVE  RunsInv' /\ Ledger!Own
  <2>1. proc[p].run = cur /\ cur \in Run /\ status[cur] \in Recoverable
    BY <1>5 DEF Owns, Open, RunsInv
  <2>2. RunsInv'
    BY <1>5 DEF Owns, RunsInv, Open
  <2>3. Ledger!Own
    BY <1>2, <1>3, <1>5, <2>1 DEF Owns, Ledger!Own, Ledger!Open, Recoverable
  <2>4. QED
    BY <2>2, <2>3
<1>6. ASSUME NEW p \in Proc, Closes(p)
      PROVE  RunsInv' /\ \E o \in Ledger!Outcome : Ledger!Close(o)
  <2>1. proc[p].run = cur /\ cur \in Run /\ status[cur] \in Recoverable
    BY <1>6 DEF Closes, Open, RunsInv
  <2>2. PICK o \in Terminal : status' = [status EXCEPT ![cur] = o] /\ cur' = cur
    BY <1>6, <2>1 DEF Closes
  <2>3. RunsInv'
    BY <1>2, <1>3, <2>1, <2>2 DEF RunsInv, Open, Recoverable, Terminal
  <2>4. o \in Ledger!Outcome
    BY DEF Terminal, Ledger!Outcome
  <2>5. Ledger!Close(o)
    BY <1>2, <1>3, <2>1, <2>2 DEF Ledger!Close, Ledger!Open, Recoverable
  <2>6. QED
    BY <2>3, <2>4, <2>5
<1>7. CASE Suspends
  <2>1. PICK r \in Run : /\ Open(r)
                         /\ status' = [status EXCEPT ![r] = "Interrupted"]
                         /\ UNCHANGED <<cur, applied>>
    BY <1>7 DEF Suspends
  <2>2. r = cur /\ status[cur] \in Recoverable
    BY <2>1 DEF RunsInv, Open
  <2>3. RunsInv'
    BY <1>2, <1>3, <2>1, <2>2 DEF RunsInv, Open, Recoverable
  <2>4. Ledger!Interrupt
    BY <1>3, <2>1, <2>2 DEF Ledger!Interrupt, Ledger!Open, Recoverable
  <2>5. QED
    BY <2>3, <2>4 DEF Ledger!Next
<1>8. ASSUME NEW p \in Proc, StartRun(p)
      PROVE  RunsInv' /\ Ledger!Start
  <2>1. /\ cur < MaxRuns
        /\ \A r \in Run : ~Open(r)
        /\ cur' = cur + 1
        /\ status' = [status EXCEPT ![cur + 1] = "applying"]
        /\ UNCHANGED applied
    BY <1>8 DEF StartRun
  <2>2. cur + 1 \in Run
    BY <1>2, <2>1, ConstantsAssumption DEF Run
  <2>3. RunsInv'
    BY <1>2, <1>3, <2>1, <2>2 DEF RunsInv, Open, Recoverable
  <2>4. cur = 0 \/ status[cur] \notin Recoverable
    BY <1>2, <2>1, ConstantsAssumption DEF Open, Run
  <2>5. Ledger!Start
    BY <2>1, <2>4 DEF Ledger!Start, Ledger!Open, Recoverable
  <2>6. QED
    BY <2>3, <2>5
<1>9. QED
  BY <1>4, <1>5, <1>6, <1>7, <1>8, StepEffect DEF Ledger!Next

\* The initial states of the run tables.
LEMMA LedgerInit ==
  ASSUME Init
  PROVE  TypeInv /\ RunsInv /\ Ledger!Init
<1>1. TypeInv
  BY InitType
<1>2. RunsInv
  BY DEF Init, RunsInv, Open, Recoverable
<1>3. Ledger!Init
  BY <1>1 DEF Init, Ledger!Init, TypeInv, DurableOK, Run
<1>4. QED
  BY <1>1, <1>2, <1>3

\* Every behaviour of the apply engine is, on the run tables, a behaviour of
\* RunLedger: no crash, interrupt or overlap of invocations opens a second
\* run, changes ownership outside an open run, or revises an outcome.
THEOREM RunsImplementLedger == Spec => LedgerSpec
<1>1. Init => TypeInv /\ RunsInv /\ Ledger!Init
  BY LedgerInit
<1>2. TypeInv /\ RunsInv /\ [Next]_vars
        => TypeInv' /\ RunsInv' /\ [Ledger!Next]_(Ledger!ledger)
  BY NextType, LedgerStep
<1>3. QED
  BY <1>1, <1>2, PTL DEF Spec, LedgerSpec, Ledger!Spec

\* At most one run of a follower is recoverable, and it is the latest.
THEOREM AtMostOneOpenRun == Spec => []OneOpenRun
<1>1. Init => TypeInv /\ RunsInv
  BY LedgerInit
<1>2. TypeInv /\ RunsInv /\ [Next]_vars => TypeInv' /\ RunsInv'
  BY NextType, LedgerStep
<1>3. RunsInv => OneOpenRun
  BY DEF RunsInv, OneOpenRun
<1>4. QED
  BY <1>1, <1>2, <1>3, PTL DEF Spec

\* A run that has ended is never reopened and its outcome never changes.
THEOREM OutcomesAreFinal == Spec => EndedIsFinal
<1>1. Init => TypeInv /\ RunsInv
  BY LedgerInit
<1>2. TypeInv /\ RunsInv /\ [Next]_vars => TypeInv' /\ RunsInv'
  BY NextType, LedgerStep
<1>3. ASSUME TypeInv, RunsInv, [Next]_vars
      PROVE  [\A r \in Run : status[r] \in Terminal => status'[r] = status[r]]_vars
  <2>1. SUFFICES ASSUME NEW r \in Run, status[r] \in Terminal
                 PROVE  status'[r] = status[r]
    OBVIOUS
  <2>2. ~Open(r) /\ status[r] # "none" /\ status \in [Run -> Status]
    BY <1>3, <2>1 DEF Open, Terminal, Recoverable, TypeInv, DurableOK
  <2>3. CASE NoEffect
    BY <2>3 DEF NoEffect
  <2>4. CASE Suspends
    BY <2>2, <2>4 DEF Suspends
  <2>5. ASSUME NEW p \in Proc, Owns(p) \/ Closes(p)
        PROVE  status'[r] = status[r]
    BY <2>2, <2>5 DEF Owns, Closes
  <2>6. ASSUME NEW p \in Proc, StartRun(p)
        PROVE  status'[r] = status[r]
    <3>1. cur + 1 > cur /\ cur + 1 \in Run
      BY <1>3, <2>6, ConstantsAssumption DEF StartRun, TypeInv, DurableOK, Run
    <3>2. r # cur + 1
      BY <1>3, <2>2, <3>1 DEF RunsInv
    <3>3. QED
      BY <2>2, <2>6, <3>2 DEF StartRun
  <2>7. QED
    BY <1>3, <2>3, <2>4, <2>5, <2>6, StepEffect
<1>4. QED
  BY <1>1, <1>2, <1>3, PTL DEF Spec, EndedIsFinal

\* Only a run that is still open changes ownership records.
THEOREM OwnershipIsGuarded == Spec => OwnershipNeedsOpenRun
<1>1. Init => TypeInv /\ RunsInv
  BY LedgerInit
<1>2. TypeInv /\ RunsInv /\ [Next]_vars => TypeInv' /\ RunsInv'
  BY NextType, LedgerStep
<1>3. ASSUME TypeInv, RunsInv, [Next]_vars
      PROVE  [applied' # applied => Open(cur)]_vars
  <2>1. SUFFICES ASSUME applied' # applied
                 PROVE  Open(cur)
    OBVIOUS
  <2>2. ~NoEffect /\ ~Suspends /\ \A p \in Proc : ~StartRun(p)
    BY <2>1 DEF NoEffect, Suspends, StartRun
  <2>3. PICK p \in Proc : Owns(p) \/ Closes(p)
    BY <1>3, <2>2, StepEffect
  <2>4. Open(proc[p].run) /\ proc[p].run \in Run
    BY <2>3 DEF Owns, Closes, Open
  <2>5. QED
    BY <1>3, <2>4 DEF RunsInv
<1>4. QED
  BY <1>1, <1>2, <1>3, PTL DEF Spec, OwnershipNeedsOpenRun

----------------------------------------------------------------------------
(* What an invocation knows of its run, as long as no two overlap.         *)

\* No two invocations work at the same time.
Alone == \A p, q \in Proc : p # q => proc[p].pc = "idle" \/ proc[q].pc = "idle"

----------------------------------------------------------------------------
(* The places of an invocation. *)

At(q) == proc[q].pc
Aside == {"idle", "planned", "abandon"}
Over == {"cleanup", "intComplete"}
Behind == {"skip", "complete", "cleanup", "intComplete"}
Rolling == {"cascade", "cascadeJournal", "ownback"}
Tasks == {"agent", "agentResolve", "agentVerify", "agentSucceed", "agentFail", "agentSkip",
          "agentError", "intAgent"}
\* The places from where events about the current action may be journaled.
Noting == {"restore", "reverify", "installer", "prepare", "running", "execute", "verify",
           "succeed", "undoVerify", "failVerify", "undo", "fail", "human", "drift", "driftSkip",
           "ownback", "intUndo", "intUnlink", "intFail"} \cup Tasks

InRun(q) == At(q) \notin Aside
Forward(q) == At(q) \notin Aside \cup Behind \cup Rolling
Flagged(q) == proc[q].fail \/ proc[q].human \/ proc[q].drift
\* An invocation that has not entered a run.
Fresh(q) == /\ proc[q].i = 1 /\ proc[q].att = 1 /\ proc[q].mode = "run" /\ proc[q].done = <<>>
            /\ proc[q].mem = [a \in Act |-> "none"] /\ ~proc[q].prep /\ ~Flagged(q)

----------------------------------------------------------------------------
(* The inductive invariant, in layers. *)

\* Where an invocation is: it works on the latest run, which is open until the
\* invocation closes it, and one that has not started is idle.
RunInv(q) ==
  /\ InRun(q) => proc[q].run = cur /\ proc[q].plan = plan[cur]
  /\ At(q) = "abandon" => proc[q].run = cur
  /\ At(q) \notin {"idle", "planned"} \cup Over => Open(cur)
  /\ At(q) = "cleanup" => ~Open(cur)
  /\ \A r \in Run : r > cur => snap[r] = [a \in Act |-> "none"]
  /\ proc[q].mode = "run" => proc[q].att = 1
  /\ At(q) \in Aside => Fresh(q)

\* Which actions a place is for, and the order of the completed actions.
PlaceInv(q) ==
  /\ At(q) \in Tasks => K(q) = "agent"
  /\ At(q) = "installer" => K(q) = "install"
  /\ At(q) = "human" => K(q) = "human"
  /\ At(q) \in {"drift", "driftSkip"} => K(q) = "drift"
  /\ At(q) = "intUnlink" => K(q) = "remove"
  /\ At(q) = "verify" => K(q) # "remove"
  /\ At(q) = "reverify" => K(q) \notin {"transfer", "install", "remove"}
  /\ At(q) = "skip" => proc[q].mode = "run"
  /\ \A n \in 1..Len(proc[q].done) :
       /\ proc[q].done[n].a < proc[q].i
       /\ \A m \in 1..Len(proc[q].done) : n < m => proc[q].done[n].a < proc[q].done[m].a

\* The actions the loop has not reached are as the run or the recovery found
\* them.
Ahead(q, a) == InRun(q) /\ (a > proc[q].i \/ (At(q) = "next" /\ a = proc[q].i))

AheadInv(q, a) ==
  Open(cur) /\ Ahead(q, a) =>
    IF proc[q].mode = "run"
    THEN journal[a] = <<PendingEvent>> /\ (a \notin edited => file[a] = base.file[a])
    ELSE proc[q].seen[a] = [last |-> Last(journal[a]), ref |-> HasReference(journal[a])]

\* No event of this or a later attempt has ended the action.
Quiet(s, att) ==
  \A k \in 1..Len(s) : s[k].att <= att /\ (s[k].st \in {"succeeded", "skipped"} => s[k].att < att)
\* At most the last event has ended it, with the success of this attempt.
Undoable(s, att) ==
  \A k \in 1..Len(s) :
    /\ s[k].att <= att
    /\ s[k].st \in {"succeeded", "skipped"} => s[k].att < att \/ (k = Len(s) /\ s[k].st = "succeeded")
\* A valid journal in the order of its attempts, opened by startRun.
Ordered(s) ==
  /\ ValidJournal(s)
  /\ s[1] = PendingEvent
  /\ \A k \in 1..Len(s) : s[k].att <= Last(s).att

\* Every journal is valid and takes the next event of the current action and of
\* every inverse that is left to run.
JournalInv(q, a) ==
  Open(cur) =>
    /\ Ordered(journal[a])
    /\ At(q) \in Noting /\ proc[q].i = a => Quiet(journal[a], proc[q].att) /\ proc[q].att >= 1
    /\ \A n \in 1..Len(proc[q].done) : InRun(q) /\ proc[q].done[n].a = a =>
         Undoable(journal[a], proc[q].done[n].att) /\ proc[q].done[n].att >= 1

\* Every success of a file-backed action names its snapshot.
Referring(s) == \A k \in 1..Len(s) : s[k].st = "succeeded" => s[k].ref

\* A snapshot is what the run found, and no target has changed without one.
SafeInv(a) ==
  Open(cur) /\ a \notin edited /\ KindOf(a) \in FileBacked =>
    /\ snap[cur][a] \in {"none", base.file[a]}
    /\ HasReference(journal[a]) => snap[cur][a] = base.file[a]
    /\ file[a] # base.file[a] => HasReference(journal[a])
    /\ Referring(journal[a])

\* What the invocation knows of the snapshots it relies on.
PreimageInv(q, a) ==
  Open(cur) /\ a \notin edited /\ KindOf(a) \in FileBacked /\ InRun(q) =>
    /\ proc[q].mem[a] \in {"none", snap[cur][a]}
    /\ \A n \in 1..Len(proc[q].done) : proc[q].done[n].a = a => snap[cur][a] = base.file[a]
    /\ At(q) \notin Behind /\ proc[q].i = a =>
         /\ proc[q].prep => snap[cur][a] = base.file[a]
         /\ At(q) = "prepare" => file[a] = base.file[a]
         /\ At(q) = "running" => proc[q].prep
         /\ At(q) \in {"execute", "verify", "succeed", "intUnlink"} =>
              proc[q].prep /\ HasReference(journal[a])
         /\ At(q) = "reverify" => snap[cur][a] = base.file[a]

\* The target holds what the action is for.
Holds(a) == a \notin edited =>
  /\ KindOf(a) \in Owning \cup {"install", "agent"} => Matches(KindOf(a), file[a])
  /\ KindOf(a) = "remove" => file[a] = "absent"

\* Every action the loop has passed holds, or the outcome is not Converged.
HoldsInv(q, a) ==
  /\ Forward(q) /\ a < proc[q].i => Holds(a)
  /\ At(q) \in {"succeed", "agentSucceed"} /\ a = proc[q].i => Holds(a)
  /\ At(q) \in Rolling => proc[q].fail
  /\ At(q) = "skip" => Flagged(q)
  /\ At(q) = "complete" => Flagged(q) \/ Holds(a)

\* What Converged says of an action.
ConvergedInv(a) ==
  cur > 0 /\ status[cur] = "Converged" =>
    Holds(a) /\ (a \notin edited =>
      /\ KindOf(a) \in Owning => applied[a] = "new"
      /\ KindOf(a) = "remove" => applied[a] = "none")

ActionInv(q, a) ==
  AheadInv(q, a) /\ JournalInv(q, a) /\ SafeInv(a) /\ PreimageInv(q, a) /\ HoldsInv(q, a) /\ ConvergedInv(a)

RInv(q) == RunInv(q) /\ PlaceInv(q) /\ \A a \in Act : ActionInv(q, a)

----------------------------------------------------------------------------
(* Steps of an invocation. *)

Same(a) == /\ file'[a] = file[a] /\ journal'[a] = journal[a]
           /\ snap'[cur][a] = snap[cur][a]

\* A step keeps what the invocation loaded.
Frame(q) ==
  /\ proc'[q].run = proc[q].run /\ proc'[q].plan = proc[q].plan
  /\ proc'[q].mode = proc[q].mode /\ proc'[q].seen = proc[q].seen
  /\ proc[q].mode = "run" => proc'[q].att = proc[q].att

Stacked(q) ==
  \E prev : proc'[q].done = Append(proc[q].done, [a |-> proc[q].i, att |-> proc'[q].att, prev |-> prev])

\* A step on the current action: the invocation stays in its run and no other
\* action is touched.
Works(q) ==
  /\ InRun(q) /\ InRun(q)' /\ Frame(q)
  /\ UNCHANGED <<cur, status, plan, base, edited>>
  /\ At(q) \in Over => At(q)' \in Over /\ At(q)' # "cleanup" /\ UNCHANGED <<file, applied>>
  /\ At(q)' # "cleanup"
  /\ At(q) \in Behind \cup Rolling => At(q)' \in Behind \cup Rolling
  /\ \/ proc'[q].i = proc[q].i /\ At(q)' # "next" /\ proc'[q].done = proc[q].done
     \/ /\ proc'[q].i = proc[q].i + 1 /\ At(q)' = "next" /\ proc'[q].prep = FALSE
        /\ proc'[q].done = proc[q].done \/ Stacked(q)
  /\ \A a \in Act \ {proc[q].i} : Same(a) /\ proc'[q].mem[a] = proc[q].mem[a]
  /\ \A r \in Run : r # cur => snap'[r] = snap[r]

\* What the step must show of the current action.
Reached(q) ==
  /\ At(q)' \in {"next", "succeed", "agentSucceed"} => \A a \in Act : a = proc[q].i => Holds(a)'
  /\ At(q)' \in Rolling => proc'[q].fail
  /\ At(q)' = "skip" => Flagged(q)'
  /\ At(q)' = "complete" => Flagged(q)' \/ \A a \in Act : Holds(a)'

\* A step by which the invocation ends.
Leaves(q) ==
  /\ proc'[q] = Idle
  /\ UNCHANGED <<cur, plan, journal, base, edited>>
  /\ \A r \in Run : r > cur => snap'[r] = snap[r]
  /\ Open(cur)' => Open(cur) /\ snap' = snap
  /\ \A a \in Act : file'[a] = file[a]
       \/ (a \notin edited /\ KindOf(a) \in FileBacked => file'[a] = base.file[a] \/ HasReference(journal[a]))
  /\ cur > 0 /\ status'[cur] = "Converged" => status[cur] = "Converged" /\ UNCHANGED <<file, applied>>

USE DEF At, Aside, Over, Behind, Rolling, InRun

----------------------------------------------------------------------------
(* Steps on the current action leave the other actions' invariants alone. *)

\* The loop index and the stack of a well-formed process.
LEMMA Registers ==
  ASSUME TypeInv, NEW q \in Proc
  PROVE  /\ proc[q] \in Process /\ LocalInv(proc[q])
         /\ proc[q].i \in 1..(N + 1) /\ proc[q].att \in Nat /\ proc[q].done \in Seq(Done)
         /\ proc[q].run \in 0..MaxRuns /\ proc[q].mode \in {"run", "recover"}
         /\ proc[q].prep \in BOOLEAN
  BY DEF TypeInv, Good, Process

\* What an append leaves of a sequence.
LEMMA Appended ==
  ASSUME NEW S, NEW s \in Seq(S), NEW x, NEW t, t = Append(s, x)
  PROVE  /\ Len(s) \in Nat /\ Len(t) = Len(s) + 1 /\ t[Len(t)] = x
         /\ \A n \in 1..Len(s) : n \in 1..Len(t) /\ t[n] = s[n]
         /\ \A n \in 1..Len(t) : n \in 1..Len(s) \/ n = Len(t)
<1> DEFINE T == S \cup {x}
<1>1. s \in Seq(T) /\ x \in T
  OBVIOUS
<1> HIDE DEF T
<1> QED BY <1>1

\* The stack after a step on the current action.
LEMMA StackAfter ==
  ASSUME TypeInv, NEW q \in Proc, Works(q)
  PROVE  \A n \in 1..Len(proc'[q].done) :
           \/ n \in 1..Len(proc[q].done) /\ proc'[q].done[n] = proc[q].done[n]
           \/ /\ Stacked(q) /\ proc'[q].i = proc[q].i + 1
              /\ n = Len(proc[q].done) + 1 /\ n = Len(proc'[q].done)
              /\ proc'[q].done[n].a = proc[q].i /\ proc'[q].done[n].att = proc'[q].att
<1>1. CASE proc'[q].done = proc[q].done
  BY <1>1
<1>2. CASE Stacked(q) /\ proc'[q].i = proc[q].i + 1
  <2>1. PICK prev : proc'[q].done = Append(proc[q].done, [a |-> proc[q].i, att |-> proc'[q].att, prev |-> prev])
    BY <1>2 DEF Stacked
  <2> DEFINE x == [a |-> proc[q].i, att |-> proc'[q].att, prev |-> prev]
             s == proc[q].done
             t == proc'[q].done
  <2>2. s \in Seq(Done) /\ t = Append(s, x) /\ x.a = proc[q].i /\ x.att = proc'[q].att
    BY <2>1, Registers
  <2> HIDE DEF x, s, t
  <2>3. /\ Len(s) \in Nat /\ Len(t) = Len(s) + 1 /\ t[Len(t)] = x
        /\ \A n \in 1..Len(s) : n \in 1..Len(t) /\ t[n] = s[n]
        /\ \A n \in 1..Len(t) : n \in 1..Len(s) \/ n = Len(t)
    BY <2>2, Appended
  <2>4. \A n \in 1..Len(t) : \/ n \in 1..Len(s) /\ t[n] = s[n]
                             \/ n = Len(s) + 1 /\ n = Len(t) /\ t[n].a = proc[q].i /\ t[n].att = proc'[q].att
    BY <2>2, <2>3
  <2> QED BY <1>2, <2>4 DEF s, t
<1> QED BY <1>1, <1>2 DEF Works

\* Where the invocation is.
LEMMA WorksRun ==
  ASSUME TypeInv, NEW q \in Proc, RunInv(q), Works(q)
  PROVE  RunInv(q)'
<1>1. Open(cur)' <=> Open(cur)
  BY DEF Works, Open
<1>2. cur' = cur /\ plan' = plan /\ At(q) \notin Aside /\ At(q)' \notin Aside
  BY DEF Works
<1>3. proc'[q].run = cur' /\ proc'[q].plan = plan'[cur']
  BY <1>2 DEF Works, Frame, RunInv
<1>4. At(q)' \notin Over => Open(cur)'
  BY <1>1, <1>2 DEF Works, RunInv
<1>5. \A r \in Run : r > cur' => snap'[r] = [a \in Act |-> "none"]
  <2>1. cur \in Int /\ \A r \in Run : r \in Int
    BY ConstantsAssumption DEF TypeInv, DurableOK, Run
  <2>2. \A r \in Run : r # cur => snap'[r] = snap[r]
    BY DEF Works
  <2>3. \A r \in Run : r > cur => snap[r] = [a \in Act |-> "none"]
    BY DEF RunInv
  <2> QED BY <1>2, <2>1, <2>2, <2>3
<1>6. proc'[q].mode = "run" => proc'[q].att = 1
  BY DEF Works, RunInv, Frame
<1>7. At(q)' # "cleanup"
  BY DEF Works
<1> HIDE DEF At
<1> QED BY <1>2, <1>3, <1>4, <1>5, <1>6, <1>7 DEF RunInv

\* The actions the loop has not reached.
LEMMA WorksAhead ==
  ASSUME TypeInv, NEW q \in Proc, RInv(q), Works(q), NEW a \in Act
  PROVE  AheadInv(q, a)'
<1> SUFFICES ASSUME Open(cur)', Ahead(q, a)'
             PROVE  IF proc'[q].mode = "run"
                    THEN journal'[a] = <<PendingEvent>> /\ (a \notin edited' => file'[a] = base'.file[a])
                    ELSE proc'[q].seen[a] = [last |-> Last(journal'[a]), ref |-> HasReference(journal'[a])]
  BY DEF AheadInv
<1>1. proc[q].i \in Int /\ a \in Int
  BY Registers DEF Act
<1>2. a > proc[q].i /\ InRun(q)
  BY <1>1 DEF Works, Ahead
<1>3. Open(cur) /\ Ahead(q, a)
  BY <1>2 DEF Ahead, Works, Open
<1>4. IF proc[q].mode = "run"
      THEN journal[a] = <<PendingEvent>> /\ (a \notin edited => file[a] = base.file[a])
      ELSE proc[q].seen[a] = [last |-> Last(journal[a]), ref |-> HasReference(journal[a])]
  BY <1>3 DEF RInv, ActionInv, AheadInv
<1>5. a \in Act \ {proc[q].i}
  BY <1>1, <1>2
<1>6. Same(a) /\ UNCHANGED <<base, edited>> /\ Frame(q)
  BY <1>5 DEF Works
<1> QED BY <1>4, <1>6 DEF Same, Frame

\* The journals of the other actions.
LEMMA WorksJournal ==
  ASSUME TypeInv, NEW q \in Proc, RInv(q), Works(q), NEW a \in Act, a # proc[q].i
  PROVE  JournalInv(q, a)'
<1> SUFFICES ASSUME Open(cur)'
             PROVE  /\ Ordered(journal'[a])
                    /\ At(q)' \in Noting /\ proc'[q].i = a => Quiet(journal'[a], proc'[q].att) /\ proc'[q].att >= 1
                    /\ \A n \in 1..Len(proc'[q].done) : InRun(q)' /\ proc'[q].done[n].a = a =>
                         Undoable(journal'[a], proc'[q].done[n].att) /\ proc'[q].done[n].att >= 1
  BY DEF JournalInv
<1>1. Open(cur) /\ InRun(q) /\ Same(a)
  BY DEF Works, Open
<1>2. Ordered(journal[a]) /\ \A n \in 1..Len(proc[q].done) : proc[q].done[n].a = a =>
        Undoable(journal[a], proc[q].done[n].att) /\ proc[q].done[n].att >= 1
  BY <1>1 DEF RInv, ActionInv, JournalInv
<1>3. journal'[a] = journal[a]
  BY <1>1 DEF Same
<1>4. ~(At(q)' \in Noting /\ proc'[q].i = a)
  BY DEF Works, Noting, Tasks
<1>5. ASSUME NEW n \in 1..Len(proc'[q].done), proc'[q].done[n].a = a
      PROVE  Undoable(journal[a], proc'[q].done[n].att) /\ proc'[q].done[n].att >= 1
  BY <1>2, <1>5, StackAfter
<1> HIDE DEF At, InRun
<1> QED BY <1>2, <1>3, <1>4, <1>5

\* The snapshots of the other actions.
LEMMA WorksPreimage ==
  ASSUME TypeInv, NEW q \in Proc, RInv(q), Works(q), NEW a \in Act, a # proc[q].i
  PROVE  SafeInv(a)' /\ PreimageInv(q, a)'
<1>1. Same(a) /\ proc'[q].mem[a] = proc[q].mem[a] /\ InRun(q) /\ (Open(cur)' <=> Open(cur)) /\ KindOf(a)' = KindOf(a)
  BY DEF Works, Open, KindOf
<1>2. UNCHANGED <<cur, base, edited>>
  BY DEF Works
<1>3. SafeInv(a) /\ PreimageInv(q, a)
  BY DEF RInv, ActionInv
<1>4. SafeInv(a)'
  BY <1>1, <1>2, <1>3 DEF SafeInv, Same
<1>5. PreimageInv(q, a)'
  <2> SUFFICES ASSUME Open(cur)', a \notin edited', KindOf(a)' \in FileBacked
               PROVE  /\ proc'[q].mem[a] \in {"none", snap'[cur'][a]}
                      /\ \A n \in 1..Len(proc'[q].done) : proc'[q].done[n].a = a => snap'[cur'][a] = base'.file[a]
                      /\ At(q)' \notin Behind /\ proc'[q].i = a => At(q)' = "next" /\ ~proc'[q].prep
    BY DEF PreimageInv
  <2>1. /\ proc[q].mem[a] \in {"none", snap[cur][a]}
        /\ \A n \in 1..Len(proc[q].done) : proc[q].done[n].a = a => snap[cur][a] = base.file[a]
    BY <1>1, <1>2, <1>3 DEF PreimageInv
  <2>2. snap'[cur'][a] = snap[cur][a]
    BY <1>1, <1>2 DEF Same
  <2>3. \A n \in 1..Len(proc'[q].done) : proc'[q].done[n].a = a => snap[cur][a] = base.file[a]
    BY <2>1, StackAfter
  <2>4. proc'[q].i = a => At(q)' = "next" /\ ~proc'[q].prep
    BY DEF Works
  <2> QED BY <1>1, <1>2, <2>1, <2>2, <2>3, <2>4
<1> QED BY <1>4, <1>5

\* The actions the loop has passed.
LEMMA WorksHolds ==
  ASSUME TypeInv, NEW q \in Proc, RInv(q), Works(q), Reached(q), NEW a \in Act
  PROVE  HoldsInv(q, a)' /\ ConvergedInv(a)'
<1>1. KindOf(a)' = KindOf(a) /\ UNCHANGED <<cur, status, edited>> /\ InRun(q)
  BY DEF Works, KindOf
<1>2. a # proc[q].i /\ Holds(a) => Holds(a)'
  BY <1>1 DEF Works, Same, Holds
<1>3. proc[q].i \in Int /\ a \in Int
  BY Registers DEF Act
<1>4. Forward(q)' /\ a < proc'[q].i => Holds(a)'
  <2> SUFFICES ASSUME Forward(q)', a < proc'[q].i
               PROVE  Holds(a)'
    OBVIOUS
  <2>1. Forward(q)
    BY <1>1 DEF Works, Forward
  <2>2. CASE a < proc[q].i
    BY <1>2, <1>3, <2>1, <2>2 DEF RInv, ActionInv, HoldsInv
  <2>3. CASE ~(a < proc[q].i)
    <3>1. At(q)' = "next" /\ a = proc[q].i
      BY <1>3, <2>3 DEF Works
    <3> QED BY <3>1 DEF Reached
  <2> QED BY <2>2, <2>3
<1>5. ConvergedInv(a)'
  <2>1. CASE At(q) \in Over
    <3>1. UNCHANGED <<file, applied>> /\ ConvergedInv(a)
      BY <2>1 DEF Works, RInv, ActionInv
    <3> QED BY <1>1, <3>1 DEF ConvergedInv, Holds
  <2>2. CASE At(q) \notin Over
    <3>1. Open(cur)
      BY <1>1, <2>2 DEF RInv, RunInv
    <3> QED BY <1>1, <3>1 DEF ConvergedInv, Open, Recoverable
  <2> QED BY <2>1, <2>2
<1>6. At(q)' \in {"succeed", "agentSucceed"} /\ a = proc'[q].i => Holds(a)'
  BY DEF Works, Reached
<1>7. /\ At(q)' \in Rolling => proc'[q].fail
      /\ At(q)' = "skip" => Flagged(q)'
      /\ At(q)' = "complete" => Flagged(q)' \/ Holds(a)'
  BY DEF Reached
<1> HIDE DEF At, Rolling
<1> QED BY <1>4, <1>5, <1>6, <1>7 DEF HoldsInv

\* The order of the stack.
LEMMA WorksStack ==
  ASSUME TypeInv, NEW q \in Proc, RInv(q), Works(q)
  PROVE  \A n \in 1..Len(proc'[q].done) :
           /\ proc'[q].done[n].a < proc'[q].i
           /\ \A m \in 1..Len(proc'[q].done) : n < m => proc'[q].done[n].a < proc'[q].done[m].a
<1>1. /\ proc[q].i \in Int /\ Len(proc[q].done) \in Nat
      /\ \A n \in 1..Len(proc[q].done) : proc[q].done[n].a \in Int
  <2>1. proc[q].done \in Seq(Done) /\ proc[q].i \in Int
    BY Registers
  <2>2. \A n \in 1..Len(proc[q].done) : proc[q].done[n] \in Done
    BY <2>1
  <2> QED BY <2>1, <2>2 DEF Done, Act
<1>2. \A n \in 1..Len(proc[q].done) :
         /\ proc[q].done[n].a < proc[q].i
         /\ \A m \in 1..Len(proc[q].done) : n < m => proc[q].done[n].a < proc[q].done[m].a
  BY DEF RInv, PlaceInv
<1>3. proc'[q].i = proc[q].i \/ proc'[q].i = proc[q].i + 1
  BY DEF Works
<1>4. Len(proc'[q].done) \in Nat
  <2>1. proc'[q].done = proc[q].done \/ Stacked(q)
    BY DEF Works
  <2>2. ASSUME NEW prev, proc'[q].done = Append(proc[q].done, [a |-> proc[q].i, att |-> proc'[q].att, prev |-> prev])
        PROVE  Len(proc'[q].done) \in Nat
    BY <1>1, <2>2, Registers, Appended
  <2> QED BY <1>1, <2>1, <2>2 DEF Stacked
<1> DEFINE s == proc[q].done
           t == proc'[q].done
           i == proc[q].i
           j == proc'[q].i
<1>5. \A n \in 1..Len(t) : \/ n \in 1..Len(s) /\ t[n] = s[n]
                           \/ j = i + 1 /\ n = Len(s) + 1 /\ n = Len(t) /\ t[n].a = i
  BY StackAfter
<1>6. i \in Int /\ (j = i \/ j = i + 1) /\ Len(t) \in Nat /\ Len(s) \in Nat
  BY <1>1, <1>3, <1>4
<1>7. \A n \in 1..Len(s) : s[n].a \in Int /\ s[n].a < i /\ \A m \in 1..Len(s) : n < m => s[n].a < s[m].a
  BY <1>1, <1>2
<1> HIDE DEF s, t, i, j
<1>8. \A n \in 1..Len(t) : t[n].a < j
  BY <1>5, <1>6, <1>7
<1>9. ASSUME NEW n \in 1..Len(t), NEW m \in 1..Len(t), n < m
      PROVE  t[n].a < t[m].a
  <2>1. n \in 1..Len(s) /\ t[n] = s[n]
    BY <1>5, <1>6, <1>9
  <2>2. CASE m \in 1..Len(s) /\ t[m] = s[m]
    BY <1>7, <1>9, <2>1, <2>2
  <2>3. CASE t[m].a = i
    BY <1>6, <1>7, <2>1, <2>3
  <2> QED BY <1>5, <2>2, <2>3
<1> QED BY <1>8, <1>9 DEF s, t, i, j

\* The places a step on the current action may lead to.
Placed(q) ==
  /\ At(q)' \in Tasks => K(q)' = "agent"
  /\ At(q)' = "installer" => K(q)' = "install"
  /\ At(q)' = "human" => K(q)' = "human"
  /\ At(q)' \in {"drift", "driftSkip"} => K(q)' = "drift"
  /\ At(q)' = "intUnlink" => K(q)' = "remove"
  /\ At(q)' = "verify" => K(q)' # "remove"
  /\ At(q)' = "reverify" => K(q)' \notin {"transfer", "install", "remove"}
  /\ At(q)' = "skip" => proc'[q].mode = "run"

\* A step on the current action keeps the invariant if it does so for that
\* action.
LEMMA WorksPreserves ==
  ASSUME TypeInv, NEW q \in Proc, RInv(q), Works(q), Placed(q), Reached(q),
         \A a \in Act : a = proc[q].i => JournalInv(q, a)' /\ SafeInv(a)' /\ PreimageInv(q, a)'
  PROVE  RInv(q)'
<1>1. RunInv(q)'
  BY WorksRun DEF RInv
<1>2. PlaceInv(q)'
  <2> HIDE DEF At
  <2> QED BY WorksStack DEF PlaceInv, Placed
<1>3. ASSUME NEW a \in Act
      PROVE  ActionInv(q, a)'
  <2>1. AheadInv(q, a)' /\ HoldsInv(q, a)' /\ ConvergedInv(a)'
    BY WorksAhead, WorksHolds
  <2>2. JournalInv(q, a)' /\ SafeInv(a)' /\ PreimageInv(q, a)'
    BY WorksJournal, WorksPreimage
  <2> HIDE DEF At
  <2> QED BY <2>1, <2>2 DEF ActionInv
<1> QED BY <1>1, <1>2, <1>3 DEF RInv

\* An invocation that has ended relies on nothing.
LEMMA LeavesPreserves ==
  ASSUME TypeInv, NEW q \in Proc, RInv(q), Leaves(q)
  PROVE  RInv(q)'
<1>1. At(q)' = "idle" /\ Fresh(q)' /\ proc'[q].mode = "run" /\ proc'[q].att = 1 /\ proc'[q].done = <<>>
  BY DEF Leaves, Idle, Fresh, Flagged
<1>2. UNCHANGED <<cur, plan, journal, base, edited>>
  BY DEF Leaves
<1>3. RunInv(q)'
  <2>1. \A r \in Run : r > cur' => snap'[r] = [a \in Act |-> "none"]
    BY <1>2 DEF Leaves, RInv, RunInv
  <2> HIDE DEF At
  <2> QED BY <1>1, <2>1 DEF RunInv, At
<1>4. PlaceInv(q)'
  BY <1>1 DEF PlaceInv, Tasks
<1>5. ASSUME NEW a \in Act
      PROVE  ActionInv(q, a)'
  <2>1. KindOf(a)' = KindOf(a)
    BY <1>2 DEF KindOf
  <2>2. JournalInv(q, a) /\ SafeInv(a) /\ ConvergedInv(a)
    BY DEF RInv, ActionInv
  <2>3. AheadInv(q, a)' /\ PreimageInv(q, a)' /\ HoldsInv(q, a)'
    BY <1>1 DEF AheadInv, Ahead, PreimageInv, HoldsInv, Forward
  <2>4. JournalInv(q, a)'
    <3>1. Open(cur)' => Open(cur)
      BY DEF Leaves
    <3> QED BY <1>1, <1>2, <2>2, <3>1 DEF JournalInv, Noting, Tasks
  <2>5. SafeInv(a)'
    <3> SUFFICES ASSUME Open(cur)', a \notin edited, KindOf(a) \in FileBacked
                 PROVE  /\ snap'[cur][a] \in {"none", base.file[a]}
                        /\ HasReference(journal[a]) => snap'[cur][a] = base.file[a]
                        /\ file'[a] # base.file[a] => HasReference(journal[a])
                        /\ Referring(journal[a])
      BY <1>2, <2>1 DEF SafeInv
    <3>1. Open(cur) /\ snap' = snap
      BY DEF Leaves
    <3>2. file'[a] = file[a] \/ file'[a] = base.file[a] \/ HasReference(journal[a])
      BY DEF Leaves
    <3> QED BY <2>2, <3>1, <3>2 DEF SafeInv
  <2>6. ConvergedInv(a)'
    <3> SUFFICES ASSUME cur > 0, status'[cur] = "Converged"
                 PROVE  Holds(a)' /\ (a \notin edited =>
                          /\ KindOf(a) \in Owning => applied'[a] = "new"
                          /\ KindOf(a) = "remove" => applied'[a] = "none")
      BY <1>2, <2>1 DEF ConvergedInv
    <3>1. status[cur] = "Converged" /\ UNCHANGED <<file, applied>>
      BY DEF Leaves
    <3> QED BY <1>2, <2>1, <2>2, <3>1 DEF ConvergedInv, Holds
  <2> HIDE DEF At
  <2> QED BY <2>2, <2>3, <2>4, <2>5, <2>6 DEF ActionInv
<1> QED BY <1>3, <1>4, <1>5 DEF RInv
----------------------------------------------------------------------------
(* Appending an event to a journal. *)

\* The journals of TypeInv.
LEMMA JournalType ==
  ASSUME TypeInv, NEW a \in Act
  PROVE  journal[a] \in Seq(Event)
  BY DEF TypeInv, DurableOK

\* An event whose attempt is at least every earlier one, behind events whose
\* attempts have not ended in it but for a success it undoes.
LEMMA AppendValid ==
  ASSUME NEW s \in Seq(Event), NEW e \in Event, Ordered(s), e.att >= 1, e.st # "pending",
         e.st = "succeeded" => e.method = "passed",
         \A k \in 1..Len(s) :
           /\ s[k].att <= e.att
           /\ s[k].st \in {"succeeded", "skipped"} =>
                \/ s[k].att < e.att
                \/ /\ k = Len(s) /\ s[k].st = "succeeded"
                   /\ e.st = "failed" /\ e.method = "run-rolled-back"
  PROVE  Ordered(Append(s, e))
<1> DEFINE t == Append(s, e)
           n == Len(s)
<1>1. /\ n \in Nat /\ Len(t) = n + 1 /\ t[n + 1] = e
      /\ \A k \in 1..n : t[k] = s[k]
  OBVIOUS
<1>2. n > 0 /\ s[1].st = "pending" /\ s[1].att = 0
  BY DEF Ordered, ValidJournal
<1>3. \A k \in 1..n : s[k].att \in Nat
  <2>1. \A k \in 1..n : s[k] \in Event
    OBVIOUS
  <2> QED BY <2>1 DEF Event
<1>4. e.att \in Nat
  BY DEF Event
<1> HIDE DEF t, n
<1>5. \A k \in 2..n : s[k].st # "pending" /\ s[k].att >= 1 /\ s[k].att >= s[k - 1].att
  BY DEF Ordered, ValidJournal, n
<1>6. \A k \in 2..n : s[k].st \in {"succeeded", "skipped"} =>
         \/ LaterInAttempt(s, k) = {}
         \/ /\ s[k].st = "succeeded" /\ LaterInAttempt(s, k) = {k + 1}
            /\ s[k + 1].st = "failed" /\ s[k + 1].method = "run-rolled-back"
  BY DEF Ordered, ValidJournal, n
<1>7. \A k \in 1..n :
         /\ s[k].att <= e.att
         /\ s[k].st \in {"succeeded", "skipped"} =>
              \/ s[k].att < e.att
              \/ k = n /\ s[k].st = "succeeded" /\ e.st = "failed" /\ e.method = "run-rolled-back"
  BY DEF n
<1>8. \A k \in 1..Len(t) : t[k].att <= t[Len(t)].att
  BY <1>1, <1>4, <1>7
<1>9. ASSUME NEW k \in 2..Len(t)
      PROVE  t[k].st # "pending" /\ t[k].att >= 1 /\ t[k].att >= t[k - 1].att
  <2>1. CASE k \in 2..n
    <3>1. k - 1 \in 1..n /\ k \in 1..n
      BY <1>1, <2>1
    <3> QED BY <1>1, <1>5, <2>1, <3>1
  <2>2. CASE k = n + 1
    <3>1. n \in 1..n /\ k - 1 = n
      BY <1>1, <1>2, <2>2
    <3>2. t[k - 1] = s[n] /\ t[k] = e
      BY <1>1, <2>2, <3>1
    <3> QED BY <1>7, <3>1, <3>2
  <2> QED BY <1>1, <2>1, <2>2
<1>10. ASSUME NEW k \in 2..Len(t), t[k].st \in {"succeeded", "skipped"}
       PROVE  \/ LaterInAttempt(t, k) = {}
              \/ /\ t[k].st = "succeeded" /\ LaterInAttempt(t, k) = {k + 1}
                 /\ t[k + 1].st = "failed" /\ t[k + 1].method = "run-rolled-back"
  <2>1. CASE k = n + 1
    BY <1>1, <2>1 DEF LaterInAttempt
  <2>2. CASE k \in 2..n
    <3>1. k \in 1..n /\ t[k] = s[k] /\ s[k].st \in {"succeeded", "skipped"}
      BY <1>1, <1>10, <2>2
    <3>2. CASE s[k].att < e.att
      <4>1. LaterInAttempt(t, k) = LaterInAttempt(s, k)
        <5>1. \A m \in (k + 1)..(n + 1) : m \in (k + 1)..n \/ m = n + 1
          BY <1>1, <3>1
        <5>2. \A m \in (k + 1)..n : m \in 1..n /\ m \in (k + 1)..(n + 1)
          BY <1>1, <3>1
        <5>3. t[n + 1].att # s[k].att
          BY <1>1, <1>3, <1>4, <3>1, <3>2
        <5> QED BY <1>1, <3>1, <5>1, <5>2, <5>3 DEF LaterInAttempt, n
      <4>2. CASE LaterInAttempt(s, k) = {}
        BY <4>1, <4>2
      <4>3. CASE /\ s[k].st = "succeeded" /\ LaterInAttempt(s, k) = {k + 1}
                 /\ s[k + 1].st = "failed" /\ s[k + 1].method = "run-rolled-back"
        <5>1. k + 1 \in 1..n
          BY <1>1, <3>1, <4>3 DEF LaterInAttempt, n
        <5> QED BY <1>1, <3>1, <4>1, <4>3, <5>1
      <4> QED BY <1>6, <2>2, <3>1, <4>2, <4>3
    <3>3. CASE ~(s[k].att < e.att)
      <4>1. k = n /\ s[n].st = "succeeded" /\ e.st = "failed" /\ e.method = "run-rolled-back"
        BY <1>7, <3>1, <3>3
      <4>2. s[n].att = e.att /\ t[n + 1] = e /\ t[n] = s[n]
        BY <1>1, <1>3, <1>4, <1>7, <3>1, <3>3, <4>1
      <4>3. LaterInAttempt(t, k) = {n + 1}
        BY <1>1, <4>1, <4>2 DEF LaterInAttempt
      <4> QED BY <4>1, <4>2, <4>3
    <3> QED BY <3>2, <3>3
  <2> QED BY <1>1, <2>1, <2>2
<1>11. Last(t) = e /\ Len(t) > 0 /\ t[1] = s[1]
  BY <1>1, <1>2 DEF Last
<1>12. ValidJournal(t)
  BY <1>2, <1>9, <1>10, <1>11 DEF ValidJournal
<1>13. \A k \in 1..Len(t) : t[k].att <= Last(t).att
  BY <1>8 DEF Last
<1>14. t[1] = PendingEvent
  BY <1>11 DEF Ordered
<1> QED BY <1>12, <1>13, <1>14 DEF Ordered, t

\* An event of the current attempt.
LEMMA AppendQuiet ==
  ASSUME NEW s \in Seq(Event), NEW e \in Event, Ordered(s), Quiet(s, e.att), e.att >= 1,
         e.st # "pending", e.st = "succeeded" => e.method = "passed"
  PROVE  /\ Ordered(Append(s, e))
         /\ e.st \notin {"succeeded", "skipped"} => Quiet(Append(s, e), e.att)
         /\ e.st # "skipped" => Undoable(Append(s, e), e.att)
<1>1. Ordered(Append(s, e))
  BY AppendValid DEF Quiet
<1> DEFINE t == Append(s, e)
           n == Len(s)
<1>2. /\ n \in Nat /\ Len(t) = n + 1 /\ t[n + 1] = e
      /\ \A k \in 1..n : t[k] = s[k]
  OBVIOUS
<1>3. e.att \in Nat /\ \A k \in 1..n : s[k].att <= e.att /\ (s[k].st \in {"succeeded", "skipped"} => s[k].att < e.att)
  BY DEF Event, Quiet
<1> HIDE DEF t, n
<1>4. \A k \in 1..Len(t) : k \in 1..n \/ k = n + 1
  BY <1>2
<1>5. e.st \notin {"succeeded", "skipped"} => Quiet(t, e.att)
  BY <1>2, <1>3, <1>4 DEF Quiet
<1>6. e.st # "skipped" => Undoable(t, e.att)
  BY <1>2, <1>3, <1>4 DEF Undoable
<1> QED BY <1>1, <1>5, <1>6 DEF t

\* The inverse of a completed action.
LEMMA AppendInverse ==
  ASSUME NEW s \in Seq(Event), NEW e \in Event, Ordered(s), Undoable(s, e.att), e.att >= 1,
         e.st = "failed", e.method = "run-rolled-back"
  PROVE  Ordered(Append(s, e))
<1>1. \A k \in 1..Len(s) :
         /\ s[k].att <= e.att
         /\ s[k].st \in {"succeeded", "skipped"} =>
              \/ s[k].att < e.att
              \/ /\ k = Len(s) /\ s[k].st = "succeeded"
                 /\ e.st = "failed" /\ e.method = "run-rolled-back"
  BY DEF Undoable
<1> QED BY <1>1, AppendValid

\* A journal whose last event is the pending one has no other.
LEMMA PendingOnly ==
  ASSUME NEW s \in Seq(Event), Ordered(s), Last(s).st = "pending"
  PROVE  ~HasReference(s)
<1>1. Len(s) \in Nat /\ Len(s) > 0 /\ s[1] = PendingEvent /\ \A k \in 2..Len(s) : s[k].st # "pending"
  BY DEF Ordered, ValidJournal
<1>2. Len(s) = 1
  <2>1. Len(s) \notin 2..Len(s)
    BY <1>1 DEF Last
  <2>2. Len(s) \in Nat /\ Len(s) > 0
    BY <1>1
  <2>3. \A n \in Nat : n > 0 /\ n \notin 2..n => n = 1
    OBVIOUS
  <2> QED BY <2>1, <2>2, <2>3
<1>3. \A k \in 1..Len(s) : k = 1
  BY <1>2
<1> QED BY <1>1, <1>3 DEF HasReference, PendingEvent, Ev

\* An attempt after every earlier one.
LEMMA NextIsQuiet ==
  ASSUME NEW s \in Seq(Event), Ordered(s)
  PROVE  Quiet(s, Last(s).att + 1) /\ Last(s).att + 1 >= 1 /\ Last(s) \in Event
<1>1. Len(s) > 0
  BY DEF Ordered, ValidJournal
<1>2. Last(s) \in Event
  BY <1>1 DEF Last
<1>3. Last(s).att \in Nat /\ \A k \in 1..Len(s) : s[k].att \in Nat
  <2>1. \A k \in 1..Len(s) : s[k] \in Event
    OBVIOUS
  <2> QED BY <1>2, <2>1 DEF Event
<1>4. \A k \in 1..Len(s) : s[k].att <= Last(s).att
  BY DEF Ordered
<1> QED BY <1>2, <1>3, <1>4 DEF Quiet

\* An action no event has ended can still be undone.
LEMMA QuietUndoable ==
  ASSUME NEW s, NEW att, Quiet(s, att)
  PROVE  Undoable(s, att)
  BY DEF Quiet, Undoable

\* The journal a run starts with.
LEMMA PendingOrdered ==
  /\ Ordered(<<PendingEvent>>) /\ Quiet(<<PendingEvent>>, 1)
  /\ Referring(<<PendingEvent>>) /\ ~HasReference(<<PendingEvent>>)
<1> DEFINE s == <<PendingEvent>>
<1>1. Len(s) = 1 /\ s[1] = PendingEvent /\ Last(s) = PendingEvent
  BY DEF Last
<1>2. PendingEvent.st = "pending" /\ PendingEvent.att = 0 /\ ~PendingEvent.ref
  BY DEF PendingEvent, Ev
<1> HIDE DEF s
<1>3. \A k \in 1..Len(s) : k = 1
  BY <1>1
<1>4. 2..Len(s) = {}
  BY <1>1
<1>5. Ordered(s)
  BY <1>1, <1>2, <1>3, <1>4 DEF Ordered, ValidJournal
<1>6. Quiet(s, 1)
  BY <1>1, <1>2, <1>3 DEF Quiet
<1>7. Referring(s) /\ ~HasReference(s)
  BY <1>1, <1>2, <1>3 DEF Referring, HasReference
<1> QED BY <1>5, <1>6, <1>7 DEF s

\* The references after an append.
LEMMA AppendReference ==
  ASSUME NEW s \in Seq(Event), NEW e
  PROVE  /\ HasReference(Append(s, e)) <=> HasReference(s) \/ e.ref
         /\ Referring(s) /\ (e.st = "succeeded" => e.ref) => Referring(Append(s, e))
<1> DEFINE t == Append(s, e)
           n == Len(s)
<1>1. /\ n \in Nat /\ Len(t) = n + 1 /\ t[n + 1] = e
      /\ \A k \in 1..n : t[k] = s[k]
  BY Appended
<1> HIDE DEF t, n
<1>2. \A k \in 1..Len(t) : k \in 1..n \/ k = n + 1
  BY <1>1
<1>3. (n + 1) \in 1..Len(t) /\ \A k \in 1..n : k \in 1..Len(t)
  BY <1>1
<1>4. HasReference(t) <=> HasReference(s) \/ e.ref
  BY <1>1, <1>2, <1>3 DEF HasReference, n
<1>5. Referring(s) /\ (e.st = "succeeded" => e.ref) => Referring(t)
  BY <1>1, <1>2 DEF Referring, n
<1> QED BY <1>4, <1>5 DEF t
----------------------------------------------------------------------------
(* What the updates of an invocation leave of its registers. *)

SameLoop(q) ==
  /\ proc'[q].run = proc[q].run /\ proc'[q].plan = proc[q].plan
  /\ proc'[q].mode = proc[q].mode /\ proc'[q].seen = proc[q].seen
  /\ proc'[q].att = proc[q].att /\ proc'[q].i = proc[q].i
  /\ proc'[q].done = proc[q].done /\ proc'[q].mem = proc[q].mem
SameFlags(q) ==
  proc'[q].fail = proc[q].fail /\ proc'[q].human = proc[q].human /\ proc'[q].drift = proc[q].drift
Moved(q, l) == At(q)' = l /\ SameLoop(q) /\ SameFlags(q) /\ proc'[q].prep = proc[q].prep
\* The loop goes on to the next action, with an inverse or without.
Passed(q, b) ==
  /\ At(q)' = "next" /\ Frame(q) /\ SameFlags(q) /\ proc'[q].i = proc[q].i + 1
  /\ proc'[q].prep = FALSE /\ proc'[q].mem = proc[q].mem
  /\ b => Stacked(q)
  /\ ~b => proc'[q].done = proc[q].done
Fell(q) ==
  /\ At(q)' \in {"cascade", "ownback"} /\ SameLoop(q) /\ proc'[q].fail = TRUE
  /\ proc'[q].prep = proc[q].prep
Halted(q) ==
  /\ At(q)' = IF proc[q].mode = "run" THEN "skip" ELSE "complete"
  /\ SameLoop(q) /\ Flagged(q)'

\* The process that is set is the one that changes.
LEMMA SetIs ==
  ASSUME TypeInv, NEW q \in Proc, NEW ps, Set(q, ps)
  PROVE  proc'[q] = ps /\ \A p \in Proc : p # q => proc'[p] = proc[p]
  BY DEF TypeInv, Set

\* A step that only moves the invocation on keeps its registers.
LEMMA GotoMoves ==
  ASSUME TypeInv, NEW q \in Proc, NEW l, Goto(q, l)
  PROVE  Moved(q, l)
<1>1. proc[q] \in Process /\ proc'[q] = [proc[q] EXCEPT !.pc = l]
  BY Registers, SetIs DEF Goto
<1> QED BY <1>1 DEF Process, Moved, SameLoop, SameFlags

\* The loop goes on, from registers ps with the loop of the invocation.
LEMMA VerifiedPasses ==
  ASSUME TypeInv, NEW q \in Proc, NEW b \in BOOLEAN, NEW ps \in Process, Set(q, Verified(ps, b)),
         ps.run = proc[q].run, ps.plan = proc[q].plan, ps.mode = proc[q].mode, ps.seen = proc[q].seen,
         ps.i = proc[q].i, ps.done = proc[q].done, ps.mem = proc[q].mem, proc[q].mode = "run" => ps.att = proc[q].att,
         ps.fail = proc[q].fail, ps.human = proc[q].human, ps.drift = proc[q].drift
  PROVE  Passed(q, b) /\ proc'[q].att = ps.att
<1> DEFINE prev == IF ps.own = "unset" THEN ps.inp[ps.i] ELSE ps.own
           d == IF b THEN Append(ps.done, [a |-> ps.i, att |-> ps.att, prev |-> prev]) ELSE ps.done
<1>1. proc'[q] = Verified(ps, b)
  BY SetIs
<1>2. proc'[q] = [ps EXCEPT !.pc = "next", !.i = ps.i + 1, !.own = "unset", !.prep = FALSE, !.done = d]
  BY <1>1 DEF Verified, Process
<1>3. /\ b => d = Append(proc[q].done, [a |-> proc[q].i, att |-> ps.att, prev |-> prev])
      /\ ~b => d = proc[q].done
  OBVIOUS
<1> HIDE DEF d, prev
<1>4. /\ At(q)' = "next" /\ proc'[q].i = ps.i + 1 /\ proc'[q].prep = FALSE /\ proc'[q].done = d
      /\ proc'[q].att = ps.att /\ proc'[q].run = ps.run /\ proc'[q].plan = ps.plan
      /\ proc'[q].mode = ps.mode /\ proc'[q].seen = ps.seen /\ proc'[q].mem = ps.mem
      /\ proc'[q].fail = ps.fail /\ proc'[q].human = ps.human /\ proc'[q].drift = ps.drift
  BY <1>2 DEF Process
<1>5. b => Stacked(q)
  BY <1>3, <1>4 DEF Stacked
<1> HIDE DEF At
<1> QED BY <1>3, <1>4, <1>5 DEF Passed, Frame, SameFlags

\* After a failed action the invocation rolls the run back.
LEMMA FailedActionFalls ==
  ASSUME TypeInv, NEW q \in Proc, Set(q, FailedAction(proc[q]))
  PROVE  Fell(q)
<1>1. proc[q] \in Process /\ proc'[q] = FailedAction(proc[q])
  BY Registers, SetIs
<1>2. PICK l \in {"ownback", "cascade"} : proc'[q] = [proc[q] EXCEPT !.fail = TRUE, !.pc = l]
  BY <1>1 DEF FailedAction
<1> QED BY <1>1, <1>2 DEF Process, Fell, SameLoop

\* After a human or drift outcome the invocation only closes the run.
LEMMA StoppedHalts ==
  ASSUME TypeInv, NEW q \in Proc,
         \/ Set(q, Stopped([proc[q] EXCEPT !.human = TRUE]))
         \/ Set(q, Stopped([proc[q] EXCEPT !.drift = TRUE]))
         \/ Set(q, Stopped(proc[q])) /\ proc[q].fail
  PROVE  Halted(q)
<1>1. proc[q] \in Process
  BY Registers
<1> DEFINE l == IF proc[q].mode = "run" THEN "skip" ELSE "complete"
<1>2. \/ proc'[q] = [[proc[q] EXCEPT !.human = TRUE] EXCEPT !.pc = l]
      \/ proc'[q] = [[proc[q] EXCEPT !.drift = TRUE] EXCEPT !.pc = l]
      \/ proc'[q] = [proc[q] EXCEPT !.pc = l] /\ proc[q].fail
  BY <1>1 DEF TypeInv, Set, Stopped, Process
<1> HIDE DEF l
<1>3. At(q)' = l /\ SameLoop(q) /\ Flagged(q)'
  BY <1>1, <1>2 DEF Process, SameLoop, Flagged
<1> QED BY <1>3 DEF Halted, l
----------------------------------------------------------------------------
(* The current action. *)

Backed(a) == Open(cur) /\ a \notin edited /\ KindOf(a) \in FileBacked

\* An invocation in a run works on the plan of that run.
LEMMA InRunIs ==
  ASSUME TypeInv, NEW q \in Proc, RInv(q), InRun(q)
  PROVE  /\ proc[q].run = cur /\ proc[q].plan = plan[cur]
         /\ \A a \in Act : proc[q].plan[a] = KindOf(a)
         /\ \A a \in Act : a = proc[q].i => K(q) = KindOf(a)
         /\ At(q) \notin Over => Open(cur)
         /\ cur \in Run
<1>1. proc[q].run \in Run
  BY Registers DEF LocalInv
<1> QED BY <1>1 DEF RInv, RunInv, K, KindOf

\* Moving within a run is a step on the current action.
LEMMA MovedWorks ==
  ASSUME TypeInv, NEW q \in Proc, RInv(q), SameLoop(q), InRun(q),
         At(q)' \notin Aside \cup {"next", "cleanup"},
         At(q) \in Behind \cup Rolling => At(q)' \in Behind \cup Rolling,
         At(q) \in Over => At(q)' \in Over /\ UNCHANGED <<file, applied>>,
         UNCHANGED <<cur, status, plan, history>>,
         \A a \in Act \ {proc[q].i} : Same(a),
         \A r \in Run : r # cur => snap'[r] = snap[r]
  PROVE  Works(q) /\ K(q)' = K(q) /\ ~Stacked(q)
<1>1. Frame(q) /\ UNCHANGED <<base, edited>>
  BY DEF SameLoop, Frame, history
<1>2. ~Stacked(q)
  <2>1. ASSUME NEW prev, proc'[q].done = Append(proc[q].done, [a |-> proc[q].i, att |-> proc'[q].att, prev |-> prev])
        PROVE  FALSE
    <3>1. proc[q].done \in Seq(Done) /\ proc'[q].done = proc[q].done
      BY Registers DEF SameLoop
    <3>2. Len(proc'[q].done) = Len(proc[q].done) + 1 /\ Len(proc[q].done) \in Nat
      BY <2>1, <3>1, Appended
    <3> QED BY <3>1, <3>2
  <2> QED BY <2>1 DEF Stacked
<1>3. K(q)' = K(q)
  BY DEF K, SameLoop
<1>4. \A a \in Act : proc'[q].mem[a] = proc[q].mem[a]
  BY DEF SameLoop
<1> QED BY <1>1, <1>2, <1>3, <1>4 DEF Works, SameLoop

\* Passing an action is a step on it.
LEMMA PassedWorks ==
  ASSUME TypeInv, NEW q \in Proc, RInv(q), NEW b \in BOOLEAN, Passed(q, b), InRun(q),
         At(q) \notin Behind \cup Rolling,
         UNCHANGED <<cur, status, plan, history>>,
         \A a \in Act \ {proc[q].i} : Same(a),
         \A r \in Run : r # cur => snap'[r] = snap[r]
  PROVE  Works(q) /\ Placed(q)
<1>1. UNCHANGED <<base, edited>>
  BY DEF history
<1>2. Placed(q)
  BY DEF Passed, Placed, Tasks
<1> QED BY <1>1, <1>2 DEF Works, Passed

\* What the journal of the current action must take.
LEMMA JournalAt ==
  ASSUME TypeInv, NEW q \in Proc, RInv(q), Works(q), NEW a \in Act, a = proc[q].i,
         Open(cur) =>
           /\ Ordered(journal'[a])
           /\ At(q)' \in Noting => Quiet(journal'[a], proc'[q].att) /\ proc'[q].att >= 1
           /\ Stacked(q) => Undoable(journal'[a], proc'[q].att) /\ proc'[q].att >= 1
  PROVE  JournalInv(q, a)'
<1>1. Open(cur)' <=> Open(cur)
  BY DEF Works, Open
<1>2. \A n \in 1..Len(proc[q].done) : proc[q].done[n].a # a
  <2>1. \A n \in 1..Len(proc[q].done) : proc[q].done[n].a < proc[q].i
    BY DEF RInv, PlaceInv
  <2>2. proc[q].i \in Int
    BY Registers
  <2> QED BY <2>1, <2>2
<1>3. ASSUME NEW n \in 1..Len(proc'[q].done), proc'[q].done[n].a = a
      PROVE  Stacked(q) /\ proc'[q].done[n].att = proc'[q].att
  BY <1>2, <1>3, StackAfter
<1> HIDE DEF At, InRun
<1> QED BY <1>1, <1>3 DEF JournalInv

\* Nothing is journaled.
LEMMA KeptJournal ==
  ASSUME TypeInv, NEW q \in Proc, RInv(q), Works(q), NEW a \in Act, a = proc[q].i,
         journal'[a] = journal[a], 
         At(q)' \in Noting \/ Stacked(q) => At(q) \in Noting /\ proc'[q].att = proc[q].att
  PROVE  JournalInv(q, a)'
<1>1. JournalInv(q, a)
  BY DEF RInv, ActionInv
<1>2. Open(cur) => Ordered(journal[a]) /\ (At(q) \in Noting => Quiet(journal[a], proc[q].att) /\ proc[q].att >= 1)
  BY <1>1 DEF JournalInv
<1>3. Open(cur) =>
           /\ Ordered(journal'[a])
           /\ At(q)' \in Noting => Quiet(journal'[a], proc'[q].att) /\ proc'[q].att >= 1
           /\ Stacked(q) => Undoable(journal'[a], proc'[q].att) /\ proc'[q].att >= 1
  BY <1>2, QuietUndoable
<1> HIDE DEF At
<1> QED BY <1>3, JournalAt

\* An event of the current attempt is journaled.
LEMMA EnteredJournal ==
  ASSUME TypeInv, NEW q \in Proc, RInv(q), Works(q), NEW a \in Act, a = proc[q].i,
         NEW e \in Event, journal'[a] = Append(journal[a], e),
         At(q) \in Noting, e.att = proc[q].att, proc'[q].att = proc[q].att,
         e.st # "pending", e.st = "succeeded" => e.method = "passed",
         At(q)' \in Noting => e.st \notin {"succeeded", "skipped"},
         Stacked(q) => e.st # "skipped"
  PROVE  JournalInv(q, a)'
<1>1. JournalInv(q, a) /\ journal[a] \in Seq(Event)
  BY JournalType DEF RInv, ActionInv
<1>2. Open(cur) => Ordered(journal[a]) /\ Quiet(journal[a], e.att) /\ e.att >= 1
  BY <1>1 DEF JournalInv
<1>3. Open(cur) => /\ Ordered(journal'[a])
                   /\ e.st \notin {"succeeded", "skipped"} => Quiet(journal'[a], e.att)
                   /\ e.st # "skipped" => Undoable(journal'[a], e.att)
  BY <1>1, <1>2, AppendQuiet
<1> HIDE DEF At
<1> QED BY <1>2, <1>3, JournalAt

\* What is known of a managed file of the current action.
LEMMA Backing ==
  ASSUME TypeInv, NEW q \in Proc, RInv(q), InRun(q), NEW a \in Act, Backed(a)
  PROVE  /\ snap[cur][a] \in {"none", base.file[a]}
         /\ HasReference(journal[a]) => snap[cur][a] = base.file[a]
         /\ file[a] # base.file[a] => HasReference(journal[a])
         /\ Referring(journal[a])
         /\ proc[q].mem[a] \in {"none", snap[cur][a]}
         /\ \A n \in 1..Len(proc[q].done) : proc[q].done[n].a = a => snap[cur][a] = base.file[a]
         /\ At(q) \notin Behind /\ proc[q].i = a =>
              /\ proc[q].prep => snap[cur][a] = base.file[a]
              /\ At(q) = "prepare" => file[a] = base.file[a]
              /\ At(q) = "running" => proc[q].prep
              /\ At(q) \in {"execute", "verify", "succeed", "intUnlink"} =>
                   proc[q].prep /\ HasReference(journal[a])
              /\ At(q) = "reverify" => snap[cur][a] = base.file[a]
         /\ base.file[a] \in Content
<1>1. SafeInv(a) /\ PreimageInv(q, a)
  BY DEF RInv, ActionInv
<1>2. base.file[a] \in Content
  BY DEF TypeInv, DurableOK
<1> QED BY <1>1, <1>2 DEF SafeInv, PreimageInv, Backed

\* What the snapshot of the current action must be.
LEMMA SafeAt ==
  ASSUME TypeInv, NEW q \in Proc, RInv(q), Works(q), NEW a \in Act,
         Backed(a) =>
           /\ snap'[cur][a] \in {"none", base.file[a]}
           /\ HasReference(journal'[a]) => snap'[cur][a] = base.file[a]
           /\ file'[a] # base.file[a] => HasReference(journal'[a])
           /\ Referring(journal'[a])
  PROVE  SafeInv(a)'
<1>1. (Open(cur)' <=> Open(cur)) /\ KindOf(a)' = KindOf(a) /\ UNCHANGED <<cur, base, edited>>
  BY DEF Works, Open, KindOf
<1> QED BY <1>1 DEF SafeInv, Backed

\* An event that names a snapshot only if the invocation took it.
LEMMA EnteredSafe ==
  ASSUME TypeInv, NEW q \in Proc, RInv(q), Works(q), NEW a \in Act, a = proc[q].i,
         NEW e, journal'[a] = Append(journal[a], e), At(q) \notin Behind,
         UNCHANGED fs, Backed(a) /\ e.ref => proc[q].prep, Backed(a) /\ e.st = "succeeded" => e.ref
  PROVE  SafeInv(a)' /\ (HasReference(journal'[a]) <=> HasReference(journal[a]) \/ e.ref)
<1>1. UNCHANGED <<file, snap>> /\ journal[a] \in Seq(Event) /\ InRun(q)
  BY JournalType DEF fs, Works
<1>2. /\ HasReference(journal'[a]) <=> HasReference(journal[a]) \/ e.ref
      /\ Referring(journal[a]) /\ (e.st = "succeeded" => e.ref) => Referring(journal'[a])
  BY <1>1, AppendReference
<1>3. Backed(a) =>
           /\ snap'[cur][a] \in {"none", base.file[a]}
           /\ HasReference(journal'[a]) => snap'[cur][a] = base.file[a]
           /\ file'[a] # base.file[a] => HasReference(journal'[a])
           /\ Referring(journal'[a])
  BY <1>1, <1>2, Backing
<1> QED BY <1>2, <1>3, SafeAt

\* What the invocation must know of the current action.
LEMMA PreimageAt ==
  ASSUME TypeInv, NEW q \in Proc, RInv(q), Works(q), NEW a \in Act, a = proc[q].i,
         Backed(a) =>
           /\ proc'[q].mem[a] \in {"none", snap'[cur][a]}
           /\ Stacked(q) => snap'[cur][a] = base.file[a]
           /\ At(q)' \notin Behind \cup {"next"} =>
                /\ proc'[q].prep => snap'[cur][a] = base.file[a]
                /\ At(q)' = "prepare" => file'[a] = base.file[a]
                /\ At(q)' = "running" => proc'[q].prep
                /\ At(q)' \in {"execute", "verify", "succeed", "intUnlink"} =>
                     proc'[q].prep /\ HasReference(journal'[a])
                /\ At(q)' = "reverify" => snap'[cur][a] = base.file[a]
  PROVE  PreimageInv(q, a)'
<1>1. (Open(cur)' <=> Open(cur)) /\ KindOf(a)' = KindOf(a) /\ UNCHANGED <<cur, base, edited>>
  BY DEF Works, Open, KindOf
<1>2. \A n \in 1..Len(proc[q].done) : proc[q].done[n].a # a
  <2>1. \A n \in 1..Len(proc[q].done) : proc[q].done[n].a < proc[q].i
    BY DEF RInv, PlaceInv
  <2>2. proc[q].i \in Int
    BY Registers
  <2> QED BY <2>1, <2>2
<1>3. \A n \in 1..Len(proc'[q].done) : proc'[q].done[n].a = a => Stacked(q)
  BY <1>2, StackAfter
<1>4. proc'[q].i = a => At(q)' # "next"
  <2>1. proc[q].i \in Int
    BY Registers
  <2> QED BY <2>1 DEF Works
<1>5. SUFFICES ASSUME Backed(a)
      PROVE  /\ proc'[q].mem[a] \in {"none", snap'[cur][a]}
             /\ \A n \in 1..Len(proc'[q].done) : proc'[q].done[n].a = a => snap'[cur][a] = base.file[a]
             /\ At(q)' \notin Behind /\ proc'[q].i = a =>
                /\ proc'[q].prep => snap'[cur][a] = base.file[a]
                /\ At(q)' = "prepare" => file'[a] = base.file[a]
                /\ At(q)' = "running" => proc'[q].prep
                /\ At(q)' \in {"execute", "verify", "succeed", "intUnlink"} =>
                     proc'[q].prep /\ HasReference(journal'[a])
                /\ At(q)' = "reverify" => snap'[cur][a] = base.file[a]
  BY <1>1 DEF PreimageInv, Backed
<1> HIDE DEF At
<1> QED BY <1>3, <1>4, <1>5 DEF At
----------------------------------------------------------------------------
(* Steps that leave the files alone. *)

\* What the place an invocation comes to relies on.
Needs(q) == \A a \in Act : a = proc[q].i /\ Backed(a) =>
  /\ At(q)' = "prepare" => file'[a] = base.file[a]
  /\ At(q)' = "running" => proc'[q].prep
  /\ At(q)' \in {"execute", "verify", "succeed", "intUnlink"} =>
       proc'[q].prep /\ HasReference(journal'[a])
  /\ At(q)' = "reverify" => snap'[cur][a] = base.file[a]

Arrives(q) == Placed(q) /\ Reached(q) /\ Needs(q)

\* Places nothing relies on.
LEMMA PlainPlace ==
  ASSUME NEW q \in Proc,
         At(q)' \in {"undo", "undoVerify", "failVerify", "fail", "restore",
                     "intUndo", "intFail", "intComplete"}
  PROVE  Arrives(q) /\ At(q)' \notin Aside \cup {"next", "cleanup"}
  BY DEF Arrives, Placed, Reached, Needs, Tasks

\* The second place of a drift conflict.
LEMMA DriftPlace ==
  ASSUME NEW q \in Proc, At(q)' = "driftSkip", K(q)' = "drift"
  PROVE  Arrives(q) /\ At(q)' \notin Aside \cup {"next", "cleanup"}
  BY DEF Arrives, Placed, Reached, Needs, Tasks

\* The places of an agent task.
LEMMA TaskPlace ==
  ASSUME NEW q \in Proc, At(q)' \in Tasks, At(q)' # "agentSucceed", K(q) = "agent", K(q)' = K(q)
  PROVE  Arrives(q) /\ At(q)' \notin Aside \cup {"next", "cleanup"} \cup Behind \cup Rolling
  BY DEF Arrives, Placed, Reached, Needs, Tasks

\* Where a failed action leads.
LEMMA FellPlace ==
  ASSUME NEW q \in Proc, Fell(q)
  PROVE  Arrives(q) /\ SameLoop(q) /\ At(q)' \notin Aside \cup {"next", "cleanup"} /\ At(q)' \in Rolling
         /\ proc'[q].prep = proc[q].prep
<1>1. At(q)' \in {"cascade", "ownback"} /\ SameLoop(q) /\ proc'[q].fail /\ proc'[q].prep = proc[q].prep
  BY DEF Fell
<1> QED BY <1>1 DEF Arrives, Placed, Reached, Needs, Tasks

\* Where a human or drift outcome leads.
LEMMA HaltedPlace ==
  ASSUME TypeInv, NEW q \in Proc, Halted(q)
  PROVE  /\ Arrives(q) /\ SameLoop(q) /\ At(q)' \notin Aside \cup {"next", "cleanup"}
         /\ At(q)' \in {"skip", "complete"} /\ At(q)' \notin Noting
<1>1. At(q)' = IF proc[q].mode = "run" THEN "skip" ELSE "complete"
  BY DEF Halted
<1>2. SameLoop(q) /\ Flagged(q)' /\ proc'[q].mode = proc[q].mode
  BY DEF Halted, SameLoop
<1>3. CASE proc[q].mode = "run"
  BY <1>1, <1>2, <1>3 DEF Arrives, Placed, Reached, Needs, Tasks, Noting
<1>4. CASE proc[q].mode # "run"
  BY <1>1, <1>2, <1>4 DEF Arrives, Placed, Reached, Needs, Tasks, Noting
<1> QED BY <1>3, <1>4

\* The invocation arrives at another place of its action.
LEMMA ArrivesPreserves ==
  ASSUME TypeInv, NEW q \in Proc, RInv(q), Works(q), ~Stacked(q), Arrives(q), SameLoop(q),
         At(q)' \notin Behind => At(q) \notin Behind /\ (proc'[q].prep => proc[q].prep),
         UNCHANGED fs,
         \A a \in Act : a = proc[q].i => JournalInv(q, a)' /\ SafeInv(a)'
  PROVE  RInv(q)'
<1>1. ASSUME NEW a \in Act, a = proc[q].i
      PROVE  PreimageInv(q, a)'
  <2> SUFFICES ASSUME Backed(a)
      PROVE  /\ proc'[q].mem[a] \in {"none", snap'[cur][a]}
             /\ At(q)' \notin Behind \cup {"next"} =>
                /\ proc'[q].prep => snap'[cur][a] = base.file[a]
                /\ At(q)' = "prepare" => file'[a] = base.file[a]
                /\ At(q)' = "running" => proc'[q].prep
                /\ At(q)' \in {"execute", "verify", "succeed", "intUnlink"} =>
                     proc'[q].prep /\ HasReference(journal'[a])
                /\ At(q)' = "reverify" => snap'[cur][a] = base.file[a]
    <3> HIDE DEF At
    <3> QED BY <1>1, PreimageAt
  <2>1. /\ proc[q].mem[a] \in {"none", snap[cur][a]}
        /\ At(q) \notin Behind => (proc[q].prep => snap[cur][a] = base.file[a])
    BY <1>1, Backing DEF Works
  <2>2. UNCHANGED snap /\ proc'[q].mem = proc[q].mem
    BY DEF fs, SameLoop
  <2> QED BY <1>1, <2>1, <2>2 DEF Arrives, Needs
<1>2. Placed(q) /\ Reached(q)
  BY DEF Arrives
<1> QED BY <1>1, <1>2, WorksPreserves

\* Nothing recovery depends on changes.
LEMMA KeptPreserves ==
  ASSUME TypeInv, NEW q \in Proc, RInv(q), SameLoop(q), InRun(q), Arrives(q),
         At(q)' \notin Aside \cup {"next", "cleanup"},
         At(q) \in Behind \cup Rolling => At(q)' \in Behind \cup Rolling,
         At(q) \in Over => At(q)' \in Over,
         At(q)' \in Noting => At(q) \in Noting,
         At(q)' \notin Behind => (proc'[q].prep => proc[q].prep) /\ At(q) \notin Behind,
         UNCHANGED <<cur, status, plan, journal, applied, fs, history>>
  PROVE  RInv(q)'
<1>1. UNCHANGED <<cur, status, plan, journal, applied, file, snap, history>>
  BY DEF fs
<1>2. Works(q) /\ K(q)' = K(q) /\ ~Stacked(q)
  <2> HIDE DEF At, InRun
  <2>1. \A a \in Act : Same(a)
    BY <1>1 DEF Same
  <2> QED BY <1>1, <2>1, MovedWorks
<1>3. \A a \in Act : a = proc[q].i => JournalInv(q, a)'
  BY <1>1, <1>2, KeptJournal DEF SameLoop
<1>4. \A a \in Act : SafeInv(a)'
  BY <1>1 DEF RInv, ActionInv, SafeInv, Open, KindOf, history
<1> QED BY <1>2, <1>3, <1>4, ArrivesPreserves

\* Nothing durable changes.
LEMMA MovedPreserves ==
  ASSUME TypeInv, NEW q \in Proc, RInv(q), SameLoop(q), InRun(q), Arrives(q),
         At(q)' \notin Aside \cup {"next", "cleanup"},
         At(q) \in Behind \cup Rolling => At(q)' \in Behind \cup Rolling,
         At(q) \in Over => At(q)' \in Over,
         At(q)' \in Noting => At(q) \in Noting,
         At(q)' \notin Behind => (proc'[q].prep => proc[q].prep) /\ At(q) \notin Behind,
         UNCHANGED <<db, fs, history>>
  PROVE  RInv(q)'
<1> HIDE DEF At, InRun
<1>1. UNCHANGED <<cur, status, plan, journal, applied, fs, history>>
  BY DEF db
<1> QED BY <1>1, KeptPreserves

\* The events that may be journaled of the current action.
Enters(q, e) ==
  /\ e \in Event /\ e.att = proc[q].att /\ e.st # "pending"
  /\ e.st = "succeeded" => e.method = "passed"
  /\ \A a \in Act : a = proc[q].i => journal'[a] = Append(journal[a], e)
  /\ \A a \in Act \ {proc[q].i} : journal'[a] = journal[a]
  /\ UNCHANGED <<cur, status, plan>>

\* An event is journaled.
LEMMA EnteredPreserves ==
  ASSUME TypeInv, NEW q \in Proc, RInv(q), SameLoop(q), InRun(q), Arrives(q), At(q) \in Noting,
         At(q)' \notin Aside \cup {"next", "cleanup"},
         At(q) \in Rolling => At(q)' \in Behind \cup Rolling,
         At(q)' \notin Behind => (proc'[q].prep => proc[q].prep),
         NEW e, Enters(q, e), 
         At(q)' \in Noting => e.st \notin {"succeeded", "skipped"},
         K(q) \in FileBacked => (e.ref => proc[q].prep) /\ (e.st = "succeeded" => e.ref),
         UNCHANGED <<fs, history>>
  PROVE  RInv(q)'
<1>0. At(q) \notin Behind
  BY DEF Noting, Tasks
<1>1. UNCHANGED <<cur, status, plan, file, snap, history>>
  BY DEF fs, Enters
<1>2. Works(q) /\ K(q)' = K(q) /\ ~Stacked(q)
  <2>1. \A a \in Act \ {proc[q].i} : Same(a)
    BY <1>1 DEF Same, Enters
  <2>2. At(q) \notin Over
    BY <1>0
  <2> HIDE DEF At, InRun
  <2> QED BY <1>0, <1>1, <2>1, <2>2, MovedWorks
<1>3. ASSUME NEW a \in Act, a = proc[q].i
      PROVE  JournalInv(q, a)' /\ SafeInv(a)'
  <2>1. e \in Event /\ journal'[a] = Append(journal[a], e) /\ proc'[q].att = proc[q].att
        /\ e.att = proc[q].att /\ e.st # "pending" /\ (e.st = "succeeded" => e.method = "passed")
    BY <1>3 DEF Enters, SameLoop
  <2>2. JournalInv(q, a)'
    BY <1>2, <1>3, <2>1, EnteredJournal
  <2>3. Backed(a) => K(q) \in FileBacked
    BY <1>3, InRunIs DEF Backed
  <2>4. SafeInv(a)'
    BY <1>0, <1>1, <1>2, <1>3, <2>1, <2>3, EnteredSafe DEF fs
  <2> QED BY <2>2, <2>4
<1> QED BY <1>0, <1>1, <1>2, <1>3, ArrivesPreserves DEF fs

\* journalAction commits an event about the current action.
LEMMA NoteEnters ==
  ASSUME TypeInv, NEW q \in Proc, Busy(proc[q]), NEW st \in EventState, NEW ref \in BOOLEAN,
         NEW method \in Method, Note(q, st, ref, method), st # "pending", st = "succeeded" => method = "passed"
  PROVE  \E e : Enters(q, e) /\ e.st = st /\ e.ref = ref
<1> DEFINE e == Ev(st, proc[q].att, ref, "none", method)
<1>1. proc[q].att \in Nat /\ proc[q].i \in Act /\ "none" \in Record
  BY DEF Busy, Good, Process, Record
<1>2. e \in Event /\ e.st = st /\ e.ref = ref /\ e.att = proc[q].att /\ e.method = method
  BY <1>1, EvType DEF Ev
<1>3. journal' = [journal EXCEPT ![proc[q].i] = Append(@, e)] /\ UNCHANGED <<cur, status, plan>>
  BY DEF Note, JournalAction
<1> HIDE DEF e
<1>4. Enters(q, e)
  BY <1>1, <1>2, <1>3 DEF Enters, TypeInv, DurableOK
<1> QED BY <1>2, <1>4

\* A transaction that fails changes nothing.
LEMMA FailsKeeps ==
  ASSUME NEW q, TransactionFails(q)
  PROVE  UNCHANGED db
  BY DEF TransactionFails

\* journalAction about the current action commits or fails.
LEMMA NotePreserves ==
  ASSUME TypeInv, NEW q \in Proc, RInv(q), SameLoop(q), Arrives(q), At(q) \in Noting,
         At(q)' \notin Aside \cup {"next", "cleanup"},
         At(q) \in Rolling => At(q)' \in Behind \cup Rolling,
         At(q)' \notin Behind => (proc'[q].prep => proc[q].prep),
         NEW st \in EventState, NEW ref \in BOOLEAN, NEW m \in Method, st # "pending",
         Note(q, st, ref, m) \/ TransactionFails(q),
         st = "succeeded" => m = "passed",
         At(q)' \in Noting => st \notin {"succeeded", "skipped"},
         K(q) \in FileBacked => (ref => proc[q].prep) /\ (st = "succeeded" => ref),
         UNCHANGED <<fs, history>>
  PROVE  RInv(q)'
<1>1. InRun(q) /\ At(q) \notin Behind
  BY DEF Noting, Tasks
<1>2. CASE Note(q, st, ref, m)
  <2>1. Busy(proc[q])
    BY <1>1, AtWork DEF Noting, Tasks
  <2>2. PICK e : Enters(q, e) /\ e.st = st /\ e.ref = ref
    BY <1>2, <2>1, NoteEnters
  <2> HIDE DEF At, InRun
  <2> QED BY <1>1, <2>2, EnteredPreserves
<1>3. CASE TransactionFails(q)
  <2>1. UNCHANGED <<db, fs, history>>
    BY <1>3, FailsKeeps
  <2>2. At(q) \notin Over
    BY <1>1
  <2> HIDE DEF At, InRun
  <2> QED BY <1>1, <2>1, <2>2, MovedPreserves
<1> QED BY <1>2, <1>3
\* The loop passes the current action, which holds.
LEMMA PassedPreserves ==
  ASSUME TypeInv, NEW q \in Proc, RInv(q), NEW b \in BOOLEAN, Passed(q, b), InRun(q),
         At(q) \notin Behind \cup Rolling,
         UNCHANGED <<cur, status, plan, fs, history>>,
         \A a \in Act \ {proc[q].i} : journal'[a] = journal[a],
         \A a \in Act : a = proc[q].i =>
           /\ Holds(a) /\ SafeInv(a)'
           /\ Backed(a) /\ b => snap[cur][a] = base.file[a]
           /\ Ordered(journal'[a])
           /\ b => Undoable(journal'[a], proc'[q].att) /\ proc'[q].att >= 1
  PROVE  RInv(q)'
<1>1. UNCHANGED <<cur, status, plan, file, snap, base, edited>>
  BY DEF fs, history
<1>2. \A a \in Act \ {proc[q].i} : Same(a)
  BY <1>1 DEF Same
<1>3. Works(q) /\ Placed(q)
  BY <1>1, <1>2, PassedWorks
<1>4. Stacked(q) => b
  <2>1. ASSUME ~b, NEW prev, proc'[q].done = Append(proc[q].done, [a |-> proc[q].i, att |-> proc'[q].att, prev |-> prev])
        PROVE  FALSE
    <3>1. proc[q].done \in Seq(Done) /\ proc'[q].done = proc[q].done
      BY <2>1, Registers DEF Passed
    <3>2. Len(proc'[q].done) = Len(proc[q].done) + 1 /\ Len(proc[q].done) \in Nat
      BY <2>1, <3>1, Appended
    <3> QED BY <3>1, <3>2
  <2> QED BY <2>1 DEF Stacked
<1>5. At(q)' = "next" /\ proc'[q].mem = proc[q].mem
  BY DEF Passed
<1>6. Reached(q)
  <2>1. \A a \in Act : Holds(a) => Holds(a)'
    BY <1>1 DEF Holds, KindOf
  <2> QED BY <1>5, <2>1 DEF Reached
<1>7. ASSUME NEW a \in Act, a = proc[q].i
      PROVE  JournalInv(q, a)' /\ PreimageInv(q, a)' /\ SafeInv(a)'
  <2>1. JournalInv(q, a)'
    BY <1>3, <1>4, <1>5, <1>7, JournalAt DEF Noting, Tasks
  <2>2. PreimageInv(q, a)'
    BY <1>1, <1>3, <1>4, <1>5, <1>7, Backing, PreimageAt
  <2> QED BY <1>7, <2>1, <2>2
<1> QED BY <1>3, <1>6, <1>7, WorksPreserves

----------------------------------------------------------------------------
(* The steps of a run. *)

\* What the loop finds of the action it comes to.
LEMMA NextFinds ==
  ASSUME TypeInv, NEW q \in Proc, RInv(q), At(q) = "next", NEW a \in Act, a = proc[q].i
  PROVE  /\ proc[q].mode = "run" =>
              /\ proc[q].att = 1 /\ journal[a] = <<PendingEvent>> 
              /\ a \notin edited => file[a] = base.file[a]
         /\ proc[q].mode = "recover" =>
              proc[q].seen[a] = [last |-> Last(journal[a]), ref |-> HasReference(journal[a])]
         /\ Open(cur) /\ Ordered(journal[a])
<1>1. Open(cur)
  BY DEF RInv, RunInv
<1>2. proc[q].mode = "run" => proc[q].att = 1
  BY DEF RInv, RunInv
<1>3. Ahead(q, a)
  BY DEF Ahead
<1>4. AheadInv(q, a) /\ JournalInv(q, a)
  BY DEF RInv, ActionInv
<1> QED BY <1>1, <1>2, <1>3, <1>4 DEF AheadInv, JournalInv

\* Every action has been passed.
LEMMA LoopDone ==
  ASSUME TypeInv, NEW q \in Proc, RInv(q), At(q) = "next", proc[q].i > N, NEW a \in Act
  PROVE  Holds(a)
<1>1. a < proc[q].i
  BY Registers, ConstantsAssumption DEF Act
<1>2. Forward(q)
  BY DEF Forward
<1> QED BY <1>1, <1>2 DEF RInv, ActionInv, HoldsInv

\* The places an action is entered at.
LEMMA EntryPlace ==
  ASSUME NEW q \in Proc, At(q)' = Entry(K(q)), K(q)' = K(q), 
         \A a \in Act : a = proc[q].i /\ Backed(a) => file'[a] = base.file[a]
  PROVE  /\ Arrives(q) /\ At(q)' \in Noting
         /\ At(q)' \notin Aside \cup {"next", "cleanup"} \cup Behind \cup Rolling
<1>1. /\ At(q)' \in {"human", "drift", "agent", "prepare"}
      /\ At(q)' # "prepare" => K(q) = At(q)'
  BY DEF Entry
<1> HIDE DEF At
<1> QED BY <1>1 DEF Arrives, Placed, Reached, Needs, Tasks, Noting

\* The loop of a new run takes the next action, or all of them hold.
LEMMA RunNextKeeps ==
  ASSUME TypeInv, NEW q \in Proc, RInv(q), RunNext(q)
  PROVE  RInv(q)'
<1>1. At(q) = "next" /\ proc[q].mode = "run" /\ UNCHANGED <<db, fs, history>>
  BY DEF RunNext
<1>2. UNCHANGED <<cur, status, plan, journal, applied, file, snap, history, base, edited>> 
  BY <1>1 DEF db, fs, history
<1>3. \A a \in Act : Same(a) /\ SafeInv(a)'
  <2>1. \A a \in Act : SafeInv(a)
    BY DEF RInv, ActionInv
  <2> QED BY <1>2, <2>1 DEF Same, SafeInv, Open, KindOf
<1>4. CASE proc[q].i <= N
  <2>1. Moved(q, Entry(K(q)))
    BY <1>4, GotoMoves DEF RunNext
  <2>2. SameLoop(q) /\ At(q)' = Entry(K(q)) /\ proc'[q].prep = proc[q].prep /\ K(q)' = K(q)
    BY <2>1 DEF Moved, SameLoop, K
  <2>3. \A a \in Act : a = proc[q].i /\ Backed(a) => file'[a] = base.file[a]
    BY <1>1, <1>2, NextFinds DEF Backed
  <2>4. /\ Arrives(q) /\ At(q)' \in Noting
        /\ At(q)' \notin Aside \cup {"next", "cleanup"} \cup Behind \cup Rolling
    BY <2>2, <2>3, EntryPlace
  <2>5. Works(q) /\ ~Stacked(q)
    BY <1>1, <1>2, <1>3, <2>2, <2>4, MovedWorks
  <2>6. ASSUME NEW a \in Act, a = proc[q].i
        PROVE  JournalInv(q, a)'
    <3>1. journal'[a] = <<PendingEvent>> /\ proc'[q].att = 1
      BY <1>1, <1>2, <2>2, <2>6, NextFinds DEF SameLoop
    <3> QED BY <2>5, <2>6, <3>1, PendingOrdered, JournalAt
  <2> QED BY <1>1, <1>2, <1>3, <2>2, <2>4, <2>5, <2>6, ArrivesPreserves DEF fs
<1>5. CASE ~(proc[q].i <= N)
  <2>1. Moved(q, "complete")
    BY <1>5, GotoMoves DEF RunNext
  <2>2. SameLoop(q) /\ At(q)' = "complete"
    BY <2>1 DEF Moved
  <2>3. \A a \in Act : Holds(a)'
    <3>1. proc[q].i > N
      BY <1>5, Registers, ConstantsAssumption
    <3>2. \A a \in Act : Holds(a)
      BY <1>1, <3>1, LoopDone
    <3> QED BY <1>2, <3>2 DEF Holds, KindOf
  <2>4. Arrives(q)
    BY <2>2, <2>3 DEF Arrives, Placed, Reached, Needs, Tasks
  <2> QED BY <1>1, <2>2, <2>4, MovedPreserves DEF Noting, Tasks
<1> QED BY <1>4, <1>5

\* The snapshot is what the run found.
LEMMA PrepareKeeps ==
  ASSUME TypeInv, NEW q \in Proc, RInv(q), Prepare(q)
  PROVE  RInv(q)'
<1> DEFINE i == proc[q].i
           backed == K(q) \in FileBacked
<1>1. At(q) = "prepare" /\ UNCHANGED <<db, file, history>> /\ InRun(q)
  BY DEF Prepare
<1>2. UNCHANGED <<cur, status, plan, journal, applied, file, history, base, edited>>
  BY <1>1 DEF db, history
<1>3. Busy(proc[q])
  BY <1>1, AtWork
<1>4. i \in Act /\ proc[q].run = cur /\ cur \in Run
  BY <1>1, <1>3, InRunIs DEF Busy
<1>5. /\ At(q)' = "running" /\ proc'[q].prep = backed
      /\ proc'[q].mem = [proc[q].mem EXCEPT ![i] = IF backed THEN file[i] ELSE "none"]
      /\ proc'[q].run = proc[q].run /\ proc'[q].plan = proc[q].plan
      /\ proc'[q].mode = proc[q].mode /\ proc'[q].seen = proc[q].seen
      /\ proc'[q].att = proc[q].att /\ proc'[q].i = i /\ proc'[q].done = proc[q].done
  <2>1. proc[q] \in Process
    BY Registers
  <2>2. proc'[q] = [proc[q] EXCEPT !.pc = "running", !.prep = K(q) \in FileBacked,
                            !.mem[proc[q].i] = IF K(q) \in FileBacked THEN file[proc[q].i] ELSE "none"]
    BY SetIs DEF Prepare
  <2> QED BY <2>1, <2>2 DEF Process
<1>6. /\ \A r \in Run : r # cur => snap'[r] = snap[r]
      /\ \A a \in Act \ {i} : snap'[cur][a] = snap[cur][a]
      /\ backed => snap'[cur][i] = file[i]
      /\ ~backed => snap'[cur][i] = snap[cur][i]
  <2>1. snap' = IF backed THEN [snap EXCEPT ![cur][i] = file[i]] ELSE snap
    BY <1>4 DEF Prepare
  <2>2. snap \in [Run -> [Act -> Content \cup {"none"}]]
    BY DEF TypeInv, DurableOK
  <2> HIDE DEF i, backed
  <2> QED BY <1>4, <2>1, <2>2
<1>7. /\ \A a \in Act \ {i} : proc'[q].mem[a] = proc[q].mem[a]
      /\ proc'[q].mem[i] = IF backed THEN file[i] ELSE "none"
  <2>1. proc[q].mem \in [Act -> Content \cup {"none"}]
    BY Registers DEF Process
  <2> HIDE DEF i, backed
  <2> QED BY <1>4, <1>5, <2>1
<1> HIDE DEF i, backed
<1>8. Works(q)
  <2>1. \A a \in Act \ {i} : Same(a)
    BY <1>2, <1>6 DEF Same
  <2> QED BY <1>1, <1>2, <1>5, <1>6, <1>7, <2>1 DEF Works, Frame, i
<1>9. Placed(q) /\ Reached(q)
  BY <1>5 DEF Placed, Reached, Tasks
<1>10. ~Stacked(q)
  <2>1. ASSUME NEW prev, proc'[q].done = Append(proc[q].done, [a |-> proc[q].i, att |-> proc'[q].att, prev |-> prev])
        PROVE  FALSE
    <3>1. proc[q].done \in Seq(Done) /\ proc'[q].done = proc[q].done
      BY <1>5, Registers
    <3>2. Len(proc'[q].done) = Len(proc[q].done) + 1 /\ Len(proc[q].done) \in Nat
      BY <2>1, <3>1, Appended
    <3> QED BY <3>1, <3>2
  <2> QED BY <2>1 DEF Stacked
<1>11. ASSUME NEW a \in Act, a = proc[q].i
       PROVE  JournalInv(q, a)' /\ SafeInv(a)' /\ PreimageInv(q, a)'
  <2>1. JournalInv(q, a)'
    BY <1>1, <1>2, <1>5, <1>8, <1>10, <1>11, KeptJournal DEF Noting
  <2>2. Backed(a) => /\ backed /\ file[a] = base.file[a] /\ snap'[cur][a] = file[a] /\ proc'[q].mem[a] = file[a]
                     /\ Referring(journal[a])
    <3>1. Backed(a) => backed
      BY <1>1, <1>11, InRunIs DEF Backed, backed
    <3>2. Backed(a) => file[a] = base.file[a] /\ Referring(journal[a])
      BY <1>1, <1>11, Backing
    <3> QED BY <1>6, <1>7, <1>11, <3>1, <3>2 DEF i
  <2>3. SafeInv(a)'
    BY <1>2, <1>8, <2>2, SafeAt
  <2>4. PreimageInv(q, a)'
    <3>1. At(q)' = "running" /\ (Backed(a) => proc'[q].prep)
      BY <1>5, <2>2
    <3>2. Backed(a) => proc'[q].mem[a] = snap'[cur][a] /\ snap'[cur][a] = base.file[a]
      BY <2>2
    <3> QED BY <1>8, <1>10, <1>11, <3>1, <3>2, PreimageAt
  <2> QED BY <2>1, <2>3, <2>4
<1> QED BY <1>8, <1>9, <1>11, WorksPreserves

\* A preparation that fails leaves the target as it was.
LEMMA PrepareFailsKeeps ==
  ASSUME TypeInv, NEW q \in Proc, RInv(q), PrepareFails(q)
  PROVE  RInv(q)'
<1>1. At(q) = "prepare" /\ UNCHANGED <<db, fs, history>> /\ Moved(q, "fail")
  BY GotoMoves DEF PrepareFails
<1>2. At(q)' = "fail" /\ SameLoop(q) /\ proc'[q].prep = proc[q].prep
  BY <1>1 DEF Moved
<1> QED BY <1>1, <1>2, PlainPlace, MovedPreserves DEF Noting

\* The running event names the snapshot.
LEMMA JournalRunningKeeps ==
  ASSUME TypeInv, NEW q \in Proc, RInv(q), JournalRunning(q)
  PROVE  RInv(q)'
<1>1. At(q) = "running" /\ UNCHANGED <<fs, history>> /\ At(q) \in Noting /\ InRun(q)
  BY DEF JournalRunning, Noting
<1>2. Busy(proc[q]) /\ proc[q].prep \in BOOLEAN
  BY <1>1, AtWork, Registers
<1>3. CASE Note(q, "running", proc[q].prep, "none") /\ Goto(q, "execute")
  <2>1. PICK e : Enters(q, e) /\ e.st = "running" /\ e.ref = proc[q].prep
    BY <1>2, <1>3, NoteEnters DEF EventState, Method
  <2>2. At(q)' = "execute" /\ SameLoop(q) /\ proc'[q].prep = proc[q].prep
    BY <1>3, GotoMoves DEF Moved
  <2>3. ASSUME NEW a \in Act, a = proc[q].i, Backed(a)
        PROVE  proc'[q].prep /\ HasReference(journal'[a])
    <3>1. proc[q].prep
      BY <1>1, <2>3, Backing
    <3>2. journal'[a] = Append(journal[a], e) /\ journal[a] \in Seq(Event)
      BY <2>1, <2>3, JournalType DEF Enters
    <3> QED BY <2>1, <2>2, <3>1, <3>2, AppendReference
  <2>4. Arrives(q)
    BY <2>2, <2>3 DEF Arrives, Placed, Reached, Needs, Tasks
  <2> QED BY <1>1, <2>1, <2>2, <2>4, EnteredPreserves
<1>4. CASE TransactionFails(q) /\ Goto(q, "undo")
  <2>1. At(q)' = "undo" /\ SameLoop(q) /\ proc'[q].prep = proc[q].prep
    BY <1>4, GotoMoves DEF Moved
  <2> QED BY <1>1, <1>4, <2>1, FailsKeeps, PlainPlace, MovedPreserves
<1> QED BY <1>3, <1>4 DEF JournalRunning
\* What an unfinished mutation of a managed file leaves is no news or covered.
LEMMA UnfinishedSame ==
  ASSUME NEW k, NEW from, NEW c \in Unfinished(k, from, from)
  PROVE  c = from
  BY DEF Unfinished

----------------------------------------------------------------------------
(* Steps that change the target of the current action. *)

\* A file step that arrives at a plain place.
LEMMA FileStepPreserves ==
  ASSUME TypeInv, NEW q \in Proc, RInv(q), SameLoop(q), InRun(q), Placed(q), Reached(q),
         At(q) \notin Behind \cup Rolling, At(q) \in Noting,
         At(q)' \notin Aside \cup {"next", "cleanup", "running", "reverify"} \cup Behind \cup Rolling,
         proc'[q].prep = proc[q].prep,
         UNCHANGED <<db, snap, history>>,
         \A a \in Act \ {proc[q].i} : file'[a] = file[a],
         \A a \in Act : a = proc[q].i /\ Backed(a) =>
           /\ file'[a] # base.file[a] => HasReference(journal[a])
           /\ At(q)' \in {"execute", "verify", "succeed", "intUnlink"} => proc[q].prep /\ HasReference(journal[a])
           /\ At(q)' = "prepare" => file'[a] = base.file[a]
  PROVE  RInv(q)'
<1>1. UNCHANGED <<cur, status, plan, journal, applied, snap, history>>
  BY DEF db
<1>2. Works(q) /\ K(q)' = K(q) /\ ~Stacked(q)
  <2>1. \A a \in Act \ {proc[q].i} : Same(a)
    BY <1>1 DEF Same
  <2> QED BY <1>1, <2>1, MovedWorks
<1>3. ASSUME NEW a \in Act, a = proc[q].i
      PROVE  JournalInv(q, a)' /\ SafeInv(a)' /\ PreimageInv(q, a)'
  <2>1. JournalInv(q, a)'
    BY <1>1, <1>2, <1>3, KeptJournal DEF SameLoop
  <2>2. SafeInv(a)'
    BY <1>1, <1>2, <1>3, Backing, SafeAt
  <2>3. PreimageInv(q, a)'
    BY <1>1, <1>2, <1>3, Backing, PreimageAt DEF SameLoop
  <2> QED BY <2>1, <2>2, <2>3
<1> QED BY <1>2, <1>3, WorksPreserves

\* The mutation: its snapshot is captured and the journal refers to it.
LEMMA ExecuteKeeps ==
  ASSUME TypeInv, NEW q \in Proc, RInv(q), Execute(q)
  PROVE  RInv(q)'
<1> DEFINE k == K(q)
<1>1. At(q) = "execute" /\ UNCHANGED <<db, snap, history>> /\ InRun(q)
  BY DEF Execute
<1>2. Busy(proc[q])
  BY <1>1, AtWork
<1>3. PICK i \in Act : i = proc[q].i
  BY <1>2 DEF Busy
<1> DEFINE stale == Stale(q)
<1>4. file \in [Act -> Content]
  BY DEF TypeInv, DurableOK
<1>5. file' = [file EXCEPT ![i] = Written(q)]
  BY <1>3 DEF Execute
<1>6. PICK l \in {"undo", "succeed", "verify"} :
        /\ Goto(q, l)
        /\ stale => l = "undo"
        /\ ~stale => l = IF k \in {"transfer", "remove"} THEN "succeed" ELSE "verify"
  BY <1>3 DEF Execute
<1>7. At(q)' = l /\ SameLoop(q) /\ proc'[q].prep = proc[q].prep
  BY <1>6, GotoMoves DEF Moved
<1>8. K(q)' = K(q) /\ KindOf(i)' = KindOf(i) /\ k = KindOf(i) /\ UNCHANGED edited
  BY <1>1, <1>3, <1>7, InRunIs DEF K, SameLoop, KindOf, db, history
<1>9. Placed(q)
  BY <1>6, <1>7, <1>8 DEF Placed, Tasks
<1> HIDE DEF k
<1>10. ASSUME l = "succeed", i \notin edited
       PROVE  Holds(i)'
  <2>1. ~stale /\ k \in {"transfer", "remove"}
    BY <1>6, <1>10
  <2>2. CASE k = "transfer"
    BY <1>8, <2>2 DEF Holds, Owning
  <2>3. CASE k = "remove"
    <3>1. file'[i] = "absent"
      BY <1>3, <1>4, <1>5, <2>1, <2>3 DEF k, stale, Written, Desired
    <3> QED BY <1>8, <2>3, <3>1 DEF Holds, Owning
  <2> QED BY <2>1, <2>2, <2>3
<1>11. Reached(q)
  <2>1. i \in edited => Holds(i)'
    BY <1>8 DEF Holds
  <2> HIDE DEF stale
  <2> QED BY <1>3, <1>6, <1>7, <1>10, <2>1 DEF Reached
<1>12. \A a \in Act \ {proc[q].i} : file'[a] = file[a]
  BY <1>3, <1>4, <1>5
<1>13. \A a \in Act : a = proc[q].i /\ Backed(a) => proc[q].prep /\ HasReference(journal[a])
  BY <1>1, Backing
<1>14. At(q) \in Noting
  BY <1>1 DEF Noting
<1> QED BY <1>1, <1>6, <1>7, <1>9, <1>11, <1>12, <1>13, <1>14, FileStepPreserves

\* A mutation that fails half way leaves the target to its snapshot.
LEMMA ExecuteFailsKeeps ==
  ASSUME TypeInv, NEW q \in Proc, RInv(q), ExecuteFails(q)
  PROVE  RInv(q)'
<1>1. At(q) = "execute" /\ UNCHANGED <<db, snap, history>> /\ InRun(q) /\ At(q) \in Noting
  BY DEF ExecuteFails, Noting
<1>2. Busy(proc[q])
  BY <1>1, AtWork
<1>3. PICK c : file' = [file EXCEPT ![proc[q].i] = c]
  BY DEF ExecuteFails
<1>4. \A a \in Act \ {proc[q].i} : file'[a] = file[a]
  BY <1>2, <1>3 DEF Busy, TypeInv, DurableOK
<1>5. At(q)' = "undo" /\ SameLoop(q) /\ proc'[q].prep = proc[q].prep
  BY GotoMoves DEF ExecuteFails, Moved
<1>6. Placed(q) /\ Reached(q)
  BY <1>5, PlainPlace DEF Arrives
<1>7. \A a \in Act : a = proc[q].i /\ Backed(a) => proc[q].prep /\ HasReference(journal[a])
  BY <1>1, Backing
<1> QED BY <1>1, <1>4, <1>5, <1>6, <1>7, FileStepPreserves

\* What passing evidence shows.
LEMMA PassedHolds ==
  ASSUME NEW k, NEW c, "passed" \in Verification(k, c)
  PROVE  Matches(k, c)
  BY DEF Verification

\* Only a target that holds what the action is for is verified.
LEMMA VerifyKeeps ==
  ASSUME TypeInv, NEW q \in Proc, RInv(q), Verify(q)
  PROVE  RInv(q)'
<1>1. At(q) = "verify" /\ UNCHANGED <<db, fs, history>> /\ InRun(q) /\ At(q) \in Noting
  BY DEF Verify, Noting
<1>2. Busy(proc[q])
  BY <1>1, AtWork
<1>3. PICK l \in {"succeed", "undoVerify", "undo"} :
        Goto(q, l) /\ (l = "succeed" => "passed" \in Verification(K(q), file[proc[q].i]))
  BY VerificationType DEF Verify
<1>4. At(q)' = l /\ SameLoop(q) /\ proc'[q].prep = proc[q].prep
  BY <1>3, GotoMoves DEF Moved
<1>5. CASE l = "succeed"
  <2>1. K(q) # "remove" /\ Matches(K(q), file[proc[q].i])
    BY <1>1, <1>3, <1>5, PassedHolds DEF RInv, PlaceInv
  <2>2. ASSUME NEW a \in Act, a = proc[q].i
        PROVE  Holds(a)'
    <3>1. K(q) = KindOf(a) /\ KindOf(a)' = KindOf(a) /\ UNCHANGED <<file, edited>>
      BY <1>1, <2>2, InRunIs DEF KindOf, db, fs, history
    <3> QED BY <2>1, <2>2, <3>1 DEF Holds
  <2>3. \A a \in Act : a = proc[q].i /\ Backed(a) => proc'[q].prep /\ HasReference(journal'[a])
    BY <1>1, <1>4, Backing DEF db
  <2>4. Arrives(q)
    BY <1>4, <1>5, <2>2, <2>3 DEF Arrives, Placed, Reached, Needs, Tasks
  <2> QED BY <1>1, <1>4, <1>5, <2>4, MovedPreserves
<1>6. CASE l # "succeed"
  BY <1>1, <1>3, <1>4, <1>6, PlainPlace, MovedPreserves
<1> QED BY <1>5, <1>6

\* The succeeded event ends the attempt, and its inverse is remembered.
LEMMA JournalSucceededKeeps ==
  ASSUME TypeInv, NEW q \in Proc, RInv(q), JournalSucceeded(q)
  PROVE  RInv(q)'
<1>0. At(q) = "succeed" /\ UNCHANGED <<fs, history>> /\ InRun(q) /\ At(q) \in Noting
  BY DEF JournalSucceeded, Noting
<1>1. Busy(proc[q])
  BY <1>0, AtWork
<1>2. PICK i \in Act : i = proc[q].i
  BY <1>1 DEF Busy
<1> DEFINE k == K(q)
           b == k \in Invertible
           prev == IF k \in Invertible THEN proc[q].inp[i] ELSE "none"
           rec == CASE k = "remove" -> "none"
                    [] k \in Owning -> "new"
                    [] OTHER -> applied[i]
           e == Ev("succeeded", proc[q].att, proc[q].prep, prev, "passed")
<1>3. proc[q] \in Process /\ i \in Act /\ proc[q].att \in Nat /\ proc[q].prep \in BOOLEAN /\ b \in BOOLEAN
  BY <1>2, Registers
<1>4. prev \in Record
  BY <1>3 DEF Process, Record
<1>5. e \in Event /\ e.st = "succeeded" /\ e.att = proc[q].att /\ e.ref = proc[q].prep /\ e.method = "passed"
  BY <1>3, <1>4, EvType DEF EventState, Method, Ev
<1>6. \/ JournalAction(q, i, e, rec) /\ Set(q, Verified(proc[q], b))
      \/ TransactionFails(q) /\ Goto(q, "undo")
  BY <1>2 DEF JournalSucceeded
<1> HIDE DEF k, b, prev, rec, e
<1>7. CASE JournalAction(q, i, e, rec) /\ Set(q, Verified(proc[q], b))
  <2>1. Passed(q, b) /\ proc'[q].att = proc[q].att
    BY <1>3, <1>7, VerifiedPasses
  <2>2. UNCHANGED <<cur, status, plan>> /\ journal' = [journal EXCEPT ![i] = Append(@, e)]
    BY <1>7 DEF JournalAction
  <2>3. journal'[i] = Append(journal[i], e) /\ \A a \in Act \ {i} : journal'[a] = journal[a]
    BY <1>3, <2>2 DEF TypeInv, DurableOK
  <2>4. journal[i] \in Seq(Event) /\ Open(cur)
    BY <1>0, <1>3, InRunIs, JournalType
  <2>5. JournalInv(q, i) /\ HoldsInv(q, i)
    BY <1>3 DEF RInv, ActionInv
  <2>6. Ordered(journal[i]) /\ Quiet(journal[i], e.att) /\ e.att >= 1
    BY <1>0, <1>2, <1>5, <2>4, <2>5 DEF JournalInv
  <2>7. Ordered(journal'[i]) /\ Undoable(journal'[i], e.att)
    BY <1>5, <2>3, <2>4, <2>6, AppendQuiet
  <2>8. Holds(i)
    BY <1>0, <1>2, <2>5 DEF HoldsInv
  <2>9. /\ HasReference(journal'[i]) <=> HasReference(journal[i]) \/ e.ref
        /\ Referring(journal[i]) /\ (e.st = "succeeded" => e.ref) => Referring(journal'[i])
    BY <2>3, <2>4, AppendReference
  <2>10. Backed(i) => /\ proc[q].prep /\ HasReference(journal[i]) /\ snap[cur][i] = base.file[i]
                      /\ Referring(journal[i])
    BY <1>0, <1>2, <1>3, Backing
  <2>11. SafeInv(i)'
    <3>1. UNCHANGED <<cur, file, snap, edited, base>> /\ KindOf(i)' = KindOf(i) /\ (Open(cur)' <=> Open(cur))
      BY <1>0, <2>2 DEF fs, history, KindOf, Open
    <3> QED BY <1>5, <2>9, <2>10, <3>1 DEF SafeInv, Backed
  <2> QED BY <1>0, <1>2, <1>3, <1>5, <2>1, <2>2, <2>3, <2>6, <2>7, <2>8, <2>10, <2>11, PassedPreserves
<1>8. CASE TransactionFails(q) /\ Goto(q, "undo")
  <2>1. At(q)' = "undo" /\ SameLoop(q) /\ proc'[q].prep = proc[q].prep
    BY <1>8, GotoMoves DEF Moved
  <2> QED BY <1>0, <1>8, <2>1, FailsKeeps, PlainPlace, MovedPreserves
<1> QED BY <1>6, <1>7, <1>8

\* What a restore of the current action may leave.
LEMMA RestoreLeaves ==
  ASSUME TypeInv, NEW q \in Proc, RInv(q), InRun(q), NEW a \in Act,
         Restored(q, a) \/ RestoreFails(q, a)
  PROVE  /\ \A x \in Act \ {a} : file'[x] = file[x]
         /\ Backed(a) => /\ file'[a] # base.file[a] => HasReference(journal[a])
                         /\ Restored(q, a) => file'[a] = base.file[a]
<1>1. file \in [Act -> Content]
  BY DEF TypeInv, DurableOK
<1>2. proc[q].run = cur
  BY InRunIs
<1>3. Backed(a) /\ CanRestore(q, a) => Preimage(q, a) = base.file[a]
  <2> SUFFICES ASSUME Backed(a), CanRestore(q, a)
               PROVE  Preimage(q, a) = base.file[a]
    OBVIOUS
  <2>1. snap[cur][a] \in {"none", base.file[a]} /\ proc[q].mem[a] \in {"none", snap[cur][a]}
    BY Backing
  <2>2. Preimage(q, a) # "none"
    BY DEF CanRestore
  <2> QED BY <1>2, <2>1, <2>2 DEF Preimage
<1>4. CASE Restored(q, a)
  BY <1>1, <1>3, <1>4 DEF Restored
<1>5. CASE ~CanRestore(q, a) /\ file' = file
  BY <1>5, Backing DEF Restored
<1>6. CASE CanRestore(q, a) /\ \E c \in Unfinished(proc[q].plan[a], file[a], Preimage(q, a)) :
                                  file' = [file EXCEPT ![a] = c]
  <2>1. PICK c \in Unfinished(proc[q].plan[a], file[a], Preimage(q, a)) : file' = [file EXCEPT ![a] = c]
    BY <1>6
  <2>2. file'[a] = c /\ \A x \in Act \ {a} : file'[x] = file[x]
    BY <1>1, <2>1
  <2>3. Backed(a) /\ ~HasReference(journal[a]) => c = base.file[a]
    BY <1>3, <1>6, Backing, UnfinishedSame
  <2>4. Backed(a) /\ Restored(q, a) => file'[a] = base.file[a]
    BY <1>1, <1>3 DEF Restored
  <2> QED BY <2>2, <2>3, <2>4
<1> QED BY <1>4, <1>5, <1>6 DEF RestoreFails

\* Rolling the current action back puts its preimage back, or fails half way.
LEMMA UndoKeeps ==
  ASSUME TypeInv, NEW q \in Proc, RInv(q), UndoVerify(q) \/ Undo(q)
  PROVE  RInv(q)'
<1>1. At(q) \in {"undoVerify", "undo"} /\ UNCHANGED <<db, snap, history>> /\ InRun(q) /\ At(q) \in Noting
  BY DEF UndoVerify, Undo, Noting
<1>2. Busy(proc[q])
  BY <1>1, AtWork
<1>3. At(q)' \in {"failVerify", "undo", "fail"} /\ SameLoop(q) /\ proc'[q].prep = proc[q].prep
  <2>1. CASE Goto(q, "failVerify") \/ Goto(q, "undo") \/ Goto(q, "fail")
    BY <2>1, GotoMoves DEF Moved
  <2>2. CASE Set(q, [proc[q] EXCEPT !.pc = "fail", !.undone = FALSE, !.keep = @ \cup {proc[q].i}])
    <3>1. proc'[q] = [proc[q] EXCEPT !.pc = "fail", !.undone = FALSE, !.keep = @ \cup {proc[q].i}]
      BY <2>2, SetIs
    <3> QED BY <3>1, Registers DEF Process, SameLoop
  <2> QED BY <2>1, <2>2 DEF UndoVerify, Undo
<1>4. Placed(q) /\ Reached(q)
  BY <1>3, PlainPlace DEF Arrives
<1>5. file' = file \/ Restored(q, proc[q].i) \/ RestoreFails(q, proc[q].i)
  BY DEF UndoVerify, Undo
<1>6. \A a \in Act \ {proc[q].i} : file'[a] = file[a]
  BY <1>1, <1>2, <1>5, RestoreLeaves DEF Busy
<1>7. \A a \in Act : a = proc[q].i /\ Backed(a) => (file'[a] # base.file[a] => HasReference(journal[a]))
  BY <1>1, <1>2, <1>5, RestoreLeaves, Backing DEF Busy
<1> QED BY <1>1, <1>3, <1>4, <1>6, <1>7, FileStepPreserves


\* The failed event of an action that was rolled back.
LEMMA JournalFailKeeps ==
  ASSUME TypeInv, NEW q \in Proc, RInv(q), JournalFailVerify(q) \/ JournalFail(q)
  PROVE  RInv(q)'
<1>1. At(q) \in {"failVerify", "fail"} /\ UNCHANGED <<fs, history>> /\ InRun(q) /\ At(q) \in Noting
  BY DEF JournalFailVerify, JournalFail, Noting
<1>2. proc[q].prep \in BOOLEAN /\ "failed" \in EventState /\ "other" \in Method
  BY Registers DEF EventState, Method
<1>3. \/ Set(q, FailedAction(proc[q])) /\ (Note(q, "failed", proc[q].prep, "other") \/ TransactionFails(q))
      \/ TransactionFails(q) /\ Goto(q, "undo")
  BY DEF JournalFailVerify, JournalFail
<1>4. CASE Set(q, FailedAction(proc[q])) /\ (Note(q, "failed", proc[q].prep, "other") \/ TransactionFails(q))
  <2>1. /\ Fell(q) /\ Arrives(q) /\ SameLoop(q) /\ At(q)' \notin Aside \cup {"next", "cleanup"} 
        /\ At(q)' \in Rolling /\ proc'[q].prep = proc[q].prep
    BY <1>4, FailedActionFalls, FellPlace
  <2> QED BY <1>1, <1>2, <1>4, <2>1, NotePreserves
<1>5. CASE TransactionFails(q) /\ Goto(q, "undo")
  <2>1. At(q)' = "undo" /\ SameLoop(q) /\ proc'[q].prep = proc[q].prep
    BY <1>5, GotoMoves DEF Moved
  <2> QED BY <1>1, <1>5, <2>1, FailsKeeps, PlainPlace, MovedPreserves
<1> QED BY <1>3, <1>4, <1>5
----------------------------------------------------------------------------
(* Outcome actions. *)

\* A human action or a drift conflict is journaled as skipped.
LEMMA HumanKeeps ==
  ASSUME TypeInv, NEW q \in Proc, RInv(q), Human(q) \/ DriftSkip(q)
  PROVE  RInv(q)'
<1>1. At(q) \in {"human", "driftSkip"} /\ UNCHANGED <<fs, history>> /\ InRun(q) /\ At(q) \in Noting
  BY DEF Human, DriftSkip, Noting
<1>2. "skipped" \in EventState /\ "none" \in Method
  BY DEF EventState, Method
<1>3. \/ /\ Note(q, "skipped", FALSE, "none")
         /\ \/ Set(q, Stopped([proc[q] EXCEPT !.human = TRUE]))
            \/ Set(q, Stopped([proc[q] EXCEPT !.drift = TRUE]))
      \/ TransactionFails(q) /\ Set(q, FailedAction(proc[q]))
  BY DEF Human, DriftSkip
<1>4. CASE /\ Note(q, "skipped", FALSE, "none")
           /\ \/ Set(q, Stopped([proc[q] EXCEPT !.human = TRUE]))
              \/ Set(q, Stopped([proc[q] EXCEPT !.drift = TRUE]))
  <2>1. /\ Arrives(q) /\ SameLoop(q) /\ At(q)' \notin Aside \cup {"next", "cleanup"}
        /\ At(q)' \in {"skip", "complete"} /\ At(q)' \notin Noting
    BY <1>4, StoppedHalts, HaltedPlace
  <2> QED BY <1>1, <1>2, <1>4, <2>1, NotePreserves
<1>5. CASE TransactionFails(q) /\ Set(q, FailedAction(proc[q]))
  <2>1. /\ Arrives(q) /\ SameLoop(q) /\ At(q)' \notin Aside \cup {"next", "cleanup"}
        /\ At(q)' \in Rolling /\ proc'[q].prep = proc[q].prep
    BY <1>5, FailedActionFalls, FellPlace
  <2> QED BY <1>1, <1>5, <2>1, FailsKeeps, MovedPreserves
<1> QED BY <1>3, <1>4, <1>5

\* The recorded drift changes no target and no event.
LEMMA RecordDriftKeeps ==
  ASSUME TypeInv, NEW q \in Proc, RInv(q), RecordDrift(q)
  PROVE  RInv(q)'
<1>1. At(q) = "drift" /\ UNCHANGED <<fs, history>> /\ InRun(q) /\ At(q) \in Noting
  BY DEF RecordDrift, Noting
<1>2. UNCHANGED <<cur, status, plan, journal, applied>>
  BY DEF RecordDrift, db
<1>3. CASE Goto(q, "driftSkip")
  <2>1. At(q)' = "driftSkip" /\ SameLoop(q) /\ proc'[q].prep = proc[q].prep
    BY <1>3, GotoMoves DEF Moved
  <2>2. K(q)' = "drift"
    BY <1>1, <2>1 DEF RInv, PlaceInv, K, SameLoop
  <2> QED BY <1>1, <1>2, <2>1, <2>2, DriftPlace, KeptPreserves
<1>4. CASE Set(q, FailedAction(proc[q]))
  <2>1. /\ Arrives(q) /\ SameLoop(q) /\ At(q)' \notin Aside \cup {"next", "cleanup"}
        /\ At(q)' \in Rolling /\ proc'[q].prep = proc[q].prep
    BY <1>4, FailedActionFalls, FellPlace
  <2> QED BY <1>1, <1>2, <2>1, KeptPreserves
<1> QED BY <1>3, <1>4 DEF RecordDrift

\* Moving within an agent task.
LEMMA TaskMoves ==
  ASSUME TypeInv, NEW q \in Proc, RInv(q), At(q) \in Tasks, NEW l \in Tasks, l # "agentSucceed", Goto(q, l)
  PROVE  /\ Arrives(q) /\ SameLoop(q) /\ proc'[q].prep = proc[q].prep /\ At(q)' = l /\ K(q)' = K(q)
         /\ At(q)' \notin Aside \cup {"next", "cleanup"} \cup Behind \cup Rolling
<1>1. At(q)' = l /\ SameLoop(q) /\ proc'[q].prep = proc[q].prep
  BY GotoMoves DEF Moved
<1>2. K(q) = "agent"
  BY DEF RInv, PlaceInv
<1>3. K(q)' = K(q)
  BY <1>1 DEF K, SameLoop
<1>4. At(q)' \in Tasks
  BY <1>1
<1> HIDE DEF At
<1> QED BY <1>1, <1>2, <1>3, <1>4, TaskPlace

\* Every event of an agent task extends a valid journal.
LEMMA AgentKeeps ==
  ASSUME TypeInv, NEW q \in Proc, RInv(q),
         Agent(q) \/ AgentVerify(q) \/ AgentSucceed(q) \/ AgentFail(q) \/ AgentSkip(q) \/ AgentError(q)
  PROVE  RInv(q)'
<1>1. At(q) \in Tasks /\ UNCHANGED <<fs, history>>
  BY DEF Agent, AgentVerify, AgentSucceed, AgentFail, AgentSkip, AgentError, Tasks, fs
<1>2. InRun(q) /\ At(q) \in Noting /\ At(q) \notin Behind \cup Rolling
  BY <1>1 DEF Noting, Tasks
<1>3. {"agentSkip", "agentResolve", "agentError", "agentFail"} \subseteq Tasks
  BY DEF Tasks
<1>4. {"running", "succeeded", "failed", "skipped"} \subseteq EventState /\ {"none", "passed", "other"} \subseteq Method
  BY DEF EventState, Method
<1>5. K(q) = "agent" /\ "agent" \notin FileBacked
  BY <1>1 DEF RInv, PlaceInv, FileBacked
<1>6. ASSUME NEW l \in {"agentSkip", "agentResolve", "agentError", "agentFail"}, Goto(q, l), UNCHANGED db
      PROVE  RInv(q)'
  BY <1>1, <1>2, <1>3, <1>6, TaskMoves, MovedPreserves
<1>7. CASE Agent(q)
  <2>1. CASE Note(q, "running", FALSE, "none") /\ Goto(q, "agentResolve")
    <3>1. /\ Arrives(q) /\ SameLoop(q) /\ proc'[q].prep = proc[q].prep
          /\ At(q)' \notin Aside \cup {"next", "cleanup"} \cup Behind \cup Rolling
      BY <1>1, <1>3, <2>1, TaskMoves
    <3> QED BY <1>1, <1>2, <1>4, <1>5, <2>1, <3>1, NotePreserves
  <2>2. CASE Goto(q, "agentSkip") /\ UNCHANGED <<db, spent>>
    BY <1>6, <2>2
  <2>3. CASE TransactionFails(q) /\ Goto(q, "agentError")
    BY <1>6, <2>3, FailsKeeps
  <2> QED BY <1>7, <2>1, <2>2, <2>3 DEF Agent
<1>8. CASE AgentVerify(q)
  <2>1. UNCHANGED db
    BY <1>8 DEF AgentVerify
  <2>2. PICK l \in {"agentSucceed", "agentFail", "agentError"} :
          Goto(q, l) /\ (l = "agentSucceed" => "passed" \in Verification("agent", file[proc[q].i]))
    BY <1>8, VerificationType DEF AgentVerify
  <2>3. CASE l = "agentSucceed"
    <3>1. At(q)' = "agentSucceed" /\ SameLoop(q) /\ proc'[q].prep = proc[q].prep
      BY <2>2, <2>3, GotoMoves DEF Moved
    <3>2. K(q)' = "agent" /\ Matches("agent", file[proc[q].i])
      BY <1>5, <2>2, <2>3, <3>1, PassedHolds DEF K, SameLoop
    <3>3. ASSUME NEW a \in Act, a = proc[q].i
          PROVE  Holds(a)'
      <4>1. K(q) = KindOf(a) /\ KindOf(a)' = KindOf(a) /\ UNCHANGED <<file, edited>>
        BY <1>1, <1>2, <2>1, <3>3, InRunIs DEF KindOf, db, fs, history
      <4> QED BY <1>5, <3>2, <3>3, <4>1 DEF Holds
    <3>4. Arrives(q) /\ At(q)' \in Noting
      BY <3>1, <3>2, <3>3 DEF Arrives, Placed, Reached, Needs, Tasks, Noting
    <3> QED BY <1>1, <1>2, <2>1, <3>1, <3>4, MovedPreserves
  <2>4. CASE l # "agentSucceed"
    BY <1>6, <2>1, <2>2, <2>4
  <2> QED BY <2>3, <2>4
<1>9. CASE AgentSucceed(q)
  <2>1. CASE TransactionFails(q) /\ Goto(q, "agentError")
    BY <1>6, <2>1, FailsKeeps
  <2>2. CASE Note(q, "succeeded", FALSE, "passed") /\ Set(q, Verified(proc[q], FALSE))
    <3>1. At(q) = "agentSucceed" /\ Busy(proc[q])
      BY <1>9, AtWork DEF AgentSucceed
    <3>2. Passed(q, FALSE) /\ proc'[q].att = proc[q].att
      BY <2>2, Registers, VerifiedPasses
    <3>3. PICK e : Enters(q, e) /\ e.st = "succeeded" /\ e.ref = FALSE
      BY <1>4, <2>2, <3>1, NoteEnters
    <3>4. ASSUME NEW a \in Act, a = proc[q].i
          PROVE  Holds(a) /\ SafeInv(a)' /\ Ordered(journal'[a])
      <4>1. ~Backed(a) /\ KindOf(a) = "agent" /\ Open(cur)
        BY <1>1, <1>2, <1>5, <3>4, InRunIs DEF Backed
      <4>2. HoldsInv(q, a) /\ JournalInv(q, a) /\ journal[a] \in Seq(Event)
        BY JournalType DEF RInv, ActionInv
      <4>3. Holds(a)
        BY <3>1, <3>4, <4>2 DEF HoldsInv
      <4>4. SafeInv(a)'
        BY <1>5, <3>3, <4>1 DEF SafeInv, Enters, KindOf
      <4>5. Ordered(journal[a]) /\ Quiet(journal[a], e.att) /\ e.att >= 1 /\ e \in Event
        BY <1>2, <3>3, <3>4, <4>1, <4>2 DEF JournalInv, Enters
      <4>6. journal'[a] = Append(journal[a], e) /\ (e.st = "succeeded" => e.method = "passed") /\ e.st # "pending"
        BY <3>3, <3>4 DEF Enters
      <4>7. Ordered(journal'[a])
        BY <4>2, <4>5, <4>6, AppendQuiet
      <4> QED BY <4>3, <4>4, <4>7
    <3>5. UNCHANGED <<cur, status, plan>> /\ \A a \in Act \ {proc[q].i} : journal'[a] = journal[a]
      BY <3>3 DEF Enters
    <3> QED BY <1>1, <1>2, <3>2, <3>4, <3>5, PassedPreserves
  <2> QED BY <1>9, <2>1, <2>2 DEF AgentSucceed
<1>10. CASE AgentFail(q)
  <2>1. CASE TransactionFails(q) /\ Goto(q, "agentError")
    BY <1>6, <2>1, FailsKeeps
  <2>2. CASE Note(q, "failed", FALSE, "other") /\ Set(q, FailedAction(proc[q]))
    <3>1. /\ Arrives(q) /\ SameLoop(q) /\ At(q)' \notin Aside \cup {"next", "cleanup"}
          /\ At(q)' \in Rolling /\ proc'[q].prep = proc[q].prep
      BY <2>2, FailedActionFalls, FellPlace
    <3> QED BY <1>1, <1>2, <1>4, <1>5, <2>2, <3>1, NotePreserves
  <2> QED BY <1>10, <2>1, <2>2 DEF AgentFail
<1>11. CASE AgentSkip(q) \/ AgentError(q)
  <2>1. CASE TransactionFails(q) /\ Goto(q, "agentError")
    BY <1>6, <2>1, FailsKeeps
  <2>2. CASE /\ Set(q, Stopped([proc[q] EXCEPT !.human = TRUE]))
             /\ Note(q, "skipped", FALSE, "none") \/ Note(q, "failed", FALSE, "other") \/ TransactionFails(q)
    <3>1. /\ Arrives(q) /\ SameLoop(q) /\ At(q)' \notin Aside \cup {"next", "cleanup"}
          /\ At(q)' \in {"skip", "complete"} /\ At(q)' \notin Noting
      BY <2>2, StoppedHalts, HaltedPlace
    <3>2. CASE Note(q, "skipped", FALSE, "none") \/ TransactionFails(q)
      BY <1>1, <1>2, <1>4, <3>1, <3>2, NotePreserves
    <3>3. CASE Note(q, "failed", FALSE, "other")
      BY <1>1, <1>2, <1>4, <3>1, <3>3, NotePreserves
    <3> QED BY <2>2, <3>2, <3>3
  <2> QED BY <1>11, <2>1, <2>2 DEF AgentSkip, AgentError
<1> QED BY <1>7, <1>8, <1>9, <1>10, <1>11

\* An agent harness changes the target of its own task only.
LEMMA AgentResolveKeeps ==
  ASSUME TypeInv, NEW q \in Proc, RInv(q), AgentResolve(q)
  PROVE  RInv(q)'
<1>1. At(q) = "agentResolve" /\ UNCHANGED <<db, snap, history>>
  BY DEF AgentResolve
<1>2. InRun(q) /\ At(q) \in Noting /\ At(q) \in Tasks /\ At(q) \notin Behind \cup Rolling
  BY <1>1 DEF Noting, Tasks
<1>3. PICK l \in {"agentVerify", "agentSkip", "agentError"} : Goto(q, l)
  BY DEF AgentResolve
<1>4. l \in Tasks /\ l # "agentSucceed"
  BY DEF Tasks
<1>5. /\ Arrives(q) /\ SameLoop(q) /\ proc'[q].prep = proc[q].prep
      /\ At(q)' = l
  BY <1>2, <1>3, <1>4, TaskMoves
<1>6. K(q) = "agent" /\ "agent" \notin FileBacked
  BY <1>2 DEF RInv, PlaceInv, FileBacked
<1>7. \A a \in Act : a = proc[q].i => ~Backed(a)
  BY <1>2, <1>6, InRunIs DEF Backed
<1>8. \A a \in Act \ {proc[q].i} : file'[a] = file[a]
  BY DEF AgentResolve, TypeInv, DurableOK
<1>9. Placed(q) /\ Reached(q)
  BY <1>5 DEF Arrives
<1> QED BY <1>1, <1>2, <1>5, <1>7, <1>8, <1>9, FileStepPreserves

----------------------------------------------------------------------------
(* Steps behind the loop. *)

\* A step on one action the loop has left behind, or will not reach.
LEMMA LatePreserves ==
  ASSUME TypeInv, NEW q \in Proc, RInv(q), At(q) \in {"cascade", "cascadeJournal", "skip"},
         At(q)' \in {"cascade", "cascadeJournal", "skip"}, At(q) = "skip" <=> At(q)' = "skip",
         proc'[q].run = proc[q].run, proc'[q].plan = proc[q].plan, proc'[q].mode = proc[q].mode,
         proc'[q].seen = proc[q].seen, proc'[q].att = proc[q].att, proc'[q].mem = proc[q].mem,
         proc'[q].prep = proc[q].prep, SameFlags(q),
         proc'[q].i = proc[q].i \/ (At(q)' = "skip" /\ proc'[q].i = proc[q].i + 1),
         \A n \in 1..Len(proc'[q].done) : n \in 1..Len(proc[q].done) /\ proc'[q].done[n] = proc[q].done[n],
         UNCHANGED <<cur, status, plan, snap, history>>,
         NEW a \in Act, a <= proc'[q].i, \A x \in Act \ {a} : Same(x),
         JournalInv(q, a)', SafeInv(a)'
  PROVE  RInv(q)'
<1>1. InRun(q) /\ InRun(q)' /\ Open(cur) /\ Open(cur)' /\ UNCHANGED <<base, edited>>
  BY InRunIs DEF Open, history
<1>2. proc[q].i \in Int /\ proc'[q].i \in Int /\ \A x \in Act : x \in Int
  BY Registers DEF Act
<1>3. RunInv(q)'
  <2>1. RunInv(q)
    BY DEF RInv
  <2>2. proc'[q].run = cur' /\ proc'[q].plan = plan'[cur']
    BY <1>1, <2>1 DEF RunInv
  <2>3. \A r \in Run : r > cur' => snap'[r] = [x \in Act |-> "none"]
    BY <2>1 DEF RunInv
  <2>4. proc'[q].mode = "run" => proc'[q].att = 1
    BY <2>1 DEF RunInv
  <2> QED BY <1>1, <2>2, <2>3, <2>4 DEF RunInv
<1>4. PlaceInv(q)'
  <2>1. PlaceInv(q)
    BY DEF RInv
  <2>2. \A n \in 1..Len(proc[q].done) :
         /\ proc[q].done[n].a < proc[q].i
         /\ \A m \in 1..Len(proc[q].done) : n < m => proc[q].done[n].a < proc[q].done[m].a
    BY <2>1 DEF PlaceInv
  <2>3. \A n \in 1..Len(proc[q].done) : proc[q].done[n].a \in Int
    <3>1. proc[q].done \in Seq(Done)
      BY Registers
    <3>2. \A n \in 1..Len(proc[q].done) : proc[q].done[n] \in Done
      BY <3>1
    <3> QED BY <3>2 DEF Done, Act
  <2>4. \A n \in 1..Len(proc'[q].done) :
         /\ proc'[q].done[n].a < proc'[q].i
         /\ \A m \in 1..Len(proc'[q].done) : n < m => proc'[q].done[n].a < proc'[q].done[m].a
    <3> DEFINE s == proc[q].done
               t == proc'[q].done
               i == proc[q].i
               j == proc'[q].i
    <3>1. \A n \in 1..Len(s) : s[n].a \in Int /\ s[n].a < i /\ \A m \in 1..Len(s) : n < m => s[n].a < s[m].a
      BY <2>2, <2>3
    <3>2. \A n \in 1..Len(t) : n \in 1..Len(s) /\ t[n] = s[n]
      OBVIOUS
    <3>3. i \in Int /\ (j = i \/ j = i + 1)
      BY <1>2
    <3> HIDE DEF s, t, i, j
    <3>4. ASSUME NEW n \in 1..Len(t)
          PROVE  t[n].a < j /\ \A m \in 1..Len(t) : n < m => t[n].a < t[m].a
      <4>1. n \in 1..Len(s) /\ t[n] = s[n]
        BY <3>2
      <4>2. s[n].a \in Int /\ s[n].a < i /\ \A m \in 1..Len(s) : n < m => s[n].a < s[m].a
        BY <3>1, <4>1
      <4>3. t[n].a < j
        BY <3>3, <4>1, <4>2
      <4>4. ASSUME NEW m \in 1..Len(t), n < m
            PROVE  t[n].a < t[m].a
        <5>1. m \in 1..Len(s) /\ t[m] = s[m]
          BY <3>2
        <5> QED BY <4>1, <4>2, <4>4, <5>1
      <4> QED BY <4>3, <4>4
    <3> QED BY <3>4 DEF s, t, j
  <2>5. At(q)' = "skip" => proc'[q].mode = "run"
    BY <2>1 DEF PlaceInv
  <2>6. At(q)' \notin Tasks \cup {"installer", "verify", "reverify"}
    BY DEF Tasks
  <2> HIDE DEF At
  <2> QED BY <2>4, <2>5, <2>6 DEF PlaceInv
<1>5. ASSUME NEW x \in Act
      PROVE  ActionInv(q, x)'
  <2>1. ActionInv(q, x) /\ KindOf(x)' = KindOf(x)
    BY DEF RInv, KindOf
  <2>2. AheadInv(q, x)'
    <3> SUFFICES ASSUME Ahead(q, x)'
                 PROVE  IF proc'[q].mode = "run"
                        THEN journal'[x] = <<PendingEvent>> /\ (x \notin edited' => file'[x] = base'.file[x])
                        ELSE proc'[q].seen[x] = [last |-> Last(journal'[x]), ref |-> HasReference(journal'[x])]
      BY DEF AheadInv
    <3>1. x > proc'[q].i
      BY DEF Ahead
    <3>2. x # a /\ x > proc[q].i
      BY <1>2, <3>1
    <3>3. Same(x) /\ Ahead(q, x)
      BY <1>1, <3>2 DEF Ahead
    <3> QED BY <1>1, <2>1, <3>3 DEF ActionInv, AheadInv, Same
  <2>3. JournalInv(q, x)'
    <3>1. CASE x # a
      <4>1. journal'[x] = journal[x] /\ JournalInv(q, x)
        BY <2>1, <3>1 DEF Same, ActionInv
      <4>2. At(q)' \notin Noting
        BY DEF Noting, Tasks
      <4>3. Ordered(journal[x]) /\ \A n \in 1..Len(proc[q].done) : proc[q].done[n].a = x =>
              Undoable(journal[x], proc[q].done[n].att) /\ proc[q].done[n].att >= 1
        BY <1>1, <4>1 DEF JournalInv
      <4> HIDE DEF At
      <4> QED BY <4>1, <4>2, <4>3 DEF JournalInv
    <3> QED BY <3>1
  <2>4. SafeInv(x)'
    <3>1. CASE x # a
      BY <1>1, <2>1, <3>1 DEF Same, ActionInv, SafeInv
    <3> QED BY <3>1
  <2>5. PreimageInv(q, x)'
    <3> SUFFICES ASSUME Backed(x)
                 PROVE  /\ proc'[q].mem[x] \in {"none", snap'[cur'][x]}
                        /\ \A n \in 1..Len(proc'[q].done) : proc'[q].done[n].a = x => snap'[cur'][x] = base'.file[x]
                        /\ At(q)' \notin Behind /\ proc'[q].i = x => (proc'[q].prep => snap'[cur'][x] = base'.file[x])
      BY <1>1, <2>1 DEF PreimageInv, Backed
    <3> QED BY <1>1, Backing
  <2>6. HoldsInv(q, x)'
    <3>1. HoldsInv(q, x)
      BY <2>1 DEF ActionInv
    <3>2. ~Forward(q)' 
      BY DEF Forward
    <3>3. /\ At(q)' \in Rolling => proc'[q].fail
          /\ At(q)' = "skip" => Flagged(q)'
      BY <3>1 DEF HoldsInv, SameFlags, Flagged
    <3> QED BY <3>2, <3>3 DEF HoldsInv
  <2>7. ConvergedInv(x)'
    BY <1>1 DEF ConvergedInv, Open, Recoverable
  <2> HIDE DEF At
  <2> QED BY <2>2, <2>3, <2>4, <2>5, <2>6, <2>7 DEF ActionInv
<1> QED BY <1>3, <1>4, <1>5 DEF RInv

\* The stack without its top.
LEMMA PopIs ==
  ASSUME TypeInv, NEW q \in Proc, RInv(q), proc[q].done # <<>>
  PROVE  LET s == proc[q].done  n == Len(s) IN
           /\ n \in 1..n /\ Top(q) = s[n] /\ Top(q) \in Done /\ Top(q).a < proc[q].i
           /\ \A k \in 1..Len(Pop(q)) : k \in 1..n /\ Pop(q)[k] = s[k] /\ s[k].a < Top(q).a
<1> DEFINE s == proc[q].done
           n == Len(s)
<1>1. s \in Seq(Done) /\ n \in Nat /\ n > 0
  BY Registers, EmptySeq
<1>2. n \in 1..n /\ s[n] \in Done /\ Top(q) = s[n]
  BY <1>1 DEF Top, Last
<1>3. Len(Pop(q)) = n - 1 /\ \A k \in 1..(n - 1) : Pop(q)[k] = s[k]
  BY <1>1 DEF Pop
<1>4. \A k \in 1..n : s[k].a < proc[q].i /\ \A m \in 1..n : k < m => s[k].a < s[m].a
  BY DEF RInv, PlaceInv
<1> HIDE DEF s, n
<1>5. \A k \in 1..(n - 1) : k \in 1..n /\ k < n
  BY <1>1
<1> QED BY <1>1, <1>2, <1>3, <1>4, <1>5 DEF s, n

\* The inverse of a completed action puts its preimage back or leaves the
\* target to its snapshot.
LEMMA CascadeKeeps ==
  ASSUME TypeInv, NEW q \in Proc, RInv(q), Cascade(q)
  PROVE  RInv(q)'
<1>1. At(q) = "cascade" /\ proc[q].done # <<>> /\ UNCHANGED <<db, snap, history>> /\ InRun(q)
  BY DEF Cascade
<1>2. /\ Top(q) \in Done /\ Top(q).a < proc[q].i
      /\ \A k \in 1..Len(Pop(q)) : k \in 1..Len(proc[q].done) /\ Pop(q)[k] = proc[q].done[k]
  BY <1>1, PopIs
<1>3. PICK a \in Act : a = Top(q).a
  BY <1>2 DEF Done
<1>4. a \in Int /\ proc[q].i \in Int
  BY Registers DEF Act
<1>5. \/ Goto(q, "cascadeJournal")
      \/ Set(q, [proc[q] EXCEPT !.done = Pop(q), !.keep = @ \cup {a}])
  BY <1>3 DEF Cascade
<1>6. file' = file \/ Restored(q, a) \/ RestoreFails(q, a)
  BY <1>3 DEF Cascade
<1>7. /\ At(q)' \in {"cascade", "cascadeJournal"}
      /\ proc'[q].run = proc[q].run /\ proc'[q].plan = proc[q].plan /\ proc'[q].mode = proc[q].mode
      /\ proc'[q].seen = proc[q].seen /\ proc'[q].att = proc[q].att /\ proc'[q].mem = proc[q].mem
      /\ proc'[q].prep = proc[q].prep /\ SameFlags(q) /\ proc'[q].i = proc[q].i
      /\ proc'[q].done = proc[q].done \/ proc'[q].done = Pop(q)
  <2>1. CASE Goto(q, "cascadeJournal")
    BY <2>1, GotoMoves DEF Moved, SameLoop
  <2>2. CASE Set(q, [proc[q] EXCEPT !.done = Pop(q), !.keep = @ \cup {a}])
    <3>1. proc'[q] = [proc[q] EXCEPT !.done = Pop(q), !.keep = @ \cup {a}]
      BY <2>2, SetIs
    <3>2. proc[q] \in Process
      BY Registers
    <3> HIDE DEF At
    <3>3. /\ proc'[q].pc = proc[q].pc
          /\ proc'[q].run = proc[q].run /\ proc'[q].plan = proc[q].plan /\ proc'[q].mode = proc[q].mode
          /\ proc'[q].seen = proc[q].seen /\ proc'[q].att = proc[q].att /\ proc'[q].mem = proc[q].mem
          /\ proc'[q].prep = proc[q].prep /\ SameFlags(q) /\ proc'[q].i = proc[q].i
          /\ proc'[q].done = Pop(q)
      BY <3>1, <3>2 DEF Process, SameFlags
    <3> QED BY <1>1, <3>3 DEF At
  <2> QED BY <1>5, <2>1, <2>2
<1>8. \A n \in 1..Len(proc'[q].done) : n \in 1..Len(proc[q].done) /\ proc'[q].done[n] = proc[q].done[n]
  BY <1>2, <1>7
<1>9. UNCHANGED <<cur, status, plan, journal, base, edited>>
  BY <1>1 DEF db, history
<1>10. \A x \in Act \ {a} : file'[x] = file[x]
  BY <1>1, <1>6, RestoreLeaves
<1>11. Backed(a) => (file'[a] # base.file[a] => HasReference(journal[a]))
  BY <1>1, <1>6, RestoreLeaves, Backing
<1>12. SafeInv(a)'
  <2>1. (Open(cur)' <=> Open(cur)) /\ KindOf(a)' = KindOf(a)
    BY <1>9 DEF Open, KindOf
  <2> QED BY <1>1, <1>9, <1>11, <2>1, Backing DEF SafeInv, Backed
<1>13. JournalInv(q, a)'
  <2>1. JournalInv(q, a) /\ (Open(cur)' <=> Open(cur)) /\ At(q)' \notin Noting /\ InRun(q)
    BY <1>1, <1>7, <1>9 DEF RInv, ActionInv, Open, Noting, Tasks
  <2> HIDE DEF At, InRun
  <2> QED BY <1>8, <1>9, <2>1 DEF JournalInv
<1>14. \A x \in Act \ {a} : Same(x)
  BY <1>1, <1>9, <1>10 DEF Same
<1>15. a <= proc'[q].i
  BY <1>2, <1>3, <1>4, <1>7
<1> QED BY <1>1, <1>7, <1>8, <1>9, <1>12, <1>13, <1>14, <1>15, LatePreserves

\* The event of an inverse does not disturb the inverses below it.
LEMMA CascadeJournalKeeps ==
  ASSUME TypeInv, NEW q \in Proc, RInv(q), CascadeJournal(q)
  PROVE  RInv(q)'
<1>1. At(q) = "cascadeJournal" /\ UNCHANGED <<fs, history>> /\ InRun(q)
  BY DEF CascadeJournal
<1>2. proc[q].done # <<>>
  BY <1>1, Registers DEF LocalInv
<1> DEFINE n == Len(proc[q].done)
<1>3. /\ n \in 1..n /\ Top(q) = proc[q].done[n] /\ Top(q) \in Done /\ Top(q).a < proc[q].i
      /\ \A k \in 1..Len(Pop(q)) : k \in 1..n /\ Pop(q)[k] = proc[q].done[k] /\ proc[q].done[k].a < Top(q).a
  BY <1>2, PopIs
<1>4. PICK a \in Act : a = Top(q).a
  BY <1>3 DEF Done
<1>5. a \in Int /\ proc[q].i \in Int /\ Open(cur) /\ proc[q].plan[a] = KindOf(a)
  BY <1>1, Registers, InRunIs DEF Act
<1> DEFINE ref == KindOf(a) \in FileBacked
           e == Ev("failed", Top(q).att, ref, "none", "run-rolled-back")
<1>6. e \in Event /\ e.st = "failed" /\ e.method = "run-rolled-back" /\ e.att = Top(q).att
  <2>1. Top(q).att \in Nat /\ ref \in BOOLEAN
    BY <1>3 DEF Done
  <2> HIDE DEF ref
  <2> QED BY <2>1, EvType DEF EventState, Method, Record, Ev
<1>7. \/ JournalAction(q, a, e, Top(q).prev)
      \/ TransactionFails(q)
  BY <1>4, <1>5 DEF CascadeJournal
<1>8. /\ At(q)' = "cascade"
      /\ proc'[q].run = proc[q].run /\ proc'[q].plan = proc[q].plan /\ proc'[q].mode = proc[q].mode
      /\ proc'[q].seen = proc[q].seen /\ proc'[q].att = proc[q].att /\ proc'[q].mem = proc[q].mem
      /\ proc'[q].prep = proc[q].prep /\ SameFlags(q) /\ proc'[q].i = proc[q].i
      /\ proc'[q].done = Pop(q)
  <2>1. proc'[q] = [proc[q] EXCEPT !.pc = "cascade", !.done = Pop(q)]
    BY SetIs DEF CascadeJournal
  <2>2. proc[q] \in Process
    BY Registers
  <2> QED BY <2>1, <2>2 DEF Process, SameFlags
<1>9. \A k \in 1..Len(proc'[q].done) : /\ k \in 1..n /\ proc'[q].done[k] = proc[q].done[k]
                                       /\ proc[q].done[k].a # a
  <2>1. \A k \in 1..n : proc[q].done[k].a \in Int
    <3>1. proc[q].done \in Seq(Done)
      BY Registers
    <3>2. \A k \in 1..n : proc[q].done[k] \in Done
      BY <3>1
    <3> QED BY <3>2 DEF Done, Act
  <2> HIDE DEF n
  <2> QED BY <1>3, <1>4, <1>5, <1>8, <2>1
<1> HIDE DEF e, ref
<1>10. UNCHANGED <<cur, status, plan, file, snap, base, edited>>
  <2>1. UNCHANGED <<cur, status, plan>>
    BY <1>7 DEF JournalAction, TransactionFails, db
  <2> QED BY <1>1, <2>1 DEF fs, history
<1>11. journal \in [Act -> Seq(Event)]
  BY DEF TypeInv, DurableOK
<1>12. /\ \A x \in Act \ {a} : journal'[x] = journal[x]
       /\ journal'[a] = journal[a] \/ journal'[a] = Append(journal[a], e)
  BY <1>7, <1>11 DEF JournalAction, TransactionFails, db
<1>13. (Open(cur)' <=> Open(cur)) /\ KindOf(a)' = KindOf(a)
  BY <1>10 DEF Open, KindOf
<1>14. SafeInv(a)'
  <2> SUFFICES ASSUME Backed(a)
      PROVE  /\ snap[cur][a] \in {"none", base.file[a]}
             /\ HasReference(journal'[a]) => snap[cur][a] = base.file[a]
             /\ file[a] # base.file[a] => HasReference(journal'[a])
             /\ Referring(journal'[a])
    BY <1>10, <1>13 DEF SafeInv, Backed
  <2>1. snap[cur][a] = base.file[a]
    BY <1>1, <1>3, <1>4, Backing
  <2>2. HasReference(journal[a]) => HasReference(journal'[a])
    BY <1>11, <1>12, AppendReference
  <2>3. Referring(journal[a]) => Referring(journal'[a])
    BY <1>6, <1>11, <1>12, AppendReference
  <2> QED BY <1>1, <2>1, <2>2, <2>3, Backing
<1>15. JournalInv(q, a)'
  <2>1. JournalInv(q, a)
    BY DEF RInv, ActionInv
  <2>2. Ordered(journal[a]) /\ Undoable(journal[a], Top(q).att) /\ Top(q).att >= 1
    BY <1>1, <1>3, <1>4, <1>5, <2>1 DEF JournalInv
  <2>3. Ordered(journal'[a])
    BY <1>6, <1>11, <1>12, <2>2, AppendInverse
  <2>4. At(q)' \notin Noting
    BY <1>8 DEF Noting, Tasks
  <2> HIDE DEF At, InRun, n
  <2> QED BY <1>9, <2>3, <2>4 DEF JournalInv
<1>16. \A x \in Act \ {a} : Same(x)
  BY <1>10, <1>12 DEF Same
<1>17. a <= proc'[q].i
  BY <1>3, <1>4, <1>5, <1>8
<1>18. UNCHANGED history
  BY <1>1
<1> QED BY <1>1, <1>8, <1>9, <1>10, <1>14, <1>15, <1>16, <1>17, <1>18, LatePreserves

\* With no inverse left the run is closed.
LEMMA CascadeEndKeeps ==
  ASSUME TypeInv, NEW q \in Proc, RInv(q), CascadeEnd(q)
  PROVE  RInv(q)'
<1>1. At(q) = "cascade" /\ UNCHANGED <<db, fs, history>> /\ InRun(q) /\ At(q) \notin Over
  BY DEF CascadeEnd
<1>2. proc[q].fail
  <2>1. PICK a \in Act : TRUE
    BY ConstantsAssumption DEF Act
  <2> QED BY <1>1, <2>1 DEF RInv, ActionInv, HoldsInv
<1>3. /\ Arrives(q) /\ SameLoop(q) /\ At(q)' \notin Aside \cup {"next", "cleanup"}
      /\ At(q)' \in {"skip", "complete"} /\ At(q)' \notin Noting
  BY <1>2, StoppedHalts, HaltedPlace DEF CascadeEnd
<1> QED BY <1>1, <1>3, MovedPreserves

\* After a human or drift outcome the later actions are journaled as skipped.
LEMMA SkipKeeps ==
  ASSUME TypeInv, NEW q \in Proc, RInv(q), Skip(q)
  PROVE  RInv(q)'
<1>1. At(q) = "skip" /\ UNCHANGED <<fs, history>> /\ InRun(q)
  BY DEF Skip
<1>2. Flagged(q) /\ proc[q].mode = "run" /\ Open(cur) /\ proc[q].i \in 1..(N + 1)
  <2>1. PICK a \in Act : TRUE
    BY ConstantsAssumption DEF Act
  <2>2. Flagged(q)
    BY <1>1, <2>1 DEF RInv, ActionInv, HoldsInv
  <2> QED BY <1>1, <2>2, InRunIs, Registers DEF RInv, PlaceInv
<1>3. CASE proc[q].i >= N
  <2>1. At(q)' = "complete" /\ SameLoop(q) /\ SameFlags(q) /\ UNCHANGED db
    BY <1>3, GotoMoves DEF Skip, Moved
  <2>2. Arrives(q)
    BY <1>2, <2>1 DEF Arrives, Placed, Reached, Needs, Tasks, Flagged, SameFlags
  <2> QED BY <1>1, <2>1, <2>2, MovedPreserves DEF Noting, Tasks
<1>4. CASE ~(proc[q].i >= N)
  <2>1. PICK j \in Act : j = proc[q].i + 1
    BY <1>2, <1>4, ConstantsAssumption DEF Act
  <2> DEFINE e == Ev("skipped", 1, FALSE, "none", "none")
  <2>2. e \in Event /\ e.st = "skipped" /\ e.att = 1 /\ e.ref = FALSE
    BY EvType DEF EventState, Method, Record, Ev
  <2>3. \/ JournalAction(q, j, e, applied[j])
        \/ TransactionFails(q)
    BY <1>4, <2>1 DEF Skip
  <2> HIDE DEF e
  <2>4. /\ At(q)' = "skip"
        /\ proc'[q].run = proc[q].run /\ proc'[q].plan = proc[q].plan /\ proc'[q].mode = proc[q].mode
        /\ proc'[q].seen = proc[q].seen /\ proc'[q].att = proc[q].att /\ proc'[q].mem = proc[q].mem
        /\ proc'[q].prep = proc[q].prep /\ SameFlags(q) /\ proc'[q].i = j
        /\ proc'[q].done = proc[q].done
    <3>1. proc'[q] = [proc[q] EXCEPT !.i = j]
      BY <1>4, <2>1, SetIs DEF Skip
    <3>2. proc[q] \in Process /\ proc[q].pc = "skip"
      BY <1>1, Registers
    <3> QED BY <3>1, <3>2 DEF Process, SameFlags
  <2>5. UNCHANGED <<cur, status, plan, file, snap, base, edited>>
    <3>1. UNCHANGED <<cur, status, plan>>
      BY <2>3 DEF JournalAction, TransactionFails, db
    <3> QED BY <1>1, <3>1 DEF fs, history
  <2>6. journal \in [Act -> Seq(Event)]
    BY DEF TypeInv, DurableOK
  <2>7. /\ \A x \in Act \ {j} : journal'[x] = journal[x]
        /\ journal'[j] = journal[j] \/ journal'[j] = Append(journal[j], e)
    BY <2>3, <2>6 DEF JournalAction, TransactionFails, db
  <2>8. journal[j] = <<PendingEvent>>
    <3>1. Ahead(q, j)
      BY <1>1, <1>2, <2>1 DEF Ahead
    <3> QED BY <1>2, <3>1 DEF RInv, ActionInv, AheadInv
  <2>9. SafeInv(j)'
    <3>1. (Open(cur)' <=> Open(cur)) /\ KindOf(j)' = KindOf(j) /\ SafeInv(j)
      BY <2>5 DEF Open, KindOf, RInv, ActionInv
    <3>2. /\ HasReference(Append(journal[j], e)) <=> HasReference(journal[j]) \/ e.ref
          /\ Referring(journal[j]) /\ (e.st = "succeeded" => e.ref) => Referring(Append(journal[j], e))
      BY <2>6, AppendReference
    <3>3. HasReference(journal[j]) <=> HasReference(journal'[j])
      BY <2>2, <2>7, <3>2
    <3>4. Referring(journal[j]) => Referring(journal'[j])
      BY <2>2, <2>7, <3>2
    <3> QED BY <2>5, <3>1, <3>3, <3>4 DEF SafeInv
  <2>10. JournalInv(q, j)'
    <3>1. Ordered(journal'[j])
      <4>1. journal[j] \in Seq(Event) /\ Ordered(journal[j]) /\ Quiet(journal[j], e.att)
        BY <2>2, <2>6, <2>8, PendingOrdered
      <4>2. Ordered(Append(journal[j], e))
        BY <2>2, <4>1, AppendQuiet
      <4> QED BY <2>7, <4>1, <4>2
    <3>2. \A n \in 1..Len(proc'[q].done) : proc'[q].done[n].a # j
      <4>1. \A n \in 1..Len(proc[q].done) : proc[q].done[n].a < proc[q].i
        BY DEF RInv, PlaceInv
      <4>2. \A n \in 1..Len(proc[q].done) : proc[q].done[n].a \in Int
        <5>1. proc[q].done \in Seq(Done)
          BY Registers
        <5>2. \A n \in 1..Len(proc[q].done) : proc[q].done[n] \in Done
          BY <5>1
        <5> QED BY <5>2 DEF Done, Act
      <4> QED BY <1>2, <2>1, <2>4, <4>1, <4>2
    <3>3. At(q)' \notin Noting
      BY <2>4 DEF Noting, Tasks
    <3> HIDE DEF At, InRun
    <3> QED BY <3>1, <3>2, <3>3 DEF JournalInv
  <2>11. \A x \in Act \ {j} : Same(x)
    BY <2>5, <2>7 DEF Same
  <2>12. j <= proc'[q].i /\ UNCHANGED history
    BY <1>1, <1>2, <2>1, <2>4 DEF Act
  <2> QED BY <1>1, <2>1, <2>4, <2>5, <2>9, <2>10, <2>11, <2>12, LatePreserves
<1> QED BY <1>3, <1>4
----------------------------------------------------------------------------
(* How a run begins and ends. *)

\* What holds of the durable state whoever works on it.
Core ==
  /\ \A r \in Run : r > cur => snap[r] = [a \in Act |-> "none"]
  /\ \A a \in Act : /\ Open(cur) => Ordered(journal[a])
                    /\ SafeInv(a) /\ ConvergedInv(a)

\* The invariant of an invocation contains it.
LEMMA CoreOf ==
  ASSUME NEW q \in Proc, RInv(q)
  PROVE  Core
  BY DEF RInv, RunInv, ActionInv, JournalInv, Core

\* The same after a step.
LEMMA CoreAfter ==
  ASSUME NEW q \in Proc, RInv(q)'
  PROVE  Core'
<1> HIDE DEF At, InRun
<1> QED BY DEF RInv, RunInv, ActionInv, JournalInv, Core

\* The durable state that Core is about stays.
LEMMA CoreStays ==
  ASSUME Core, UNCHANGED <<db, fs, history>>
  PROVE  Core'
<1>1. UNCHANGED <<cur, status, plan, journal, applied, file, snap, base, edited>>
  BY DEF db, fs, history
<1>2. (Open(cur)' <=> Open(cur)) /\ \A a \in Act : KindOf(a)' = KindOf(a)
  BY <1>1 DEF Open, KindOf
<1>3. \A a \in Act : SafeInv(a) => SafeInv(a)'
  BY <1>1, <1>2 DEF SafeInv
<1>4. \A a \in Act : ConvergedInv(a) => ConvergedInv(a)'
  BY <1>1, <1>2 DEF ConvergedInv, Holds
<1> QED BY <1>1, <1>2, <1>3, <1>4 DEF Core

\* An invocation that has not entered a run relies on nothing else.
LEMMA AsideKnows ==
  ASSUME NEW q \in Proc, Core', At(q)' \in Aside, Fresh(q)',
         At(q)' = "abandon" => proc'[q].run = cur' /\ Open(cur)'
  PROVE  RInv(q)'
<1>1. /\ ~InRun(q)' /\ ~Forward(q)' /\ At(q)' \notin Noting \cup Tasks \cup Rolling
      /\ At(q)' \notin {"installer", "verify", "reverify", "skip", "succeed", "agentSucceed", "complete", "cleanup"}
      /\ At(q)' \notin {"idle", "planned"} \cup Over => At(q)' = "abandon"
  BY DEF Forward, Noting, Tasks
<1>2. proc'[q].done = <<>> /\ proc'[q].mode = "run" /\ proc'[q].att = 1
  BY DEF Fresh
<1> HIDE DEF At, InRun
<1>3. RunInv(q)'
  BY <1>1, <1>2 DEF RunInv, Core
<1>4. PlaceInv(q)'
  BY <1>1, <1>2 DEF PlaceInv
<1>5. ASSUME NEW a \in Act
      PROVE  ActionInv(q, a)'
  <2>1. AheadInv(q, a)' /\ PreimageInv(q, a)' /\ HoldsInv(q, a)'
    BY <1>1 DEF AheadInv, Ahead, PreimageInv, HoldsInv
  <2>2. JournalInv(q, a)' /\ SafeInv(a)' /\ ConvergedInv(a)'
    BY <1>1, <1>2 DEF Core, JournalInv
  <2> QED BY <2>1, <2>2 DEF ActionInv
<1> QED BY <1>3, <1>4, <1>5 DEF RInv

\* An invocation enters the loop at its first action.
LEMMA EntersLoop ==
  ASSUME NEW q \in Proc, Core', At(q)' = "next", Open(cur)',
         proc'[q].run = cur', proc'[q].plan = plan'[cur'], proc'[q].i = 1, proc'[q].done = <<>>,
         proc'[q].mem = [a \in Act |-> "none"], proc'[q].prep = FALSE,
         proc'[q].mode = "run" => proc'[q].att = 1,
         \A a \in Act : AheadInv(q, a)'
  PROVE  RInv(q)'
<1>1. /\ InRun(q)' /\ At(q)' \notin Noting \cup Tasks \cup Rolling \cup Aside
      /\ At(q)' \notin {"installer", "verify", "reverify", "skip", "succeed", "agentSucceed", "complete", "cleanup",
                        "prepare", "running", "execute", "intUnlink", "abandon"}
  BY DEF Noting, Tasks
<1> HIDE DEF At, InRun
<1>2. RunInv(q)'
  BY <1>1 DEF RunInv, Core
<1>3. PlaceInv(q)'
  BY <1>1 DEF PlaceInv
<1>4. ASSUME NEW a \in Act
      PROVE  ActionInv(q, a)'
  <2>1. JournalInv(q, a)' /\ SafeInv(a)' /\ ConvergedInv(a)'
    BY <1>1 DEF Core, JournalInv
  <2>2. PreimageInv(q, a)'
    BY <1>1 DEF PreimageInv
  <2>3. HoldsInv(q, a)'
    <3>1. ~(a < 1)
      BY DEF Act
    <3> QED BY <1>1, <3>1 DEF HoldsInv
  <2> QED BY <2>1, <2>2, <2>3 DEF ActionInv
<1> QED BY <1>2, <1>3, <1>4 DEF RInv

\* A new invocation has seen nothing.
LEMMA IdleIs ==
  /\ Idle \in Process /\ Idle.pc = "idle" /\ Idle.i = 1 /\ Idle.att = 1 /\ Idle.mode = "run" /\ Idle.done = <<>>
  /\ Idle.mem = [a \in Act |-> "none"] /\ Idle.prep = FALSE
  /\ Idle.fail = FALSE /\ Idle.human = FALSE /\ Idle.drift = FALSE
<1>1. Idle \in Process
  BY IdleGood DEF Good
<1> QED BY <1>1 DEF Idle

\* Planning and asking to abandon change nothing.
LEMMA PlanKeeps ==
  ASSUME TypeInv, NEW q \in Proc, RInv(q), Plan(q) \/ AbandonStart(q)
  PROVE  RInv(q)'
<1>1. UNCHANGED <<db, fs, history>> /\ UNCHANGED <<cur, status, plan>>
  BY DEF Plan, AbandonStart, db
<1>2. Core'
  BY <1>1, CoreOf, CoreStays
<1>3. CASE Plan(q)
  <2>1. PICK pl : Set(q, [Idle EXCEPT !.pc = "planned", !.plan = pl, !.inp = applied])
    BY <1>3 DEF Plan
  <2>2. proc'[q] = [Idle EXCEPT !.pc = "planned", !.plan = pl, !.inp = applied]
    BY <2>1, SetIs
  <2>3. At(q)' = "planned" /\ Fresh(q)'
    BY <2>2, IdleIs DEF Process, Fresh, Flagged
  <2> QED BY <1>2, <2>3, AsideKnows
<1>4. CASE AbandonStart(q)
  <2>1. Set(q, [Idle EXCEPT !.pc = "abandon", !.run = cur, !.plan = plan[cur], !.inp = applied])
    BY <1>4 DEF AbandonStart
  <2>2. proc'[q] = [Idle EXCEPT !.pc = "abandon", !.run = cur, !.plan = plan[cur], !.inp = applied]
    BY <2>1, SetIs
  <2>3. At(q)' = "abandon" /\ Fresh(q)' /\ proc'[q].run = cur
    BY <2>2, IdleIs DEF Process, Fresh, Flagged
  <2>4. Open(cur)'
    BY <1>1, <1>4 DEF AbandonStart, Open
  <2> QED BY <1>1, <1>2, <2>3, <2>4, AsideKnows
<1> QED BY <1>3, <1>4

\* startRun opens a run whose snapshots and journal are empty.
LEMMA StartRunKeeps ==
  ASSUME TypeInv, NEW q \in Proc, RInv(q), StartRun(q)
  PROVE  RInv(q)'
<1>1. /\ At(q) = "planned" /\ cur < MaxRuns /\ cur' = cur + 1 /\ journal' = [a \in Act |-> <<PendingEvent>>]
      /\ base'.file = file /\ edited' = {} /\ UNCHANGED <<file, snap>>
  BY DEF StartRun, fs
<1>2. cur \in Int /\ cur' \in Run /\ cur' > cur /\ \A r \in Run : r \in Int
  BY <1>1, ConstantsAssumption DEF TypeInv, DurableOK, Run
<1>3. status'[cur'] = "applying" /\ plan'[cur'] = proc[q].plan
  BY <1>2 DEF StartRun, TypeInv, DurableOK
<1>4. Fresh(q)
  BY <1>1 DEF RInv, RunInv
<1>5. /\ At(q)' = "next" /\ proc'[q].run = cur' /\ proc'[q].plan = proc[q].plan
      /\ proc'[q].i = 1 /\ proc'[q].done = <<>> /\ proc'[q].mem = [a \in Act |-> "none"]
      /\ proc'[q].prep = FALSE /\ proc'[q].mode = "run" /\ proc'[q].att = 1
  <2>1. proc'[q] = [proc[q] EXCEPT !.pc = "next", !.run = cur + 1] /\ proc[q] \in Process
    BY SetIs, Registers DEF StartRun
  <2> QED BY <1>1, <1>4, <2>1 DEF Process, Fresh
<1>6. Open(cur)'
  BY <1>2, <1>3 DEF Open, Recoverable
<1>7. snap'[cur'] = [a \in Act |-> "none"] /\ \A r \in Run : r > cur' => snap'[r] = [a \in Act |-> "none"]
  <2>1. \A r \in Run : r > cur => snap[r] = [a \in Act |-> "none"]
    BY DEF RInv, RunInv
  <2> QED BY <1>1, <1>2, <2>1
<1>8. Core'
  <2>1. ASSUME NEW a \in Act
        PROVE  Ordered(journal'[a]) /\ SafeInv(a)' /\ ConvergedInv(a)'
    <3>1. journal'[a] = <<PendingEvent>> /\ file'[a] = base'.file[a] /\ snap'[cur'][a] = "none"
      BY <1>1, <1>7
    <3>2. SafeInv(a)'
      BY <3>1, PendingOrdered DEF SafeInv
    <3>3. ConvergedInv(a)'
      BY <1>3 DEF ConvergedInv
    <3> QED BY <3>1, <3>2, <3>3, PendingOrdered
  <2> QED BY <1>7, <2>1 DEF Core
<1>9. \A a \in Act : AheadInv(q, a)'
  BY <1>1, <1>5 DEF AheadInv
<1> HIDE DEF At
<1> QED BY <1>3, <1>5, <1>6, <1>8, <1>9, EntersLoop

\* Recovery loads the open run and what its journals say.
LEMMA RecoverStartKeeps ==
  ASSUME TypeInv, NEW q \in Proc, RInv(q), RecoverStart(q)
  PROVE  RInv(q)'
<1>1. UNCHANGED <<db, fs, history>> /\ UNCHANGED <<cur, status, plan, journal>> /\ Open(cur)
  BY DEF RecoverStart, db
<1>2. Core' /\ Open(cur)'
  BY <1>1, CoreOf, CoreStays DEF Open
<1> DEFINE sn == [a \in Act |-> [last |-> Last(journal[a]), ref |-> HasReference(journal[a])]]
           rs == [a \in Act |-> IF Displaced(journal[a]) # "none"
                                THEN Displaced(journal[a]) ELSE applied[a]]
           b == drifts # {}
<1>3. Set(q, [Idle EXCEPT !.pc = "next", !.mode = "recover", !.run = cur, !.plan = plan[cur],
                          !.inp = rs, !.seen = sn, !.drift = b])
  BY DEF RecoverStart
<1> HIDE DEF sn, rs, b
<1>4. /\ At(q)' = "next" /\ proc'[q].run = cur /\ proc'[q].plan = plan[cur]
      /\ proc'[q].i = 1 /\ proc'[q].done = <<>> /\ proc'[q].mem = [a \in Act |-> "none"]
      /\ proc'[q].prep = FALSE /\ proc'[q].mode = "recover" /\ proc'[q].seen = sn
  <2>1. proc'[q] = [Idle EXCEPT !.pc = "next", !.mode = "recover", !.run = cur, !.plan = plan[cur],
                                !.inp = rs, !.seen = sn, !.drift = b]
    BY <1>3, SetIs
  <2> QED BY <2>1, IdleIs DEF Process
<1>5. ASSUME NEW a \in Act
      PROVE  AheadInv(q, a)'
  <2>1. proc'[q].seen[a] = [last |-> Last(journal'[a]), ref |-> HasReference(journal'[a])]
    BY <1>1, <1>4 DEF sn
  <2> QED BY <1>4, <2>1 DEF AheadInv
<1> HIDE DEF At
<1> QED BY <1>1, <1>2, <1>4, <1>5, EntersLoop

\* An invocation that ends without touching anything.
LEMMA EndsKeeps ==
  ASSUME TypeInv, NEW q \in Proc, RInv(q), Set(q, Idle), UNCHANGED <<db, fs, history>>
  PROVE  RInv(q)'
<1>1. proc'[q] = Idle /\ UNCHANGED <<cur, status, plan, journal, applied, file, snap, base, edited>>
  BY SetIs DEF db, fs, history
<1>2. Leaves(q)
  BY <1>1 DEF Leaves, Open
<1> QED BY <1>2, LeavesPreserves

\* startRun or completeRun refused.
LEMMA RefusedKeeps ==
  ASSUME TypeInv, NEW q \in Proc, RInv(q), StartRefused(q) \/ CompleteFails(q)
  PROVE  RInv(q)'
<1>1. Set(q, Idle) /\ UNCHANGED <<db, fs, history>>
  BY FailsKeeps DEF StartRefused, CompleteFails
<1> QED BY <1>1, EndsKeeps

\* recover --abandon closes the run as Failed.
LEMMA AbandonKeeps ==
  ASSUME TypeInv, NEW q \in Proc, RInv(q), Abandon(q)
  PROVE  RInv(q)'
<1>1. At(q) = "abandon" /\ proc'[q] = Idle /\ UNCHANGED <<fs, base, edited>>
  BY SetIs DEF Abandon
<1>2. proc[q].run = cur
  BY <1>1 DEF RInv, RunInv
<1>3. UNCHANGED <<file, snap>>
  BY <1>1 DEF fs
<1>4. CASE TransactionFails(q)
  <2>1. UNCHANGED <<cur, status, plan, journal, applied>>
    BY <1>4 DEF TransactionFails, db
  <2>2. Leaves(q)
    BY <1>1, <1>3, <2>1 DEF Leaves, Open
  <2> QED BY <2>2, LeavesPreserves
<1>5. CASE ~TransactionFails(q)
  <2>1. Open(cur) /\ status' = [status EXCEPT ![cur] = "Failed"] /\ UNCHANGED <<cur, plan, journal>>
    BY <1>2, <1>5 DEF Abandon
  <2>2. status'[cur] = "Failed"
    BY <2>1 DEF Open, TypeInv, DurableOK
  <2>3. ~Open(cur)'
    BY <2>1, <2>2 DEF Open, Recoverable
  <2>4. Leaves(q)
    BY <1>1, <1>3, <2>1, <2>2, <2>3 DEF Leaves
  <2> QED BY <2>4, LeavesPreserves
<1> QED BY <1>4, <1>5

\* completeRun: Converged is only said when every action holds.
LEMMA CompleteKeeps ==
  ASSUME TypeInv, NEW q \in Proc, RInv(q), Complete(q)
  PROVE  RInv(q)'
<1>1. /\ At(q) = "complete" /\ InRun(q) /\ UNCHANGED <<cur, plan, journal, fs, base, edited>>
  BY DEF Complete
<1>2. UNCHANGED <<file, snap>> /\ \A a \in Act : KindOf(a)' = KindOf(a)
  BY <1>1 DEF fs, KindOf
<1>3. proc[q].run = cur /\ cur \in Run /\ \A a \in Act : proc[q].plan[a] = KindOf(a)
  BY <1>1, InRunIs
<1> DEFINE o == Outcome(proc[q])
<1>4. /\ status' = [status EXCEPT ![cur] = o]
      /\ o = "Converged" => applied' = [a \in Act |-> CASE KindOf(a) \in Owning -> "new"
                                                        [] KindOf(a) = "remove" -> "none"
                                                        [] OTHER -> applied[a]]
  BY <1>3 DEF Complete
<1>5. o \in Terminal /\ (o = "Converged" => ~Flagged(q))
  <2>1. proc[q].fail \in BOOLEAN /\ proc[q].drift \in BOOLEAN /\ proc[q].human \in BOOLEAN
    BY Registers DEF Process
  <2> QED BY <2>1 DEF Outcome, Terminal, Flagged
<1> HIDE DEF o
<1>6. status'[cur] = o
  BY <1>3, <1>4 DEF TypeInv, DurableOK
<1>7. ~Open(cur)'
  BY <1>1, <1>5, <1>6 DEF Open, Recoverable, Terminal
<1>8. Moved(q, "cleanup")
  BY GotoMoves DEF Complete
<1>9. /\ At(q)' = "cleanup" /\ SameLoop(q)
  BY <1>8 DEF Moved
<1>10. RunInv(q)'
  <2>1. RunInv(q)
    BY DEF RInv
  <2> QED BY <1>1, <1>2, <1>3, <1>7, <1>9, <2>1 DEF RunInv, SameLoop
<1>11. PlaceInv(q)'
  <2>1. PlaceInv(q)
    BY DEF RInv
  <2> QED BY <1>9, <2>1 DEF PlaceInv, SameLoop, Tasks
<1>12. ASSUME NEW a \in Act
       PROVE  ActionInv(q, a)'
  <2>1. AheadInv(q, a)' /\ JournalInv(q, a)' /\ SafeInv(a)' /\ PreimageInv(q, a)'
    BY <1>7 DEF AheadInv, JournalInv, SafeInv, PreimageInv
  <2>2. HoldsInv(q, a)'
    BY <1>9 DEF HoldsInv, Forward
  <2>3. ConvergedInv(a)'
    <3> SUFFICES ASSUME o = "Converged"
                 PROVE  Holds(a)' /\ (KindOf(a) \in Owning => applied'[a] = "new")
                        /\ (KindOf(a) = "remove" => applied'[a] = "none")
      BY <1>1, <1>2, <1>6 DEF ConvergedInv
    <3>1. Holds(a)
      BY <1>1, <1>5 DEF RInv, ActionInv, HoldsInv
    <3>2. Holds(a)'
      BY <1>1, <1>2, <3>1 DEF Holds
    <3> QED BY <1>4, <3>2 DEF Owning
  <2> HIDE DEF At
  <2> QED BY <2>1, <2>2, <2>3 DEF ActionInv
<1> QED BY <1>10, <1>11, <1>12 DEF RInv

\* The snapshots go once the run is closed.
LEMMA CleanupKeeps ==
  ASSUME TypeInv, NEW q \in Proc, RInv(q), Cleanup(q)
  PROVE  RInv(q)'
<1>1. At(q) = "cleanup" /\ InRun(q) /\ proc'[q] = Idle /\ UNCHANGED <<db, file, history>>
  BY SetIs DEF Cleanup
<1>2. UNCHANGED <<cur, status, plan, journal, applied, file, base, edited>> /\ ~Open(cur)
  BY <1>1 DEF db, history, RInv, RunInv
<1>3. \A r \in Run : r # cur => snap'[r] = snap[r]
  <2>1. proc[q].run = cur /\ cur \in Run
    BY <1>1, InRunIs
  <2>2. PICK s : snap' = [snap EXCEPT ![cur] = s]
    BY <2>1 DEF Cleanup
  <2> QED BY <2>2 DEF TypeInv, DurableOK
<1>4. \A r \in Run : r > cur => r # cur
  BY ConstantsAssumption DEF Run, TypeInv, DurableOK
<1>5. Leaves(q)
  BY <1>1, <1>2, <1>3, <1>4 DEF Leaves, Open
<1> QED BY <1>5, LeavesPreserves
----------------------------------------------------------------------------
(* Recovery. *)

\* The recovery loop moves to an action under a new attempt.
LEMMA RecoverMoves ==
  ASSUME TypeInv, NEW q \in Proc, RInv(q), At(q) = "next", proc[q].mode = "recover", Arrives(q),
         At(q)' \notin Aside \cup {"next", "cleanup", "intComplete"},
         proc'[q].run = proc[q].run, proc'[q].plan = proc[q].plan, proc'[q].mode = proc[q].mode,
         proc'[q].seen = proc[q].seen, proc'[q].i = proc[q].i, proc'[q].done = proc[q].done,
         proc'[q].mem = proc[q].mem, proc'[q].prep = proc[q].prep,
         UNCHANGED <<db, fs, history>>,
         \A a \in Act : a = proc[q].i => Quiet(journal[a], proc'[q].att) /\ proc'[q].att >= 1
  PROVE  RInv(q)'
<1>1. UNCHANGED <<cur, status, plan, journal, applied, file, snap, base, edited>>
  BY DEF db, fs, history
<1>2. \A a \in Act : Same(a)
  BY <1>1 DEF Same
<1>3. Works(q)
  BY <1>1, <1>2 DEF Works, Frame
<1>4. ~Stacked(q)
  <2>1. ASSUME NEW prev, proc'[q].done = Append(proc[q].done, [a |-> proc[q].i, att |-> proc'[q].att, prev |-> prev])
        PROVE  FALSE
    <3>1. proc[q].done \in Seq(Done) /\ proc'[q].done = proc[q].done
      BY Registers
    <3>2. Len(proc'[q].done) = Len(proc[q].done) + 1 /\ Len(proc[q].done) \in Nat
      BY <2>1, <3>1, Appended
    <3> QED BY <3>1, <3>2
  <2> QED BY <2>1 DEF Stacked
<1>5. Placed(q) /\ Reached(q)
  BY DEF Arrives
<1>6. ASSUME NEW a \in Act, a = proc[q].i
      PROVE  JournalInv(q, a)' /\ SafeInv(a)' /\ PreimageInv(q, a)'
  <2>1. Ordered(journal[a]) 
    BY <1>6, NextFinds
  <2>2. JournalInv(q, a)'
    <3> HIDE DEF At
    <3> QED BY <1>1, <1>3, <1>4, <1>6, <2>1, JournalAt
  <2>3. InRun(q) /\ At(q) \notin Behind
    OBVIOUS
  <2>4. Backed(a) => /\ snap[cur][a] \in {"none", base.file[a]}
                     /\ HasReference(journal[a]) => snap[cur][a] = base.file[a]
                     /\ file[a] # base.file[a] => HasReference(journal[a])
                     /\ Referring(journal[a])
                     /\ proc[q].mem[a] \in {"none", snap[cur][a]}
                     /\ proc[q].prep => snap[cur][a] = base.file[a]
    BY <1>6, <2>3, Backing
  <2>5. SafeInv(a)'
    BY <1>1, <1>3, <2>4, SafeAt
  <2>6. PreimageInv(q, a)'
    <3> HIDE DEF At
    <3> QED BY <1>1, <1>3, <1>4, <1>6, <2>4, PreimageAt DEF Arrives, Needs
  <2> QED BY <2>2, <2>5, <2>6
<1> QED BY <1>3, <1>5, <1>6, WorksPreserves

\* The registers of the next attempt.
LEMMA AttemptIs ==
  ASSUME TypeInv, NEW q \in Proc, NEW att \in Nat
  PROVE  LET ps == [proc[q] EXCEPT !.att = att, !.undone = TRUE] IN
         /\ ps \in Process /\ ps.att = att /\ ps.run = proc[q].run /\ ps.plan = proc[q].plan
         /\ ps.mode = proc[q].mode /\ ps.seen = proc[q].seen /\ ps.i = proc[q].i /\ ps.done = proc[q].done
         /\ ps.mem = proc[q].mem /\ ps.prep = proc[q].prep
         /\ ps.fail = proc[q].fail /\ ps.human = proc[q].human /\ ps.drift = proc[q].drift
<1>1. proc[q] \in Process
  BY Registers
<1> QED BY <1>1 DEF Process

\* Registers that only the loop's choice has changed.
Chosen(q, ps, x) ==
  /\ x.att = ps.att /\ x.run = ps.run /\ x.plan = ps.plan /\ x.mode = ps.mode /\ x.seen = ps.seen
  /\ x.i = ps.i /\ x.done = ps.done /\ x.mem = ps.mem /\ x.prep = ps.prep

\* What each choice of the recovery loop sets.
LEMMA ChosenIs ==
  ASSUME NEW q, NEW ps \in Process, ps.mode = "recover"
  PROVE  /\ \A l : LET x == [ps EXCEPT !.pc = l] IN Chosen(q, ps, x) /\ x.pc = l
         /\ \A own : LET x == [ps EXCEPT !.pc = "restore", !.own = own] IN Chosen(q, ps, x) /\ x.pc = "restore"
         /\ \A k : LET x == Preserved(ps, k) IN
              /\ Chosen(q, ps, x)
              /\ \/ x.pc = "complete" /\ (x.fail \/ x.human \/ x.drift)
                 \/ x.pc \in {"cascade", "ownback"} /\ x.fail
<1>1. \A l : LET x == [ps EXCEPT !.pc = l] IN Chosen(q, ps, x) /\ x.pc = l
  BY DEF Chosen, Process
<1>2. \A own : LET x == [ps EXCEPT !.pc = "restore", !.own = own] IN Chosen(q, ps, x) /\ x.pc = "restore"
  BY DEF Chosen, Process
<1>3. ASSUME NEW k
      PROVE  LET x == Preserved(ps, k) IN
               /\ Chosen(q, ps, x)
               /\ \/ x.pc = "complete" /\ (x.fail \/ x.human \/ x.drift)
                  \/ x.pc \in {"cascade", "ownback"} /\ x.fail
  <2>1. CASE k \in {"human", "agent"}
    <3>1. Preserved(ps, k) = [[ps EXCEPT !.human = TRUE] EXCEPT !.pc = "complete"]
      BY <2>1 DEF Preserved, Stopped, Process
    <3> QED BY <3>1 DEF Chosen, Process
  <2>2. CASE k = "drift"
    <3>1. Preserved(ps, k) = [[ps EXCEPT !.drift = TRUE] EXCEPT !.pc = "complete"]
      BY <2>2 DEF Preserved, Stopped, Process
    <3> QED BY <3>1 DEF Chosen, Process
  <2>3. CASE k \notin {"human", "agent", "drift"}
    <3>1. PICK l \in {"ownback", "cascade"} : Preserved(ps, k) = [ps EXCEPT !.fail = TRUE, !.pc = l]
      BY <2>3 DEF Preserved, FailedAction
    <3> QED BY <3>1 DEF Chosen, Process
  <2> QED BY <2>1, <2>2, <2>3
<1> QED BY <1>1, <1>2, <1>3

\* The loop's choice relies on what the journal says of the action.
LEMMA RecoverNextKeeps ==
  ASSUME TypeInv, NEW q \in Proc, RInv(q), RecoverNext(q)
  PROVE  RInv(q)'
<1>1. At(q) = "next" /\ proc[q].mode = "recover" /\ proc[q].i <= N /\ UNCHANGED <<db, fs, history>>
  BY DEF RecoverNext
<1>2. PICK i \in Act : i = proc[q].i
  BY <1>1, Registers, ConstantsAssumption DEF Act
<1> DEFINE last == proc[q].seen[proc[q].i].last
           ref == proc[q].seen[proc[q].i].ref
           k == K(q)
           ps == [proc[q] EXCEPT !.att = NextAttempt(last), !.undone = TRUE]
           completedRemoval == k = "remove" /\ last.st = "succeeded"
<1>3. /\ last = Last(journal[i]) /\ ref = HasReference(journal[i])
      /\ Ordered(journal[i]) /\ journal[i] \in Seq(Event)
  <2>1. /\ proc[q].seen[i] = [last |-> Last(journal[i]), ref |-> HasReference(journal[i])]
        /\ Ordered(journal[i]) /\ journal[i] \in Seq(Event)
    BY <1>1, <1>2, NextFinds, JournalType
  <2> QED BY <1>2, <2>1
<1>4. last \in Event /\ Quiet(journal[i], last.att + 1) /\ last.att + 1 >= 1
  BY <1>3, NextIsQuiet
<1>5. last.att \in Nat /\ last.ref \in BOOLEAN /\ ref \in BOOLEAN /\ last.st \in EventState
  BY <1>3, <1>4 DEF Event, HasReference
<1>6. InRun(q) /\ k = KindOf(i) /\ Open(cur) /\ UNCHANGED <<cur, status, plan, journal, file, snap, base, edited>>
  BY <1>1, <1>2, InRunIs DEF db, fs, history
<1>7. Set(q, CASE last.st = "skipped" -> Preserved(ps, k)
               [] last.st = "succeeded" /\ k = "transfer" -> Verified(ps, FALSE)
               [] k = "install" /\ last.st \notin {"pending", "skipped"} ->
                    [ps EXCEPT !.pc = "installer"]
               [] completedRemoval /\ last.ref ->
                    [ps EXCEPT !.pc = "restore", !.own = last.prev]
               [] completedRemoval /\ ~last.ref -> Idle
               [] last.st = "succeeded" /\ k \notin {"transfer", "install", "remove"} ->
                    [ps EXCEPT !.pc = "reverify"]
               [] last.st \in {"running", "failed"} /\ k # "install" /\ ref ->
                    [ps EXCEPT !.pc = "restore"]
               [] OTHER -> [ps EXCEPT !.pc = Entry(k)])
  BY Zenon DEF RecoverNext
<1>8. /\ ps \in Process /\ ps.att = last.att + 1 /\ ps.run = proc[q].run /\ ps.plan = proc[q].plan
      /\ ps.mode = proc[q].mode /\ ps.seen = proc[q].seen /\ ps.i = proc[q].i /\ ps.done = proc[q].done
      /\ ps.mem = proc[q].mem /\ ps.prep = proc[q].prep
      /\ ps.fail = proc[q].fail /\ ps.human = proc[q].human /\ ps.drift = proc[q].drift
  <2>1. NextAttempt(last) = last.att + 1 /\ last.att + 1 \in Nat
    BY <1>5 DEF NextAttempt
  <2> HIDE DEF last
  <2> DEFINE att == NextAttempt(last)
  <2>2. att \in Nat
    BY <2>1
  <2> QED BY <2>1, <2>2, AttemptIs
<1> HIDE DEF last, ref, k, ps
<1>9. ASSUME NEW x, Set(q, x), Chosen(q, ps, x), Arrives(q),
             At(q)' \notin Aside \cup {"next", "cleanup", "intComplete"}
      PROVE  RInv(q)'
  <2>1. proc'[q] = x
    BY <1>9, SetIs
  <2>2. \A a \in Act : a = proc[q].i => Quiet(journal[a], proc'[q].att) /\ proc'[q].att >= 1
    BY <1>2, <1>4, <1>8, <1>9, <2>1 DEF Chosen
  <2>3. /\ proc'[q].run = proc[q].run /\ proc'[q].plan = proc[q].plan /\ proc'[q].mode = proc[q].mode
        /\ proc'[q].seen = proc[q].seen /\ proc'[q].i = proc[q].i /\ proc'[q].done = proc[q].done
        /\ proc'[q].mem = proc[q].mem /\ proc'[q].prep = proc[q].prep
    BY <1>8, <1>9, <2>1 DEF Chosen
  <2> HIDE DEF At
  <2> QED BY <1>1, <1>9, <2>2, <2>3, RecoverMoves
<1>10. ASSUME NEW x, Set(q, x), Chosen(q, ps, x)
       PROVE  K(q)' = k /\ At(q)' = x.pc
  BY <1>8, <1>10, SetIs DEF K, Chosen, k
<1>11. CASE last.st = "skipped"
  <2> DEFINE x == Preserved(ps, k)
  <2>1. Set(q, x)
    BY <1>7, <1>11
  <2>2. /\ Chosen(q, ps, x)
        /\ \/ x.pc = "complete" /\ (x.fail \/ x.human \/ x.drift)
           \/ x.pc \in {"cascade", "ownback"} /\ x.fail
    BY <1>1, <1>8, ChosenIs
  <2> HIDE DEF x
  <2>3. proc'[q] = x
    BY <2>1, SetIs
  <2>4. Arrives(q) /\ At(q)' \notin Aside \cup {"next", "cleanup", "intComplete"}
    BY <2>2, <2>3 DEF Arrives, Placed, Reached, Needs, Tasks, Flagged
  <2> QED BY <1>9, <2>1, <2>2, <2>4
<1>12. CASE last.st = "succeeded" /\ k = "transfer"
  <2>1. Set(q, Verified(ps, FALSE))
    BY <1>7, <1>12
  <2>2. Passed(q, FALSE)
    BY <1>1, <1>8, <2>1, VerifiedPasses
  <2>3. Holds(i)
    BY <1>6, <1>12 DEF Holds, Owning
  <2>4. SafeInv(i)'
    BY <1>6, <1>12 DEF SafeInv, KindOf, FileBacked
  <2> QED BY <1>1, <1>2, <1>3, <1>6, <2>2, <2>3, <2>4, PassedPreserves
<1>13. CASE k = "install" /\ last.st \notin {"pending", "skipped"}
  <2> DEFINE x == [ps EXCEPT !.pc = "installer"]
  <2>1. Set(q, x)
    BY <1>7, <1>13
  <2>2. Chosen(q, ps, x) /\ x.pc = "installer"
    BY <1>1, <1>8, ChosenIs
  <2> HIDE DEF x
  <2>3. At(q)' = "installer" /\ K(q)' = "install"
    BY <1>10, <1>13, <2>1, <2>2
  <2>4. Arrives(q) /\ At(q)' \notin Aside \cup {"next", "cleanup", "intComplete"}
    BY <2>3 DEF Arrives, Placed, Reached, Needs, Tasks
  <2> QED BY <1>9, <2>1, <2>2, <2>4
<1>14. CASE k = "remove" /\ last.st = "succeeded" /\ ~last.ref
  <2>1. Set(q, Idle)
    BY <1>7, <1>14
  <2> QED BY <1>1, <2>1, EndsKeeps
<1>15. CASE \/ k = "remove" /\ last.st = "succeeded" /\ last.ref
            \/ last.st \in {"running", "failed"} /\ k # "install" /\ ref
  <2>1. \/ Set(q, [ps EXCEPT !.pc = "restore", !.own = last.prev])
        \/ Set(q, [ps EXCEPT !.pc = "restore"])
    BY <1>7, <1>15
  <2>2. \E x : Set(q, x) /\ Chosen(q, ps, x) /\ x.pc = "restore"
    <3> DEFINE x == [ps EXCEPT !.pc = "restore"]
               y == [ps EXCEPT !.pc = "restore", !.own = last.prev]
    <3>1. Chosen(q, ps, x) /\ x.pc = "restore" /\ Chosen(q, ps, y) /\ y.pc = "restore"
      BY <1>1, <1>8, ChosenIs
    <3>2. Set(q, x) \/ Set(q, y)
      BY <2>1
    <3> HIDE DEF x, y
    <3> QED BY <3>1, <3>2
  <2>6. PICK x : Set(q, x) /\ Chosen(q, ps, x) /\ x.pc = "restore"
    BY <2>2
  <2>3. At(q)' = "restore"
    BY <1>10, <2>6
  <2>4. Arrives(q) /\ At(q)' \notin Aside \cup {"next", "cleanup", "intComplete"}
    BY <2>3, PlainPlace
  <2> QED BY <1>9, <2>4, <2>6
<1>16. CASE last.st = "succeeded" /\ k \notin {"transfer", "install", "remove"}
  <2> DEFINE x == [ps EXCEPT !.pc = "reverify"]
  <2>1. Set(q, x)
    BY <1>7, <1>16
  <2>2. Chosen(q, ps, x) /\ x.pc = "reverify"
    BY <1>1, <1>8, ChosenIs
  <2> HIDE DEF x
  <2>3. At(q)' = "reverify" /\ K(q)' = k
    BY <1>10, <2>1, <2>2
  <2>4. Backed(i) => snap[cur][i] = base.file[i]
    <3>1. Referring(journal[i]) => HasReference(journal[i])
      <4>1. Len(journal[i]) \in 1..Len(journal[i])
        BY <1>3 DEF Ordered, ValidJournal
      <4> QED BY <1>3, <1>16, <4>1 DEF Referring, HasReference, Last
    <3> QED BY <1>6, <3>1, Backing
  <2>5. Needs(q)
    BY <1>2, <1>6, <2>3, <2>4 DEF Needs
  <2>6. Arrives(q) /\ At(q)' \notin Aside \cup {"next", "cleanup", "intComplete"}
    BY <1>16, <2>3, <2>5 DEF Arrives, Placed, Reached, Tasks
  <2> QED BY <1>9, <2>1, <2>2, <2>6
<1>17. CASE \/ last.st \in {"running", "failed"} /\ k # "install" /\ ~ref
            \/ last.st = "pending"
  <2> DEFINE x == [ps EXCEPT !.pc = Entry(k)]
  <2>1. Set(q, x)
    BY <1>7, <1>17
  <2>2. Chosen(q, ps, x) /\ x.pc = Entry(k)
    BY <1>1, <1>8, ChosenIs
  <2> HIDE DEF x
  <2>3. At(q)' = Entry(k) /\ K(q)' = k
    BY <1>10, <2>1, <2>2
  <2>4. ~ref
    BY <1>3, <1>17, PendingOnly
  <2>5. Backed(i) => file'[i] = base.file[i]
    BY <1>3, <1>6, <2>4, Backing
  <2>6. Arrives(q) /\ At(q)' \notin Aside \cup {"next", "cleanup"} \cup Behind \cup Rolling
    BY <1>2, <2>3, <2>5, EntryPlace DEF k
  <2> QED BY <1>9, <2>1, <2>2, <2>6
<1>18. last.st \in {"pending", "running", "succeeded", "failed", "skipped"}
  BY <1>5 DEF EventState
<1> QED BY <1>5, <1>11, <1>12, <1>13, <1>14, <1>15, <1>16, <1>17, <1>18

\* The end of the recovery loop.
LEMMA RecoverLoopEndKeeps ==
  ASSUME TypeInv, NEW q \in Proc, RInv(q), RecoverLoopEnd(q)
  PROVE  RInv(q)'
<1>1. At(q) = "next" /\ proc[q].i > N /\ UNCHANGED <<db, fs, history>> /\ Moved(q, "complete")
  BY GotoMoves DEF RecoverLoopEnd
<1>2. SameLoop(q) /\ At(q)' = "complete"
  BY <1>1 DEF Moved
<1>3. \A a \in Act : Holds(a)'
  <2>1. \A a \in Act : Holds(a)
    BY <1>1, LoopDone
  <2> QED BY <1>1, <2>1 DEF Holds, KindOf, db, fs, history
<1>4. Arrives(q)
  BY <1>2, <1>3 DEF Arrives, Placed, Reached, Needs, Tasks
<1> QED BY <1>1, <1>2, <1>4, MovedPreserves DEF Noting, Tasks

\* A restore puts the preimage back before the action is executed again.
LEMMA RestoreKeeps ==
  ASSUME TypeInv, NEW q \in Proc, RInv(q), Restore(q)
  PROVE  RInv(q)'
<1>1. At(q) = "restore" /\ UNCHANGED <<db, snap, history>> /\ InRun(q) /\ At(q) \in Noting
  BY DEF Restore, Noting
<1>2. Busy(proc[q])
  BY <1>1, AtWork
<1>3. PICK i \in Act : i = proc[q].i
  BY <1>2 DEF Busy
<1>4. Restored(q, i) \/ RestoreFails(q, i)
  BY <1>3 DEF Restore
<1>5. /\ \A x \in Act \ {i} : file'[x] = file[x]
      /\ Backed(i) => /\ file'[i] # base.file[i] => HasReference(journal[i])
                      /\ Restored(q, i) => file'[i] = base.file[i]
  BY <1>1, <1>4, RestoreLeaves
<1>6. CASE Restored(q, i) /\ Goto(q, Entry(K(q)))
  <2>1. At(q)' = Entry(K(q)) /\ SameLoop(q) /\ proc'[q].prep = proc[q].prep
    BY <1>6, GotoMoves DEF Moved
  <2>2. K(q)' = K(q) /\ \A a \in Act : a = proc[q].i /\ Backed(a) => file'[a] = base.file[a]
    BY <1>3, <1>5, <1>6, <2>1 DEF K, SameLoop
  <2>3. /\ Arrives(q) /\ At(q)' \in {"human", "drift", "agent", "prepare"}
        /\ At(q)' \notin Aside \cup {"next", "cleanup"} \cup Behind \cup Rolling
    BY <2>1, <2>2, EntryPlace DEF Entry
  <2>4. Placed(q) /\ Reached(q)
    BY <2>3 DEF Arrives
  <2> QED BY <1>1, <1>3, <1>5, <1>6, <2>1, <2>2, <2>3, <2>4, FileStepPreserves
<1>7. CASE RestoreFails(q, i) /\ GiveUp(q)
  <2>1. proc'[q] = Idle
    BY <1>7, SetIs DEF GiveUp
  <2>2. UNCHANGED <<cur, status, plan, journal, snap, base, edited>> /\ Open(cur)
    BY <1>1, InRunIs DEF db, history
  <2>3. \A a \in Act : file'[a] = file[a]
          \/ (a \notin edited /\ KindOf(a) \in FileBacked => file'[a] = base.file[a] \/ HasReference(journal[a]))
    BY <1>5, <2>2 DEF Backed
  <2>4. status[cur] # "Converged"
    BY <2>2 DEF Open, Recoverable
  <2>5. Leaves(q)
    BY <2>1, <2>2, <2>3, <2>4 DEF Leaves
  <2> QED BY <2>5, LeavesPreserves
<1> QED BY <1>3, <1>6, <1>7 DEF Restore

\* A completed action that still verifies is passed.
LEMMA ReverifyKeeps ==
  ASSUME TypeInv, NEW q \in Proc, RInv(q), Reverify(q)
  PROVE  RInv(q)'
<1> DEFINE last == proc[q].seen[proc[q].i].last
           k == K(q)
           b == k \in Invertible
           ps == [proc[q] EXCEPT !.own = last.prev]
<1>1. At(q) = "reverify" /\ UNCHANGED <<db, fs, history>> /\ InRun(q) /\ At(q) \in Noting
      /\ At(q) \notin Behind \cup Rolling
  BY DEF Reverify, Noting
<1>2. Busy(proc[q])
  BY <1>1, AtWork
<1>3. PICK i \in Act : i = proc[q].i
  BY <1>2 DEF Busy
<1>4. last \in Event /\ last.ref \in BOOLEAN /\ last.prev \in Record
  BY <1>2 DEF Busy, Good, Process, Event
<1>5. PICK v \in Verification(K(q), file[proc[q].i]) :
         Set(q, CASE v = "error" -> Idle
                  [] v = "passed" -> Verified(ps, b)
                  [] v = "failed" /\ last.ref -> [proc[q] EXCEPT !.pc = "restore", !.own = last.prev]
                  [] v = "failed" /\ ~last.ref -> FailedAction(proc[q]))
  BY Zenon DEF Reverify
<1>6. v \in {"passed", "failed", "error"} /\ (v = "passed" => Matches(k, file[i]))
  BY <1>3, <1>5, VerificationType, PassedHolds
<1>7. b \in BOOLEAN /\ k = KindOf(i) /\ Open(cur) /\ UNCHANGED <<cur, status, plan, journal, file, snap, base, edited>>
  BY <1>1, <1>3, InRunIs DEF db, fs, history
<1>8. proc[q] \in Process
  BY Registers
<1> HIDE DEF last, k, b, ps
<1>9. CASE v = "error"
  <2>1. Set(q, Idle)
    BY <1>5, <1>9
  <2> QED BY <1>1, <2>1, EndsKeeps
<1>10. CASE v = "passed"
  <2>1. Set(q, Verified(ps, b))
    BY <1>5, <1>10
  <2>2. /\ ps \in Process
        /\ ps.run = proc[q].run /\ ps.plan = proc[q].plan /\ ps.mode = proc[q].mode /\ ps.seen = proc[q].seen
        /\ ps.i = proc[q].i /\ ps.done = proc[q].done /\ ps.mem = proc[q].mem /\ ps.att = proc[q].att
        /\ ps.fail = proc[q].fail /\ ps.human = proc[q].human /\ ps.drift = proc[q].drift
    BY <1>4, <1>8 DEF Process, ps
  <2>3. Passed(q, b) /\ proc'[q].att = proc[q].att
    BY <1>7, <2>1, <2>2, VerifiedPasses
  <2>4. k \notin {"transfer", "install", "remove"}
    BY <1>1 DEF RInv, PlaceInv, k
  <2>5. Holds(i)
    BY <1>6, <1>7, <1>10, <2>4 DEF Holds
  <2>6. SafeInv(i)'
    BY <1>7 DEF RInv, ActionInv, SafeInv, Open, KindOf
  <2>7. Backed(i) => snap[cur][i] = base.file[i]
    BY <1>1, <1>3, Backing
  <2>8. Ordered(journal[i]) /\ Undoable(journal[i], proc[q].att) /\ proc[q].att >= 1
    <3>1. Ordered(journal[i]) /\ Quiet(journal[i], proc[q].att) /\ proc[q].att >= 1
      BY <1>1, <1>3, <1>7 DEF RInv, ActionInv, JournalInv
    <3> QED BY <3>1, QuietUndoable
  <2> QED BY <1>1, <1>3, <1>7, <2>3, <2>5, <2>6, <2>7, <2>8, PassedPreserves
<1>11. CASE v = "failed" /\ last.ref
  <2>1. Set(q, [proc[q] EXCEPT !.pc = "restore", !.own = last.prev])
    BY <1>5, <1>11
  <2>2. proc'[q] = [proc[q] EXCEPT !.pc = "restore", !.own = last.prev]
    BY <2>1, SetIs
  <2>3. At(q)' = "restore" /\ SameLoop(q) /\ proc'[q].prep = proc[q].prep
    BY <1>8, <2>2 DEF Process, SameLoop
  <2> QED BY <1>1, <2>3, PlainPlace, MovedPreserves
<1>12. CASE v = "failed" /\ ~last.ref
  <2>1. Set(q, FailedAction(proc[q]))
    BY <1>5, <1>12
  <2>2. /\ Arrives(q) /\ SameLoop(q) /\ At(q)' \notin Aside \cup {"next", "cleanup"}
        /\ At(q)' \in Rolling /\ proc'[q].prep = proc[q].prep
    BY <2>1, FailedActionFalls, FellPlace
  <2> QED BY <1>1, <2>2, MovedPreserves
<1> QED BY <1>4, <1>6, <1>9, <1>10, <1>11, <1>12

\* An installer that may have run is verified, never run again.
LEMMA InstallerKeeps ==
  ASSUME TypeInv, NEW q \in Proc, RInv(q), Installer(q)
  PROVE  RInv(q)'
<1>1. At(q) = "installer" /\ UNCHANGED <<fs, history>> /\ InRun(q) /\ At(q) \in Noting
      /\ At(q) \notin Behind \cup Rolling
  BY DEF Installer, Noting
<1>2. Busy(proc[q]) /\ K(q) = "install" /\ "install" \notin FileBacked
  BY <1>1, AtWork DEF RInv, PlaceInv, FileBacked
<1>3. {"succeeded", "skipped"} \subseteq EventState /\ {"passed", "other"} \subseteq Method
  BY DEF EventState, Method
<1>4. PICK v \in Verification("install", file[proc[q].i]) :
       \/ /\ v = "passed"
          /\ Note(q, "succeeded", FALSE, "passed")
          /\ Set(q, Verified(proc[q], FALSE))
       \/ /\ \/ v = "failed" /\ Note(q, "skipped", FALSE, "other")
             \/ v # "error" /\ TransactionFails(q)
             \/ v = "error" /\ UNCHANGED <<db, spent>>
          /\ Set(q, Stopped([proc[q] EXCEPT !.human = TRUE]))
  BY DEF Installer
<1>5. CASE /\ v = "passed" /\ Note(q, "succeeded", FALSE, "passed")
           /\ Set(q, Verified(proc[q], FALSE))
  <2>1. Passed(q, FALSE) /\ proc'[q].att = proc[q].att
    BY <1>5, Registers, VerifiedPasses
  <2>2. PICK e : Enters(q, e) /\ e.st = "succeeded" /\ e.ref = FALSE
    BY <1>2, <1>3, <1>5, NoteEnters
  <2>3. ASSUME NEW a \in Act, a = proc[q].i
        PROVE  Holds(a) /\ SafeInv(a)' /\ Ordered(journal'[a])
    <3>1. ~Backed(a) /\ KindOf(a) = "install" /\ Open(cur)
      BY <1>1, <1>2, <2>3, InRunIs DEF Backed
    <3>2. JournalInv(q, a) /\ journal[a] \in Seq(Event)
      BY JournalType DEF RInv, ActionInv
    <3>3. Holds(a)
      BY <1>4, <1>5, <2>3, <3>1, PassedHolds DEF Holds
    <3>4. SafeInv(a)'
      BY <1>2, <2>2, <3>1 DEF SafeInv, Enters, KindOf
    <3>5. Ordered(journal[a]) /\ Quiet(journal[a], e.att) /\ e.att >= 1 /\ e \in Event
      BY <1>1, <2>2, <2>3, <3>1, <3>2 DEF JournalInv, Enters
    <3>6. journal'[a] = Append(journal[a], e) /\ (e.st = "succeeded" => e.method = "passed") /\ e.st # "pending"
      BY <2>2, <2>3 DEF Enters
    <3>7. Ordered(journal'[a])
      BY <3>2, <3>5, <3>6, AppendQuiet
    <3> QED BY <3>3, <3>4, <3>7
  <2>4. UNCHANGED <<cur, status, plan>> /\ \A a \in Act \ {proc[q].i} : journal'[a] = journal[a]
    BY <2>2 DEF Enters
  <2> QED BY <1>1, <2>1, <2>3, <2>4, PassedPreserves
<1>6. CASE /\ \/ v = "failed" /\ Note(q, "skipped", FALSE, "other")
              \/ v # "error" /\ TransactionFails(q)
              \/ v = "error" /\ UNCHANGED <<db, spent>>
           /\ Set(q, Stopped([proc[q] EXCEPT !.human = TRUE]))
  <2>1. /\ Arrives(q) /\ SameLoop(q) /\ At(q)' \notin Aside \cup {"next", "cleanup"}
        /\ At(q)' \in {"skip", "complete"} /\ At(q)' \notin Noting
    BY <1>6, StoppedHalts, HaltedPlace
  <2>2. CASE Note(q, "skipped", FALSE, "other") \/ TransactionFails(q)
    BY <1>1, <1>2, <1>3, <2>1, <2>2, NotePreserves
  <2>3. CASE UNCHANGED <<db, spent>>
    BY <1>1, <2>1, <2>3, MovedPreserves
  <2> QED BY <1>6, <2>2, <2>3
<1> QED BY <1>4, <1>5, <1>6

\* The ownership that belongs to a restored preimage.
LEMMA OwnBackKeeps ==
  ASSUME TypeInv, NEW q \in Proc, RInv(q), OwnBack(q)
  PROVE  RInv(q)'
<1>1. At(q) = "ownback" /\ UNCHANGED <<fs, history>> /\ InRun(q) /\ At(q) \in Noting
  BY DEF OwnBack, Noting
<1>2. Busy(proc[q]) /\ proc[q].i \in Act /\ proc[q].att \in Nat
  BY <1>1, AtWork, Registers DEF Busy
<1> DEFINE e == Ev("failed", proc[q].att, FALSE, "none", "run-rolled-back")
<1>3. e \in Event /\ e.st = "failed" /\ e.ref = FALSE /\ e.att = proc[q].att
  BY <1>2, EvType DEF EventState, Method, Record, Ev
<1>4. \/ JournalAction(q, proc[q].i, e, proc[q].own) /\ Goto(q, "cascade")
      \/ TransactionFails(q) /\ Set(q, Idle)
  BY DEF OwnBack, GiveUp
<1> HIDE DEF e
<1>5. CASE JournalAction(q, proc[q].i, e, proc[q].own) /\ Goto(q, "cascade")
  <2>1. journal' = [journal EXCEPT ![proc[q].i] = Append(@, e)] /\ UNCHANGED <<cur, status, plan>>
    BY <1>5 DEF JournalAction
  <2>2. Enters(q, e)
    BY <1>2, <1>3, <2>1 DEF Enters, TypeInv, DurableOK
  <2>3. At(q)' = "cascade" /\ SameLoop(q) /\ SameFlags(q) /\ proc'[q].prep = proc[q].prep
    BY <1>5, GotoMoves DEF Moved
  <2>4. proc[q].fail
    BY <1>1, <1>2 DEF RInv, ActionInv, HoldsInv
  <2>5. Arrives(q) /\ At(q)' \notin Noting
    BY <2>3, <2>4 DEF Arrives, Placed, Reached, Needs, Tasks, SameFlags, Noting
  <2> QED BY <1>1, <1>3, <2>2, <2>3, <2>5, EnteredPreserves
<1>6. CASE TransactionFails(q) /\ Set(q, Idle)
  BY <1>1, <1>6, FailsKeeps, EndsKeeps
<1> QED BY <1>4, <1>5, <1>6
----------------------------------------------------------------------------
(* Crashes, interrupts and users. *)

\* Where a process that stops may leave a torn target: every managed file it
\* leaves changed is as the run found it or has its snapshot in the journal.
LEMMA TornLeaves ==
  ASSUME TypeInv, NEW q \in Proc, RInv(q), file' \in Torn(q), UNCHANGED <<cur, status, plan, base, edited>>
  PROVE  /\ \A a \in Act : file'[a] = file[a]
              \/ (Backed(a) => file'[a] = base.file[a] \/ HasReference(journal[a]))
         /\ At(q) \in Noting => \A a \in Act \ {proc[q].i} : file'[a] = file[a]
         /\ At(q) \in Over \cup Tasks \cup {"planned", "abandon", "complete"} => file' = file
         /\ \A a \in Act : a > proc[q].i \/ (At(q) = "next" /\ a = proc[q].i) => file'[a] = file[a]
<1> DEFINE a == IF proc[q].pc = "cascade" THEN Top(q).a ELSE proc[q].i
           executing == proc[q].pc = "execute"
           restoring == /\ \/ proc[q].pc = "restore"
                           \/ proc[q].pc \in {"undoVerify", "undo", "intUndo", "intUnlink"}
                              /\ proc[q].prep
                           \/ proc[q].pc = "cascade" /\ proc[q].done # <<>>
                        /\ proc[q].plan[a] \in FileBacked /\ CanRestore(q, a)
           left == CASE executing -> Unfinished(K(q), file[a], Written(q))
                     [] restoring -> Unfinished(proc[q].plan[a], file[a], Preimage(q, a))
                     [] OTHER -> {}
<1>1. file' \in {file} \cup {[file EXCEPT ![a] = c] : c \in left}
  BY DEF Torn
<1>2. file \in [Act -> Content]
  BY DEF TypeInv, DurableOK
<1>3. CASE ~executing /\ ~restoring
  <2>1. left = {}
    BY <1>3
  <2> QED BY <1>1, <2>1
<1>4. CASE executing
  <2>1. At(q) = "execute" /\ InRun(q) /\ Busy(proc[q]) /\ a = proc[q].i
    BY <1>4, AtWork
  <2>2. PICK i \in Act : i = proc[q].i
    BY <2>1 DEF Busy
  <2>3. file' = file \/ \E c : file' = [file EXCEPT ![i] = c]
    BY <1>1, <2>1, <2>2
  <2>4. \A x \in Act \ {i} : file'[x] = file[x]
    BY <1>2, <2>3
  <2>5. Backed(i) => HasReference(journal[i])
    BY <2>1, <2>2, Backing
  <2>6. ~(i > proc[q].i) /\ At(q) \notin Over \cup Tasks \cup {"planned", "abandon", "complete", "next"}
    BY <2>1, <2>2 DEF Tasks, Act
  <2> HIDE DEF At, a, executing, restoring, left
  <2> QED BY <2>2, <2>4, <2>5, <2>6
<1>5. CASE ~executing /\ restoring
  <2>1. /\ At(q) \in {"restore", "undoVerify", "undo", "intUndo", "intUnlink", "cascade"}
        /\ At(q) = "cascade" => proc[q].done # <<>>
        /\ CanRestore(q, a) /\ left = Unfinished(proc[q].plan[a], file[a], Preimage(q, a))
    BY <1>5
  <2>2. InRun(q) /\ Busy(proc[q]) /\ proc[q].i \in Act
    BY <2>1, AtWork DEF Busy
  <2>3. At(q) = "cascade" => Top(q) \in Done /\ Top(q).a < proc[q].i
    BY <2>1, PopIs
  <2>4. PICK i \in Act : i = a
    BY <2>2, <2>3 DEF Done
  <2>5. i <= proc[q].i /\ (At(q) # "cascade" => i = proc[q].i)
    BY <2>2, <2>3, <2>4 DEF Act
  <2> HIDE DEF At, InRun, a, executing, restoring, left
  <2>6. CASE file' = file
    BY <2>6
  <2>7. CASE file' # file
    <3>1. PICK c \in Unfinished(proc[q].plan[i], file[i], Preimage(q, i)) : file' = [file EXCEPT ![i] = c]
      BY <1>1, <2>1, <2>4, <2>7
    <3>2. file'[i] = c /\ \A x \in Act \ {i} : file'[x] = file[x]
      BY <1>2, <3>1
    <3>3. Backed(i) /\ ~HasReference(journal[i]) => c = base.file[i]
      <4>1. proc[q].run = cur
        BY <2>2, InRunIs
      <4>2. Backed(i) => Preimage(q, i) = base.file[i]
        <5> SUFFICES ASSUME Backed(i)
                     PROVE  Preimage(q, i) = base.file[i]
          OBVIOUS
        <5>1. snap[cur][i] \in {"none", base.file[i]} /\ proc[q].mem[i] \in {"none", snap[cur][i]}
          BY <2>2, Backing
        <5>2. Preimage(q, i) # "none"
          BY <2>1, <2>4 DEF CanRestore
        <5> QED BY <4>1, <5>1, <5>2 DEF Preimage
      <4>3. Backed(i) /\ ~HasReference(journal[i]) => file[i] = base.file[i]
        BY <2>2, Backing
      <4> QED BY <3>1, <4>2, <4>3, UnfinishedSame
    <3>4. At(q) \notin Over \cup Tasks \cup {"planned", "abandon", "complete", "next"} /\ "cascade" \notin Noting
      BY <2>1 DEF Tasks, Noting
    <3>5. \A x \in Act : x > proc[q].i => x # i
      BY <2>2, <2>5 DEF Act
    <3> QED BY <2>5, <3>2, <3>3, <3>4, <3>5
  <2> QED BY <2>6, <2>7
<1> QED BY <1>3, <1>4, <1>5

\* An invocation that stops where it is.
LEMMA StopsKeeps ==
  ASSUME TypeInv, NEW q \in Proc, RInv(q), Set(q, Idle), file' \in Torn(q), UNCHANGED <<db, snap, history>>
  PROVE  RInv(q)'
<1>1. proc'[q] = Idle /\ UNCHANGED <<cur, status, plan, journal, applied, snap, base, edited>>
  BY SetIs DEF db, history
<1>2. \A a \in Act : file'[a] = file[a]
        \/ (Backed(a) => file'[a] = base.file[a] \/ HasReference(journal[a]))
  BY <1>1, TornLeaves
<1>3. cur > 0 /\ status[cur] = "Converged" => file' = file
  <2>1. SUFFICES ASSUME status[cur] = "Converged"
                 PROVE  file' = file
    OBVIOUS
  <2>2. ~Open(cur)
    BY <2>1 DEF Open, Recoverable
  <2>3. At(q) \in {"idle", "planned"} \cup Over
    BY <2>2 DEF RInv, RunInv
  <2>4. CASE At(q) = "idle"
    BY <2>4 DEF Torn
  <2> QED BY <1>1, <2>3, <2>4, TornLeaves
<1>4. Leaves(q)
  <2>1. \A a \in Act : file'[a] = file[a]
         \/ (a \notin edited /\ KindOf(a) \in FileBacked => file'[a] = base.file[a] \/ HasReference(journal[a]))
    <3>1. CASE Open(cur)
      BY <1>2, <3>1 DEF Backed
    <3>2. CASE ~Open(cur)
      <4>1. At(q) \in {"idle", "planned"} \cup Over
        BY <3>2 DEF RInv, RunInv
      <4>2. CASE At(q) = "idle"
        BY <4>2 DEF Torn
      <4> QED BY <1>1, <4>1, <4>2, TornLeaves
    <3> QED BY <3>1, <3>2
  <2> QED BY <1>1, <1>3, <2>1 DEF Leaves, Open
<1> QED BY <1>4, LeavesPreserves

\* An invocation whose run is left to the plan's interrupt handler.
LEMMA HandedOver ==
  ASSUME TypeInv, NEW q \in Proc, RInv(q), InRun(q), At(q) \notin {"cleanup"} \/ file' = file,
         At(q)' = "intComplete", SameLoop(q),
         UNCHANGED <<db, snap, history>>,
         \A a \in Act : file'[a] = file[a] 
           \/ (Backed(a) => file'[a] = base.file[a] \/ HasReference(journal[a])),
         \A a \in Act : a > proc[q].i => file'[a] = file[a],
         At(q) \in Over => file' = file
  PROVE  RInv(q)'
<1>1. UNCHANGED <<cur, status, plan, journal, applied, snap, base, edited>>
  BY DEF db, history
<1>2. (Open(cur)' <=> Open(cur)) /\ \A a \in Act : KindOf(a)' = KindOf(a)
  BY <1>1 DEF Open, KindOf
<1>3. RunInv(q) /\ PlaceInv(q) /\ \A a \in Act : ActionInv(q, a)
  BY DEF RInv
<1>4. RunInv(q)'
  BY <1>1, <1>2, <1>3 DEF RunInv, SameLoop
<1>5. PlaceInv(q)'
  BY <1>3 DEF PlaceInv, SameLoop, Tasks
<1>6. ASSUME NEW a \in Act
      PROVE  ActionInv(q, a)'
  <2>1. /\ AheadInv(q, a) /\ JournalInv(q, a) /\ SafeInv(a) /\ PreimageInv(q, a) /\ HoldsInv(q, a) /\ ConvergedInv(a)
    BY <1>3 DEF ActionInv
  <2>2. AheadInv(q, a)'
    <3> SUFFICES ASSUME Open(cur), Ahead(q, a)'
                 PROVE  IF proc'[q].mode = "run"
                        THEN journal'[a] = <<PendingEvent>> /\ (a \notin edited => file'[a] = base.file[a])
                        ELSE proc'[q].seen[a] = [last |-> Last(journal'[a]), ref |-> HasReference(journal'[a])]
      BY <1>1, <1>2 DEF AheadInv
    <3>1. a > proc[q].i
      BY DEF Ahead, SameLoop
    <3>2. Ahead(q, a) /\ file'[a] = file[a]
      BY <3>1 DEF Ahead
    <3> QED BY <1>1, <2>1, <3>2 DEF AheadInv, SameLoop
  <2>3. JournalInv(q, a)'
    <3>1. At(q)' \notin Noting
      BY DEF Noting, Tasks
    <3>2. Open(cur) => /\ Ordered(journal[a])
                       /\ \A n \in 1..Len(proc[q].done) : proc[q].done[n].a = a =>
                            Undoable(journal[a], proc[q].done[n].att) /\ proc[q].done[n].att >= 1
      BY <2>1 DEF JournalInv
    <3>3. proc'[q].done = proc[q].done
      BY DEF SameLoop
    <3> HIDE DEF At, InRun
    <3> QED BY <1>1, <1>2, <3>1, <3>2, <3>3 DEF JournalInv
  <2>4. SafeInv(a)'
    BY <1>1, <1>2, <2>1 DEF SafeInv, Backed
  <2>5. PreimageInv(q, a)'
    BY <1>1, <1>2, <2>1 DEF PreimageInv, SameLoop
  <2>6. HoldsInv(q, a)'
    BY DEF HoldsInv, Forward
  <2>7. ConvergedInv(a)'
    <3>1. CASE At(q) \in Over
      BY <1>1, <1>2, <2>1, <3>1 DEF ConvergedInv, Holds
    <3>2. CASE At(q) \notin Over
      <4>1. Open(cur)
        BY <3>2, InRunIs
      <4> QED BY <1>1, <4>1 DEF ConvergedInv, Open, Recoverable
    <3> QED BY <3>1, <3>2
  <2> HIDE DEF At
  <2> QED BY <2>2, <2>3, <2>4, <2>5, <2>6, <2>7 DEF ActionInv
<1> QED BY <1>4, <1>5, <1>6 DEF RInv

\* A process dies where it is.
LEMMA CrashKeeps ==
  ASSUME TypeInv, NEW q \in Proc, RInv(q), Crash(q)
  PROVE  RInv(q)'
  BY StopsKeeps DEF Crash

\* An interrupt hands over to the innermost handler.
LEMMA InterruptKeeps ==
  ASSUME TypeInv, NEW q \in Proc, RInv(q), Interrupt(q)
  PROVE  RInv(q)'
<1>1. file' \in Torn(q) /\ UNCHANGED <<db, snap, history>> /\ UNCHANGED <<cur, status, plan, base, edited>>
  BY DEF Interrupt, db, history
<1>2. /\ \A a \in Act : file'[a] = file[a]
           \/ (Backed(a) => file'[a] = base.file[a] \/ HasReference(journal[a]))
      /\ At(q) \in Noting => \A a \in Act \ {proc[q].i} : file'[a] = file[a]
      /\ At(q) \in Over \cup Tasks \cup {"planned", "abandon", "complete"} => file' = file
      /\ \A a \in Act : a > proc[q].i \/ (At(q) = "next" /\ a = proc[q].i) => file'[a] = file[a]
  BY <1>1, TornLeaves
<1> DEFINE work == {"prepare", "running", "execute", "verify", "succeed", "undoVerify", "failVerify"}
<1>3. \/ Set(q, Idle)
      \/ /\ InRun(q) /\ Goto(q, "intComplete")
      \/ At(q) \in work /\ Goto(q, "intUndo")
      \/ At(q) = "execute" /\ K(q) = "remove" /\ Goto(q, "intUnlink")
      \/ At(q) \in Tasks /\ Goto(q, "intAgent")
  BY DEF Interrupt, Tasks
<1>4. CASE Set(q, Idle)
  BY <1>1, <1>4, StopsKeeps
<1>5. CASE InRun(q) /\ Goto(q, "intComplete")
  <2>1. At(q)' = "intComplete" /\ SameLoop(q)
    BY <1>5, GotoMoves DEF Moved
  <2>2. At(q) \in Over => file' = file
    BY <1>2
  <2> QED BY <1>1, <1>2, <1>5, <2>1, <2>2, HandedOver
<1>6. ASSUME NEW l \in {"intUndo", "intUnlink"}, At(q) \in work, Goto(q, l),
             l = "intUnlink" => At(q) = "execute" /\ K(q) = "remove"
      PROVE  RInv(q)'
  <2>1. At(q)' = l /\ SameLoop(q) /\ proc'[q].prep = proc[q].prep
    BY <1>6, GotoMoves DEF Moved
  <2>2. At(q) \in Noting /\ At(q) \notin Behind \cup Rolling /\ InRun(q)
    BY <1>6 DEF Noting
  <2>3. Placed(q) /\ Reached(q)
    BY <1>6, <2>1 DEF Placed, Reached, Tasks, SameLoop, K
  <2>4. \A a \in Act : a = proc[q].i /\ Backed(a) =>
          /\ file'[a] # base.file[a] => HasReference(journal[a])
          /\ l = "intUnlink" => proc[q].prep /\ HasReference(journal[a])
    BY <1>2, <1>6, <2>2, Backing
  <2> QED BY <1>1, <1>2, <1>6, <2>1, <2>2, <2>3, <2>4, FileStepPreserves
<1>7. CASE At(q) \in Tasks /\ Goto(q, "intAgent")
  <2>1. "intAgent" \in Tasks /\ file' = file
    BY <1>2, <1>7 DEF Tasks
  <2>2. /\ Arrives(q) /\ SameLoop(q) /\ proc'[q].prep = proc[q].prep
        /\ At(q)' \notin Aside \cup {"next", "cleanup"} \cup Behind \cup Rolling
    BY <1>7, <2>1, TaskMoves
  <2>3. At(q) \in Noting /\ At(q) \notin Behind \cup Rolling /\ InRun(q)
    BY <1>7 DEF Noting, Tasks
  <2> QED BY <1>1, <2>1, <2>2, <2>3, MovedPreserves DEF fs
<1> QED BY <1>3, <1>4, <1>5, <1>6, <1>7

\* The interrupted action's rollback.
LEMMA InterruptUndoKeeps ==
  ASSUME TypeInv, NEW q \in Proc, RInv(q), InterruptUndo(q)
  PROVE  RInv(q)'
<1>1. At(q) \in {"intUndo", "intUnlink"} /\ UNCHANGED <<db, snap, history>> /\ InRun(q) /\ At(q) \in Noting
      /\ At(q) \notin Behind \cup Rolling
  BY DEF InterruptUndo, Noting
<1>2. Busy(proc[q])
  BY <1>1, AtWork
<1>3. PICK i \in Act : i = proc[q].i
  BY <1>2 DEF Busy
<1>4. file \in [Act -> Content]
  BY DEF TypeInv, DurableOK
<1>5. ASSUME Goto(q, "intFail"), file' = file \/ \E c : file' = [file EXCEPT ![i] = c],
             Backed(i) => (file'[i] # base.file[i] => HasReference(journal[i]))
      PROVE  RInv(q)'
  <2>1. At(q)' = "intFail" /\ SameLoop(q) /\ proc'[q].prep = proc[q].prep
    BY <1>5, GotoMoves DEF Moved
  <2>2. Placed(q) /\ Reached(q)
    BY <2>1, PlainPlace DEF Arrives
  <2>3. \A a \in Act \ {proc[q].i} : file'[a] = file[a]
    BY <1>3, <1>4, <1>5
  <2> QED BY <1>1, <1>3, <1>5, <2>1, <2>2, <2>3, FileStepPreserves
<1>6. CASE /\ proc[q].prep /\ CanRestore(q, i)
           /\ \E c \in {Preimage(q, i)} \cup
                       (IF proc[q].pc = "intUnlink" THEN {"absent"} ELSE {}) :
                file' = [file EXCEPT ![i] = c]
           /\ UNCHANGED spent
           /\ Goto(q, "intFail")
  <2>1. PICK c \in {Preimage(q, i)} \cup (IF proc[q].pc = "intUnlink" THEN {"absent"} ELSE {}) :
                file' = [file EXCEPT ![i] = c]
    BY <1>6
  <2>2. file'[i] = c
    BY <1>4, <2>1
  <2>3. Backed(i) => (c # base.file[i] => HasReference(journal[i]))
    <3> SUFFICES ASSUME Backed(i), c # base.file[i]
                 PROVE  HasReference(journal[i])
      OBVIOUS
    <3>1. /\ snap[cur][i] \in {"none", base.file[i]} /\ proc[q].mem[i] \in {"none", snap[cur][i]}
          /\ At(q) = "intUnlink" => HasReference(journal[i])
      BY <1>1, <1>3, Backing
    <3>2. Preimage(q, i) # "none" /\ proc[q].run = cur
      BY <1>1, <1>6, InRunIs DEF CanRestore
    <3>3. Preimage(q, i) = base.file[i]
      BY <3>1, <3>2 DEF Preimage
    <3> QED BY <2>1, <3>1, <3>3
  <2> QED BY <1>5, <1>6, <2>1, <2>2, <2>3
<1>7. CASE ~proc[q].prep /\ UNCHANGED <<file, spent>> /\ Goto(q, "intFail")
  BY <1>1, <1>5, <1>7, Backing
<1>8. CASE proc[q].prep /\ RestoreFails(q, i) /\ Goto(q, "intComplete")
  <2>1. At(q)' = "intComplete" /\ SameLoop(q)
    BY <1>8, GotoMoves DEF Moved
  <2>2. /\ \A x \in Act \ {i} : file'[x] = file[x]
        /\ Backed(i) => (file'[i] # base.file[i] => HasReference(journal[i]))
    BY <1>1, <1>8, RestoreLeaves
  <2>3. \A a \in Act : a > proc[q].i => a # i
    BY <1>3 DEF Act
  <2> QED BY <1>1, <1>3, <2>1, <2>2, <2>3, HandedOver
<1> QED BY <1>3, <1>6, <1>7, <1>8 DEF InterruptUndo

\* The interrupted action's failed event.
LEMMA InterruptFailKeeps ==
  ASSUME TypeInv, NEW q \in Proc, RInv(q), InterruptFail(q)
  PROVE  RInv(q)'
<1>1. At(q) \in {"intFail", "intAgent"} /\ UNCHANGED <<fs, history>> /\ At(q) \in Noting
  BY DEF InterruptFail, Noting, Tasks
<1>2. proc[q].prep \in BOOLEAN /\ "failed" \in EventState /\ "other" \in Method
  BY Registers DEF EventState, Method
<1>3. At(q)' = "intComplete" /\ SameLoop(q)
  BY GotoMoves DEF InterruptFail, Moved
<1>4. Note(q, "failed", proc[q].prep, "other") \/ TransactionFails(q)
  BY DEF InterruptFail
<1>5. Arrives(q) /\ At(q)' \notin Aside \cup {"next", "cleanup"} /\ At(q)' \notin Noting
  BY <1>3, PlainPlace DEF Noting, Tasks
<1> QED BY <1>1, <1>2, <1>3, <1>4, <1>5, NotePreserves

\* completeRun Interrupted leaves the run open.
LEMMA InterruptCompleteKeeps ==
  ASSUME TypeInv, NEW q \in Proc, RInv(q), InterruptComplete(q)
  PROVE  RInv(q)'
<1>1. At(q) = "intComplete" /\ InRun(q) /\ proc'[q] = Idle
      /\ UNCHANGED <<cur, plan, journal, applied, fs, history>>
  BY SetIs DEF InterruptComplete
<1>2. UNCHANGED <<cur, plan, journal, applied, file, snap, base, edited>>
  BY <1>1 DEF fs, history
<1>3. proc[q].run = cur /\ cur \in Run
  BY <1>1, InRunIs
<1>4. status' = status \/ (Open(cur) /\ status' = [status EXCEPT ![cur] = "Interrupted"])
  BY <1>3 DEF InterruptComplete
<1>5. /\ Open(cur)' => Open(cur)
      /\ status'[cur] = "Converged" => status[cur] = "Converged"
  BY <1>2, <1>3, <1>4 DEF Open, TypeInv, DurableOK
<1>6. Leaves(q)
  BY <1>1, <1>2, <1>5 DEF Leaves
<1> QED BY <1>6, LeavesPreserves

----------------------------------------------------------------------------
(* The invariant of every step of the system. *)

\* Every step an invocation takes keeps its own invariant.
LEMMA OwnStepKeeps ==
  ASSUME TypeInv, NEW q \in Proc, RInv(q),
         Step(q) \/ Plan(q) \/ RecoverStart(q) \/ AbandonStart(q) \/ Crash(q) \/ Interrupt(q)
  PROVE  RInv(q)'
<1>1. CASE StartRun(q) \/ StartRefused(q) \/ RunNext(q) \/ Prepare(q) \/ PrepareFails(q)
           \/ JournalRunning(q) \/ Execute(q) \/ ExecuteFails(q) \/ Verify(q) \/ JournalSucceeded(q)
  BY <1>1, StartRunKeeps, RefusedKeeps, RunNextKeeps, PrepareKeeps, PrepareFailsKeeps, JournalRunningKeeps,
     ExecuteKeeps, ExecuteFailsKeeps, VerifyKeeps, JournalSucceededKeeps
<1>2. CASE UndoVerify(q) \/ JournalFailVerify(q) \/ Undo(q) \/ JournalFail(q) \/ Human(q) \/ RecordDrift(q)
           \/ DriftSkip(q) \/ Agent(q) \/ AgentResolve(q) \/ AgentVerify(q) \/ AgentSucceed(q) \/ AgentFail(q)
           \/ AgentSkip(q) \/ AgentError(q)
  BY <1>2, UndoKeeps, JournalFailKeeps, HumanKeeps, RecordDriftKeeps, AgentKeeps, AgentResolveKeeps
<1>3. CASE Cascade(q) \/ CascadeJournal(q) \/ CascadeEnd(q) \/ Skip(q) \/ Complete(q) \/ CompleteFails(q)
           \/ Cleanup(q) \/ Abandon(q)
  BY <1>3, CascadeKeeps, CascadeJournalKeeps, CascadeEndKeeps, SkipKeeps, CompleteKeeps, RefusedKeeps,
     CleanupKeeps, AbandonKeeps
<1>4. CASE RecoverNext(q) \/ RecoverLoopEnd(q) \/ Restore(q) \/ Reverify(q) \/ Installer(q) \/ OwnBack(q)
           \/ InterruptUndo(q) \/ InterruptFail(q) \/ InterruptComplete(q)
  BY <1>4, RecoverNextKeeps, RecoverLoopEndKeeps, RestoreKeeps, ReverifyKeeps, InstallerKeeps, OwnBackKeeps,
     InterruptUndoKeeps, InterruptFailKeeps, InterruptCompleteKeeps
<1>5. CASE Plan(q) \/ RecoverStart(q) \/ AbandonStart(q) \/ Crash(q) \/ Interrupt(q)
  BY <1>5, PlanKeeps, RecoverStartKeeps, CrashKeeps, InterruptKeeps
<1> QED BY <1>1, <1>2, <1>3, <1>4, <1>5 DEF Step

\* A step of an invocation is seen by no other one: it changes the registers of
\* its own process only.
LEMMA SetOthers ==
  ASSUME NEW p \in Proc, NEW ps, Set(p, ps), NEW q \in Proc, q # p
  PROVE  proc'[q] = proc[q]
  BY DEF Set

\* Every step of an invocation does so, and the invocation is under way before
\* the step or after it.
LEMMA OthersUntouched ==
  ASSUME TypeInv, NEW p \in Proc, NEW q \in Proc, q # p,
         Step(p) \/ Plan(p) \/ RecoverStart(p) \/ AbandonStart(p) \/ Crash(p) \/ Interrupt(p)
  PROVE  /\ proc'[q] = proc[q]
         /\ proc[p].pc # "idle" \/ proc'[p].pc # "idle"
<1> HIDE DEF At, InRun
<1>1. \E ps : Set(p, ps)
  <2>1. CASE StartRun(p) \/ StartRefused(p) \/ RunNext(p) \/ Prepare(p) \/ PrepareFails(p)
           \/ JournalRunning(p) \/ Execute(p) \/ ExecuteFails(p) \/ Verify(p) \/ JournalSucceeded(p)
    BY <2>1, Zenon DEF StartRun, StartRefused, RunNext, Prepare, PrepareFails, JournalRunning, Execute,
       ExecuteFails, Verify, JournalSucceeded, Goto
  <2>2. CASE UndoVerify(p) \/ JournalFailVerify(p) \/ Undo(p) \/ JournalFail(p) \/ Human(p) \/ RecordDrift(p)
           \/ DriftSkip(p) \/ Agent(p) \/ AgentResolve(p) \/ AgentVerify(p) \/ AgentSucceed(p) \/ AgentFail(p)
           \/ AgentSkip(p) \/ AgentError(p)
    BY <2>2, Zenon DEF UndoVerify, JournalFailVerify, Undo, JournalFail, Human, RecordDrift, DriftSkip, Agent,
       AgentResolve, AgentVerify, AgentSucceed, AgentFail, AgentSkip, AgentError, Goto
  <2>3. CASE Cascade(p) \/ CascadeJournal(p) \/ CascadeEnd(p) \/ Skip(p) \/ Complete(p) \/ CompleteFails(p)
           \/ Cleanup(p) \/ Abandon(p)
    BY <2>3, Zenon DEF Cascade, CascadeJournal, CascadeEnd, Skip, Complete, CompleteFails, Cleanup, Abandon, Goto
  <2>4. CASE RecoverNext(p) \/ RecoverLoopEnd(p) \/ Restore(p) \/ Reverify(p) \/ Installer(p) \/ OwnBack(p)
           \/ InterruptUndo(p) \/ InterruptFail(p) \/ InterruptComplete(p)
    BY <2>4, Zenon DEF RecoverNext, RecoverLoopEnd, Restore, Reverify, Installer, OwnBack, InterruptUndo,
       InterruptFail, InterruptComplete, Goto, GiveUp
  <2>5. CASE Plan(p) \/ RecoverStart(p) \/ AbandonStart(p) \/ Crash(p) \/ Interrupt(p)
    BY <2>5, Zenon DEF Plan, RecoverStart, AbandonStart, Crash, Interrupt, Goto
  <2> QED BY <2>1, <2>2, <2>3, <2>4, <2>5 DEF Step
<1>2. proc'[q] = proc[q]
  BY <1>1, SetOthers
<1>3. CASE Plan(p) \/ RecoverStart(p) \/ AbandonStart(p)
  <2>1. proc'[p].pc # "idle"
    <3>1. \E ps : Set(p, ps) /\ ps.pc # "idle"
      <4>1. CASE Plan(p)
        <5>1. PICK pl : Set(p, [Idle EXCEPT !.pc = "planned", !.plan = pl, !.inp = applied])
          BY <4>1 DEF Plan
        <5>2. [Idle EXCEPT !.pc = "planned", !.plan = pl, !.inp = applied].pc = "planned"
          BY IdleIs DEF Process
        <5> QED BY <5>1, <5>2
      <4>2. CASE RecoverStart(p)
        <5>1. Set(p, [Idle EXCEPT
                !.pc = "next", !.mode = "recover", !.run = cur, !.plan = plan[cur],
                !.inp = [a \in Act |-> IF Displaced(journal[a]) # "none"
                                       THEN Displaced(journal[a]) ELSE applied[a]],
                !.seen = [a \in Act |-> [last |-> Last(journal[a]),
                                         ref |-> HasReference(journal[a])]],
                !.drift = drifts # {}])
          BY <4>2 DEF RecoverStart
        <5> DEFINE in == [a \in Act |-> IF Displaced(journal[a]) # "none"
                                        THEN Displaced(journal[a]) ELSE applied[a]]
                   sn == [a \in Act |-> [last |-> Last(journal[a]), ref |-> HasReference(journal[a])]]
                   dr == drifts # {}
        <5> HIDE DEF in, sn, dr
        <5>2. Set(p, [Idle EXCEPT
                !.pc = "next", !.mode = "recover", !.run = cur, !.plan = plan[cur],
                !.inp = in, !.seen = sn, !.drift = dr])
          BY <5>1 DEF in, sn, dr
        <5>3. [Idle EXCEPT
                !.pc = "next", !.mode = "recover", !.run = cur, !.plan = plan[cur],
                !.inp = in, !.seen = sn, !.drift = dr].pc = "next"
          BY IdleIs DEF Process
        <5> QED BY <5>2, <5>3
      <4>3. CASE AbandonStart(p)
        <5>1. Set(p, [Idle EXCEPT !.pc = "abandon", !.run = cur, !.plan = plan[cur], !.inp = applied])
          BY <4>3 DEF AbandonStart
        <5>2. [Idle EXCEPT !.pc = "abandon", !.run = cur, !.plan = plan[cur], !.inp = applied].pc = "abandon"
          BY IdleIs DEF Process
        <5> QED BY <5>1, <5>2
      <4> QED BY <1>3, <4>1, <4>2, <4>3
    <3> QED BY <3>1, SetIs
  <2> QED BY <1>2, <2>1
<1>4. CASE Step(p) \/ Crash(p) \/ Interrupt(p)
  <2>1. proc[p].pc # "idle"
    BY <1>4 DEF Step, Crash, Interrupt, StartRun, StartRefused, RunNext, Prepare, PrepareFails, JournalRunning,
       Execute, ExecuteFails, Verify, JournalSucceeded, UndoVerify, JournalFailVerify, Undo, JournalFail, Human,
       RecordDrift, DriftSkip, Agent, AgentResolve, AgentVerify, AgentSucceed, AgentFail, AgentSkip, AgentError,
       Cascade, CascadeJournal, CascadeEnd, Skip, Complete, CompleteFails, Cleanup, Abandon, RecoverNext,
       RecoverLoopEnd, Restore, Reverify, Installer, OwnBack, InterruptUndo, InterruptFail, InterruptComplete
  <2> QED BY <1>2, <2>1
<1> QED BY <1>3, <1>4

\* When a user edits a target, nothing is claimed of it any more.
LEMMA EditKeeps ==
  ASSUME TypeInv, Core, NEW b \in Act, Edit(b)
  PROVE  Core' /\ \A q \in Proc : RInv(q) => RInv(q)'
<1>1. /\ UNCHANGED <<cur, status, plan, journal, applied, snap, proc, base>>
      /\ edited' = edited \cup {b}
      /\ \A a \in Act \ edited' : file'[a] = file[a]
  BY DEF Edit, db, TypeInv, DurableOK
<1>2. (Open(cur)' <=> Open(cur)) /\ \A a \in Act : KindOf(a)' = KindOf(a)
  BY <1>1 DEF Open, KindOf
<1>3. \A a \in Act : (SafeInv(a) => SafeInv(a)') /\ (Holds(a) => Holds(a)')
  BY <1>1, <1>2 DEF SafeInv, Holds
<1>4. \A a \in Act : ConvergedInv(a) => ConvergedInv(a)'
  BY <1>1, <1>2, <1>3 DEF ConvergedInv
<1>5. Core'
  BY <1>1, <1>2, <1>3, <1>4 DEF Core
<1>6. ASSUME NEW q \in Proc, RInv(q)
      PROVE  RInv(q)'
  <2>1. proc'[q] = proc[q] /\ (At(q)' = At(q)) /\ (InRun(q)' <=> InRun(q)) /\ K(q)' = K(q)
        /\ (Forward(q)' <=> Forward(q)) /\ (Flagged(q)' <=> Flagged(q)) /\ (Fresh(q)' <=> Fresh(q))
    BY <1>1 DEF K, Forward, Flagged, Fresh
  <2> HIDE DEF At, InRun
  <2>2. RunInv(q)'
    BY <1>1, <1>2, <1>6, <2>1 DEF RInv, RunInv
  <2>3. PlaceInv(q)'
    BY <1>6, <2>1 DEF RInv, PlaceInv
  <2>4. ASSUME NEW a \in Act
        PROVE  ActionInv(q, a)'
    <3>1. ActionInv(q, a)
      BY <1>6 DEF RInv
    <3>2. AheadInv(q, a)'
      <4>1. Ahead(q, a)' <=> Ahead(q, a)
        BY <2>1 DEF Ahead
      <4> QED BY <1>1, <1>2, <2>1, <3>1, <4>1 DEF ActionInv, AheadInv
    <3>3. JournalInv(q, a)'
      BY <1>1, <1>2, <2>1, <3>1 DEF ActionInv, JournalInv
    <3>4. PreimageInv(q, a)'
      BY <1>1, <1>2, <2>1, <3>1 DEF ActionInv, PreimageInv
    <3>5. HoldsInv(q, a)'
      BY <1>3, <2>1, <3>1 DEF ActionInv, HoldsInv
    <3> QED BY <1>3, <1>4, <3>1, <3>2, <3>3, <3>4, <3>5 DEF ActionInv
  <2> QED BY <2>2, <2>3, <2>4 DEF RInv
<1> QED BY <1>5, <1>6

\* A stuttering step.
LEMMA StutterKeeps ==
  ASSUME UNCHANGED vars, NEW q \in Proc, RInv(q)
  PROVE  RInv(q)'
<1>1. UNCHANGED <<cur, status, plan, journal, applied, file, snap, proc, base, edited>>
  BY DEF vars
<1> QED BY <1>1 DEF RInv, RunInv, PlaceInv, ActionInv, AheadInv, Ahead, JournalInv, SafeInv, PreimageInv, HoldsInv,
       ConvergedInv, Holds, Open, KindOf, K, Forward, Flagged, Fresh

\* The inductive invariant.
Recovering == Core /\ \A q \in Proc : RInv(q)

\* Nothing has run yet.
LEMMA RecoveringInit ==
  ASSUME Init
  PROVE  Recovering
<1>1. cur = 0 /\ status = [r \in Run |-> "none"] /\ \A r \in Run : snap[r] = [a \in Act |-> "none"]
  BY DEF Init
<1>2. ~Open(cur)
  BY <1>1 DEF Open, Run
<1>3. Core
  BY <1>1, <1>2 DEF Core, SafeInv, ConvergedInv
<1>4. ASSUME NEW q \in Proc
      PROVE  RInv(q)
  <2>1. proc[q] = Idle
    BY DEF Init
  <2>2. At(q) = "idle" /\ Fresh(q) /\ proc[q].done = <<>> /\ proc[q].mode = "run" /\ proc[q].att = 1
    BY <2>1, IdleIs DEF Fresh, Flagged
  <2>3. RunInv(q)
    BY <1>3, <2>2 DEF RunInv, Core
  <2>4. PlaceInv(q)
    BY <2>2 DEF PlaceInv, Tasks
  <2>5. ASSUME NEW a \in Act
        PROVE  ActionInv(q, a)
    <3>1. HoldsInv(q, a)
      BY <2>2 DEF HoldsInv, Forward
    <3> QED BY <1>2, <1>3, <3>1 DEF ActionInv, AheadInv, JournalInv, PreimageInv, SafeInv, Core
  <2> QED BY <2>3, <2>4, <2>5 DEF RInv
<1> QED BY <1>3, <1>4 DEF Recovering

\* The invariant is inductive as long as no two invocations are under way.
LEMMA RecoveringNext ==
  ASSUME TypeInv, Recovering, Alone, Alone', [Next]_vars
  PROVE  Recovering'
<1>1. ASSUME NEW p \in Proc,
             Step(p) \/ Plan(p) \/ RecoverStart(p) \/ AbandonStart(p) \/ Crash(p) \/ Interrupt(p)
      PROVE  Recovering'
  <2>1. RInv(p)'
    BY <1>1, OwnStepKeeps DEF Recovering
  <2>2. Core'
    BY <2>1, CoreAfter
  <2>3. ASSUME NEW q \in Proc, q # p
        PROVE  RInv(q)'
    <3>1. /\ proc'[q] = proc[q]
          /\ proc[p].pc # "idle" \/ proc'[p].pc # "idle"
      BY <1>1, <2>3, OthersUntouched
    <3>2. proc[q].pc = "idle"
      BY <2>3, <3>1 DEF Alone
    <3>3. Fresh(q)
      BY <3>2 DEF Recovering, RInv, RunInv
    <3>4. Fresh(q)' /\ At(q)' = "idle"
      BY <3>1, <3>2, <3>3 DEF Fresh, Flagged
    <3> QED BY <2>2, <3>4, AsideKnows
  <2> HIDE DEF At, InRun
  <2> QED BY <2>1, <2>2, <2>3 DEF Recovering
<1>2. ASSUME NEW a \in Act, Edit(a)
      PROVE  Recovering'
  BY <1>2, EditKeeps DEF Recovering
<1>3. CASE UNCHANGED vars
  <2>1. Core'
    BY <1>3, CoreStays DEF Recovering, vars, db, fs, history
  <2> QED BY <1>3, <2>1, StutterKeeps DEF Recovering
<1> QED BY <1>1, <1>2, <1>3 DEF Next, Rest

\* Recovering holds of every behaviour whose invocations do not overlap.
LEMMA RecoveringAlways == Spec /\ []Alone => [](Recovering /\ TypeInv)
<1>1. Init => Recovering /\ TypeInv
  BY RecoveringInit, InitType
<1>2. Recovering /\ TypeInv /\ Alone /\ Alone' /\ [Next]_vars => (Recovering /\ TypeInv)'
  BY RecoveringNext, NextType
<1> QED BY <1>1, <1>2, PTL DEF Spec
=============================================================================
