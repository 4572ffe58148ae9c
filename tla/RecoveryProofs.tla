--------------------------- MODULE RecoveryProofs ---------------------------
(***************************************************************************)
(* What recovery guarantees for every plan, every mix of crashes, errors,  *)
(* interrupts and edits, and every number of recoveries, as long as no two *)
(* invocations overlap: mutations are recoverable, the engine never writes *)
(* a journal that recovery refuses, Converged is true, and what a user     *)
(* added to an append-local file stays there.  A run that nothing cuts     *)
(* short undoes its failure and leaves nothing half done, and so does a    *)
(* run that only crashes and interrupts cut short, however often.          *)
(***************************************************************************)
EXTENDS SyncRunProofs

USE DEF At, Aside, Over, Behind, Rolling, InRun

----------------------------------------------------------------------------
(* What follows from the invariant of every step. *)

\* A managed file of an open run that differs from what the run found has a
\* snapshot of exactly that content which its journal refers to, in every
\* state: between a crash, an error or an interrupt and any number of recoveries.
THEOREM MutationsStayRecoverable == Spec /\ []Alone => []MutationsAreRecoverable
<1>1. Recovering => MutationsAreRecoverable
  BY DEF Recovering, Core, SafeInv, MutationsAreRecoverable
<1> QED BY <1>1, RecoveringAlways, PTL

\* The engine never records a journal that the validation of the next recovery
\* would refuse.
THEOREM RecoveryIsNeverRefused == Spec /\ []Alone => []JournalStaysValid
<1>1. Recovering => JournalStaysValid
  BY DEF Recovering, Core, Ordered, JournalStaysValid
<1> QED BY <1>1, RecoveringAlways, PTL

\* A run that ends Converged has every target the user left alone as the
\* profile wants it and its ownership record as verified.
THEOREM ConvergedIsTrue == Spec /\ []Alone => []ConvergedMeansConverged
<1>1. Recovering => ConvergedMeansConverged
  BY DEF Recovering, Core, ConvergedInv, Holds, ConvergedMeansConverged
<1> QED BY <1>1, RecoveringAlways, PTL

----------------------------------------------------------------------------
(* The text a user added to an append-local target. *)

\* The step leaves it where it is.
Spared == \A a \in Act : KindOf(a) = "append" /\ file[a] = "mixed" => file'[a] = "mixed"

\* Composing over it keeps it, and a rollback accepts it only as its preimage.
LEMMA AdditionsStay ==
  /\ Desired("append", "mixed") = "mixed"
  /\ \A pre : Overwritable("append", "mixed", pre) => pre = "mixed"
  /\ Unfinished("append", "mixed", "mixed") = {"mixed"}
  BY DEF Desired, Overwritable, Unfinished, Divisible

\* A restore, whether it completes or not.
LEMMA RestoreSpares ==
  ASSUME TypeInv, NEW q \in Proc, RInv(q), InRun(q), NEW b,
         Restored(q, b) \/ RestoreFails(q, b)
  PROVE  Spared
<1> SUFFICES ASSUME NEW a \in Act, KindOf(a) = "append", file[a] = "mixed"
             PROVE  file'[a] = "mixed"
  BY DEF Spared
<1>1. file \in [Act -> Content] /\ proc[q].plan[a] = "append"
  BY InRunIs DEF TypeInv, DurableOK
<1>2. b = a /\ CanRestore(q, b) => Preimage(q, b) = "mixed"
  BY <1>1, AdditionsStay DEF CanRestore
<1>3. CASE Restored(q, b)
  BY <1>1, <1>2, <1>3 DEF Restored
<1>4. CASE RestoreFails(q, b)
  BY <1>1, <1>2, <1>4, AdditionsStay DEF RestoreFails
<1> QED BY <1>3, <1>4

\* What a process that stops leaves of the files.
LEMMA TornSpares ==
  ASSUME TypeInv, NEW q \in Proc, RInv(q), file' \in Torn(q)
  PROVE  Spared
<1> SUFFICES ASSUME NEW a \in Act, KindOf(a) = "append", file[a] = "mixed"
             PROVE  file'[a] = "mixed"
  BY DEF Spared
<1> DEFINE b == IF At(q) = "cascade" THEN Top(q).a ELSE proc[q].i
           restoring == /\ \/ At(q) = "restore"
                           \/ At(q) \in {"undoVerify", "undo", "intUndo", "intUnlink"} /\ proc[q].prep
                           \/ At(q) = "cascade" /\ proc[q].done # <<>>
                        /\ proc[q].plan[b] \in FileBacked /\ CanRestore(q, b)
<1>1. \/ file' = file
      \/ At(q) = "execute" /\ \E c \in Unfinished(K(q), file[b], Written(q)) : file' = [file EXCEPT ![b] = c]
      \/ restoring /\ \E c \in Unfinished(proc[q].plan[b], file[b], Preimage(q, b)) : file' = [file EXCEPT ![b] = c]
  BY DEF Torn
<1>2. file \in [Act -> Content]
  BY DEF TypeInv, DurableOK
<1>3. CASE restoring /\ \E c \in Unfinished(proc[q].plan[b], file[b], Preimage(q, b)) : file' = [file EXCEPT ![b] = c]
  <2>1. InRun(q) /\ CanRestore(q, b)
    BY <1>3
  <2> HIDE DEF b, restoring
  <2>2. proc[q].plan[a] = "append"
    BY <2>1, InRunIs
  <2>3. b = a => Preimage(q, b) = "mixed"
    BY <2>1, <2>2, AdditionsStay DEF CanRestore
  <2> QED BY <1>2, <1>3, <2>2, <2>3, AdditionsStay
<1>4. CASE At(q) = "execute" /\ \E c \in Unfinished(K(q), file[b], Written(q)) : file' = [file EXCEPT ![b] = c]
  <2>1. InRun(q) /\ b = proc[q].i
    BY <1>4
  <2> HIDE DEF b, restoring
  <2>2. b = a => K(q) = "append"
    BY <2>1, InRunIs
  <2>3. b = a => Written(q) = "mixed"
    BY <2>1, <2>2, AdditionsStay DEF Written
  <2> QED BY <1>2, <1>4, <2>2, <2>3, AdditionsStay
<1> QED BY <1>1, <1>3, <1>4

\* Every step of an invocation.
LEMMA StepSpares ==
  ASSUME TypeInv, NEW q \in Proc, RInv(q),
         Step(q) \/ Plan(q) \/ RecoverStart(q) \/ AbandonStart(q) \/ Crash(q) \/ Interrupt(q)
  PROVE  Spared
<1>0. file \in [Act -> Content]
  BY DEF TypeInv, DurableOK
<1>1. CASE UNCHANGED file
  BY <1>1 DEF Spared
<1>2. CASE Execute(q) \/ ExecuteFails(q)
  <2> SUFFICES ASSUME NEW a \in Act, KindOf(a) = "append", file[a] = "mixed"
               PROVE  file'[a] = "mixed"
    BY DEF Spared
  <2>1. At(q) = "execute"
    BY <1>2 DEF Execute, ExecuteFails
  <2>2. proc[q].i = a => K(q) = "append"
    BY <2>1, InRunIs
  <2>3. proc[q].i = a => Written(q) = "mixed"
    BY <2>2, AdditionsStay DEF Written
  <2>4. CASE Execute(q)
    BY <1>0, <2>3, <2>4 DEF Execute
  <2>5. CASE ExecuteFails(q)
    <3>1. PICK c \in Unfinished(K(q), file[proc[q].i], Written(q)) : file' = [file EXCEPT ![proc[q].i] = c]
      BY <2>5 DEF ExecuteFails
    <3> QED BY <1>0, <2>2, <2>3, <3>1, AdditionsStay
  <2> QED BY <1>2, <2>4, <2>5
<1>3. CASE AgentResolve(q)
  <2> SUFFICES ASSUME NEW a \in Act, KindOf(a) = "append", file[a] = "mixed"
               PROVE  file'[a] = "mixed"
    BY DEF Spared
  <2>1. At(q) = "agentResolve" /\ \E c : file' = [file EXCEPT ![proc[q].i] = c]
    BY <1>3 DEF AgentResolve
  <2>2. K(q) = "agent"
    BY <2>1 DEF RInv, PlaceInv, Tasks
  <2>3. proc[q].i # a
    BY <2>1, <2>2, InRunIs
  <2> QED BY <1>0, <2>1, <2>3
<1>4. CASE UndoVerify(q) \/ Undo(q) \/ Cascade(q) \/ Restore(q)
  <2>1. InRun(q)
    BY <1>4 DEF UndoVerify, Undo, Cascade, Restore
  <2>2. \/ UNCHANGED file
        \/ \E b : Restored(q, b) \/ RestoreFails(q, b)
    BY <1>4 DEF UndoVerify, Undo, Cascade, Restore
  <2> HIDE DEF At, InRun
  <2> QED BY <1>1, <2>1, <2>2, RestoreSpares
<1>5. CASE InterruptUndo(q)
  <2> DEFINE i == proc[q].i
  <2>1. At(q) \in {"intUndo", "intUnlink"} /\ InRun(q)
    BY <1>5 DEF InterruptUndo
  <2>2. CASE CanRestore(q, i) /\ \E c \in {Preimage(q, i)} \cup
               (IF At(q) = "intUnlink" THEN {"absent"} ELSE {}) : file' = [file EXCEPT ![i] = c]
    <3> SUFFICES ASSUME NEW a \in Act, KindOf(a) = "append", file[a] = "mixed"
                 PROVE  file'[a] = "mixed"
      BY DEF Spared
    <3>1. proc[q].plan[a] = "append" /\ (i = a => K(q) = "append")
      BY <2>1, InRunIs
    <3>2. i = a => At(q) # "intUnlink"
      BY <3>1 DEF RInv, PlaceInv
    <3>3. i = a => Preimage(q, i) = "mixed"
      BY <2>2, <3>1, AdditionsStay DEF CanRestore
    <3> QED BY <1>0, <2>2, <3>2, <3>3
  <2>3. CASE RestoreFails(q, i)
    BY <2>1, <2>3, RestoreSpares
  <2> QED BY <1>1, <1>5, <2>2, <2>3 DEF InterruptUndo
<1>6. CASE Crash(q) \/ Interrupt(q)
  BY <1>6, TornSpares DEF Crash, Interrupt
<1>7. CASE \/ StartRun(q) \/ StartRefused(q) \/ RunNext(q) \/ Prepare(q) \/ PrepareFails(q) \/ JournalRunning(q)
           \/ Verify(q) \/ JournalSucceeded(q) \/ JournalFailVerify(q) \/ JournalFail(q) \/ Human(q)
           \/ RecordDrift(q) \/ DriftSkip(q) \/ Agent(q) \/ AgentVerify(q) \/ AgentSucceed(q) \/ AgentFail(q)
           \/ AgentSkip(q) \/ AgentError(q)
  <2>1. UNCHANGED file
    BY <1>7 DEF StartRun, StartRefused, RunNext, Prepare, PrepareFails, JournalRunning, Verify, JournalSucceeded,
       JournalFailVerify, JournalFail, Human, RecordDrift, DriftSkip, Agent, AgentVerify, AgentSucceed, AgentFail,
       AgentSkip, AgentError, fs
  <2> QED BY <1>1, <2>1
<1>8. CASE \/ CascadeJournal(q) \/ CascadeEnd(q) \/ Skip(q) \/ Complete(q) \/ CompleteFails(q) \/ Cleanup(q)
           \/ RecoverNext(q) \/ RecoverLoopEnd(q) \/ Reverify(q) \/ Installer(q) \/ OwnBack(q) \/ Abandon(q)
           \/ InterruptFail(q) \/ InterruptComplete(q) \/ Plan(q) \/ RecoverStart(q) \/ AbandonStart(q)
  <2>1. UNCHANGED file
    BY <1>8 DEF CascadeJournal, CascadeEnd, Skip, Complete, CompleteFails, Cleanup, RecoverNext, RecoverLoopEnd,
       Reverify, Installer, OwnBack, Abandon, InterruptFail, InterruptComplete, Plan, RecoverStart, AbandonStart, fs
  <2> QED BY <1>1, <2>1
<1> QED BY <1>2, <1>3, <1>4, <1>5, <1>6, <1>7, <1>8 DEF Step

\* Text a user added to an append-local target after it was written is still
\* there after every step of a run, a rollback or a recovery, also one that
\* fails or stops half way: only a user takes it away (appendLocalOutput,
\* restoreAppendLocal).
THEOREM AdditionsSurvive == Spec /\ []Alone => LocalAdditionsSurvive
<1> DEFINE A == \A a \in Act : cur > 0 /\ KindOf(a) = "append" /\ file[a] = "mixed"
                  => file'[a] = "mixed" \/ spent'["edit"] > spent["edit"]
<1>1. ASSUME TypeInv, Recovering, [Next]_vars
      PROVE  [A]_vars
  <2>1. ASSUME NEW q \in Proc,
               Step(q) \/ Plan(q) \/ RecoverStart(q) \/ AbandonStart(q) \/ Crash(q) \/ Interrupt(q)
        PROVE  Spared
    BY <1>1, <2>1, StepSpares DEF Recovering
  <2>2. ASSUME NEW a \in Act, Edit(a)
        PROVE  spent'["edit"] > spent["edit"]
    <3>1. spent' = [spent EXCEPT !["edit"] = @ + 1] /\ spent \in [Mishap -> Nat] /\ "edit" \in Mishap
      BY <1>1, <2>2 DEF Edit, Spend, TypeInv, DurableOK, Mishap
    <3> QED BY <3>1
  <2>3. CASE UNCHANGED vars
    BY <2>3
  <2> QED BY <1>1, <2>1, <2>2, <2>3 DEF Next, Rest, Spared
<1>2. [Next]_vars /\ TypeInv /\ Recovering => [A]_vars
  BY <1>1
<1> QED BY <1>2, RecoveringAlways, PTL DEF Spec, LocalAdditionsSurvive

----------------------------------------------------------------------------
(* A run that no crash and no interrupt cuts short. *)

\* No invocation is cut short and the database takes every transaction that an
\* open run allows; the filesystem may refuse what it likes, and users edit.
Uncut == spent["crash"] = 0 /\ spent["interrupt"] = 0 /\ spent["db"] = 0

\* The target, and the record, are as the run found them.
Back(a) == a \notin edited => file[a] = base.file[a]
Own(a) == applied[a] = base.applied[a]
\* The record is the one a success of the action leaves.
Wanted(a) == /\ KindOf(a) \in Owning => applied[a] = "new"
             /\ KindOf(a) = "remove" => applied[a] = "none"
InDone(q, a) == \E n \in 1..Len(proc[q].done) : proc[q].done[n].a = a

\* Nothing is left of the action but what a failed inverse could not undo.
Undone(q, a) == KindOf(a) \in Invertible => a \in proc[q].keep \/ (Back(a) /\ Own(a))
\* The target is as found, or done and owned.
Whole(a) == KindOf(a) \in FileBacked => Back(a) \/ (Holds(a) /\ Wanted(a))

\* The places of the loop of a run that is not cut short.
Working == {"next", "prepare", "running", "execute", "verify", "succeed", "undoVerify", "failVerify",
            "undo", "fail", "human", "drift", "driftSkip", "agent", "agentResolve", "agentVerify",
            "agentSucceed", "agentFail", "agentSkip", "agentError"}
Finishing == {"cascade", "cascadeJournal", "skip", "complete", "cleanup"}

\* Where the invocation is, and the records it found.
CourseInv(q) ==
  /\ At(q) \in Working \cup Finishing \cup {"idle", "planned"}
  /\ At(q) \in {"idle", "planned"} => proc[q].own = "unset" /\ proc[q].keep = {}
  /\ At(q) = "planned" => proc[q].inp = applied
  /\ InRun(q) => /\ proc[q].mode = "run" /\ proc[q].own = "unset" /\ proc[q].inp = base.applied
                 /\ \A n \in 1..Len(proc[q].done) : proc[q].done[n].prev = base.applied[proc[q].done[n].a]
  /\ At(q) \in Working => ~proc[q].fail

\* The action it works on.
CurrentInv(q, a) ==
  At(q) \in Working /\ a = proc[q].i =>
    /\ Own(a)
    /\ KindOf(a) \notin FileBacked => ~proc[q].prep
    /\ KindOf(a) \in FileBacked =>
         /\ At(q) \in {"running", "execute"} => Back(a)
         /\ At(q) \in {"running", "execute", "verify", "succeed", "undoVerify", "failVerify", "undo"} => proc[q].prep
    /\ KindOf(a) \in Invertible =>
         /\ At(q) = "failVerify" => Back(a)
         /\ At(q) = "fail" => a \in proc[q].keep \/ Back(a)

\* The other actions, and what is left of them all.
OtherInv(q, a) ==
  /\ At(q) \in Working /\ a > proc[q].i => Own(a)
  /\ At(q) \in Working /\ a < proc[q].i => Wanted(a) /\ (KindOf(a) \in Invertible => InDone(q, a))
  /\ At(q) \in {"cascade", "cascadeJournal"} => InDone(q, a) \/ Undone(q, a)
  /\ At(q) = "cascadeJournal" /\ a = Top(q).a /\ KindOf(a) \in Invertible => Back(a)
  /\ At(q) \in {"skip", "complete"} => IF proc[q].fail THEN Undone(q, a) ELSE Whole(a)
  /\ At(q) = "cleanup" /\ a \notin proc[q].keep => Whole(a)
  /\ InRun(q) /\ a \in proc[q].keep /\ a \notin edited /\ KindOf(a) \in FileBacked => snap[cur][a] = base.file[a]

\* A target that is only observed is as the run found it.
ObservedInv(a) == Open(cur) /\ KindOf(a) = "verify" => Back(a)

\* What a run that has ended leaves.
EndInv(a) ==
  /\ Ended /\ a \notin edited /\ KindOf(a) \in FileBacked =>
       Back(a) \/ (Holds(a) /\ Wanted(a)) \/ snap[cur][a] = base.file[a]
  /\ cur > 0 /\ status[cur] = "Failed" /\ a \notin kept /\ KindOf(a) \in Invertible => Back(a) /\ Own(a)

CoursedInv(q) == CourseInv(q) /\ \A a \in Act : CurrentInv(q, a) /\ OtherInv(q, a)
LeftInv == \A a \in Act : ObservedInv(a) /\ EndInv(a)

UncutInv ==
  /\ Open(cur) => \E q \in Proc : InRun(q)
  /\ LeftInv
  /\ \A q \in Proc : CoursedInv(q)

----------------------------------------------------------------------------
(* What the updates of an invocation leave of its books. *)

Booked(q) == /\ proc'[q].own = proc[q].own /\ proc'[q].inp = proc[q].inp
             /\ proc'[q].keep = proc[q].keep

\* Moving on within an action.
LEMMA GotoBooks ==
  ASSUME TypeInv, NEW q \in Proc, NEW l, Goto(q, l)
  PROVE  Moved(q, l) /\ Booked(q)
<1>1. proc[q] \in Process /\ proc'[q] = [proc[q] EXCEPT !.pc = l]
  BY Registers, SetIs DEF Goto
<1> QED BY <1>1, GotoMoves DEF Process, Booked

\* A failed action of a run.
LEMMA FailBooks ==
  ASSUME TypeInv, NEW q \in Proc, proc[q].mode = "run", Set(q, FailedAction(proc[q]))
  PROVE  At(q)' = "cascade" /\ SameLoop(q) /\ proc'[q].fail = TRUE /\ Booked(q)
<1>1. proc[q] \in Process /\ proc'[q] = [proc[q] EXCEPT !.fail = TRUE, !.pc = "cascade"]
  BY Registers, SetIs DEF FailedAction
<1> QED BY <1>1 DEF Process, SameLoop, Booked

\* A human or drift outcome of a run, or the end of its inverses.
LEMMA StopBooks ==
  ASSUME TypeInv, NEW q \in Proc, proc[q].mode = "run",
         \/ Set(q, Stopped([proc[q] EXCEPT !.human = TRUE]))
         \/ Set(q, Stopped([proc[q] EXCEPT !.drift = TRUE]))
         \/ Set(q, Stopped(proc[q]))
  PROVE  At(q)' = "skip" /\ SameLoop(q) /\ proc'[q].fail = proc[q].fail /\ Booked(q)
<1>1. proc[q] \in Process
  BY Registers
<1>2. \/ proc'[q] = [[proc[q] EXCEPT !.human = TRUE] EXCEPT !.pc = "skip"]
      \/ proc'[q] = [[proc[q] EXCEPT !.drift = TRUE] EXCEPT !.pc = "skip"]
      \/ proc'[q] = [proc[q] EXCEPT !.pc = "skip"]
  BY <1>1 DEF TypeInv, Set, Stopped, Process
<1> QED BY <1>1, <1>2 DEF Process, SameLoop, Booked

\* The loop goes on; an inverse puts back the record the invocation had found.
LEMMA PassBooks ==
  ASSUME TypeInv, NEW q \in Proc, proc[q].own = "unset", NEW b \in BOOLEAN, Set(q, Verified(proc[q], b))
  PROVE  /\ At(q)' = "next" /\ proc'[q].i = proc[q].i + 1 /\ proc'[q].prep = FALSE
         /\ proc'[q].mode = proc[q].mode /\ proc'[q].fail = proc[q].fail /\ Booked(q)
         /\ proc'[q].done = IF b THEN Append(proc[q].done, [a |-> proc[q].i, att |-> proc[q].att,
                                                            prev |-> proc[q].inp[proc[q].i]])
                            ELSE proc[q].done
<1> DEFINE d == IF b THEN Append(proc[q].done, [a |-> proc[q].i, att |-> proc[q].att,
                                                prev |-> proc[q].inp[proc[q].i]])
                ELSE proc[q].done
<1>1. proc[q] \in Process
  BY Registers
<1>2. proc'[q] = [proc[q] EXCEPT !.pc = "next", !.i = proc[q].i + 1, !.own = "unset", !.prep = FALSE, !.done = d]
  BY <1>1, SetIs DEF Verified, Process
<1> HIDE DEF d
<1>3. /\ At(q)' = "next" /\ proc'[q].i = proc[q].i + 1 /\ proc'[q].prep = FALSE
      /\ proc'[q].mode = proc[q].mode /\ proc'[q].fail = proc[q].fail /\ Booked(q) /\ proc'[q].done = d
  BY <1>1, <1>2 DEF Process, Booked
<1> QED BY <1>3 DEF d

----------------------------------------------------------------------------
(* A step on the current action. *)

\* The other actions are left alone.
Turns(q) ==
  /\ UNCHANGED <<cur, status, plan, base, edited>>
  /\ \A b \in Act \ {proc[q].i} :
       file'[b] = file[b] /\ snap'[cur][b] = snap[cur][b] /\ applied'[b] = applied[b]
  /\ proc'[q].mode = proc[q].mode /\ proc'[q].own = "unset" /\ proc'[q].inp = proc[q].inp
  /\ proc'[q].keep \subseteq proc[q].keep \cup {proc[q].i}
  /\ \A a \in Act : a = proc[q].i =>
       /\ KindOf(a) = "verify" => file'[a] = file[a]
       /\ a \in proc'[q].keep /\ Backed(a) => snap'[cur][a] = base.file[a]

\* Where it may lead.
Stays(q) ==
  /\ At(q)' \in Working /\ proc'[q].i = proc[q].i /\ proc'[q].done = proc[q].done /\ ~proc'[q].fail
  /\ \A a \in Act : a = proc[q].i => CurrentInv(q, a)'
Falls(q) ==
  /\ At(q)' = "cascade" /\ proc'[q].done = proc[q].done
  /\ \A a \in Act : a = proc[q].i => Undone(q, a)'
Halts(q) ==
  /\ At(q)' \in {"skip", "complete"} /\ proc'[q].done = proc[q].done /\ ~proc'[q].fail
  /\ \A a \in Act : a = proc[q].i => Whole(a)'
Passes(q) ==
  /\ At(q)' = "next" /\ proc'[q].i = proc[q].i + 1 /\ ~proc'[q].fail /\ ~proc'[q].prep
  /\ \A a \in Act : a = proc[q].i => Wanted(a)'
  /\ \/ /\ proc'[q].done = proc[q].done
        /\ \A a \in Act : a = proc[q].i => KindOf(a) \notin Invertible
     \/ \E att : proc'[q].done = Append(proc[q].done, [a |-> proc[q].i, att |-> att,
                                                       prev |-> base.applied[proc[q].i]])

\* What is known of the other actions before the step and stays so.
LEMMA TurnsLeave ==
  ASSUME TypeInv, NEW q \in Proc, RInv(q), At(q) \in Working, CoursedInv(q), Turns(q),
         NEW a \in Act, a # proc[q].i
  PROVE  /\ KindOf(a)' = KindOf(a) /\ (Back(a)' <=> Back(a)) /\ (Own(a)' <=> Own(a))
         /\ (Wanted(a)' <=> Wanted(a)) /\ (Holds(a)' <=> Holds(a))
         /\ a > proc[q].i => Back(a) /\ Own(a)
         /\ a < proc[q].i => Holds(a) /\ Wanted(a) /\ (KindOf(a) \in Invertible => InDone(q, a))
         /\ a > proc[q].i \/ a < proc[q].i
<1>1. UNCHANGED <<cur, plan, base, edited>> /\ file'[a] = file[a] /\ applied'[a] = applied[a]
  BY DEF Turns
<1>2. KindOf(a)' = KindOf(a)
  BY <1>1 DEF KindOf
<1>3. InRun(q) /\ Forward(q) /\ At(q) \notin Over
  BY DEF Working, Forward
<1>4. proc[q].mode = "run" /\ Open(cur)
  BY <1>3, InRunIs DEF CoursedInv, CourseInv
<1>5. a > proc[q].i => Back(a) /\ Own(a)
  <2>1. AheadInv(q, a)
    BY DEF RInv, ActionInv
  <2> QED BY <1>3, <1>4, <2>1 DEF AheadInv, Ahead, Back, CoursedInv, OtherInv
<1>6. a < proc[q].i => Holds(a) /\ Wanted(a) /\ (KindOf(a) \in Invertible => InDone(q, a))
  <2>1. HoldsInv(q, a) /\ OtherInv(q, a)
    BY DEF RInv, ActionInv, CoursedInv
  <2> QED BY <1>3, <2>1 DEF HoldsInv, OtherInv
<1>7. proc[q].i \in Int /\ a \in Int
  BY Registers DEF Act
<1>8. (Back(a)' <=> Back(a)) /\ (Own(a)' <=> Own(a)) /\ (Wanted(a)' <=> Wanted(a)) /\ (Holds(a)' <=> Holds(a))
  BY <1>1, <1>2 DEF Back, Own, Wanted, Holds
<1> QED BY <1>2, <1>5, <1>6, <1>7, <1>8

\* What holds of every action after the step, wherever it leads.
LEMMA TurnsKeep ==
  ASSUME TypeInv, NEW q \in Proc, RInv(q), At(q) \in Working, CoursedInv(q), LeftInv, Turns(q), NEW a \in Act
  PROVE  /\ ObservedInv(a)' /\ EndInv(a)'
         /\ a \in proc'[q].keep /\ a \notin edited' /\ KindOf(a)' \in FileBacked => snap'[cur'][a] = base'.file[a]
<1>1. UNCHANGED <<cur, status, plan, base, edited>> /\ KindOf(a)' = KindOf(a) /\ (Open(cur)' <=> Open(cur))
  BY DEF Turns, KindOf, Open
<1>2. InRun(q) /\ Open(cur)
  BY InRunIs DEF Working
<1>3. EndInv(a)'
  BY <1>1, <1>2 DEF EndInv, Ended, Open, Recoverable, Terminal
<1>4. KindOf(a) = "verify" => file'[a] = file[a]
  BY DEF Turns
<1>5. ObservedInv(a)'
  BY <1>1, <1>4 DEF LeftInv, ObservedInv, Back
<1>6. ASSUME a \in proc'[q].keep, a \notin edited, KindOf(a) \in FileBacked
      PROVE  snap'[cur][a] = base.file[a]
  <2>1. CASE a = proc[q].i
    BY <1>2, <1>6, <2>1 DEF Turns, Backed
  <2>2. CASE a # proc[q].i
    <3>1. a \in proc[q].keep /\ snap'[cur][a] = snap[cur][a]
      BY <1>6, <2>2 DEF Turns
    <3> QED BY <1>2, <1>6, <3>1 DEF CoursedInv, OtherInv
  <2> QED BY <2>1, <2>2
<1> HIDE DEF At, InRun
<1> QED BY <1>1, <1>3, <1>5, <1>6

\* A step on the current action keeps the invariant if it does so for that
\* action.
LEMMA TurnsPreserves ==
  ASSUME TypeInv, NEW q \in Proc, RInv(q), At(q) \in Working, CoursedInv(q), LeftInv, Turns(q),
         Stays(q) \/ Falls(q) \/ Halts(q) \/ Passes(q)
  PROVE  CoursedInv(q)' /\ LeftInv' /\ InRun(q)'
<1>1. \A a \in Act :
         /\ ObservedInv(a)' /\ EndInv(a)'
         /\ a \in proc'[q].keep /\ a \notin edited' /\ KindOf(a)' \in FileBacked => snap'[cur'][a] = base'.file[a]
  BY TurnsKeep
<1>2. LeftInv'
  BY <1>1 DEF LeftInv
<1>3. At(q)' \in Working \cup {"cascade", "skip", "complete"} /\ At(q)' \notin {"idle", "planned", "cleanup", "cascadeJournal"}
  BY DEF Stays, Falls, Halts, Passes, Working
<1>4. InRun(q)'
  BY <1>3 DEF Working
<1>5. At(q)' \in Working => ~proc'[q].fail
  BY DEF Stays, Falls, Halts, Passes, Working
<1>6. proc[q].i \in Int /\ proc[q].done \in Seq(Done) /\ proc[q].mode = "run" /\ proc[q].inp = base.applied
      /\ \A n \in 1..Len(proc[q].done) : proc[q].done[n].prev = base.applied[proc[q].done[n].a]
  BY Registers DEF CoursedInv, CourseInv, Working
<1>7. \/ proc'[q].done = proc[q].done
      \/ \E att : proc'[q].done = Append(proc[q].done, [a |-> proc[q].i, att |-> att, prev |-> base.applied[proc[q].i]])
  BY DEF Stays, Falls, Halts, Passes
<1>8. /\ \A n \in 1..Len(proc'[q].done) : proc'[q].done[n].prev = base.applied[proc'[q].done[n].a]
      /\ \A a \in Act : InDone(q, a) => InDone(q, a)'
      /\ proc'[q].done # proc[q].done => \A a \in Act : a = proc[q].i => InDone(q, a)'
  <2>1. CASE proc'[q].done = proc[q].done
    BY <1>6, <2>1 DEF InDone
  <2>2. CASE \E att : proc'[q].done = Append(proc[q].done, [a |-> proc[q].i, att |-> att, prev |-> base.applied[proc[q].i]])
    <3>1. PICK att : proc'[q].done = Append(proc[q].done, [a |-> proc[q].i, att |-> att, prev |-> base.applied[proc[q].i]])
      BY <2>2
    <3> DEFINE s == proc[q].done
               x == [a |-> proc[q].i, att |-> att, prev |-> base.applied[proc[q].i]]
               t == proc'[q].done
    <3>2. s \in Seq(Done) /\ t = Append(s, x) /\ x.a = proc[q].i /\ x.prev = base.applied[proc[q].i]
      BY <1>6, <3>1
    <3> HIDE DEF x, t, s
    <3>3. /\ Len(s) \in Nat /\ Len(t) = Len(s) + 1 /\ t[Len(t)] = x
          /\ \A n \in 1..Len(s) : n \in 1..Len(t) /\ t[n] = s[n]
          /\ \A n \in 1..Len(t) : n \in 1..Len(s) \/ n = Len(t)
      BY <3>2, Appended
    <3>4. \A n \in 1..Len(s) : s[n].prev = base.applied[s[n].a]
      BY <1>6 DEF s
    <3>5. \A n \in 1..Len(t) : t[n].prev = base.applied[t[n].a]
      BY <3>2, <3>3, <3>4
    <3>6. \A a \in Act : InDone(q, a) => \E n \in 1..Len(t) : t[n].a = a
      BY <3>3 DEF InDone, s
    <3>7. Len(t) \in 1..Len(t)
      BY <3>3
    <3> QED BY <3>2, <3>3, <3>5, <3>6, <3>7 DEF InDone, t
  <2> QED BY <1>7, <2>1, <2>2
<1>9. CourseInv(q)'
  <2>1. UNCHANGED base /\ proc'[q].mode = "run" /\ proc'[q].own = "unset" /\ proc'[q].inp = base.applied
    BY <1>6 DEF Turns
  <2> HIDE DEF At, InRun
  <2> QED BY <1>3, <1>5, <1>8, <2>1 DEF CourseInv, Finishing
<1>10. ASSUME NEW a \in Act
       PROVE  CurrentInv(q, a)'
  <2>1. CASE Stays(q)
    BY <1>10, <2>1 DEF Stays, CurrentInv
  <2>2. CASE Falls(q) \/ Halts(q)
    BY <2>2 DEF Falls, Halts, CurrentInv, Working
  <2>3. CASE Passes(q)
    <3> SUFFICES ASSUME a = proc'[q].i
                 PROVE  CurrentInv(q, a)'
      BY DEF CurrentInv
    <3>1. a # proc[q].i /\ a > proc[q].i
      BY <1>6, <2>3 DEF Passes
    <3>2. Own(a)'
      BY <3>1, TurnsLeave
    <3> QED BY <2>3, <3>2 DEF Passes, CurrentInv
  <2> QED BY <2>1, <2>2, <2>3
<1>11. ASSUME NEW a \in Act
       PROVE  OtherInv(q, a)'
  <2> DEFINE i == proc[q].i
  <2>0. a # i => /\ KindOf(a)' = KindOf(a) /\ (Back(a)' <=> Back(a)) /\ (Own(a)' <=> Own(a))
                 /\ (Wanted(a)' <=> Wanted(a)) /\ (Holds(a)' <=> Holds(a))
                 /\ a > i => Back(a) /\ Own(a)
                 /\ a < i => Holds(a) /\ Wanted(a) /\ (KindOf(a) \in Invertible => InDone(q, a))
                 /\ a > i \/ a < i
    BY TurnsLeave
  <2>1. ASSUME At(q)' \in Working, a > proc'[q].i
        PROVE  Own(a)'
    <3>1. a # i /\ a > i
      BY <1>6, <2>1 DEF Stays, Falls, Halts, Passes, Working, Act
    <3> QED BY <2>0, <3>1
  <2>2. ASSUME At(q)' \in Working, a < proc'[q].i
        PROVE  Wanted(a)' /\ (KindOf(a)' \in Invertible => InDone(q, a)')
    <3>1. CASE a # i
      <4>1. a < i
        BY <1>6, <2>2, <3>1 DEF Stays, Falls, Halts, Passes, Working, Act
      <4> QED BY <1>8, <2>0, <3>1, <4>1
    <3>2. CASE a = i
      <4>0. ~Falls(q) /\ ~Halts(q)
        BY <2>2 DEF Falls, Halts, Working
      <4>1. Passes(q)
        <5>1. Stays(q) => proc'[q].i = proc[q].i
          BY DEF Stays
        <5> QED BY <1>6, <2>2, <3>2, <4>0, <5>1
      <4>2. KindOf(a)' = KindOf(a)
        BY DEF Turns, KindOf
      <4>3. proc'[q].done = proc[q].done => KindOf(a) \notin Invertible
        <5>1. ASSUME NEW x, proc[q].done = Append(proc[q].done, x)
              PROVE  FALSE
          <6>1. Len(proc[q].done) \in Nat /\ Len(proc[q].done) = Len(proc[q].done) + 1
            BY <1>6, <5>1, Appended
          <6> QED BY <6>1
        <5>2. \/ \A b \in Act : b = proc[q].i => KindOf(b) \notin Invertible
              \/ \E x : proc'[q].done = Append(proc[q].done, x)
          BY <4>1 DEF Passes
        <5> QED BY <3>2, <5>1, <5>2
      <4> QED BY <1>8, <3>2, <4>1, <4>2, <4>3 DEF Passes
    <3> QED BY <3>1, <3>2
  <2>3. ASSUME At(q)' = "cascade"
        PROVE  InDone(q, a)' \/ Undone(q, a)'
    <3>1. Falls(q)
      BY <2>3 DEF Stays, Falls, Halts, Passes, Working
    <3>2. CASE a = i
      BY <3>1, <3>2 DEF Falls
    <3>3. CASE a # i
      BY <1>8, <2>0, <3>3 DEF Undone
    <3> QED BY <3>2, <3>3
  <2>4. ASSUME At(q)' \in {"skip", "complete"}
        PROVE  ~proc'[q].fail /\ Whole(a)'
    <3>1. Halts(q)
      BY <2>4 DEF Stays, Falls, Halts, Passes, Working
    <3>2. CASE a = i
      BY <3>1, <3>2 DEF Halts
    <3>3. CASE a # i
      BY <2>0, <3>1, <3>3 DEF Whole, Halts
    <3> QED BY <3>1, <3>2, <3>3 DEF Halts
  <2> HIDE DEF At, InRun, i
  <2> QED BY <1>1, <1>3, <2>1, <2>2, <2>3, <2>4 DEF OtherInv
<1> QED BY <1>2, <1>4, <1>9, <1>10, <1>11 DEF CoursedInv

----------------------------------------------------------------------------
(* The steps of the loop. *)

Onward(q) == CoursedInv(q)' /\ LeftInv' /\ InRun(q)'

\* What a working invocation knows.
LEMMA WorkerKnows ==
  ASSUME TypeInv, NEW q \in Proc, RInv(q), CoursedInv(q), At(q) \in Working
  PROVE  /\ proc[q].mode = "run" /\ proc[q].own = "unset" /\ proc[q].inp = base.applied /\ ~proc[q].fail
         /\ InRun(q) /\ Open(cur) /\ proc[q].run = cur
         /\ At(q) # "next" => Busy(proc[q])
         /\ \A a \in Act : a = proc[q].i => K(q) = KindOf(a) /\ CurrentInv(q, a)
<1>1. InRun(q) /\ At(q) \notin Over
  BY DEF Working
<1>2. At(q) # "next" => Busy(proc[q])
  <2>1. At(q) # "next" => At(q) \notin {"idle", "planned", "next", "complete", "cleanup", "intComplete"}
    BY DEF Working
  <2> QED BY <2>1, AtWork
<1> QED BY <1>1, <1>2, InRunIs DEF CoursedInv, CourseInv

\* The database refuses nothing and nothing is cut short.
LEMMA NothingRefused ==
  ASSUME TypeInv, Uncut'
  PROVE  /\ ~Spend("db") /\ ~Spend("crash") /\ ~Spend("interrupt")
         /\ \A q \in Proc : Open(cur) /\ proc[q].run = cur => ~TransactionFails(q)
<1>1. spent \in [Mishap -> Nat] /\ {"db", "crash", "interrupt"} \subseteq Mishap
  BY DEF TypeInv, DurableOK, Mishap
<1>2. ASSUME NEW m \in {"db", "crash", "interrupt"}, Spend(m)
      PROVE  FALSE
  <2>1. spent' = [spent EXCEPT ![m] = @ + 1] /\ spent[m] \in Nat /\ m \in Mishap
    BY <1>1, <1>2 DEF Spend
  <2>2. spent'[m] = spent[m] + 1
    BY <1>1, <2>1
  <2> QED BY <2>1, <2>2 DEF Uncut
<1> QED BY <1>2 DEF TransactionFails

\* An event that keeps ownership.
LEMMA NoteKeepsRecords ==
  ASSUME TypeInv, NEW q, NEW st, NEW ref, NEW m, Note(q, st, ref, m)
  PROVE  UNCHANGED <<cur, status, plan, applied, drifts, spent>>
<1>1. applied' = [applied EXCEPT ![proc[q].i] = applied[proc[q].i]] /\ UNCHANGED <<cur, status, plan, drifts, spent>>
  BY DEF Note, JournalAction
<1> QED BY <1>1 DEF TypeInv, DurableOK

\* Moving on within the action.
LEMMA GoesOn ==
  ASSUME TypeInv, NEW q \in Proc, RInv(q), CoursedInv(q), LeftInv, At(q) \in Working,
         NEW l \in Working, Goto(q, l), UNCHANGED <<cur, status, plan, applied, snap, history>>,
         \A b \in Act \ {proc[q].i} : file'[b] = file[b],
         \A a \in Act : a = proc[q].i =>
           /\ KindOf(a) = "verify" => file'[a] = file[a]
           /\ KindOf(a) \in FileBacked =>
                /\ l \in {"running", "execute"} => Back(a)'
                /\ l \in {"running", "execute", "verify", "succeed", "undoVerify", "failVerify", "undo"} => proc[q].prep
           /\ KindOf(a) \in Invertible => (l \in {"failVerify", "fail"} => Back(a)')
  PROVE  Onward(q)
<1>1. Moved(q, l) /\ Booked(q)
  BY GotoBooks
<1>2. /\ proc[q].mode = "run" /\ proc[q].own = "unset" /\ ~proc[q].fail /\ InRun(q) /\ Open(cur)
      /\ \A a \in Act : a = proc[q].i => CurrentInv(q, a)
  BY WorkerKnows
<1>3. UNCHANGED <<base, edited>>
  BY DEF history
<1>4. Turns(q)
  <2>1. \A a \in Act : a = proc[q].i /\ a \in proc[q].keep /\ Backed(a) => snap[cur][a] = base.file[a]
    BY <1>2 DEF CoursedInv, OtherInv, Backed
  <2>2. proc'[q].keep = proc[q].keep /\ proc'[q].mode = proc[q].mode /\ proc'[q].own = "unset"
        /\ proc'[q].inp = proc[q].inp
    BY <1>1, <1>2 DEF Booked, Moved, SameLoop
  <2> HIDE DEF At, InRun
  <2> QED BY <1>3, <2>1, <2>2 DEF Turns
<1>5. ASSUME NEW a \in Act, a = proc[q].i
      PROVE  CurrentInv(q, a)'
  <2>1. Own(a) /\ (KindOf(a) \notin FileBacked => ~proc[q].prep)
    BY <1>2, <1>5 DEF CurrentInv
  <2>2. KindOf(a)' = KindOf(a) /\ (Own(a)' <=> Own(a)) /\ At(q)' = l /\ proc'[q].prep = proc[q].prep
    BY <1>1, <1>3 DEF KindOf, Own, Moved
  <2> HIDE DEF At, InRun
  <2> QED BY <1>5, <2>1, <2>2 DEF CurrentInv
<1>6. Stays(q)
  BY <1>1, <1>2, <1>5 DEF Stays, Moved, SameLoop, SameFlags
<1> QED BY <1>4, <1>6, TurnsPreserves DEF Onward

\* The action failed.
LEMMA FallsBack ==
  ASSUME TypeInv, NEW q \in Proc, RInv(q), CoursedInv(q), LeftInv, At(q) \in Working,
         Set(q, FailedAction(proc[q])), UNCHANGED <<cur, status, plan, applied, fs, history>>,
         \A a \in Act : a = proc[q].i /\ KindOf(a) \in Invertible => a \in proc[q].keep \/ Back(a)
  PROVE  Onward(q)
<1>2. /\ proc[q].mode = "run" /\ proc[q].own = "unset" /\ InRun(q) /\ Open(cur)
      /\ \A a \in Act : a = proc[q].i => CurrentInv(q, a)
  BY WorkerKnows
<1>1. At(q)' = "cascade" /\ SameLoop(q) /\ proc'[q].fail = TRUE /\ Booked(q)
  BY <1>2, FailBooks
<1>3. UNCHANGED <<base, edited, file, snap>>
  BY DEF history, fs
<1>4. Turns(q)
  <2>1. \A a \in Act : a = proc[q].i /\ a \in proc[q].keep /\ Backed(a) => snap[cur][a] = base.file[a]
    BY <1>2 DEF CoursedInv, OtherInv, Backed
  <2> HIDE DEF At, InRun
  <2> QED BY <1>1, <1>2, <1>3, <2>1 DEF Turns, Booked, SameLoop
<1>5. ASSUME NEW a \in Act, a = proc[q].i
      PROVE  Undone(q, a)'
  <2>1. Own(a)
    BY <1>2, <1>5 DEF CurrentInv
  <2>2. KindOf(a)' = KindOf(a) /\ (Own(a)' <=> Own(a)) /\ (Back(a)' <=> Back(a)) /\ proc'[q].keep = proc[q].keep
    BY <1>1, <1>3 DEF KindOf, Own, Back, Booked
  <2> QED BY <1>5, <2>1, <2>2 DEF Undone
<1>6. Falls(q)
  BY <1>1, <1>5 DEF Falls, SameLoop
<1> QED BY <1>4, <1>6, TurnsPreserves DEF Onward

\* The action ends with a human or drift outcome.
LEMMA HaltsThere ==
  ASSUME TypeInv, NEW q \in Proc, RInv(q), CoursedInv(q), LeftInv, At(q) \in Working,
         \/ Set(q, Stopped([proc[q] EXCEPT !.human = TRUE]))
         \/ Set(q, Stopped([proc[q] EXCEPT !.drift = TRUE])),
         UNCHANGED <<cur, status, plan, applied, fs, history>>, K(q) \notin FileBacked
  PROVE  Onward(q)
<1>2. /\ proc[q].mode = "run" /\ proc[q].own = "unset" /\ InRun(q) /\ Open(cur) /\ ~proc[q].fail
      /\ \A a \in Act : a = proc[q].i => K(q) = KindOf(a)
  BY WorkerKnows
<1>1. At(q)' = "skip" /\ SameLoop(q) /\ proc'[q].fail = proc[q].fail /\ Booked(q)
  BY <1>2, StopBooks
<1>3. UNCHANGED <<base, edited, file, snap>>
  BY DEF history, fs
<1>4. Turns(q)
  <2>1. \A a \in Act : a = proc[q].i /\ a \in proc[q].keep /\ Backed(a) => snap[cur][a] = base.file[a]
    BY <1>2 DEF CoursedInv, OtherInv, Backed
  <2> HIDE DEF At, InRun
  <2> QED BY <1>1, <1>2, <1>3, <2>1 DEF Turns, Booked, SameLoop
<1>5. \A a \in Act : a = proc[q].i => Whole(a)'
  BY <1>2 DEF Whole, KindOf
<1>6. Halts(q)
  BY <1>1, <1>2, <1>5 DEF Halts, SameLoop
<1> QED BY <1>4, <1>6, TurnsPreserves DEF Onward

\* The action is verified.
LEMMA PassesOn ==
  ASSUME TypeInv, NEW q \in Proc, RInv(q), CoursedInv(q), LeftInv, At(q) \in Working, NEW b \in BOOLEAN,
         Set(q, Verified(proc[q], b)), UNCHANGED <<cur, status, plan, fs, history>>,
         K(q) \in Invertible => b,
         \A a \in Act \ {proc[q].i} : applied'[a] = applied[a],
         \A a \in Act : a = proc[q].i => Wanted(a)'
  PROVE  Onward(q)
<1>2. /\ proc[q].mode = "run" /\ proc[q].own = "unset" /\ InRun(q) /\ Open(cur) /\ ~proc[q].fail
      /\ proc[q].inp = base.applied
      /\ \A a \in Act : a = proc[q].i => K(q) = KindOf(a)
  BY WorkerKnows
<1>1. /\ At(q)' = "next" /\ proc'[q].i = proc[q].i + 1 /\ proc'[q].prep = FALSE
      /\ proc'[q].mode = proc[q].mode /\ proc'[q].fail = proc[q].fail /\ Booked(q)
      /\ proc'[q].done = IF b THEN Append(proc[q].done, [a |-> proc[q].i, att |-> proc[q].att,
                                                         prev |-> base.applied[proc[q].i]])
                         ELSE proc[q].done
  BY <1>2, PassBooks
<1>3. UNCHANGED <<base, edited, file, snap>>
  BY DEF history, fs
<1>4. Turns(q)
  <2>1. \A a \in Act : a = proc[q].i /\ a \in proc[q].keep /\ Backed(a) => snap[cur][a] = base.file[a]
    BY <1>2 DEF CoursedInv, OtherInv, Backed
  <2> HIDE DEF At, InRun
  <2> QED BY <1>1, <1>2, <1>3, <2>1 DEF Turns, Booked
<1>5. Passes(q)
  BY <1>1, <1>2 DEF Passes
<1> QED BY <1>4, <1>5, TurnsPreserves DEF Onward

\* The loop takes the next action, or is through with the plan.
LEMMA RunNextGoes ==
  ASSUME TypeInv, NEW q \in Proc, RInv(q), CoursedInv(q), LeftInv, RunNext(q)
  PROVE  Onward(q)
<1>1. At(q) = "next" /\ At(q) \in Working /\ UNCHANGED <<db, fs, spent, history>>
  BY DEF RunNext, Working
<1>2. UNCHANGED <<cur, status, plan, applied, file, snap, history, base, edited>>
  BY <1>1 DEF db, fs, history
<1>3. CASE proc[q].i <= N
  <2>1. Goto(q, Entry(K(q))) /\ Entry(K(q)) \in {"human", "drift", "agent", "prepare"}
    BY <1>3 DEF RunNext, Entry
  <2>2. Entry(K(q)) \in Working
        /\ Entry(K(q)) \notin {"running", "execute", "verify", "succeed", "undoVerify", "failVerify", "undo", "fail"}
    BY <2>1 DEF Working
  <2> HIDE DEF At, InRun
  <2> QED BY <1>1, <1>2, <2>1, <2>2, GoesOn
<1>4. CASE ~(proc[q].i <= N)
  <2>1. Moved(q, "complete") /\ Booked(q)
    BY <1>4, GotoBooks DEF RunNext
  <2>2. proc[q].own = "unset" /\ ~proc[q].fail
    BY <1>1, WorkerKnows
  <2>3. \A a \in Act : a # proc[q].i
    BY <1>4, Registers, ConstantsAssumption DEF Act
  <2>4. Turns(q)
    BY <1>2, <2>1, <2>2, <2>3 DEF Turns, Moved, SameLoop, Booked
  <2>5. Halts(q)
    BY <2>1, <2>2, <2>3 DEF Halts, Moved, SameLoop, SameFlags
  <2> QED BY <1>1, <2>4, <2>5, TurnsPreserves DEF Onward
<1> QED BY <1>3, <1>4

\* The snapshot is captured from a target that is as the run found it.
LEMMA PrepareGoes ==
  ASSUME TypeInv, NEW q \in Proc, RInv(q), CoursedInv(q), LeftInv, Prepare(q)
  PROVE  Onward(q)
<1> DEFINE i == proc[q].i
           backed == K(q) \in FileBacked
<1>1. At(q) = "prepare" /\ At(q) \in Working /\ UNCHANGED <<cur, status, plan, applied, file, base, edited>>
  BY DEF Prepare, Working, db, history
<1>2. /\ proc[q].mode = "run" /\ proc[q].own = "unset" /\ ~proc[q].fail /\ InRun(q) /\ Open(cur)
      /\ \A a \in Act : a = i => K(q) = KindOf(a) /\ CurrentInv(q, a)
  BY <1>1, WorkerKnows
<1>3. i \in Act /\ proc[q].run = cur /\ cur \in Run
  BY <1>1, <1>2, AtWork, InRunIs DEF Busy
<1>4. /\ At(q)' = "running" /\ proc'[q].prep = backed /\ proc'[q].fail = proc[q].fail
      /\ proc'[q].mode = proc[q].mode /\ proc'[q].i = i /\ proc'[q].done = proc[q].done /\ Booked(q)
  <2>1. proc[q] \in Process
    BY Registers
  <2>2. proc'[q] = [proc[q] EXCEPT !.pc = "running", !.prep = K(q) \in FileBacked,
                            !.mem[proc[q].i] = IF K(q) \in FileBacked THEN file[proc[q].i] ELSE "none"]
    BY SetIs DEF Prepare
  <2> QED BY <2>1, <2>2 DEF Process, Booked
<1>5. /\ \A a \in Act \ {i} : snap'[cur][a] = snap[cur][a]
      /\ backed => snap'[cur][i] = file[i]
      /\ ~backed => snap'[cur][i] = snap[cur][i]
  <2>1. snap' = IF backed THEN [snap EXCEPT ![cur][i] = file[i]] ELSE snap
    BY <1>3 DEF Prepare
  <2>2. snap \in [Run -> [Act -> Content \cup {"none"}]]
    BY DEF TypeInv, DurableOK
  <2> HIDE DEF i, backed
  <2> QED BY <1>3, <2>1, <2>2
<1>6. \A a \in Act : a = i /\ Backed(a) => file[a] = base.file[a]
  BY <1>1, <1>2, Backing DEF Behind
<1>7. Turns(q)
  <2>1. ASSUME NEW a \in Act, a = i, Backed(a)
        PROVE  snap'[cur][a] = base.file[a]
    BY <1>2, <1>5, <1>6, <2>1 DEF Backed
  <2> HIDE DEF At, InRun
  <2> QED BY <1>1, <1>2, <1>4, <1>5, <2>1 DEF Turns, Booked
<1>8. ASSUME NEW a \in Act, a = i
      PROVE  CurrentInv(q, a)'
  <2>1. Own(a) /\ K(q) = KindOf(a)
    BY <1>1, <1>2, <1>8 DEF CurrentInv
  <2>2. KindOf(a)' = KindOf(a) /\ Own(a)'
    BY <1>1, <2>1 DEF KindOf, Own
  <2>3. KindOf(a) \in FileBacked => Back(a)'
    BY <1>1, <1>2, <1>6, <1>8 DEF Back, Backed
  <2> QED BY <1>4, <2>1, <2>2, <2>3 DEF CurrentInv
<1>9. Stays(q)
  BY <1>2, <1>4, <1>8 DEF Stays, Working
<1> QED BY <1>1, <1>7, <1>9, TurnsPreserves DEF Onward

\* Preparation fails.
LEMMA PrepareFailsGoes ==
  ASSUME TypeInv, NEW q \in Proc, RInv(q), CoursedInv(q), LeftInv, PrepareFails(q)
  PROVE  Onward(q)
<1>1. At(q) = "prepare" /\ At(q) \in Working /\ Goto(q, "fail") /\ "fail" \in Working
      /\ UNCHANGED <<cur, status, plan, applied, file, snap, history, base, edited>>
  BY DEF PrepareFails, Working, db, fs, history
<1>2. InRun(q) /\ Open(cur)
  BY <1>1, WorkerKnows
<1>3. ASSUME NEW a \in Act, a = proc[q].i, KindOf(a) \in Invertible
      PROVE  Back(a)'
  <2>1. KindOf(a) = "verify" \/ KindOf(a) \in FileBacked
    BY <1>3 DEF Invertible, FileBacked, Owning
  <2>2. KindOf(a) = "verify" => Back(a)
    BY <1>2 DEF LeftInv, ObservedInv
  <2>3. Backed(a) => file[a] = base.file[a]
    BY <1>1, <1>2, <1>3, Backing DEF Behind
  <2> QED BY <1>1, <1>2, <2>1, <2>2, <2>3 DEF Back, Backed
<1> HIDE DEF At, InRun
<1> QED BY <1>1, <1>3, GoesOn

\* The running event.
LEMMA JournalRunningGoes ==
  ASSUME TypeInv, NEW q \in Proc, RInv(q), CoursedInv(q), LeftInv, Uncut', JournalRunning(q)
  PROVE  Onward(q)
<1>1. At(q) = "running" /\ At(q) \in Working /\ "execute" \in Working
  BY DEF JournalRunning, Working
<1>2. /\ InRun(q) /\ Open(cur) /\ proc[q].run = cur
      /\ \A a \in Act : a = proc[q].i => CurrentInv(q, a)
  BY <1>1, WorkerKnows
<1>3. Note(q, "running", proc[q].prep, "none") /\ Goto(q, "execute")
  BY <1>2, NothingRefused DEF JournalRunning
<1>4. UNCHANGED <<cur, status, plan, applied, file, snap, history, base, edited>>
  BY <1>3, NoteKeepsRecords DEF JournalRunning, fs, history
<1>5. \A a \in Act : a = proc[q].i /\ KindOf(a) \in FileBacked => Back(a) /\ proc[q].prep
  BY <1>1, <1>2 DEF CurrentInv
<1>6. \A a \in Act : Back(a)' <=> Back(a)
  BY <1>4 DEF Back
<1> HIDE DEF At, InRun
<1> QED BY <1>1, <1>3, <1>4, <1>5, <1>6, GoesOn

\* The mutation, complete or not.
LEMMA ExecuteGoes ==
  ASSUME TypeInv, NEW q \in Proc, RInv(q), CoursedInv(q), LeftInv, Execute(q) \/ ExecuteFails(q)
  PROVE  Onward(q)
<1>1. At(q) = "execute" /\ At(q) \in Working
      /\ UNCHANGED <<cur, status, plan, applied, snap, history, base, edited>>
  BY DEF Execute, ExecuteFails, Working, db, history
<1>2. \A a \in Act : a = proc[q].i => K(q) = KindOf(a) /\ CurrentInv(q, a)
  BY <1>1, WorkerKnows
<1>3. PICK l \in {"undo", "succeed", "verify"} : Goto(q, l)
  BY DEF Execute, ExecuteFails
<1>4. \E c : file' = [file EXCEPT ![proc[q].i] = c]
  BY DEF Execute, ExecuteFails
<1>5. \A b \in Act \ {proc[q].i} : file'[b] = file[b]
  BY <1>4 DEF TypeInv, DurableOK
<1>6. ASSUME NEW a \in Act, a = proc[q].i, KindOf(a) = "verify"
      PROVE  file'[a] = file[a]
  <2>1. K(q) = "verify"
    BY <1>2, <1>6
  <2>2. Execute(q) /\ Written(q) = file[a]
    BY <1>6, <2>1 DEF ExecuteFails, Written
  <2> QED BY <1>6, <2>2 DEF Execute, TypeInv, DurableOK
<1>7. \A a \in Act : a = proc[q].i /\ KindOf(a) \in FileBacked => proc[q].prep
  BY <1>1, <1>2 DEF CurrentInv
<1>8. l \in Working /\ l \notin {"running", "execute", "failVerify", "fail"}
  BY <1>3 DEF Working
<1> HIDE DEF At, InRun
<1> QED BY <1>1, <1>3, <1>5, <1>6, <1>7, <1>8, GoesOn

\* The evidence.
LEMMA VerifyGoes ==
  ASSUME TypeInv, NEW q \in Proc, RInv(q), CoursedInv(q), LeftInv, Verify(q)
  PROVE  Onward(q)
<1>1. At(q) = "verify" /\ At(q) \in Working
      /\ UNCHANGED <<cur, status, plan, applied, file, snap, history, base, edited>>
  BY DEF Verify, Working, db, fs, history
<1>2. \A a \in Act : a = proc[q].i => CurrentInv(q, a)
  BY <1>1, WorkerKnows
<1>3. PICK l \in {"undo", "succeed", "undoVerify"} : Goto(q, l)
  BY DEF Verify, Verification
<1>7. \A a \in Act : a = proc[q].i /\ KindOf(a) \in FileBacked => proc[q].prep
  BY <1>1, <1>2 DEF CurrentInv
<1>8. l \in Working /\ l \notin {"running", "execute", "failVerify", "fail"}
  BY <1>3 DEF Working
<1> HIDE DEF At, InRun
<1> QED BY <1>1, <1>3, <1>7, <1>8, GoesOn

\* The succeeded event replaces the record.
LEMMA JournalSucceededGoes ==
  ASSUME TypeInv, NEW q \in Proc, RInv(q), CoursedInv(q), LeftInv, Uncut', JournalSucceeded(q)
  PROVE  Onward(q)
<1> DEFINE i == proc[q].i
           prev == IF K(q) \in Invertible THEN proc[q].inp[i] ELSE "none"
           rec == CASE K(q) = "remove" -> "none" [] K(q) \in Owning -> "new" [] OTHER -> applied[i]
<1>1. At(q) = "succeed" /\ At(q) \in Working
  BY DEF JournalSucceeded, Working
<1>2. /\ InRun(q) /\ Open(cur) /\ proc[q].run = cur
      /\ \A a \in Act : a = proc[q].i => K(q) = KindOf(a)
  BY <1>1, WorkerKnows
<1>3. /\ JournalAction(q, i, Ev("succeeded", proc[q].att, proc[q].prep, prev, "passed"), rec)
      /\ Set(q, Verified(proc[q], K(q) \in Invertible)) /\ UNCHANGED <<fs, history>>
  BY <1>2, NothingRefused DEF JournalSucceeded
<1>4. UNCHANGED <<cur, status, plan>> /\ applied' = [applied EXCEPT ![i] = rec]
  BY <1>3 DEF JournalAction
<1>5. \A a \in Act \ {i} : applied'[a] = applied[a]
  BY <1>4 DEF TypeInv, DurableOK
<1>6. ASSUME NEW a \in Act, a = i
      PROVE  Wanted(a)'
  <2>1. applied'[a] = rec /\ KindOf(a)' = KindOf(a) /\ KindOf(a) = K(q)
    BY <1>2, <1>4, <1>6 DEF TypeInv, DurableOK, KindOf
  <2> QED BY <2>1 DEF Wanted, Owning
<1>7. (K(q) \in Invertible) \in BOOLEAN
  OBVIOUS
<1> HIDE DEF At, InRun, i, rec, prev
<1> QED BY <1>1, <1>3, <1>4, <1>5, <1>6, <1>7, PassesOn DEF i

\* What a rollback of the current action leaves of it.
LEMMA UndoneThere ==
  ASSUME TypeInv, NEW q \in Proc, RInv(q), CoursedInv(q), LeftInv, At(q) \in {"undoVerify", "undo"},
         NEW a \in Act, a = proc[q].i, UNCHANGED <<cur, status, plan, base, edited>>
  PROVE  /\ KindOf(a) = "verify" => ~proc[q].prep
         /\ KindOf(a) \in FileBacked => proc[q].prep
         /\ KindOf(a) \in Invertible /\ proc[q].prep /\ Restored(q, a) => Back(a)'
         /\ KindOf(a) \in Invertible /\ ~proc[q].prep /\ file' = file => Back(a)'
<1>1. At(q) \in Working /\ At(q) \in {"running", "execute", "verify", "succeed", "undoVerify", "failVerify", "undo"}
  BY DEF Working
<1>2. InRun(q) /\ Open(cur) /\ CurrentInv(q, a)
  BY <1>1, WorkerKnows
<1>3. (KindOf(a) = "verify" => ~proc[q].prep) /\ (KindOf(a) \in FileBacked => proc[q].prep)
  BY <1>1, <1>2 DEF CurrentInv, FileBacked
<1>4. KindOf(a) \in Invertible => KindOf(a) = "verify" \/ KindOf(a) \in FileBacked
  BY DEF Invertible, FileBacked, Owning
<1>5. KindOf(a) = "verify" => Back(a)
  BY <1>2 DEF LeftInv, ObservedInv
<1>6. Restored(q, a) /\ Backed(a) => file'[a] = base.file[a]
  BY <1>2, RestoreLeaves
<1> QED BY <1>2, <1>3, <1>4, <1>5, <1>6 DEF Back, Backed

\* The rollback after failed evidence.
LEMMA UndoVerifyGoes ==
  ASSUME TypeInv, NEW q \in Proc, RInv(q), CoursedInv(q), LeftInv, UndoVerify(q)
  PROVE  Onward(q)
<1>1. At(q) = "undoVerify" /\ At(q) \in Working
      /\ UNCHANGED <<cur, status, plan, applied, snap, history, base, edited>>
  BY DEF UndoVerify, Working, db, history
<1>2. proc[q].i \in Act /\ InRun(q)
  BY <1>1, AtWork DEF Busy
<1>3. \A a \in Act : a = proc[q].i =>
         /\ KindOf(a) = "verify" => ~proc[q].prep
         /\ KindOf(a) \in FileBacked => proc[q].prep
         /\ KindOf(a) \in Invertible /\ proc[q].prep /\ Restored(q, a) => Back(a)'
         /\ KindOf(a) \in Invertible /\ ~proc[q].prep /\ file' = file => Back(a)'
  BY <1>1, UndoneThere
<1>4. \/ proc[q].prep /\ Restored(q, proc[q].i) /\ Goto(q, "failVerify")
      \/ ~proc[q].prep /\ file' = file /\ Goto(q, "failVerify")
      \/ proc[q].prep /\ RestoreFails(q, proc[q].i) /\ Goto(q, "undo")
  BY DEF UndoVerify
<1>5. \A b \in Act \ {proc[q].i} : file'[b] = file[b]
  BY <1>2, <1>4, RestoreLeaves
<1>6. \A a \in Act : a = proc[q].i /\ KindOf(a) = "verify" => file'[a] = file[a]
  BY <1>3, <1>4
<1>7. {"failVerify", "undo"} \subseteq Working
  BY DEF Working
<1> HIDE DEF At, InRun
<1>8. CASE Goto(q, "undo")
  BY <1>1, <1>3, <1>5, <1>6, <1>7, <1>8, GoesOn
<1>9. CASE ~Goto(q, "undo")
  <2>1. Goto(q, "failVerify")
    BY <1>4, <1>9
  <2>2. \A a \in Act : a = proc[q].i /\ KindOf(a) \in Invertible => Back(a)'
    BY <1>3, <1>4, <1>9
  <2> QED BY <1>1, <1>3, <1>5, <1>6, <1>7, <2>1, <2>2, GoesOn
<1> QED BY <1>8, <1>9

\* The error handler's rollback; one that fails is remembered.
LEMMA UndoGoes ==
  ASSUME TypeInv, NEW q \in Proc, RInv(q), CoursedInv(q), LeftInv, Undo(q)
  PROVE  Onward(q)
<1>1. At(q) = "undo" /\ At(q) \in Working
      /\ UNCHANGED <<cur, status, plan, applied, snap, history, base, edited>>
  BY DEF Undo, Working, db, history
<1>2. /\ proc[q].i \in Act /\ InRun(q) /\ proc[q].own = "unset" /\ ~proc[q].fail /\ Open(cur)
      /\ \A a \in Act : a = proc[q].i => CurrentInv(q, a)
  BY <1>1, WorkerKnows DEF Busy
<1>3. \A a \in Act : a = proc[q].i =>
         /\ KindOf(a) = "verify" => ~proc[q].prep
         /\ KindOf(a) \in FileBacked => proc[q].prep
         /\ KindOf(a) \in Invertible /\ proc[q].prep /\ Restored(q, a) => Back(a)'
         /\ KindOf(a) \in Invertible /\ ~proc[q].prep /\ file' = file => Back(a)'
  BY <1>1, UndoneThere
<1>4. \/ proc[q].prep /\ Restored(q, proc[q].i) /\ Goto(q, "fail")
      \/ ~proc[q].prep /\ file' = file /\ Goto(q, "fail")
      \/ /\ proc[q].prep /\ RestoreFails(q, proc[q].i)
         /\ Set(q, [proc[q] EXCEPT !.pc = "fail", !.undone = FALSE, !.keep = @ \cup {proc[q].i}])
  BY DEF Undo
<1>5. \A b \in Act \ {proc[q].i} : file'[b] = file[b]
  BY <1>2, <1>4, RestoreLeaves
<1>6. \A a \in Act : a = proc[q].i /\ KindOf(a) = "verify" => file'[a] = file[a]
  BY <1>3, <1>4
<1>7. "fail" \in Working
  BY DEF Working
<1>8. CASE Goto(q, "fail") /\ ((proc[q].prep /\ Restored(q, proc[q].i)) \/ (~proc[q].prep /\ file' = file))
  <2>2. \A a \in Act : a = proc[q].i /\ KindOf(a) \in Invertible => Back(a)'
    BY <1>3, <1>8
  <2> HIDE DEF At, InRun
  <2> QED BY <1>1, <1>3, <1>5, <1>6, <1>7, <1>8, <2>2, GoesOn
<1>9. CASE /\ proc[q].prep /\ RestoreFails(q, proc[q].i)
           /\ Set(q, [proc[q] EXCEPT !.pc = "fail", !.undone = FALSE, !.keep = @ \cup {proc[q].i}])
  <2>1. /\ At(q)' = "fail" /\ SameLoop(q) /\ proc'[q].fail = proc[q].fail /\ proc'[q].prep = proc[q].prep
        /\ proc'[q].own = proc[q].own /\ proc'[q].inp = proc[q].inp /\ proc'[q].keep = proc[q].keep \cup {proc[q].i}
    <3>1. proc[q] \in Process
      BY Registers
    <3>2. proc'[q] = [proc[q] EXCEPT !.pc = "fail", !.undone = FALSE, !.keep = proc[q].keep \cup {proc[q].i}]
      BY <1>9, <3>1, SetIs DEF Process
    <3> QED BY <3>1, <3>2 DEF Process, SameLoop
  <2>2. \A a \in Act : a = proc[q].i /\ Backed(a) => snap[cur][a] = base.file[a]
    BY <1>1, <1>2, <1>9, Backing DEF Behind
  <2>3. Turns(q)
    BY <1>1, <1>2, <1>5, <1>6, <2>1, <2>2 DEF Turns, SameLoop
  <2>4. ASSUME NEW a \in Act, a = proc[q].i
        PROVE  CurrentInv(q, a)'
    <3>1. Own(a) /\ (KindOf(a) \notin FileBacked => ~proc[q].prep)
      BY <1>1, <1>2, <2>4 DEF CurrentInv
    <3>2. KindOf(a)' = KindOf(a) /\ Own(a)' /\ a \in proc'[q].keep
      BY <1>1, <2>1, <2>4, <3>1 DEF KindOf, Own
    <3> QED BY <2>1, <3>1, <3>2 DEF CurrentInv
  <2>5. Stays(q)
    BY <1>2, <1>7, <2>1, <2>4 DEF Stays, SameLoop
  <2> HIDE DEF At, InRun
  <2> QED BY <1>1, <2>3, <2>5, TurnsPreserves DEF Onward
<1> QED BY <1>4, <1>8, <1>9

\* The failed event.
LEMMA JournalFailGoes ==
  ASSUME TypeInv, NEW q \in Proc, RInv(q), CoursedInv(q), LeftInv, Uncut', JournalFailVerify(q) \/ JournalFail(q)
  PROVE  Onward(q)
<1>1. At(q) \in {"failVerify", "fail"} /\ At(q) \in Working
  BY DEF JournalFailVerify, JournalFail, Working
<1>2. /\ InRun(q) /\ Open(cur) /\ proc[q].run = cur
      /\ \A a \in Act : a = proc[q].i => CurrentInv(q, a)
  BY <1>1, WorkerKnows
<1>3. Note(q, "failed", proc[q].prep, "other") /\ Set(q, FailedAction(proc[q])) /\ UNCHANGED <<fs, history>>
  BY <1>2, NothingRefused DEF JournalFailVerify, JournalFail
<1>4. UNCHANGED <<cur, status, plan, applied>>
  BY <1>3, NoteKeepsRecords
<1>5. \A a \in Act : a = proc[q].i /\ KindOf(a) \in Invertible => a \in proc[q].keep \/ Back(a)
  BY <1>1, <1>2 DEF CurrentInv
<1> HIDE DEF At, InRun
<1> QED BY <1>1, <1>3, <1>4, <1>5, FallsBack

\* Human actions and drift.
LEMMA HumanGoes ==
  ASSUME TypeInv, NEW q \in Proc, RInv(q), CoursedInv(q), LeftInv, Uncut', Human(q) \/ DriftSkip(q)
  PROVE  Onward(q)
<1>1. At(q) \in {"human", "driftSkip"} /\ At(q) \in Working
  BY DEF Human, DriftSkip, Working
<1>2. Open(cur) /\ proc[q].run = cur
  BY <1>1, WorkerKnows
<1>3. /\ Note(q, "skipped", FALSE, "none") /\ UNCHANGED <<fs, history>>
      /\ \/ Set(q, Stopped([proc[q] EXCEPT !.human = TRUE]))
         \/ Set(q, Stopped([proc[q] EXCEPT !.drift = TRUE]))
  BY <1>2, NothingRefused DEF Human, DriftSkip
<1>4. UNCHANGED <<cur, status, plan, applied>>
  BY <1>3, NoteKeepsRecords
<1>5. K(q) \notin FileBacked
  BY <1>1 DEF RInv, PlaceInv, FileBacked
<1> HIDE DEF At, InRun
<1> QED BY <1>1, <1>3, <1>4, <1>5, HaltsThere

\* The drift record.
LEMMA RecordDriftGoes ==
  ASSUME TypeInv, NEW q \in Proc, RInv(q), CoursedInv(q), LeftInv, Uncut', RecordDrift(q)
  PROVE  Onward(q)
<1>1. At(q) = "drift" /\ At(q) \in Working /\ "driftSkip" \in Working
  BY DEF RecordDrift, Working
<1>2. Goto(q, "driftSkip") /\ UNCHANGED <<cur, status, plan, applied, file, snap, history>>
  BY NothingRefused DEF RecordDrift, fs
<1> HIDE DEF At, InRun
<1> QED BY <1>1, <1>2, GoesOn

\* An agent task that goes on.
LEMMA AgentGoes ==
  ASSUME TypeInv, NEW q \in Proc, RInv(q), CoursedInv(q), LeftInv, Uncut',
         Agent(q) \/ AgentResolve(q) \/ AgentVerify(q)
  PROVE  Onward(q)
<1>1. At(q) \in {"agent", "agentResolve", "agentVerify"} /\ At(q) \in Working
  BY DEF Agent, AgentResolve, AgentVerify, Working
<1>2. /\ Open(cur) /\ proc[q].run = cur
      /\ \A a \in Act : a = proc[q].i => K(q) = KindOf(a)
  BY <1>1, WorkerKnows
<1>3. \E l \in {"agentSkip", "agentResolve", "agentVerify", "agentError", "agentSucceed", "agentFail"} :
        Goto(q, l)
  BY <1>2, NothingRefused DEF Agent, AgentResolve, AgentVerify, Verification
<1>4. PICK l \in {"agentSkip", "agentResolve", "agentVerify", "agentError", "agentSucceed", "agentFail"} :
        Goto(q, l)
  BY <1>3
<1>5. UNCHANGED <<cur, status, plan, applied, snap, history>>
  <2>1. CASE Agent(q)
    <3>1. UNCHANGED db \/ Note(q, "running", FALSE, "none")
      BY <2>1, FailsKeeps DEF Agent
    <3>2. UNCHANGED <<cur, status, plan, applied>>
      BY <3>1, NoteKeepsRecords DEF db
    <3> QED BY <2>1, <3>2 DEF Agent, fs
  <2>2. CASE AgentResolve(q) \/ AgentVerify(q)
    BY <2>2 DEF AgentResolve, AgentVerify, db, fs
  <2> QED BY <2>1, <2>2
<1>6. \A b \in Act \ {proc[q].i} : file'[b] = file[b]
  BY DEF Agent, AgentResolve, AgentVerify, fs, TypeInv, DurableOK
<1>7. \A a \in Act : a = proc[q].i => KindOf(a) = "agent"
  BY <1>1, <1>2 DEF RInv, PlaceInv, Tasks
<1>8. l \in Working
  BY DEF Working
<1>9. {"agent"} \cap (FileBacked \cup Invertible \cup {"verify"}) = {}
  BY DEF FileBacked, Invertible, Owning
<1> HIDE DEF At, InRun
<1> QED BY <1>1, <1>4, <1>5, <1>6, <1>7, <1>8, <1>9, GoesOn

\* An agent task that ends.
LEMMA AgentEndGoes ==
  ASSUME TypeInv, NEW q \in Proc, RInv(q), CoursedInv(q), LeftInv, Uncut',
         AgentSucceed(q) \/ AgentFail(q) \/ AgentSkip(q) \/ AgentError(q)
  PROVE  Onward(q)
<1>1. At(q) \in {"agentSucceed", "agentFail", "agentSkip", "agentError"} /\ At(q) \in Working
      /\ UNCHANGED <<fs, history>>
  BY DEF AgentSucceed, AgentFail, AgentSkip, AgentError, Working
<1>2. /\ Open(cur) /\ proc[q].run = cur
      /\ \A a \in Act : a = proc[q].i => K(q) = KindOf(a)
  BY <1>1, WorkerKnows
<1>3. /\ \E st, m : Note(q, st, FALSE, m)
      /\ \/ Set(q, Verified(proc[q], FALSE))
         \/ Set(q, FailedAction(proc[q]))
         \/ Set(q, Stopped([proc[q] EXCEPT !.human = TRUE]))
  BY <1>2, NothingRefused DEF AgentSucceed, AgentFail, AgentSkip, AgentError
<1>4. UNCHANGED <<cur, status, plan, applied>>
  BY <1>3, NoteKeepsRecords
<1>5. K(q) = "agent" /\ K(q) \notin FileBacked /\ K(q) \notin Invertible
  BY <1>1 DEF RInv, PlaceInv, Tasks, FileBacked, Invertible, Owning
<1>6. \A a \in Act : a = proc[q].i => KindOf(a) = "agent" /\ KindOf(a)' = "agent"
  BY <1>2, <1>4, <1>5 DEF KindOf
<1>7. \A a \in Act : a = proc[q].i => Wanted(a)' /\ KindOf(a) \notin Invertible
  BY <1>6 DEF Wanted, Owning, Invertible, FileBacked
<1> HIDE DEF At, InRun
<1>8. CASE Set(q, Verified(proc[q], FALSE))
  BY <1>1, <1>4, <1>5, <1>7, <1>8, PassesOn
<1>9. CASE Set(q, FailedAction(proc[q]))
  BY <1>1, <1>4, <1>7, <1>9, FallsBack
<1>10. CASE Set(q, Stopped([proc[q] EXCEPT !.human = TRUE]))
  BY <1>1, <1>4, <1>5, <1>10, HaltsThere
<1> QED BY <1>3, <1>8, <1>9, <1>10

----------------------------------------------------------------------------
(* The inverses and the end of the run. *)

\* A run that is being finished.
LEMMA FinisherKnows ==
  ASSUME TypeInv, NEW q \in Proc, RInv(q), CoursedInv(q), At(q) \in Finishing
  PROVE  /\ proc[q].mode = "run" /\ proc[q].own = "unset" /\ proc[q].inp = base.applied
         /\ InRun(q) /\ proc[q].run = cur /\ cur \in Run /\ (At(q) # "cleanup" => Open(cur))
         /\ At(q) \in {"cascade", "cascadeJournal"} => proc[q].fail
         /\ proc[q].fail \in BOOLEAN
<1>1. InRun(q) /\ (At(q) # "cleanup" => At(q) \notin Over)
  BY DEF Finishing
<1>2. Act # {}
  BY ConstantsAssumption DEF Act
<1>3. At(q) \in {"cascade", "cascadeJournal"} => proc[q].fail
  BY <1>2 DEF RInv, ActionInv, HoldsInv
<1> QED BY <1>1, <1>3, InRunIs, Registers DEF CoursedInv, CourseInv, Process

\* A step after a failed action, or past a human or drift outcome, that leaves
\* the run open.
LEMMA FinishesOn ==
  ASSUME TypeInv, NEW q \in Proc, RInv(q), CoursedInv(q), LeftInv,
         At(q) \in {"cascade", "cascadeJournal", "skip"},
         At(q)' \in {"cascade", "cascadeJournal", "skip", "complete"},
         proc'[q].mode = proc[q].mode, proc'[q].own = proc[q].own, proc'[q].inp = proc[q].inp,
         \A n \in 1..Len(proc'[q].done) : n \in 1..Len(proc[q].done) /\ proc'[q].done[n] = proc[q].done[n],
         UNCHANGED <<cur, status, plan, snap, history>>,
         \A a \in Act :
           /\ KindOf(a) = "verify" => file'[a] = file[a]
           /\ a \in proc'[q].keep /\ Backed(a) => snap[cur][a] = base.file[a]
           /\ At(q)' \in {"cascade", "cascadeJournal"} => InDone(q, a)' \/ Undone(q, a)'
           /\ At(q)' = "cascadeJournal" /\ a = Top(q).a' /\ KindOf(a) \in Invertible => Back(a)'
           /\ At(q)' \in {"skip", "complete"} => IF proc'[q].fail THEN Undone(q, a)' ELSE Whole(a)'
  PROVE  Onward(q)
<1>1. At(q) \in Finishing /\ At(q) # "cleanup" /\ At(q)' \in Finishing /\ At(q)' \notin Working \cup {"cleanup", "planned"}
      /\ At(q)' \notin Aside /\ InRun(q)'
  BY DEF Finishing, Working
<1>2. InRun(q) /\ Open(cur) /\ proc[q].mode = "run" /\ proc[q].own = "unset" /\ proc[q].inp = base.applied
      /\ \A n \in 1..Len(proc[q].done) : proc[q].done[n].prev = base.applied[proc[q].done[n].a]
  BY <1>1, FinisherKnows DEF CoursedInv, CourseInv
<1>3. /\ UNCHANGED <<base, edited>> /\ Open(cur)' /\ status'[cur'] = status[cur] /\ cur' = cur
      /\ \A a \in Act : KindOf(a)' = KindOf(a)
  BY <1>2 DEF history, Open, KindOf
<1>4. CourseInv(q)'
  <2> HIDE DEF At, InRun
  <2> QED BY <1>1, <1>2, <1>3 DEF CourseInv
<1>5. \A a \in Act : CurrentInv(q, a)'
  <2> HIDE DEF At, InRun
  <2> QED BY <1>1 DEF CurrentInv
<1>6. ASSUME NEW a \in Act
      PROVE  OtherInv(q, a)'
  <2>1. Top(q).a' = (Top(q).a)'
    OBVIOUS
  <2> HIDE DEF At, InRun
  <2> QED BY <1>1, <1>2, <1>3 DEF OtherInv, Backed
<1>7. ASSUME NEW a \in Act
      PROVE  ObservedInv(a)' /\ EndInv(a)'
  <2>1. EndInv(a)'
    BY <1>2, <1>3 DEF EndInv, Ended, Open, Recoverable, Terminal
  <2>2. ObservedInv(a)'
    BY <1>2, <1>3 DEF LeftInv, ObservedInv, Back
  <2> QED BY <2>1, <2>2
<1> HIDE DEF At, InRun
<1> QED BY <1>1, <1>4, <1>5, <1>6, <1>7 DEF Onward, CoursedInv, LeftInv

\* What the stack holds below its top.
LEMMA PopHolds ==
  ASSUME TypeInv, NEW q \in Proc, RInv(q), proc[q].done # <<>>
  PROVE  /\ Top(q).a \in Act /\ InDone(q, Top(q).a)
         /\ \E n \in 1..Len(proc[q].done) : Top(q) = proc[q].done[n]
         /\ \A a \in Act \ {Top(q).a} : InDone(q, a) => \E n \in 1..Len(Pop(q)) : Pop(q)[n].a = a
<1> DEFINE s == proc[q].done
           n == Len(s)
<1>1. s \in Seq(Done) /\ n \in Nat /\ n \in 1..n /\ Top(q) = s[n] /\ Top(q) \in Done
  BY Registers, PopIs
<1>2. Len(Pop(q)) = n - 1 /\ \A k \in 1..(n - 1) : Pop(q)[k] = s[k]
  BY <1>1 DEF Pop
<1>3. Top(q).a \in Act
  BY <1>1 DEF Done
<1> HIDE DEF s, n
<1>4. ASSUME NEW a \in Act \ {Top(q).a}, NEW k \in 1..n, s[k].a = a
      PROVE  \E m \in 1..Len(Pop(q)) : Pop(q)[m].a = a
  <2>1. k # n
    BY <1>1, <1>4
  <2>2. k \in 1..(n - 1)
    BY <1>1, <2>1
  <2> QED BY <1>2, <1>4, <2>2
<1> QED BY <1>1, <1>3, <1>4 DEF s, n, InDone

\* An inverse that succeeds puts the target back; one that fails is remembered.
LEMMA CascadeGoes ==
  ASSUME TypeInv, NEW q \in Proc, RInv(q), CoursedInv(q), LeftInv, Cascade(q)
  PROVE  Onward(q)
<1>1. At(q) = "cascade" /\ At(q) \in Finishing /\ proc[q].done # <<>>
      /\ UNCHANGED <<cur, status, plan, applied, snap, history, base, edited>>
  BY DEF Cascade, Finishing, db, history
<1>2. InRun(q) /\ Open(cur) /\ proc[q].fail /\ \A x \in Act : proc[q].plan[x] = KindOf(x)
  BY <1>1, FinisherKnows, InRunIs
<1>3. PICK a \in Act : a = Top(q).a
  BY <1>1, PopHolds
<1>4. \/ KindOf(a) \in FileBacked /\ Restored(q, a) /\ Goto(q, "cascadeJournal")
      \/ KindOf(a) \notin FileBacked /\ file' = file /\ Goto(q, "cascadeJournal")
      \/ /\ KindOf(a) \in FileBacked /\ RestoreFails(q, a)
         /\ Set(q, [proc[q] EXCEPT !.done = Pop(q), !.keep = @ \cup {a}])
  BY <1>2, <1>3 DEF Cascade
<1>5. \A x \in Act \ {a} : file'[x] = file[x]
  BY <1>2, <1>4, RestoreLeaves
<1>6. \A x \in Act : KindOf(x) = "verify" => file'[x] = file[x]
  BY <1>4, <1>5 DEF FileBacked
<1>7. \A x \in Act : /\ KindOf(x)' = KindOf(x) /\ (Own(x)' <=> Own(x))
                     /\ x # a => (Back(x)' <=> Back(x))
  BY <1>1, <1>5 DEF KindOf, Own, Back
<1>8. \A x \in Act : /\ InDone(q, x) \/ Undone(q, x)
                     /\ x \in proc[q].keep /\ Backed(x) => snap[cur][x] = base.file[x]
  BY <1>1, <1>2 DEF CoursedInv, OtherInv, Backed
<1>9. CASE Goto(q, "cascadeJournal") /\ ((KindOf(a) \in FileBacked /\ Restored(q, a)) \/ (KindOf(a) \notin FileBacked /\ file' = file))
  <2>1. Moved(q, "cascadeJournal") /\ Booked(q)
    BY <1>9, GotoBooks
  <2>2. /\ At(q)' = "cascadeJournal" /\ proc'[q].mode = proc[q].mode /\ proc'[q].own = proc[q].own
        /\ proc'[q].inp = proc[q].inp /\ proc'[q].done = proc[q].done /\ proc'[q].keep = proc[q].keep
        /\ proc'[q].fail = proc[q].fail
    BY <2>1 DEF Moved, SameLoop, SameFlags, Booked
  <2>3. KindOf(a) \in Invertible => Back(a)'
    <3>1. KindOf(a) \in Invertible => KindOf(a) = "verify" \/ KindOf(a) \in FileBacked
      BY DEF Invertible, Owning, FileBacked
    <3>2. KindOf(a) = "verify" => Back(a) /\ file'[a] = file[a]
      BY <1>2, <1>6 DEF LeftInv, ObservedInv
    <3>3. Restored(q, a) /\ Backed(a) => file'[a] = base.file[a]
      BY <1>2, RestoreLeaves
    <3> QED BY <1>1, <1>2, <1>9, <3>1, <3>2, <3>3 DEF Back, Backed
  <2>4. Top(q)' = Top(q)
    BY <2>2 DEF Top
  <2>5. ASSUME NEW x \in Act
        PROVE  InDone(q, x)' \/ Undone(q, x)'
    <3>1. InDone(q, x) => InDone(q, x)'
      BY <2>2 DEF InDone
    <3>2. InDone(q, a)
      BY <1>1, <1>3, PopHolds
    <3>3. x # a /\ Undone(q, x) => Undone(q, x)'
      BY <1>7, <2>2 DEF Undone
    <3> QED BY <1>8, <3>1, <3>2, <3>3
  <2>6. \A x \in Act : x = Top(q).a' /\ KindOf(x) \in Invertible => Back(x)'
    BY <1>3, <2>3, <2>4
  <2>7. At(q)' \notin {"skip", "complete"}
    BY <2>2
  <2> HIDE DEF At, InRun
  <2> QED BY <1>1, <1>6, <1>8, <2>2, <2>5, <2>6, <2>7, FinishesOn
<1>10. CASE /\ KindOf(a) \in FileBacked /\ RestoreFails(q, a)
            /\ Set(q, [proc[q] EXCEPT !.done = Pop(q), !.keep = @ \cup {a}])
  <2>1. proc[q] \in Process
    BY Registers
  <2>2. proc'[q] = [proc[q] EXCEPT !.done = Pop(q), !.keep = proc[q].keep \cup {a}]
    BY <1>10, <2>1, SetIs DEF Process
  <2>3. /\ proc'[q].pc = proc[q].pc /\ proc'[q].mode = proc[q].mode /\ proc'[q].own = proc[q].own
        /\ proc'[q].inp = proc[q].inp /\ proc'[q].done = Pop(q) /\ proc'[q].keep = proc[q].keep \cup {a}
        /\ proc'[q].fail = proc[q].fail
    BY <2>1, <2>2 DEF Process
  <2>4. At(q)' = "cascade"
    BY <1>1, <2>3
  <2>5. \A n \in 1..Len(proc'[q].done) : n \in 1..Len(proc[q].done) /\ proc'[q].done[n] = proc[q].done[n]
    BY <1>1, <2>3, PopIs
  <2>6. ASSUME NEW x \in Act
        PROVE  InDone(q, x)' \/ Undone(q, x)'
    <3>1. CASE x = a
      BY <2>3, <3>1 DEF Undone
    <3>2. CASE x # a
      <4>1. InDone(q, x) => InDone(q, x)'
        BY <1>1, <1>3, <2>3, <3>2, PopHolds DEF InDone
      <4>2. Undone(q, x) => Undone(q, x)'
        BY <1>7, <2>3, <3>2 DEF Undone
      <4> QED BY <1>8, <4>1, <4>2
    <3> QED BY <3>1, <3>2
  <2>7. \A x \in Act : x \in proc'[q].keep /\ Backed(x) => snap[cur][x] = base.file[x]
    <3>1. Backed(a) => snap[cur][a] = base.file[a]
      BY <1>1, <1>2, <1>3, PopHolds, Backing
    <3> QED BY <1>8, <2>3, <3>1
  <2> HIDE DEF At, InRun
  <2> QED BY <1>1, <1>6, <2>3, <2>4, <2>5, <2>6, <2>7, FinishesOn
<1> QED BY <1>4, <1>9, <1>10

\* The event of an inverse puts the record back.
LEMMA CascadeJournalGoes ==
  ASSUME TypeInv, NEW q \in Proc, RInv(q), CoursedInv(q), LeftInv, Uncut', CascadeJournal(q)
  PROVE  Onward(q)
<1>1. At(q) = "cascadeJournal" /\ At(q) \in Finishing /\ proc[q].done # <<>> /\ UNCHANGED <<fs, history>>
  BY Registers DEF CascadeJournal, Finishing, LocalInv
<1>2. InRun(q) /\ Open(cur) /\ proc[q].fail /\ proc[q].run = cur
  BY <1>1, FinisherKnows
<1>3. PICK a \in Act : a = Top(q).a /\ \E n \in 1..Len(proc[q].done) : Top(q) = proc[q].done[n]
  BY <1>1, PopHolds
<1>4. Top(q).prev = base.applied[a]
  BY <1>2, <1>3 DEF CoursedInv, CourseInv
<1>5. /\ UNCHANGED <<cur, status, plan>> /\ applied' = [applied EXCEPT ![a] = base.applied[a]]
      /\ Set(q, [proc[q] EXCEPT !.pc = "cascade", !.done = Pop(q)])
  BY <1>2, <1>3, <1>4, NothingRefused DEF CascadeJournal, JournalAction
<1>6. UNCHANGED <<file, snap, base, edited>>
  BY <1>1 DEF fs, history
<1>7. /\ At(q)' = "cascade" /\ proc'[q].mode = proc[q].mode /\ proc'[q].own = proc[q].own
      /\ proc'[q].inp = proc[q].inp /\ proc'[q].done = Pop(q) /\ proc'[q].keep = proc[q].keep
      /\ proc'[q].fail = proc[q].fail
  <2>1. proc[q] \in Process
    BY Registers
  <2>2. proc'[q] = [proc[q] EXCEPT !.pc = "cascade", !.done = Pop(q)]
    BY <1>5, SetIs
  <2> QED BY <2>1, <2>2 DEF Process
<1>8. \A n \in 1..Len(proc'[q].done) : n \in 1..Len(proc[q].done) /\ proc'[q].done[n] = proc[q].done[n]
  BY <1>1, <1>7, PopIs
<1>9. \A x \in Act : /\ KindOf(x)' = KindOf(x) /\ (Back(x)' <=> Back(x))
                     /\ x # a => (Own(x)' <=> Own(x))
                     /\ x = a => Own(x)'
  BY <1>5, <1>6 DEF KindOf, Back, Own, TypeInv, DurableOK
<1>10. \A x \in Act : /\ InDone(q, x) \/ Undone(q, x)
                      /\ x = a /\ KindOf(x) \in Invertible => Back(x)
                      /\ x \in proc[q].keep /\ Backed(x) => snap[cur][x] = base.file[x]
  BY <1>1, <1>2, <1>3 DEF CoursedInv, OtherInv, Backed
<1>11. ASSUME NEW x \in Act
       PROVE  InDone(q, x)' \/ Undone(q, x)'
  <2>1. CASE x = a
    BY <1>9, <1>10, <2>1 DEF Undone
  <2>2. CASE x # a
    <3>1. InDone(q, x) => InDone(q, x)'
      BY <1>1, <1>3, <1>7, <2>2, PopHolds DEF InDone
    <3>2. Undone(q, x) => Undone(q, x)'
      BY <1>7, <1>9, <2>2 DEF Undone
    <3> QED BY <1>10, <3>1, <3>2
  <2> QED BY <2>1, <2>2
<1>12. \A x \in Act : KindOf(x) = "verify" => file'[x] = file[x]
  BY <1>6
<1> HIDE DEF At, InRun
<1> QED BY <1>1, <1>5, <1>6, <1>7, <1>8, <1>10, <1>11, <1>12, FinishesOn

\* Nothing is left to undo, or an action the run never reached is skipped.
LEMMA WindsUp ==
  ASSUME TypeInv, NEW q \in Proc, RInv(q), CoursedInv(q), LeftInv, CascadeEnd(q) \/ Skip(q)
  PROVE  Onward(q)
<1>1. At(q) \in {"cascade", "skip"} /\ At(q) \in Finishing
      /\ UNCHANGED <<cur, status, plan, file, snap, history, base, edited>>
  BY DEF CascadeEnd, Skip, Finishing, TransactionFails, JournalAction, db, fs, history
<1>2. InRun(q) /\ Open(cur) /\ proc[q].mode = "run" /\ (At(q) = "cascade" => proc[q].fail)
  BY <1>1, FinisherKnows
<1>3. applied' = applied
  <2>1. applied' = applied \/ \E j : applied' = [applied EXCEPT ![j] = applied[j]]
    BY DEF CascadeEnd, Skip, TransactionFails, JournalAction, db
  <2> QED BY <2>1 DEF TypeInv, DurableOK
<1>4. /\ At(q)' \in {"skip", "complete"} /\ proc'[q].done = proc[q].done
      /\ proc'[q].fail = proc[q].fail /\ proc'[q].mode = proc[q].mode /\ Booked(q)
  <2>1. CASE CascadeEnd(q)
    BY <1>2, <2>1, StopBooks DEF CascadeEnd, SameLoop
  <2>2. CASE Skip(q) /\ Goto(q, "complete")
    BY <2>2, GotoBooks DEF Moved, SameLoop, SameFlags
  <2>3. CASE Skip(q) /\ Set(q, [proc[q] EXCEPT !.i = proc[q].i + 1])
    <3>1. proc[q] \in Process /\ proc'[q] = [proc[q] EXCEPT !.i = proc[q].i + 1] /\ At(q) = "skip"
      BY <2>3, Registers, SetIs DEF Skip
    <3> QED BY <3>1 DEF Process, Booked
  <2> QED BY <2>1, <2>2, <2>3 DEF CascadeEnd, Skip
<1>5. \A x \in Act : /\ KindOf(x)' = KindOf(x) /\ (Own(x)' <=> Own(x)) /\ (Back(x)' <=> Back(x))
                     /\ (Holds(x)' <=> Holds(x)) /\ (Wanted(x)' <=> Wanted(x))
  BY <1>1, <1>3 DEF KindOf, Own, Back, Holds, Wanted
<1>6. ASSUME NEW x \in Act
      PROVE  IF proc[q].fail THEN Undone(q, x) ELSE Whole(x)
  <2>0. OtherInv(q, x)
    BY DEF CoursedInv
  <2>1. CASE At(q) = "skip"
    BY <2>0, <2>1 DEF OtherInv
  <2>2. CASE At(q) = "cascade"
    <3>1. proc[q].done = <<>>
      BY <2>2 DEF CascadeEnd, Skip
    <3>2. ~InDone(q, x)
      BY <3>1 DEF InDone
    <3> QED BY <1>2, <2>0, <2>2, <3>2 DEF OtherInv
  <2> QED BY <1>1, <2>1, <2>2
<1>7. \A x \in Act : IF proc'[q].fail THEN Undone(q, x)' ELSE Whole(x)'
  BY <1>4, <1>5, <1>6 DEF Undone, Whole, Booked
<1>8. \A x \in Act : x \in proc[q].keep /\ Backed(x) => snap[cur][x] = base.file[x]
  BY <1>2 DEF CoursedInv, OtherInv, Backed
<1>9. At(q)' \notin {"cascade", "cascadeJournal"} /\ At(q)' \in {"cascade", "cascadeJournal", "skip", "complete"}
      /\ At(q) \in {"cascade", "cascadeJournal", "skip"}
  BY <1>1, <1>4
<1> HIDE DEF At, InRun
<1> QED BY <1>1, <1>4, <1>7, <1>8, <1>9, FinishesOn DEF Booked

\* What the outcome says is so of every action.
LEMMA CompleteGoes ==
  ASSUME TypeInv, NEW q \in Proc, RInv(q), CoursedInv(q), LeftInv, Complete(q)
  PROVE  Onward(q)
<1> DEFINE o == Outcome(proc[q])
<1>1. At(q) = "complete" /\ At(q) \in Finishing /\ UNCHANGED <<cur, plan, file, snap, base, edited>>
  BY DEF Complete, Finishing, fs
<1>2. /\ InRun(q) /\ Open(cur) /\ proc[q].mode = "run" /\ proc[q].own = "unset" /\ proc[q].inp = base.applied
      /\ proc[q].run = cur /\ cur \in Run /\ proc[q].fail \in BOOLEAN
      /\ \A a \in Act : proc[q].plan[a] = KindOf(a)
      /\ \A n \in 1..Len(proc[q].done) : proc[q].done[n].prev = base.applied[proc[q].done[n].a]
  BY <1>1, FinisherKnows, InRunIs DEF CoursedInv, CourseInv
<1>3. Moved(q, "cleanup") /\ Booked(q)
  BY GotoBooks DEF Complete
<1>4. /\ status' = [status EXCEPT ![cur] = o]
      /\ applied' = IF o # "Converged" THEN applied
                    ELSE [a \in Act |-> CASE KindOf(a) \in Owning -> "new"
                                          [] KindOf(a) = "remove" -> "none"
                                          [] OTHER -> applied[a]]
      /\ kept' = proc[q].keep
  BY <1>2 DEF Complete
<1>5. o \in Terminal /\ (o = "Failed" <=> proc[q].fail)
  BY <1>2 DEF Outcome, Terminal
<1> HIDE DEF o
<1>6. status'[cur] = o
  BY <1>2, <1>4 DEF TypeInv, DurableOK
<1>7. ~Open(cur)' /\ cur' = cur
  BY <1>1, <1>5, <1>6 DEF Open, Recoverable, Terminal
<1>8. \A a \in Act :
         /\ KindOf(a)' = KindOf(a) /\ (Back(a)' <=> Back(a)) /\ (Holds(a)' <=> Holds(a))
         /\ Wanted(a) => Wanted(a)'
         /\ proc[q].fail => (Own(a)' <=> Own(a))
  <2>1. ASSUME NEW a \in Act
        PROVE  /\ KindOf(a)' = KindOf(a) /\ (Back(a)' <=> Back(a)) /\ (Holds(a)' <=> Holds(a))
               /\ Wanted(a) => Wanted(a)'
               /\ proc[q].fail => (Own(a)' <=> Own(a))
    <3>1. KindOf(a)' = KindOf(a) /\ (Back(a)' <=> Back(a)) /\ (Holds(a)' <=> Holds(a))
      BY <1>1 DEF KindOf, Back, Holds
    <3>2. Wanted(a) => Wanted(a)'
      BY <1>4, <3>1 DEF Wanted, Owning
    <3>3. proc[q].fail => (Own(a)' <=> Own(a))
      BY <1>1, <1>4, <1>5 DEF Own
    <3> QED BY <3>1, <3>2, <3>3
  <2> QED BY <2>1
<1>9. \A a \in Act : /\ IF proc[q].fail THEN Undone(q, a) ELSE Whole(a)
                     /\ a \in proc[q].keep /\ Backed(a) => snap[cur][a] = base.file[a]
  BY <1>1, <1>2 DEF CoursedInv, OtherInv, Backed
<1>10. ASSUME NEW a \in Act
       PROVE  a \in proc[q].keep \/ Whole(a)'
  <2>1. CASE proc[q].fail
    <3>1. KindOf(a) \in FileBacked => KindOf(a) \in Invertible
      BY DEF Invertible
    <3> QED BY <1>8, <1>9, <2>1, <3>1 DEF Undone, Whole
  <2>2. CASE ~proc[q].fail
    BY <1>8, <1>9, <2>2 DEF Whole
  <2> QED BY <2>1, <2>2
<1>11. /\ At(q)' = "cleanup" /\ proc'[q].mode = "run" /\ proc'[q].own = "unset" /\ proc'[q].inp = base.applied
       /\ proc'[q].done = proc[q].done /\ proc'[q].keep = proc[q].keep
  BY <1>2, <1>3 DEF Moved, SameLoop, Booked
<1>12. At(q)' \in Finishing /\ At(q)' \notin Working \cup {"idle", "planned", "cascade", "cascadeJournal", "skip", "complete"} /\ InRun(q)'
  BY <1>11 DEF Finishing, Working
<1>13. CourseInv(q)'
  <2> HIDE DEF At, InRun
  <2> QED BY <1>1, <1>2, <1>11, <1>12 DEF CourseInv
<1>14. ASSUME NEW a \in Act
       PROVE  CurrentInv(q, a)' /\ OtherInv(q, a)'
  <2>1. a \in proc'[q].keep /\ a \notin edited' /\ KindOf(a)' \in FileBacked => snap'[cur'][a] = base'.file[a]
    BY <1>1, <1>2, <1>8, <1>9, <1>11 DEF Backed
  <2>2. a \notin proc'[q].keep => Whole(a)'
    BY <1>10, <1>11
  <2> HIDE DEF At, InRun
  <2> QED BY <1>12, <2>1, <2>2 DEF CurrentInv, OtherInv
<1>15. ASSUME NEW a \in Act
       PROVE  ObservedInv(a)' /\ EndInv(a)'
  <2>1. ObservedInv(a)'
    BY <1>7 DEF ObservedInv
  <2>2. ASSUME a \notin edited, KindOf(a) \in FileBacked
        PROVE  Back(a)' \/ (Holds(a)' /\ Wanted(a)') \/ snap'[cur][a] = base'.file[a]
    <3>1. CASE Whole(a)'
      BY <1>8, <2>2, <3>1 DEF Whole
    <3>2. CASE a \in proc[q].keep
      BY <1>1, <1>2, <1>9, <2>2, <3>2 DEF Backed
    <3> QED BY <1>10, <3>1, <3>2
  <2>3. ASSUME status'[cur] = "Failed", a \notin kept', KindOf(a) \in Invertible
        PROVE  Back(a)' /\ Own(a)'
    BY <1>4, <1>5, <1>6, <1>8, <1>9, <2>3 DEF Undone
  <2> QED BY <1>1, <1>7, <1>8, <2>1, <2>2, <2>3 DEF EndInv
<1> HIDE DEF At, InRun
<1> QED BY <1>12, <1>13, <1>14, <1>15 DEF Onward, CoursedInv, LeftInv

----------------------------------------------------------------------------
(* The steps by which an invocation enters a run or ends. *)

Leads(q) == CoursedInv(q)' /\ LeftInv' /\ (Open(cur)' => InRun(q)')

\* An idle invocation keeps no records.
LEMMA IdleBooks == Idle.own = "unset" /\ Idle.keep = {}
  BY DEF Idle

\* An invocation that is not in a run is bound to nothing but its records.
LEMMA AsideCoursed ==
  ASSUME NEW q \in Proc, At(q)' \in {"idle", "planned"}, proc'[q].own = "unset", proc'[q].keep = {},
         At(q)' = "planned" => proc'[q].inp = applied'
  PROVE  CoursedInv(q)'
<1>1. ~InRun(q)' /\ At(q)' \notin Working \cup Finishing
  BY DEF Working, Finishing
<1>2. CourseInv(q)'
  BY <1>1 DEF CourseInv, Working
<1>3. \A a \in Act : CurrentInv(q, a)' /\ OtherInv(q, a)'
  <2> HIDE DEF At, InRun
  <2> QED BY <1>1 DEF CurrentInv, OtherInv, Finishing
<1> QED BY <1>2, <1>3 DEF CoursedInv

\* A step that leaves the run and its files alone.
LEMMA LeftStays ==
  ASSUME LeftInv, UNCHANGED <<db, fs, history>>
  PROVE  LeftInv'
<1>1. UNCHANGED <<cur, status, plan, journal, applied, file, snap, base, edited, kept>>
  BY DEF db, fs, history
<1>2. ASSUME NEW a \in Act
      PROVE  ObservedInv(a)' /\ EndInv(a)'
  <2>1. ObservedInv(a) /\ EndInv(a)
    BY DEF LeftInv
  <2> QED BY <1>1, <2>1 DEF ObservedInv, EndInv, Ended, Back, Own, Holds, Wanted, KindOf, Open
<1> QED BY <1>2 DEF LeftInv

\* The snapshots go, but those of failed inverses.
LEMMA CleanupLeads ==
  ASSUME TypeInv, NEW q \in Proc, RInv(q), CoursedInv(q), LeftInv, Cleanup(q)
  PROVE  Leads(q)
<1>1. At(q) = "cleanup" /\ At(q) \in Finishing /\ proc'[q] = Idle
      /\ UNCHANGED <<cur, status, plan, applied, file, base, edited, kept>> /\ InRun(q)
  BY SetIs DEF Cleanup, Finishing, db, history
<1>2. proc[q].run = cur /\ cur \in Run /\ ~Open(cur)
  BY <1>1, FinisherKnows DEF RInv, RunInv
<1>3. ~Open(cur)' /\ cur' = cur
  BY <1>1, <1>2 DEF Open
<1>4. \A a \in proc[q].keep : a \in Act => snap'[cur][a] = snap[cur][a]
  <2>1. PICK gone \in SUBSET (Act \ proc[q].keep) :
          snap' = [snap EXCEPT ![cur] = [a \in Act |-> IF a \in gone THEN "none" ELSE snap[cur][a]]]
    BY <1>2 DEF Cleanup
  <2>2. snap'[cur] = [a \in Act |-> IF a \in gone THEN "none" ELSE snap[cur][a]]
    BY <1>2, <2>1 DEF TypeInv, DurableOK
  <2> QED BY <2>2
<1>5. ASSUME NEW a \in Act
      PROVE  ObservedInv(a)' /\ EndInv(a)'
  <2>1. ObservedInv(a)'
    BY <1>3 DEF ObservedInv
  <2>2. KindOf(a)' = KindOf(a) /\ (Back(a)' <=> Back(a)) /\ (Own(a)' <=> Own(a))
        /\ (Holds(a)' <=> Holds(a)) /\ (Wanted(a)' <=> Wanted(a)) /\ (Ended' <=> Ended)
    BY <1>1 DEF KindOf, Back, Own, Holds, Wanted, Ended
  <2>3. EndInv(a) /\ (a \in proc[q].keep \/ Whole(a))
    BY <1>1 DEF LeftInv, CoursedInv, OtherInv
  <2>4. ASSUME a \notin edited, KindOf(a) \in FileBacked
        PROVE  Back(a) \/ (Holds(a) /\ Wanted(a)) \/ (a \in proc[q].keep /\ snap[cur][a] = base.file[a])
    BY <1>1, <2>3, <2>4 DEF Whole, CoursedInv, OtherInv
  <2> QED BY <1>1, <1>4, <2>1, <2>2, <2>3, <2>4 DEF EndInv
<1>6. CoursedInv(q)'
  BY <1>1, IdleIs, IdleBooks, AsideCoursed
<1> QED BY <1>3, <1>5, <1>6 DEF Leads, LeftInv

\* A run is started from what is there.
LEMMA StartRunLeads ==
  ASSUME TypeInv, NEW q \in Proc, RInv(q), CoursedInv(q), LeftInv, StartRun(q)
  PROVE  Leads(q)
<1>1. /\ At(q) = "planned" /\ cur' = cur + 1 /\ status' = [status EXCEPT ![cur + 1] = "applying"]
      /\ base' = [file |-> file, applied |-> applied] /\ edited' = {} /\ UNCHANGED <<applied, file, snap>>
      /\ cur < MaxRuns
  BY DEF StartRun, fs
<1>2. cur + 1 \in Run /\ cur' \in Run
  BY <1>1, ConstantsAssumption DEF Run, TypeInv, DurableOK
<1>3. status'[cur'] = "applying"
  BY <1>1, <1>2 DEF TypeInv, DurableOK
<1>4. proc[q] \in Process /\ Fresh(q) /\ proc[q].inp = applied
  BY <1>1, Registers DEF RInv, RunInv, CoursedInv, CourseInv
<1>5. proc'[q] = [proc[q] EXCEPT !.pc = "next", !.run = cur + 1]
  BY SetIs DEF StartRun
<1>6. /\ At(q)' = "next" /\ proc'[q].mode = "run" /\ proc'[q].own = proc[q].own /\ proc'[q].inp = applied
      /\ proc'[q].done = <<>> /\ ~proc'[q].fail /\ proc'[q].i = 1 /\ ~proc'[q].prep
      /\ proc'[q].keep = proc[q].keep
  BY <1>4, <1>5 DEF Process, Fresh, Flagged
<1>7. \A a \in Act : Back(a)' /\ Own(a)' /\ ~(a < 1)
  <2>1. \A a \in Act : ~(a < 1)
    BY ConstantsAssumption DEF Act
  <2> QED BY <1>1, <2>1 DEF Back, Own
<1>8. Open(cur)'
  BY <1>2, <1>3 DEF Open, Recoverable
<1>9. \A a \in Act : ObservedInv(a)' /\ EndInv(a)'
  BY <1>3, <1>7 DEF ObservedInv, EndInv, Ended, Terminal
<1>10. proc[q].own = "unset" /\ proc[q].keep = {}
  BY <1>1 DEF CoursedInv, CourseInv
<1>11. At(q)' \in Working /\ At(q)' \notin Finishing \cup {"idle", "planned"} /\ InRun(q)'
  BY <1>6 DEF Working, Finishing
<1>12. CourseInv(q)'
  <2> HIDE DEF At, InRun
  <2>1. base'.applied = applied
    BY <1>1
  <2> QED BY <1>6, <1>10, <1>11, <2>1 DEF CourseInv
<1>13. ASSUME NEW a \in Act
       PROVE  CurrentInv(q, a)' /\ OtherInv(q, a)'
  <2>1. Own(a)' /\ ~(a < proc'[q].i)
    BY <1>6, <1>7
  <2> HIDE DEF At, InRun
  <2> QED BY <1>6, <1>10, <1>11, <2>1 DEF CurrentInv, OtherInv, Finishing
<1> HIDE DEF At, InRun
<1> QED BY <1>9, <1>11, <1>12, <1>13 DEF Leads, CoursedInv, LeftInv

\* A step that enters no run.
LEMMA AsideLeads ==
  ASSUME TypeInv, NEW q \in Proc, RInv(q), CoursedInv(q), LeftInv, Uncut',
         Plan(q) \/ StartRefused(q)
  PROVE  UNCHANGED <<db, fs, history>> /\ CoursedInv(q)' /\ LeftInv'
<1>1. UNCHANGED <<db, fs, history>>
  BY DEF Plan, StartRefused
<1>2. CASE Plan(q)
  <2>1. PICK pl : proc'[q] = [Idle EXCEPT !.pc = "planned", !.plan = pl, !.inp = applied]
    BY <1>2, SetIs DEF Plan
  <2>2. proc'[q].pc = "planned" /\ proc'[q].inp = applied /\ proc'[q].own = "unset" /\ proc'[q].keep = {}
    BY <2>1, IdleIs, IdleBooks DEF Process
  <2>3. applied' = applied
    BY <1>1 DEF db
  <2> QED BY <1>1, <2>2, <2>3, AsideCoursed, LeftStays
<1>3. CASE StartRefused(q)
  <2>1. proc'[q] = Idle
    BY <1>3, SetIs DEF StartRefused
  <2> QED BY <1>1, <2>1, IdleIs, IdleBooks, AsideCoursed, LeftStays
<1> QED BY <1>2, <1>3

\* A user edits a target.
LEMMA EditLeaves ==
  ASSUME TypeInv, LeftInv, NEW b \in Act, Edit(b)
  PROVE  LeftInv'
<1>1. /\ UNCHANGED <<cur, status, plan, applied, snap, base, kept>>
      /\ edited' = edited \cup {b}
      /\ \A a \in Act \ edited' : file'[a] = file[a]
  BY DEF Edit, db, TypeInv, DurableOK
<1>2. (Open(cur)' <=> Open(cur)) /\ (Ended' <=> Ended)
  BY <1>1 DEF Open, Ended
<1>3. \A a \in Act : /\ KindOf(a)' = KindOf(a) /\ (Own(a)' <=> Own(a)) /\ (Wanted(a)' <=> Wanted(a))
                     /\ Back(a) => Back(a)'
                     /\ Holds(a) => Holds(a)'
  BY <1>1 DEF KindOf, Own, Wanted, Back, Holds
<1>4. ASSUME NEW a \in Act
      PROVE  ObservedInv(a)' /\ EndInv(a)'
  <2>1. ObservedInv(a) /\ EndInv(a)
    BY DEF LeftInv
  <2> QED BY <1>1, <1>2, <1>3, <2>1 DEF ObservedInv, EndInv
<1> QED BY <1>4 DEF LeftInv

\* Nor does it disturb the course of an invocation.
LEMMA EditCoursed ==
  ASSUME TypeInv, NEW b \in Act, Edit(b), NEW q \in Proc, CoursedInv(q)
  PROVE  CoursedInv(q)'
<1>1. /\ UNCHANGED <<cur, status, plan, applied, snap, proc, base, kept>>
      /\ edited' = edited \cup {b}
      /\ \A a \in Act \ edited' : file'[a] = file[a]
  BY DEF Edit, db, TypeInv, DurableOK
<1>2. \A a \in Act : /\ KindOf(a)' = KindOf(a) /\ (Own(a)' <=> Own(a)) /\ (Wanted(a)' <=> Wanted(a))
                     /\ Back(a) => Back(a)'
                     /\ Undone(q, a) => Undone(q, a)'
                     /\ Whole(a) => Whole(a)'
                     /\ (InDone(q, a)' <=> InDone(q, a))
  BY <1>1 DEF KindOf, Own, Wanted, Back, Holds, Undone, Whole, InDone
<1>3. At(q)' = At(q) /\ (InRun(q)' <=> InRun(q)) /\ Top(q)' = Top(q)
  BY <1>1 DEF Top
<1> HIDE DEF At, InRun
<1>4. CourseInv(q)'
  BY <1>1, <1>3 DEF CoursedInv, CourseInv
<1>5. ASSUME NEW a \in Act
      PROVE  CurrentInv(q, a)' /\ OtherInv(q, a)'
  <2>1. CurrentInv(q, a) /\ OtherInv(q, a)
    BY DEF CoursedInv
  <2>2. CurrentInv(q, a)'
    BY <1>1, <1>2, <1>3, <2>1 DEF CurrentInv
  <2>3. OtherInv(q, a)'
    BY <1>1, <1>2, <1>3, <2>1 DEF OtherInv
  <2> QED BY <2>2, <2>3
<1> QED BY <1>4, <1>5 DEF CoursedInv

\* A step of the loop of a run.
LEMMA LoopGoes ==
  ASSUME TypeInv, NEW q \in Proc, RInv(q), CoursedInv(q), LeftInv, Uncut',
         \/ RunNext(q) \/ Prepare(q) \/ PrepareFails(q) \/ JournalRunning(q) \/ Execute(q) \/ ExecuteFails(q)
         \/ Verify(q) \/ JournalSucceeded(q) \/ UndoVerify(q) \/ JournalFailVerify(q) \/ Undo(q) \/ JournalFail(q)
         \/ Human(q) \/ RecordDrift(q) \/ DriftSkip(q) \/ Agent(q) \/ AgentResolve(q) \/ AgentVerify(q)
         \/ AgentSucceed(q) \/ AgentFail(q) \/ AgentSkip(q) \/ AgentError(q)
         \/ Cascade(q) \/ CascadeJournal(q) \/ CascadeEnd(q) \/ Skip(q) \/ Complete(q)
  PROVE  Onward(q)
<1>1. CASE RunNext(q) \/ Prepare(q) \/ PrepareFails(q) \/ JournalRunning(q) \/ Execute(q) \/ ExecuteFails(q)
           \/ Verify(q) \/ JournalSucceeded(q)
  BY <1>1, RunNextGoes, PrepareGoes, PrepareFailsGoes, JournalRunningGoes, ExecuteGoes, VerifyGoes,
     JournalSucceededGoes
<1>2. CASE UndoVerify(q) \/ JournalFailVerify(q) \/ Undo(q) \/ JournalFail(q) \/ Human(q) \/ RecordDrift(q)
           \/ DriftSkip(q) \/ Agent(q) \/ AgentResolve(q) \/ AgentVerify(q)
  BY <1>2, UndoVerifyGoes, UndoGoes, JournalFailGoes, HumanGoes, RecordDriftGoes, AgentGoes
<1>3. CASE AgentSucceed(q) \/ AgentFail(q) \/ AgentSkip(q) \/ AgentError(q)
           \/ Cascade(q) \/ CascadeJournal(q) \/ CascadeEnd(q) \/ Skip(q) \/ Complete(q)
  BY <1>3, AgentEndGoes, CascadeGoes, CascadeJournalGoes, WindsUp, CompleteGoes
<1> QED BY <1>1, <1>2, <1>3

\* Every step an invocation takes, when it is the one that works on an open run.
LEMMA OwnStepLeads ==
  ASSUME TypeInv, NEW q \in Proc, RInv(q), CoursedInv(q), LeftInv, Uncut', Open(cur) => InRun(q),
         Step(q) \/ Plan(q) \/ RecoverStart(q) \/ AbandonStart(q) \/ Crash(q) \/ Interrupt(q)
  PROVE  Leads(q)
<1>1. CASE StartRun(q) \/ Cleanup(q)
  BY <1>1, StartRunLeads, CleanupLeads
<1>2. CASE Plan(q) \/ StartRefused(q)
  <2>1. ~InRun(q)
    BY <1>2 DEF Plan, StartRefused
  <2>2. UNCHANGED <<db, fs, history>> /\ CoursedInv(q)' /\ LeftInv'
    BY <1>2, AsideLeads
  <2>3. ~Open(cur)'
    BY <2>1, <2>2 DEF Open, db
  <2> QED BY <2>2, <2>3 DEF Leads
<1>3. ~(RecoverStart(q) \/ AbandonStart(q))
  BY DEF RecoverStart, AbandonStart
<1>4. ~(RecoverNext(q) \/ RecoverLoopEnd(q))
  <2>1. At(q) = "next" => proc[q].mode = "run"
    BY DEF CoursedInv, CourseInv
  <2> QED BY <2>1 DEF RecoverNext, RecoverLoopEnd
<1>5. ~(Abandon(q) \/ Restore(q) \/ Reverify(q) \/ Installer(q) \/ OwnBack(q)
        \/ InterruptUndo(q) \/ InterruptFail(q) \/ InterruptComplete(q))
  <2>1. At(q) \in Working \cup Finishing \cup {"idle", "planned"}
    BY DEF CoursedInv, CourseInv
  <2>2. At(q) \notin {"abandon", "restore", "reverify", "installer", "ownback", "intUndo", "intUnlink", "intFail",
                      "intAgent", "intComplete"}
    BY <2>1 DEF Working, Finishing
  <2> QED BY <2>2 DEF Abandon, Restore, Reverify, Installer, OwnBack, InterruptUndo, InterruptFail, InterruptComplete
<1>6. ~(Crash(q) \/ Interrupt(q))
  BY NothingRefused DEF Crash, Interrupt
<1>7. ~CompleteFails(q)
  <2>1. At(q) = "complete" => Open(cur) /\ proc[q].run = cur
    BY FinisherKnows DEF Finishing
  <2> QED BY <2>1, NothingRefused DEF CompleteFails
<1>8. CASE \/ RunNext(q) \/ Prepare(q) \/ PrepareFails(q) \/ JournalRunning(q) \/ Execute(q) \/ ExecuteFails(q)
           \/ Verify(q) \/ JournalSucceeded(q) \/ UndoVerify(q) \/ JournalFailVerify(q) \/ Undo(q) \/ JournalFail(q)
           \/ Human(q) \/ RecordDrift(q) \/ DriftSkip(q) \/ Agent(q) \/ AgentResolve(q) \/ AgentVerify(q)
           \/ AgentSucceed(q) \/ AgentFail(q) \/ AgentSkip(q) \/ AgentError(q)
           \/ Cascade(q) \/ CascadeJournal(q) \/ CascadeEnd(q) \/ Skip(q) \/ Complete(q)
  <2>1. Onward(q)
    BY <1>8, LoopGoes
  <2> QED BY <2>1 DEF Onward, Leads
<1> QED BY <1>1, <1>2, <1>3, <1>4, <1>5, <1>6, <1>7, <1>8 DEF Step

\* Nothing has run yet.
LEMMA UncutInit ==
  ASSUME Init
  PROVE  UncutInv
<1>1. cur = 0 /\ status = [r \in Run |-> "none"]
  BY DEF Init
<1>2. ~Open(cur) /\ ~Ended /\ ~(cur > 0)
  BY <1>1 DEF Open, Run, Ended
<1>3. LeftInv
  BY <1>2 DEF LeftInv, ObservedInv, EndInv
<1>4. ASSUME NEW q \in Proc
      PROVE  CoursedInv(q)
  <2>1. proc[q] = Idle
    BY DEF Init
  <2>2. /\ At(q) = "idle" /\ At(q) \notin Working \cup Finishing /\ ~InRun(q)
        /\ proc[q].own = "unset" /\ proc[q].keep = {}
    BY <2>1, IdleIs, IdleBooks DEF Working, Finishing
  <2> HIDE DEF At, InRun
  <2>3. CourseInv(q)
    BY <2>2 DEF CourseInv
  <2>4. \A a \in Act : CurrentInv(q, a) /\ OtherInv(q, a)
    BY <2>2 DEF CurrentInv, OtherInv, Finishing
  <2> QED BY <2>3, <2>4 DEF CoursedInv
<1> QED BY <1>2, <1>3, <1>4 DEF UncutInv

\* The invariant is inductive as long as nothing is cut short.
LEMMA UncutNext ==
  ASSUME TypeInv, Recovering, UncutInv, Alone, Alone', Uncut', [Next]_vars
  PROVE  UncutInv'
<1>1. ASSUME NEW p \in Proc,
             Step(p) \/ Plan(p) \/ RecoverStart(p) \/ AbandonStart(p) \/ Crash(p) \/ Interrupt(p)
      PROVE  UncutInv'
  <2>1. \A q \in Proc : q # p => proc'[q] = proc[q] /\ proc[q].pc = "idle"
    <3>1. ASSUME NEW q \in Proc, q # p
          PROVE  proc'[q] = proc[q] /\ proc[q].pc = "idle"
      <4>1. proc'[q] = proc[q] /\ (proc[p].pc # "idle" \/ proc'[p].pc # "idle")
        BY <1>1, <3>1, OthersUntouched
      <4> QED BY <3>1, <4>1 DEF Alone
    <3> QED BY <3>1
  <2>2. Open(cur) => InRun(p)
    BY <2>1 DEF UncutInv
  <2>3. Leads(p)
    BY <1>1, <2>2, OwnStepLeads DEF Recovering, UncutInv
  <2>4. ASSUME NEW q \in Proc, q # p
        PROVE  CoursedInv(q)'
    <3>1. proc[q].own = "unset" /\ proc[q].keep = {}
      BY <2>1, <2>4 DEF UncutInv, CoursedInv, CourseInv
    <3>2. proc'[q] = proc[q] /\ At(q)' = "idle"
      BY <2>1, <2>4
    <3> QED BY <3>1, <3>2, AsideCoursed
  <2> HIDE DEF At, InRun
  <2> QED BY <2>3, <2>4 DEF Leads, UncutInv
<1>2. ASSUME NEW a \in Act, Edit(a)
      PROVE  UncutInv'
  <2>1. LeftInv' /\ \A q \in Proc : CoursedInv(q)'
    BY <1>2, EditLeaves, EditCoursed DEF UncutInv
  <2>2. UNCHANGED <<cur, status, proc>>
    BY <1>2 DEF Edit, db
  <2>3. Open(cur)' => \E q \in Proc : InRun(q)'
    BY <2>2 DEF UncutInv, Open
  <2> HIDE DEF At, InRun
  <2> QED BY <2>1, <2>3 DEF UncutInv
<1>3. CASE UNCHANGED vars
  <2>1. UNCHANGED <<db, fs, history>> /\ UNCHANGED <<cur, status, plan, applied, file, snap, proc, base, edited, kept>>
    BY <1>3 DEF vars, db, fs, history
  <2>2. LeftInv'
    BY <2>1, LeftStays DEF UncutInv
  <2>3. ASSUME NEW q \in Proc
        PROVE  CoursedInv(q)'
    <3>1. CoursedInv(q)
      BY DEF UncutInv
    <3>2. At(q)' = At(q) /\ (InRun(q)' <=> InRun(q)) /\ Top(q)' = Top(q)
      BY <2>1 DEF Top
    <3>3. \A a \in Act : /\ KindOf(a)' = KindOf(a) /\ (Own(a)' <=> Own(a)) /\ (Wanted(a)' <=> Wanted(a))
                         /\ (Back(a)' <=> Back(a)) /\ (Undone(q, a)' <=> Undone(q, a))
                         /\ (Whole(a)' <=> Whole(a)) /\ (InDone(q, a)' <=> InDone(q, a))
      BY <2>1 DEF KindOf, Own, Wanted, Back, Holds, Undone, Whole, InDone
    <3> HIDE DEF At, InRun
    <3>4. CourseInv(q)'
      BY <2>1, <3>1, <3>2 DEF CoursedInv, CourseInv
    <3>5. \A a \in Act : CurrentInv(q, a)' /\ OtherInv(q, a)'
      BY <2>1, <3>1, <3>2, <3>3 DEF CoursedInv, CurrentInv, OtherInv
    <3> QED BY <3>4, <3>5 DEF CoursedInv
  <2>4. Open(cur)' => \E q \in Proc : InRun(q)'
    BY <2>1 DEF UncutInv, Open
  <2> HIDE DEF At, InRun
  <2> QED BY <2>2, <2>3, <2>4 DEF UncutInv
<1> QED BY <1>1, <1>2, <1>3 DEF Next, Rest

\* The invariant holds throughout, next to those that recovery needs.
LEMMA UncutAlways == Spec /\ []Alone /\ []Uncut => []UncutInv
<1>1. Init => UncutInv
  BY UncutInit
<1>2. TypeInv /\ Recovering /\ UncutInv /\ Alone /\ Alone' /\ Uncut' /\ [Next]_vars => UncutInv'
  BY UncutNext
<1> QED BY <1>1, <1>2, RecoveringAlways, PTL DEF Spec

\* A run that fails without being cut short has put every target back as it
\* found it, and every ownership record, except where the inverse itself failed.
THEOREM FailureIsUndone == Spec /\ []Alone /\ []Uncut => []FailedRunIsUndone
<1>1. UncutInv => FailedRunIsUndone
  BY DEF UncutInv, LeftInv, EndInv, Back, Own, FailedRunIsUndone
<1> QED BY <1>1, UncutAlways, PTL

\* However a run ends that was not cut short, no mutation is left half done
\* without its snapshot.
THEOREM EndsWhole == Spec /\ []Alone /\ []Uncut => []NothingHalfDone
<1>1. ASSUME UncutInv
      PROVE  NothingHalfDone
  <2> SUFFICES ASSUME Ended, NEW a \in Act \ edited, KindOf(a) \in FileBacked
               PROVE  \/ file[a] = base.file[a]
                      \/ KindOf(a) # "remove" /\ Matches(KindOf(a), file[a]) /\ applied[a] = "new"
                      \/ KindOf(a) = "remove" /\ file[a] = "absent" /\ applied[a] = "none"
                      \/ snap[cur][a] = base.file[a]
    BY DEF NothingHalfDone
  <2>1. Back(a) \/ (Holds(a) /\ Wanted(a)) \/ snap[cur][a] = base.file[a]
    BY <1>1 DEF UncutInv, LeftInv, EndInv
  <2> QED BY <2>1 DEF Back, Holds, Wanted, FileBacked, Owning
<1> QED BY <1>1, UncutAlways, PTL

----------------------------------------------------------------------------
(* Runs that crashes and interrupts cut short, however often. *)

\* The filesystem and the database do what they are asked, and no user edits.
Untroubled == spent["fs"] = 0 /\ spent["db"] = 0 /\ spent["edit"] = 0

St(a) == Last(journal[a]).st

\* Recovery will not stop at this action for good: it is neither skipped nor
\* left to somebody, and a task or an installer that may have run has succeeded.
Firm(a) == /\ St(a) # "skipped"
           /\ KindOf(a) \in {"agent", "install"} => St(a) = "succeeded"
           /\ KindOf(a) \notin {"human", "drift"}

\* What the journal of an open run says of the target of an action.
Stands(a) ==
  /\ St(a) = "succeeded" => /\ Wanted(a) /\ KindOf(a) \notin {"human", "drift"}
                            /\ KindOf(a) \in {"agent", "install"} => file[a] = "new"
  /\ St(a) = "skipped" /\ KindOf(a) \in Invertible => Back(a)
  /\ KindOf(a) = "verify" => Back(a) /\ file[a] = "new"
  /\ KindOf(a) = "append" => file[a] \in {base.file[a], Desired("append", base.file[a])}
  /\ KindOf(a) \notin FileBacked => snap[cur][a] = "none"

\* A target has changed only behind actions that recovery gets past.
StandInv(a) ==
  Open(cur) => /\ Stands(a)
               /\ KindOf(a) \in Invertible /\ ~Back(a) => \A b \in Act : b < a => Firm(b)

\* What a run that has ended leaves.
ClosedInv(a) ==
  /\ Ended /\ KindOf(a) \in FileBacked => Back(a) \/ (Holds(a) /\ Wanted(a)) \/ snap[cur][a] = base.file[a]
  /\ cur > 0 /\ status[cur] = "Failed" /\ a \notin kept /\ KindOf(a) \in Invertible => Back(a)

\* The places where nothing but a failed restore or write leads.
Failing == {"undoVerify", "failVerify", "undo", "fail", "ownback"}

\* Where an invocation is; it may hold a displaced record only on the way to
\* executing its action again.
PathInv(q) ==
  /\ At(q) \notin Failing
  /\ proc[q].keep = {}
  /\ At(q) \in {"planned", "next", "reverify", "installer", "human", "drift", "driftSkip"} \cup Tasks =>
       proc[q].own = "unset"
  /\ Forward(q) => ~proc[q].fail

\* The action it works on.
HereInv(q, a) ==
  Forward(q) /\ At(q) # "next" /\ a = proc[q].i =>
    /\ St(a) # "skipped"
    /\ St(a) = "succeeded" => KindOf(a) \notin {"agent", "install"} \/ At(q) \in {"installer", "reverify"}
    /\ At(q) \in {"running", "execute"} /\ KindOf(a) \in FileBacked => Back(a)
    /\ At(q) = "verify" => Matches(KindOf(a), file[a])
    /\ At(q) = "reverify" => St(a) = "succeeded" /\ (KindOf(a) \in FileBacked => proc[q].seen[a].last.ref)
    /\ At(q) \in {"prepare", "running", "execute", "verify", "succeed"} => KindOf(a) \notin {"human", "drift", "agent"}

\* The others.
AroundInv(q, a) ==
  /\ InRun(q) /\ KindOf(a) \notin FileBacked => proc[q].mem[a] = "none"
  /\ InRun(q) /\ InDone(q, a) => KindOf(a) \in Invertible
  /\ Forward(q) /\ a < proc[q].i => St(a) = "succeeded" /\ (KindOf(a) \in Invertible => InDone(q, a))
  /\ At(q) \in Rolling /\ KindOf(a) \in Invertible => InDone(q, a) \/ Back(a)
  /\ At(q) = "cascadeJournal" /\ a = Top(q).a => Back(a)
  /\ At(q) \in {"skip", "complete"} => IF proc[q].fail THEN KindOf(a) \in Invertible => Back(a) ELSE Whole(a)
  /\ At(q) = "cleanup" => Whole(a)
  /\ At(q) = "planned" /\ proc[q].plan[a] = "verify" => file[a] = "new"

TrackInv(q) == PathInv(q) /\ \A a \in Act : HereInv(q, a) /\ AroundInv(q, a)
StayInv == edited = {} /\ \A a \in Act : StandInv(a) /\ ClosedInv(a)
CutInv == StayInv /\ \A q \in Proc : TrackInv(q)

----------------------------------------------------------------------------
(* A step on one action. *)

\* Only action t is touched.
Spares(t) == \A b \in Act \ {t} :
  file'[b] = file[b] /\ journal'[b] = journal[b] /\ applied'[b] = applied[b] /\ snap'[cur][b] = snap[cur][b]

\* Nothing durable that the invariant is about changes.
LEMMA StaysPut ==
  ASSUME StayInv, UNCHANGED <<cur, status, plan, journal, applied, file, snap, base, edited, kept>>
  PROVE  StayInv'
<1>1. ASSUME NEW a \in Act
      PROVE  StandInv(a)' /\ ClosedInv(a)'
  <2>1. StandInv(a) /\ ClosedInv(a)
    BY DEF StayInv
  <2>2. /\ KindOf(a)' = KindOf(a) /\ (Back(a)' <=> Back(a)) /\ (Holds(a)' <=> Holds(a))
        /\ (Wanted(a)' <=> Wanted(a)) /\ St(a)' = St(a) /\ (Ended' <=> Ended) /\ (Open(cur)' <=> Open(cur))
    BY DEF KindOf, Back, Holds, Wanted, St, Ended, Open
  <2>3. \A b \in Act : Firm(b)' <=> Firm(b)
    BY DEF Firm, KindOf, St
  <2>4. Stands(a)' <=> Stands(a)
    BY <2>2 DEF Stands
  <2> QED BY <2>1, <2>2, <2>3, <2>4 DEF StandInv, ClosedInv
<1> QED BY <1>1 DEF StayInv

\* A step on one action of the open run.
LEMMA TouchStays ==
  ASSUME StayInv, Open(cur), UNCHANGED <<cur, status, plan, base, edited>>, NEW t, Spares(t),
         t \in Act => /\ Stands(t)'
                      /\ KindOf(t) \in Invertible /\ ~Back(t)' => \A b \in Act : b < t => Firm(b)
                      /\ Firm(t) => Firm(t)' \/ \A a \in Act : t < a /\ KindOf(a) \in Invertible => Back(a)
  PROVE  StayInv'
<1>1. /\ Open(cur)' /\ ~Ended' /\ status'[cur'] # "Failed"
      /\ \A a \in Act : KindOf(a)' = KindOf(a)
  BY DEF Open, Ended, Recoverable, Terminal, KindOf
<1>2. ASSUME NEW a \in Act \ {t}
      PROVE  /\ (Back(a)' <=> Back(a)) /\ (Firm(a)' <=> Firm(a)) /\ (Stands(a)' <=> Stands(a))
  <2>1. /\ file'[a] = file[a] /\ journal'[a] = journal[a] /\ applied'[a] = applied[a]
        /\ snap'[cur][a] = snap[cur][a] /\ KindOf(a)' = KindOf(a)
    BY <1>1, <1>2 DEF Spares
  <2>2. (Back(a)' <=> Back(a)) /\ (Wanted(a)' <=> Wanted(a)) /\ St(a)' = St(a)
    BY <2>1 DEF Back, Wanted, St
  <2> QED BY <2>1, <2>2 DEF Firm, Stands
<1>3. ASSUME NEW a \in Act
      PROVE  StandInv(a)'
  <2>1. Stands(a) /\ (KindOf(a) \in Invertible /\ ~Back(a) => \A b \in Act : b < a => Firm(b))
    BY DEF StayInv, StandInv
  <2>2. Stands(a)'
    BY <1>2, <2>1
  <2>3. ASSUME KindOf(a) \in Invertible, ~Back(a)', NEW b \in Act, b < a
        PROVE  Firm(b)'
    <3>1. CASE a = t
      BY <1>2, <2>3, <3>1 DEF Act
    <3>2. CASE a # t
      <4>1. ~Back(a) /\ Firm(b)
        BY <1>2, <2>1, <2>3, <3>2
      <4> QED BY <1>2, <2>3, <4>1
    <3> QED BY <3>1, <3>2
  <2> QED BY <1>1, <2>2, <2>3 DEF StandInv
<1>4. \A a \in Act : ClosedInv(a)'
  BY <1>1 DEF ClosedInv
<1> QED BY <1>3, <1>4 DEF StayInv

----------------------------------------------------------------------------
(* Where the step leads. *)

\* What an invocation carries on from one place to the next.
Carries(q) == /\ proc'[q].mem = proc[q].mem /\ proc'[q].keep = proc[q].keep /\ proc'[q].done = proc[q].done

Tarries(q) ==
  /\ Forward(q)' /\ At(q)' \notin Failing \cup {"next"}
  /\ proc'[q].i = proc[q].i /\ proc'[q].done = proc[q].done /\ ~proc'[q].fail
  /\ At(q)' \in {"reverify", "installer", "human", "drift", "driftSkip"} \cup Tasks => proc'[q].own = "unset"
  /\ \A a \in Act : a = proc[q].i => HereInv(q, a)'
Advances(q) ==
  /\ At(q)' = "next" /\ proc'[q].i = proc[q].i + 1 /\ ~proc'[q].fail /\ proc'[q].own = "unset"
  /\ \A a \in Act : a = proc[q].i => St(a)' = "succeeded"
  /\ \/ proc'[q].done = proc[q].done /\ \A a \in Act : a = proc[q].i => KindOf(a) \notin Invertible
     \/ /\ \A a \in Act : a = proc[q].i => KindOf(a) \in Invertible
        /\ \E x : x.a = proc[q].i /\ proc'[q].done = Append(proc[q].done, x)
Drops(q) ==
  /\ At(q)' = "cascade" /\ proc'[q].done = proc[q].done
  /\ \A a \in Act : a = proc[q].i => ~Firm(a)' /\ (KindOf(a) \in Invertible => Back(a)')
Ceases(q) ==
  /\ At(q)' \in {"skip", "complete"} /\ proc'[q].done = proc[q].done /\ ~proc'[q].fail
  /\ \A a \in Act : a = proc[q].i => ~Firm(a)' /\ Whole(a)'

\* What an invocation on the way through the plan knows.
LEMMA ForwardKnows ==
  ASSUME TypeInv, NEW q \in Proc, RInv(q), StayInv, TrackInv(q), Forward(q)
  PROVE  /\ Open(cur) /\ InRun(q) /\ proc[q].run = cur /\ cur \in Run /\ ~proc[q].fail /\ edited = {}
         /\ proc[q].keep = {} /\ At(q) \notin Failing
         /\ \A a \in Act : proc[q].plan[a] = KindOf(a)
         /\ \A a \in Act : a < proc[q].i =>
              Firm(a) /\ Whole(a) /\ (KindOf(a) \in Invertible => InDone(q, a)) /\ St(a) = "succeeded"
         /\ \A a \in Act : Stands(a)
         /\ \A a \in Act : a = proc[q].i => K(q) = KindOf(a) /\ HereInv(q, a)
         /\ \A a \in Act : a = proc[q].i \/ a < proc[q].i \/ a > proc[q].i
<1>1. InRun(q) /\ At(q) \notin Over
  BY DEF Forward
<1>2. /\ Open(cur) /\ proc[q].run = cur /\ cur \in Run
      /\ \A a \in Act : proc[q].plan[a] = KindOf(a)
      /\ \A a \in Act : a = proc[q].i => K(q) = KindOf(a)
  BY <1>1, InRunIs
<1>3. \A a \in Act : Stands(a)
  BY <1>2 DEF StayInv, StandInv
<1>4. ASSUME NEW a \in Act, a < proc[q].i
      PROVE  Firm(a) /\ Whole(a) /\ (KindOf(a) \in Invertible => InDone(q, a)) /\ St(a) = "succeeded"
  <2>1. St(a) = "succeeded" /\ (KindOf(a) \in Invertible => InDone(q, a))
    BY <1>4 DEF TrackInv, AroundInv
  <2>2. Wanted(a) /\ KindOf(a) \notin {"human", "drift"}
    BY <1>3, <2>1 DEF Stands
  <2>3. Holds(a)
    BY <1>4 DEF RInv, ActionInv, HoldsInv
  <2> QED BY <2>1, <2>2, <2>3 DEF Firm, Whole
<1>5. \A a \in Act : a = proc[q].i \/ a < proc[q].i \/ a > proc[q].i
  BY Registers DEF Act
<1> QED BY <1>1, <1>2, <1>3, <1>4, <1>5 DEF TrackInv, PathInv, StayInv

\* What the stack holds after the step.
LEMMA StackHolds ==
  ASSUME TypeInv, NEW q \in Proc, NEW x, proc'[q].done = Append(proc[q].done, x)
  PROVE  /\ \A a \in Act : InDone(q, a)' <=> (InDone(q, a) \/ x.a = a)
<1> DEFINE s == proc[q].done
           t == proc'[q].done
<1>1. s \in Seq(Done) /\ t = Append(s, x)
  BY Registers
<1> HIDE DEF s, t
<1>2. /\ Len(s) \in Nat /\ Len(t) = Len(s) + 1 /\ t[Len(t)] = x
      /\ \A n \in 1..Len(s) : n \in 1..Len(t) /\ t[n] = s[n]
      /\ \A n \in 1..Len(t) : n \in 1..Len(s) \/ n = Len(t)
  BY <1>1, Appended
<1>3. Len(t) \in 1..Len(t)
  BY <1>2
<1>4. ASSUME NEW a \in Act
      PROVE  (\E n \in 1..Len(t) : t[n].a = a) <=> ((\E n \in 1..Len(s) : s[n].a = a) \/ x.a = a)
  BY <1>2, <1>3
<1> QED BY <1>4 DEF InDone, s, t

\* A step of the loop keeps the invocation's invariant, wherever it leads.
LEMMA LoopHolds ==
  ASSUME TypeInv, NEW q \in Proc, RInv(q), StayInv, TrackInv(q), Forward(q),
         UNCHANGED <<cur, status, plan, base, edited>>, Spares(proc[q].i), StayInv',
         \A a \in Act : KindOf(a) \notin FileBacked => proc'[q].mem[a] = "none",
         proc'[q].keep = {},
         Tarries(q) \/ Advances(q) \/ Drops(q) \/ Ceases(q)
  PROVE  TrackInv(q)'
<1>1. /\ Open(cur) /\ InRun(q) /\ At(q) \notin Failing
      /\ \A a \in Act : a < proc[q].i =>
           Firm(a) /\ Whole(a) /\ (KindOf(a) \in Invertible => InDone(q, a)) /\ St(a) = "succeeded"
      /\ \A a \in Act : a = proc[q].i \/ a < proc[q].i \/ a > proc[q].i
      /\ ~proc[q].fail
  BY ForwardKnows
<1>2. Open(cur)' /\ \A a \in Act : KindOf(a)' = KindOf(a)
  BY <1>1 DEF Open, KindOf
<1>3. \A a \in Act : a # proc[q].i => (Whole(a)' <=> Whole(a)) /\ St(a)' = St(a)
  BY <1>2 DEF Whole, Back, Holds, Wanted, St, Spares
<1>4. /\ \A a \in Act : InDone(q, a) => InDone(q, a)'
      /\ \A a \in Act : InDone(q, a)' => InDone(q, a) \/ (a = proc[q].i /\ KindOf(a) \in Invertible)
      /\ Advances(q) => \A a \in Act : a = proc[q].i /\ KindOf(a) \in Invertible => InDone(q, a)'
  <2>1. CASE proc'[q].done = proc[q].done
    <3>1. \A a \in Act : InDone(q, a)' <=> InDone(q, a)
      BY <2>1 DEF InDone
    <3>2. ASSUME NEW x, proc[q].done = Append(proc[q].done, x)
          PROVE  FALSE
      <4>1. Len(proc[q].done) \in Nat /\ Len(proc[q].done) = Len(proc[q].done) + 1
        BY <3>2, Registers, Appended
      <4> QED BY <4>1
    <3> QED BY <2>1, <3>1, <3>2 DEF Advances
  <2>2. CASE proc'[q].done # proc[q].done
    <3>1. PICK x : x.a = proc[q].i /\ proc'[q].done = Append(proc[q].done, x)
      BY <2>2 DEF Tarries, Advances, Drops, Ceases
    <3>2. \A a \in Act : a = proc[q].i => KindOf(a) \in Invertible
      BY <2>2 DEF Tarries, Advances, Drops, Ceases
    <3>3. \A a \in Act : InDone(q, a)' <=> (InDone(q, a) \/ x.a = a)
      BY <3>1, StackHolds
    <3> QED BY <3>1, <3>2, <3>3
  <2> QED BY <2>1, <2>2
<1>5. \A a \in Act : InDone(q, a) => KindOf(a) \in Invertible
  BY <1>1 DEF TrackInv, AroundInv
<1>6. \A a, b \in Act : b < a /\ KindOf(a) \in Invertible /\ ~Firm(b)' => Back(a)'
  BY <1>2 DEF StayInv, StandInv
<1>7. PathInv(q)'
  <2>1. At(q)' \notin Failing /\ (Forward(q)' => ~proc'[q].fail)
    BY DEF Tarries, Advances, Drops, Ceases, Failing, Forward
  <2>2. At(q)' \in {"planned", "next", "reverify", "installer", "human", "drift", "driftSkip"} \cup Tasks =>
          proc'[q].own = "unset"
    BY DEF Tarries, Advances, Drops, Ceases, Forward, Tasks
  <2> HIDE DEF At, InRun
  <2> QED BY <2>1, <2>2 DEF PathInv
<1>8. ASSUME NEW a \in Act
      PROVE  HereInv(q, a)'
  <2>1. CASE Tarries(q)
    BY <2>1 DEF Tarries, HereInv
  <2>2. CASE Advances(q) \/ Drops(q) \/ Ceases(q)
    BY <2>2 DEF Advances, Drops, Ceases, HereInv, Forward
  <2> QED BY <2>1, <2>2
<1>9. ASSUME NEW a \in Act
      PROVE  AroundInv(q, a)'
  <2> DEFINE i == proc[q].i
  <2>1. InRun(q)' /\ KindOf(a)' \notin FileBacked => proc'[q].mem[a] = "none"
    BY <1>2
  <2>2. InDone(q, a)' => KindOf(a)' \in Invertible
    BY <1>2, <1>4, <1>5
  <2>3. ASSUME Forward(q)', a < proc'[q].i
        PROVE  St(a)' = "succeeded" /\ (KindOf(a)' \in Invertible => InDone(q, a)')
    <3>1. CASE a < i
      <4>1. a # i
        BY <3>1, Registers DEF Act
      <4> QED BY <1>1, <1>2, <1>3, <1>4, <3>1, <4>1
    <3>2. CASE ~(a < i)
      <4>1. Advances(q) /\ a = i
        BY <2>3, <3>2, Registers DEF Act, Tarries, Advances, Drops, Ceases, Forward
      <4> QED BY <1>2, <1>4, <4>1 DEF Advances
    <3> QED BY <3>1, <3>2
  <2>4. ASSUME At(q)' \in Rolling, KindOf(a) \in Invertible
        PROVE  InDone(q, a)' \/ Back(a)'
    <3>1. Drops(q)
      BY <2>4 DEF Tarries, Advances, Drops, Ceases, Forward
    <3>2. a > i /\ i \in Act => Back(a)'
      BY <1>6, <2>4, <3>1 DEF Drops, Act
    <3>3. i \in Act \/ ~(a > i)
      BY Registers, ConstantsAssumption DEF Act
    <3>4. a < i => InDone(q, a)'
      BY <1>1, <1>4, <2>4
    <3>5. a = i => Back(a)'
      BY <2>4, <3>1 DEF Drops
    <3>6. a < i \/ a = i \/ a > i
      BY <1>1
    <3> QED BY <3>2, <3>3, <3>4, <3>5, <3>6
  <2>5. At(q)' \notin {"cascadeJournal", "cleanup", "planned"}
    BY DEF Tarries, Advances, Drops, Ceases, Forward
  <2>6. ASSUME At(q)' \in {"skip", "complete"}
        PROVE  ~proc'[q].fail /\ Whole(a)'
    <3>1. Ceases(q)
      BY <2>6 DEF Tarries, Advances, Drops, Ceases, Forward
    <3>2. a > i /\ i \in Act => Whole(a)'
      <4>1. a > i /\ i \in Act /\ KindOf(a) \in Invertible => Back(a)'
        BY <1>6, <3>1 DEF Ceases, Act
      <4> QED BY <1>2, <4>1 DEF Whole, Invertible
    <3>3. i \in Act \/ ~(a > i)
      BY Registers, ConstantsAssumption DEF Act
    <3>4. a < i => Whole(a)'
      <4>1. a < i => a # i
        BY Registers DEF Act
      <4> QED BY <1>1, <1>3, <4>1
    <3>5. a = i => Whole(a)'
      BY <3>1 DEF Ceases
    <3>6. a < i \/ a = i \/ a > i
      BY <1>1
    <3>7. ~proc'[q].fail
      BY <3>1 DEF Ceases
    <3> QED BY <3>2, <3>3, <3>4, <3>5, <3>6, <3>7
  <2> HIDE DEF At, InRun, i
  <2> QED BY <1>2, <2>1, <2>2, <2>3, <2>4, <2>5, <2>6 DEF AroundInv
<1> QED BY <1>7, <1>8, <1>9 DEF TrackInv

Steady(q) == StayInv' /\ TrackInv(q)'

\* A step of the loop, from what it makes of its action.
LEMMA StepHolds ==
  ASSUME TypeInv, NEW q \in Proc, RInv(q), StayInv, TrackInv(q), Forward(q),
         UNCHANGED <<cur, status, plan, base, edited>>, Spares(proc[q].i),
         \A a \in Act : a = proc[q].i => Stands(a)' /\ (Firm(a) => Firm(a)'),
         \A a \in Act : KindOf(a) \notin FileBacked => proc'[q].mem[a] = "none",
         proc'[q].keep = {},
         Tarries(q) \/ Advances(q) \/ Drops(q) \/ Ceases(q)
  PROVE  Steady(q)
<1>1. Open(cur) /\ \A a \in Act : a < proc[q].i => Firm(a)
  BY ForwardKnows
<1>2. StayInv'
  BY <1>1, TouchStays
<1> QED BY <1>2, LoopHolds DEF Steady

\* The same when the step touches nothing but the invocation.
LEMMA MoveHolds ==
  ASSUME TypeInv, NEW q \in Proc, RInv(q), StayInv, TrackInv(q), Forward(q),
         UNCHANGED <<cur, status, plan, journal, applied, file, snap, base, edited, kept>>,
         \A a \in Act : KindOf(a) \notin FileBacked => proc'[q].mem[a] = "none",
         proc'[q].keep = {},
         Tarries(q) \/ Advances(q) \/ Drops(q) \/ Ceases(q)
  PROVE  Steady(q)
<1>1. StayInv'
  BY StaysPut
<1>2. Spares(proc[q].i)
  BY DEF Spares
<1> QED BY <1>1, <1>2, LoopHolds DEF Steady

\* An invocation that is in no run.
LEMMA AsideTracks ==
  ASSUME NEW q \in Proc, At(q)' \in {"idle", "abandon"}, proc'[q].keep = {}
  PROVE  TrackInv(q)'
<1>1. ~InRun(q)' /\ ~Forward(q)'
      /\ At(q)' \notin Failing \cup {"planned", "next", "reverify", "installer", "human", "drift", "driftSkip"} \cup Tasks
      /\ At(q)' \notin Rolling \cup {"cascadeJournal", "skip", "complete", "cleanup"}
  BY DEF Forward, Failing, Tasks
<1> HIDE DEF At, InRun
<1>2. PathInv(q)'
  BY <1>1 DEF PathInv
<1>3. \A a \in Act : HereInv(q, a)' /\ AroundInv(q, a)'
  BY <1>1 DEF HereInv, AroundInv
<1> QED BY <1>2, <1>3 DEF TrackInv

\* An invocation whose run is left to the plan's interrupt handler.
LEMMA HandedTracks ==
  ASSUME NEW q \in Proc, InRun(q), TrackInv(q), At(q)' = "intComplete", Carries(q), UNCHANGED <<cur, plan>>
  PROVE  TrackInv(q)'
<1>1. InRun(q)' /\ ~Forward(q)'
      /\ At(q)' \notin Failing \cup {"planned", "next", "reverify", "installer", "human", "drift", "driftSkip"} \cup Tasks
      /\ At(q)' \notin Rolling \cup {"cascadeJournal", "skip", "complete", "cleanup"}
  BY DEF Forward, Failing, Tasks
<1>2. proc[q].keep = {} /\ proc'[q].keep = proc[q].keep
  BY DEF TrackInv, PathInv, Carries
<1>3. \A a \in Act : /\ KindOf(a)' = KindOf(a) /\ (InDone(q, a)' <=> InDone(q, a)) /\ proc'[q].mem[a] = proc[q].mem[a]
                     /\ InDone(q, a) => KindOf(a) \in Invertible
                     /\ KindOf(a) \notin FileBacked => proc[q].mem[a] = "none"
  BY DEF KindOf, InDone, Carries, TrackInv, AroundInv
<1> HIDE DEF At, InRun
<1>4. PathInv(q)'
  BY <1>1, <1>2 DEF PathInv
<1>5. \A a \in Act : HereInv(q, a)' /\ AroundInv(q, a)'
  BY <1>1, <1>3 DEF HereInv, AroundInv
<1> QED BY <1>4, <1>5 DEF TrackInv

----------------------------------------------------------------------------
(* What the updates of an invocation leave of its registers. *)

\* The filesystem and the database refuse nothing, and nobody edits.
LEMMA NothingTroubles ==
  ASSUME TypeInv, Untroubled'
  PROVE  /\ ~Spend("fs") /\ ~Spend("db") /\ ~Spend("edit")
         /\ \A q \in Proc : Open(cur) /\ proc[q].run = cur => ~TransactionFails(q)
<1>1. spent \in [Mishap -> Nat] /\ {"fs", "db", "edit"} \subseteq Mishap
  BY DEF TypeInv, DurableOK, Mishap
<1>2. ASSUME NEW m \in {"fs", "db", "edit"}, Spend(m)
      PROVE  FALSE
  <2>1. spent' = [spent EXCEPT ![m] = @ + 1] /\ spent[m] \in Nat /\ m \in Mishap
    BY <1>1, <1>2 DEF Spend
  <2>2. spent'[m] = spent[m] + 1
    BY <1>1, <2>1
  <2> QED BY <2>1, <2>2 DEF Untroubled
<1> QED BY <1>2 DEF TransactionFails

\* The action, the stack and the flag stay as they are.
Remains(q) == Carries(q) /\ proc'[q].i = proc[q].i /\ proc'[q].fail = proc[q].fail /\ proc'[q].seen = proc[q].seen
\* The invocation may go on with nothing displaced and nothing of its own.
Clean(q) == proc'[q].keep = {} /\ \A a \in Act : KindOf(a) \notin FileBacked => proc'[q].mem[a] = "none"

\* Moving on within the action.
LEMMA GotoRemains ==
  ASSUME TypeInv, NEW q \in Proc, NEW l, Goto(q, l)
  PROVE  At(q)' = l /\ Remains(q) /\ proc'[q].own = proc[q].own
  BY GotoBooks DEF Moved, Booked, SameLoop, SameFlags, Carries, Remains

\* A failed action that holds no displaced record.
LEMMA FailRemains ==
  ASSUME TypeInv, NEW q \in Proc, NEW ps \in Process, Set(q, FailedAction(ps)), ps.own = "unset",
         ps.mem = proc[q].mem, ps.keep = proc[q].keep, ps.done = proc[q].done
  PROVE  At(q)' = "cascade" /\ Carries(q)
<1>1. proc'[q] = [ps EXCEPT !.fail = TRUE, !.pc = "cascade"]
  BY SetIs DEF FailedAction
<1> QED BY <1>1 DEF Process, Carries

\* A human or drift outcome, or the end of the inverses.
LEMMA StopRemains ==
  ASSUME TypeInv, NEW q \in Proc, NEW ps \in Process,
         \/ Set(q, Stopped([ps EXCEPT !.human = TRUE]))
         \/ Set(q, Stopped([ps EXCEPT !.drift = TRUE]))
         \/ Set(q, Stopped(ps)),
         ps.mem = proc[q].mem, ps.keep = proc[q].keep, ps.done = proc[q].done,
         ps.i = proc[q].i, ps.fail = proc[q].fail, ps.seen = proc[q].seen
  PROVE  At(q)' \in {"skip", "complete"} /\ Remains(q)
<1> DEFINE l == IF ps.mode = "run" THEN "skip" ELSE "complete"
<1>1. \/ proc'[q] = [[ps EXCEPT !.human = TRUE] EXCEPT !.pc = l]
      \/ proc'[q] = [[ps EXCEPT !.drift = TRUE] EXCEPT !.pc = l]
      \/ proc'[q] = [ps EXCEPT !.pc = l]
  BY DEF TypeInv, Set, Stopped, Process
<1>2. l \in {"skip", "complete"}
  OBVIOUS
<1> HIDE DEF l
<1> QED BY <1>1, <1>2 DEF Process, Remains, Carries

\* The loop goes on.
LEMMA VerifiedAdvances ==
  ASSUME TypeInv, NEW q \in Proc, NEW b \in BOOLEAN, NEW ps \in Process, Set(q, Verified(ps, b)),
         ps.mem = proc[q].mem, ps.keep = proc[q].keep, ps.done = proc[q].done,
         ps.i = proc[q].i, ~ps.fail,
         \A a \in Act : a = proc[q].i => St(a)' = "succeeded" /\ (b <=> KindOf(a) \in Invertible)
  PROVE  Advances(q) /\ proc'[q].mem = proc[q].mem /\ proc'[q].keep = proc[q].keep
<1> DEFINE prev == IF ps.own = "unset" THEN ps.inp[ps.i] ELSE ps.own
           x == [a |-> ps.i, att |-> ps.att, prev |-> prev]
           d == IF b THEN Append(ps.done, x) ELSE ps.done
<1>1. proc'[q] = Verified(ps, b)
  BY SetIs
<1>2. proc'[q] = [ps EXCEPT !.pc = "next", !.i = ps.i + 1, !.own = "unset", !.prep = FALSE, !.done = d]
  BY <1>1 DEF Verified, Process
<1>3. x.a = proc[q].i /\ (b => d = Append(proc[q].done, x)) /\ (~b => d = proc[q].done)
  OBVIOUS
<1> HIDE DEF x, d
<1>4. /\ proc'[q].pc = "next" /\ proc'[q].i = proc[q].i + 1 /\ proc'[q].fail = ps.fail /\ proc'[q].own = "unset"
      /\ proc'[q].done = d /\ proc'[q].mem = proc[q].mem /\ proc'[q].keep = proc[q].keep
  BY <1>2 DEF Process
<1> QED BY <1>3, <1>4 DEF Advances

\* What may be carried stays clean.
LEMMA CarriesClean ==
  ASSUME NEW q \in Proc, InRun(q), TrackInv(q), proc'[q].mem = proc[q].mem, proc'[q].keep = proc[q].keep
  PROVE  Clean(q)
  BY DEF TrackInv, PathInv, AroundInv, Clean

\* What a place within the loop asks of its action.
Lands(q, a) ==
  /\ St(a)' # "skipped"
  /\ St(a)' = "succeeded" => KindOf(a) \notin {"agent", "install"} \/ At(q)' \in {"installer", "reverify"}
  /\ At(q)' \in {"running", "execute"} /\ KindOf(a) \in FileBacked => Back(a)'
  /\ At(q)' = "verify" => Matches(KindOf(a), file'[a])
  /\ At(q)' = "reverify" => St(a)' = "succeeded" /\ (KindOf(a) \in FileBacked => proc'[q].seen[a].last.ref)
  /\ At(q)' \in {"prepare", "running", "execute", "verify", "succeed"} => KindOf(a) \notin {"human", "drift", "agent"}

LEMMA Tarrying ==
  ASSUME NEW q \in Proc, ~proc[q].fail, UNCHANGED <<cur, plan>>, Forward(q)', At(q)' \notin Failing \cup {"next"},
         proc'[q].i = proc[q].i, proc'[q].done = proc[q].done, proc'[q].fail = proc[q].fail,
         At(q)' \in {"reverify", "installer", "human", "drift", "driftSkip"} \cup Tasks => proc'[q].own = "unset",
         \A a \in Act : a = proc[q].i => Lands(q, a)
  PROVE  Tarries(q)
<1>1. \A a \in Act : KindOf(a)' = KindOf(a)
  BY DEF KindOf
<1>2. ASSUME NEW a \in Act, a = proc[q].i
      PROVE  HereInv(q, a)'
  <2>1. Lands(q, a) /\ KindOf(a)' = KindOf(a)
    BY <1>1, <1>2
  <2> HIDE DEF At, InRun
  <2> QED BY <2>1 DEF Lands, HereInv
<1> HIDE DEF At, InRun
<1> QED BY <1>2 DEF Tarries

\* The places within the loop.
Inside == {"restore", "reverify", "installer", "prepare", "running", "execute", "verify", "succeed",
           "human", "drift", "driftSkip", "intUndo", "intUnlink", "intFail"} \cup Tasks

\* The step leaves the other actions alone, and keeps what the journal says of
\* its own.
Touches(q) ==
  /\ UNCHANGED <<cur, status, plan, base, edited>> /\ Spares(proc[q].i)
  /\ \A a \in Act : a = proc[q].i => Stands(a)' /\ (Firm(a) => Firm(a)')

\* A step that touches nothing.
LEMMA NothingTouched ==
  ASSUME TypeInv, NEW q \in Proc, RInv(q), StayInv, TrackInv(q), Forward(q),
         UNCHANGED <<cur, status, plan, journal, applied, file, snap, base, edited>>
  PROVE  Touches(q)
<1>1. \A a \in Act : Stands(a)
  BY ForwardKnows
<1>2. ASSUME NEW a \in Act
      PROVE  Stands(a)' /\ (Firm(a) => Firm(a)')
  <2>1. KindOf(a)' = KindOf(a) /\ (Back(a)' <=> Back(a)) /\ (Wanted(a)' <=> Wanted(a)) /\ St(a)' = St(a)
    BY DEF KindOf, Back, Wanted, St
  <2> QED BY <1>1, <2>1 DEF Stands, Firm
<1> QED BY <1>2 DEF Touches, Spares

\* The step moves on within the action,
LEMMA RemainsThere ==
  ASSUME TypeInv, NEW q \in Proc, RInv(q), StayInv, TrackInv(q), Forward(q), Touches(q),
         NEW l \in Inside, At(q)' = l, Remains(q),
         l \in {"reverify", "installer", "human", "drift", "driftSkip"} \cup Tasks => proc'[q].own = "unset",
         \A a \in Act : a = proc[q].i => Lands(q, a)
  PROVE  Steady(q)
<1>1. At(q)' = l /\ Remains(q)
  OBVIOUS
<1>2. InRun(q) /\ ~proc[q].fail
  BY ForwardKnows
<1>3. Clean(q)
  BY <1>1, <1>2, CarriesClean DEF Remains, Carries
<1>4. Forward(q)' /\ At(q)' \notin Failing \cup {"next"}
  <2>1. l \notin Aside \cup Behind \cup Rolling /\ l \notin Failing \cup {"next"}
    BY DEF Inside, Failing, Tasks
  <2>2. Forward(q)' <=> l \notin Aside \cup Behind \cup Rolling
    BY <1>1 DEF Forward
  <2> QED BY <1>1, <2>1, <2>2
<1>5. Tarries(q)
  BY <1>1, <1>2, <1>4, Tarrying DEF Remains, Carries, Touches
<1> QED BY <1>3, <1>5, StepHolds DEF Clean, Touches

LEMMA GoesThere ==
  ASSUME TypeInv, NEW q \in Proc, RInv(q), StayInv, TrackInv(q), Forward(q), Touches(q),
         NEW l \in Inside, Goto(q, l),
         l \in {"reverify", "installer", "human", "drift", "driftSkip"} \cup Tasks => proc[q].own = "unset",
         \A a \in Act : a = proc[q].i => Lands(q, a)
  PROVE  Steady(q)
<1>1. At(q)' = l /\ Remains(q) /\ proc'[q].own = proc[q].own
  BY GotoRemains
<1> HIDE DEF At, InRun
<1> QED BY <1>1, RemainsThere

\* stops the loop with a human or drift outcome,
LEMMA StopsThere ==
  ASSUME TypeInv, NEW q \in Proc, RInv(q), StayInv, TrackInv(q), Forward(q), Touches(q),
         NEW ps \in Process,
         \/ Set(q, Stopped([ps EXCEPT !.human = TRUE]))
         \/ Set(q, Stopped([ps EXCEPT !.drift = TRUE])),
         ps.mem = proc[q].mem, ps.keep = proc[q].keep, ps.done = proc[q].done,
         ps.i = proc[q].i, ps.fail = proc[q].fail, ps.seen = proc[q].seen,
         \A a \in Act : a = proc[q].i => ~Firm(a)' /\ KindOf(a) \notin FileBacked
  PROVE  Steady(q)
<1>1. At(q)' \in {"skip", "complete"} /\ Remains(q)
  BY StopRemains
<1>2. InRun(q) /\ ~proc[q].fail
  BY ForwardKnows
<1>3. Clean(q)
  BY <1>1, <1>2, CarriesClean DEF Remains, Carries
<1>4. \A a \in Act : KindOf(a) \notin FileBacked => Whole(a)'
  BY DEF Touches, Whole, KindOf
<1>5. Ceases(q)
  BY <1>1, <1>2, <1>4 DEF Ceases, Remains, Carries
<1> QED BY <1>3, <1>5, StepHolds DEF Clean, Touches

\* passes the action,
LEMMA PassesThere ==
  ASSUME TypeInv, NEW q \in Proc, RInv(q), StayInv, TrackInv(q), Forward(q), Touches(q),
         NEW b \in BOOLEAN, NEW ps \in Process, Set(q, Verified(ps, b)),
         ps.mem = proc[q].mem, ps.keep = proc[q].keep, ps.done = proc[q].done,
         ps.i = proc[q].i, ps.fail = proc[q].fail,
         \A a \in Act : a = proc[q].i => St(a)' = "succeeded" /\ (b <=> KindOf(a) \in Invertible)
  PROVE  Steady(q)
<1>1. InRun(q) /\ ~proc[q].fail
  BY ForwardKnows
<1>2. Advances(q) /\ proc'[q].mem = proc[q].mem /\ proc'[q].keep = proc[q].keep
  BY <1>1, VerifiedAdvances
<1>3. Clean(q)
  BY <1>1, <1>2, CarriesClean
<1> QED BY <1>2, <1>3, StepHolds DEF Clean, Touches

\* or fails it.
LEMMA FailsThere ==
  ASSUME TypeInv, NEW q \in Proc, RInv(q), StayInv, TrackInv(q), Forward(q), Touches(q),
         NEW ps \in Process, Set(q, FailedAction(ps)), ps.own = "unset",
         ps.mem = proc[q].mem, ps.keep = proc[q].keep, ps.done = proc[q].done,
         \A a \in Act : a = proc[q].i => ~Firm(a)' /\ (KindOf(a) \in Invertible => Back(a)')
  PROVE  Steady(q)
<1>1. InRun(q) /\ ~proc[q].fail
  BY ForwardKnows
<1>2. At(q)' = "cascade" /\ Carries(q)
  BY FailRemains
<1>3. Clean(q)
  BY <1>1, <1>2, CarriesClean DEF Carries
<1>4. Drops(q)
  BY <1>2 DEF Drops, Carries
<1> QED BY <1>3, <1>4, StepHolds DEF Clean, Touches

\* An invocation that ends without touching anything.
LEMMA EndsThere ==
  ASSUME StayInv, NEW q \in Proc, proc'[q] = Idle,
         UNCHANGED <<cur, status, plan, journal, applied, file, snap, base, edited, kept>>
  PROVE  Steady(q)
<1>1. At(q)' \in {"idle", "abandon"} /\ proc'[q].keep = {}
  BY DEF Idle
<1> QED BY <1>1, StaysPut, AsideTracks DEF Steady

----------------------------------------------------------------------------
(* The steps of the loop. *)

\* An event about the current action.
LEMMA Journaled ==
  ASSUME TypeInv, NEW q \in Proc, RInv(q), StayInv, TrackInv(q), Forward(q), NEW e \in Event, NEW rec \in Record,
         JournalAction(q, proc[q].i, e, rec), UNCHANGED <<fs, history>>,
         \A a \in Act : a = proc[q].i =>
           /\ e.st = "succeeded" =>
                /\ KindOf(a) \in Owning => rec = "new"
                /\ KindOf(a) = "remove" => rec = "none"
                /\ KindOf(a) \notin {"human", "drift"}
                /\ KindOf(a) \in {"agent", "install"} => file[a] = "new"
           /\ e.st = "skipped" => KindOf(a) \notin Invertible
           /\ Firm(a) => e.st # "skipped" /\ (KindOf(a) \in {"agent", "install"} => e.st = "succeeded")
  PROVE  Touches(q) /\ \A a \in Act : a = proc[q].i => St(a)' = e.st
<1> DEFINE i == proc[q].i
<1>1. UNCHANGED <<cur, status, plan, file, snap, base, edited>>
      /\ journal' = [journal EXCEPT ![i] = Append(journal[i], e)] /\ applied' = [applied EXCEPT ![i] = rec]
  BY DEF JournalAction, fs, history
<1>2. journal \in [Act -> Seq(Event)] /\ applied \in [Act -> Record]
  BY DEF TypeInv, DurableOK
<1>3. \A b \in Act \ {i} : journal'[b] = journal[b] /\ applied'[b] = applied[b]
  <2> HIDE DEF i
  <2> QED BY <1>1, <1>2
<1>4. ASSUME NEW a \in Act, a = i
      PROVE  St(a)' = e.st /\ applied'[a] = rec
  <2>1. journal[a] \in Seq(Event) /\ journal'[a] = Append(journal[a], e) /\ applied'[a] = rec
    BY <1>1, <1>2, <1>4
  <2>2. Last(journal'[a]) = e
    <3> DEFINE s == journal[a]
               t == journal'[a]
    <3>1. s \in Seq(Event) /\ t = Append(s, e)
      BY <2>1
    <3> HIDE DEF s, t
    <3>2. Len(t) = Len(s) + 1 /\ t[Len(t)] = e
      BY <3>1, Appended
    <3> QED BY <3>2 DEF Last, t
  <2> QED BY <2>1, <2>2 DEF St
<1>5. ASSUME NEW a \in Act, a = i
      PROVE  Stands(a)' /\ (Firm(a) => Firm(a)')
  <2>1. Stands(a)
    BY ForwardKnows
  <2>2. KindOf(a)' = KindOf(a) /\ (Back(a)' <=> Back(a)) /\ file'[a] = file[a] /\ snap'[cur'][a] = snap[cur][a]
        /\ base'.file[a] = base.file[a]
    BY <1>1 DEF KindOf, Back
  <2>3. e.st = "succeeded" => Wanted(a)'
    BY <1>4, <1>5, <2>2 DEF Wanted
  <2>4. Firm(a) => Firm(a)'
    BY <1>4, <1>5, <2>2 DEF Firm
  <2>5. Stands(a)'
    <3> HIDE DEF i
    <3>1. e.st = "skipped" => KindOf(a) \notin Invertible
      BY <1>5 DEF i
    <3>2. e.st = "succeeded" => /\ KindOf(a) \notin {"human", "drift"}
                                /\ KindOf(a) \in {"agent", "install"} => file[a] = "new"
      BY <1>5 DEF i
    <3> QED BY <1>4, <1>5, <2>1, <2>2, <2>3, <3>1, <3>2 DEF Stands
  <2> QED BY <2>4, <2>5
<1>6. Spares(proc[q].i)
  BY <1>1, <1>3 DEF Spares
<1> QED BY <1>1, <1>4, <1>5, <1>6 DEF Touches

\* The same when ownership is kept.
LEMMA Noted ==
  ASSUME TypeInv, NEW q \in Proc, RInv(q), StayInv, TrackInv(q), Forward(q), At(q) # "next",
         NEW st \in EventState, NEW ref \in BOOLEAN, NEW m \in Method,
         Note(q, st, ref, m), UNCHANGED <<fs, history>>,
         \A a \in Act : a = proc[q].i =>
           /\ st = "succeeded" => KindOf(a) \in {"agent", "install"} /\ file[a] = "new"
           /\ st = "skipped" => KindOf(a) \notin Invertible
           /\ Firm(a) => st # "skipped" /\ (KindOf(a) \in {"agent", "install"} => st = "succeeded")
  PROVE  Touches(q) /\ \A a \in Act : a = proc[q].i => St(a)' = st
<1> DEFINE e == Ev(st, proc[q].att, ref, "none", m)
<1>1. Busy(proc[q])
  BY AtWork DEF Forward
<1>2. e \in Event /\ e.st = st /\ applied[proc[q].i] \in Record
  <2>1. proc[q].att \in Nat /\ proc[q].i \in Act /\ "none" \in Record
    BY <1>1, Registers DEF Busy, Record
  <2> QED BY <2>1, EvType DEF Ev, TypeInv, DurableOK
<1>3. JournalAction(q, proc[q].i, e, applied[proc[q].i])
  BY DEF Note
<1>4. \A a \in Act : KindOf(a) \in {"agent", "install"} => KindOf(a) \notin Owning \cup {"remove", "human", "drift"}
  BY DEF Owning
<1> HIDE DEF e
<1> QED BY <1>2, <1>3, <1>4, Journaled

\* The loop is through with the plan.
LEMMA ThroughSteady ==
  ASSUME TypeInv, NEW q \in Proc, RInv(q), StayInv, TrackInv(q), At(q) = "next", proc[q].i > N,
         Goto(q, "complete"), UNCHANGED <<db, fs, history>>
  PROVE  Steady(q)
<1>1. UNCHANGED <<cur, status, plan, journal, applied, file, snap, base, edited, kept>> /\ Forward(q)
  BY DEF db, fs, history, Forward
<1>2. At(q)' = "complete" /\ Remains(q)
  BY GotoRemains
<1>3. InRun(q) /\ ~proc[q].fail
  BY <1>1, ForwardKnows
<1>4. Clean(q)
  BY <1>2, <1>3, CarriesClean DEF Remains, Carries
<1>5. \A a \in Act : a # proc[q].i
  BY Registers, ConstantsAssumption DEF Act
<1>6. Ceases(q)
  BY <1>2, <1>3, <1>5 DEF Ceases, Remains, Carries
<1> QED BY <1>1, <1>4, <1>6, MoveHolds DEF Clean

\* The place the loop enters an action at.
LEMMA EntersThere ==
  ASSUME TypeInv, NEW q \in Proc, RInv(q), StayInv, TrackInv(q), Forward(q), Touches(q), Goto(q, Entry(K(q))),
         proc[q].own = "unset" \/ K(q) \notin {"human", "drift", "agent"},
         \A a \in Act : a = proc[q].i => St(a)' # "skipped" /\ (St(a)' = "succeeded" => KindOf(a) \notin {"agent", "install"})
  PROVE  Steady(q)
<1>1. /\ Entry(K(q)) \in {"human", "drift", "agent", "prepare"}
      /\ Entry(K(q)) = "prepare" => K(q) \notin {"human", "drift", "agent"}
      /\ K(q) \notin {"human", "drift", "agent"} => Entry(K(q)) = "prepare"
  BY DEF Entry
<1>2. Entry(K(q)) \in Inside
  BY <1>1 DEF Inside, Tasks
<1>3. At(q)' = Entry(K(q))
  BY GotoRemains
<1>4. \A a \in Act : a = proc[q].i => K(q) = KindOf(a)
  BY ForwardKnows
<1>5. \A a \in Act : a = proc[q].i => Lands(q, a)
  BY <1>1, <1>3, <1>4 DEF Lands
<1>6. Entry(K(q)) \in {"reverify", "installer", "human", "drift", "driftSkip"} \cup Tasks => proc[q].own = "unset"
  BY <1>1 DEF Tasks
<1> HIDE DEF At, InRun
<1> QED BY <1>2, <1>5, <1>6, GoesThere

LEMMA RunNextSteady ==
  ASSUME TypeInv, NEW q \in Proc, RInv(q), StayInv, TrackInv(q), RunNext(q)
  PROVE  Steady(q)
<1>1. /\ At(q) = "next" /\ proc[q].mode = "run" /\ Forward(q)
      /\ UNCHANGED <<db, fs, history, cur, status, plan, journal, applied, file, snap, base, edited, kept>>
  BY DEF RunNext, db, fs, history, Forward
<1>2. CASE proc[q].i <= N
  <2>1. Goto(q, Entry(K(q)))
    BY <1>2 DEF RunNext
  <2>2. Touches(q) /\ proc[q].own = "unset"
    BY <1>1, NothingTouched DEF TrackInv, PathInv
  <2>3. ASSUME NEW a \in Act, a = proc[q].i
        PROVE  St(a)' = "pending"
    <3>1. journal'[a] = <<PendingEvent>>
      BY <1>1, <2>3, NextFinds
    <3>2. Last(journal'[a]) = PendingEvent
      BY <3>1 DEF Last
    <3> QED BY <3>2 DEF St, PendingEvent, Ev
  <2> HIDE DEF At, InRun
  <2> QED BY <1>1, <2>1, <2>2, <2>3, EntersThere
<1>3. CASE ~(proc[q].i <= N)
  <2>1. proc[q].i > N
    BY <1>3, Registers, ConstantsAssumption
  <2> QED BY <1>1, <1>3, <2>1, ThroughSteady DEF RunNext
<1> QED BY <1>2, <1>3

LEMMA RecoverLoopEndSteady ==
  ASSUME TypeInv, NEW q \in Proc, RInv(q), StayInv, TrackInv(q), RecoverLoopEnd(q)
  PROVE  Steady(q)
  BY ThroughSteady DEF RecoverLoopEnd

\* What is known within the loop of the action it works on.
LEMMA InsideKnows ==
  ASSUME TypeInv, NEW q \in Proc, RInv(q), StayInv, TrackInv(q), Forward(q), At(q) # "next",
         NEW a \in Act, a = proc[q].i
  PROVE  /\ K(q) = KindOf(a) /\ Stands(a) /\ St(a) # "skipped"
         /\ St(a) = "succeeded" => KindOf(a) \notin {"agent", "install"} \/ At(q) \in {"installer", "reverify"}
         /\ KindOf(a) \in FileBacked => Backed(a)
         /\ KindOf(a) \in {"agent", "install"} /\ At(q) \notin {"installer", "reverify"} => ~Firm(a)
         /\ At(q) \in {"prepare", "running", "execute", "verify", "succeed"} => KindOf(a) \notin {"human", "drift", "agent"}
         /\ edited = {}
<1>1. HereInv(q, a) /\ K(q) = KindOf(a) /\ Stands(a) /\ edited = {} /\ Open(cur)
  BY ForwardKnows
<1>2. At(q) \in {"prepare", "running", "execute", "verify", "succeed"} => KindOf(a) \notin {"human", "drift", "agent"}
  BY <1>1 DEF HereInv
<1>3. St(a) # "skipped"
      /\ (St(a) = "succeeded" => KindOf(a) \notin {"agent", "install"} \/ At(q) \in {"installer", "reverify"})
  BY <1>1 DEF HereInv
<1> HIDE DEF At
<1> QED BY <1>1, <1>2, <1>3 DEF Backed, Firm

LEMMA PrepareSteady ==
  ASSUME TypeInv, NEW q \in Proc, RInv(q), StayInv, TrackInv(q), Prepare(q)
  PROVE  Steady(q)
<1> DEFINE i == proc[q].i
           backed == K(q) \in FileBacked
<1>1. At(q) = "prepare" /\ Forward(q) /\ At(q) # "next"
      /\ UNCHANGED <<cur, status, plan, journal, applied, file, base, edited>>
  BY DEF Prepare, Forward, db, history
<1>2. /\ Open(cur) /\ InRun(q) /\ proc[q].run = cur /\ cur \in Run /\ ~proc[q].fail /\ proc[q].keep = {}
      /\ edited = {}
  BY <1>1, ForwardKnows
<1>3. i \in Act
  BY <1>1, AtWork DEF Busy
<1>4. /\ At(q)' = "running" /\ proc'[q].fail = proc[q].fail /\ proc'[q].i = i /\ proc'[q].done = proc[q].done
      /\ proc'[q].keep = proc[q].keep
      /\ proc'[q].mem = [proc[q].mem EXCEPT ![i] = IF backed THEN file[i] ELSE "none"]
  <2>1. proc[q] \in Process
    BY Registers
  <2>2. proc'[q] = [proc[q] EXCEPT !.pc = "running", !.prep = K(q) \in FileBacked,
                            !.mem[proc[q].i] = IF K(q) \in FileBacked THEN file[proc[q].i] ELSE "none"]
    BY SetIs DEF Prepare
  <2> QED BY <2>1, <2>2 DEF Process
<1>5. /\ \A a \in Act \ {i} : snap'[cur][a] = snap[cur][a]
      /\ ~backed => snap' = snap
  <2>1. snap' = IF backed THEN [snap EXCEPT ![cur][i] = file[i]] ELSE snap
    BY <1>2 DEF Prepare
  <2>2. snap \in [Run -> [Act -> Content \cup {"none"}]]
    BY DEF TypeInv, DurableOK
  <2> HIDE DEF i, backed
  <2> QED BY <1>2, <1>3, <2>1, <2>2
<1>6. ASSUME NEW a \in Act, a = i
      PROVE  Stands(a)' /\ (Firm(a) => Firm(a)') /\ Lands(q, a)
  <2>1. /\ K(q) = KindOf(a) /\ Stands(a) /\ St(a) # "skipped" /\ KindOf(a) \notin {"human", "drift", "agent"}
        /\ St(a) = "succeeded" => KindOf(a) \notin {"agent", "install"}
        /\ KindOf(a) \in FileBacked => Backed(a)
    BY <1>1, <1>6, InsideKnows
  <2>2. KindOf(a)' = KindOf(a) /\ (Back(a)' <=> Back(a)) /\ (Wanted(a)' <=> Wanted(a)) /\ St(a)' = St(a)
    BY <1>1 DEF KindOf, Back, Wanted, St
  <2>3. Stands(a)'
    BY <1>1, <1>5, <2>1, <2>2 DEF Stands
  <2>4. KindOf(a) \in FileBacked => Back(a)'
    <3>1. Backed(a) => file[a] = base.file[a]
      BY <1>1, <1>2, <1>6, Backing DEF Behind
    <3> QED BY <2>1, <2>2, <3>1 DEF Back
  <2>5. Lands(q, a)
    BY <1>4, <2>1, <2>2, <2>4 DEF Lands
  <2> QED BY <2>2, <2>3, <2>5 DEF Firm
<1>7. Spares(i)
  BY <1>1, <1>5 DEF Spares
<1>8. Tarries(q)
  <2>1. Forward(q)' /\ At(q)' \notin Failing \cup {"next"}
        /\ At(q)' \notin {"reverify", "installer", "human", "drift", "driftSkip"} \cup Tasks
    BY <1>4 DEF Forward, Failing, Tasks
  <2> HIDE DEF At, InRun
  <2> QED BY <1>1, <1>2, <1>4, <1>6, <2>1, Tarrying
<1>9. ASSUME NEW a \in Act, KindOf(a) \notin FileBacked
      PROVE  proc'[q].mem[a] = "none"
  <2>1. proc[q].mem[a] = "none" /\ proc[q].mem \in [Act -> Content \cup {"none"}]
    BY <1>2, <1>9, Registers DEF TrackInv, AroundInv, Process
  <2>2. a = i => ~backed
    BY <1>1, <1>9, InsideKnows
  <2> HIDE DEF i, backed
  <2> QED BY <1>3, <1>4, <2>1, <2>2
<1> HIDE DEF At, InRun
<1> QED BY <1>1, <1>2, <1>4, <1>6, <1>7, <1>8, <1>9, StepHolds

LEMMA JournalRunningSteady ==
  ASSUME TypeInv, NEW q \in Proc, RInv(q), StayInv, TrackInv(q), Untroubled', JournalRunning(q)
  PROVE  Steady(q)
<1>1. At(q) = "running" /\ Forward(q) /\ At(q) # "next" /\ UNCHANGED <<fs, history>>
  BY DEF JournalRunning, Forward
<1>2. Open(cur) /\ proc[q].run = cur /\ InRun(q)
  BY <1>1, ForwardKnows
<1>3. Note(q, "running", proc[q].prep, "none") /\ Goto(q, "execute")
  BY <1>2, NothingTroubles DEF JournalRunning
<1>4. \A a \in Act : a = proc[q].i => ~Firm(a) \/ KindOf(a) \notin {"agent", "install"}
  BY <1>1, InsideKnows
<1>5. Touches(q) /\ \A a \in Act : a = proc[q].i => St(a)' = "running"
  <2>1. proc[q].prep \in BOOLEAN /\ "running" \in EventState /\ "none" \in Method
    BY Registers DEF EventState, Method
  <2> HIDE DEF At, InRun
  <2> QED BY <1>1, <1>3, <1>4, <2>1, Noted
<1>6. At(q)' = "execute" /\ "execute" \in Inside
      /\ "execute" \notin {"reverify", "installer", "human", "drift", "driftSkip"} \cup Tasks
  BY <1>3, GotoRemains DEF Inside, Tasks
<1>7. ASSUME NEW a \in Act, a = proc[q].i
      PROVE  Lands(q, a)
  <2>1. HereInv(q, a) /\ KindOf(a) \notin {"human", "drift", "agent"}
    BY <1>1, <1>7, ForwardKnows, InsideKnows
  <2>2. KindOf(a) \in FileBacked => Back(a)
    BY <1>1, <1>7, <2>1 DEF HereInv
  <2>3. Back(a)' <=> Back(a)
    BY <1>1 DEF fs, history, Back
  <2> QED BY <1>5, <1>6, <1>7, <2>1, <2>2, <2>3 DEF Lands
<1> HIDE DEF At, InRun
<1> QED BY <1>1, <1>3, <1>5, <1>6, <1>7, GoesThere

\* A step that only writes the target of the action.
LEMMA Wrote ==
  ASSUME TypeInv, NEW q \in Proc, RInv(q), StayInv, TrackInv(q), Forward(q),
         UNCHANGED <<cur, status, plan, journal, applied, snap, base, edited>>,
         NEW c, file' = [file EXCEPT ![proc[q].i] = c],
         \A a \in Act : a = proc[q].i =>
           /\ St(a) = "succeeded" => KindOf(a) \notin {"agent", "install"}
           /\ St(a) = "skipped" => KindOf(a) \notin Invertible
           /\ KindOf(a) = "verify" => c = file[a]
           /\ KindOf(a) = "append" => c \in {base.file[a], Desired("append", base.file[a])}
  PROVE  Touches(q) /\ \A a \in Act : a = proc[q].i => file'[a] = c /\ St(a)' = St(a)
<1>1. /\ \A b \in Act \ {proc[q].i} : file'[b] = file[b]
      /\ \A a \in Act : a = proc[q].i => file'[a] = c
  BY DEF TypeInv, DurableOK
<1>2. \A a \in Act : KindOf(a)' = KindOf(a) /\ (Wanted(a)' <=> Wanted(a)) /\ St(a)' = St(a)
  BY DEF KindOf, Wanted, St
<1>3. ASSUME NEW a \in Act, a = proc[q].i
      PROVE  Stands(a)' /\ (Firm(a) => Firm(a)')
  <2>1. Stands(a)
    BY ForwardKnows
  <2>2. file'[a] = c
    BY <1>1, <1>3
  <2>3. KindOf(a) = "verify" => Back(a)' /\ file'[a] = "new"
    BY <1>3, <2>1, <2>2 DEF Stands, Back
  <2> QED BY <1>2, <1>3, <2>1, <2>2, <2>3 DEF Stands, Firm
<1>4. Spares(proc[q].i)
  BY <1>1 DEF Spares
<1> QED BY <1>1, <1>2, <1>3, <1>4 DEF Touches

\* What the mutation writes.
LEMMA WrittenIs ==
  ASSUME TypeInv, NEW q \in Proc, RInv(q), StayInv, TrackInv(q), At(q) = "execute", NEW a \in Act, a = proc[q].i
  PROVE  /\ ~Stale(q)
         /\ KindOf(a) = "verify" => Written(q) = file[a]
         /\ KindOf(a) = "append" => file[a] = base.file[a] /\ Written(q) = Desired("append", base.file[a])
         /\ KindOf(a) \notin {"transfer", "remove"} => Matches(KindOf(a), Written(q))
<1>1. Forward(q) /\ At(q) # "next" /\ At(q) \notin Behind
  BY DEF Forward
<1>2. /\ K(q) = KindOf(a) /\ (KindOf(a) \in FileBacked => Backed(a)) /\ edited = {} /\ Stands(a)
      /\ KindOf(a) \notin {"human", "drift", "agent"}
  BY <1>1, InsideKnows
<1>3. HereInv(q, a) /\ InRun(q) /\ proc[q].run = cur
  BY <1>1, ForwardKnows
<1>4. KindOf(a) \in FileBacked => file[a] = base.file[a] /\ snap[cur][a] = base.file[a]
  <2>1. KindOf(a) \in FileBacked => Back(a)
    BY <1>1, <1>3 DEF HereInv
  <2>2. KindOf(a) \in FileBacked => snap[cur][a] = base.file[a]
    BY <1>1, <1>2, <1>3, Backing
  <2> QED BY <1>2, <2>1, <2>2 DEF Back
<1>5. ~Stale(q)
  BY <1>2, <1>3, <1>4 DEF Stale, FileBacked
<1>6. KindOf(a) = "verify" => file[a] = "new"
  BY <1>2 DEF Stands
<1> QED BY <1>2, <1>4, <1>5, <1>6 DEF Written, Desired, Matches, FileBacked

LEMMA ExecuteSteady ==
  ASSUME TypeInv, NEW q \in Proc, RInv(q), StayInv, TrackInv(q), Untroubled', Execute(q) \/ ExecuteFails(q)
  PROVE  Steady(q)
<1>1. /\ At(q) = "execute" /\ Forward(q) /\ At(q) # "next"
      /\ UNCHANGED <<cur, status, plan, journal, applied, snap, base, edited>>
  BY DEF Execute, ExecuteFails, Forward, db, history
<1>2. Execute(q)
  BY NothingTroubles DEF ExecuteFails
<1>3. proc[q].i \in Act
  BY <1>1, AtWork DEF Busy
<1>4. file' = [file EXCEPT ![proc[q].i] = Written(q)]
  BY <1>2 DEF Execute
<1>5. \A a \in Act : a = proc[q].i =>
        /\ K(q) = KindOf(a) /\ St(a) # "skipped" /\ (St(a) = "succeeded" => KindOf(a) \notin {"agent", "install"})
        /\ KindOf(a) \notin {"human", "drift", "agent"}
  BY <1>1, InsideKnows
<1>6. /\ ~Stale(q)
      /\ \A a \in Act : a = proc[q].i =>
           /\ KindOf(a) = "verify" => Written(q) = file[a]
           /\ KindOf(a) = "append" => Written(q) \in {base.file[a], Desired("append", base.file[a])}
           /\ KindOf(a) \notin {"transfer", "remove"} => Matches(KindOf(a), Written(q))
  BY <1>1, <1>3, WrittenIs
<1>7. Touches(q) /\ \A a \in Act : a = proc[q].i => file'[a] = Written(q) /\ St(a)' = St(a)
  <2> HIDE DEF At, InRun
  <2> QED BY <1>1, <1>4, <1>5, <1>6, Wrote
<1>8. PICK l \in {"succeed", "verify"} : Goto(q, l) /\ (l = "verify" => K(q) \notin {"transfer", "remove"})
  BY <1>2, <1>6 DEF Execute
<1>9. At(q)' = l /\ l \in Inside /\ l \notin {"reverify", "installer", "human", "drift", "driftSkip"} \cup Tasks
  BY <1>8, GotoRemains DEF Inside, Tasks
<1>10. \A a \in Act : a = proc[q].i => Lands(q, a)
  BY <1>5, <1>6, <1>7, <1>8, <1>9 DEF Lands
<1> HIDE DEF At, InRun
<1> QED BY <1>1, <1>7, <1>8, <1>9, <1>10, GoesThere

LEMMA VerifySteady ==
  ASSUME TypeInv, NEW q \in Proc, RInv(q), StayInv, TrackInv(q), Verify(q)
  PROVE  Steady(q)
<1>1. /\ At(q) = "verify" /\ Forward(q) /\ At(q) # "next"
      /\ UNCHANGED <<cur, status, plan, journal, applied, file, snap, base, edited>>
  BY DEF Verify, Forward, db, fs, history
<1>2. proc[q].i \in Act
  BY <1>1, AtWork DEF Busy
<1>3. \A a \in Act : a = proc[q].i =>
        /\ K(q) = KindOf(a) /\ St(a) # "skipped" /\ (St(a) = "succeeded" => KindOf(a) \notin {"agent", "install"})
        /\ KindOf(a) \notin {"human", "drift", "agent"}
  BY <1>1, InsideKnows
<1>4. Matches(K(q), file[proc[q].i])
  <2>1. \A a \in Act : a = proc[q].i => HereInv(q, a)
    BY <1>1, ForwardKnows
  <2> QED BY <1>1, <1>2, <1>3, <2>1 DEF HereInv
<1>5. Goto(q, "succeed")
  BY <1>4 DEF Verify, Verification
<1>6. At(q)' = "succeed" /\ "succeed" \in Inside
      /\ "succeed" \notin {"reverify", "installer", "human", "drift", "driftSkip"} \cup Tasks
  BY <1>5, GotoRemains DEF Inside, Tasks
<1>7. Touches(q)
  BY <1>1, NothingTouched
<1>8. \A a \in Act : a = proc[q].i => Lands(q, a)
  <2>1. \A a \in Act : St(a)' = St(a)
    BY <1>1 DEF St
  <2> QED BY <1>3, <1>6, <2>1 DEF Lands
<1> HIDE DEF At, InRun
<1> QED BY <1>1, <1>5, <1>6, <1>7, <1>8, GoesThere

LEMMA JournalSucceededSteady ==
  ASSUME TypeInv, NEW q \in Proc, RInv(q), StayInv, TrackInv(q), Untroubled', JournalSucceeded(q)
  PROVE  Steady(q)
<1> DEFINE i == proc[q].i
           prev == IF K(q) \in Invertible THEN proc[q].inp[i] ELSE "none"
           rec == CASE K(q) = "remove" -> "none" [] K(q) \in Owning -> "new" [] OTHER -> applied[i]
           e == Ev("succeeded", proc[q].att, proc[q].prep, prev, "passed")
<1>1. At(q) = "succeed" /\ Forward(q) /\ At(q) # "next"
  BY DEF JournalSucceeded, Forward
<1>2. Open(cur) /\ proc[q].run = cur /\ InRun(q) /\ ~proc[q].fail
  BY <1>1, ForwardKnows
<1>3. JournalAction(q, i, e, rec) /\ Set(q, Verified(proc[q], K(q) \in Invertible)) /\ UNCHANGED <<fs, history>>
  BY <1>2, NothingTroubles DEF JournalSucceeded
<1>4. i \in Act /\ proc[q] \in Process /\ proc[q].att \in Nat
  BY <1>1, AtWork, Registers DEF Busy
<1>5. e \in Event /\ e.st = "succeeded" /\ rec \in Record
  <2>1. prev \in Record /\ rec \in Record
    BY <1>4 DEF TypeInv, DurableOK, Process, Record
  <2>2. proc[q].prep \in BOOLEAN /\ "succeeded" \in EventState /\ "passed" \in Method
    BY Registers DEF EventState, Method
  <2> HIDE DEF prev, rec
  <2> QED BY <1>4, <2>1, <2>2, EvType DEF Ev
<1>6. \A a \in Act : a = i =>
        /\ KindOf(a) \in Owning => rec = "new"
        /\ KindOf(a) = "remove" => rec = "none"
        /\ KindOf(a) \notin {"human", "drift"}
        /\ KindOf(a) \in {"agent", "install"} => file[a] = "new"
        /\ ~Firm(a) \/ KindOf(a) \notin {"agent", "install"}
        /\ K(q) = KindOf(a)
  <2>1. ASSUME NEW a \in Act, a = i
        PROVE  KindOf(a) \in {"agent", "install"} => file[a] = "new"
    <3>1. Holds(a) /\ edited = {}
      BY <1>1, <2>1, InsideKnows DEF RInv, ActionInv, HoldsInv
    <3> QED BY <3>1 DEF Holds, Matches
  <2>2. \A a \in Act : a = i => K(q) = KindOf(a) /\ KindOf(a) \notin {"human", "drift"}
          /\ (~Firm(a) \/ KindOf(a) \notin {"agent", "install"})
    BY <1>1, InsideKnows
  <2> QED BY <2>1, <2>2 DEF Owning
<1>7. Touches(q) /\ \A a \in Act : a = i => St(a)' = "succeeded"
  <2> HIDE DEF At, InRun, e, rec
  <2> QED BY <1>1, <1>3, <1>5, <1>6, Journaled
<1>8. (K(q) \in Invertible) \in BOOLEAN
  OBVIOUS
<1> HIDE DEF At, InRun, e, rec, prev
<1> QED BY <1>1, <1>2, <1>3, <1>4, <1>6, <1>7, <1>8, PassesThere

\* The steps of an error handler are out of reach.
LEMMA NothingFails ==
  ASSUME TypeInv, NEW q \in Proc, TrackInv(q), Untroubled'
  PROVE  /\ ~PrepareFails(q) /\ ~UndoVerify(q) /\ ~JournalFailVerify(q) /\ ~Undo(q) /\ ~JournalFail(q) /\ ~OwnBack(q)
<1>1. At(q) \notin Failing
  BY DEF TrackInv, PathInv
<1> QED BY <1>1, NothingTroubles DEF Failing, PrepareFails, UndoVerify, JournalFailVerify, Undo, JournalFail, OwnBack

\* An outcome that is journaled as skipped, or as well as it can be.
LEMMA OutcomeSteady ==
  ASSUME TypeInv, NEW q \in Proc, RInv(q), StayInv, TrackInv(q), Forward(q), At(q) # "next",
         K(q) \in {"human", "drift", "agent", "install"}, NEW st \in {"skipped", "failed"},
         st = "failed" => K(q) = "agent",
         \A a \in Act : a = proc[q].i => ~Firm(a), NEW m \in Method,
         Note(q, st, FALSE, m), UNCHANGED <<fs, history>>,
         \/ Set(q, Stopped([proc[q] EXCEPT !.human = TRUE]))
         \/ Set(q, Stopped([proc[q] EXCEPT !.drift = TRUE]))
  PROVE  Steady(q)
<1>1. st \in EventState /\ FALSE \in BOOLEAN /\ st # "succeeded"
  BY DEF EventState
<1>2. \A a \in Act : a = proc[q].i => K(q) = KindOf(a) /\ KindOf(a) \notin Invertible
  BY ForwardKnows DEF Invertible, FileBacked, Owning
<1>3. Touches(q) /\ \A a \in Act : a = proc[q].i => St(a)' = st
  <2> HIDE DEF At, InRun
  <2> QED BY <1>1, <1>2, Noted
<1>4. \A a \in Act : a = proc[q].i => ~Firm(a)' /\ KindOf(a) \notin FileBacked
  <2>1. \A a \in Act : KindOf(a)' = KindOf(a)
    BY <1>3 DEF Touches, KindOf
  <2> QED BY <1>2, <1>3, <2>1 DEF Firm, Invertible
<1>5. proc[q] \in Process
  BY Registers
<1> HIDE DEF At, InRun
<1> QED BY <1>3, <1>4, <1>5, StopsThere

LEMMA HumanSteady ==
  ASSUME TypeInv, NEW q \in Proc, RInv(q), StayInv, TrackInv(q), Untroubled', Human(q)
  PROVE  Steady(q)
<1>1. At(q) = "human" /\ Forward(q) /\ At(q) # "next" /\ UNCHANGED <<fs, history>>
  BY DEF Human, Forward
<1>2. Open(cur) /\ proc[q].run = cur /\ K(q) = "human"
  BY <1>1, ForwardKnows DEF RInv, PlaceInv
<1>3. Note(q, "skipped", FALSE, "none") /\ Set(q, Stopped([proc[q] EXCEPT !.human = TRUE]))
  BY <1>2, NothingTroubles DEF Human
<1>4. \A a \in Act : a = proc[q].i => ~Firm(a)
  BY <1>1, <1>2, InsideKnows DEF Firm
<1>5. "none" \in Method
  BY DEF Method
<1> HIDE DEF At, InRun
<1> QED BY <1>1, <1>2, <1>3, <1>4, <1>5, OutcomeSteady

LEMMA RecordDriftSteady ==
  ASSUME TypeInv, NEW q \in Proc, RInv(q), StayInv, TrackInv(q), Untroubled', RecordDrift(q)
  PROVE  Steady(q)
<1>1. At(q) = "drift" /\ Forward(q) /\ At(q) # "next" /\ UNCHANGED <<fs, history>>
  BY DEF RecordDrift, Forward
<1>2. Goto(q, "driftSkip") /\ UNCHANGED <<cur, status, plan, journal, applied>>
  BY NothingTroubles DEF RecordDrift
<1>3. UNCHANGED <<file, snap, base, edited>>
  BY <1>1 DEF fs, history
<1>4. Touches(q)
  BY <1>1, <1>2, <1>3, NothingTouched
<1>5. At(q)' = "driftSkip" /\ "driftSkip" \in Inside /\ proc[q].own = "unset"
  BY <1>1, <1>2, GotoRemains DEF Inside, TrackInv, PathInv
<1>6. ASSUME NEW a \in Act, a = proc[q].i
      PROVE  Lands(q, a)
  <2>1. St(a)' = St(a)
    BY <1>2 DEF St
  <2>2. St(a) # "skipped" /\ (St(a) = "succeeded" => KindOf(a) \notin {"agent", "install"})
    BY <1>1, <1>6, InsideKnows
  <2> QED BY <1>5, <2>1, <2>2 DEF Lands
<1> HIDE DEF At, InRun
<1> QED BY <1>1, <1>2, <1>4, <1>5, <1>6, GoesThere

LEMMA DriftSkipSteady ==
  ASSUME TypeInv, NEW q \in Proc, RInv(q), StayInv, TrackInv(q), Untroubled', DriftSkip(q)
  PROVE  Steady(q)
<1>1. At(q) = "driftSkip" /\ Forward(q) /\ At(q) # "next" /\ UNCHANGED <<fs, history>>
  BY DEF DriftSkip, Forward
<1>2. Open(cur) /\ proc[q].run = cur /\ K(q) = "drift"
  BY <1>1, ForwardKnows DEF RInv, PlaceInv
<1>3. Note(q, "skipped", FALSE, "none") /\ Set(q, Stopped([proc[q] EXCEPT !.drift = TRUE]))
  BY <1>2, NothingTroubles DEF DriftSkip
<1>4. \A a \in Act : a = proc[q].i => ~Firm(a)
  BY <1>1, <1>2, InsideKnows DEF Firm
<1>5. "none" \in Method
  BY DEF Method
<1> HIDE DEF At, InRun
<1> QED BY <1>1, <1>2, <1>3, <1>4, <1>5, OutcomeSteady

\* What is known at the places of a task.
LEMMA TaskKnows ==
  ASSUME TypeInv, NEW q \in Proc, RInv(q), StayInv, TrackInv(q), At(q) \in Tasks
  PROVE  /\ Forward(q) /\ At(q) # "next" /\ Open(cur) /\ proc[q].run = cur /\ InRun(q)
         /\ K(q) = "agent" /\ proc[q].own = "unset" /\ proc[q].i \in Act /\ edited = {}
         /\ \A a \in Act : a = proc[q].i =>
              KindOf(a) = "agent" /\ St(a) \notin {"skipped", "succeeded"} /\ ~Firm(a)
<1>1. Forward(q) /\ At(q) # "next" /\ At(q) \notin {"installer", "reverify"}
      /\ At(q) \notin {"idle", "planned", "next", "complete", "cleanup", "intComplete"}
  BY DEF Forward, Tasks
<1>2. K(q) = "agent" /\ proc[q].own = "unset"
  BY DEF TrackInv, PathInv, RInv, PlaceInv
<1>3. proc[q].i \in Act
  BY <1>1, AtWork DEF Busy
<1>4. \A a \in Act : a = proc[q].i => KindOf(a) = "agent" /\ St(a) \notin {"skipped", "succeeded"} /\ ~Firm(a)
  BY <1>1, <1>2, InsideKnows
<1> HIDE DEF At
<1> QED BY <1>1, <1>2, <1>3, <1>4, ForwardKnows

\* A task moves on, perhaps noting that it runs.
LEMMA TaskSteady ==
  ASSUME TypeInv, NEW q \in Proc, RInv(q), StayInv, TrackInv(q), At(q) \in Tasks, NEW l \in Tasks, Goto(q, l),
         Touches(q), \A a \in Act : a = proc[q].i => St(a)' \notin {"skipped", "succeeded"}
  PROVE  Steady(q)
<1>1. Forward(q) /\ proc[q].own = "unset"
  BY TaskKnows
<1>2. At(q)' = l /\ l \in Inside /\ l \notin {"running", "execute", "verify", "reverify", "prepare", "succeed"}
  BY GotoRemains DEF Inside, Tasks
<1>3. \A a \in Act : a = proc[q].i => Lands(q, a)
  BY <1>2 DEF Lands
<1> HIDE DEF At, InRun
<1> QED BY <1>1, <1>2, <1>3, GoesThere

LEMMA AgentSteady ==
  ASSUME TypeInv, NEW q \in Proc, RInv(q), StayInv, TrackInv(q), Untroubled', Agent(q) \/ AgentVerify(q)
  PROVE  Steady(q)
<1>1. At(q) \in {"agent", "agentVerify"} /\ At(q) \in Tasks /\ UNCHANGED <<fs, history>>
  BY DEF Agent, AgentVerify, Tasks
<1>2. /\ Forward(q) /\ At(q) # "next" /\ Open(cur) /\ proc[q].run = cur
      /\ \A a \in Act : a = proc[q].i => KindOf(a) = "agent" /\ St(a) \notin {"skipped", "succeeded"} /\ ~Firm(a)
  BY <1>1, TaskKnows
<1>3. UNCHANGED <<file, snap, base, edited>>
  BY <1>1 DEF fs, history
<1>4. CASE \E l \in Tasks : Goto(q, l) /\ UNCHANGED db
  <2>1. UNCHANGED <<cur, status, plan, journal, applied>>
    BY <1>4 DEF db
  <2>2. Touches(q) /\ \A a \in Act : St(a)' = St(a)
    BY <1>2, <1>3, <2>1, NothingTouched DEF St
  <2> HIDE DEF At, InRun
  <2> QED BY <1>1, <1>2, <1>4, <2>2, TaskSteady
<1>5. CASE Note(q, "running", FALSE, "none") /\ Goto(q, "agentResolve")
  <2>1. "running" \in EventState /\ "none" \in Method /\ "agentResolve" \in Tasks /\ FALSE \in BOOLEAN
    BY DEF EventState, Method, Tasks
  <2>2. Touches(q) /\ \A a \in Act : a = proc[q].i => St(a)' = "running"
    <3> HIDE DEF At, InRun
    <3> QED BY <1>1, <1>2, <1>5, <2>1, Noted
  <2> HIDE DEF At, InRun
  <2> QED BY <1>1, <1>5, <2>1, <2>2, TaskSteady
<1>6. CASE Agent(q)
  <2>1. ~TransactionFails(q)
    BY <1>2, NothingTroubles
  <2>2. \/ Goto(q, "agentSkip") /\ UNCHANGED db
        \/ Note(q, "running", FALSE, "none") /\ Goto(q, "agentResolve")
    BY <1>6, <2>1 DEF Agent
  <2>3. "agentSkip" \in Tasks
    BY DEF Tasks
  <2> QED BY <1>4, <1>5, <2>2, <2>3
<1>7. CASE AgentVerify(q)
  <2>1. \E l \in {"agentSucceed", "agentFail", "agentError"} : Goto(q, l)
    BY <1>7 DEF AgentVerify, Verification
  <2>2. {"agentSucceed", "agentFail", "agentError"} \subseteq Tasks /\ UNCHANGED db
    BY <1>7 DEF Tasks, AgentVerify
  <2> QED BY <1>4, <2>1, <2>2
<1> QED BY <1>6, <1>7

LEMMA AgentResolveSteady ==
  ASSUME TypeInv, NEW q \in Proc, RInv(q), StayInv, TrackInv(q), AgentResolve(q)
  PROVE  Steady(q)
<1>1. /\ At(q) \in Tasks /\ UNCHANGED <<cur, status, plan, journal, applied, snap, base, edited>>
  BY DEF AgentResolve, Tasks, db, history
<1>2. /\ Forward(q)
      /\ \A a \in Act : a = proc[q].i => KindOf(a) = "agent" /\ St(a) \notin {"skipped", "succeeded"}
  BY <1>1, TaskKnows
<1>3. PICK c : file' = [file EXCEPT ![proc[q].i] = c]
  BY DEF AgentResolve
<1>4. PICK l \in {"agentVerify", "agentSkip", "agentError"} : Goto(q, l)
  BY DEF AgentResolve
<1>5. Touches(q) /\ \A a \in Act : a = proc[q].i => St(a)' = St(a)
  <2> HIDE DEF At, InRun
  <2> QED BY <1>1, <1>2, <1>3, Wrote
<1>6. l \in Tasks
  BY DEF Tasks
<1> HIDE DEF At, InRun
<1> QED BY <1>1, <1>2, <1>4, <1>5, <1>6, TaskSteady

LEMMA AgentEndSteady ==
  ASSUME TypeInv, NEW q \in Proc, RInv(q), StayInv, TrackInv(q), Untroubled',
         AgentSucceed(q) \/ AgentFail(q) \/ AgentSkip(q) \/ AgentError(q)
  PROVE  Steady(q)
<1>1. At(q) \in Tasks /\ UNCHANGED <<fs, history>>
  BY DEF AgentSucceed, AgentFail, AgentSkip, AgentError, Tasks
<1>2. /\ Forward(q) /\ At(q) # "next" /\ Open(cur) /\ proc[q].run = cur /\ ~TransactionFails(q)
      /\ K(q) = "agent" /\ proc[q].own = "unset" /\ proc[q].i \in Act /\ edited = {} /\ proc[q] \in Process
      /\ \A a \in Act : a = proc[q].i => KindOf(a) = "agent" /\ St(a) \notin {"skipped", "succeeded"} /\ ~Firm(a)
  BY <1>1, TaskKnows, NothingTroubles, Registers
<1>3. /\ {"succeeded", "failed", "skipped"} \subseteq EventState /\ {"none", "passed", "other"} \subseteq Method
      /\ FALSE \in BOOLEAN /\ "agent" \notin Invertible
  BY DEF EventState, Method, Invertible, FileBacked, Owning
<1>4. CASE AgentSucceed(q)
  <2>1. Note(q, "succeeded", FALSE, "passed") /\ Set(q, Verified(proc[q], FALSE)) /\ At(q) = "agentSucceed"
    BY <1>2, <1>4 DEF AgentSucceed
  <2>2. \A a \in Act : a = proc[q].i => file[a] = "new"
    <3>1. \A a \in Act : a = proc[q].i => Holds(a)
      BY <2>1 DEF RInv, ActionInv, HoldsInv
    <3> QED BY <1>2, <3>1 DEF Holds, Matches
  <2>3. Touches(q) /\ \A a \in Act : a = proc[q].i => St(a)' = "succeeded"
    <3> HIDE DEF At, InRun
    <3> QED BY <1>1, <1>2, <1>3, <2>1, <2>2, Noted
  <2> HIDE DEF At, InRun
  <2> QED BY <1>2, <1>3, <2>1, <2>3, PassesThere
<1>5. CASE AgentFail(q)
  <2>1. Note(q, "failed", FALSE, "other") /\ Set(q, FailedAction(proc[q]))
    BY <1>2, <1>5 DEF AgentFail
  <2>2. Touches(q) /\ \A a \in Act : a = proc[q].i => St(a)' = "failed"
    <3> HIDE DEF At, InRun
    <3> QED BY <1>1, <1>2, <1>3, <2>1, Noted
  <2>3. \A a \in Act : a = proc[q].i => ~Firm(a)' /\ (KindOf(a) \in Invertible => Back(a)')
    <3>1. \A a \in Act : KindOf(a)' = KindOf(a)
      BY <2>2 DEF Touches, KindOf
    <3> QED BY <1>2, <1>3, <2>2, <3>1 DEF Firm
  <2> HIDE DEF At, InRun
  <2> QED BY <1>2, <2>1, <2>2, <2>3, FailsThere
<1>6. CASE AgentSkip(q)
  <2>1. Note(q, "skipped", FALSE, "none") /\ Set(q, Stopped([proc[q] EXCEPT !.human = TRUE]))
    BY <1>2, <1>6 DEF AgentSkip
  <2> HIDE DEF At, InRun
  <2> QED BY <1>1, <1>2, <1>3, <2>1, OutcomeSteady
<1>7. CASE AgentError(q)
  <2>1. Note(q, "failed", FALSE, "other") /\ Set(q, Stopped([proc[q] EXCEPT !.human = TRUE]))
    BY <1>2, <1>7 DEF AgentError
  <2> HIDE DEF At, InRun
  <2> QED BY <1>1, <1>2, <1>3, <2>1, OutcomeSteady
<1> QED BY <1>4, <1>5, <1>6, <1>7

----------------------------------------------------------------------------
(* Rolling back. *)

\* What may be restored is a snapshot of what the run found.
LEMMA RestoresBase ==
  ASSUME TypeInv, NEW q \in Proc, RInv(q), StayInv, TrackInv(q), InRun(q), Open(cur), NEW a \in Act, CanRestore(q, a)
  PROVE  KindOf(a) \in FileBacked /\ Backed(a) /\ Preimage(q, a) = base.file[a]
<1>1. proc[q].run = cur /\ proc[q].plan[a] = KindOf(a)
  BY InRunIs
<1>2. Preimage(q, a) # "none"
  BY DEF CanRestore
<1>3. KindOf(a) \in FileBacked
  <2>1. KindOf(a) \notin FileBacked => proc[q].mem[a] = "none" /\ snap[cur][a] = "none"
    BY DEF TrackInv, AroundInv, StayInv, StandInv, Stands
  <2> QED BY <1>1, <1>2, <2>1 DEF Preimage
<1>4. Backed(a)
  BY <1>3 DEF Backed, StayInv
<1>5. snap[cur][a] \in {"none", base.file[a]} /\ proc[q].mem[a] \in {"none", snap[cur][a]}
  BY <1>4, Backing
<1> QED BY <1>1, <1>2, <1>3, <1>4, <1>5 DEF Preimage

\* What is known behind a failed action.
LEMMA RollingKnows ==
  ASSUME TypeInv, NEW q \in Proc, RInv(q), StayInv, TrackInv(q), At(q) \in {"cascade", "cascadeJournal"}
  PROVE  /\ Open(cur) /\ proc[q].run = cur /\ InRun(q) /\ proc[q].fail /\ edited = {} /\ cur \in Run
         /\ \A a \in Act : /\ proc[q].plan[a] = KindOf(a) /\ Stands(a)
                           /\ KindOf(a) \in Invertible => InDone(q, a) \/ Back(a)
                           /\ InDone(q, a) => KindOf(a) \in Invertible
<1>1. InRun(q) /\ At(q) \notin Over /\ At(q) \in Rolling
  OBVIOUS
<1>2. 1 \in Act
  BY ConstantsAssumption DEF Act
<1>3. proc[q].fail
  BY <1>1, <1>2 DEF RInv, ActionInv, HoldsInv
<1>4. Open(cur) /\ proc[q].run = cur /\ cur \in Run /\ \A a \in Act : proc[q].plan[a] = KindOf(a)
  BY <1>1, InRunIs
<1>5. \A a \in Act : /\ KindOf(a) \in Invertible => InDone(q, a) \/ Back(a)
                     /\ InDone(q, a) => KindOf(a) \in Invertible
  BY <1>1 DEF TrackInv, AroundInv
<1>6. \A a \in Act : Stands(a)
  BY <1>4 DEF StayInv, StandInv
<1> QED BY <1>1, <1>3, <1>4, <1>5, <1>6 DEF StayInv

\* What an invocation behind the loop keeps of its invariant.
LEMMA BehindTracks ==
  ASSUME NEW q \in Proc, TrackInv(q), InRun(q),
         At(q)' \in {"cascade", "cascadeJournal", "skip", "complete", "cleanup"}, UNCHANGED <<cur, plan>>,
         proc'[q].mem = proc[q].mem, proc'[q].keep = proc[q].keep,
         \A a \in Act :
           /\ InDone(q, a)' => InDone(q, a)
           /\ At(q)' \in {"cascade", "cascadeJournal"} /\ KindOf(a) \in Invertible => InDone(q, a)' \/ Back(a)'
           /\ At(q)' = "cascadeJournal" /\ a = Top(q).a' => Back(a)'
           /\ At(q)' \in {"skip", "complete"} => IF proc'[q].fail THEN KindOf(a) \in Invertible => Back(a)' ELSE Whole(a)'
           /\ At(q)' = "cleanup" => Whole(a)'
  PROVE  TrackInv(q)'
<1>1. /\ ~Forward(q)' /\ At(q)' # "planned"
      /\ At(q)' \in Rolling => At(q)' \in {"cascade", "cascadeJournal"}
      /\ At(q)' \notin Failing \cup {"planned", "next", "reverify", "installer", "human", "drift", "driftSkip"} \cup Tasks
  BY DEF Forward, Failing, Tasks
<1>2. proc[q].keep = {}
  BY DEF TrackInv, PathInv
<1>3. \A a \in Act : /\ KindOf(a)' = KindOf(a) /\ (InDone(q, a) => KindOf(a) \in Invertible)
                     /\ KindOf(a) \notin FileBacked => proc[q].mem[a] = "none"
  BY DEF KindOf, TrackInv, AroundInv
<1> HIDE DEF At, InRun
<1>4. PathInv(q)'
  BY <1>1, <1>2 DEF PathInv
<1>5. ASSUME NEW a \in Act
      PROVE  HereInv(q, a)' /\ AroundInv(q, a)'
  <2>1. Top(q).a' = (Top(q).a)'
    OBVIOUS
  <2> QED BY <1>1, <1>3, <2>1 DEF HereInv, AroundInv
<1> QED BY <1>4, <1>5 DEF TrackInv

LEMMA CascadeSteady ==
  ASSUME TypeInv, NEW q \in Proc, RInv(q), StayInv, TrackInv(q), Untroubled', Cascade(q)
  PROVE  Steady(q)
<1>1. At(q) = "cascade" /\ At(q) \in {"cascade", "cascadeJournal"} /\ proc[q].done # <<>>
      /\ UNCHANGED <<cur, status, plan, journal, applied, snap, base, edited>>
  BY DEF Cascade, db, history
<1>2. /\ Open(cur) /\ proc[q].run = cur /\ InRun(q) /\ edited = {}
      /\ \A x \in Act : /\ proc[q].plan[x] = KindOf(x) /\ Stands(x)
                        /\ KindOf(x) \in Invertible => InDone(q, x) \/ Back(x)
                        /\ InDone(q, x) => KindOf(x) \in Invertible
  BY <1>1, RollingKnows
<1>3. PICK a \in Act : a = Top(q).a
  BY <1>1, PopHolds
<1>4. InDone(q, a) /\ KindOf(a) \in Invertible /\ \E n \in 1..Len(proc[q].done) : proc[q].done[n].a = a
  BY <1>1, <1>2, <1>3, PopHolds
<1>5. KindOf(a) \in FileBacked => CanRestore(q, a) /\ Preimage(q, a) = base.file[a]
  <2> SUFFICES ASSUME KindOf(a) \in FileBacked
               PROVE  CanRestore(q, a) /\ Preimage(q, a) = base.file[a]
    OBVIOUS
  <2>1. Backed(a)
    BY <1>2 DEF Backed
  <2>2. snap[cur][a] = base.file[a] /\ proc[q].mem[a] \in {"none", snap[cur][a]} /\ base.file[a] \in Content
    BY <1>2, <1>4, <2>1, Backing
  <2>3. Preimage(q, a) = base.file[a] /\ base.file[a] # "none"
    BY <1>2, <2>2 DEF Preimage, Content
  <2>4. KindOf(a) = "append" => file[a] \in {base.file[a], Desired("append", base.file[a])}
    BY <1>2 DEF Stands
  <2> QED BY <1>2, <2>2, <2>3, <2>4 DEF CanRestore, Overwritable
<1>6. /\ Goto(q, "cascadeJournal")
      /\ \/ KindOf(a) \in FileBacked /\ Restored(q, a)
         \/ KindOf(a) \notin FileBacked /\ file' = file
  BY <1>2, <1>3, <1>5, NothingTroubles DEF Cascade, RestoreFails
<1>7. \A x \in Act \ {a} : file'[x] = file[x]
  BY <1>2, <1>6, RestoreLeaves
<1>8. Back(a)'
  <2>1. CASE KindOf(a) \in FileBacked
    <3>1. Backed(a)
      BY <1>2, <2>1 DEF Backed
    <3>2. file'[a] = base.file[a]
      BY <1>2, <1>6, <2>1, <3>1, RestoreLeaves
    <3> QED BY <1>1, <3>2 DEF Back
  <2>2. CASE KindOf(a) \notin FileBacked
    <3>1. KindOf(a) = "verify"
      BY <1>4, <2>2 DEF Invertible, Owning, FileBacked
    <3>2. Back(a) /\ file' = file
      BY <1>2, <1>6, <2>2, <3>1 DEF Stands
    <3> QED BY <1>1, <3>2 DEF Back
  <2> QED BY <2>1, <2>2
<1>9. Stands(a)'
  <2>1. KindOf(a)' = KindOf(a) /\ (Wanted(a)' <=> Wanted(a)) /\ St(a)' = St(a) /\ snap'[cur'][a] = snap[cur][a]
    BY <1>1 DEF KindOf, Wanted, St
  <2>2. KindOf(a) \notin {"agent", "install"}
    BY <1>4 DEF Invertible, Owning, FileBacked
  <2>3. KindOf(a) = "append" => file'[a] = base.file[a]
    BY <1>1, <1>2, <1>8 DEF Back
  <2>4. KindOf(a) = "verify" => file'[a] = file[a]
    BY <1>6 DEF FileBacked
  <2> QED BY <1>1, <1>2, <1>8, <2>1, <2>2, <2>3, <2>4 DEF Stands
<1>10. StayInv'
  <2>1. Firm(a) => Firm(a)'
    BY <1>1 DEF Firm, KindOf, St
  <2>2. Spares(a)
    BY <1>1, <1>7 DEF Spares
  <2> QED BY <1>1, <1>2, <1>8, <1>9, <2>1, <2>2, TouchStays
<1>11. TrackInv(q)'
  <2>1. At(q)' = "cascadeJournal" /\ Remains(q)
    BY <1>6, GotoRemains
  <2>2. \A x \in Act : (InDone(q, x)' <=> InDone(q, x)) /\ Top(q)' = Top(q)
    BY <2>1 DEF Remains, Carries, InDone, Top
  <2>3. \A x \in Act : x # a => (Back(x)' <=> Back(x))
    BY <1>1, <1>7 DEF Back
  <2>4. \A x \in Act : KindOf(x) \in Invertible => InDone(q, x)' \/ Back(x)'
    BY <1>2, <1>4, <2>2, <2>3
  <2>5. \A x \in Act : x = Top(q).a' => Back(x)'
    BY <1>3, <1>8, <2>2
  <2>6. proc'[q].mem = proc[q].mem /\ proc'[q].keep = proc[q].keep
    BY <2>1 DEF Remains, Carries
  <2>7. At(q)' \in {"cascade", "cascadeJournal", "skip", "complete", "cleanup"} /\ At(q)' \notin {"skip", "complete", "cleanup"}
    BY <2>1
  <2> HIDE DEF At, InRun
  <2> QED BY <1>1, <1>2, <2>2, <2>4, <2>5, <2>6, <2>7, BehindTracks
<1> QED BY <1>10, <1>11 DEF Steady

LEMMA CascadeJournalSteady ==
  ASSUME TypeInv, NEW q \in Proc, RInv(q), StayInv, TrackInv(q), Untroubled', CascadeJournal(q)
  PROVE  Steady(q)
<1> DEFINE d == Top(q)
           e == Ev("failed", d.att, proc[q].plan[d.a] \in FileBacked, "none", "run-rolled-back")
<1>1. At(q) = "cascadeJournal" /\ At(q) \in {"cascade", "cascadeJournal"} /\ UNCHANGED <<fs, history, file, snap, base, edited>>
  BY DEF CascadeJournal, fs, history
<1>2. /\ Open(cur) /\ proc[q].run = cur /\ InRun(q) /\ edited = {}
      /\ \A x \in Act : /\ proc[q].plan[x] = KindOf(x) /\ Stands(x)
                        /\ KindOf(x) \in Invertible => InDone(q, x) \/ Back(x)
                        /\ InDone(q, x) => KindOf(x) \in Invertible
  BY <1>1, RollingKnows
<1>3. proc[q].done # <<>>
  BY <1>1, Registers DEF LocalInv
<1>4. PICK a \in Act : a = Top(q).a
  BY <1>3, PopHolds
<1>5. InDone(q, a) /\ KindOf(a) \in Invertible
  BY <1>2, <1>3, <1>4, PopHolds
<1>6. JournalAction(q, a, e, d.prev) /\ Set(q, [proc[q] EXCEPT !.pc = "cascade", !.done = Pop(q)])
  BY <1>2, <1>4, NothingTroubles DEF CascadeJournal
<1>7. d \in Done /\ e \in Event /\ e.st = "failed"
  <2>1. d \in Done
    BY <1>3, PopIs
  <2>2. d.att \in Nat /\ "none" \in Record /\ "failed" \in EventState /\ "run-rolled-back" \in Method
    BY <2>1 DEF Done, Record, EventState, Method
  <2>3. (proc[q].plan[d.a] \in FileBacked) \in BOOLEAN
    OBVIOUS
  <2> HIDE DEF d
  <2> QED BY <2>1, <2>2, <2>3, EvType DEF Ev
<1>8. UNCHANGED <<cur, status, plan>> /\ journal' = [journal EXCEPT ![a] = Append(journal[a], e)]
      /\ applied' = [applied EXCEPT ![a] = d.prev]
  BY <1>6 DEF JournalAction
<1> HIDE DEF d, e
<1>9. /\ \A b \in Act \ {a} : journal'[b] = journal[b] /\ applied'[b] = applied[b]
      /\ journal'[a] = Append(journal[a], e) /\ journal[a] \in Seq(Event)
  BY <1>8 DEF TypeInv, DurableOK
<1>10. St(a)' = "failed"
  <2> DEFINE s == journal[a]
             t == journal'[a]
  <2>1. s \in Seq(Event) /\ t = Append(s, e)
    BY <1>9
  <2> HIDE DEF s, t
  <2>2. Len(t) = Len(s) + 1 /\ t[Len(t)] = e
    BY <2>1, Appended
  <2> QED BY <1>7, <2>2 DEF Last, St, t
<1>11. Back(a)
  BY <1>1, <1>4 DEF TrackInv, AroundInv
<1>12. \A x \in Act : (Back(x)' <=> Back(x)) /\ KindOf(x)' = KindOf(x)
  BY <1>1, <1>8 DEF Back, KindOf
<1>13. StayInv'
  <2>1. Stands(a)'
    BY <1>1, <1>2, <1>8, <1>10, <1>12 DEF Stands
  <2>2. Firm(a) => Firm(a)'
    BY <1>5, <1>10, <1>12 DEF Firm, Invertible, Owning, FileBacked
  <2>3. Spares(a)
    BY <1>1, <1>8, <1>9 DEF Spares
  <2> QED BY <1>1, <1>2, <1>8, <1>11, <1>12, <2>1, <2>2, <2>3, TouchStays
<1>14. /\ At(q)' = "cascade" /\ proc'[q].done = Pop(q) /\ proc'[q].mem = proc[q].mem /\ proc'[q].keep = proc[q].keep
  <2>1. proc[q] \in Process /\ proc'[q] = [proc[q] EXCEPT !.pc = "cascade", !.done = Pop(q)]
    BY <1>6, Registers, SetIs
  <2> QED BY <2>1 DEF Process
<1>15. ASSUME NEW x \in Act
       PROVE  /\ InDone(q, x)' => InDone(q, x)
              /\ KindOf(x) \in Invertible => InDone(q, x)' \/ Back(x)'
  <2>1. InDone(q, x)' <=> \E n \in 1..Len(Pop(q)) : Pop(q)[n].a = x
    BY <1>14 DEF InDone
  <2>2. (\E n \in 1..Len(Pop(q)) : Pop(q)[n].a = x) => InDone(q, x)
    BY <1>3, PopIs DEF InDone
  <2>3. x # a /\ InDone(q, x) => \E n \in 1..Len(Pop(q)) : Pop(q)[n].a = x
    BY <1>3, <1>4, PopHolds
  <2> QED BY <1>2, <1>11, <1>12, <2>1, <2>2, <2>3
<1>16. TrackInv(q)'
  <2>1. At(q)' \in {"cascade", "cascadeJournal", "skip", "complete", "cleanup"}
        /\ At(q)' \notin {"cascadeJournal", "skip", "complete", "cleanup"}
    BY <1>14
  <2> HIDE DEF At, InRun
  <2> QED BY <1>2, <1>8, <1>14, <1>15, <2>1, BehindTracks
<1> QED BY <1>13, <1>16 DEF Steady

LEMMA CascadeEndSteady ==
  ASSUME TypeInv, NEW q \in Proc, RInv(q), StayInv, TrackInv(q), CascadeEnd(q)
  PROVE  Steady(q)
<1>1. /\ At(q) \in {"cascade", "cascadeJournal"} /\ proc[q].done = <<>> /\ Set(q, Stopped(proc[q]))
      /\ UNCHANGED <<cur, status, plan, journal, applied, file, snap, base, edited, kept>>
  BY DEF CascadeEnd, db, fs, history
<1>2. /\ InRun(q) /\ proc[q].fail /\ \A x \in Act : KindOf(x) \in Invertible => InDone(q, x) \/ Back(x)
  BY <1>1, RollingKnows
<1>3. At(q)' \in {"skip", "complete"} /\ Remains(q)
  BY <1>1, Registers, StopRemains
<1>4. ASSUME NEW x \in Act
      PROVE  /\ (InDone(q, x)' <=> InDone(q, x)) /\ ~InDone(q, x) /\ (Back(x)' <=> Back(x))
  BY <1>1, <1>3 DEF Remains, Carries, InDone, Back
<1>5. proc'[q].fail /\ proc'[q].mem = proc[q].mem /\ proc'[q].keep = proc[q].keep
  BY <1>2, <1>3 DEF Remains, Carries
<1>6. At(q)' \in {"cascade", "cascadeJournal", "skip", "complete", "cleanup"}
      /\ At(q)' \notin {"cascade", "cascadeJournal", "cleanup"}
  BY <1>3
<1>7. TrackInv(q)'
  <2> HIDE DEF At, InRun
  <2> QED BY <1>1, <1>2, <1>4, <1>5, <1>6, BehindTracks
<1> QED BY <1>1, <1>7, StaysPut DEF Steady

LEMMA SkipSteady ==
  ASSUME TypeInv, NEW q \in Proc, RInv(q), StayInv, TrackInv(q), Untroubled', Skip(q)
  PROVE  Steady(q)
<1> DEFINE e == Ev("skipped", 1, FALSE, "none", "none")
<1>1. At(q) = "skip" /\ UNCHANGED <<file, snap, base, edited, kept>>
  BY DEF Skip, fs, history
<1>2. Open(cur) /\ proc[q].run = cur /\ InRun(q) /\ proc[q].mode = "run" /\ edited = {} /\ proc[q] \in Process
  BY <1>1, InRunIs, Registers DEF RInv, PlaceInv, StayInv
<1>3. \A a \in Act : /\ IF proc[q].fail THEN KindOf(a) \in Invertible => Back(a) ELSE Whole(a)
                     /\ Stands(a)
  BY <1>1, <1>2 DEF TrackInv, AroundInv, StayInv, StandInv
<1>4. CASE proc[q].i >= N
  <2>1. Goto(q, "complete") /\ UNCHANGED db
    BY <1>4 DEF Skip
  <2>2. At(q)' = "complete" /\ Remains(q) /\ UNCHANGED <<cur, status, plan, journal, applied>>
    BY <2>1, GotoRemains DEF db
  <2>3. \A x \in Act : (InDone(q, x)' <=> InDone(q, x)) /\ (Back(x)' <=> Back(x)) /\ (Whole(x)' <=> Whole(x))
    BY <1>1, <2>2 DEF Remains, Carries, InDone, Back, Whole, KindOf, Holds, Wanted
  <2>4. proc'[q].fail = proc[q].fail /\ proc'[q].mem = proc[q].mem /\ proc'[q].keep = proc[q].keep
    BY <2>2 DEF Remains, Carries
  <2>5. At(q)' \in {"cascade", "cascadeJournal", "skip", "complete", "cleanup"}
        /\ At(q)' \notin {"cascade", "cascadeJournal", "cleanup"}
    BY <2>2
  <2>6. TrackInv(q)'
    <3> HIDE DEF At, InRun
    <3> QED BY <1>2, <1>3, <2>2, <2>3, <2>4, <2>5, BehindTracks
  <2> QED BY <1>1, <2>2, <2>6, StaysPut DEF Steady
<1>5. CASE ~(proc[q].i >= N)
  <2>0. proc[q].i + 1 \in Act /\ e.st = "skipped" /\ proc[q].i \in Int
    BY <1>5, Registers, ConstantsAssumption DEF Act, Ev
  <2> PICK j \in Act : j = proc[q].i + 1
    BY <2>0
  <2>1. JournalAction(q, j, e, applied[j]) /\ Set(q, [proc[q] EXCEPT !.i = j])
    BY <1>2, <1>5, NothingTroubles DEF Skip
  <2>2. j \in Act /\ e.st = "skipped" /\ proc[q].i \in Int /\ j = proc[q].i + 1
    BY <2>0
  <2>3. UNCHANGED <<cur, status, plan>> /\ journal' = [journal EXCEPT ![j] = Append(journal[j], e)]
        /\ applied' = applied
    <3>1. UNCHANGED <<cur, status, plan>> /\ journal' = [journal EXCEPT ![j] = Append(journal[j], e)]
          /\ applied' = [applied EXCEPT ![j] = applied[j]]
      BY <2>1 DEF JournalAction
    <3> QED BY <3>1 DEF TypeInv, DurableOK
  <2>4. /\ At(q)' = "skip" /\ proc'[q].done = proc[q].done /\ proc'[q].mem = proc[q].mem
        /\ proc'[q].keep = proc[q].keep /\ proc'[q].fail = proc[q].fail
    <3>1. proc'[q] = [proc[q] EXCEPT !.i = j]
      BY <2>1, SetIs
    <3> QED BY <1>1, <1>2, <3>1 DEF Process
  <2>5. \A a \in Act : a >= j => Back(a)
    <3>1. ASSUME NEW a \in Act, a >= j
          PROVE  file[a] = base.file[a]
      <4>1. a > proc[q].i
        BY <2>2, <3>1 DEF Act
      <4>2. Ahead(q, a)
        BY <1>2, <4>1 DEF Ahead
      <4>3. AheadInv(q, a)
        BY DEF RInv, ActionInv
      <4> QED BY <1>2, <4>2, <4>3 DEF AheadInv
    <3> QED BY <3>1 DEF Back
  <2> HIDE DEF e
  <2>6. /\ \A b \in Act \ {j} : journal'[b] = journal[b]
        /\ journal'[j] = Append(journal[j], e) /\ journal[j] \in Seq(Event)
    BY <2>2, <2>3 DEF TypeInv, DurableOK
  <2>7. St(j)' = "skipped"
    <3> DEFINE s == journal[j]
               t == journal'[j]
    <3>1. s \in Seq(Event) /\ t = Append(s, e)
      BY <2>6
    <3> HIDE DEF s, t
    <3>2. Len(t) = Len(s) + 1 /\ t[Len(t)] = e
      BY <3>1, Appended
    <3> QED BY <2>2, <3>2 DEF Last, St, t
  <2>8. \A x \in Act : (Back(x)' <=> Back(x)) /\ KindOf(x)' = KindOf(x) /\ (Whole(x)' <=> Whole(x))
                       /\ (InDone(q, x)' <=> InDone(q, x))
    BY <1>1, <2>3, <2>4 DEF Back, KindOf, Whole, Holds, Wanted, InDone
  <2>9. j \in Int /\ Back(j)
    BY <2>2, <2>5 DEF Act
  <2>10. StayInv'
    <3>1. Stands(j)'
      BY <1>1, <1>3, <2>2, <2>3, <2>7, <2>8, <2>9 DEF Stands
    <3>2. \A a \in Act : j < a => Back(a)
      BY <2>5, <2>9 DEF Act
    <3>3. Spares(j)
      BY <1>1, <2>3, <2>6 DEF Spares
    <3> QED BY <1>1, <1>2, <2>2, <2>3, <2>8, <2>9, <3>1, <3>2, <3>3, TouchStays
  <2>11. At(q)' \in {"cascade", "cascadeJournal", "skip", "complete", "cleanup"}
        /\ At(q)' \notin {"cascade", "cascadeJournal", "cleanup"}
    BY <2>4
  <2>12. TrackInv(q)'
    <3> HIDE DEF At, InRun
    <3> QED BY <1>2, <1>3, <2>3, <2>4, <2>8, <2>11, BehindTracks
  <2> QED BY <2>10, <2>12 DEF Steady
<1> QED BY <1>4, <1>5

----------------------------------------------------------------------------
(* Closing the run. *)

\* A closed run is as each of its actions was left.
LEMMA ClosesWhole ==
  ASSUME ~Open(cur)', edited' = {},
         \A a \in Act : /\ Whole(a)' \/ (KindOf(a)' \in FileBacked => snap'[cur'][a] = base'.file[a])
                        /\ cur' > 0 /\ status'[cur'] = "Failed" /\ a \notin kept' /\ KindOf(a)' \in Invertible => Back(a)'
  PROVE  StayInv'
  BY DEF StayInv, StandInv, ClosedInv, Whole

LEMMA CompleteSteady ==
  ASSUME TypeInv, NEW q \in Proc, RInv(q), StayInv, TrackInv(q), Untroubled', Complete(q) \/ CompleteFails(q)
  PROVE  Steady(q)
<1> DEFINE o == Outcome(proc[q])
<1>1. At(q) = "complete" /\ InRun(q)
  BY DEF Complete, CompleteFails
<1>2. Open(cur) /\ proc[q].run = cur /\ cur \in Run /\ edited = {} /\ proc[q].fail \in BOOLEAN
      /\ \A a \in Act : proc[q].plan[a] = KindOf(a)
  BY <1>1, InRunIs, Registers DEF StayInv, Process
<1>3. Complete(q)
  BY <1>2, NothingTroubles DEF CompleteFails
<1>4. /\ status' = [status EXCEPT ![cur] = o]
      /\ applied' = IF o # "Converged" THEN applied
                    ELSE [a \in Act |-> CASE KindOf(a) \in Owning -> "new"
                                          [] KindOf(a) = "remove" -> "none"
                                          [] OTHER -> applied[a]]
      /\ UNCHANGED <<cur, plan, file, snap, base, edited>>
      /\ Goto(q, "cleanup")
  BY <1>2, <1>3 DEF Complete, fs
<1>5. o \in Terminal /\ (o = "Failed" <=> proc[q].fail)
  BY <1>2 DEF Outcome, Terminal
<1> HIDE DEF o
<1>6. status'[cur] = o
  BY <1>2, <1>4 DEF TypeInv, DurableOK
<1>7. ~Open(cur)' /\ cur' = cur
  BY <1>4, <1>5, <1>6 DEF Open, Recoverable, Terminal
<1>8. ASSUME NEW a \in Act
      PROVE  Whole(a)' /\ (proc[q].fail /\ KindOf(a) \in Invertible => Back(a)') /\ KindOf(a)' = KindOf(a)
  <2>1. IF proc[q].fail THEN KindOf(a) \in Invertible => Back(a) ELSE Whole(a)
    BY <1>1 DEF TrackInv, AroundInv
  <2>2. KindOf(a)' = KindOf(a) /\ (Back(a)' <=> Back(a)) /\ (Holds(a)' <=> Holds(a))
    BY <1>4 DEF KindOf, Back, Holds
  <2>3. Wanted(a) => Wanted(a)'
    BY <1>4, <2>2 DEF Wanted, Owning
  <2>4. KindOf(a) \in FileBacked => KindOf(a) \in Invertible
    BY DEF Invertible
  <2> QED BY <2>1, <2>2, <2>3, <2>4 DEF Whole
<1>9. StayInv'
  BY <1>2, <1>4, <1>5, <1>6, <1>7, <1>8, ClosesWhole
<1>10. At(q)' = "cleanup" /\ Remains(q)
  BY <1>4, GotoRemains
<1>11. /\ proc'[q].mem = proc[q].mem /\ proc'[q].keep = proc[q].keep
       /\ \A a \in Act : InDone(q, a)' <=> InDone(q, a)
  BY <1>10 DEF Remains, Carries, InDone
<1>12. At(q)' \in {"cascade", "cascadeJournal", "skip", "complete", "cleanup"}
       /\ At(q)' \notin {"cascade", "cascadeJournal", "skip", "complete"}
  BY <1>10
<1>13. TrackInv(q)'
  <2> HIDE DEF At, InRun
  <2> QED BY <1>1, <1>4, <1>8, <1>11, <1>12, BehindTracks
<1> QED BY <1>9, <1>13 DEF Steady

LEMMA CleanupSteady ==
  ASSUME TypeInv, NEW q \in Proc, RInv(q), StayInv, TrackInv(q), Cleanup(q)
  PROVE  Steady(q)
<1>1. At(q) = "cleanup" /\ proc'[q] = Idle
      /\ UNCHANGED <<cur, status, plan, applied, file, base, edited, kept>> /\ InRun(q)
  BY SetIs DEF Cleanup, db, history
<1>2. ~Open(cur) /\ edited = {}
  BY <1>1 DEF RInv, RunInv, StayInv
<1>3. ~Open(cur)'
  BY <1>1, <1>2 DEF Open
<1>4. ASSUME NEW a \in Act
      PROVE  /\ Whole(a)'
             /\ cur' > 0 /\ status'[cur'] = "Failed" /\ a \notin kept' /\ KindOf(a)' \in Invertible => Back(a)'
  <2>1. KindOf(a)' = KindOf(a) /\ (Back(a)' <=> Back(a)) /\ (Holds(a)' <=> Holds(a)) /\ (Wanted(a)' <=> Wanted(a))
    BY <1>1 DEF KindOf, Back, Holds, Wanted
  <2>2. Whole(a) /\ ClosedInv(a)
    BY <1>1 DEF TrackInv, AroundInv, StayInv
  <2> QED BY <1>1, <2>1, <2>2 DEF Whole, ClosedInv
<1>5. StayInv'
  BY <1>1, <1>2, <1>3, <1>4, ClosesWhole
<1>6. TrackInv(q)'
  <2>1. At(q)' \in {"idle", "abandon"} /\ proc'[q].keep = {}
    BY <1>1 DEF Idle
  <2> QED BY <2>1, AsideTracks
<1> QED BY <1>5, <1>6 DEF Steady

----------------------------------------------------------------------------
(* The steps of recovery. *)

LEMMA RecoverNextSteady ==
  ASSUME TypeInv, NEW q \in Proc, RInv(q), StayInv, TrackInv(q), RecoverNext(q)
  PROVE  Steady(q)
<1>1. At(q) = "next" /\ proc[q].mode = "recover" /\ proc[q].i <= N /\ UNCHANGED <<db, fs, history>> /\ Forward(q)
  BY DEF RecoverNext, Forward
<1>2. PICK i \in Act : i = proc[q].i
  BY <1>1, Registers, ConstantsAssumption DEF Act
<1> DEFINE last == proc[q].seen[proc[q].i].last
           ref == proc[q].seen[proc[q].i].ref
           k == K(q)
           ps == [proc[q] EXCEPT !.att = NextAttempt(last), !.undone = TRUE]
           completedRemoval == k = "remove" /\ last.st = "succeeded"
<1>3. /\ last = Last(journal[i]) /\ ref = HasReference(journal[i])
      /\ Ordered(journal[i]) /\ journal[i] \in Seq(Event)
  <2>1. /\ proc[q].seen[i] = [last |-> Last(journal[i]), ref |-> HasReference(journal[i])]
        /\ Ordered(journal[i]) /\ journal[i] \in Seq(Event)
    BY <1>1, <1>2, NextFinds, JournalType
  <2> QED BY <1>2, <2>1
<1>4. last \in Event /\ last.att + 1 >= 1
  BY <1>3, NextIsQuiet
<1>5. last.att \in Nat /\ last.ref \in BOOLEAN /\ ref \in BOOLEAN /\ last.st \in EventState
  BY <1>3, <1>4 DEF Event, HasReference
<1>6. /\ InRun(q) /\ k = KindOf(i) /\ Open(cur) /\ edited = {} /\ Stands(i) /\ proc[q].own = "unset"
      /\ UNCHANGED <<cur, status, plan, journal, applied, file, snap, base, edited, kept>>
  BY <1>1, <1>2, ForwardKnows DEF db, fs, history, TrackInv, PathInv
<1>7. Set(q, CASE last.st = "skipped" -> Preserved(ps, k)
               [] last.st = "succeeded" /\ k = "transfer" -> Verified(ps, FALSE)
               [] k = "install" /\ last.st \notin {"pending", "skipped"} ->
                    [ps EXCEPT !.pc = "installer"]
               [] completedRemoval /\ last.ref ->
                    [ps EXCEPT !.pc = "restore", !.own = last.prev]
               [] completedRemoval /\ ~last.ref -> Idle
               [] last.st = "succeeded" /\ k \notin {"transfer", "install", "remove"} ->
                    [ps EXCEPT !.pc = "reverify"]
               [] last.st \in {"running", "failed"} /\ k # "install" /\ ref ->
                    [ps EXCEPT !.pc = "restore"]
               [] OTHER -> [ps EXCEPT !.pc = Entry(k)])
  BY Zenon DEF RecoverNext
<1>8. /\ ps \in Process /\ ps.i = proc[q].i /\ ps.done = proc[q].done /\ ps.mem = proc[q].mem
      /\ ps.keep = proc[q].keep /\ ps.own = "unset" /\ ps.fail = proc[q].fail /\ ps.seen = proc[q].seen
  <2>1. NextAttempt(last) \in Nat /\ proc[q] \in Process
    BY <1>5, Registers DEF NextAttempt
  <2> DEFINE att == NextAttempt(last)
  <2> HIDE DEF last, att
  <2> QED BY <1>6, <2>1 DEF Process, att
<1>9. Touches(q) /\ St(i)' = last.st /\ St(i) = last.st /\ (Back(i)' <=> Back(i))
  <2>1. Touches(q)
    BY <1>1, <1>6, NothingTouched
  <2> QED BY <1>3, <1>6, <2>1 DEF St, Back
<1> HIDE DEF last, ref, k, ps
<1>10. ASSUME NEW l \in Inside, NEW own,
              Set(q, [ps EXCEPT !.pc = l]) \/ (Set(q, [ps EXCEPT !.pc = l, !.own = own]) /\ l = "restore"),
              Set(q, [ps EXCEPT !.pc = l]) => At(q)' = l /\ Remains(q) /\ proc'[q].own = "unset"
       PROVE  At(q)' = l /\ Remains(q)
  <2>1. CASE Set(q, [ps EXCEPT !.pc = l])
    BY <1>10, <2>1
  <2>2. CASE Set(q, [ps EXCEPT !.pc = l, !.own = own])
    <3>1. proc'[q] = [ps EXCEPT !.pc = l, !.own = own]
      BY <2>2, SetIs
    <3> QED BY <1>8, <3>1 DEF Process, Remains, Carries
  <2> QED BY <1>10, <2>1, <2>2
<1>11. ASSUME NEW l, Set(q, [ps EXCEPT !.pc = l])
       PROVE  At(q)' = l /\ Remains(q) /\ proc'[q].own = "unset"
  <2>1. proc'[q] = [ps EXCEPT !.pc = l]
    BY <1>11, SetIs
  <2> QED BY <1>8, <2>1 DEF Process, Remains, Carries
<1>12. CASE last.st = "skipped"
  <2>1. Set(q, Preserved(ps, k))
    BY <1>7, <1>12
  <2>2. ~Firm(i)'
    BY <1>9, <1>12 DEF Firm
  <2>3. CASE k \in {"human", "agent", "drift"}
    <3>1. \/ Set(q, Stopped([ps EXCEPT !.human = TRUE]))
          \/ Set(q, Stopped([ps EXCEPT !.drift = TRUE]))
      BY <2>1, <2>3 DEF Preserved
    <3>2. KindOf(i) \notin FileBacked
      BY <1>6, <2>3 DEF FileBacked
    <3> HIDE DEF At, InRun
    <3> QED BY <1>1, <1>2, <1>8, <1>9, <2>2, <3>1, <3>2, StopsThere
  <2>4. CASE k \notin {"human", "agent", "drift"}
    <3>1. Set(q, FailedAction(ps))
      BY <2>1, <2>4 DEF Preserved
    <3>2. KindOf(i) \in Invertible => Back(i)'
      BY <1>6, <1>9, <1>12 DEF Stands
    <3> HIDE DEF At, InRun
    <3> QED BY <1>1, <1>2, <1>8, <1>9, <2>2, <3>1, <3>2, FailsThere
  <2> QED BY <2>3, <2>4
<1>13. CASE last.st = "succeeded" /\ k = "transfer"
  <2>1. Set(q, Verified(ps, FALSE))
    BY <1>7, <1>13
  <2>2. KindOf(i) \notin Invertible
    BY <1>6, <1>13 DEF Invertible, FileBacked, Owning
  <2> HIDE DEF At, InRun
  <2> QED BY <1>1, <1>2, <1>8, <1>9, <1>13, <2>1, <2>2, PassesThere
<1>14. CASE k = "install" /\ last.st \notin {"pending", "skipped"}
  <2>1. Set(q, [ps EXCEPT !.pc = "installer"])
    BY <1>7, <1>14
  <2>2. At(q)' = "installer" /\ Remains(q) /\ proc'[q].own = "unset" /\ "installer" \in Inside
    BY <1>11, <2>1 DEF Inside
  <2>3. Lands(q, i)
    BY <1>9, <1>14, <2>2 DEF Lands
  <2> HIDE DEF At, InRun
  <2> QED BY <1>1, <1>2, <1>9, <2>2, <2>3, RemainsThere
<1>15. CASE k = "remove" /\ last.st = "succeeded" /\ ~last.ref
  <2>1. Set(q, Idle)
    BY <1>7, <1>15
  <2> QED BY <1>6, <2>1, SetIs, EndsThere
<1>16. CASE \/ k = "remove" /\ last.st = "succeeded" /\ last.ref
            \/ last.st \in {"running", "failed"} /\ k # "install" /\ ref
  <2>1. \/ Set(q, [ps EXCEPT !.pc = "restore", !.own = last.prev])
        \/ Set(q, [ps EXCEPT !.pc = "restore"])
    BY <1>7, <1>16
  <2>2. At(q)' = "restore" /\ Remains(q) /\ "restore" \in Inside
        /\ "restore" \notin {"reverify", "installer", "human", "drift", "driftSkip"} \cup Tasks
    <3>1. "restore" \in Inside /\ "restore" \notin {"reverify", "installer", "human", "drift", "driftSkip"} \cup Tasks
      BY DEF Inside, Tasks
    <3> HIDE DEF At, InRun
    <3> QED BY <1>10, <1>11, <2>1, <3>1
  <2>3. Lands(q, i)
    BY <1>6, <1>9, <1>16, <2>2 DEF Lands
  <2> HIDE DEF At, InRun
  <2> QED BY <1>1, <1>2, <1>9, <2>2, <2>3, RemainsThere
<1>17. CASE last.st = "succeeded" /\ k \notin {"transfer", "install", "remove"}
  <2>1. Set(q, [ps EXCEPT !.pc = "reverify"])
    BY <1>7, <1>17
  <2>2. At(q)' = "reverify" /\ Remains(q) /\ proc'[q].own = "unset" /\ "reverify" \in Inside
    BY <1>11, <2>1 DEF Inside
  <2>3. KindOf(i) \in FileBacked => last.ref
    <3>1. KindOf(i) \in FileBacked => Referring(journal[i])
      BY <1>6, Backing DEF Backed
    <3>2. Len(journal[i]) \in 1..Len(journal[i])
      BY <1>3 DEF Ordered, ValidJournal
    <3> QED BY <1>3, <1>17, <3>1, <3>2 DEF Referring, Last
  <2>4. proc'[q].seen[i].last.ref = last.ref
    BY <1>2, <2>2 DEF Remains, last
  <2>5. Lands(q, i)
    BY <1>6, <1>9, <1>17, <2>2, <2>3, <2>4 DEF Lands
  <2> HIDE DEF At, InRun
  <2> QED BY <1>1, <1>2, <1>9, <2>2, <2>5, RemainsThere
<1>18. CASE \/ last.st \in {"running", "failed"} /\ k # "install" /\ ~ref
            \/ last.st = "pending"
  <2>1. Set(q, [ps EXCEPT !.pc = Entry(k)])
    BY <1>7, <1>18
  <2>2. /\ Entry(k) \in {"human", "drift", "agent", "prepare"}
        /\ Entry(k) = "prepare" => k \notin {"human", "drift", "agent"}
    BY DEF Entry
  <2>3. At(q)' = Entry(k) /\ Remains(q) /\ proc'[q].own = "unset" /\ Entry(k) \in Inside
    <3>1. Entry(k) \in Inside
      BY <2>2 DEF Inside, Tasks
    <3> QED BY <1>11, <2>1, <3>1
  <2>4. Lands(q, i)
    BY <1>6, <1>9, <1>18, <2>2, <2>3 DEF Lands
  <2> HIDE DEF At, InRun
  <2> QED BY <1>1, <1>2, <1>9, <2>3, <2>4, RemainsThere
<1>19. last.st \in {"pending", "running", "succeeded", "failed", "skipped"}
  BY <1>5 DEF EventState
<1> QED BY <1>5, <1>12, <1>13, <1>14, <1>15, <1>16, <1>17, <1>18, <1>19

LEMMA RestoreSteady ==
  ASSUME TypeInv, NEW q \in Proc, RInv(q), StayInv, TrackInv(q), Untroubled', Restore(q)
  PROVE  Steady(q)
<1>1. At(q) = "restore" /\ Forward(q) /\ At(q) # "next"
      /\ UNCHANGED <<cur, status, plan, journal, applied, snap, base, edited, kept>>
  BY DEF Restore, Forward, db, history
<1>2. Open(cur) /\ InRun(q)
  BY <1>1, ForwardKnows
<1>3. CASE Restored(q, proc[q].i) /\ Goto(q, Entry(K(q)))
  <2>1. PICK a \in Act : a = proc[q].i
    BY <1>1, AtWork DEF Busy
  <2>2. CanRestore(q, a) /\ file' = [file EXCEPT ![proc[q].i] = Preimage(q, a)]
    BY <1>3, <2>1 DEF Restored
  <2>3. KindOf(a) \in FileBacked /\ Preimage(q, a) = base.file[a]
    BY <1>2, <2>2, RestoresBase
  <2>4. K(q) = KindOf(a) /\ St(a) # "skipped"
    BY <1>1, <2>1, InsideKnows
  <2>5. KindOf(a) \notin {"human", "drift", "agent", "install", "verify"}
    BY <2>3 DEF FileBacked
  <2>6. Touches(q) /\ St(a)' = St(a)
    <3> HIDE DEF At, InRun
    <3> QED BY <1>1, <2>1, <2>2, <2>3, <2>4, <2>5, Wrote
  <2> HIDE DEF At, InRun
  <2> QED BY <1>1, <1>3, <2>1, <2>4, <2>5, <2>6, EntersThere
<1>4. CASE RestoreFails(q, proc[q].i) /\ GiveUp(q)
  <2>1. file' = file
    BY <1>4, NothingTroubles DEF RestoreFails
  <2>2. proc'[q] = Idle
    BY <1>4, SetIs DEF GiveUp
  <2> QED BY <1>1, <2>1, <2>2, EndsThere
<1> QED BY <1>3, <1>4 DEF Restore

LEMMA ReverifySteady ==
  ASSUME TypeInv, NEW q \in Proc, RInv(q), StayInv, TrackInv(q), Reverify(q)
  PROVE  Steady(q)
<1> DEFINE i == proc[q].i
           last == proc[q].seen[i].last
           back == [proc[q] EXCEPT !.own = last.prev]
<1>1. At(q) = "reverify" /\ Forward(q) /\ At(q) # "next" /\ UNCHANGED <<db, fs, history>>
  BY DEF Reverify, Forward
<1>2. UNCHANGED <<cur, status, plan, journal, applied, file, snap, base, edited, kept>>
  BY <1>1 DEF db, fs, history
<1>3. PICK a \in Act : a = i
  BY <1>1, AtWork DEF Busy
<1>4. /\ K(q) = KindOf(a) /\ Stands(a) /\ St(a) = "succeeded" /\ HereInv(q, a)
      /\ KindOf(a) \notin {"transfer", "install", "remove", "human", "drift"}
      /\ KindOf(a) \in FileBacked => last.ref
  <2>1. K(q) = KindOf(a) /\ Stands(a) /\ HereInv(q, a)
    BY <1>1, <1>3, ForwardKnows
  <2>2. St(a) = "succeeded" /\ (KindOf(a) \in FileBacked => last.ref)
    BY <1>1, <1>3, <2>1 DEF HereInv
  <2> QED BY <1>1, <2>1, <2>2 DEF Stands, RInv, PlaceInv
<1>5. Touches(q) /\ St(a)' = St(a)
  BY <1>1, <1>2, NothingTouched DEF St
<1>6. last.prev \in Record /\ proc[q] \in Process
  <2>1. proc[q] \in Process /\ proc[q].seen \in [Act -> [last: Event, ref: BOOLEAN]]
    BY Registers DEF Process
  <2>2. proc[q].seen[a].last \in Event
    BY <2>1
  <2> QED BY <1>3, <2>1, <2>2 DEF Event
<1>7. /\ back \in Process /\ back.mem = proc[q].mem /\ back.keep = proc[q].keep /\ back.done = proc[q].done
      /\ back.i = i /\ back.fail = proc[q].fail /\ back.seen = proc[q].seen
  <2> DEFINE prev == last.prev
  <2>1. prev \in Record
    BY <1>6
  <2> HIDE DEF prev
  <2>2. back = [proc[q] EXCEPT !.own = prev]
    BY DEF prev
  <2> HIDE DEF back
  <2> QED BY <1>6, <2>1, <2>2 DEF Process
<1>8. PICK v \in Verification(K(q), file[i]) :
        Set(q, CASE v = "error" -> Idle
                 [] v = "passed" -> Verified(back, K(q) \in Invertible)
                 [] v = "failed" /\ last.ref -> [proc[q] EXCEPT !.pc = "restore", !.own = last.prev]
                 [] v = "failed" /\ ~last.ref -> FailedAction(proc[q]))
  BY DEF Reverify
<1>9. v \in {"passed", "failed", "error"} /\ (file[a] = "new" => v = "passed")
  BY <1>3 DEF Verification, Matches
<1> HIDE DEF back
<1>10. CASE v = "error"
  <2>1. proc'[q] = Idle
    BY <1>8, <1>10, SetIs
  <2> QED BY <1>2, <2>1, EndsThere
<1>11. CASE v = "passed"
  <2>1. Set(q, Verified(back, K(q) \in Invertible)) /\ (K(q) \in Invertible) \in BOOLEAN
    BY <1>8, <1>11
  <2> HIDE DEF At, InRun
  <2> QED BY <1>1, <1>3, <1>4, <1>5, <1>7, <2>1, PassesThere
<1>12. CASE v = "failed"
  <2>1. KindOf(a) \notin {"agent", "verify"}
    BY <1>4, <1>9, <1>12 DEF Stands
  <2>2. KindOf(a) \in FileBacked /\ last.ref
    <3>1. KindOf(a) \in Kind
      BY <1>1, ForwardKnows DEF TypeInv, DurableOK, KindOf
    <3> QED BY <1>4, <2>1, <3>1 DEF Kind, FileBacked
  <2>3. Set(q, [proc[q] EXCEPT !.pc = "restore", !.own = last.prev])
    BY <1>8, <1>12, <2>2
  <2>4. At(q)' = "restore" /\ Remains(q)
    <3> DEFINE prev == last.prev
    <3>1. proc'[q] = [proc[q] EXCEPT !.pc = "restore", !.own = prev]
      BY <2>3, SetIs
    <3> HIDE DEF prev
    <3> QED BY <1>6, <3>1 DEF Process, Remains, Carries
  <2>5. "restore" \in Inside /\ "restore" \notin {"reverify", "installer", "human", "drift", "driftSkip"} \cup Tasks
    BY DEF Inside, Tasks
  <2>6. KindOf(a) \notin {"agent", "install"}
    BY <1>4, <2>1
  <2>7. Lands(q, a)
    BY <1>4, <1>5, <2>4, <2>6 DEF Lands
  <2> HIDE DEF At, InRun
  <2> QED BY <1>1, <1>3, <1>5, <2>4, <2>5, <2>7, RemainsThere
<1> QED BY <1>9, <1>10, <1>11, <1>12

LEMMA InstallerSteady ==
  ASSUME TypeInv, NEW q \in Proc, RInv(q), StayInv, TrackInv(q), Untroubled', Installer(q)
  PROVE  Steady(q)
<1>1. At(q) = "installer" /\ Forward(q) /\ At(q) # "next" /\ UNCHANGED <<fs, history>>
  BY DEF Installer, Forward
<1>2. /\ Open(cur) /\ proc[q].run = cur /\ K(q) = "install" /\ proc[q] \in Process
      /\ ~TransactionFails(q)
  BY <1>1, ForwardKnows, NothingTroubles, Registers DEF RInv, PlaceInv
<1>3. /\ {"succeeded", "skipped"} \subseteq EventState /\ {"passed", "other"} \subseteq Method
      /\ FALSE \in BOOLEAN /\ "install" \notin Invertible
  BY DEF EventState, Method, Invertible, FileBacked, Owning
<1>4. \A a \in Act : a = proc[q].i => KindOf(a) = "install" /\ Stands(a)
  BY <1>1, <1>2, ForwardKnows
<1>5. PICK v \in Verification("install", file[proc[q].i]) :
       \/ /\ v = "passed"
          /\ Note(q, "succeeded", FALSE, "passed")
          /\ Set(q, Verified(proc[q], FALSE))
       \/ /\ \/ v = "failed" /\ Note(q, "skipped", FALSE, "other")
             \/ v # "error" /\ TransactionFails(q)
             \/ v = "error" /\ UNCHANGED <<db, spent>>
          /\ Set(q, Stopped([proc[q] EXCEPT !.human = TRUE]))
  BY DEF Installer
<1>6. /\ v = "passed" <=> file[proc[q].i] = "new"
      /\ \A a \in Act : a = proc[q].i /\ v # "passed" => ~Firm(a)
  <2>1. v = "passed" <=> file[proc[q].i] = "new"
    BY DEF Verification, Matches
  <2> QED BY <1>4, <2>1 DEF Firm, Stands
<1>7. CASE v = "passed" /\ Note(q, "succeeded", FALSE, "passed") /\ Set(q, Verified(proc[q], FALSE))
  <2>1. Touches(q) /\ \A a \in Act : a = proc[q].i => St(a)' = "succeeded"
    <3> HIDE DEF At, InRun
    <3> QED BY <1>1, <1>2, <1>3, <1>4, <1>6, <1>7, Noted
  <2> HIDE DEF At, InRun
  <2> QED BY <1>1, <1>2, <1>3, <1>4, <1>7, <2>1, PassesThere
<1>8. CASE v = "failed" /\ Note(q, "skipped", FALSE, "other") /\ Set(q, Stopped([proc[q] EXCEPT !.human = TRUE]))
  <2>1. \A a \in Act : a = proc[q].i => ~Firm(a)
    BY <1>6, <1>8
  <2> HIDE DEF At, InRun
  <2> QED BY <1>1, <1>2, <1>3, <1>8, <2>1, OutcomeSteady
<1>9. CASE v = "error" /\ UNCHANGED db /\ Set(q, Stopped([proc[q] EXCEPT !.human = TRUE]))
  <2>1. Touches(q) /\ \A a \in Act : St(a)' = St(a) /\ KindOf(a)' = KindOf(a)
    <3>1. UNCHANGED <<cur, status, plan, journal, applied, file, snap, base, edited>>
      BY <1>1, <1>9 DEF db, fs, history
    <3> QED BY <1>1, <3>1, NothingTouched DEF St, KindOf
  <2>2. \A a \in Act : a = proc[q].i => ~Firm(a)' /\ KindOf(a) \notin FileBacked
    BY <1>3, <1>4, <1>6, <1>9, <2>1 DEF Firm, Invertible
  <2> HIDE DEF At, InRun
  <2> QED BY <1>1, <1>2, <1>9, <2>1, <2>2, StopsThere
<1> QED BY <1>2, <1>5, <1>7, <1>8, <1>9

----------------------------------------------------------------------------
(* How an invocation begins and ends. *)

\* An invocation enters the loop with nothing of its own.
LEMMA EntersTracks ==
  ASSUME NEW q \in Proc, At(q)' = "next", proc'[q].i = 1, proc'[q].done = <<>>, ~proc'[q].fail,
         proc'[q].mem = [a \in Act |-> "none"], proc'[q].own = "unset", proc'[q].keep = {}
  PROVE  TrackInv(q)'
<1>1. /\ At(q)' \notin Failing /\ At(q)' \notin Rolling \cup {"cascadeJournal", "skip", "complete", "cleanup", "planned"}
      /\ \A a \in Act : ~(a < proc'[q].i) /\ ~InDone(q, a)'
  BY ConstantsAssumption DEF Failing, InDone, Act
<1>2. PathInv(q)'
  BY <1>1 DEF PathInv
<1>3. ASSUME NEW a \in Act
      PROVE  HereInv(q, a)' /\ AroundInv(q, a)'
  <2>1. HereInv(q, a)'
    BY DEF HereInv
  <2>2. proc'[q].mem[a] = "none"
    OBVIOUS
  <2> HIDE DEF At, InRun
  <2> QED BY <1>1, <2>1, <2>2 DEF AroundInv
<1> QED BY <1>2, <1>3 DEF TrackInv

LEMMA PlanSteady ==
  ASSUME TypeInv, NEW q \in Proc, StayInv, Plan(q)
  PROVE  Steady(q)
<1>1. UNCHANGED <<cur, status, plan, journal, applied, file, snap, base, edited, kept>>
  BY DEF Plan, db, fs, history
<1>2. PICK pl \in Plans : /\ \A a \in Act : Drafted(pl[a], file[a], applied[a])
                          /\ Set(q, [Idle EXCEPT !.pc = "planned", !.plan = pl, !.inp = applied])
  BY DEF Plan
<1>3. At(q)' = "planned" /\ proc'[q].plan = pl /\ proc'[q].own = "unset" /\ proc'[q].keep = {} /\ proc'[q].fail = FALSE
  <2>1. proc'[q] = [Idle EXCEPT !.pc = "planned", !.plan = pl, !.inp = applied]
    BY <1>2, SetIs
  <2> QED BY <2>1, IdleIs, IdleBooks DEF Process
<1>4. \A a \in Act : pl[a] = "verify" => file'[a] = "new"
  BY <1>1, <1>2 DEF Drafted
<1>5. ~InRun(q)' /\ ~Forward(q)' /\ At(q)' \notin Failing
      /\ At(q)' \notin Rolling \cup {"cascadeJournal", "skip", "complete", "cleanup"}
  BY <1>3 DEF Forward, Failing
<1>6. TrackInv(q)'
  <2> HIDE DEF At, InRun
  <2>1. PathInv(q)'
    BY <1>3, <1>5 DEF PathInv
  <2>2. \A a \in Act : HereInv(q, a)' /\ AroundInv(q, a)'
    BY <1>3, <1>4, <1>5 DEF HereInv, AroundInv
  <2> QED BY <2>1, <2>2 DEF TrackInv
<1> QED BY <1>1, <1>6, StaysPut DEF Steady

LEMMA StartRefusedSteady ==
  ASSUME TypeInv, NEW q \in Proc, StayInv, StartRefused(q)
  PROVE  Steady(q)
<1>1. UNCHANGED <<cur, status, plan, journal, applied, file, snap, base, edited, kept>> /\ proc'[q] = Idle
  BY SetIs DEF StartRefused, db, fs, history
<1> QED BY <1>1, EndsThere

\* A new run finds every target as it is, and no snapshot.
LEMMA StartRunSteady ==
  ASSUME TypeInv, NEW q \in Proc, RInv(q), StayInv, TrackInv(q), StartRun(q)
  PROVE  Steady(q)
<1>1. /\ At(q) = "planned" /\ cur < MaxRuns /\ cur' = cur + 1 /\ journal' = [a \in Act |-> <<PendingEvent>>]
      /\ base'.file = file /\ edited' = {} /\ UNCHANGED <<file, snap>>
  BY DEF StartRun, fs
<1>2. cur \in Int /\ cur' \in Run /\ cur' > cur
  BY <1>1, ConstantsAssumption DEF TypeInv, DurableOK, Run
<1>3. status'[cur'] = "applying" /\ plan'[cur'] = proc[q].plan
  BY <1>2 DEF StartRun, TypeInv, DurableOK
<1>4. Fresh(q) /\ proc[q] \in Process
  BY <1>1, Registers DEF RInv, RunInv
<1>5. /\ At(q)' = "next" /\ proc'[q].i = 1 /\ proc'[q].done = <<>> /\ proc'[q].mem = [a \in Act |-> "none"]
      /\ ~proc'[q].fail /\ proc'[q].own = proc[q].own /\ proc'[q].keep = proc[q].keep
  <2>1. proc'[q] = [proc[q] EXCEPT !.pc = "next", !.run = cur + 1]
    BY SetIs DEF StartRun
  <2> QED BY <1>4, <2>1 DEF Process, Fresh, Flagged
<1>6. proc[q].own = "unset" /\ proc[q].keep = {}
  BY <1>1 DEF TrackInv, PathInv
<1>7. TrackInv(q)'
  <2> HIDE DEF At, InRun
  <2> QED BY <1>5, <1>6, EntersTracks
<1>8. snap'[cur'] = [a \in Act |-> "none"]
  BY <1>1, <1>2 DEF RInv, RunInv
<1>9. ASSUME NEW a \in Act
      PROVE  StandInv(a)' /\ ClosedInv(a)'
  <2>1. St(a)' = "pending" /\ Back(a)' /\ snap'[cur'][a] = "none" /\ file'[a] = base'.file[a]
    <3>1. journal'[a] = <<PendingEvent>>
      BY <1>1
    <3>2. Last(journal'[a]) = PendingEvent
      BY <3>1 DEF Last
    <3> QED BY <1>1, <1>8, <3>2 DEF St, Back, PendingEvent, Ev
  <2>2. KindOf(a)' = "verify" => file'[a] = "new"
    <3>1. KindOf(a)' = proc[q].plan[a]
      BY <1>3 DEF KindOf
    <3> QED BY <1>1, <3>1 DEF TrackInv, AroundInv
  <2>3. ~Ended' /\ status'[cur'] # "Failed"
    BY <1>3 DEF Ended, Terminal
  <2>4. StandInv(a)'
    BY <2>1, <2>2 DEF StandInv, Stands
  <2>5. ClosedInv(a)'
    BY <2>3 DEF ClosedInv
  <2> QED BY <2>4, <2>5
<1>10. StayInv'
  BY <1>1, <1>9 DEF StayInv
<1> QED BY <1>7, <1>10 DEF Steady

LEMMA RecoverStartSteady ==
  ASSUME TypeInv, NEW q \in Proc, StayInv, RecoverStart(q)
  PROVE  Steady(q)
<1>1. UNCHANGED <<cur, status, plan, journal, applied, file, snap, base, edited, kept>>
  BY DEF RecoverStart, db, fs, history
<1> DEFINE sn == [a \in Act |-> [last |-> Last(journal[a]), ref |-> HasReference(journal[a])]]
           rs == [a \in Act |-> IF Displaced(journal[a]) # "none"
                                THEN Displaced(journal[a]) ELSE applied[a]]
           b == drifts # {}
<1>2. Set(q, [Idle EXCEPT !.pc = "next", !.mode = "recover", !.run = cur, !.plan = plan[cur],
                          !.inp = rs, !.seen = sn, !.drift = b])
  BY DEF RecoverStart
<1> HIDE DEF sn, rs, b
<1>3. /\ At(q)' = "next" /\ proc'[q].i = 1 /\ proc'[q].done = <<>> /\ proc'[q].mem = [a \in Act |-> "none"]
      /\ ~proc'[q].fail /\ proc'[q].own = "unset" /\ proc'[q].keep = {}
  <2>1. proc'[q] = [Idle EXCEPT !.pc = "next", !.mode = "recover", !.run = cur, !.plan = plan[cur],
                                !.inp = rs, !.seen = sn, !.drift = b]
    BY <1>2, SetIs
  <2> QED BY <2>1, IdleIs, IdleBooks DEF Process
<1>4. TrackInv(q)'
  <2> HIDE DEF At, InRun
  <2> QED BY <1>3, EntersTracks
<1> QED BY <1>1, <1>4, StaysPut DEF Steady

LEMMA AbandonStartSteady ==
  ASSUME TypeInv, NEW q \in Proc, StayInv, AbandonStart(q)
  PROVE  Steady(q)
<1>1. UNCHANGED <<cur, status, plan, journal, applied, file, snap, base, edited, kept>>
  BY DEF AbandonStart, db, fs, history
<1>2. At(q)' = "abandon" /\ proc'[q].keep = {}
  <2>1. proc'[q] = [Idle EXCEPT !.pc = "abandon", !.run = cur, !.plan = plan[cur], !.inp = applied]
    BY SetIs DEF AbandonStart
  <2> QED BY <2>1, IdleIs, IdleBooks DEF Process
<1>3. TrackInv(q)'
  <2> HIDE DEF At, InRun
  <2> QED BY <1>2, AsideTracks
<1> QED BY <1>1, <1>3, StaysPut DEF Steady

\* The snapshots of an abandoned run stay.
LEMMA AbandonSteady ==
  ASSUME TypeInv, NEW q \in Proc, RInv(q), StayInv, Untroubled', Abandon(q)
  PROVE  Steady(q)
<1>1. At(q) = "abandon" /\ proc'[q] = Idle /\ UNCHANGED <<file, snap, base, edited>>
  BY SetIs DEF Abandon, fs
<1>2. proc[q].run = cur /\ Open(cur)
  BY <1>1 DEF RInv, RunInv
<1>3. status' = [status EXCEPT ![cur] = "Failed"] /\ UNCHANGED <<cur, plan>> /\ kept' = Act
  BY <1>2, NothingTroubles DEF Abandon
<1>4. ~Open(cur)'
  BY <1>2, <1>3 DEF Open, Recoverable, TypeInv, DurableOK
<1>5. edited = {} /\ edited' = {}
  BY <1>1 DEF StayInv
<1>6. ASSUME NEW a \in Act
      PROVE  Whole(a)' \/ (KindOf(a)' \in FileBacked => snap'[cur'][a] = base'.file[a])
  <2>1. SafeInv(a)
    BY DEF RInv, ActionInv
  <2>2. KindOf(a) \in FileBacked /\ file[a] # base.file[a] => snap[cur][a] = base.file[a]
    BY <1>2, <1>5, <2>1 DEF SafeInv
  <2>3. KindOf(a)' = KindOf(a)
    BY <1>3 DEF KindOf
  <2> QED BY <1>1, <1>3, <2>2, <2>3 DEF Whole, Back
<1>7. StayInv'
  BY <1>3, <1>4, <1>5, <1>6, ClosesWhole
<1>8. TrackInv(q)'
  <2>1. At(q)' \in {"idle", "abandon"} /\ proc'[q].keep = {}
    BY <1>1 DEF Idle
  <2> QED BY <2>1, AsideTracks
<1> QED BY <1>7, <1>8 DEF Steady

----------------------------------------------------------------------------
(* Crashes and interrupts. *)

\* A step that touches only the action of the loop keeps what the journal says.
LEMMA TouchedStays ==
  ASSUME TypeInv, NEW q \in Proc, RInv(q), StayInv, TrackInv(q), Forward(q), Touches(q)
  PROVE  StayInv'
<1>1. Open(cur) /\ \A a \in Act : a < proc[q].i => Firm(a)
  BY ForwardKnows
<1> QED BY <1>1, TouchStays DEF Touches

\* A target that is torn is of an action of which that was to be expected.
LEMMA TornStays ==
  ASSUME TypeInv, NEW q \in Proc, RInv(q), StayInv, TrackInv(q), file' \in Torn(q),
         UNCHANGED <<cur, status, plan, journal, applied, snap, base, edited, kept>>
  PROVE  /\ StayInv'
         /\ Forward(q) /\ At(q) # "next" => Touches(q) /\ \A a \in Act : a = proc[q].i => St(a)' = St(a)
<1> DEFINE a == IF proc[q].pc = "cascade" THEN Top(q).a ELSE proc[q].i
           executing == proc[q].pc = "execute"
           restoring == /\ \/ proc[q].pc = "restore"
                           \/ proc[q].pc \in {"undoVerify", "undo", "intUndo", "intUnlink"}
                              /\ proc[q].prep
                           \/ proc[q].pc = "cascade" /\ proc[q].done # <<>>
                        /\ proc[q].plan[a] \in FileBacked /\ CanRestore(q, a)
           left == CASE executing -> Unfinished(K(q), file[a], Written(q))
                     [] restoring -> Unfinished(proc[q].plan[a], file[a], Preimage(q, a))
                     [] OTHER -> {}
<1>1. file' \in {file} \cup {[file EXCEPT ![a] = c] : c \in left}
  BY DEF Torn
<1>2. CASE file' = file
  <2>1. StayInv'
    BY <1>2, StaysPut
  <2>2. Forward(q) => Touches(q) /\ \A x \in Act : St(x)' = St(x)
    BY <1>2, NothingTouched DEF St
  <2> QED BY <2>1, <2>2
<1>3. CASE file' # file /\ executing
  <2>1. At(q) = "execute" /\ Forward(q) /\ At(q) # "next" /\ a = proc[q].i
    BY <1>3 DEF Forward
  <2>2. PICK i \in Act : i = proc[q].i
    BY <2>1, AtWork DEF Busy
  <2>3. PICK c \in Unfinished(K(q), file[i], Written(q)) : file' = [file EXCEPT ![proc[q].i] = c]
    BY <1>1, <1>3, <2>1, <2>2
  <2>4. /\ K(q) = KindOf(i) /\ St(i) # "skipped" /\ (St(i) = "succeeded" => KindOf(i) \notin {"agent", "install"})
    BY <2>1, <2>2, InsideKnows
  <2>5. /\ KindOf(i) = "verify" => c = file[i]
        /\ KindOf(i) = "append" => c \in {base.file[i], Desired("append", base.file[i])}
    BY <2>1, <2>2, <2>4, WrittenIs DEF Unfinished, Divisible
  <2>6. Touches(q) /\ St(i)' = St(i)
    <3> HIDE DEF At, InRun, a, executing, restoring, left
    <3> QED BY <2>1, <2>2, <2>3, <2>4, <2>5, Wrote
  <2>7. StayInv'
    BY <2>1, <2>6, TouchedStays
  <2> QED BY <2>2, <2>6, <2>7
<1>4. CASE file' # file /\ ~executing
  <2>1. /\ restoring /\ At(q) \in {"restore", "undoVerify", "undo", "intUndo", "intUnlink", "cascade"}
        /\ At(q) = "cascade" => proc[q].done # <<>>
        /\ CanRestore(q, a) /\ left = Unfinished(proc[q].plan[a], file[a], Preimage(q, a))
    BY <1>1, <1>4
  <2>2. InRun(q) /\ Busy(proc[q]) /\ proc[q].i \in Act
    BY <2>1, AtWork DEF Busy
  <2>3. At(q) = "cascade" => Top(q).a \in Act
    BY <2>1, PopHolds
  <2>4. PICK i \in Act : i = a
    BY <2>2, <2>3
  <2>5. /\ At(q) # "cascade" => i = proc[q].i /\ Forward(q) /\ At(q) # "next"
        /\ At(q) = "cascade" => ~Forward(q)
        /\ At(q) \notin Over
    BY <2>1, <2>4 DEF Forward
  <2> HIDE DEF At, InRun, a, executing, restoring, left
  <2>6. PICK c \in Unfinished(proc[q].plan[i], file[i], Preimage(q, i)) : file' = [file EXCEPT ![i] = c]
    BY <1>1, <1>4, <2>1, <2>4
  <2>7. Open(cur) /\ proc[q].plan[i] = KindOf(i)
    BY <2>2, <2>5, InRunIs
  <2>8. KindOf(i) \in FileBacked /\ Preimage(q, i) = base.file[i]
    BY <2>1, <2>2, <2>4, <2>7, RestoresBase
  <2>9. Stands(i) /\ (~Back(i) => \A b \in Act : b < i => Firm(b))
    BY <2>7, <2>8 DEF StayInv, StandInv, Invertible
  <2>10. /\ KindOf(i) = "append" => c \in {base.file[i], Desired("append", base.file[i])}
         /\ file[i] = base.file[i] => c = base.file[i]
         /\ KindOf(i) \notin {"agent", "install", "verify", "human", "drift"}
    <3>1. KindOf(i) = "append" => c \in {base.file[i], Desired("append", base.file[i])}
      BY <2>6, <2>7, <2>8, <2>9 DEF Stands, Unfinished, Divisible
    <3>2. file[i] = base.file[i] => c = base.file[i]
      BY <2>6, <2>8, UnfinishedSame
    <3> QED BY <2>8, <3>1, <3>2 DEF FileBacked
  <2>11. file'[i] = c /\ \A x \in Act \ {i} : file'[x] = file[x]
    BY <2>6 DEF TypeInv, DurableOK
  <2>12. StayInv'
    <3>1. Spares(i)
      BY <2>11 DEF Spares
    <3>2. KindOf(i)' = KindOf(i) /\ (Wanted(i)' <=> Wanted(i)) /\ St(i)' = St(i) /\ (Firm(i)' <=> Firm(i))
      BY DEF KindOf, Wanted, St, Firm
    <3>3. edited = {} /\ edited' = {}
      BY DEF StayInv
    <3>4. Back(i) => Back(i)'
      BY <2>10, <2>11, <3>3 DEF Back
    <3>5. Stands(i)'
      BY <2>9, <2>10, <2>11, <3>2, <3>4 DEF Stands
    <3> QED BY <2>7, <2>9, <3>1, <3>2, <3>4, <3>5, TouchStays
  <2>13. Forward(q) /\ At(q) # "next" => Touches(q) /\ St(i)' = St(i)
    <3> SUFFICES ASSUME Forward(q), At(q) # "next"
                 PROVE  Touches(q) /\ St(i)' = St(i)
      OBVIOUS
    <3>1. i = proc[q].i
      BY <2>5
    <3>2. St(i) # "skipped"
      BY <3>1, InsideKnows
    <3> QED BY <2>6, <2>10, <3>1, <3>2, Wrote
  <2> QED BY <2>5, <2>12, <2>13
<1> QED BY <1>2, <1>3, <1>4

LEMMA CrashSteady ==
  ASSUME TypeInv, NEW q \in Proc, RInv(q), StayInv, TrackInv(q), Crash(q)
  PROVE  Steady(q)
<1>1. /\ proc'[q] = Idle /\ file' \in Torn(q)
      /\ UNCHANGED <<cur, status, plan, journal, applied, snap, base, edited, kept>>
  BY SetIs DEF Crash, db, history
<1>2. At(q)' \in {"idle", "abandon"} /\ proc'[q].keep = {}
  BY <1>1 DEF Idle
<1> QED BY <1>1, <1>2, TornStays, AsideTracks DEF Steady

LEMMA InterruptSteady ==
  ASSUME TypeInv, NEW q \in Proc, RInv(q), StayInv, TrackInv(q), Interrupt(q)
  PROVE  Steady(q)
<1> DEFINE work == {"prepare", "running", "execute", "verify", "succeed", "undoVerify", "failVerify"}
<1>1. file' \in Torn(q) /\ UNCHANGED <<cur, status, plan, journal, applied, snap, base, edited, kept>>
  BY DEF Interrupt, db, history
<1>2. StayInv' /\ (Forward(q) /\ At(q) # "next" => Touches(q) /\ \A a \in Act : a = proc[q].i => St(a)' = St(a))
  BY <1>1, TornStays
<1>3. \/ Set(q, Idle)
      \/ /\ InRun(q) /\ Goto(q, "intComplete")
      \/ At(q) \in work /\ Goto(q, "intUndo")
      \/ At(q) = "execute" /\ K(q) = "remove" /\ Goto(q, "intUnlink")
      \/ At(q) \in Tasks /\ Goto(q, "intAgent")
  BY DEF Interrupt, Tasks
<1>4. CASE Set(q, Idle)
  <2>1. proc'[q] = Idle
    BY <1>4, SetIs
  <2>2. At(q)' \in {"idle", "abandon"} /\ proc'[q].keep = {}
    BY <2>1 DEF Idle
  <2> QED BY <1>2, <2>2, AsideTracks DEF Steady
<1>5. CASE InRun(q) /\ Goto(q, "intComplete")
  <2>1. At(q)' = "intComplete" /\ Carries(q)
    BY <1>5, GotoRemains DEF Remains
  <2> QED BY <1>1, <1>2, <1>5, <2>1, HandedTracks DEF Steady
<1>6. ASSUME NEW l \in {"intUndo", "intUnlink", "intAgent"}, At(q) \in work \cup Tasks, Goto(q, l),
             l = "intAgent" => At(q) \in Tasks
      PROVE  Steady(q)
  <2>1. Forward(q) /\ At(q) # "next" /\ At(q) \notin {"installer", "reverify"}
    BY <1>6 DEF Forward, Tasks
  <2>2. l \in Inside /\ (l \in {"reverify", "installer", "human", "drift", "driftSkip"} \cup Tasks => proc[q].own = "unset")
    BY <1>6 DEF Inside, Tasks, TrackInv, PathInv
  <2>3. At(q)' = l
    BY <1>6, GotoRemains
  <2>4. ASSUME NEW a \in Act, a = proc[q].i
        PROVE  Lands(q, a)
    <3>1. St(a) # "skipped" /\ (St(a) = "succeeded" => KindOf(a) \notin {"agent", "install"}) /\ St(a)' = St(a)
      BY <1>2, <2>1, <2>4, InsideKnows
    <3> QED BY <2>3, <3>1 DEF Lands
  <2> HIDE DEF At, InRun, work
  <2> QED BY <1>2, <1>6, <2>1, <2>2, <2>4, GoesThere
<1> QED BY <1>3, <1>4, <1>5, <1>6

LEMMA InterruptUndoSteady ==
  ASSUME TypeInv, NEW q \in Proc, RInv(q), StayInv, TrackInv(q), Untroubled', InterruptUndo(q)
  PROVE  Steady(q)
<1>1. /\ At(q) \in {"intUndo", "intUnlink"} /\ Forward(q) /\ At(q) # "next" /\ InRun(q)
      /\ At(q) \notin {"installer", "reverify"}
      /\ UNCHANGED <<cur, status, plan, journal, applied, snap, base, edited, kept>>
  BY DEF InterruptUndo, Forward, db, history
<1>2. PICK i \in Act : i = proc[q].i
  BY <1>1, AtWork DEF Busy
<1>3. /\ K(q) = KindOf(i) /\ St(i) # "skipped" /\ (St(i) = "succeeded" => KindOf(i) \notin {"agent", "install"})
      /\ Open(cur)
  BY <1>1, <1>2, InsideKnows, ForwardKnows
<1>4. ASSUME Goto(q, "intFail"), Touches(q), St(i)' = St(i)
      PROVE  Steady(q)
  <2>1. At(q)' = "intFail" /\ "intFail" \in Inside
        /\ "intFail" \notin {"reverify", "installer", "human", "drift", "driftSkip"} \cup Tasks
    BY <1>4, GotoRemains DEF Inside, Tasks
  <2>2. Lands(q, i)
    BY <1>3, <1>4, <2>1 DEF Lands
  <2> HIDE DEF At, InRun
  <2> QED BY <1>1, <1>2, <1>4, <2>1, <2>2, GoesThere
<1>5. CASE /\ CanRestore(q, i)
           /\ \E c \in {Preimage(q, i)} \cup
                       (IF proc[q].pc = "intUnlink" THEN {"absent"} ELSE {}) :
                file' = [file EXCEPT ![i] = c]
           /\ Goto(q, "intFail")
  <2>1. KindOf(i) \in FileBacked /\ Preimage(q, i) = base.file[i]
    BY <1>1, <1>3, <1>5, RestoresBase
  <2>2. PICK c : file' = [file EXCEPT ![i] = c] /\ (At(q) # "intUnlink" => c = base.file[i])
    BY <1>5, <2>1
  <2>3. At(q) = "intUnlink" => KindOf(i) = "remove"
    BY <1>3 DEF RInv, PlaceInv
  <2>4. KindOf(i) # "verify" /\ (KindOf(i) = "append" => c = base.file[i])
    BY <2>1, <2>2, <2>3 DEF FileBacked
  <2>5. Touches(q) /\ St(i)' = St(i)
    <3> HIDE DEF At, InRun
    <3> QED BY <1>1, <1>2, <1>3, <2>2, <2>4, Wrote
  <2> QED BY <1>4, <1>5, <2>5
<1>6. CASE file' = file /\ Goto(q, "intFail")
  <2>1. Touches(q) /\ St(i)' = St(i)
    BY <1>1, <1>6, NothingTouched DEF St
  <2> QED BY <1>4, <1>6, <2>1
<1>7. CASE RestoreFails(q, i) /\ Goto(q, "intComplete")
  <2>1. file' = file
    BY <1>7, NothingTroubles DEF RestoreFails
  <2>2. At(q)' = "intComplete" /\ Carries(q)
    BY <1>7, GotoRemains DEF Remains
  <2>3. StayInv'
    BY <1>1, <2>1, StaysPut
  <2>4. TrackInv(q)'
    <3> HIDE DEF At, InRun
    <3> QED BY <1>1, <2>2, HandedTracks
  <2> QED BY <2>3, <2>4 DEF Steady
<1> QED BY <1>2, <1>5, <1>6, <1>7 DEF InterruptUndo

LEMMA InterruptFailSteady ==
  ASSUME TypeInv, NEW q \in Proc, RInv(q), StayInv, TrackInv(q), Untroubled', InterruptFail(q)
  PROVE  Steady(q)
<1>1. /\ At(q) \in {"intFail", "intAgent"} /\ Forward(q) /\ At(q) # "next" /\ InRun(q)
      /\ At(q) \notin {"installer", "reverify"} /\ UNCHANGED <<fs, history>>
  BY DEF InterruptFail, Forward
<1>2. Open(cur) /\ proc[q].run = cur
  BY <1>1, ForwardKnows
<1>3. Note(q, "failed", proc[q].prep, "other") /\ Goto(q, "intComplete")
  BY <1>2, NothingTroubles DEF InterruptFail
<1>4. \A a \in Act : a = proc[q].i => ~Firm(a) \/ KindOf(a) \notin {"agent", "install"}
  BY <1>1, InsideKnows
<1>5. Touches(q)
  <2>1. proc[q].prep \in BOOLEAN /\ "failed" \in EventState /\ "other" \in Method
    BY Registers DEF EventState, Method
  <2> HIDE DEF At, InRun
  <2> QED BY <1>1, <1>3, <1>4, <2>1, Noted
<1>6. At(q)' = "intComplete" /\ Carries(q)
  BY <1>3, GotoRemains DEF Remains
<1>7. TrackInv(q)'
  <2>1. UNCHANGED <<cur, plan>>
    BY <1>5 DEF Touches
  <2> HIDE DEF At, InRun
  <2> QED BY <1>1, <1>6, <2>1, HandedTracks
<1> QED BY <1>1, <1>5, <1>7, TouchedStays DEF Steady

\* A run that is closed as Interrupted may still be recovered.
LEMMA InterruptCompleteSteady ==
  ASSUME TypeInv, NEW q \in Proc, RInv(q), StayInv, TrackInv(q), InterruptComplete(q)
  PROVE  Steady(q)
<1>1. At(q) = "intComplete" /\ InRun(q) /\ proc'[q] = Idle
      /\ UNCHANGED <<cur, plan, journal, applied, fs, history>>
  BY SetIs DEF InterruptComplete
<1>2. UNCHANGED <<cur, plan, journal, applied, file, snap, base, edited, kept>>
  BY <1>1 DEF fs, history
<1>3. proc[q].run = cur /\ cur \in Run
  BY <1>1, InRunIs
<1>4. status' = status \/ (Open(cur) /\ status' = [status EXCEPT ![cur] = "Interrupted"])
  BY <1>3 DEF InterruptComplete
<1>5. StayInv'
  <2>1. CASE status' = status
    BY <1>2, <2>1, StaysPut
  <2>2. CASE Open(cur) /\ status' = [status EXCEPT ![cur] = "Interrupted"]
    <3>1. status'[cur] = "Interrupted" /\ Open(cur)'
      BY <1>2, <1>3, <2>2 DEF Open, Recoverable, TypeInv, DurableOK
    <3>2. /\ \A a \in Act : KindOf(a)' = KindOf(a) /\ (Back(a)' <=> Back(a)) /\ (Firm(a)' <=> Firm(a))
          /\ \A a \in Act : (Wanted(a)' <=> Wanted(a)) /\ St(a)' = St(a)
      BY <1>2 DEF KindOf, Back, Firm, St, Wanted
    <3>3. \A a \in Act : Stands(a)' <=> Stands(a)
      BY <1>2, <3>2 DEF Stands
    <3>4. \A a \in Act : StandInv(a)'
      BY <2>2, <3>2, <3>3 DEF StayInv, StandInv
    <3>5. \A a \in Act : ClosedInv(a)'
      BY <1>2, <3>1 DEF ClosedInv, Ended, Terminal
    <3> QED BY <1>2, <3>4, <3>5 DEF StayInv
  <2> QED BY <1>4, <2>1, <2>2
<1>6. TrackInv(q)'
  <2>1. At(q)' \in {"idle", "abandon"} /\ proc'[q].keep = {}
    BY <1>1 DEF Idle
  <2> QED BY <2>1, AsideTracks
<1> QED BY <1>5, <1>6 DEF Steady

----------------------------------------------------------------------------
(* Every step of the system. *)

\* Every step an invocation takes.
LEMMA OwnStepSteady ==
  ASSUME TypeInv, NEW q \in Proc, RInv(q), StayInv, TrackInv(q), Untroubled',
         Step(q) \/ Plan(q) \/ RecoverStart(q) \/ AbandonStart(q) \/ Crash(q) \/ Interrupt(q)
  PROVE  Steady(q)
<1>1. CASE StartRun(q) \/ StartRefused(q) \/ RunNext(q) \/ Prepare(q) \/ JournalRunning(q) \/ Execute(q)
           \/ ExecuteFails(q) \/ Verify(q) \/ JournalSucceeded(q)
  BY <1>1, StartRunSteady, StartRefusedSteady, RunNextSteady, PrepareSteady, JournalRunningSteady,
     ExecuteSteady, VerifySteady, JournalSucceededSteady
<1>2. CASE Human(q) \/ RecordDrift(q) \/ DriftSkip(q) \/ Agent(q) \/ AgentResolve(q) \/ AgentVerify(q)
           \/ AgentSucceed(q) \/ AgentFail(q) \/ AgentSkip(q) \/ AgentError(q)
  BY <1>2, HumanSteady, RecordDriftSteady, DriftSkipSteady, AgentSteady, AgentResolveSteady, AgentEndSteady
<1>3. CASE Cascade(q) \/ CascadeJournal(q) \/ CascadeEnd(q) \/ Skip(q) \/ Complete(q) \/ CompleteFails(q)
           \/ Cleanup(q) \/ Abandon(q)
  BY <1>3, CascadeSteady, CascadeJournalSteady, CascadeEndSteady, SkipSteady, CompleteSteady, CleanupSteady,
     AbandonSteady
<1>4. CASE RecoverNext(q) \/ RecoverLoopEnd(q) \/ Restore(q) \/ Reverify(q) \/ Installer(q)
           \/ InterruptUndo(q) \/ InterruptFail(q) \/ InterruptComplete(q)
  BY <1>4, RecoverNextSteady, RecoverLoopEndSteady, RestoreSteady, ReverifySteady, InstallerSteady,
     InterruptUndoSteady, InterruptFailSteady, InterruptCompleteSteady
<1>5. CASE Plan(q) \/ RecoverStart(q) \/ AbandonStart(q) \/ Crash(q) \/ Interrupt(q)
  BY <1>5, PlanSteady, RecoverStartSteady, AbandonStartSteady, CrashSteady, InterruptSteady
<1>6. ~(PrepareFails(q) \/ UndoVerify(q) \/ JournalFailVerify(q) \/ Undo(q) \/ JournalFail(q) \/ OwnBack(q))
  BY NothingFails
<1> QED BY <1>1, <1>2, <1>3, <1>4, <1>5, <1>6 DEF Step

\* Nothing has run yet.
LEMMA CutInit ==
  ASSUME Init
  PROVE  CutInv
<1>1. cur = 0 /\ status = [r \in Run |-> "none"] /\ edited = {}
  BY DEF Init
<1>2. ~Open(cur) /\ ~Ended /\ ~(cur > 0)
  BY <1>1 DEF Open, Run, Ended
<1>3. StayInv
  BY <1>1, <1>2 DEF StayInv, StandInv, ClosedInv
<1>4. ASSUME NEW q \in Proc
      PROVE  TrackInv(q)
  <2>1. proc[q] = Idle
    BY DEF Init
  <2>2. /\ ~InRun(q) /\ ~Forward(q) /\ proc[q].keep = {} /\ At(q) # "planned"
        /\ At(q) \notin Failing \cup {"planned", "next", "reverify", "installer", "human", "drift", "driftSkip"} \cup Tasks
        /\ At(q) \notin Rolling \cup {"cascadeJournal", "skip", "complete", "cleanup"}
    BY <2>1, IdleIs, IdleBooks DEF Forward, Failing, Tasks
  <2> HIDE DEF At, InRun
  <2>3. PathInv(q)
    BY <2>2 DEF PathInv
  <2>4. \A a \in Act : HereInv(q, a) /\ AroundInv(q, a)
    BY <2>2 DEF HereInv, AroundInv
  <2> QED BY <2>3, <2>4 DEF TrackInv
<1> QED BY <1>3, <1>4 DEF CutInv

\* The invariant is inductive as long as nothing but crashes and interrupts
\* stands in the way.
LEMMA CutNext ==
  ASSUME TypeInv, Recovering, CutInv, Alone, Alone', Untroubled', [Next]_vars
  PROVE  CutInv'
<1>1. ASSUME NEW p \in Proc,
             Step(p) \/ Plan(p) \/ RecoverStart(p) \/ AbandonStart(p) \/ Crash(p) \/ Interrupt(p)
      PROVE  CutInv'
  <2>1. Steady(p)
    BY <1>1, OwnStepSteady DEF Recovering, CutInv
  <2>2. ASSUME NEW q \in Proc, q # p
        PROVE  TrackInv(q)'
    <3>1. proc'[q] = proc[q] /\ (proc[p].pc # "idle" \/ proc'[p].pc # "idle")
      BY <1>1, <2>2, OthersUntouched
    <3>2. proc[q].pc = "idle"
      BY <2>2, <3>1 DEF Alone
    <3>3. proc[q].keep = {}
      BY DEF CutInv, TrackInv, PathInv
    <3>4. At(q)' \in {"idle", "abandon"} /\ proc'[q].keep = {}
      BY <3>1, <3>2, <3>3
    <3> QED BY <3>4, AsideTracks
  <2> HIDE DEF At, InRun
  <2> QED BY <2>1, <2>2 DEF Steady, CutInv
<1>2. ASSUME NEW a \in Act
      PROVE  ~Edit(a)
  BY NothingTroubles DEF Edit
<1>3. CASE UNCHANGED vars
  <2>1. UNCHANGED <<cur, status, plan, journal, applied, file, snap, proc, base, edited, kept>>
    BY <1>3 DEF vars
  <2>2. StayInv'
    BY <2>1, StaysPut DEF CutInv
  <2>3. ASSUME NEW q \in Proc
        PROVE  TrackInv(q)'
    <3>1. TrackInv(q)
      BY DEF CutInv
    <3>2. /\ At(q)' = At(q) /\ (InRun(q)' <=> InRun(q)) /\ (Forward(q)' <=> Forward(q)) /\ Top(q)' = Top(q)
          /\ proc' = proc /\ file' = file
      BY <2>1 DEF Top, Forward
    <3>3. \A a \in Act : /\ KindOf(a)' = KindOf(a) /\ St(a)' = St(a) /\ (Back(a)' <=> Back(a))
                         /\ (Whole(a)' <=> Whole(a)) /\ (InDone(q, a)' <=> InDone(q, a))
      BY <2>1 DEF KindOf, St, Wanted, Back, Holds, Whole, InDone
    <3> HIDE DEF At, InRun
    <3>4. PathInv(q)'
      BY <3>1, <3>2 DEF TrackInv, PathInv
    <3>5. \A a \in Act : HereInv(q, a)'
      BY <3>1, <3>2, <3>3 DEF TrackInv, HereInv
    <3>6. \A a \in Act : AroundInv(q, a)'
      BY <3>1, <3>2, <3>3 DEF TrackInv, AroundInv
    <3> QED BY <3>4, <3>5, <3>6 DEF TrackInv
  <2> HIDE DEF At, InRun
  <2> QED BY <2>2, <2>3 DEF CutInv
<1> QED BY <1>1, <1>2, <1>3 DEF Next, Rest

\* The invariant holds throughout, next to those that recovery needs.
LEMMA CutAlways == Spec /\ []Alone /\ []Untroubled => []CutInv
<1>1. Init => CutInv
  BY CutInit
<1>2. TypeInv /\ Recovering /\ CutInv /\ Alone /\ Alone' /\ Untroubled' /\ [Next]_vars => CutInv'
  BY CutNext
<1> QED BY <1>1, <1>2, RecoveringAlways, PTL DEF Spec

\* However such a run ends, abandoned or not, no mutation is left half done
\* without its snapshot.
THEOREM CutShortEndsWhole == Spec /\ []Alone /\ []Untroubled => []NothingHalfDone
<1>1. ASSUME CutInv
      PROVE  NothingHalfDone
  <2> SUFFICES ASSUME Ended, NEW a \in Act \ edited, KindOf(a) \in FileBacked
               PROVE  \/ file[a] = base.file[a]
                      \/ KindOf(a) # "remove" /\ Matches(KindOf(a), file[a]) /\ applied[a] = "new"
                      \/ KindOf(a) = "remove" /\ file[a] = "absent" /\ applied[a] = "none"
                      \/ snap[cur][a] = base.file[a]
    BY DEF NothingHalfDone
  <2>1. Back(a) \/ (Holds(a) /\ Wanted(a)) \/ snap[cur][a] = base.file[a]
    BY <1>1 DEF CutInv, StayInv, ClosedInv
  <2> QED BY <2>1 DEF Back, Holds, Wanted, FileBacked, Owning
<1> QED BY <1>1, CutAlways, PTL

----------------------------------------------------------------------------
(* The ownership records of runs that are cut short. *)

\* The record is the one the run found, as far as the journal remembers it.
Right(a) == KindOf(a) \in Invertible /\ Remembered(a) => Own(a)

\* A record has changed only behind actions that recovery gets past, and of an
\* action that has begun.
OwnedInv(a) ==
  Open(cur) => /\ St(a) \in {"pending", "skipped"} => Right(a)
               /\ ~Right(a) => \A b \in Act : b < a => Firm(b)

\* What a run that has failed leaves.
FinalInv(a) == cur > 0 /\ status[cur] = "Failed" /\ a \notin kept => Right(a)

RecordInv == \A a \in Act : OwnedInv(a) /\ FinalInv(a)

\* What the inverses an invocation holds write back,
StackRight(q) == \A n \in 1..Len(proc[q].done), a \in Act :
  a = proc[q].done[n].a /\ Remembered(a) => proc[q].done[n].prev = base.applied[a]
\* what it holds of the action it executes again,
OwnRight(q) == Forward(q) /\ proc[q].own # "unset" =>
  \A a \in Act : a = proc[q].i /\ Remembered(a) => proc[q].own = base.applied[a]
SeenRight(q) == At(q) = "reverify" =>
  \A a \in Act : a = proc[q].i /\ Remembered(a) => proc[q].seen[a].last.prev = base.applied[a]
\* and where it leaves the records behind a failed action.
RollRight(q) == At(q) \in Rolling => \A a \in Act : InDone(q, a) \/ Right(a)
LeftRight(q) == At(q) \in {"skip", "complete"} /\ proc[q].fail => \A a \in Act : Right(a)

HeldInv(q) == InRun(q) => StackRight(q) /\ OwnRight(q) /\ SeenRight(q) /\ RollRight(q) /\ LeftRight(q)

Recorded(q) == RecordInv' /\ HeldInv(q)'
\* No journal is told anything new about what was displaced.
Recalls == base'.applied = base.applied /\ \A a \in Act : Remembered(a)' => Remembered(a)

----------------------------------------------------------------------------
(* A step and the records. *)

\* Nothing that the records depend on changes.
LEMMA RecordsStay ==
  ASSUME RecordInv, UNCHANGED <<cur, plan, journal, applied, base, kept>>,
         Open(cur)' => Open(cur), cur > 0 /\ status'[cur] = "Failed" => status[cur] = "Failed"
  PROVE  RecordInv' /\ Recalls /\ \A a \in Act : (Right(a)' <=> Right(a)) /\ St(a)' = St(a)
<1>1. \A a \in Act : KindOf(a)' = KindOf(a) /\ (Remembered(a)' <=> Remembered(a)) /\ (Own(a)' <=> Own(a)) /\ St(a)' = St(a)
  BY DEF KindOf, Remembered, Own, St
<1>2. \A a \in Act : (Right(a)' <=> Right(a)) /\ (Firm(a)' <=> Firm(a))
  BY <1>1 DEF Right, Firm
<1>3. ASSUME NEW a \in Act
      PROVE  OwnedInv(a)' /\ FinalInv(a)'
  BY <1>1, <1>2 DEF RecordInv, OwnedInv, FinalInv
<1> QED BY <1>1, <1>2, <1>3 DEF RecordInv, Recalls

\* An event about action t of the open run, with its record.
LEMMA RecordTouched ==
  ASSUME TypeInv, RecordInv, Open(cur), UNCHANGED <<cur, status, plan, base>>, NEW t \in Act,
         NEW e \in Event, NEW rec \in Record,
         journal' = [journal EXCEPT ![t] = Append(journal[t], e)], applied' = [applied EXCEPT ![t] = rec]
  PROVE  /\ Recalls /\ St(t)' = e.st /\ applied'[t] = rec
         /\ \A a \in Act \ {t} : (Right(a)' <=> Right(a)) /\ (Firm(a)' <=> Firm(a)) /\ St(a)' = St(a)
         /\ Remembered(t)' /\ e.st = "succeeded" => e.prev = base.applied[t]
         /\ Right(t) /\ rec = applied[t] => Right(t)'
         /\ \A a \in Act : KindOf(a)' = KindOf(a)
<1>1. journal[t] \in Seq(Event) /\ journal'[t] = Append(journal[t], e) /\ applied'[t] = rec
      /\ \A a \in Act \ {t} : journal'[a] = journal[a] /\ applied'[a] = applied[a]
  BY DEF TypeInv, DurableOK
<1>2. \A a \in Act : KindOf(a)' = KindOf(a)
  BY DEF KindOf
<1>3. \A a \in Act \ {t} : (Remembered(a)' <=> Remembered(a)) /\ (Own(a)' <=> Own(a)) /\ St(a)' = St(a)
  BY <1>1 DEF Remembered, Own, St
<1>4. /\ St(t)' = e.st /\ (Remembered(t)' => Remembered(t))
      /\ Remembered(t)' /\ e.st = "succeeded" => e.prev = base.applied[t]
  <2> DEFINE s == journal[t]
             u == journal'[t]
  <2>1. s \in Seq(Event) /\ u = Append(s, e)
    BY <1>1
  <2> HIDE DEF s, u
  <2>2. /\ Len(s) \in Nat /\ Len(u) = Len(s) + 1 /\ u[Len(u)] = e
        /\ \A n \in 1..Len(s) : n \in 1..Len(u) /\ u[n] = s[n]
    BY <2>1, Appended
  <2>3. Last(u) = e /\ Len(u) \in 1..Len(u)
    BY <2>2 DEF Last
  <2>4. Remembered(t)' <=> \A n \in 1..Len(u) : u[n].st = "succeeded" => u[n].prev = base.applied[t]
    BY DEF Remembered, u
  <2>5. Remembered(t) <=> \A n \in 1..Len(s) : s[n].st = "succeeded" => s[n].prev = base.applied[t]
    BY DEF Remembered, s
  <2>6. St(t)' = e.st
    BY <2>3 DEF St, u
  <2> QED BY <2>2, <2>3, <2>4, <2>5, <2>6
<1>5. Recalls
  BY <1>3, <1>4 DEF Recalls
<1>6. \A a \in Act \ {t} : (Right(a)' <=> Right(a)) /\ (Firm(a)' <=> Firm(a)) /\ St(a)' = St(a)
  BY <1>2, <1>3 DEF Right, Firm
<1>7. Right(t) /\ rec = applied[t] => Right(t)'
  BY <1>1, <1>2, <1>4 DEF Right, Own
<1> QED BY <1>1, <1>2, <1>4, <1>5, <1>6, <1>7

\* Such an event keeps the invariant if what it takes away leaves the others be.
LEMMA RecordsKept ==
  ASSUME RecordInv, Open(cur), UNCHANGED <<cur, status>>, NEW t \in Act,
         \A a \in Act \ {t} : (Right(a)' <=> Right(a)) /\ (Firm(a)' <=> Firm(a)) /\ St(a)' = St(a),
         St(t)' \in {"pending", "skipped"} => Right(t)',
         Right(t)' \/ \A b \in Act : b < t => Firm(b),
         Firm(t) => Firm(t)' \/ \A a \in Act : t < a => Right(a)
  PROVE  RecordInv'
<1>1. Open(cur)' /\ status'[cur] # "Failed"
  BY DEF Open, Recoverable
<1>2. ASSUME NEW a \in Act
      PROVE  OwnedInv(a)'
  <2>1. (St(a) \in {"pending", "skipped"} => Right(a)) /\ (~Right(a) => \A b \in Act : b < a => Firm(b))
    BY DEF RecordInv, OwnedInv
  <2>2. ASSUME ~Right(a)', NEW b \in Act, b < a
        PROVE  Firm(b)'
    <3>1. CASE a = t
      BY <2>2, <3>1 DEF Act
    <3>2. CASE a # t
      <4>1. ~Right(a) /\ Firm(b)
        BY <2>1, <2>2, <3>2
      <4> QED BY <2>2, <4>1
    <3> QED BY <3>1, <3>2
  <2>3. St(a)' \in {"pending", "skipped"} => Right(a)'
    BY <2>1
  <2> QED BY <2>2, <2>3 DEF OwnedInv
<1>3. \A a \in Act : FinalInv(a)'
  BY <1>1 DEF FinalInv
<1> QED BY <1>2, <1>3 DEF RecordInv

----------------------------------------------------------------------------
(* A step and the invocation. *)

\* An invocation that is in no run holds nothing.
LEMMA AsideRight ==
  ASSUME NEW q \in Proc, At(q)' \in Aside
  PROVE  HeldInv(q)'
  BY DEF HeldInv

\* Nothing new is stacked.
LEMMA StackStays ==
  ASSUME TypeInv, NEW q \in Proc, StackRight(q), Recalls,
         \A n \in 1..Len(proc'[q].done) : \E m \in 1..Len(proc[q].done) : proc'[q].done[n] = proc[q].done[m]
  PROVE  StackRight(q)'
<1> SUFFICES ASSUME NEW n \in 1..Len(proc'[q].done), NEW a \in Act, a = proc'[q].done[n].a, Remembered(a)'
             PROVE  proc'[q].done[n].prev = base'.applied[a]
  BY DEF StackRight
<1>1. PICK m \in 1..Len(proc[q].done) : proc'[q].done[n] = proc[q].done[m]
  OBVIOUS
<1>2. Remembered(a) /\ base'.applied = base.applied
  BY DEF Recalls
<1> QED BY <1>1, <1>2 DEF StackRight

\* The inverse of the action is stacked.
LEMMA StackGrows ==
  ASSUME TypeInv, NEW q \in Proc, StackRight(q), Recalls, NEW x, proc'[q].done = Append(proc[q].done, x),
         \A a \in Act : a = x.a /\ Remembered(a)' => x.prev = base.applied[a]
  PROVE  StackRight(q)'
<1> DEFINE s == proc[q].done
           t == proc'[q].done
<1>1. s \in Seq(Done) /\ t = Append(s, x)
  BY Registers
<1>2. \A n \in 1..Len(s), a \in Act : a = s[n].a /\ Remembered(a) => s[n].prev = base.applied[a]
  BY DEF StackRight
<1>3. base'.applied = base.applied /\ \A a \in Act : Remembered(a)' => Remembered(a)
  BY DEF Recalls
<1> HIDE DEF s, t
<1>4. /\ t[Len(t)] = x /\ \A n \in 1..Len(s) : t[n] = s[n]
      /\ \A n \in 1..Len(t) : n \in 1..Len(s) \/ n = Len(t)
  BY <1>1, Appended
<1>5. \A n \in 1..Len(t), a \in Act : a = t[n].a /\ Remembered(a)' => t[n].prev = base'.applied[a]
  BY <1>2, <1>3, <1>4
<1> QED BY <1>5 DEF StackRight, t

\* The step moves on within the action,
LEMMA GoesRight ==
  ASSUME TypeInv, NEW q \in Proc, HeldInv(q), Forward(q), Recalls, NEW l \in Inside, l # "reverify", At(q)' = l,
         proc'[q].done = proc[q].done, proc'[q].i = proc[q].i, proc'[q].own = proc[q].own
  PROVE  HeldInv(q)'
<1>1. At(q)' \notin Rolling \cup {"skip", "complete"} /\ At(q)' # "reverify"
  BY DEF Inside, Tasks
<1>2. InRun(q)
  BY DEF Forward
<1>3. StackRight(q)'
  BY <1>2, StackStays DEF HeldInv
<1>4. OwnRight(q)'
  BY <1>2 DEF HeldInv, OwnRight, Recalls
<1> HIDE DEF At, InRun
<1> QED BY <1>1, <1>3, <1>4 DEF HeldInv, SeenRight, RollRight, LeftRight

\* stops the loop with a human or drift outcome, or hands the run over,
LEMMA StopsRight ==
  ASSUME TypeInv, NEW q \in Proc, HeldInv(q), InRun(q), Recalls,
         \/ At(q)' \in {"skip", "complete"} /\ ~proc'[q].fail
         \/ At(q)' \in {"cleanup", "intComplete"},
         proc'[q].done = proc[q].done
  PROVE  HeldInv(q)'
<1>1. At(q)' \notin Rolling /\ At(q)' # "reverify" /\ ~Forward(q)'
      /\ (At(q)' \in {"skip", "complete"} => ~proc'[q].fail)
  BY DEF Forward
<1>2. StackRight(q)'
  BY StackStays DEF HeldInv
<1> HIDE DEF At, InRun
<1> QED BY <1>1, <1>2 DEF HeldInv, OwnRight, SeenRight, RollRight, LeftRight

\* passes the action,
LEMMA PassesRight ==
  ASSUME TypeInv, NEW q \in Proc, HeldInv(q), Forward(q), Recalls,
         NEW b \in BOOLEAN, NEW ps \in Process, Set(q, Verified(ps, b)), ps.done = proc[q].done, ps.i = proc[q].i,
         b => \A a \in Act : a = proc[q].i /\ Remembered(a)' =>
                (IF ps.own = "unset" THEN ps.inp[ps.i] ELSE ps.own) = base.applied[a]
  PROVE  HeldInv(q)'
<1> DEFINE prev == IF ps.own = "unset" THEN ps.inp[ps.i] ELSE ps.own
           x == [a |-> ps.i, att |-> ps.att, prev |-> prev]
           d == IF b THEN Append(ps.done, x) ELSE ps.done
<1>1. proc'[q] = Verified(ps, b)
  BY SetIs
<1>2. proc'[q] = [ps EXCEPT !.pc = "next", !.i = ps.i + 1, !.own = "unset", !.prep = FALSE, !.done = d]
  BY <1>1 DEF Verified, Process
<1>3. /\ x.a = proc[q].i /\ (b => d = Append(proc[q].done, x)) /\ (~b => d = proc[q].done)
      /\ b => \A a \in Act : a = x.a /\ Remembered(a)' => x.prev = base.applied[a]
  OBVIOUS
<1> HIDE DEF x, d, prev
<1>4. proc'[q].pc = "next" /\ proc'[q].own = "unset" /\ proc'[q].done = d
  BY <1>2 DEF Process
<1>5. StackRight(q)
  BY DEF HeldInv, Forward
<1>6. StackRight(q)'
  <2>1. CASE b
    BY <1>3, <1>4, <1>5, <2>1, StackGrows
  <2>2. CASE ~b
    BY <1>3, <1>4, <1>5, <2>2, StackStays
  <2> QED BY <2>1, <2>2
<1> QED BY <1>4, <1>6 DEF HeldInv, OwnRight, SeenRight, RollRight, LeftRight

\* or fails it: what follows has not begun, and what precedes is stacked.
LEMMA FailsRight ==
  ASSUME TypeInv, NEW q \in Proc, RInv(q), StayInv, TrackInv(q), HeldInv(q), Forward(q), Recalls, RecordInv',
         Touches(q), \A a \in Act : a # proc[q].i => (Right(a)' <=> Right(a)),
         NEW ps \in Process, Set(q, FailedAction(ps)), ps.own = "unset", ps.done = proc[q].done,
         ps.mem = proc[q].mem, ps.keep = proc[q].keep,
         \A a \in Act : a = proc[q].i => ~Firm(a)' /\ Right(a)'
  PROVE  HeldInv(q)'
<1>1. At(q)' = "cascade" /\ proc'[q].done = proc[q].done
  BY FailRemains DEF Carries
<1>2. InRun(q) /\ Open(cur)
  BY ForwardKnows
<1>3. StackRight(q)'
  BY <1>1, <1>2, StackStays DEF HeldInv
<1>4. Open(cur)' /\ \A a \in Act : KindOf(a)' = KindOf(a)
  BY <1>2 DEF Touches, Open, KindOf
<1>5. ASSUME NEW a \in Act
      PROVE  InDone(q, a)' \/ Right(a)'
  <2>1. CASE a < proc[q].i
    <3>1. KindOf(a) \in Invertible => InDone(q, a)
      BY <2>1, ForwardKnows
    <3>2. InDone(q, a)' <=> InDone(q, a)
      BY <1>1 DEF InDone
    <3> QED BY <1>4, <3>1, <3>2 DEF Right
  <2>2. CASE a = proc[q].i
    BY <2>2
  <2>3. CASE a > proc[q].i
    <3>1. proc[q].i \in Act
      BY <2>3, Registers, ConstantsAssumption DEF Act
    <3> PICK i \in Act : i = proc[q].i
      BY <3>1
    <3>2. ~Right(a)' => Firm(i)'
      BY <1>4, <2>3 DEF RecordInv, OwnedInv, Act
    <3> QED BY <3>2
  <2>4. a = proc[q].i \/ a < proc[q].i \/ a > proc[q].i
    BY ForwardKnows
  <2> QED BY <2>1, <2>2, <2>3, <2>4
<1> HIDE DEF At, InRun
<1>6. ~Forward(q)' /\ At(q)' \notin {"reverify", "skip", "complete"}
  BY <1>1 DEF Forward, At
<1> QED BY <1>1, <1>3, <1>5, <1>6 DEF HeldInv, OwnRight, SeenRight, RollRight, LeftRight

----------------------------------------------------------------------------
(* The steps of the loop. *)

\* An event about the current action.
LEMMA RecordsJournaled ==
  ASSUME TypeInv, NEW q \in Proc, RInv(q), StayInv, TrackInv(q), RecordInv, Forward(q), At(q) # "next",
         NEW e \in Event, NEW rec \in Record, e.st # "pending",
         JournalAction(q, proc[q].i, e, rec), UNCHANGED <<fs, history>>,
         \A a \in Act : a = proc[q].i =>
           /\ e.st = "skipped" => KindOf(a) \notin Invertible
           /\ Firm(a) => e.st # "skipped" /\ (KindOf(a) \in {"agent", "install"} => e.st = "succeeded")
  PROVE  /\ RecordInv' /\ Recalls
         /\ \A a \in Act : a # proc[q].i => (Right(a)' <=> Right(a))
         /\ \A a \in Act : a = proc[q].i =>
              /\ Remembered(a)' /\ e.st = "succeeded" => e.prev = base.applied[a]
              /\ Right(a) /\ rec = applied[a] => Right(a)'
<1>1. UNCHANGED <<cur, status, plan, base>>
      /\ journal' = [journal EXCEPT ![proc[q].i] = Append(journal[proc[q].i], e)]
      /\ applied' = [applied EXCEPT ![proc[q].i] = rec]
  BY DEF JournalAction, history
<1>2. proc[q].i \in Act /\ Open(cur)
  BY AtWork, ForwardKnows DEF Busy, Forward
<1>3. PICK t \in Act : t = proc[q].i
  BY <1>2
<1>4. /\ Recalls /\ St(t)' = e.st
      /\ \A a \in Act \ {t} : (Right(a)' <=> Right(a)) /\ (Firm(a)' <=> Firm(a)) /\ St(a)' = St(a)
      /\ Remembered(t)' /\ e.st = "succeeded" => e.prev = base.applied[t]
      /\ Right(t) /\ rec = applied[t] => Right(t)'
      /\ \A a \in Act : KindOf(a)' = KindOf(a)
  <2> HIDE DEF At
  <2> QED BY <1>1, <1>2, <1>3, RecordTouched
<1>5. St(t)' \in {"pending", "skipped"} => Right(t)'
  BY <1>3, <1>4 DEF Right
<1>6. \A b \in Act : b < t => Firm(b)
  BY <1>3, ForwardKnows
<1>7. Firm(t) => Firm(t)'
  BY <1>3, <1>4 DEF Firm
<1>8. RecordInv'
  BY <1>1, <1>2, <1>4, <1>5, <1>6, <1>7, RecordsKept
<1> QED BY <1>3, <1>4, <1>8

\* The same when ownership is kept.
LEMMA RecordsNoted ==
  ASSUME TypeInv, NEW q \in Proc, RInv(q), StayInv, TrackInv(q), RecordInv, Forward(q), At(q) # "next",
         NEW st \in EventState \ {"pending"}, NEW ref \in BOOLEAN, NEW m \in Method,
         Note(q, st, ref, m), UNCHANGED <<fs, history>>,
         \A a \in Act : a = proc[q].i =>
           /\ st = "skipped" => KindOf(a) \notin Invertible
           /\ Firm(a) => st # "skipped" /\ (KindOf(a) \in {"agent", "install"} => st = "succeeded")
  PROVE  /\ RecordInv' /\ Recalls
         /\ \A a \in Act : (a # proc[q].i => (Right(a)' <=> Right(a))) /\ (Right(a) => Right(a)')
<1> DEFINE e == Ev(st, proc[q].att, ref, "none", m)
<1>1. Busy(proc[q])
  BY AtWork DEF Forward
<1>2. e \in Event /\ e.st = st /\ applied[proc[q].i] \in Record
  <2>1. proc[q].att \in Nat /\ proc[q].i \in Act /\ "none" \in Record
    BY <1>1, Registers DEF Busy, Record
  <2> QED BY <2>1, EvType DEF Ev, TypeInv, DurableOK
<1>3. JournalAction(q, proc[q].i, e, applied[proc[q].i])
  BY DEF Note
<1> HIDE DEF e
<1>4. /\ RecordInv' /\ Recalls
      /\ \A a \in Act : a # proc[q].i => (Right(a)' <=> Right(a))
      /\ \A a \in Act : a = proc[q].i => (Right(a) /\ applied[proc[q].i] = applied[a] => Right(a)')
  <2> HIDE DEF At, InRun
  <2> QED BY <1>2, <1>3, RecordsJournaled
<1> QED BY <1>4

\* A step that moves the invocation within its action and touches no record.
Wanders(q) ==
  /\ \E l \in Inside \ {"reverify"} : At(q)' = l
  /\ proc'[q].done = proc[q].done /\ proc'[q].i = proc[q].i /\ proc'[q].own = proc[q].own

LEMMA GotoWanders ==
  ASSUME TypeInv, NEW q \in Proc, NEW l \in Inside \ {"reverify"}, Goto(q, l)
  PROVE  Wanders(q)
  BY GotoRemains DEF Wanders, Remains, Carries

LEMMA WandersRight ==
  ASSUME TypeInv, NEW q \in Proc, HeldInv(q), Forward(q), Recalls, Wanders(q)
  PROVE  HeldInv(q)'
<1>1. PICK l \in Inside \ {"reverify"} : At(q)' = l
  BY DEF Wanders
<1> HIDE DEF At
<1> QED BY <1>1, GoesRight DEF Wanders

\* Entering an action leads within it.
LEMMA EntryInside ==
  ASSUME NEW k
  PROVE  Entry(k) \in Inside \ {"reverify"}
  BY DEF Entry, Inside, Tasks

\* A step that changes no record and ends an invocation, or moves it.
LEMMA QuietRecorded ==
  ASSUME TypeInv, NEW q \in Proc, RecordInv, HeldInv(q),
         UNCHANGED <<cur, status, plan, journal, applied, base, kept>>,
         At(q)' \in Aside \/ (Forward(q) /\ Wanders(q))
  PROVE  Recorded(q)
<1>1. RecordInv' /\ Recalls
  BY RecordsStay DEF Open
<1>2. CASE At(q)' \in Aside
  BY <1>1, <1>2, AsideRight DEF Recorded
<1>3. CASE Forward(q) /\ Wanders(q)
  BY <1>1, <1>3, WandersRight DEF Recorded
<1> QED BY <1>2, <1>3

\* The steps of the loop that only move the invocation.
LEMMA LoopRecorded ==
  ASSUME TypeInv, NEW q \in Proc, RInv(q), StayInv, TrackInv(q), RecordInv, HeldInv(q), Untroubled',
         \/ RunNext(q) /\ proc[q].i <= N
         \/ Prepare(q) \/ Execute(q) \/ ExecuteFails(q) \/ Verify(q) \/ RecordDrift(q) \/ AgentResolve(q)
         \/ AgentVerify(q) \/ Restore(q) \/ InterruptUndo(q)
         \/ Agent(q) /\ Goto(q, "agentSkip") /\ UNCHANGED db
  PROVE  Recorded(q)
<1>1. Forward(q) /\ ~Spend("db") /\ ~Spend("fs")
  BY NothingTroubles DEF RunNext, Prepare, Execute, ExecuteFails, Verify, RecordDrift, AgentResolve, AgentVerify,
     Restore, InterruptUndo, Agent, Forward
<1>2. UNCHANGED <<cur, status, plan, journal, applied, base, kept>>
  BY <1>1 DEF RunNext, Prepare, Execute, ExecuteFails, Verify, RecordDrift, AgentResolve, AgentVerify,
     Restore, InterruptUndo, Agent, db, history
<1>3. ASSUME \E l \in Inside \ {"reverify"} : Goto(q, l)
      PROVE  Recorded(q)
  <2>1. Wanders(q)
    BY <1>3, GotoWanders
  <2> QED BY <1>1, <1>2, <2>1, QuietRecorded
<1>4. ASSUME Set(q, Idle)
      PROVE  Recorded(q)
  <2>1. At(q)' \in Aside
    BY <1>4, SetIs DEF Idle
  <2> QED BY <1>2, <2>1, QuietRecorded
<1>5. ASSUME Goto(q, "intComplete")
      PROVE  Recorded(q)
  <2>1. At(q)' = "intComplete" /\ proc'[q].done = proc[q].done
    BY <1>5, GotoRemains DEF Remains, Carries
  <2>2. RecordInv' /\ Recalls /\ InRun(q)
    BY <1>1, <1>2, RecordsStay DEF Open, Forward
  <2> QED BY <2>1, <2>2, StopsRight DEF Recorded
<1>6. Tasks \cup {"succeed", "verify", "driftSkip", "intFail"} \subseteq Inside \ {"reverify"}
  BY DEF Inside, Tasks
<1>7. CASE RunNext(q) /\ proc[q].i <= N
  <2>1. Goto(q, Entry(K(q)))
    BY <1>7 DEF RunNext
  <2> QED BY <1>3, <2>1, EntryInside
<1>8. CASE Prepare(q)
  <2>1. proc[q] \in Process
    BY Registers
  <2>2. proc'[q] = [proc[q] EXCEPT !.pc = "running", !.prep = K(q) \in FileBacked,
                            !.mem[proc[q].i] = IF K(q) \in FileBacked THEN file[proc[q].i] ELSE "none"]
    BY <1>8, SetIs DEF Prepare
  <2>3. At(q)' = "running" /\ proc'[q].done = proc[q].done /\ proc'[q].i = proc[q].i /\ proc'[q].own = proc[q].own
    BY <2>1, <2>2 DEF Process
  <2>4. Wanders(q)
    BY <2>3 DEF Wanders, Inside
  <2> QED BY <1>1, <1>2, <2>4, QuietRecorded
<1>9. CASE Execute(q) \/ ExecuteFails(q)
  <2>1. Execute(q) /\ At(q) = "execute"
    BY <1>1, <1>9 DEF Execute, ExecuteFails
  <2>2. proc[q].i \in Act
    BY <2>1, AtWork DEF Busy
  <2>3. ~Stale(q)
    BY <2>1, <2>2, WrittenIs
  <2>4. Goto(q, "succeed") \/ Goto(q, "verify")
    BY <2>1, <2>3 DEF Execute
  <2> QED BY <1>3, <1>6, <2>4
<1>10. CASE Verify(q)
  <2>1. At(q) = "verify" /\ Forward(q)
    BY <1>1, <1>10 DEF Verify
  <2>2. PICK a \in Act : a = proc[q].i
    BY <2>1, AtWork DEF Busy
  <2>3. Matches(K(q), file[proc[q].i])
    BY <2>1, <2>2, ForwardKnows DEF HereInv
  <2>4. Goto(q, "succeed")
    BY <1>10, <2>3 DEF Verify, Verification
  <2> QED BY <1>3, <1>6, <2>4
<1>11. CASE RecordDrift(q)
  BY <1>1, <1>3, <1>6, <1>11 DEF RecordDrift
<1>12. CASE AgentResolve(q) \/ AgentVerify(q)
  <2>1. \E l \in {"agentVerify", "agentSkip", "agentError", "agentSucceed", "agentFail"} : Goto(q, l)
    BY <1>12 DEF AgentResolve, AgentVerify, Verification
  <2>2. {"agentVerify", "agentSkip", "agentError", "agentSucceed", "agentFail"} \subseteq Tasks
    BY DEF Tasks
  <2> QED BY <1>3, <1>6, <2>1, <2>2
<1>13. CASE Restore(q)
  <2>1. Goto(q, Entry(K(q))) \/ Set(q, Idle)
    BY <1>13 DEF Restore, GiveUp
  <2> QED BY <1>3, <1>4, <2>1, EntryInside
<1>14. CASE InterruptUndo(q)
  <2>1. Goto(q, "intFail") \/ Goto(q, "intComplete")
    BY <1>14 DEF InterruptUndo
  <2> QED BY <1>3, <1>5, <1>6, <2>1
<1>15. CASE Agent(q) /\ Goto(q, "agentSkip") /\ UNCHANGED db
  <2>1. "agentSkip" \in Tasks
    BY DEF Tasks
  <2> QED BY <1>3, <1>6, <1>15, <2>1
<1> QED BY <1>7, <1>8, <1>9, <1>10, <1>11, <1>12, <1>13, <1>14, <1>15

\* The loop is through with the plan.
LEMMA ThroughRecorded ==
  ASSUME TypeInv, NEW q \in Proc, RInv(q), StayInv, TrackInv(q), RecordInv, HeldInv(q),
         At(q) = "next", Goto(q, "complete"), UNCHANGED <<db, fs, history>>
  PROVE  Recorded(q)
<1>1. RecordInv' /\ Recalls
  BY RecordsStay DEF Open, db, history
<1>2. InRun(q) /\ ~proc[q].fail
  BY ForwardKnows DEF Forward
<1>3. At(q)' = "complete" /\ ~proc'[q].fail /\ proc'[q].done = proc[q].done
  BY <1>2, GotoRemains DEF Remains, Carries
<1> QED BY <1>1, <1>2, <1>3, StopsRight DEF Recorded

LEMMA NextRecorded ==
  ASSUME TypeInv, NEW q \in Proc, RInv(q), StayInv, TrackInv(q), RecordInv, HeldInv(q), Untroubled',
         RunNext(q) \/ RecoverLoopEnd(q)
  PROVE  Recorded(q)
<1>1. CASE RunNext(q) /\ proc[q].i <= N
  BY <1>1, LoopRecorded
<1>2. CASE RecoverLoopEnd(q) \/ (RunNext(q) /\ ~(proc[q].i <= N))
  BY <1>2, ThroughRecorded DEF RunNext, RecoverLoopEnd
<1> QED BY <1>1, <1>2

\* A note and a move within the action.
LEMMA NotesRecorded ==
  ASSUME TypeInv, NEW q \in Proc, RInv(q), StayInv, TrackInv(q), RecordInv, HeldInv(q), Forward(q), At(q) # "next",
         NEW st \in EventState \ {"pending"}, NEW ref \in BOOLEAN, NEW m \in Method,
         Note(q, st, ref, m), UNCHANGED <<fs, history>>,
         \A a \in Act : a = proc[q].i =>
           /\ st = "skipped" => KindOf(a) \notin Invertible
           /\ Firm(a) => st # "skipped" /\ (KindOf(a) \in {"agent", "install"} => st = "succeeded"),
         \/ Wanders(q)
         \/ At(q)' \in {"skip", "complete"} /\ ~proc'[q].fail /\ proc'[q].done = proc[q].done
         \/ At(q)' = "intComplete" /\ proc'[q].done = proc[q].done
         \/ \E ps \in Process : Set(q, Verified(ps, FALSE)) /\ ps.done = proc[q].done /\ ps.i = proc[q].i
  PROVE  Recorded(q)
<1>1. RecordInv' /\ Recalls
  <2> HIDE DEF At, InRun
  <2> QED BY RecordsNoted
<1>2. InRun(q)
  BY DEF Forward
<1>3. CASE Wanders(q)
  BY <1>1, <1>3, WandersRight DEF Recorded
<1>4. CASE \/ At(q)' \in {"skip", "complete"} /\ ~proc'[q].fail /\ proc'[q].done = proc[q].done
           \/ At(q)' = "intComplete" /\ proc'[q].done = proc[q].done
  BY <1>1, <1>2, <1>4, StopsRight DEF Recorded
<1>5. CASE \E ps \in Process : Set(q, Verified(ps, FALSE)) /\ ps.done = proc[q].done /\ ps.i = proc[q].i
  BY <1>1, <1>5, PassesRight DEF Recorded
<1> QED BY <1>3, <1>4, <1>5

LEMMA JournalRunningRecorded ==
  ASSUME TypeInv, NEW q \in Proc, RInv(q), StayInv, TrackInv(q), RecordInv, HeldInv(q), Untroubled',
         JournalRunning(q)
  PROVE  Recorded(q)
<1>1. At(q) = "running" /\ Forward(q) /\ At(q) # "next" /\ UNCHANGED <<fs, history>>
  BY DEF JournalRunning, Forward
<1>2. Open(cur) /\ proc[q].run = cur
  BY <1>1, ForwardKnows
<1>3. Note(q, "running", proc[q].prep, "none") /\ Goto(q, "execute")
  BY <1>2, NothingTroubles DEF JournalRunning
<1>4. \A a \in Act : a = proc[q].i => ~Firm(a) \/ KindOf(a) \notin {"agent", "install"}
  BY <1>1, InsideKnows
<1>5. proc[q].prep \in BOOLEAN /\ "running" \in EventState \ {"pending"} /\ "none" \in Method
      /\ "execute" \in Inside \ {"reverify"}
  BY Registers DEF EventState, Method, Inside
<1>6. Wanders(q)
  BY <1>3, <1>5, GotoWanders
<1> HIDE DEF At, InRun
<1> QED BY <1>1, <1>3, <1>4, <1>5, <1>6, NotesRecorded

LEMMA JournalSucceededRecorded ==
  ASSUME TypeInv, NEW q \in Proc, RInv(q), StayInv, TrackInv(q), RecordInv, HeldInv(q), Untroubled',
         JournalSucceeded(q)
  PROVE  Recorded(q)
<1> DEFINE i == proc[q].i
           prev == IF K(q) \in Invertible THEN proc[q].inp[i] ELSE "none"
           rec == CASE K(q) = "remove" -> "none" [] K(q) \in Owning -> "new" [] OTHER -> applied[i]
           e == Ev("succeeded", proc[q].att, proc[q].prep, prev, "passed")
<1>1. At(q) = "succeed" /\ Forward(q) /\ At(q) # "next"
  BY DEF JournalSucceeded, Forward
<1>2. Open(cur) /\ proc[q].run = cur /\ InRun(q)
  BY <1>1, ForwardKnows
<1>3. JournalAction(q, i, e, rec) /\ Set(q, Verified(proc[q], K(q) \in Invertible)) /\ UNCHANGED <<fs, history>>
  BY <1>2, NothingTroubles DEF JournalSucceeded
<1>4. i \in Act /\ proc[q] \in Process /\ proc[q].att \in Nat
  BY <1>1, AtWork, Registers DEF Busy
<1>5. e \in Event /\ e.st = "succeeded" /\ rec \in Record /\ e.prev = prev
  <2>1. prev \in Record /\ rec \in Record
    BY <1>4 DEF TypeInv, DurableOK, Process, Record
  <2>2. proc[q].prep \in BOOLEAN /\ "succeeded" \in EventState /\ "passed" \in Method
    BY Registers DEF EventState, Method
  <2> HIDE DEF prev, rec
  <2> QED BY <1>4, <2>1, <2>2, EvType DEF Ev
<1>6. e.st # "pending" /\ e.st # "skipped"
  BY <1>5
<1>7. /\ RecordInv' /\ Recalls
      /\ \A a \in Act : a = i => (Remembered(a)' => prev = base.applied[a])
  <2> HIDE DEF At, InRun, e, rec, prev
  <2> QED BY <1>1, <1>3, <1>5, <1>6, RecordsJournaled
<1>8. K(q) \in Invertible =>
        \A a \in Act : a = proc[q].i /\ Remembered(a)' =>
           (IF proc[q].own = "unset" THEN proc[q].inp[proc[q].i] ELSE proc[q].own) = base.applied[a]
  <2>1. \A a \in Act : a = proc[q].i /\ Remembered(a) /\ proc[q].own # "unset" => proc[q].own = base.applied[a]
    BY <1>1, <1>2 DEF HeldInv, OwnRight
  <2> QED BY <1>7, <2>1 DEF Recalls
<1>9. (K(q) \in Invertible) \in BOOLEAN
  OBVIOUS
<1>10. HeldInv(q)'
  <2> HIDE DEF At, InRun, e, rec, prev
  <2> QED BY <1>1, <1>3, <1>4, <1>7, <1>8, <1>9, PassesRight
<1> QED BY <1>7, <1>10 DEF Recorded

\* An outcome that is journaled and stops the loop.
LEMMA OutcomeRecorded ==
  ASSUME TypeInv, NEW q \in Proc, RInv(q), StayInv, TrackInv(q), RecordInv, HeldInv(q), Forward(q), At(q) # "next",
         K(q) \in {"human", "drift", "agent", "install"}, NEW st \in {"skipped", "failed"},
         \A a \in Act : a = proc[q].i => ~Firm(a), NEW m \in Method,
         Note(q, st, FALSE, m), UNCHANGED <<fs, history>>,
         \/ Set(q, Stopped([proc[q] EXCEPT !.human = TRUE]))
         \/ Set(q, Stopped([proc[q] EXCEPT !.drift = TRUE]))
  PROVE  Recorded(q)
<1>1. st \in EventState \ {"pending"} /\ FALSE \in BOOLEAN
  BY DEF EventState
<1>2. \A a \in Act : a = proc[q].i => KindOf(a) \notin Invertible
  BY ForwardKnows DEF Invertible, FileBacked, Owning
<1>3. At(q)' \in {"skip", "complete"} /\ Remains(q)
  BY Registers, StopRemains
<1>4. ~proc'[q].fail /\ proc'[q].done = proc[q].done
  BY <1>3, ForwardKnows DEF Remains, Carries
<1> HIDE DEF At, InRun
<1> QED BY <1>1, <1>2, <1>3, <1>4, NotesRecorded

LEMMA HumanRecorded ==
  ASSUME TypeInv, NEW q \in Proc, RInv(q), StayInv, TrackInv(q), RecordInv, HeldInv(q), Untroubled',
         Human(q) \/ DriftSkip(q)
  PROVE  Recorded(q)
<1>1. At(q) \in {"human", "driftSkip"} /\ Forward(q) /\ At(q) # "next" /\ UNCHANGED <<fs, history>>
  BY DEF Human, DriftSkip, Forward
<1>2. Open(cur) /\ proc[q].run = cur /\ K(q) \in {"human", "drift"}
  BY <1>1, ForwardKnows DEF RInv, PlaceInv
<1>3. /\ Note(q, "skipped", FALSE, "none")
      /\ \/ Set(q, Stopped([proc[q] EXCEPT !.human = TRUE]))
         \/ Set(q, Stopped([proc[q] EXCEPT !.drift = TRUE]))
  BY <1>2, NothingTroubles DEF Human, DriftSkip
<1>4. \A a \in Act : a = proc[q].i => ~Firm(a)
  BY <1>1, <1>2, InsideKnows DEF Firm
<1>5. "none" \in Method
  BY DEF Method
<1> HIDE DEF At, InRun
<1> QED BY <1>1, <1>2, <1>3, <1>4, <1>5, OutcomeRecorded

LEMMA AgentRecorded ==
  ASSUME TypeInv, NEW q \in Proc, RInv(q), StayInv, TrackInv(q), RecordInv, HeldInv(q), Untroubled',
         Agent(q) \/ AgentSucceed(q) \/ AgentFail(q) \/ AgentSkip(q) \/ AgentError(q)
  PROVE  Recorded(q)
<1>1. At(q) \in Tasks /\ UNCHANGED <<fs, history>>
  BY DEF Agent, AgentSucceed, AgentFail, AgentSkip, AgentError, Tasks
<1>2. /\ Forward(q) /\ At(q) # "next" /\ Open(cur) /\ proc[q].run = cur /\ ~TransactionFails(q)
      /\ K(q) = "agent" /\ proc[q].own = "unset" /\ proc[q].i \in Act /\ edited = {} /\ proc[q] \in Process
      /\ \A a \in Act : a = proc[q].i => KindOf(a) = "agent" /\ ~Firm(a)
  BY <1>1, TaskKnows, NothingTroubles, Registers
<1>3. /\ {"running", "succeeded", "failed"} \subseteq EventState \ {"pending"}
      /\ {"none", "passed", "other"} \subseteq Method
      /\ FALSE \in BOOLEAN /\ "agent" \notin Invertible /\ "agentResolve" \in Inside \ {"reverify"}
  BY DEF EventState, Method, Invertible, FileBacked, Owning, Inside, Tasks
<1>4. CASE Agent(q)
  <2>1. CASE Goto(q, "agentSkip") /\ UNCHANGED db
    BY <1>4, <2>1, LoopRecorded
  <2>2. CASE Note(q, "running", FALSE, "none") /\ Goto(q, "agentResolve")
    <3>1. Wanders(q)
      BY <1>3, <2>2, GotoWanders
    <3> HIDE DEF At, InRun
    <3> QED BY <1>1, <1>2, <1>3, <2>2, <3>1, NotesRecorded
  <2> QED BY <1>2, <1>4, <2>1, <2>2 DEF Agent
<1>5. CASE AgentSucceed(q)
  <2>1. Note(q, "succeeded", FALSE, "passed") /\ Set(q, Verified(proc[q], FALSE))
    BY <1>2, <1>5 DEF AgentSucceed
  <2> HIDE DEF At, InRun
  <2> QED BY <1>1, <1>2, <1>3, <2>1, NotesRecorded
<1>6. CASE AgentFail(q)
  <2>1. Note(q, "failed", FALSE, "other") /\ Set(q, FailedAction(proc[q]))
    BY <1>2, <1>6 DEF AgentFail
  <2>2. Touches(q) /\ \A a \in Act : a = proc[q].i => St(a)' = "failed"
    <3> HIDE DEF At, InRun
    <3> QED BY <1>1, <1>2, <1>3, <2>1, Noted
  <2>3. RecordInv' /\ Recalls /\ \A a \in Act : a # proc[q].i => (Right(a)' <=> Right(a))
    <3> HIDE DEF At, InRun
    <3> QED BY <1>1, <1>2, <1>3, <2>1, RecordsNoted
  <2>4. \A a \in Act : a = proc[q].i => ~Firm(a)' /\ Right(a)'
    <3>1. \A a \in Act : KindOf(a)' = KindOf(a)
      BY <2>2 DEF Touches, KindOf
    <3> QED BY <1>2, <1>3, <2>2, <3>1 DEF Firm, Right
  <2>5. HeldInv(q)'
    <3> HIDE DEF At, InRun
    <3> QED BY <1>2, <2>1, <2>2, <2>3, <2>4, FailsRight
  <2> QED BY <2>3, <2>5 DEF Recorded
<1>7. CASE AgentSkip(q) \/ AgentError(q)
  <2>1. \E st \in {"skipped", "failed"}, m \in {"none", "other"} :
          Note(q, st, FALSE, m) /\ Set(q, Stopped([proc[q] EXCEPT !.human = TRUE]))
    BY <1>2, <1>7 DEF AgentSkip, AgentError
  <2> HIDE DEF At, InRun
  <2> QED BY <1>1, <1>2, <1>3, <2>1, OutcomeRecorded
<1> QED BY <1>4, <1>5, <1>6, <1>7

LEMMA InstallerRecorded ==
  ASSUME TypeInv, NEW q \in Proc, RInv(q), StayInv, TrackInv(q), RecordInv, HeldInv(q), Untroubled',
         Installer(q)
  PROVE  Recorded(q)
<1>1. At(q) = "installer" /\ Forward(q) /\ At(q) # "next" /\ UNCHANGED <<fs, history>>
  BY DEF Installer, Forward
<1>2. /\ Open(cur) /\ proc[q].run = cur /\ K(q) = "install" /\ proc[q] \in Process /\ InRun(q)
      /\ ~TransactionFails(q)
  BY <1>1, ForwardKnows, NothingTroubles, Registers DEF RInv, PlaceInv
<1>3. /\ "succeeded" \in EventState \ {"pending"} /\ {"passed", "other"} \subseteq Method
      /\ FALSE \in BOOLEAN /\ "install" \notin Invertible
  BY DEF EventState, Method, Invertible, FileBacked, Owning
<1>4. \A a \in Act : a = proc[q].i => KindOf(a) = "install" /\ Stands(a)
  BY <1>1, <1>2, ForwardKnows
<1>5. PICK v \in Verification("install", file[proc[q].i]) :
       \/ /\ v = "passed"
          /\ Note(q, "succeeded", FALSE, "passed")
          /\ Set(q, Verified(proc[q], FALSE))
       \/ /\ \/ v = "failed" /\ Note(q, "skipped", FALSE, "other")
             \/ v # "error" /\ TransactionFails(q)
             \/ v = "error" /\ UNCHANGED <<db, spent>>
          /\ Set(q, Stopped([proc[q] EXCEPT !.human = TRUE]))
  BY DEF Installer
<1>6. \A a \in Act : a = proc[q].i /\ v # "passed" => ~Firm(a)
  <2>1. v = "passed" <=> file[proc[q].i] = "new"
    BY DEF Verification, Matches
  <2> QED BY <1>4, <2>1 DEF Firm, Stands
<1>7. CASE v = "passed" /\ Note(q, "succeeded", FALSE, "passed") /\ Set(q, Verified(proc[q], FALSE))
  <2> HIDE DEF At, InRun
  <2> QED BY <1>1, <1>2, <1>3, <1>4, <1>7, NotesRecorded
<1>8. CASE v = "failed" /\ Note(q, "skipped", FALSE, "other") /\ Set(q, Stopped([proc[q] EXCEPT !.human = TRUE]))
  <2>1. \A a \in Act : a = proc[q].i => ~Firm(a)
    BY <1>6, <1>8
  <2> HIDE DEF At, InRun
  <2> QED BY <1>1, <1>2, <1>3, <1>8, <2>1, OutcomeRecorded
<1>9. CASE v = "error" /\ UNCHANGED db /\ Set(q, Stopped([proc[q] EXCEPT !.human = TRUE]))
  <2>1. RecordInv' /\ Recalls
    BY <1>1, <1>9, RecordsStay DEF Open, db, history
  <2>2. At(q)' \in {"skip", "complete"} /\ Remains(q)
    BY <1>9, Registers, StopRemains
  <2>3. ~proc'[q].fail /\ proc'[q].done = proc[q].done
    BY <1>1, <2>2, ForwardKnows DEF Remains, Carries
  <2> QED BY <1>2, <2>1, <2>2, <2>3, StopsRight DEF Recorded
<1> QED BY <1>2, <1>5, <1>7, <1>8, <1>9

LEMMA InterruptFailRecorded ==
  ASSUME TypeInv, NEW q \in Proc, RInv(q), StayInv, TrackInv(q), RecordInv, HeldInv(q), Untroubled',
         InterruptFail(q)
  PROVE  Recorded(q)
<1>1. /\ At(q) \in {"intFail", "intAgent"} /\ Forward(q) /\ At(q) # "next"
      /\ At(q) \notin {"installer", "reverify"} /\ UNCHANGED <<fs, history>>
  BY DEF InterruptFail, Forward
<1>2. Open(cur) /\ proc[q].run = cur
  BY <1>1, ForwardKnows
<1>3. Note(q, "failed", proc[q].prep, "other") /\ Goto(q, "intComplete")
  BY <1>2, NothingTroubles DEF InterruptFail
<1>4. \A a \in Act : a = proc[q].i => ~Firm(a) \/ KindOf(a) \notin {"agent", "install"}
  BY <1>1, InsideKnows
<1>5. proc[q].prep \in BOOLEAN /\ "failed" \in EventState \ {"pending"} /\ "other" \in Method
  BY Registers DEF EventState, Method
<1>6. At(q)' = "intComplete" /\ proc'[q].done = proc[q].done
  BY <1>3, GotoRemains DEF Remains, Carries
<1> HIDE DEF At, InRun
<1> QED BY <1>1, <1>3, <1>4, <1>5, <1>6, NotesRecorded

----------------------------------------------------------------------------
(* Rolling back and closing the run. *)

\* What is known behind a failed action.
LEMMA CascadeRecorded ==
  ASSUME TypeInv, NEW q \in Proc, RInv(q), StayInv, TrackInv(q), RecordInv, HeldInv(q), Untroubled', Cascade(q)
  PROVE  Recorded(q)
<1>1. At(q) \in {"cascade", "cascadeJournal"} /\ At(q) = "cascade" /\ proc[q].done # <<>>
      /\ UNCHANGED <<cur, status, plan, journal, applied, snap, base, edited, kept>>
  BY DEF Cascade, db, history
<1>2. InRun(q) /\ At(q) \in Rolling
  BY <1>1
<1>3. Goto(q, "cascadeJournal")
  <2>1. Steady(q)
    BY CascadeSteady
  <2>2. \/ Goto(q, "cascadeJournal")
        \/ Set(q, [proc[q] EXCEPT !.done = Pop(q), !.keep = @ \cup {Top(q).a}])
    BY DEF Cascade
  <2>3. CASE Set(q, [proc[q] EXCEPT !.done = Pop(q), !.keep = @ \cup {Top(q).a}])
    <3>1. proc'[q] = [proc[q] EXCEPT !.done = Pop(q), !.keep = proc[q].keep \cup {Top(q).a}]
      BY <2>3, SetIs DEF TypeInv, Good, Process
    <3>2. proc'[q].keep = proc[q].keep \cup {Top(q).a}
      BY <3>1, Registers DEF Process
    <3>3. proc'[q].keep = {}
      BY <2>1 DEF Steady, TrackInv, PathInv
    <3> QED BY <3>2, <3>3
  <2> QED BY <2>2, <2>3
<1>4. At(q)' = "cascadeJournal" /\ proc'[q].done = proc[q].done
  BY <1>3, GotoRemains DEF Remains, Carries
<1>5. RecordInv' /\ Recalls /\ \A a \in Act : Right(a)' <=> Right(a)
  BY <1>1, RecordsStay DEF Open
<1>6. StackRight(q)'
  BY <1>2, <1>4, <1>5, StackStays DEF HeldInv
<1>7. RollRight(q)'
  BY <1>2, <1>4, <1>5 DEF HeldInv, RollRight, InDone
<1>8. ~Forward(q)' /\ At(q)' \notin {"reverify", "skip", "complete"}
  BY <1>4 DEF Forward
<1> HIDE DEF At, InRun
<1> QED BY <1>5, <1>6, <1>7, <1>8 DEF Recorded, HeldInv, OwnRight, SeenRight, LeftRight

\* What follows an inverse is the record the run found.
LEMMA CascadeJournalRecorded ==
  ASSUME TypeInv, NEW q \in Proc, RInv(q), StayInv, TrackInv(q), RecordInv, HeldInv(q), Untroubled', CascadeJournal(q)
  PROVE  Recorded(q)
<1> DEFINE d == Top(q)
           e == Ev("failed", d.att, proc[q].plan[d.a] \in FileBacked, "none", "run-rolled-back")
<1>1. At(q) = "cascadeJournal" /\ At(q) \in {"cascade", "cascadeJournal"} /\ UNCHANGED <<base, kept>>
  BY DEF CascadeJournal, history
<1>2. /\ Open(cur) /\ proc[q].run = cur /\ InRun(q) /\ proc[q].fail
      /\ \A x \in Act : InDone(q, x) => KindOf(x) \in Invertible
  BY <1>1, RollingKnows
<1>3. proc[q].done # <<>> /\ StackRight(q) /\ RollRight(q)
  BY <1>1, <1>2, Registers DEF LocalInv, HeldInv
<1>4. PICK t \in Act : t = Top(q).a
  BY <1>3, PopHolds
<1>5. InDone(q, t) /\ KindOf(t) \in Invertible
  BY <1>2, <1>3, <1>4, PopHolds
<1>6. JournalAction(q, t, e, d.prev) /\ Set(q, [proc[q] EXCEPT !.pc = "cascade", !.done = Pop(q)])
  BY <1>2, <1>4, NothingTroubles DEF CascadeJournal
<1>7. d \in Done /\ d.prev \in Record /\ e \in Event /\ e.st = "failed"
  <2>1. d \in Done
    BY <1>3, PopIs
  <2>2. d.att \in Nat /\ d.prev \in Record /\ "none" \in Record /\ "failed" \in EventState /\ "run-rolled-back" \in Method
    BY <2>1 DEF Done, Record, EventState, Method
  <2>3. (proc[q].plan[d.a] \in FileBacked) \in BOOLEAN
    OBVIOUS
  <2> HIDE DEF d
  <2> QED BY <2>1, <2>2, <2>3, EvType DEF Ev
<1>8. UNCHANGED <<cur, status, plan>> /\ journal' = [journal EXCEPT ![t] = Append(journal[t], e)]
      /\ applied' = [applied EXCEPT ![t] = d.prev]
  BY <1>6 DEF JournalAction
<1>9. Remembered(t) => d.prev = base.applied[t]
  BY <1>3, <1>4, PopHolds DEF StackRight
<1> HIDE DEF d, e
<1>10. /\ Recalls /\ St(t)' = "failed" /\ applied'[t] = d.prev
       /\ \A a \in Act \ {t} : (Right(a)' <=> Right(a)) /\ (Firm(a)' <=> Firm(a)) /\ St(a)' = St(a)
       /\ \A a \in Act : KindOf(a)' = KindOf(a)
  <2> HIDE DEF At, InRun
  <2> QED BY <1>1, <1>2, <1>7, <1>8, RecordTouched
<1>11. Right(t)'
  BY <1>9, <1>10 DEF Recalls, Right, Own
<1>12. Firm(t)'
  BY <1>5, <1>10 DEF Firm, Invertible, Owning, FileBacked
<1>13. RecordInv'
  BY <1>2, <1>8, <1>10, <1>11, <1>12, RecordsKept
<1>14. At(q)' = "cascade" /\ proc'[q].done = Pop(q)
  <2>1. proc[q] \in Process /\ proc'[q] = [proc[q] EXCEPT !.pc = "cascade", !.done = Pop(q)]
    BY <1>6, Registers, SetIs
  <2> QED BY <2>1 DEF Process
<1>15. StackRight(q)'
  BY <1>3, <1>10, <1>14, PopIs, StackStays
<1>16. ASSUME NEW x \in Act
       PROVE  InDone(q, x)' \/ Right(x)'
  <2>1. InDone(q, x)' <=> \E n \in 1..Len(Pop(q)) : Pop(q)[n].a = x
    BY <1>14 DEF InDone
  <2>2. x # t /\ InDone(q, x) => \E n \in 1..Len(Pop(q)) : Pop(q)[n].a = x
    BY <1>3, <1>4, PopHolds
  <2>3. InDone(q, x) \/ Right(x)
    BY <1>1, <1>3 DEF RollRight
  <2> QED BY <1>10, <1>11, <2>1, <2>2, <2>3
<1>17. ~Forward(q)' /\ At(q)' \notin {"reverify", "skip", "complete"}
  BY <1>14 DEF Forward
<1> HIDE DEF At, InRun
<1> QED BY <1>13, <1>15, <1>16, <1>17 DEF Recorded, HeldInv, OwnRight, SeenRight, RollRight, LeftRight

LEMMA CascadeEndRecorded ==
  ASSUME TypeInv, NEW q \in Proc, RecordInv, HeldInv(q), CascadeEnd(q)
  PROVE  Recorded(q)
<1>1. /\ At(q) = "cascade" /\ InRun(q) /\ proc[q].done = <<>> /\ Set(q, Stopped(proc[q]))
      /\ UNCHANGED <<cur, status, plan, journal, applied, base, kept>>
  BY DEF CascadeEnd, db, history
<1>2. RecordInv' /\ Recalls /\ \A a \in Act : Right(a)' <=> Right(a)
  BY <1>1, RecordsStay DEF Open
<1>3. At(q)' \in {"skip", "complete"} /\ proc'[q].done = proc[q].done
  BY <1>1, Registers, StopRemains DEF Remains, Carries
<1>4. \A a \in Act : Right(a)'
  BY <1>1, <1>2 DEF HeldInv, RollRight, InDone
<1>5. StackRight(q)'
  BY <1>1, <1>2, <1>3, StackStays DEF HeldInv
<1>6. ~Forward(q)' /\ At(q)' # "reverify" /\ At(q)' \notin Rolling
  BY <1>3 DEF Forward
<1> HIDE DEF At, InRun
<1> QED BY <1>2, <1>4, <1>5, <1>6 DEF Recorded, HeldInv, OwnRight, SeenRight, RollRight, LeftRight

\* The actions that the run never reached have their records.
LEMMA SkipRecorded ==
  ASSUME TypeInv, NEW q \in Proc, RInv(q), StayInv, TrackInv(q), RecordInv, HeldInv(q), Untroubled', Skip(q)
  PROVE  Recorded(q)
<1> DEFINE e == Ev("skipped", 1, FALSE, "none", "none")
<1>1. At(q) = "skip" /\ InRun(q) /\ UNCHANGED <<base, kept>>
  BY DEF Skip, history
<1>2. Open(cur) /\ proc[q].run = cur /\ proc[q].mode = "run" /\ proc[q] \in Process
  BY <1>1, InRunIs, Registers DEF RInv, PlaceInv
<1>3. ASSUME RecordInv', Recalls, \A a \in Act : Right(a) => Right(a)',
             At(q)' \in {"skip", "complete"}, proc'[q].fail = proc[q].fail, proc'[q].done = proc[q].done
      PROVE  Recorded(q)
  <2>1. StackRight(q)'
    BY <1>1, <1>3, StackStays DEF HeldInv
  <2>2. LeftRight(q)'
    BY <1>1, <1>3 DEF HeldInv, LeftRight
  <2>3. ~Forward(q)' /\ At(q)' # "reverify" /\ At(q)' \notin Rolling
    BY <1>3 DEF Forward
  <2> HIDE DEF At, InRun
  <2> QED BY <1>3, <2>1, <2>2, <2>3 DEF Recorded, HeldInv, OwnRight, SeenRight, RollRight
<1>4. CASE proc[q].i >= N
  <2>1. Goto(q, "complete") /\ UNCHANGED db
    BY <1>4 DEF Skip
  <2>2. At(q)' = "complete" /\ proc'[q].fail = proc[q].fail /\ proc'[q].done = proc[q].done
    BY <2>1, GotoRemains DEF Remains, Carries
  <2>3. RecordInv' /\ Recalls /\ \A a \in Act : Right(a) => Right(a)'
    BY <1>1, <2>1, RecordsStay DEF Open, db
  <2> QED BY <1>3, <2>2, <2>3
<1>5. CASE ~(proc[q].i >= N)
  <2>0. proc[q].i + 1 \in Act /\ proc[q].i \in Int
    BY <1>5, Registers, ConstantsAssumption DEF Act
  <2>1. PICK j \in Act : j = proc[q].i + 1
    BY <2>0
  <2>2. JournalAction(q, j, e, applied[j]) /\ Set(q, [proc[q] EXCEPT !.i = j])
    BY <1>2, <1>5, <2>1, NothingTroubles DEF Skip
  <2>3. e \in Event /\ e.st = "skipped" /\ applied[j] \in Record
    <3>1. "none" \in Record /\ "none" \in Method /\ "skipped" \in EventState /\ applied[j] \in Record
      BY DEF Record, Method, EventState, TypeInv, DurableOK
    <3> QED BY <3>1, EvType DEF Ev
  <2> HIDE DEF e
  <2>4. UNCHANGED <<cur, status, plan>> /\ journal' = [journal EXCEPT ![j] = Append(journal[j], e)]
        /\ applied' = [applied EXCEPT ![j] = applied[j]]
    BY <2>2 DEF JournalAction
  <2>5. At(q)' = "skip" /\ proc'[q].done = proc[q].done /\ proc'[q].fail = proc[q].fail
    <3>1. proc'[q] = [proc[q] EXCEPT !.i = j]
      BY <2>2, SetIs
    <3> QED BY <1>1, <1>2, <3>1 DEF Process
  <2>6. ASSUME NEW a \in Act, a >= j
        PROVE  Right(a)
    <3>1. a > proc[q].i
      BY <2>0, <2>1, <2>6 DEF Act
    <3>2. Ahead(q, a)
      BY <1>1, <3>1 DEF Ahead
    <3>3. AheadInv(q, a)
      BY DEF RInv, ActionInv
    <3>4. journal[a] = <<PendingEvent>>
      BY <1>2, <3>2, <3>3 DEF AheadInv
    <3>5. St(a) = "pending"
      BY <3>4 DEF St, Last, PendingEvent, Ev
    <3> QED BY <1>2, <3>5 DEF RecordInv, OwnedInv
  <2>7. /\ Recalls /\ St(j)' = "skipped"
        /\ \A a \in Act \ {j} : (Right(a)' <=> Right(a)) /\ (Firm(a)' <=> Firm(a)) /\ St(a)' = St(a)
        /\ Right(j) => Right(j)'
    <3> HIDE DEF At, InRun
    <3> QED BY <1>1, <1>2, <2>3, <2>4, RecordTouched
  <2>8. Right(j) /\ \A a \in Act : j < a => Right(a)
    BY <2>6, <2>0, <2>1 DEF Act
  <2>9. RecordInv'
    BY <1>2, <2>4, <2>7, <2>8, RecordsKept
  <2> QED BY <1>3, <2>5, <2>7, <2>8, <2>9
<1> QED BY <1>4, <1>5

\* What a run that fails leaves when it is closed.
LEMMA CompleteRecorded ==
  ASSUME TypeInv, NEW q \in Proc, RInv(q), StayInv, TrackInv(q), RecordInv, HeldInv(q), Untroubled',
         Complete(q) \/ CompleteFails(q)
  PROVE  Recorded(q)
<1> DEFINE o == Outcome(proc[q])
<1>1. At(q) = "complete" /\ InRun(q)
  BY DEF Complete, CompleteFails
<1>2. Open(cur) /\ proc[q].run = cur /\ cur \in Run /\ proc[q].fail \in BOOLEAN
  BY <1>1, InRunIs, Registers DEF Process
<1>3. Complete(q)
  BY <1>2, NothingTroubles DEF CompleteFails
<1>4. /\ status' = [status EXCEPT ![cur] = o] /\ (o # "Converged" => applied' = applied)
      /\ UNCHANGED <<cur, plan, journal, base>> /\ Goto(q, "cleanup")
  BY <1>2, <1>3 DEF Complete
<1>5. o \in Terminal /\ (o = "Failed" <=> proc[q].fail)
  BY <1>2 DEF Outcome, Terminal
<1> HIDE DEF o
<1>6. status'[cur] = o
  BY <1>2, <1>4 DEF TypeInv, DurableOK
<1>7. ~Open(cur)' /\ cur' = cur
  BY <1>4, <1>5, <1>6 DEF Open, Recoverable, Terminal
<1>8. \A a \in Act : Remembered(a)' <=> Remembered(a)
  BY <1>4 DEF Remembered
<1>9. ASSUME NEW a \in Act
      PROVE  OwnedInv(a)' /\ FinalInv(a)'
  <2>1. proc[q].fail => Right(a)
    BY <1>1 DEF HeldInv, LeftRight
  <2>2. proc[q].fail => Right(a)'
    BY <1>4, <1>5, <1>8, <2>1 DEF Right, KindOf, Own
  <2> QED BY <1>4, <1>5, <1>6, <1>7, <2>2 DEF OwnedInv, FinalInv
<1>10. RecordInv' /\ Recalls
  BY <1>4, <1>8, <1>9 DEF RecordInv, Recalls
<1>11. At(q)' = "cleanup" /\ proc'[q].done = proc[q].done
  BY <1>4, GotoRemains DEF Remains, Carries
<1> QED BY <1>1, <1>10, <1>11, StopsRight DEF Recorded

\* The steps that end an invocation.
LEMMA EndsRecorded ==
  ASSUME TypeInv, NEW q \in Proc, RInv(q), RecordInv, HeldInv(q), Untroubled',
         Cleanup(q) \/ Abandon(q) \/ InterruptComplete(q)
  PROVE  Recorded(q)
<1>1. At(q)' \in Aside
  BY SetIs DEF Cleanup, Abandon, InterruptComplete, Idle
<1>2. CASE Cleanup(q)
  <2>1. UNCHANGED <<cur, status, plan, journal, applied, base, kept>>
    BY <1>2 DEF Cleanup, db, history
  <2> QED BY <1>1, <2>1, QuietRecorded
<1>3. CASE Abandon(q)
  <2>1. At(q) = "abandon"
    BY <1>3 DEF Abandon
  <2>2. proc[q].run = cur /\ Open(cur)
    BY <2>1 DEF RInv, RunInv
  <2>3. status' = [status EXCEPT ![cur] = "Failed"] /\ cur' = cur /\ kept' = Act
    BY <1>3, <2>2, NothingTroubles DEF Abandon
  <2>4. ~Open(cur)'
    BY <2>2, <2>3 DEF Open, Recoverable, TypeInv, DurableOK
  <2>5. RecordInv'
    BY <2>3, <2>4 DEF RecordInv, OwnedInv, FinalInv
  <2> QED BY <1>1, <2>5, AsideRight DEF Recorded
<1>4. CASE InterruptComplete(q)
  <2>1. At(q) = "intComplete" /\ InRun(q) /\ UNCHANGED <<cur, plan, journal, applied, base, kept>>
    BY <1>4 DEF InterruptComplete, history
  <2>2. proc[q].run = cur /\ cur \in Run
    BY <2>1, InRunIs
  <2>3. status' = status \/ (Open(cur) /\ status' = [status EXCEPT ![cur] = "Interrupted"])
    BY <1>4, <2>2 DEF InterruptComplete
  <2>4. (Open(cur)' => Open(cur)) /\ (cur > 0 /\ status'[cur] = "Failed" => status[cur] = "Failed")
    BY <2>1, <2>2, <2>3 DEF Open, TypeInv, DurableOK
  <2>5. RecordInv'
    BY <2>1, <2>4, RecordsStay
  <2> QED BY <1>1, <2>5, AsideRight DEF Recorded
<1> QED BY <1>2, <1>3, <1>4

----------------------------------------------------------------------------
(* The steps of recovery. *)

\* The latest success names the record that the run found.
LEMMA LastRemembered ==
  ASSUME TypeInv, NEW a \in Act, Ordered(journal[a]), Remembered(a), St(a) = "succeeded"
  PROVE  Last(journal[a]).prev = base.applied[a]
<1>1. Len(journal[a]) \in 1..Len(journal[a])
  BY JournalType DEF Ordered, ValidJournal
<1> QED BY <1>1 DEF Remembered, St, Last

\* Moving on within the action with a record to write back.
LEMMA OwnsRight ==
  ASSUME TypeInv, NEW q \in Proc, HeldInv(q), InRun(q), Recalls, NEW l \in Inside, At(q)' = l,
         proc'[q].done = proc[q].done, OwnRight(q)', SeenRight(q)'
  PROVE  HeldInv(q)'
<1>1. At(q)' \notin Rolling \cup {"skip", "complete"}
  BY DEF Inside, Tasks
<1>2. StackRight(q)'
  BY StackStays DEF HeldInv
<1> HIDE DEF At, InRun
<1> QED BY <1>1, <1>2 DEF HeldInv, RollRight, LeftRight

LEMMA RecoverNextRecorded ==
  ASSUME TypeInv, NEW q \in Proc, RInv(q), StayInv, TrackInv(q), RecordInv, HeldInv(q), RecoverNext(q)
  PROVE  Recorded(q)
<1>1. At(q) = "next" /\ proc[q].mode = "recover" /\ proc[q].i <= N /\ UNCHANGED <<db, fs, history>> /\ Forward(q)
  BY DEF RecoverNext, Forward
<1>2. PICK i \in Act : i = proc[q].i
  BY <1>1, Registers, ConstantsAssumption DEF Act
<1> DEFINE last == proc[q].seen[proc[q].i].last
           ref == proc[q].seen[proc[q].i].ref
           k == K(q)
           ps == [proc[q] EXCEPT !.att = NextAttempt(last), !.undone = TRUE]
           completedRemoval == k = "remove" /\ last.st = "succeeded"
<1>3. last = Last(journal[i]) /\ Ordered(journal[i]) /\ journal[i] \in Seq(Event)
  <2>1. /\ proc[q].seen[i] = [last |-> Last(journal[i]), ref |-> HasReference(journal[i])]
        /\ Ordered(journal[i]) /\ journal[i] \in Seq(Event)
    BY <1>1, <1>2, NextFinds, JournalType
  <2> QED BY <1>2, <2>1
<1>4. last \in Event
  BY <1>3, NextIsQuiet
<1>5. last.att \in Nat /\ last.st \in EventState /\ last.prev \in Record
  BY <1>4 DEF Event
<1>6. /\ InRun(q) /\ k = KindOf(i) /\ Open(cur) /\ proc[q].own = "unset" /\ ~proc[q].fail
      /\ UNCHANGED <<cur, status, plan, journal, applied, file, snap, base, edited, kept>>
  BY <1>1, <1>2, ForwardKnows DEF db, fs, history, TrackInv, PathInv
<1>7. Set(q, CASE last.st = "skipped" -> Preserved(ps, k)
               [] last.st = "succeeded" /\ k = "transfer" -> Verified(ps, FALSE)
               [] k = "install" /\ last.st \notin {"pending", "skipped"} ->
                    [ps EXCEPT !.pc = "installer"]
               [] completedRemoval /\ last.ref ->
                    [ps EXCEPT !.pc = "restore", !.own = last.prev]
               [] completedRemoval /\ ~last.ref -> Idle
               [] last.st = "succeeded" /\ k \notin {"transfer", "install", "remove"} ->
                    [ps EXCEPT !.pc = "reverify"]
               [] last.st \in {"running", "failed"} /\ k # "install" /\ ref ->
                    [ps EXCEPT !.pc = "restore"]
               [] OTHER -> [ps EXCEPT !.pc = Entry(k)])
  BY Zenon DEF RecoverNext
<1>8. /\ ps \in Process /\ ps.i = proc[q].i /\ ps.done = proc[q].done /\ ps.mem = proc[q].mem
      /\ ps.keep = proc[q].keep /\ ps.own = "unset" /\ ps.fail = proc[q].fail /\ ps.seen = proc[q].seen
  <2>1. NextAttempt(last) \in Nat /\ proc[q] \in Process
    BY <1>5, Registers DEF NextAttempt
  <2> DEFINE att == NextAttempt(last)
  <2> HIDE DEF last, att
  <2> QED BY <1>6, <2>1 DEF Process, att
<1>9. RecordInv' /\ Recalls /\ \A a \in Act : (Right(a)' <=> Right(a)) /\ St(a)' = St(a)
  BY <1>6, RecordsStay DEF Open
<1>10. /\ last.st = St(i) /\ (St(i) = "skipped" => Right(i))
       /\ \A a \in Act : last.st = "succeeded" /\ a = proc[q].i /\ Remembered(a)' =>
            last.prev = base'.applied[a] /\ last.prev = base.applied[a]
  <2>1. last.st = St(i) /\ (St(i) = "skipped" => Right(i))
    BY <1>3, <1>6 DEF St, RecordInv, OwnedInv
  <2>2. Remembered(i) /\ St(i) = "succeeded" => last.prev = base.applied[i]
    BY <1>3, LastRemembered
  <2> QED BY <1>2, <1>9, <2>1, <2>2 DEF Recalls
<1>11. last = proc[q].seen[proc[q].i].last
  OBVIOUS
<1> HIDE DEF last, ref, k, ps
<1>12. ASSUME NEW l \in Inside \ {"reverify"}, Set(q, [ps EXCEPT !.pc = l])
       PROVE  Recorded(q)
  <2>1. proc'[q] = [ps EXCEPT !.pc = l]
    BY <1>12, SetIs
  <2>2. Wanders(q)
    BY <1>6, <1>8, <2>1 DEF Process, Wanders
  <2> QED BY <1>1, <1>9, <2>2, WandersRight DEF Recorded
<1>13. CASE last.st = "skipped"
  <2>1. Set(q, Preserved(ps, k))
    BY <1>7, <1>13
  <2>2. CASE k \in {"human", "agent", "drift"}
    <3>1. \/ Set(q, Stopped([ps EXCEPT !.human = TRUE]))
          \/ Set(q, Stopped([ps EXCEPT !.drift = TRUE]))
      BY <2>1, <2>2 DEF Preserved
    <3>2. At(q)' \in {"skip", "complete"} /\ Remains(q)
      BY <1>8, <3>1, StopRemains
    <3>3. ~proc'[q].fail /\ proc'[q].done = proc[q].done
      BY <1>6, <3>2 DEF Remains, Carries
    <3> QED BY <1>6, <1>9, <3>2, <3>3, StopsRight DEF Recorded
  <2>3. CASE k \notin {"human", "agent", "drift"}
    <3>1. Set(q, FailedAction(ps))
      BY <2>1, <2>3 DEF Preserved
    <3>2. Touches(q)
      BY <1>1, <1>6, NothingTouched
    <3>3. \A a \in Act : a = proc[q].i => ~Firm(a)' /\ Right(a)'
      BY <1>2, <1>9, <1>10, <1>13 DEF Firm
    <3> HIDE DEF At, InRun
    <3> QED BY <1>1, <1>8, <1>9, <3>1, <3>2, <3>3, FailsRight DEF Recorded
  <2> QED BY <2>2, <2>3
<1>14. CASE last.st = "succeeded" /\ k = "transfer"
  <2>1. Set(q, Verified(ps, FALSE))
    BY <1>7, <1>14
  <2> HIDE DEF At, InRun
  <2> QED BY <1>1, <1>8, <1>9, <2>1, PassesRight DEF Recorded
<1>15. CASE k = "install" /\ last.st \notin {"pending", "skipped"}
  <2>1. Set(q, [ps EXCEPT !.pc = "installer"]) /\ "installer" \in Inside \ {"reverify"}
    BY <1>7, <1>15 DEF Inside
  <2> QED BY <1>12, <2>1
<1>16. CASE k = "remove" /\ last.st = "succeeded" /\ ~last.ref
  <2>1. Set(q, Idle)
    BY <1>7, <1>16
  <2>2. At(q)' \in Aside
    BY <2>1, SetIs DEF Idle
  <2> QED BY <1>9, <2>2, AsideRight DEF Recorded
<1>17. CASE k = "remove" /\ last.st = "succeeded" /\ last.ref
  <2>1. Set(q, [ps EXCEPT !.pc = "restore", !.own = last.prev]) /\ "restore" \in Inside
    BY <1>7, <1>17 DEF Inside
  <2>2. proc'[q] = [ps EXCEPT !.pc = "restore", !.own = last.prev]
    BY <2>1, SetIs
  <2>3. At(q)' = "restore" /\ proc'[q].own = last.prev /\ proc'[q].i = proc[q].i /\ proc'[q].done = proc[q].done
    BY <1>8, <2>2 DEF Process
  <2>4. OwnRight(q)'
    BY <1>10, <1>17, <2>3 DEF OwnRight
  <2>5. SeenRight(q)'
    BY <2>3 DEF SeenRight
  <2> HIDE DEF At, InRun
  <2> QED BY <1>6, <1>9, <2>1, <2>3, <2>4, <2>5, OwnsRight DEF Recorded
<1>18. CASE last.st = "succeeded" /\ k \notin {"transfer", "install", "remove"}
  <2>1. Set(q, [ps EXCEPT !.pc = "reverify"]) /\ "reverify" \in Inside
    BY <1>7, <1>18 DEF Inside
  <2>2. proc'[q] = [ps EXCEPT !.pc = "reverify"]
    BY <2>1, SetIs
  <2>3. /\ At(q)' = "reverify" /\ proc'[q].own = "unset" /\ proc'[q].i = proc[q].i /\ proc'[q].done = proc[q].done
        /\ proc'[q].seen = proc[q].seen
    BY <1>8, <2>2 DEF Process
  <2>4. OwnRight(q)'
    BY <2>3 DEF OwnRight
  <2>5. SeenRight(q)'
    BY <1>10, <1>11, <1>18, <2>3 DEF SeenRight
  <2> HIDE DEF At, InRun
  <2> QED BY <1>6, <1>9, <2>1, <2>3, <2>4, <2>5, OwnsRight DEF Recorded
<1>19. CASE last.st \in {"running", "failed"} /\ k # "install" /\ ref
  <2>1. Set(q, [ps EXCEPT !.pc = "restore"]) /\ "restore" \in Inside \ {"reverify"}
    BY <1>7, <1>19 DEF Inside
  <2> QED BY <1>12, <2>1
<1>20. CASE \/ last.st \in {"running", "failed"} /\ k # "install" /\ ~ref
            \/ last.st = "pending"
  <2>1. Set(q, [ps EXCEPT !.pc = Entry(k)])
    BY <1>7, <1>20
  <2> QED BY <1>12, <2>1, EntryInside
<1>21. last.st \in {"pending", "running", "succeeded", "failed", "skipped"}
  BY <1>5 DEF EventState
<1> QED BY <1>13, <1>14, <1>15, <1>16, <1>17, <1>18, <1>19, <1>20, <1>21

LEMMA ReverifyRecorded ==
  ASSUME TypeInv, NEW q \in Proc, RInv(q), StayInv, TrackInv(q), RecordInv, HeldInv(q), Reverify(q)
  PROVE  Recorded(q)
<1> DEFINE i == proc[q].i
           last == proc[q].seen[i].last
           back == [proc[q] EXCEPT !.own = last.prev]
<1>1. At(q) = "reverify" /\ Forward(q) /\ InRun(q) /\ At(q) # "next" /\ UNCHANGED <<db, fs, history>>
  BY DEF Reverify, Forward
<1>2. UNCHANGED <<cur, status, plan, journal, applied, base, kept>>
  BY <1>1 DEF db, history
<1>3. PICK a \in Act : a = i
  BY <1>1, AtWork DEF Busy
<1>4. /\ K(q) = KindOf(a) /\ Stands(a) /\ St(a) = "succeeded"
      /\ KindOf(a) \notin {"transfer", "install", "remove", "human", "drift"}
      /\ KindOf(a) \in FileBacked => last.ref
  <2>1. K(q) = KindOf(a) /\ Stands(a) /\ HereInv(q, a)
    BY <1>1, <1>3, ForwardKnows
  <2>2. St(a) = "succeeded" /\ (KindOf(a) \in FileBacked => last.ref)
    BY <1>1, <1>3, <2>1 DEF HereInv
  <2> QED BY <1>1, <2>1, <2>2 DEF Stands, RInv, PlaceInv
<1>5. RecordInv' /\ Recalls
  BY <1>2, RecordsStay DEF Open
<1>6. /\ last.prev \in Record /\ last.prev # "unset" /\ proc[q] \in Process
      /\ \A x \in Act : x = i /\ Remembered(x)' => last.prev = base.applied[x] /\ last.prev = base'.applied[x]
  <2>1. proc[q] \in Process /\ proc[q].seen \in [Act -> [last: Event, ref: BOOLEAN]]
    BY Registers DEF Process
  <2>2. proc[q].seen[a].last \in Event
    BY <2>1
  <2>3. last.prev \in Record
    BY <1>3, <2>2 DEF Event
  <2>4. SeenRight(q)
    BY <1>1 DEF HeldInv
  <2>5. \A x \in Act : x = i /\ Remembered(x) => last.prev = base.applied[x]
    BY <1>1, <2>4 DEF SeenRight
  <2> QED BY <1>5, <2>1, <2>3, <2>5 DEF Record, Recalls
<1>7. back \in Process /\ back.done = proc[q].done /\ back.i = i /\ back.own = last.prev
  <2> DEFINE prev == last.prev
  <2>1. prev \in Record
    BY <1>6
  <2> HIDE DEF prev
  <2>2. back = [proc[q] EXCEPT !.own = prev] /\ prev = last.prev
    BY DEF prev
  <2> HIDE DEF back, last
  <2> QED BY <1>6, <2>1, <2>2 DEF Process
<1>8. PICK v \in Verification(K(q), file[i]) :
        Set(q, CASE v = "error" -> Idle
                 [] v = "passed" -> Verified(back, K(q) \in Invertible)
                 [] v = "failed" /\ last.ref -> [proc[q] EXCEPT !.pc = "restore", !.own = last.prev]
                 [] v = "failed" /\ ~last.ref -> FailedAction(proc[q]))
  BY DEF Reverify
<1>9. v \in {"passed", "failed", "error"} /\ (file[a] = "new" => v = "passed")
  BY <1>3 DEF Verification, Matches
<1> HIDE DEF back
<1>10. CASE v = "error"
  <2>1. Set(q, Idle)
    BY <1>8, <1>10
  <2>2. At(q)' \in Aside
    BY <2>1, SetIs DEF Idle
  <2> QED BY <1>5, <2>2, AsideRight DEF Recorded
<1>11. CASE v = "passed"
  <2>1. Set(q, Verified(back, K(q) \in Invertible)) /\ (K(q) \in Invertible) \in BOOLEAN
    BY <1>8, <1>11
  <2>2. \A x \in Act : x = proc[q].i /\ Remembered(x)' =>
          (IF back.own = "unset" THEN back.inp[back.i] ELSE back.own) = base.applied[x]
    BY <1>6, <1>7
  <2> HIDE DEF At, InRun
  <2> QED BY <1>1, <1>5, <1>7, <2>1, <2>2, PassesRight DEF Recorded
<1>12. CASE v = "failed"
  <2>1. KindOf(a) \notin {"agent", "verify"}
    BY <1>4, <1>9, <1>12 DEF Stands
  <2>2. KindOf(a) \in FileBacked /\ last.ref
    <3>1. KindOf(a) \in Kind
      BY <1>1, ForwardKnows DEF TypeInv, DurableOK, KindOf
    <3> QED BY <1>4, <2>1, <3>1 DEF Kind, FileBacked
  <2>3. Set(q, [proc[q] EXCEPT !.pc = "restore", !.own = last.prev])
    BY <1>8, <1>12, <2>2
  <2>4. At(q)' = "restore" /\ proc'[q].own = last.prev /\ proc'[q].i = i /\ proc'[q].done = proc[q].done
    <3> DEFINE prev == last.prev
    <3>1. proc'[q] = [proc[q] EXCEPT !.pc = "restore", !.own = prev]
      BY <2>3, SetIs
    <3>2. prev = last.prev
      OBVIOUS
    <3> HIDE DEF prev
    <3> QED BY <1>6, <3>1, <3>2 DEF Process
  <2>5. OwnRight(q)'
    BY <1>6, <2>4 DEF OwnRight
  <2>6. SeenRight(q)' /\ "restore" \in Inside
    BY <2>4 DEF SeenRight, Inside
  <2> HIDE DEF At, InRun
  <2> QED BY <1>1, <1>5, <2>4, <2>5, <2>6, OwnsRight DEF Recorded
<1> QED BY <1>9, <1>10, <1>11, <1>12

----------------------------------------------------------------------------
(* How invocations begin and are cut short. *)

\* An invocation that enters a run holds nothing yet.
LEMMA EntersRight ==
  ASSUME NEW q \in Proc, At(q)' = "next", proc'[q].done = <<>>, proc'[q].own = "unset"
  PROVE  HeldInv(q)'
<1>1. At(q)' \notin Rolling \cup {"reverify", "skip", "complete"} /\ Len(proc'[q].done) = 0
  OBVIOUS
<1>2. StackRight(q)'
  BY <1>1 DEF StackRight
<1> HIDE DEF At, InRun
<1> QED BY <1>1, <1>2 DEF HeldInv, OwnRight, SeenRight, RollRight, LeftRight

\* A run starts with every record as it is.
LEMMA StartRunRecorded ==
  ASSUME TypeInv, NEW q \in Proc, RInv(q), TrackInv(q), StartRun(q)
  PROVE  Recorded(q)
<1>1. /\ At(q) = "planned" /\ cur < MaxRuns /\ cur' = cur + 1 /\ journal' = [a \in Act |-> <<PendingEvent>>]
      /\ base'.applied = applied /\ applied' = applied
  BY DEF StartRun
<1>2. cur \in Int /\ cur' \in Run
  BY <1>1, ConstantsAssumption DEF TypeInv, DurableOK, Run
<1>3. status'[cur'] = "applying"
  BY <1>2 DEF StartRun, TypeInv, DurableOK
<1>4. Fresh(q) /\ proc[q] \in Process /\ proc[q].own = "unset"
  BY <1>1, Registers DEF RInv, RunInv, TrackInv, PathInv
<1>5. At(q)' = "next" /\ proc'[q].done = <<>> /\ proc'[q].own = "unset"
  <2>1. proc'[q] = [proc[q] EXCEPT !.pc = "next", !.run = cur + 1]
    BY SetIs DEF StartRun
  <2> QED BY <1>4, <2>1 DEF Process, Fresh
<1>6. ASSUME NEW a \in Act
      PROVE  OwnedInv(a)' /\ FinalInv(a)'
  <2>1. Right(a)'
    BY <1>1 DEF Right, Own
  <2> QED BY <1>3, <2>1 DEF OwnedInv, FinalInv
<1> HIDE DEF At, InRun
<1> QED BY <1>5, <1>6, EntersRight DEF Recorded, RecordInv

\* The steps that leave the records alone.
LEMMA BeginRecorded ==
  ASSUME TypeInv, NEW q \in Proc, RecordInv, HeldInv(q),
         Plan(q) \/ StartRefused(q) \/ AbandonStart(q) \/ RecoverStart(q) \/ Crash(q)
  PROVE  Recorded(q)
<1>1. UNCHANGED <<cur, status, plan, journal, applied, base, kept>>
  BY DEF Plan, StartRefused, AbandonStart, RecoverStart, Crash, db, history
<1>2. RecordInv'
  BY <1>1, RecordsStay DEF Open
<1>3. CASE Plan(q)
  <2>1. PICK pl \in Plans : Set(q, [Idle EXCEPT !.pc = "planned", !.plan = pl, !.inp = applied])
    BY <1>3 DEF Plan
  <2>2. At(q)' \in Aside
    <3>1. proc'[q] = [Idle EXCEPT !.pc = "planned", !.plan = pl, !.inp = applied]
      BY <2>1, SetIs
    <3> QED BY <3>1, IdleIs DEF Process
  <2> QED BY <1>2, <2>2, AsideRight DEF Recorded
<1>4. CASE StartRefused(q) \/ Crash(q)
  <2>1. At(q)' \in Aside
    BY <1>4, SetIs DEF StartRefused, Crash, Idle
  <2> QED BY <1>2, <2>1, AsideRight DEF Recorded
<1>5. CASE AbandonStart(q)
  <2>1. proc'[q] = [Idle EXCEPT !.pc = "abandon", !.run = cur, !.plan = plan[cur], !.inp = applied]
    BY <1>5, SetIs DEF AbandonStart
  <2>2. At(q)' \in Aside
    BY <2>1, IdleIs DEF Process
  <2> QED BY <1>2, <2>2, AsideRight DEF Recorded
<1>6. CASE RecoverStart(q)
  <2> DEFINE sn == [a \in Act |-> [last |-> Last(journal[a]), ref |-> HasReference(journal[a])]]
             rs == [a \in Act |-> IF Displaced(journal[a]) # "none"
                                  THEN Displaced(journal[a]) ELSE applied[a]]
             b == drifts # {}
  <2>1. Set(q, [Idle EXCEPT !.pc = "next", !.mode = "recover", !.run = cur, !.plan = plan[cur],
                            !.inp = rs, !.seen = sn, !.drift = b])
    BY <1>6 DEF RecoverStart
  <2> HIDE DEF sn, rs, b
  <2>2. At(q)' = "next" /\ proc'[q].done = <<>> /\ proc'[q].own = "unset"
    <3>1. proc'[q] = [Idle EXCEPT !.pc = "next", !.mode = "recover", !.run = cur, !.plan = plan[cur],
                                  !.inp = rs, !.seen = sn, !.drift = b]
      BY <2>1, SetIs
    <3> QED BY <3>1, IdleIs, IdleBooks DEF Process
  <2> HIDE DEF At, InRun
  <2> QED BY <1>2, <2>2, EntersRight DEF Recorded
<1> QED BY <1>3, <1>4, <1>5, <1>6

LEMMA InterruptRecorded ==
  ASSUME TypeInv, NEW q \in Proc, RInv(q), StayInv, TrackInv(q), RecordInv, HeldInv(q), Interrupt(q)
  PROVE  Recorded(q)
<1> DEFINE work == {"prepare", "running", "execute", "verify", "succeed", "undoVerify", "failVerify"}
<1>1. UNCHANGED <<cur, status, plan, journal, applied, base, kept>>
  BY DEF Interrupt, db, history
<1>2. \/ Set(q, Idle)
      \/ InRun(q) /\ Goto(q, "intComplete")
      \/ At(q) \in work /\ Goto(q, "intUndo")
      \/ At(q) = "execute" /\ Goto(q, "intUnlink")
      \/ At(q) \in Tasks /\ Goto(q, "intAgent")
  BY DEF Interrupt, Tasks
<1>3. CASE Set(q, Idle)
  <2>1. At(q)' \in Aside
    BY <1>3, SetIs DEF Idle
  <2> QED BY <1>1, <2>1, QuietRecorded
<1>4. CASE InRun(q) /\ Goto(q, "intComplete")
  <2>1. At(q)' = "intComplete" /\ proc'[q].done = proc[q].done
    BY <1>4, GotoRemains DEF Remains, Carries
  <2>2. RecordInv' /\ Recalls
    BY <1>1, RecordsStay DEF Open
  <2> QED BY <1>4, <2>1, <2>2, StopsRight DEF Recorded
<1>5. ASSUME NEW l \in {"intUndo", "intUnlink", "intAgent"}, At(q) \in work \cup Tasks, Goto(q, l)
      PROVE  Recorded(q)
  <2>1. At(q) \notin Failing
    BY DEF TrackInv, PathInv
  <2>2. Forward(q) /\ l \in Inside \ {"reverify"}
    BY <1>5, <2>1 DEF Forward, Inside, Tasks, Failing
  <2>3. Wanders(q)
    BY <1>5, <2>2, GotoWanders
  <2> QED BY <1>1, <2>2, <2>3, QuietRecorded
<1> QED BY <1>2, <1>3, <1>4, <1>5

----------------------------------------------------------------------------
(* Every step of the system. *)

LEMMA OwnStepRecorded ==
  ASSUME TypeInv, NEW q \in Proc, RInv(q), StayInv, TrackInv(q), RecordInv, HeldInv(q), Untroubled',
         Step(q) \/ Plan(q) \/ RecoverStart(q) \/ AbandonStart(q) \/ Crash(q) \/ Interrupt(q)
  PROVE  Recorded(q)
<1>1. CASE StartRun(q) \/ StartRefused(q) \/ RunNext(q) \/ Prepare(q) \/ JournalRunning(q) \/ Execute(q)
           \/ ExecuteFails(q) \/ Verify(q) \/ JournalSucceeded(q)
  BY <1>1, StartRunRecorded, BeginRecorded, NextRecorded, LoopRecorded, JournalRunningRecorded,
     JournalSucceededRecorded
<1>2. CASE Human(q) \/ RecordDrift(q) \/ DriftSkip(q) \/ Agent(q) \/ AgentResolve(q) \/ AgentVerify(q)
           \/ AgentSucceed(q) \/ AgentFail(q) \/ AgentSkip(q) \/ AgentError(q)
  BY <1>2, HumanRecorded, LoopRecorded, AgentRecorded
<1>3. CASE Cascade(q) \/ CascadeJournal(q) \/ CascadeEnd(q) \/ Skip(q) \/ Complete(q) \/ CompleteFails(q)
           \/ Cleanup(q) \/ Abandon(q)
  BY <1>3, CascadeRecorded, CascadeJournalRecorded, CascadeEndRecorded, SkipRecorded, CompleteRecorded, EndsRecorded
<1>4. CASE RecoverNext(q) \/ RecoverLoopEnd(q) \/ Restore(q) \/ Reverify(q) \/ Installer(q)
           \/ InterruptUndo(q) \/ InterruptFail(q) \/ InterruptComplete(q)
  BY <1>4, RecoverNextRecorded, NextRecorded, LoopRecorded, ReverifyRecorded, InstallerRecorded,
     InterruptFailRecorded, EndsRecorded
<1>5. CASE Plan(q) \/ RecoverStart(q) \/ AbandonStart(q) \/ Crash(q) \/ Interrupt(q)
  BY <1>5, BeginRecorded, InterruptRecorded
<1>6. ~(PrepareFails(q) \/ UndoVerify(q) \/ JournalFailVerify(q) \/ Undo(q) \/ JournalFail(q) \/ OwnBack(q))
  BY NothingFails
<1> QED BY <1>1, <1>2, <1>3, <1>4, <1>5, <1>6 DEF Step

\* The records of the plan, and what every invocation holds of them.
KeepInv == RecordInv /\ \A q \in Proc : HeldInv(q)

LEMMA KeepInit ==
  ASSUME Init
  PROVE  KeepInv
<1>1. cur = 0 /\ status = [r \in Run |-> "none"]
  BY DEF Init
<1>2. ~Open(cur) /\ ~(cur > 0)
  BY <1>1 DEF Open, Run
<1>3. RecordInv
  BY <1>2 DEF RecordInv, OwnedInv, FinalInv
<1>4. ASSUME NEW q \in Proc
      PROVE  HeldInv(q)
  <2>1. ~InRun(q)
    BY IdleIs, IdleBooks DEF Init
  <2> QED BY <2>1 DEF HeldInv
<1> QED BY <1>3, <1>4 DEF KeepInv

LEMMA KeepNext ==
  ASSUME TypeInv, Recovering, CutInv, KeepInv, Alone, Alone', Untroubled', [Next]_vars
  PROVE  KeepInv'
<1>1. ASSUME NEW p \in Proc,
             Step(p) \/ Plan(p) \/ RecoverStart(p) \/ AbandonStart(p) \/ Crash(p) \/ Interrupt(p)
      PROVE  KeepInv'
  <2>1. Recorded(p)
    BY <1>1, OwnStepRecorded DEF Recovering, CutInv, KeepInv
  <2>2. ASSUME NEW q \in Proc, q # p
        PROVE  HeldInv(q)'
    <3>1. proc'[q] = proc[q] /\ (proc[p].pc # "idle" \/ proc'[p].pc # "idle")
      BY <1>1, <2>2, OthersUntouched
    <3>2. proc[q].pc = "idle"
      BY <2>2, <3>1 DEF Alone
    <3>3. At(q)' \in Aside
      BY <3>1, <3>2
    <3> QED BY <3>3, AsideRight
  <2> HIDE DEF At, InRun
  <2> QED BY <2>1, <2>2 DEF Recorded, KeepInv
<1>2. ASSUME NEW a \in Act
      PROVE  ~Edit(a)
  BY NothingTroubles DEF Edit
<1>3. CASE UNCHANGED vars
  <2>1. UNCHANGED <<cur, status, plan, journal, applied, proc, base, kept>>
    BY <1>3 DEF vars
  <2>2. RecordInv' /\ Recalls /\ \A a \in Act : (Right(a)' <=> Right(a)) /\ St(a)' = St(a)
    BY <2>1, RecordsStay DEF KeepInv, Open
  <2>3. ASSUME NEW q \in Proc
        PROVE  HeldInv(q)'
    <3>1. HeldInv(q)
      BY DEF KeepInv
    <3>2. At(q)' = At(q) /\ (InRun(q)' <=> InRun(q)) /\ (Forward(q)' <=> Forward(q)) /\ proc' = proc
      BY <2>1 DEF Forward
    <3>3. \A a \in Act : (Right(a)' <=> Right(a)) /\ (InDone(q, a)' <=> InDone(q, a)) /\ (Remembered(a)' <=> Remembered(a))
      BY <2>1, <2>2 DEF InDone, Remembered
    <3> HIDE DEF At, InRun
    <3> QED BY <2>1, <3>1, <3>2, <3>3 DEF HeldInv, StackRight, OwnRight, SeenRight, RollRight, LeftRight
  <2> QED BY <2>2, <2>3 DEF KeepInv
<1> QED BY <1>1, <1>2, <1>3 DEF Next, Rest

LEMMA KeepAlways == Spec /\ []Alone /\ []Untroubled => []KeepInv
<1>1. Init => KeepInv
  BY KeepInit
<1>2. TypeInv /\ Recovering /\ CutInv /\ KeepInv /\ Alone /\ Alone' /\ Untroubled' /\ [Next]_vars => KeepInv'
  BY KeepNext
<1> QED BY <1>1, <1>2, RecoveringAlways, CutAlways, PTL DEF Spec

\* A run that was cut short by crashes and interrupts, however often, and then
\* ends Failed has put every target back as it found it, and every ownership
\* record whose prior the journal still names.
THEOREM CutShortIsUndone == Spec /\ []Alone /\ []Untroubled => []FailedRunIsUndone
<1>1. CutInv /\ KeepInv => FailedRunIsUndone
  <2> SUFFICES ASSUME CutInv, KeepInv, cur > 0, status[cur] = "Failed",
                      NEW a \in Act \ (edited \cup kept), KindOf(a) \in Invertible
               PROVE  file[a] = base.file[a] /\ (Remembered(a) => applied[a] = base.applied[a])
    BY DEF FailedRunIsUndone
  <2>1. Back(a)
    BY DEF CutInv, StayInv, ClosedInv
  <2>2. Right(a)
    BY DEF KeepInv, RecordInv, FinalInv
  <2> QED BY <2>1, <2>2 DEF Back, Right, Own
<1> QED BY <1>1, CutAlways, KeepAlways, PTL
=============================================================================
