----------------------------- MODULE AgentProofs -----------------------------
(***************************************************************************)
(* What the resolution of agent tasks guarantees for every plan: the       *)
(* processes of a task stay within its output, a task reported as applied  *)
(* was carried out and observed as authorized, a cancel launches nothing   *)
(* more, pip reads the requirement files that were reviewed, and only      *)
(* listed files are launched.                                              *)
(*                                                                         *)
(* The output is bounded because each process starts with what is left and *)
(* is killed at the chunk that passes it. The report is right because what *)
(* was launched is, at every moment, the beginning of what was authorized. *)
(***************************************************************************)
EXTENDS AgentResolution, WellFoundedInduction, TLAPS

Roles == {"harness", "action", "observer"}
Causes == {"limit", "timeout", "cancelled"}
AProcess(p) ==
  p \in [role : Roles, exe : {p.exe}, max : Nat, out : Nat, alive : BOOLEAN, killed : BOOLEAN,
         held : BOOLEAN, cause : SUBSET Causes, code : {p.code}]

\* One process at a time, and only where the resolution waits for it.
ControlInv ==
  /\ plan \in Plans /\ at \in Nat \ {0}
  /\ pc \in {"next", "start", "check", "run", "done"}
  /\ pc # "done" => at <= Len(plan.tasks)
  /\ pc # "run" => proc = NoProcess
  /\ pc = "run" => AProcess(proc)
  /\ consumed \in Nat

\* What was written, and what the process at work may still write.
BudgetInv ==
  /\ task # NoValue \/ pc \in {"start", "check", "run"} =>
       task.limit \in Nat /\ consumed <= task.limit
  /\ pc = "run" => /\ proc.max = task.limit - consumed
                   /\ proc.cause = {} => proc.out <= proc.max

\* The bounds the harness takes off a task leave its limit alone.
LEMMA OtherBounds ==
  ASSUME NEW t, NEW b,
         t = [bounds |-> t.bounds, limit |-> t.limit, observer |-> t.observer, size |-> t.size]
  PROVE  [t EXCEPT !.bounds = b].limit = t.limit
  OBVIOUS

\* A task that the harness bounds keeps a limit.
LEMMA TaskLimit ==
  ASSUME NEW p \in Plans, NEW i \in 1..Len(p.tasks), NEW h, NEW d
  PROVE  BoundedTask(p.tasks[i], h, d).limit \in Nat
<1>1. /\ p.tasks[i].limit \in Nat
      /\ p.tasks[i] = [bounds |-> p.tasks[i].bounds, limit |-> p.tasks[i].limit,
                       observer |-> p.tasks[i].observer, size |-> p.tasks[i].size]
  BY PlansAreSane
<1>2. PICK b : BoundedTask(p.tasks[i], h, d) = [p.tasks[i] EXCEPT !.bounds = b]
  BY DEF BoundedTask
<1> QED BY <1>1, <1>2, OtherBounds

\* A process that is started, and one that is killed.
LEMMA ExecutionIsAProcess ==
  ASSUME NEW role \in Roles, NEW exe, NEW max \in Nat
  PROVE  LET p == Execution(role, exe, max)
         IN  AProcess(p) /\ p.role = role /\ p.max = max /\ p.out = 0 /\ p.cause = {}
  BY DEF Execution, AProcess

\* Killing changes neither what a process wrote nor what it may write.
LEMMA KilledIsAProcess ==
  ASSUME NEW p, AProcess(p), NEW why \in Causes
  PROVE  LET k == Killed(p, why)
         IN  /\ AProcess(k) /\ k.max = p.max /\ k.out = p.out /\ k.role = p.role
             /\ k.cause # {}
<1> DEFINE k == [p EXCEPT !.killed = TRUE, !.cause = p.cause \cup {why}]
<1>1. /\ k.max = p.max /\ k.out = p.out /\ k.role = p.role /\ k.exe = p.exe
      /\ k.code = p.code
  BY DEF AProcess
<1>2. k.cause = p.cause \cup {why} /\ p.cause \cup {why} \in SUBSET Causes
  BY DEF AProcess
<1>3. k \in [role : Roles, exe : {p.exe}, max : Nat, out : Nat, alive : BOOLEAN,
             killed : BOOLEAN, held : BOOLEAN, cause : SUBSET Causes, code : {p.code}]
  BY <1>2 DEF AProcess
<1> HIDE DEF k
<1>4. Killed(p, why) = k
  BY DEF Killed, k
<1> QED BY <1>1, <1>2, <1>3, <1>4 DEF AProcess

\* Nothing runs at first.
LEMMA InitControl == Init => ControlInv /\ BudgetInv
  BY PlansAreSane DEF Init, ControlInv, BudgetInv

\* The end of a task, whatever its outcome.
LEMMA EndedControl ==
  ASSUME ControlInv, NEW outcome, Ended(outcome), pc # "done",
         UNCHANGED plan, consumed' \in Nat
  PROVE  ControlInv'
  BY PlansAreSane DEF ControlInv, Ended

\* A task starts with its whole limit.
LEMMA StartTaskKeeps ==
  ASSUME ControlInv, BudgetInv, StartTask
  PROVE  ControlInv' /\ BudgetInv'
<1> DEFINE bounded == BoundedTask(plan.tasks[at], Harness, disk)
<1>1. bounded.limit \in Nat
  <2>1. plan \in Plans /\ at \in 1..Len(plan.tasks)
    BY PlansAreSane DEF StartTask, ControlInv
  <2> QED BY <2>1, TaskLimit
<1>2. task' = bounded /\ consumed' = 0 /\ UNCHANGED plan
  BY DEF StartTask
<1> HIDE DEF bounded
<1>3. CASE Ended("refused")
  BY <1>1, <1>2, <1>3, EndedControl DEF StartTask, BudgetInv, Ended
<1>4. CASE ~Ended("refused")
  <2>1. /\ proc' = Execution("harness", Identity(Harness.exe, disk), bounded.limit)
        /\ pc' = "run" /\ UNCHANGED at
    BY <1>4 DEF StartTask, bounded
  <2>2. /\ AProcess(proc') /\ proc'.max = bounded.limit /\ proc'.out = 0
    BY <1>1, <2>1, ExecutionIsAProcess DEF Roles
  <2> QED BY <1>1, <1>2, <2>1, <2>2 DEF ControlInv, BudgetInv, StartTask
<1> QED BY <1>3, <1>4

\* The answer of the harness counts against the limit.
LEMMA HarnessAnswersKeeps ==
  ASSUME ControlInv, BudgetInv, HarnessAnswers
  PROVE  ControlInv' /\ BudgetInv'
<1>1. pc = "run" /\ AProcess(proc) /\ UNCHANGED <<plan, task>>
  BY DEF HarnessAnswers, ControlInv
<1>2. PICK authorized : Judged(authorized) /\ (authorized # Denied => proc.cause = {})
  <2>1. PICK answer \in plan.answers \cup {Undecodable} :
          Judged(IF Succeeded /\ answer # Undecodable
                 THEN AuthorizeProposal(answer, task, Harness, disk, files) ELSE Denied)
    BY DEF HarnessAnswers
  <2> QED BY <2>1 DEF Succeeded
<1>3. CASE \E outcome : Ended(outcome) /\ UNCHANGED consumed
  BY <1>1, <1>3, EndedControl DEF BudgetInv, Ended, ControlInv
<1>4. CASE authorized # Denied /\ Applying
  <2>1. consumed' = proc.out /\ pc' = "start" /\ proc' = NoProcess /\ UNCHANGED at
    BY <1>2, <1>4 DEF Judged
  <2> QED BY <1>1, <1>2, <1>4, <2>1 DEF ControlInv, BudgetInv, AProcess
<1> QED BY <1>2, <1>3, <1>4 DEF Judged

\* A process starts with what is left of the limit, or is refused.
LEMMA SpawnedKeeps ==
  ASSUME ControlInv, BudgetInv, Spawned, pc \in {"start", "check"},
         UNCHANGED <<plan, task, consumed>>
  PROVE  ControlInv' /\ BudgetInv'
<1>1. CASE Ended("refused")
  BY <1>1, EndedControl DEF BudgetInv, Ended, ControlInv
<1>2. CASE ~Ended("refused")
  <2>1. task.limit \in Nat /\ consumed <= task.limit /\ consumed \in Nat
        /\ OutputLeft \in Nat /\ OutputLeft = task.limit - consumed
    BY DEF BudgetInv, ControlInv, OutputLeft
  <2>2. PICK role \in Roles : \E exe : proc' = Execution(role, exe, OutputLeft)
    BY <1>2 DEF Spawned, Roles
  <2>3. PICK exe : proc' = Execution(role, exe, OutputLeft)
    BY <2>2
  <2>4. AProcess(proc') /\ proc'.max = OutputLeft /\ proc'.out = 0
    BY <2>1, <2>3, ExecutionIsAProcess
  <2> QED BY <1>2, <2>1, <2>4 DEF ControlInv, BudgetInv, Spawned
<1> QED BY <1>1, <1>2

\* The steps up to the start of an invocation.
LEMMA InvocationKeeps ==
  ASSUME ControlInv, BudgetInv, StartInvocation \/ CheckFile \/ SpawnChecked
  PROVE  ControlInv' /\ BudgetInv'
<1>1. pc \in {"start", "check"} /\ UNCHANGED <<plan, task, consumed>>
  BY DEF StartInvocation, CheckFile, SpawnChecked
<1>2. CASE Spawned
  BY <1>1, <1>2, SpawnedKeeps
<1>3. CASE Ended("refused")
  BY <1>1, <1>3, EndedControl DEF BudgetInv, Ended, ControlInv
<1>4. CASE pc' \in {"start", "check"} /\ UNCHANGED <<at, proc>>
  BY <1>1, <1>4 DEF ControlInv, BudgetInv
<1> QED BY <1>1, <1>2, <1>3, <1>4 DEF StartInvocation, CheckFile, SpawnChecked

\* What an invocation wrote counts against the limit.
LEMMA InvocationEndsKeeps ==
  ASSUME ControlInv, BudgetInv, InvocationEnds
  PROVE  ControlInv' /\ BudgetInv'
<1>1. pc = "run" /\ AProcess(proc) /\ UNCHANGED <<plan, task>>
  BY DEF InvocationEnds, ControlInv
<1>2. consumed' = consumed \/ (consumed' = consumed + proc.out /\ WithinOutput)
  BY DEF InvocationEnds
<1>3. consumed' \in Nat /\ consumed' <= task.limit
  BY <1>1, <1>2 DEF WithinOutput, AProcess, ControlInv, BudgetInv
<1>4. CASE \E outcome : Ended(outcome)
  BY <1>1, <1>3, <1>4, EndedControl DEF BudgetInv, Ended
<1>5. CASE pc' = "start" /\ proc' = NoProcess /\ UNCHANGED at
  BY <1>1, <1>3, <1>5 DEF ControlInv, BudgetInv
<1> QED BY <1>4, <1>5 DEF InvocationEnds

\* A process writes, is killed or ends: over the limit it has a cause.
LEMMA ProcessKeeps ==
  ASSUME ControlInv, BudgetInv, pc = "run", NEW p, Process(p), AProcess(p),
         p.max = proc.max, p.cause = {} => p.out <= p.max
  PROVE  ControlInv' /\ BudgetInv'
  BY DEF ControlInv, BudgetInv, Process

\* What a running process does: past its limit it is killed.
LEMMA RunningKeeps ==
  ASSUME ControlInv, BudgetInv, Write \/ Timer \/ Detach \/ DetachedEnds \/ Exit
  PROVE  ControlInv' /\ BudgetInv'
<1>1. pc = "run" /\ AProcess(proc)
  BY DEF Write, Timer, Detach, DetachedEnds, Exit, Running, ControlInv
<1>2. CASE Write
  <2> DEFINE more == [proc EXCEPT !.out = @ + 1]
             p == IF more.out > more.max THEN Killed(more, "limit") ELSE more
  <2>1. AProcess(more) /\ more.max = proc.max /\ more.cause = proc.cause
    BY <1>1 DEF AProcess
  <2>2. AProcess(p) /\ p.max = proc.max /\ (p.cause = {} => p.out <= p.max)
    <3> HIDE DEF more
    <3> QED BY <2>1, KilledIsAProcess DEF AProcess, Causes
  <2>3. Process(p)
    BY <1>2 DEF Write
  <2> HIDE DEF p
  <2> QED BY <1>1, <2>2, <2>3, ProcessKeeps
<1>3. CASE Timer
  <2> DEFINE p == Killed(proc, "timeout")
  <2>1. AProcess(p) /\ p.max = proc.max /\ p.cause # {}
    BY <1>1, KilledIsAProcess DEF Causes
  <2>2. Process(p)
    BY <1>3 DEF Timer
  <2> HIDE DEF p
  <2> QED BY <1>1, <2>1, <2>2, ProcessKeeps
<1>4. CASE Detach \/ DetachedEnds
  <2>1. PICK b \in BOOLEAN : Process([proc EXCEPT !.held = b])
    BY <1>4 DEF Detach, DetachedEnds
  <2> DEFINE p == [proc EXCEPT !.held = b]
  <2>2. AProcess(p) /\ p.max = proc.max /\ p.cause = proc.cause /\ p.out = proc.out
    BY <1>1 DEF AProcess
  <2> HIDE DEF p
  <2> QED BY <1>1, <2>1, <2>2, ProcessKeeps DEF BudgetInv, p
<1>5. CASE Exit
  <2>1. PICK code : Process([proc EXCEPT !.alive = FALSE, !.code = code])
    BY <1>5 DEF Exit
  <2> DEFINE p == [proc EXCEPT !.alive = FALSE, !.code = code]
  <2>2. AProcess(p) /\ p.max = proc.max /\ p.cause = proc.cause /\ p.out = proc.out
    BY <1>1 DEF AProcess
  <2> HIDE DEF p
  <2> QED BY <1>1, <2>1, <2>2, ProcessKeeps DEF BudgetInv, p
<1> QED BY <1>2, <1>3, <1>4, <1>5

\* A cancel kills the process at work.
LEMMA CancelKeeps ==
  ASSUME ControlInv, BudgetInv, Cancel
  PROVE  ControlInv' /\ BudgetInv'
<1>1. UNCHANGED <<plan, at, pc, task, consumed>>
  BY DEF Cancel
<1>2. CASE proc' = proc
  BY <1>1, <1>2 DEF ControlInv, BudgetInv
<1>3. CASE pc = "run" /\ proc' = Killed(proc, "cancelled")
  <2>1. AProcess(proc') /\ proc'.max = proc.max /\ proc'.cause # {}
    BY <1>3, KilledIsAProcess DEF ControlInv, Causes
  <2> QED BY <1>1, <1>3, <2>1 DEF ControlInv, BudgetInv
<1> QED BY <1>2, <1>3 DEF Cancel, Running

\* So every step keeps both parts.
LEMMA NextControl == ControlInv /\ BudgetInv /\ [Next]_vars => ControlInv' /\ BudgetInv'
<1> SUFFICES ASSUME ControlInv, BudgetInv, [Next]_vars PROVE ControlInv' /\ BudgetInv'
  OBVIOUS
<1>1. CASE WithoutAgent
  BY <1>1 DEF WithoutAgent, ControlInv, BudgetInv
<1>2. CASE Edit
  BY <1>2 DEF Edit, ControlInv, BudgetInv
<1>3. CASE UNCHANGED vars
  BY <1>3 DEF vars, ControlInv, BudgetInv
<1> QED
  BY <1>1, <1>2, <1>3, StartTaskKeeps, HarnessAnswersKeeps, InvocationKeeps, InvocationEndsKeeps,
     RunningKeeps, CancelKeeps
  DEF Next, Resolve, Done

\* The control of a resolution and its budget, throughout.
LEMMA Control == Spec => [](ControlInv /\ BudgetInv)
  BY InitControl, NextControl, PTL DEF Spec

\* The processes of one task share its output limit: those that ended well
\* never wrote more than it together.
THEOREM OutputIsBounded == Spec => []OutputBudget
<1>1. ControlInv /\ BudgetInv => OutputBudget
  BY DEF ControlInv, BudgetInv, OutputBudget, AProcess
<1> QED BY <1>1, Control, PTL

-----------------------------------------------------------------------------
(* What was authorized, and what was launched of it.                       *)

Sequence(q) == \E S : q \in Seq(S)

\* A file: what it leads to is itself, or nothing.
AFile(x) == x.dir # NoValue /\ \A d \in Disks : Identity(x, d) \in {x, NoValue}

ALaunch(r) ==
  r = [exe |-> r.exe, args |-> r.args, files |-> r.files, code |-> r.code,
       environment |-> r.environment]

\* The invocation at i was launched as it was authorized.
AsAuthorized(i) == launched[i].exe = work[i].exe /\ launched[i].args = work[i].args
Lined(n) == \A i \in 1..n : AsAuthorized(i) /\ launched[i].code = "0"

WorkInv ==
  /\ disk \in Disks
  /\ Sequence(work) /\ Sequence(launched) /\ Sequence(outcomes) /\ step \in Nat
  /\ \A i \in 1..Len(work) : AFile(work[i].exe)
  /\ \A i \in 1..Len(launched) : ALaunch(launched[i])

\* What was launched is the beginning of what was authorized.
OrderInv ==
  /\ pc \in {"start", "check"} =>
       Applying /\ Len(launched) = step /\ step < Len(work) /\ Lined(step)
  /\ pc = "run" /\ proc.role # "harness" =>
       /\ Applying /\ Len(launched) = step + 1 /\ step < Len(work) /\ Lined(step)
       /\ AsAuthorized(step + 1) /\ (proc.role = "observer" <=> step + 1 = Len(work))
  /\ pc = "run" /\ proc.role = "harness" => step = 0 /\ launched = <<>> /\ work = <<>>
  /\ pc \in {"next", "done"} /\ outcomes # <<>> /\ outcomes[Len(outcomes)] = "applied" =>
       Applying /\ Len(launched) = Len(work) /\ Lined(Len(work))

\* A set of naturals has a least member.
LEMMA Least ==
  ASSUME NEW T, T \subseteq Nat, T # {}
  PROVE  \E x \in T : \A y \in T : x <= y
<1>1. PICK x \in T : \A y \in T : ~(<<y, x>> \in OpToRel(<, Nat))
  BY NatLessThanWellFounded, WFMin, Zenon
<1>2. ASSUME NEW y \in T PROVE x <= y
  <2>1. <<y, x>> \in OpToRel(<, Nat) <=> y < x
    BY DEF OpToRel
  <2>2. ~(y < x)
    BY <1>1, <2>1, Zenon
  <2> QED BY <2>2
<1> QED BY <1>2

\* What a link or a name leads to is a file.
LEMMA IdentityIsAFile ==
  ASSUME NEW e, NEW d \in Disks, Identity(e, d) # NoValue
  PROVE  AFile(Identity(e, d))
<1>1. PICK f \in DOMAIN d : Identity(e, d) = d[f]
  <2>1. CASE e.dir # NoValue
    BY <2>1 DEF Identity
  <2>2. CASE e.dir = NoValue
    <3> DEFINE hits == {i \in 1..Len(Path) : /\ At(Path[i], e.name) \in DOMAIN d
                                             /\ d[At(Path[i], e.name)] # NoValue}
               i == CHOOSE i \in hits : \A j \in hits : i <= j
    <3>1. hits # {} /\ Identity(e, d) = d[At(Path[i], e.name)]
      BY <2>2 DEF Identity
    <3>2. hits \subseteq Nat
      BY PathAssumption
    <3>3. \E x \in hits : \A y \in hits : x <= y
      BY <3>1, <3>2, Least, Zenon
    <3>4. i \in hits
      BY <3>3, Zenon
    <3> QED BY <3>1, <3>4
  <2> QED BY <2>1, <2>2
<1>2. d[f].dir # NoValue
  BY <1>1, FilesAreNoLinks
<1>3. ASSUME NEW d2 \in Disks PROVE Identity(d[f], d2) \in {d[f], NoValue}
  BY <1>1, <1>2, <1>3, FilesAreNoLinks DEF Identity
<1> QED BY <1>1, <1>2, <1>3 DEF AFile

\* What is authorized names the file it was authorized for.
LEMMA BoundedRunIsOf ==
  ASSUME NEW x, NEW run, NEW t, NEW h, BoundedRun(x, run, t, h) # Denied
  PROVE  BoundedRun(x, run, t, h).exe = x
  BY DEF BoundedRun

\* What the catalog of executables lists is a file.
LEMMA ListedIsAFile ==
  ASSUME NEW e, NEW t, NEW h, NEW d \in Disks, ListedFile(e, t, h, d) # NoValue
  PROVE  AFile(ListedFile(e, t, h, d))
  BY IdentityIsAFile DEF ListedFile

\* So an authorized action runs a file,
LEMMA ActionIsAFile ==
  ASSUME NEW a, NEW t, NEW h, NEW d \in Disks, NEW f, AuthorizeAction(a, t, h, d, f) # Denied
  PROVE  AFile(AuthorizeAction(a, t, h, d, f).exe)
<1> DEFINE x == ListedFile(a.exe, t, h, d)
           run == Behavior(x, a.args, t, h, a.origins, d, f)
<1>1. x # NoValue /\ AuthorizeAction(a, t, h, d, f) = BoundedRun(x, run, t, h)
  BY DEF AuthorizeAction, ActionOf
<1>2. AFile(x)
  BY <1>1, ListedIsAFile
<1> HIDE DEF x, run
<1> QED BY <1>1, <1>2, BoundedRunIsOf

\* and so does an authorized observer.
LEMMA ObserverIsAFile ==
  ASSUME NEW t, NEW h, NEW d \in Disks, NEW f, AuthorizeVerification(t, h, d, f) # Denied
  PROVE  AFile(AuthorizeVerification(t, h, d, f).exe)
<1> DEFINE x == ListedFile(t.observer.exe, t, h, d)
           run == Behavior(x, t.observer.args, t, h, {}, d, f)
<1>1. x # NoValue /\ AuthorizeVerification(t, h, d, f) = BoundedRun(x, run, t, h)
  BY DEF AuthorizeVerification, ObserverOf
<1>2. AFile(x)
  BY <1>1, ListedIsAFile
<1> HIDE DEF x, run
<1> QED BY <1>1, <1>2, BoundedRunIsOf

\* An authorized proposal is a sequence of files to run.
LEMMA ProposalRuns ==
  ASSUME NEW actions, Len(actions) \in Nat, NEW t, NEW h, NEW d \in Disks, NEW f,
         NEW runs, runs = AuthorizeProposal(actions, t, h, d, f), runs # Denied
  PROVE  /\ Sequence(runs) /\ Len(runs) > 0
         /\ \A i \in 1..Len(runs) : AFile(runs[i].exe)
<1> DEFINE n == Len(actions)
           A(i) == AuthorizeAction(actions[i], t, h, d, f)
           V == AuthorizeVerification(t, h, d, f)
           all == [i \in 1..n |-> A(i)]
           S == {A(i) : i \in 1..n} \cup {V}
<1>1. all \in Seq(S) /\ Len(all) = n /\ V \in S
  OBVIOUS
<1>2. runs = Append(all, V) /\ \A i \in DOMAIN runs : runs[i] # Denied
  BY DEF AuthorizeProposal, AllOrNothing
<1>3. /\ runs \in Seq(S) /\ Len(runs) = n + 1 /\ runs[n + 1] = V
      /\ \A i \in 1..n : runs[i] = all[i]
  <2> HIDE DEF S, V, all, n
  <2>1. n \in Nat
    BY DEF n
  <2> QED BY <1>1, <1>2, <2>1
<1>4. ASSUME NEW i \in 1..n PROVE AFile(runs[i].exe)
  <2>1. runs[i] = A(i) /\ A(i) # Denied
    BY <1>2, <1>3
  <2> QED BY <2>1, ActionIsAFile
<1>5. AFile(V.exe)
  BY <1>2, <1>3, ObserverIsAFile
<1> HIDE DEF V, all, n, S
<1>6. n \in Nat
  BY DEF n
<1> QED BY <1>3, <1>4, <1>5, <1>6 DEF Sequence

\* One more is appended, and the others stay.
LEMMA Appended ==
  ASSUME NEW q, Sequence(q), NEW x
  PROVE  /\ Sequence(Append(q, x)) /\ Len(q) \in Nat /\ Len(Append(q, x)) = Len(q) + 1
         /\ Append(q, x)[Len(q) + 1] = x
         /\ \A i \in 1..Len(q) : Append(q, x)[i] = q[i]
<1>1. PICK S : q \in Seq(S)
  BY DEF Sequence
<1>2. q \in Seq(S \cup {x}) /\ Append(q, x) \in Seq(S \cup {x})
  BY <1>1
<1> QED BY <1>1, <1>2 DEF Sequence

\* Nothing is authorized at first, and nothing was launched.
LEMMA InitWork == Init => WorkInv /\ OrderInv
<1>1. Sequence(<<>>) /\ Len(<<>>) = 0
  <2>1. <<>> \in Seq({})
    OBVIOUS
  <2> QED BY <2>1 DEF Sequence
<1> QED BY <1>1 DEF Init, WorkInv, OrderInv

\* A task that ends otherwise than applied.
LEMMA EndedOrder ==
  ASSUME WorkInv, NEW outcome, Ended(outcome), outcome # "applied"
  PROVE  Sequence(outcomes)' /\ OrderInv'
<1>1. outcomes' = Append(outcomes, outcome) /\ pc' \in {"next", "done"}
  BY DEF Ended
<1>2. Sequence(outcomes') /\ outcomes'[Len(outcomes')] = outcome
  BY <1>1, Appended DEF WorkInv
<1> QED BY <1>1, <1>2 DEF OrderInv

\* A task starts with nothing authorized.
LEMMA StartTaskOrder ==
  ASSUME WorkInv, StartTask
  PROVE  WorkInv' /\ OrderInv'
<1>1. /\ work' = <<>> /\ step' = 0 /\ launched' = <<>> /\ UNCHANGED disk
  BY DEF StartTask, env
<1>2. Sequence(<<>>) /\ Len(<<>>) = 0
  <2>1. <<>> \in Seq({})
    OBVIOUS
  <2> QED BY <2>1 DEF Sequence
<1>3. CASE Ended("refused")
  BY <1>1, <1>2, <1>3, EndedOrder DEF WorkInv
<1>4. CASE ~Ended("refused")
  <2>1. PICK exe, max : proc' = Execution("harness", exe, max)
    BY <1>4 DEF StartTask
  <2>2. proc'.role = "harness" /\ pc' = "run" /\ UNCHANGED outcomes
    BY <1>4, <2>1 DEF StartTask, Execution
  <2> QED BY <1>1, <1>2, <2>2 DEF WorkInv, OrderInv
<1> QED BY <1>3, <1>4

\* The answer is authorized as a whole, before anything of it is launched.
LEMMA HarnessAnswersOrder ==
  ASSUME ControlInv, WorkInv, OrderInv, HarnessAnswers
  PROVE  WorkInv' /\ OrderInv'
<1>1. /\ pc = "run" /\ proc.role = "harness" /\ step = 0 /\ launched = <<>>
      /\ UNCHANGED <<disk, plan, launched>>
  BY DEF HarnessAnswers, OrderInv, env
<1>2. PICK answer \in plan.answers \cup {Undecodable} :
        Judged(IF Succeeded /\ answer # Undecodable
               THEN AuthorizeProposal(answer, task, Harness, disk, files) ELSE Denied)
  BY DEF HarnessAnswers
<1> DEFINE authorized == IF Succeeded /\ answer # Undecodable
                         THEN AuthorizeProposal(answer, task, Harness, disk, files) ELSE Denied
<1>3. CASE authorized # Denied
  <2>1. authorized = AuthorizeProposal(answer, task, Harness, disk, files)
        /\ answer \in plan.answers
    BY <1>3
  <2>2. Len(answer) \in Nat
    BY <2>1, PlansAreSane DEF ControlInv
  <2> HIDE DEF authorized
  <2>3. /\ Sequence(authorized) /\ Len(authorized) > 0
        /\ \A i \in 1..Len(authorized) : AFile(authorized[i].exe)
    BY <1>3, <2>1, <2>2, ProposalRuns DEF WorkInv
  <2>4. CASE Applying
    <3>1. /\ work' = authorized /\ pc' = "start" /\ UNCHANGED <<step, outcomes>>
      BY <1>2, <1>3, <2>4 DEF Judged, authorized
    <3>2. Applying'
      BY <1>1, <2>4 DEF Applying
    <3>3. Len(<<>>) = 0
      OBVIOUS
    <3> QED BY <1>1, <2>3, <3>1, <3>2, <3>3 DEF WorkInv, OrderInv, Lined
  <2>5. CASE ~Applying
    <3>1. Ended("proposed") /\ UNCHANGED <<work, step>>
      BY <1>2, <1>3, <2>5 DEF Judged, authorized
    <3> QED BY <1>1, <3>1, EndedOrder DEF WorkInv
  <2> QED BY <2>4, <2>5
<1>4. CASE authorized = Denied
  <2>1. Ended("refused") /\ UNCHANGED <<work, step>>
    BY <1>2, <1>4 DEF Judged
  <2> QED BY <1>1, <2>1, EndedOrder DEF WorkInv
<1> QED BY <1>3, <1>4

\* The next invocation is launched as it was authorized, behind the others.
LEMMA SpawnedOrder ==
  ASSUME WorkInv, OrderInv, Spawned, pc \in {"start", "check"},
         UNCHANGED <<disk, plan, work, step>>
  PROVE  WorkInv' /\ OrderInv'
<1>1. CASE Identity(Current.exe, disk) = NoValue
  <2>1. Ended("refused") /\ UNCHANGED launched
    BY <1>1 DEF Spawned, Runs
  <2> QED BY <2>1, EndedOrder DEF WorkInv
<1>2. CASE Identity(Current.exe, disk) # NoValue
  <2> DEFINE r == [exe |-> Identity(Current.exe, disk), args |-> Current.args,
                   files |-> Current.files, code |-> NoValue,
                   environment |-> CurrentEnvironment]
  <2>1. /\ launched' = Append(launched, r) /\ pc' = "run" /\ UNCHANGED outcomes
        /\ proc' = Execution(IF Observing THEN "observer" ELSE "action",
                             Identity(Current.exe, disk), OutputLeft)
    BY <1>2 DEF Spawned, Runs
  <2>2. proc'.role = IF Observing THEN "observer" ELSE "action"
    BY <2>1 DEF Execution
  <2>3. step \in Nat /\ Len(work) \in Nat /\ step < Len(work) /\ Len(launched) = step
        /\ Applying /\ Lined(step)
    BY Appended DEF WorkInv, OrderInv
  <2>4. r.exe = Current.exe /\ r.args = Current.args /\ ALaunch(r)
    BY <1>2, <2>3 DEF WorkInv, AFile, Current, ALaunch
  <2> HIDE DEF r
  <2>5. /\ Sequence(launched') /\ Len(launched') = step + 1 /\ launched'[step + 1] = r
        /\ \A i \in 1..step : launched'[i] = launched[i]
    BY <2>1, <2>3, Appended DEF WorkInv
  <2>6. WorkInv'
    BY <2>1, <2>3, <2>4, <2>5 DEF WorkInv
  <2>7. AsAuthorized(step + 1)' /\ Lined(step)'
    BY <2>3, <2>4, <2>5 DEF AsAuthorized, Lined, Current
  <2>8. Applying' /\ (proc'.role = "observer" <=> step + 1 = Len(work))
    BY <2>2, <2>3 DEF Applying, Observing
  <2>9. pc' = "run" /\ proc'.role # "harness" /\ Len(launched') = step' + 1 /\ step' < Len(work')
    BY <2>1, <2>2, <2>3, <2>5
  <2> QED BY <2>6, <2>7, <2>8, <2>9 DEF OrderInv
<1> QED BY <1>1, <1>2

\* The steps up to the start of an invocation launch nothing that was not next.
LEMMA InvocationOrder ==
  ASSUME WorkInv, OrderInv, StartInvocation \/ CheckFile \/ SpawnChecked
  PROVE  WorkInv' /\ OrderInv'
<1>1. pc \in {"start", "check"} /\ UNCHANGED <<disk, plan, work, step>>
  BY DEF StartInvocation, CheckFile, SpawnChecked, env
<1>2. CASE Spawned
  BY <1>1, <1>2, SpawnedOrder
<1>3. CASE Ended("refused") /\ UNCHANGED launched
  BY <1>1, <1>3, EndedOrder DEF WorkInv
<1>4. CASE pc' \in {"start", "check"} /\ UNCHANGED <<launched, outcomes>>
  BY <1>1, <1>4 DEF WorkInv, OrderInv, Applying, Lined, AsAuthorized
<1> QED BY <1>1, <1>2, <1>3, <1>4 DEF StartInvocation, CheckFile, SpawnChecked

\* An exit is recorded, for the invocation it is of.
LEMMA RecordedKeeps ==
  ASSUME WorkInv, Len(launched) = step + 1, launched' = Recorded
  PROVE  /\ Sequence(launched') /\ Len(launched') = step + 1
         /\ \A i \in 1..step : launched'[i] = launched[i]
         /\ \A i \in 1..(step + 1) : ALaunch(launched'[i])
         /\ launched'[step + 1].exe = launched[step + 1].exe
         /\ launched'[step + 1].args = launched[step + 1].args
         /\ launched'[step + 1].code = proc.code
<1> DEFINE r == [launched[step + 1] EXCEPT !.code = proc.code]
<1>1. ALaunch(launched[step + 1]) /\ step \in Nat
  BY DEF WorkInv
<1>2. /\ ALaunch(r) /\ r.exe = launched[step + 1].exe /\ r.args = launched[step + 1].args
      /\ r.code = proc.code
  BY <1>1 DEF ALaunch
<1>3. launched' = [launched EXCEPT ![step + 1] = r]
  BY DEF Recorded
<1> HIDE DEF r
<1>4. PICK S : launched \in Seq(S)
  BY DEF WorkInv, Sequence
<1>5. launched \in Seq(S \cup {r}) /\ launched' \in Seq(S \cup {r}) /\ Len(launched') = Len(launched)
  BY <1>1, <1>3, <1>4
<1>6. launched'[step + 1] = r /\ \A i \in 1..step : launched'[i] = launched[i]
  BY <1>1, <1>3, <1>4
<1>7. \A i \in 1..(step + 1) : ALaunch(launched'[i])
  <2>1. ASSUME NEW i \in 1..(step + 1) PROVE i \in 1..step \/ i = step + 1
    BY <1>1
  <2> QED BY <1>1, <1>2, <1>6, <2>1 DEF WorkInv
<1> QED BY <1>2, <1>5, <1>6, <1>7 DEF Sequence

\* An invocation that ends is recorded, and the next one is its successor.
LEMMA InvocationEndsOrder ==
  ASSUME ControlInv, WorkInv, OrderInv, InvocationEnds
  PROVE  WorkInv' /\ OrderInv'
<1>1. /\ pc = "run" /\ proc.role \in {"observer", "action"} /\ launched' = Recorded
      /\ UNCHANGED <<disk, plan, work>>
  BY DEF InvocationEnds, ControlInv, AProcess, Roles, env
<1>2. /\ Applying /\ Len(launched) = step + 1 /\ step < Len(work) /\ Lined(step)
      /\ AsAuthorized(step + 1) /\ (proc.role = "observer" <=> step + 1 = Len(work))
      /\ step \in Nat /\ Len(work) \in Nat
  BY <1>1, Appended DEF OrderInv, WorkInv
<1>3. /\ Sequence(launched') /\ Len(launched') = step + 1
      /\ \A i \in 1..step : launched'[i] = launched[i]
      /\ \A i \in 1..(step + 1) : ALaunch(launched'[i])
      /\ launched'[step + 1].exe = launched[step + 1].exe
      /\ launched'[step + 1].args = launched[step + 1].args
      /\ launched'[step + 1].code = proc.code
  BY <1>1, <1>2, RecordedKeeps
<1>4. CASE Ended("refused")
  <2>1. step' \in Nat
    BY <1>2 DEF InvocationEnds
  <2> QED BY <1>1, <1>3, <1>4, <2>1, EndedOrder DEF WorkInv
<1>5. CASE ~Ended("refused") /\ Succeeded /\ step' = step + 1
  <2>1. proc.code = "0"
    BY <1>5 DEF Succeeded
  <2>2. Lined(step)'
    <3>1. ASSUME NEW i \in 1..(step + 1)
          PROVE  AsAuthorized(i)' /\ launched'[i].code = "0"
      <4>1. CASE i \in 1..step
        BY <1>1, <1>2, <1>3, <4>1 DEF Lined, AsAuthorized
      <4>2. CASE i = step + 1
        BY <1>1, <1>2, <1>3, <2>1, <4>2 DEF AsAuthorized
      <4> QED BY <1>2, <4>1, <4>2
    <3> QED BY <1>5, <3>1 DEF Lined
  <2>3. Applying'
    BY <1>1, <1>2 DEF Applying
  <2>4. CASE Ended("applied") /\ proc.role = "observer"
    <3>1. Sequence(outcomes') /\ pc' \in {"next", "done"}
      BY <2>4, Appended DEF Ended, WorkInv
    <3> QED BY <1>1, <1>2, <1>3, <1>5, <2>2, <2>3, <2>4, <3>1 DEF WorkInv, OrderInv
  <2>5. CASE pc' = "start" /\ proc.role = "action" /\ UNCHANGED outcomes
    BY <1>1, <1>2, <1>3, <1>5, <2>2, <2>3, <2>5 DEF WorkInv, OrderInv
  <2> QED BY <1>5, <2>4, <2>5 DEF InvocationEnds
<1> QED BY <1>4, <1>5 DEF InvocationEnds

\* What a running process does leaves the order alone.
LEMMA RunningOrder ==
  ASSUME ControlInv, WorkInv, OrderInv, pc = "run",
         Write \/ Timer \/ Detach \/ DetachedEnds \/ Exit \/ Cancel
  PROVE  WorkInv' /\ OrderInv'
<1>1. UNCHANGED <<disk, plan, pc, work, step, outcomes, launched>>
  BY DEF Write, Timer, Detach, DetachedEnds, Exit, Cancel, Process, env
<1>2. proc'.role = proc.role
  <2>1. AProcess(proc)
    BY DEF ControlInv
  <2> QED BY <2>1 DEF Write, Timer, Detach, DetachedEnds, Exit, Cancel, Process, Killed, AProcess
<1> QED BY <1>1, <1>2 DEF WorkInv, OrderInv, Applying, Lined, AsAuthorized

\* So every step keeps the order.
LEMMA NextOrder == ControlInv /\ WorkInv /\ OrderInv /\ [Next]_vars => WorkInv' /\ OrderInv'
<1> SUFFICES ASSUME ControlInv, WorkInv, OrderInv, [Next]_vars PROVE WorkInv' /\ OrderInv'
  OBVIOUS
<1>1. CASE WithoutAgent \/ UNCHANGED vars
  BY <1>1
  DEF WithoutAgent, env, vars, WorkInv, OrderInv, Applying, Lined, AsAuthorized
<1>2. CASE Edit
  <2>1. disk' \in Disks
    BY <1>2 DEF Edit, WorkInv
  <2>2. UNCHANGED <<plan, pc, proc, work, step, outcomes, launched>>
    BY <1>2 DEF Edit
  <2> QED BY <2>1, <2>2 DEF WorkInv, OrderInv, Applying, Lined, AsAuthorized
<1>3. CASE Cancel /\ pc # "run"
  <2>1. UNCHANGED <<disk, plan, pc, proc, work, step, outcomes, launched>>
    BY <1>3 DEF Cancel, Running, env
  <2> QED BY <2>1, <1>3 DEF WorkInv, OrderInv, Applying, Lined, AsAuthorized
<1>4. Write \/ Timer \/ Detach \/ DetachedEnds \/ Exit => pc = "run"
  BY DEF Write, Timer, Detach, DetachedEnds, Exit, Running
<1> QED
  BY <1>1, <1>2, <1>3, <1>4, StartTaskOrder, HarnessAnswersOrder, InvocationOrder,
     InvocationEndsOrder, RunningOrder
  DEF Next, Resolve, Done

\* What was launched is the beginning of what was authorized, throughout.
LEMMA Order == Spec => [](ControlInv /\ WorkInv /\ OrderInv)
<1>1. Init => ControlInv /\ WorkInv /\ OrderInv
  BY InitControl, InitWork
<1>2. (ControlInv /\ BudgetInv) /\ (WorkInv /\ OrderInv) /\ [Next]_vars => WorkInv' /\ OrderInv'
  BY NextOrder
<1> QED BY <1>1, <1>2, Control, PTL DEF Spec

\* A task is reported applied only when each authorized action ran once, in
\* order, and exited well, and then the observer did.
THEOREM AppliedIsVerified == Spec => []AppliedMeansVerified
<1>1. WorkInv /\ OrderInv => AppliedMeansVerified
  <2> SUFFICES ASSUME WorkInv, OrderInv, pc \in {"next", "done"}, outcomes # <<>>,
                      outcomes[Len(outcomes)] = "applied"
               PROVE  /\ Len(launched) = Len(work)
                      /\ \A i \in DOMAIN work :
                           /\ launched[i].exe = work[i].exe /\ launched[i].args = work[i].args
                           /\ launched[i].code = "0"
                      /\ Applying /\ Answer(Len(outcomes)) = "no-op"
    BY DEF AppliedMeansVerified
  <2>1. Applying /\ Len(launched) = Len(work) /\ Lined(Len(work))
    BY DEF OrderInv
  <2>2. DOMAIN work = 1..Len(work) /\ Len(outcomes) \in DOMAIN outcomes
    <3>1. PICK S, T : work \in Seq(S) /\ outcomes \in Seq(T)
      BY DEF WorkInv, Sequence
    <3> QED BY <3>1
  <2>3. Answer(Len(outcomes)) = "no-op"
    BY <2>1, <2>2 DEF Answer, Applying
  <2> QED BY <2>1, <2>2, <2>3 DEF Lined, AsAuthorized
<1> QED BY <1>1, Order, PTL

\* Once the caller has cancelled no further process is launched, except for an
\* invocation whose requirement files were being compared at that moment.
THEOREM CancelIsHeeded == Spec => CancelStopsLaunches
<1>1. ControlInv /\ WorkInv /\ OrderInv /\ [Next]_vars =>
        (cancelled /\ launched' # launched /\ Len(launched') > Len(launched) => pc = "check")
  <2> SUFFICES ASSUME ControlInv, WorkInv, OrderInv, [Next]_vars, cancelled,
                      launched' # launched, Len(launched') > Len(launched)
               PROVE  pc = "check"
    OBVIOUS
  <2>1. Len(launched) \in Nat /\ Len(<<>>) = 0
    BY Appended DEF WorkInv
  <2>2. CASE StartTask
    BY <2>1, <2>2 DEF StartTask
  <2>3. CASE StartInvocation
    BY <2>3 DEF StartInvocation, SignalAborted
  <2>4. CASE InvocationEnds
    <3>1. Len(launched) = step + 1 /\ launched' = Recorded
      BY <2>4 DEF InvocationEnds, OrderInv
    <3> QED BY <2>1, <3>1, RecordedKeeps
  <2>5. CASE CheckFile \/ SpawnChecked
    BY <2>5 DEF CheckFile, SpawnChecked
  <2>6. CASE WithoutAgent \/ HarnessAnswers \/ Write \/ Timer \/ Detach \/ DetachedEnds \/ Exit
               \/ Cancel \/ Edit \/ Done \/ UNCHANGED vars
    BY <2>6
    DEF WithoutAgent, HarnessAnswers, Write, Timer, Detach, DetachedEnds, Exit, Process, Cancel,
        Edit, Done, vars
  <2> QED BY <2>2, <2>3, <2>4, <2>5, <2>6 DEF Next, Resolve
<1> QED BY <1>1, Order, PTL DEF Spec, CancelStopsLaunches

----------------------------------------------------------------------------
(* Requirement files, from their review to the launch. *)

\* The files of an invocation that is being checked say of each file one thing,
\* and those compared so far hold what was reviewed, were edited since, or are
\* yet to be compared again.
ReviewInv ==
  /\ files = [f \in File |-> files[f]]
  /\ pc = "check" =>
       LET fs == Current.files
       IN  /\ Len(fs) \in Nat /\ DOMAIN fs = 1..Len(fs) /\ checked \in 0..Len(fs)
           /\ \A i, j \in DOMAIN fs : fs[i].file = fs[j].file => fs[i].lines = fs[j].lines
           /\ \A i \in 1..checked : fs[i].file \in File =>
                \/ fs[i].file \in late
                \/ files[fs[i].file] = fs[i].lines
                \/ \E j \in (checked + 1)..Len(fs) : fs[j].file = fs[i].file

\* What one reading of the files yields says what they hold.
LEMMA ReadAtOnce ==
  ASSUME NEW m, NEW args, NEW fs, NEW roots, NEW origins,
         NEW read, read = PipInputs(m, args, fs, roots, origins), read # Denied
  PROVE  /\ Len(read.files) \in Nat /\ DOMAIN read.files = 1..Len(read.files)
         /\ \A i \in DOMAIN read.files : read.files[i].lines = fs[read.files[i].file]
<1>1. CASE m # "pip"
  <2>1. read = [args |-> args, files |-> <<>>]
    BY <1>1 DEF PipInputs
  <2> QED BY <2>1
<1>2. CASE m = "pip"
  <2>1. PICK new, names : /\ Len(names) \in 0..MaxFiles
                          /\ read = [args |-> new, files |->
                               [i \in 1..Len(names) |-> [file |-> names[i], lines |-> fs[names[i]]]]]
    BY <1>2 DEF PipInputs
  <2> DEFINE n == Len(names)
             e(i) == [file |-> names[i], lines |-> fs[names[i]]]
             S == {e(i) : i \in 1..n}
             t == [i \in 1..n |-> e(i)]
  <2>2. n \in Nat /\ read.files = t
    BY <2>1, PackageAssumption
  <2>3. t \in Seq(S) /\ DOMAIN t = 1..n /\ \A i \in 1..n : t[i].lines = fs[t[i].file]
    <3> HIDE DEF n
    <3> QED BY <2>2
  <2>4. Len(t) = n
    <3> HIDE DEF n, t, S
    <3> QED BY <2>2, <2>3
  <2> HIDE DEF n, t, S
  <2> QED BY <2>2, <2>3, <2>4
<1> QED BY <1>1, <1>2

\* The files of an invocation that is validated again.
LEMMA StartReview ==
  ASSUME ControlInv, WorkInv, OrderInv, ReviewInv, StartInvocation
  PROVE  ReviewInv'
<1>1. UNCHANGED <<files, work, step>> /\ late' = {}
  BY DEF StartInvocation, env
<1>2. CASE pc' # "check"
  BY <1>1, <1>2 DEF ReviewInv
<1>3. CASE pc' = "check"
  <2>1. Revalidated(Current) /\ checked' = 0
    BY <1>3 DEF StartInvocation, Ended, Spawned
  <2>2. PICK m, args, roots, origins :
          /\ PipInputs(m, args, files, roots, origins) # Denied
          /\ PipInputs(m, args, files, roots, origins).files = Current.files
    BY <2>1, Zenon DEF Revalidated
  <2>3. /\ Len(Current.files) \in Nat /\ DOMAIN Current.files = 1..Len(Current.files)
        /\ \A i \in DOMAIN Current.files : Current.files[i].lines = files[Current.files[i].file]
    BY <2>2, ReadAtOnce
  <2> DEFINE fs == Current.files
  <2>4. fs' = fs /\ checked' + 1 = 1
    BY <1>1, <2>1 DEF Current
  <2>5. files' = [f \in File |-> files'[f]]
    BY <1>1 DEF ReviewInv
  <2>6. /\ Len(fs) \in Nat /\ DOMAIN fs = 1..Len(fs)
        /\ \A i \in DOMAIN fs : fs[i].lines = files[fs[i].file]
    BY <2>3
  <2> HIDE DEF fs
  <2>7. /\ Len(fs') \in Nat /\ DOMAIN fs' = 1..Len(fs') /\ checked' \in 0..Len(fs')
        /\ \A i, j \in DOMAIN fs' : fs'[i].file = fs'[j].file => fs'[i].lines = fs'[j].lines
        /\ 1..checked' = {}
    BY <2>1, <2>4, <2>6
  <2> QED BY <2>5, <2>7 DEF fs, ReviewInv
<1> QED BY <1>2, <1>3

\* A file that is compared.
LEMMA CheckReview ==
  ASSUME ReviewInv, CheckFile
  PROVE  ReviewInv'
<1>1. pc = "check" /\ checked < Len(Current.files) /\ UNCHANGED <<files, work, step, late>>
  BY DEF CheckFile, env
<1>2. CASE Ended("refused")
  BY <1>1, <1>2 DEF ReviewInv, Ended
<1>3. CASE /\ FileUnchanged(Current.files[checked + 1])
           /\ checked' = checked + 1 /\ UNCHANGED pc
  <2> DEFINE fs == Current.files
  <2>1. fs' = fs
    BY <1>1 DEF Current
  <2>2. /\ Len(fs) \in Nat /\ DOMAIN fs = 1..Len(fs) /\ checked \in 0..Len(fs)
        /\ \A i, j \in DOMAIN fs : fs[i].file = fs[j].file => fs[i].lines = fs[j].lines
        /\ \A i \in 1..checked : fs[i].file \in File =>
             \/ fs[i].file \in late
             \/ files[fs[i].file] = fs[i].lines
             \/ \E j \in (checked + 1)..Len(fs) : fs[j].file = fs[i].file
    BY <1>1 DEF ReviewInv
  <2>3. files[fs[checked + 1].file] = fs[checked + 1].lines
    BY <1>3 DEF FileUnchanged
  <2>4. checked < Len(fs)
    BY <1>1
  <2> HIDE DEF fs
  <2>5. ASSUME NEW i \in 1..(checked + 1), fs[i].file \in File
        PROVE  \/ fs[i].file \in late
               \/ files[fs[i].file] = fs[i].lines
               \/ \E j \in (checked + 2)..Len(fs) : fs[j].file = fs[i].file
    <3>1. CASE i = checked + 1
      BY <2>3, <3>1
    <3>2. CASE i # checked + 1
      <4>1. i \in 1..checked
        BY <2>2, <3>2
      <4>2. ASSUME NEW j \in (checked + 1)..Len(fs), fs[j].file = fs[i].file
            PROVE  \/ files[fs[i].file] = fs[i].lines
                   \/ \E k \in (checked + 2)..Len(fs) : fs[k].file = fs[i].file
        <5>1. CASE j = checked + 1
          <6>1. i \in DOMAIN fs /\ j \in DOMAIN fs
            BY <2>2, <2>4
          <6>2. fs[i].lines = fs[j].lines
            BY <2>2, <4>2, <6>1
          <6> QED BY <2>3, <4>2, <5>1, <6>2
        <5>2. CASE j # checked + 1
          <6>1. j \in (checked + 2)..Len(fs)
            BY <2>2, <5>2
          <6> QED BY <4>2, <6>1
        <5> QED BY <5>1, <5>2
      <4> QED BY <2>2, <2>5, <4>1, <4>2
    <3> QED BY <3>1, <3>2
  <2>6. checked' \in 0..Len(fs) /\ checked' + 1 = checked + 2
    BY <1>3, <2>2, <2>4
  <2>7. /\ Len(fs') \in Nat /\ DOMAIN fs' = 1..Len(fs') /\ checked' \in 0..Len(fs')
        /\ \A i, j \in DOMAIN fs' : fs'[i].file = fs'[j].file => fs'[i].lines = fs'[j].lines
        /\ \A i \in 1..checked' : fs'[i].file \in File =>
             \/ fs'[i].file \in late'
             \/ files'[fs'[i].file] = fs'[i].lines
             \/ \E j \in (checked' + 1)..Len(fs') : fs'[j].file = fs'[i].file
    BY <1>1, <1>3, <2>1, <2>2, <2>5, <2>6
  <2> QED BY <1>1, <2>7 DEF fs, ReviewInv
<1> QED BY <1>2, <1>3 DEF CheckFile

\* A file that is edited: it is yet to be compared, or counts as edited late.
LEMMA EditReview ==
  ASSUME OrderInv, WorkInv, ReviewInv, Edit
  PROVE  ReviewInv'
<1>1. UNCHANGED <<pc, work, step, checked>>
  BY DEF Edit
<1>2. CASE UNCHANGED <<files, late>>
  BY <1>1, <1>2 DEF ReviewInv, Current
<1>3. CASE \E f \in File : \E c \in Contents :
             /\ files' = [files EXCEPT ![f] = c[f]]
             /\ late' = IF f \in Unchecked THEN late ELSE late \cup {f}
  <2>1. PICK f \in File : /\ \E v : files' = [files EXCEPT ![f] = v]
                          /\ late' = IF f \in Unchecked THEN late ELSE late \cup {f}
    BY <1>3
  <2>2. files' = [g \in File |-> files'[g]] /\ \A g \in File \ {f} : files'[g] = files[g]
    BY <2>1 DEF ReviewInv
  <2>3. CASE pc # "check"
    BY <1>1, <2>2, <2>3 DEF ReviewInv
  <2>4. CASE pc = "check"
    <3> DEFINE fs == Current.files
    <3>1. fs' = fs
      BY <1>1 DEF Current
    <3>2. /\ Len(fs) \in Nat /\ DOMAIN fs = 1..Len(fs) /\ checked \in 0..Len(fs)
          /\ \A i, j \in DOMAIN fs : fs[i].file = fs[j].file => fs[i].lines = fs[j].lines
          /\ \A i \in 1..checked : fs[i].file \in File =>
               \/ fs[i].file \in late
               \/ files[fs[i].file] = fs[i].lines
               \/ \E j \in (checked + 1)..Len(fs) : fs[j].file = fs[i].file
      BY <2>4 DEF ReviewInv
    <3>3. f \in Unchecked => \E j \in (checked + 1)..Len(fs) : fs[j].file = f
      <4>1. step < Len(work) /\ step \in Nat
        BY <2>4 DEF OrderInv, WorkInv
      <4>2. work # <<>>
        BY <4>1, Appended DEF WorkInv
      <4> QED BY <2>4, <4>1, <4>2 DEF Unchecked
    <3> HIDE DEF fs
    <3>4. ASSUME NEW i \in 1..checked, fs[i].file \in File
          PROVE  \/ fs[i].file \in late'
                 \/ files'[fs[i].file] = fs[i].lines
                 \/ \E j \in (checked + 1)..Len(fs) : fs[j].file = fs[i].file
      <4>1. CASE fs[i].file = f
        BY <2>1, <3>3, <4>1
      <4>2. CASE fs[i].file # f
        BY <2>1, <2>2, <3>2, <3>4, <4>2
      <4> QED BY <4>1, <4>2
    <3> QED BY <1>1, <2>2, <3>1, <3>2, <3>4 DEF fs, ReviewInv
  <2> QED BY <2>3, <2>4
<1> QED BY <1>2, <1>3 DEF Edit

\* So every step keeps the review.
LEMMA NextReview ==
  ASSUME ControlInv, WorkInv, OrderInv, ReviewInv, [Next]_vars
  PROVE  ReviewInv'
<1>1. CASE StartTask \/ HarnessAnswers \/ SpawnChecked \/ InvocationEnds \/ WithoutAgent
  <2>1. pc' # "check" /\ UNCHANGED files
    BY <1>1 DEF StartTask, HarnessAnswers, Judged, SpawnChecked, Spawned, InvocationEnds, Ended,
                WithoutAgent, env
  <2> QED BY <2>1 DEF ReviewInv
<1>2. CASE Write \/ Timer \/ Detach \/ DetachedEnds \/ Exit
  <2>1. pc = "run" /\ UNCHANGED <<files, pc>>
    BY <1>2 DEF Write, Timer, Detach, DetachedEnds, Exit, Running, Process, env
  <2> QED BY <2>1 DEF ReviewInv
<1>3. CASE Cancel \/ Done \/ UNCHANGED vars
  <2>1. UNCHANGED <<files, pc, work, step, checked, late>>
    BY <1>3 DEF Cancel, Done, vars, env
  <2> QED BY <2>1 DEF ReviewInv, Current
<1> QED BY <1>1, <1>2, <1>3, StartReview, CheckReview, EditReview DEF Next, Resolve

\* pip is launched only with requirement files as they were authorized, but for
\* an edit after the executor compared that very file.
THEOREM ReviewedIsLaunched == Spec => RequirementsAreReviewed
<1>1. Init => ReviewInv
  BY ContentsAssumption DEF Init, ReviewInv
<1>2. (ControlInv /\ WorkInv /\ OrderInv) /\ ReviewInv /\ [Next]_vars => ReviewInv'
  BY NextReview
<1>3. ASSUME ControlInv, WorkInv, OrderInv, ReviewInv, [Next]_vars, NEW f \in File,
             Len(launched') > Len(launched),
             f \in {launched'[Len(launched')].files[i].file : i \in DOMAIN launched'[Len(launched')].files}
      PROVE  \/ f \in late
             \/ \A i \in DOMAIN launched'[Len(launched')].files :
                  launched'[Len(launched')].files[i].file = f =>
                    launched'[Len(launched')].files[i].lines = files[f]
  <2>1. Len(launched) \in Nat /\ Len(<<>>) = 0 /\ Sequence(launched)
    BY <1>3, Appended DEF WorkInv
  <2>2. CASE Spawned /\ (Current.files = <<>> \/ (pc = "check" /\ checked = Len(Current.files)))
    <3>1. launched' # launched
      BY <1>3, <2>1
    <3>2. PICK r : r.files = Current.files /\ launched' = Append(launched, r)
      BY <2>2, <3>1 DEF Spawned
    <3>3. launched'[Len(launched')] = r
      BY <2>1, <3>2, Appended
    <3>4. CASE Current.files = <<>>
      BY <1>3, <3>2, <3>3, <3>4
    <3>5. CASE pc = "check" /\ checked = Len(Current.files)
      <4> DEFINE fs == Current.files
      <4>1. /\ Len(fs) \in Nat /\ DOMAIN fs = 1..Len(fs)
            /\ \A i \in 1..Len(fs) : fs[i].file \in File =>
                 \/ fs[i].file \in late
                 \/ files[fs[i].file] = fs[i].lines
                 \/ \E j \in (Len(fs) + 1)..Len(fs) : fs[j].file = fs[i].file
        BY <1>3, <3>5 DEF ReviewInv
      <4> HIDE DEF fs
      <4>2. \A i \in DOMAIN fs : fs[i].file = f => f \in late \/ files[f] = fs[i].lines
        BY <4>1
      <4> QED BY <3>2, <3>3, <4>2 DEF fs
    <3> QED BY <2>2, <3>4, <3>5
  <2>3. CASE StartTask
    BY <1>3, <2>1, <2>3 DEF StartTask
  <2>4. CASE InvocationEnds
    <3>1. Len(launched) = step + 1 /\ launched' = Recorded
      BY <1>3, <2>4 DEF InvocationEnds, OrderInv
    <3> QED BY <1>3, <2>1, <3>1, RecordedKeeps
  <2>5. CASE UNCHANGED launched
    BY <1>3, <2>1, <2>5
  <2> QED
    BY <1>3, <2>2, <2>3, <2>4, <2>5, Zenon
    DEF Next, Resolve, WithoutAgent, HarnessAnswers, StartInvocation, CheckFile, SpawnChecked,
        Write, Timer, Detach, DetachedEnds, Exit, Process, Cancel, Edit, Done, vars
<1>4. (ControlInv /\ WorkInv /\ OrderInv) /\ ReviewInv /\ [Next]_vars =>
        \A f \in File :
          Len(launched') > Len(launched)
            /\ f \in {launched'[Len(launched')].files[i].file : i \in DOMAIN launched'[Len(launched')].files} =>
            \/ f \in late
            \/ \A i \in DOMAIN launched'[Len(launched')].files :
                 launched'[Len(launched')].files[i].file = f =>
                   launched'[Len(launched')].files[i].lines = files[f]
  BY <1>3
<1> QED BY <1>1, <1>2, <1>4, Order, PTL DEF Spec, RequirementsAreReviewed

----------------------------------------------------------------------------
(* Which files are launched. *)

\* A name of the list led to the file when it was looked up.
Named(x, list) == \E d \in Disks : \E e \in list : Identity(e, d) = x
\* The file may run as it is, and is a listed one.
Listed(x) ==
  /\ AFile(x) /\ x.name \notin Launcher \cup Interpreter
  /\ Named(x, Harness.executables) /\ Named(x, Harness.leaves)
  /\ Named(x, task.bounds.executables) /\ Named(x, task.bounds.leaves)

ListedInv ==
  /\ \A i \in 1..Len(work) : Listed(work[i].exe)
  /\ \A i \in 1..Len(launched) : Listed(launched[i].exe)

\* An executable that an authorization allows is named by its list.
LEMMA AllowedIsNamed ==
  ASSUME NEW x, AFile(x), NEW list, NEW d \in Disks, ExecutableAllowed(x, list, d)
  PROVE  Named(x, list)
  BY DEF ExecutableAllowed, Named, AFile

\* What the rewritings of an invocation let through may run as it is.
LEMMA BehaviorListed ==
  ASSUME NEW x, AFile(x), NEW args, NEW t, NEW h, NEW o, NEW d \in Disks, NEW f,
         Behavior(x, args, t, h, o, d, f) # Denied
  PROVE  /\ x.name \notin Launcher \cup Interpreter
         /\ Named(x, t.bounds.leaves) /\ Named(x, h.leaves)
<1>1. PICK left, read : Leaf(x, left, read, t, h, d) # Denied
  BY Zenon DEF Behavior, WithoutScripts, WithRegistry
<1>2. /\ x.name \notin Launcher \cup Interpreter
      /\ ExecutableAllowed(x, t.bounds.leaves, d) /\ ExecutableAllowed(x, h.leaves, d)
  BY <1>1 DEF Leaf
<1> QED BY <1>2, AllowedIsNamed

\* An action or an observer that is authorized runs a listed file.
LEMMA RunListed ==
  ASSUME NEW e, NEW args, NEW o, NEW d \in Disks, NEW f, NEW x, x # NoValue,
         x = ListedFile(e, task, Harness, d),
         NEW run, run = BoundedRun(x, Behavior(x, args, task, Harness, o, d, f), task, Harness),
         run # Denied
  PROVE  Listed(run.exe)
<1>1. AFile(x)
  BY ListedIsAFile
<1>2. ExecutableAllowed(x, task.bounds.executables, d) /\ ExecutableAllowed(x, Harness.executables, d)
  BY Zenon DEF ListedFile
<1>3. Behavior(x, args, task, Harness, o, d, f) # Denied /\ run.exe = x
  BY BoundedRunIsOf, Zenon DEF BoundedRun
<1> QED BY <1>1, <1>2, <1>3, AllowedIsNamed, BehaviorListed DEF Listed

\* So does every invocation of a proposal that is authorized.
LEMMA ProposalListed ==
  ASSUME NEW actions, Len(actions) \in Nat, NEW d \in Disks, NEW f,
         NEW runs, runs = AuthorizeProposal(actions, task, Harness, d, f), runs # Denied
  PROVE  \A i \in 1..Len(runs) : Listed(runs[i].exe)
<1> DEFINE n == Len(actions)
           A(i) == AuthorizeAction(actions[i], task, Harness, d, f)
           V == AuthorizeVerification(task, Harness, d, f)
           all == [i \in 1..n |-> A(i)]
           S == {A(i) : i \in 1..n} \cup {V}
<1>1. all \in Seq(S) /\ Len(all) = n /\ V \in S
  OBVIOUS
<1>2. runs = Append(all, V) /\ \A i \in DOMAIN runs : runs[i] # Denied
  BY DEF AuthorizeProposal, AllOrNothing
<1>3. n \in Nat
  OBVIOUS
<1>4. /\ runs \in Seq(S) /\ Len(runs) = n + 1 /\ runs[n + 1] = V
      /\ \A i \in 1..n : runs[i] = A(i)
  <2>1. \A i \in 1..n : all[i] = A(i)
    OBVIOUS
  <2> HIDE DEF S, V, all, n, A
  <2> QED BY <1>1, <1>2, <1>3, <2>1
<1>5. ASSUME NEW i \in 1..n PROVE Listed(runs[i].exe)
  <2> DEFINE a == actions[i]
             x == ListedFile(a.exe, task, Harness, d)
             run == BoundedRun(x, Behavior(x, a.args, task, Harness, a.origins, d, f), task, Harness)
  <2>1. runs[i] = A(i) /\ A(i) # Denied
    BY <1>2, <1>4
  <2>2. x # NoValue /\ A(i) = run
    BY <2>1 DEF AuthorizeAction, ActionOf
  <2> HIDE DEF x, A, V, all, n, S
  <2> QED BY <2>1, <2>2, RunListed DEF x
<1>6. Listed(V.exe)
  <2> DEFINE x == ListedFile(task.observer.exe, task, Harness, d)
             run == BoundedRun(x, Behavior(x, task.observer.args, task, Harness, {}, d, f), task, Harness)
  <2>1. V # Denied
    BY <1>2, <1>3, <1>4
  <2>2. x # NoValue /\ V = run
    BY <2>1 DEF AuthorizeVerification, ObserverOf
  <2> HIDE DEF x, A, V, all, n, S
  <2> QED BY <2>1, <2>2, RunListed DEF x
<1> HIDE DEF V, all, n, S
<1> QED BY <1>3, <1>4, <1>5, <1>6

\* The list of what may be launched, and of what was, from step to step.
LEMMA NextListed ==
  ASSUME ControlInv, WorkInv, OrderInv, ListedInv, [Next]_vars
  PROVE  ListedInv'
<1>1. ASSUME UNCHANGED <<plan, task>>
      PROVE  \A x : Listed(x)' <=> Listed(x)
  BY <1>1 DEF Listed, Harness
<1>2. Sequence(work) /\ Sequence(launched) /\ Len(work) \in Nat /\ Len(launched) \in Nat /\ Len(<<>>) = 0
  BY Appended DEF WorkInv
<1>3. CASE StartTask
  BY <1>2, <1>3 DEF StartTask, ListedInv
<1>4. CASE HarnessAnswers
  <2>1. UNCHANGED <<plan, task, launched>>
    BY <1>4 DEF HarnessAnswers, env
  <2>2. PICK answer \in plan.answers \cup {Undecodable} :
          Judged(IF Succeeded /\ answer # Undecodable
                 THEN AuthorizeProposal(answer, task, Harness, disk, files) ELSE Denied)
    BY <1>4 DEF HarnessAnswers
  <2> DEFINE authorized == IF Succeeded /\ answer # Undecodable
                           THEN AuthorizeProposal(answer, task, Harness, disk, files) ELSE Denied
  <2>3. work' = work \/ (work' = authorized /\ authorized # Denied)
    BY <2>2 DEF Judged
  <2>4. ASSUME authorized # Denied PROVE \A i \in 1..Len(authorized) : Listed(authorized[i].exe)
    <3>1. authorized = AuthorizeProposal(answer, task, Harness, disk, files) /\ answer \in plan.answers
      BY <2>4
    <3>2. Len(answer) \in Nat /\ disk \in Disks
      BY <3>1, PlansAreSane DEF ControlInv, WorkInv
    <3> HIDE DEF authorized
    <3> QED BY <2>4, <3>1, <3>2, ProposalListed
  <2> HIDE DEF authorized
  <2> QED BY <1>1, <2>1, <2>3, <2>4 DEF ListedInv
<1>5. CASE Spawned /\ pc \in {"start", "check"} /\ UNCHANGED <<plan, task, work>>
  <2>1. CASE UNCHANGED launched
    BY <1>1, <1>5, <2>1 DEF ListedInv
  <2>2. CASE ~UNCHANGED launched
    <3>1. PICK r : r.exe = Identity(Current.exe, disk) /\ launched' = Append(launched, r)
      BY <1>5, <2>2 DEF Spawned, Runs
    <3>2. step + 1 \in 1..Len(work) /\ Current = work[step + 1]
      BY <1>2, <1>5 DEF OrderInv, WorkInv, Current
    <3>3. r.exe = Current.exe
      <4>1. Identity(Current.exe, disk) # NoValue
        BY <1>5, <2>2 DEF Spawned, Runs
      <4> QED BY <3>1, <3>2, <4>1 DEF WorkInv, AFile
    <3>4. Listed(r.exe)
      BY <3>2, <3>3 DEF ListedInv
    <3>5. ASSUME NEW i \in 1..Len(launched') PROVE Listed(launched'[i].exe)
      <4>1. Len(launched') = Len(launched) + 1 /\ launched'[Len(launched) + 1] = r
            /\ \A j \in 1..Len(launched) : launched'[j] = launched[j]
        BY <1>2, <3>1, Appended
      <4>2. i \in 1..Len(launched) \/ i = Len(launched) + 1
        BY <1>2, <4>1
      <4> QED BY <3>4, <4>1, <4>2 DEF ListedInv
    <3> QED BY <1>1, <1>5, <3>5 DEF ListedInv
  <2> QED BY <2>1, <2>2
<1>6. CASE InvocationEnds
  <2>1. Len(launched) = step + 1 /\ launched' = Recorded /\ UNCHANGED <<plan, task, work>>
    BY <1>6 DEF InvocationEnds, OrderInv
  <2>2. /\ Len(launched') = step + 1 /\ step \in Nat
        /\ \A i \in 1..step : launched'[i] = launched[i]
        /\ launched'[step + 1].exe = launched[step + 1].exe
    BY <2>1, RecordedKeeps DEF WorkInv
  <2>3. ASSUME NEW i \in 1..Len(launched') PROVE Listed(launched'[i].exe)
    <3>1. i \in 1..Len(launched) /\ launched'[i].exe = launched[i].exe
      BY <2>1, <2>2
    <3> QED BY <3>1 DEF ListedInv
  <2> QED BY <1>1, <2>1, <2>3 DEF ListedInv
<1>7. CASE UNCHANGED <<plan, task, work, launched>>
  BY <1>1, <1>7 DEF ListedInv
<1>8. StartInvocation \/ SpawnChecked =>
        \/ Spawned /\ pc \in {"start", "check"} /\ UNCHANGED <<plan, task, work>>
        \/ UNCHANGED <<plan, task, work, launched>>
  BY DEF StartInvocation, SpawnChecked
<1>9. WithoutAgent \/ CheckFile \/ Cancel \/ Edit \/ Done \/ UNCHANGED vars =>
        UNCHANGED <<plan, task, work, launched>>
  BY DEF WithoutAgent, CheckFile, Cancel, Edit, Done, vars
<1>10. Write \/ Timer \/ Detach \/ DetachedEnds \/ Exit => UNCHANGED <<plan, task, work, launched>>
  BY DEF Write, Timer, Detach, DetachedEnds, Exit, Process
<1> QED BY <1>3, <1>4, <1>5, <1>6, <1>7, <1>8, <1>9, <1>10 DEF Next, Resolve

\* Whatever PATH comes to hold, every process of a task is a file to which a
\* name led that both the task and the harness list, as an executable and as
\* one that may run as it is (listedExecutable, executableAllowed), and is
\* neither a launcher nor an interpreter.
THEOREM LaunchedIsListed ==
  Spec => [](\A i \in DOMAIN launched : Listed(launched[i].exe))
<1>1. Init => ListedInv
  <2>1. Len(<<>>) = 0
    OBVIOUS
  <2> QED BY <2>1 DEF Init, ListedInv
<1>2. (ControlInv /\ WorkInv /\ OrderInv) /\ ListedInv /\ [Next]_vars => ListedInv'
  BY NextListed
<1>3. WorkInv /\ ListedInv => \A i \in DOMAIN launched : Listed(launched[i].exe)
  <2> SUFFICES ASSUME WorkInv, ListedInv PROVE \A i \in DOMAIN launched : Listed(launched[i].exe)
    OBVIOUS
  <2>1. PICK S : launched \in Seq(S)
    BY DEF WorkInv, Sequence
  <2> QED BY <2>1 DEF ListedInv
<1> QED BY <1>1, <1>2, <1>3, Order, PTL DEF Spec
=============================================================================
