---------------------------- MODULE AgentResolution ----------------------------
(***************************************************************************)
(* The bounded agent tasks of a plan, resolved one after the other: a      *)
(* harness process proposes actions, all of them are authorized, each is   *)
(* validated again and run in a process of its own under what is left of   *)
(* the task's output, and an independent observer has the last word.       *)
(*                                                                         *)
(* While it waits - on a process, or on a file it reads - links of PATH    *)
(* and requirement files may change and the caller may cancel. One         *)
(* authorization is a single step: each file is read once in it.           *)
(***************************************************************************)
EXTENDS AgentBounds

CONSTANTS
  Plans,        \* [policy, planning, harness, tasks, answers]: answers are the
                \* sequences of actions the harness may propose
  Disks,        \* what links and files PATH may come to hold
  Contents,     \* what the requirement files may come to hold
  Undecodable,  \* an answer that is no proposal
  NoProcess,
  Inherited,    \* the environment of the program itself
  MaxEdits      \* bounds the edits of the environment

\* A plan with tasks to resolve. What a link leads to is a file, never a link.
ASSUME PlansAreSane ==
  \A p \in Plans :
    /\ Len(p.tasks) \in Nat \ {0}
    /\ \A answer \in p.answers : Len(answer) \in Nat
    /\ \A i \in 1..Len(p.tasks) :
         LET t == p.tasks[i] IN
           /\ t = [bounds |-> t.bounds, limit |-> t.limit, observer |-> t.observer, size |-> t.size]
           /\ t.limit \in Nat
ASSUME FilesAreNoLinks ==
  \A d1, d2 \in Disks : \A e \in DOMAIN d1 :
    d1[e] # NoValue =>
      /\ d1[e].dir # NoValue
      /\ d1[e] \in DOMAIN d2 => d2[d1[e]] \in {d1[e], NoValue}
\* Contents are the lines of each file.
ASSUME ContentsAssumption == \A c \in Contents : c = [f \in File |-> c[f]]

VARIABLES
  disk, files, edits,
  plan, at,
  pc,         \* "next", "start", "check", "run", "done"
  task,       \* the bounded task being resolved
  work,       \* the authorized invocations, the observer last
  step,       \* how many of them have completed
  consumed,   \* output bytes of the processes that have completed
  proc,       \* the process of the executor
  checked,    \* requirement files the executor has compared so far
  outcomes,   \* how the tasks before this one ended
  cancelled,  \* the caller's signal is aborted
  launched,   \* invocations of this task that became processes, with their exit
  late        \* requirement files edited after the executor compared them

env == <<disk, files, edits>>
vars == <<env, plan, at, pc, task, work, step, consumed, proc, checked, outcomes,
          cancelled, launched, late>>

Harness == plan.harness
Observing == step = Len(work) - 1
Current == work[step + 1]
\* effectively agent-propose while planning
Applying == ~plan.planning /\ plan.policy = "agent-apply"

TypeOK ==
  /\ disk \in Disks /\ files \in Contents /\ edits \in 0..MaxEdits
  /\ plan \in Plans /\ at \in 1..(Len(plan.tasks) + 1)
  /\ pc \in {"next", "start", "check", "run", "done"}
  /\ step \in 0..Len(work) /\ checked \in 0..3
  /\ consumed \in Nat /\ cancelled \in BOOLEAN
  /\ \A i \in DOMAIN outcomes : outcomes[i] \in {"refused", "proposed", "applied"}
  /\ late \subseteq File

Init ==
  /\ disk \in Disks /\ files \in Contents /\ edits = 0
  /\ plan \in Plans /\ at = 1 /\ pc = "next"
  /\ task = NoValue /\ work = <<>> /\ step = 0 /\ consumed = 0
  /\ proc = NoProcess /\ checked = 0 /\ outcomes = <<>>
  /\ cancelled = FALSE /\ launched = <<>> /\ late = {}

----------------------------------------------------------------------------
(* resolveAgentTasks *)

Ended(outcome) ==
  /\ outcomes' = Append(outcomes, outcome)
  /\ at' = at + 1
  /\ pc' = IF at = Len(plan.tasks) THEN "done" ELSE "next"
  /\ proc' = NoProcess /\ checked' = 0

\* No task is given to an agent: the policy is deterministic, or there is no
\* harness that can be held to its bounds and a person is told so.
WithoutAgent ==
  /\ pc = "next"
  /\ plan.policy = "deterministic-only" \/ ~HarnessUsable(Harness)
  /\ pc' = "done"
  /\ UNCHANGED <<env, plan, at, task, work, step, consumed, proc, checked, outcomes,
                 cancelled, launched, late>>

\* Faulty variant: the signal is only listened to, never asked.
SignalIgnored == FALSE
SignalAborted == cancelled
\* The process a controlled execution starts as, before it is spawned.
Execution(role, exe, max) ==
  [role |-> role, exe |-> exe, max |-> max, out |-> 0, alive |-> TRUE, killed |-> FALSE,
   held |-> FALSE, cause |-> {}, code |-> NoValue]

\* The task is bounded by what the harness allows, and the harness is found.
StartTask ==
  /\ pc = "next" /\ plan.policy # "deterministic-only" /\ HarnessUsable(Harness)
  /\ LET bounded == BoundedTask(plan.tasks[at], Harness, disk)
     IN  /\ task' = bounded /\ work' = <<>> /\ step' = 0 /\ consumed' = 0
         /\ launched' = <<>> /\ late' = {}
         /\ IF \/ ~TaskValid(bounded) \/ Identity(Harness.exe, disk) = NoValue
               \/ bounded.size > Harness.maxInput \/ SignalAborted
            THEN Ended("refused")
            ELSE /\ proc' = Execution("harness", Identity(Harness.exe, disk), bounded.limit)
                 /\ pc' = "run" /\ checked' = 0
                 /\ UNCHANGED <<at, outcomes>>
  /\ UNCHANGED <<env, plan, cancelled>>

----------------------------------------------------------------------------
(* runResolution *)

\* Faulty variant: any exit counts.
SettledByItself == proc # NoProcess /\ proc.cause = {}
\* Settled by its own exit, and well.
Succeeded == proc # NoProcess /\ proc.cause = {} /\ proc.code = "0"
Closed == proc # NoProcess /\ ~proc.alive /\ ~proc.held

\* The harness has ended. Its proposal is authorized as a whole.
Judged(authorized) ==
  CASE authorized = Denied -> Ended("refused") /\ UNCHANGED <<work, step, consumed>>
    [] authorized # Denied /\ ~Applying -> Ended("proposed") /\ UNCHANGED <<work, step, consumed>>
    [] OTHER -> /\ work' = authorized /\ consumed' = proc.out
                /\ pc' = "start" /\ proc' = NoProcess
                /\ UNCHANGED <<step, at, outcomes, checked>>
HarnessAnswers ==
  /\ pc = "run" /\ Closed /\ proc.role = "harness"
  /\ \E answer \in plan.answers \cup {Undecodable} :
       Judged(IF Succeeded /\ answer # Undecodable
              THEN AuthorizeProposal(answer, task, Harness, disk, files) ELSE Denied)
  /\ UNCHANGED <<env, plan, task, cancelled, launched, late>>

\* revalidatePipRequirementFiles: authorizing the rewritten arguments again
\* reads the same files.
Revalidated(run) ==
  LET again == PipInputs(run.exe.name, run.args, files, task.bounds.roots \cap Harness.roots,
                         Origins(task.bounds.origins) \cap Origins(Harness.origins))
  IN  IF again = Denied THEN FALSE ELSE again.files = run.files

\* Faulty variants: every process has the whole limit; the executable is
\* authorized by its file and launched by its name; a file is not compared.
WholeLimit == task.limit
RunsByName(run) == Bare(run.exe.name)
FileAssumed(f) == TRUE

\* What is left of the task's output for the next process.
OutputLeft == task.limit - consumed
Runs(run) == run.exe

CurrentEnvironment ==
  LET m == Current.exe.name
  IN  LaunchEnvironment(m, Harness.environment, Inherited, InvocationRegistry(m, Current.args))

\* spawn, or the error of a file that is no longer there.
Spawned ==
  IF Identity(Runs(Current), disk) = NoValue
  THEN Ended("refused") /\ UNCHANGED launched
  ELSE /\ proc' = Execution(IF Observing THEN "observer" ELSE "action",
                            Identity(Runs(Current), disk), OutputLeft)
       /\ launched' = Append(launched, [exe |-> Identity(Runs(Current), disk), args |-> Current.args,
                                        files |-> Current.files, code |-> NoValue,
                                        environment |-> CurrentEnvironment])
       /\ pc' = "run" /\ UNCHANGED <<at, outcomes, checked>>

\* The next invocation is validated again and handed to the executor, which
\* spawns it at once unless there are files to compare first.
StartInvocation ==
  /\ pc = "start"
  /\ IF ~Revalidated(Current) \/ SignalAborted \/ ~ExecutorAccepts(Current)
     THEN Ended("refused") /\ UNCHANGED launched
     ELSE \/ Current.files = <<>> /\ Spawned
          \/ /\ Current.files # <<>>
             /\ pc' = "check" /\ checked' = 0
             /\ UNCHANGED <<at, outcomes, proc, launched>>
  /\ late' = {}
  /\ UNCHANGED <<env, plan, task, work, step, consumed, cancelled>>

\* pipRequirementFilesUnchanged, one file at a time.
FileUnchanged(f) == files[f.file] = f.lines
CheckFile ==
  /\ pc = "check" /\ checked < Len(Current.files)
  /\ IF FileUnchanged(Current.files[checked + 1])
     THEN checked' = checked + 1 /\ UNCHANGED <<pc, at, outcomes, proc>>
     ELSE Ended("refused")
  /\ UNCHANGED <<env, plan, task, work, step, consumed, cancelled, launched, late>>
SpawnChecked ==
  /\ pc = "check" /\ checked = Len(Current.files)
  /\ Spawned
  /\ UNCHANGED <<env, plan, task, work, step, consumed, cancelled, late>>

\* ensureOutputBudget
WithinOutput == consumed + proc.out <= task.limit
Recorded == [launched EXCEPT ![Len(launched)].code = proc.code]

\* An action has ended: the next one, or the end of the task. The observer
\* must exit well and, when the task says so, say what is expected.
InvocationEnds ==
  /\ pc = "run" /\ Closed /\ proc.role # "harness"
  /\ launched' = Recorded
  /\ IF ~Succeeded \/ ~WithinOutput
     THEN Ended("refused") /\ UNCHANGED <<step, consumed>>
     ELSE /\ step' = step + 1 /\ consumed' = consumed + proc.out
          /\ \/ /\ proc.role = "observer"
                /\ \E matched \in BOOLEAN : Ended(IF matched THEN "applied" ELSE "refused")
             \/ /\ proc.role = "action"
                /\ pc' = "start" /\ proc' = NoProcess
                /\ UNCHANGED <<at, outcomes, checked>>
  /\ UNCHANGED <<env, plan, task, work, cancelled, late>>

----------------------------------------------------------------------------
(* executeControlledProcess, once spawned *)

Running == pc = "run" /\ proc # NoProcess
Process(p) ==
  /\ proc' = p
  /\ UNCHANGED <<env, plan, at, pc, task, work, step, consumed, checked, outcomes,
                 cancelled, launched, late>>
\* Faulty variant: the reason is noted and the tree left alone.
MarkedOnly(p, why) == [p EXCEPT !.cause = @ \cup {why}]
Killed(p, why) == [p EXCEPT !.killed = TRUE, !.cause = @ \cup {why}]

\* A chunk is counted; over the limit the process tree is killed.
Write ==
  /\ Running /\ (proc.alive \/ proc.held) /\ proc.out <= proc.max
  /\ LET p == [proc EXCEPT !.out = @ + 1]
     IN  Process(IF p.out > p.max THEN Killed(p, "limit") ELSE p)
Timer ==
  /\ Running /\ ~Closed /\ "timeout" \notin proc.cause
  /\ Process(Killed(proc, "timeout"))
\* The process leaves a child with its output, in a session of its own.
Detach == Running /\ proc.alive /\ ~proc.held /\ Process([proc EXCEPT !.held = TRUE])
DetachedEnds == Running /\ proc.held /\ Process([proc EXCEPT !.held = FALSE])
Exit ==
  /\ Running /\ proc.alive
  /\ \E code \in (IF proc.killed THEN {"killed"} ELSE {"0", "1"}) :
       Process([proc EXCEPT !.alive = FALSE, !.code = code])

\* The signal reaches a process that listens to it. One that is about to be
\* spawned has already asked and does not listen yet.
Cancel ==
  /\ ~cancelled /\ pc # "done" /\ cancelled' = TRUE
  /\ proc' = IF Running /\ ~Closed THEN Killed(proc, "cancelled") ELSE proc
  /\ UNCHANGED <<env, plan, at, pc, task, work, step, consumed, checked, outcomes,
                 launched, late>>

----------------------------------------------------------------------------
(* The environment *)

Unchecked == IF pc \in {"check", "run"} /\ work # <<>> /\ step < Len(work)
             THEN {Current.files[i].file : i \in (checked + 1)..Len(Current.files)} ELSE File
Edit ==
  /\ edits < MaxEdits /\ edits' = edits + 1 /\ pc # "done"
  /\ \/ disk' \in Disks \ {disk} /\ UNCHANGED <<files, late>>
     \/ /\ \E f \in File : \E c \in Contents :
             /\ c[f] # files[f] /\ files' = [files EXCEPT ![f] = c[f]]
             /\ late' = IF f \in Unchecked THEN late ELSE late \cup {f}
        /\ UNCHANGED disk
  /\ UNCHANGED <<plan, at, pc, task, work, step, consumed, proc, checked, outcomes,
                 cancelled, launched>>

Done == pc = "done" /\ UNCHANGED vars

Resolve ==
  WithoutAgent \/ StartTask \/ HarnessAnswers \/ StartInvocation \/ CheckFile
    \/ SpawnChecked \/ InvocationEnds
Next ==
  \/ Resolve \/ Write \/ Timer \/ Detach \/ DetachedEnds \/ Exit \/ Cancel \/ Edit \/ Done

\* The program goes on, a timer fires, and a process that was killed ends.
\* Nothing makes a process end by itself, or a child it detached.
Fairness ==
  /\ WF_vars(Resolve) /\ WF_vars(Timer)
  /\ WF_vars(Exit /\ proc.killed)
Spec == Init /\ [][Next]_vars /\ Fairness

\* What becomes of the plan's agent tasks: one that was applied is a no-op.
Answer(i) ==
  IF plan.planning \/ plan.policy = "deterministic-only" THEN "agent-task"
  ELSE IF i \in DOMAIN outcomes /\ outcomes[i] = "applied" THEN "no-op" ELSE "human-action"

----------------------------------------------------------------------------
(* What must hold. *)

\* No variable a package manager inherits names another registry or
\* configuration than the reviewed one.
NothingInherited(run) ==
  run.exe.name \in RegistryManager =>
    \A e \in run.environment :
      /\ e.name = "config" => e.value = "empty"
      /\ e.name = "registry" => OriginAllowed(UrlOf[e.value], task, Harness)

\* Whatever was launched for a task is a file the harness lists, whatever PATH
\* meanwhile came to hold; no launcher or interpreter; in an environment that
\* names no other registry; and the capabilities its arguments amount to, after
\* the three rewritings of them, are allowed (authorizeExecutableBehavior).
\* Whether its scripts are off and its registry the reviewed one is asked of
\* every argument list in AgentArguments.
LaunchedIsBounded ==
  \A i \in DOMAIN launched :
    LET run == launched[i]
        m == run.exe.name
    IN  /\ run.exe \in Harness.executables
        /\ m \notin Launcher \cup Interpreter
        /\ NothingInherited(run)
        /\ DerivedCapabilities(m, run.args) \subseteq task.bounds.capabilities \cap Harness.capabilities

\* pip is launched only with requirement files as they were authorized, but for
\* an edit after the executor compared that very file: the files it includes
\* too, and edits after the resolution validated them again
\* (pipRequirementFilesUnchanged, revalidatePipRequirementFiles).
RequirementsAreReviewed ==
  [][ \A f \in File :
        Len(launched') > Len(launched)
          /\ f \in {launched'[Len(launched')].files[i].file : i \in DOMAIN launched'[Len(launched')].files} =>
          \/ f \in late
          \/ \A i \in DOMAIN launched'[Len(launched')].files :
               launched'[Len(launched')].files[i].file = f =>
                 launched'[Len(launched')].files[i].lines = files[f] ]_vars

\* The processes of one task share its output limit: those that ended well
\* never wrote more than it together, the harness and the observer included.
OutputBudget ==
  /\ task # NoValue => consumed <= task.limit
  /\ proc # NoProcess /\ proc.cause = {} => consumed + proc.out <= task.limit

\* A task is reported applied only when each authorized action ran once, in
\* order, and exited well, and then the observer did; anything else, a cancel
\* or a timer that beat the exit included, leaves it to a person.
AppliedMeansVerified ==
  pc \in {"next", "done"} /\ outcomes # <<>> /\ outcomes[Len(outcomes)] = "applied" =>
    /\ Len(launched) = Len(work)
    /\ \A i \in DOMAIN work :
         /\ launched[i].exe = work[i].exe /\ launched[i].args = work[i].args
         /\ launched[i].code = "0"
    /\ Applying /\ Answer(Len(outcomes)) = "no-op"

\* Once the caller has cancelled no further process is launched, except for an
\* invocation whose requirement files were being compared at that moment.
CancelStopsLaunches == [][ cancelled /\ launched' # launched /\ Len(launched') > Len(launched) => pc = "check" ]_vars

\* Every task is answered, as long as the processes do not leave children
\* behind that keep their output open: the timer kills the rest.
ResolutionEnds == [](proc # NoProcess => ~proc.held) => <>(pc = "done")
=============================================================================
