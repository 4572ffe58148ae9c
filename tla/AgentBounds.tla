------------------------------ MODULE AgentBounds ------------------------------
(***************************************************************************)
(* What AgentResolution authorizes: an executable is a file, found through *)
(* PATH, that both the task and the harness list; its capabilities are     *)
(* those it declares and those its arguments amount to; and its arguments  *)
(* are the ones PackageArguments lets through.                             *)
(***************************************************************************)
EXTENDS PackageArguments

CONSTANTS
  Path,       \* the directories of PATH, in order
  Roots       \* the roots a path can lie under

ASSUME PathAssumption == Len(Path) \in Nat

Capability == {"elevation", "login", "restart", "reboot"}
\* A reference to an executable: a bare name, or a file of a directory.
Bare(n) == [dir |-> NoValue, name |-> n]
At(d, n) == [dir |-> d, name |-> n]

\* resolvedExecutableIdentity. disk gives the file each directory entry is a
\* link to; an entry that is no link is the file itself.
Identity(e, disk) ==
  IF e.dir # NoValue THEN (IF e \in DOMAIN disk THEN disk[e] ELSE NoValue)
  ELSE LET hits == {i \in 1..Len(Path) : /\ At(Path[i], e.name) \in DOMAIN disk
                                         /\ disk[At(Path[i], e.name)] # NoValue}
       IN  IF hits = {} THEN NoValue
           ELSE disk[At(Path[CHOOSE i \in hits : \A j \in hits : i <= j], e.name)]
\* executableAllowed
ExecutableAllowed(e, allowed, disk) ==
  /\ Identity(e, disk) # NoValue
  /\ \E a \in allowed : Identity(a, disk) = Identity(e, disk)

----------------------------------------------------------------------------
(* Capabilities *)

Elevating == {"sudo"}
Login == {"su"}
Rebooting == {"reboot", "restart-computer"}
Restarting == {"restart-service"}
Commanding == {"systemctl", "service", "init"}
Wrapper == {"sudo", "cmd"}
WrapperValues == {"-u"}         \* wrapperOptionTakesValue
GenericValues == {"-p", "--property"}  \* genericOptionTakesValue
Interpreter == {"node", "sh"}
Launcher == {"npx", "sudo", "cmd", "su"}

\* The first separator that is not the value of an option; one past the end
\* when there is none.
EndOfOptions(args, opts) ==
  LET at == {i \in 1..Len(args) : args[i] = Separator} \ Consumed(args, opts)
  IN  IF at = {} THEN Len(args) + 1 ELSE CHOOSE i \in at : \A j \in at : i <= j
\* commandArguments: a word that is not an option's value, or anything at all
\* after the separator.
Positionals(args, opts) ==
  LET end == EndOfOptions(args, opts)
  IN  {i \in 1..Len(args) : \/ i > end
                            \/ i < end /\ Positional(args[i]) /\ i \notin Consumed(args, opts)}
First(s) == CHOOSE i \in s : \A j \in s : i <= j
Last(s) == CHOOSE i \in s : \A j \in s : j <= i

SystemctlValues == {"--type", "-t", "-qt"}   \* options of arity 1
SystemctlFlags == {"--now", "-q"}            \* options of arity 0
\* parseSystemctlArguments(...).valid
SystemctlValid(args) ==
  \A i \in 1..(EndOfOptions(args, SystemctlValues) - 1) :
    i \notin Consumed(args, SystemctlValues) /\ ~Positional(args[i]) =>
      \/ args[i].opt \in SystemctlFlags /\ args[i].val = NoValue
      \/ args[i].opt \in SystemctlValues /\ (args[i].val # NoValue \/ i < Len(args))
SystemctlOptions(args) ==
  {args[i].opt : i \in (1..(EndOfOptions(args, SystemctlValues) - 1)) \ Consumed(args, SystemctlValues)}

Systemctl(args) ==
  LET at == Positionals(args, SystemctlValues)
      verb == args[First(at)].val
      power == \E i \in at \ {First(at)} : args[i].val = "reboot.target"
      reboots == \/ verb = "reboot"
                 \/ verb \in {"start", "restart"} /\ power
                 \/ verb = "enable" /\ "--now" \in SystemctlOptions(args) /\ power
  IN  IF ~SystemctlValid(args) THEN {"restart", "reboot"}
      ELSE IF at = {} THEN {}
      ELSE IF reboots THEN {"reboot"}
      ELSE IF verb = "restart" THEN {"restart"} ELSE {}

\* structuralRestartCapabilities, through the wrappers that run an argument: the
\* command is at k, its arguments follow q. After a switch of cmd they follow
\* the argument behind the switch, wherever the command was found.
Structural(name, args) ==
  LET s[k \in 0..Len(args), q \in 0..Len(args)] ==
        LET command == IF k = 0 THEN name ELSE args[k].val
            rest == SubSeq(args, q + 1, Len(args))
            switch == {i \in 1..Len(rest) : rest[i].opt = "/c"}
            from == IF command = "cmd" /\ switch # {} THEN First(switch) ELSE 0
            nested == Positionals(SubSeq(rest, from + 1, Len(rest)), WrapperValues)
            next == q + from + First(nested)
            at == Positionals(rest, GenericValues)
            sub == IF command = "service" THEN rest[Last(at)].val ELSE rest[First(at)].val
        IN  CASE command \in Wrapper ->
                   IF nested = {} THEN {} ELSE s[next, IF from = 0 THEN next ELSE q + from + 1]
              [] command \in Rebooting -> {"reboot"}
              [] command \in Restarting -> {"restart"}
              [] command = "systemctl" -> Systemctl(rest)
              [] command \in Commanding \ {"systemctl"} /\ at # {} ->
                   IF sub = "reboot" \/ (command = "init" /\ sub = "6") THEN {"reboot"}
                   ELSE IF sub = "restart" THEN {"restart"} ELSE {}
              [] OTHER -> {}
  IN  s[0, 0]

DerivedCapabilities(name, args) ==
  (IF name \in Elevating \/ Has(args, Flag("--sudo")) THEN {"elevation"} ELSE {})
    \cup (IF name \in Login \/ \E i \in 1..Len(args) : Positional(args[i]) /\ args[i].val \in Login \cup {"login"}
          THEN {"login"} ELSE {})
    \cup Structural(name, args)

----------------------------------------------------------------------------
(* Bounds: a record with the roots, executables, leaves (executables        *)
(* authorized to run as they are), origins and capabilities that are        *)
(* allowed. A task has bounds, a working directory and a verification.      *)

WithinBounds(b, harness) ==
  [b EXCEPT !.roots = @ \cap harness.roots, !.origins = @ \cap harness.origins,
            !.capabilities = @ \cap harness.capabilities]
\* boundedTask: what the harness does not allow is taken off the task first.
BoundedTask(task, harness, disk) ==
  LET kept == {e \in task.bounds.executables : ExecutableAllowed(e, harness.executables, disk)}
  IN  [task EXCEPT !.bounds = [WithinBounds(@, harness) EXCEPT !.executables = kept,
                                                               !.leaves = @ \cap kept]]

\* harnessConfigurationIssue: a harness that names a launcher, promises a
\* sandbox for interpreters there is none of, or allows more than exact origins.
HarnessUsable(harness) ==
  /\ \A e \in harness.leaves : e.name \notin Launcher
  /\ harness.interpreters = {}
  /\ \A o \in harness.origins : Https(o)
\* validateAgentTask
TaskValid(task) ==
  /\ task.limit > 0 /\ task.bounds.executables # {}
  /\ \A e \in task.bounds.leaves : e.name \notin Launcher

OriginAllowed(o, task, harness) ==
  o \in Origins(task.bounds.origins) \cap Origins(harness.origins)
PathAllowed(root, task, harness) == root \in task.bounds.roots \cap harness.roots

\* authorizeExecutableBehavior: the arguments to run with and the requirement
\* files they name, or Denied. x is a file; the three rewritings run in order,
\* and the file that is left must be one that may run as it is.
Leaf(x, args, files, task, harness, disk) ==
  IF \/ args = Denied \/ x.name \in Launcher \cup Interpreter
     \/ \E b \in {task.bounds.leaves, harness.leaves} : ~ExecutableAllowed(x, b, disk)
  THEN Denied ELSE [args |-> args, files |-> files]
WithRegistry(x, quiet, files, task, harness, origins, disk) ==
  IF quiet = Denied THEN Denied
  ELSE Leaf(x, AuthorizeRegistry(x.name, quiet, task.bounds.origins, harness.origins, origins),
            files, task, harness, disk)
WithoutScripts(x, pip, task, harness, origins, disk) ==
  IF pip = Denied THEN Denied
  ELSE WithRegistry(x, ScriptPolicy(x.name, pip.args), pip.files, task, harness, origins, disk)
Behavior(x, args, task, harness, origins, disk, files) ==
  WithoutScripts(x, PipInputs(x.name, args, files, task.bounds.roots \cap harness.roots,
                              Origins(task.bounds.origins) \cap Origins(harness.origins)),
                 task, harness, origins, disk)

ListedFile(e, task, harness, disk) ==
  LET x == Identity(e, disk)
  IN  IF x # NoValue /\ ExecutableAllowed(x, task.bounds.executables, disk)
           /\ ExecutableAllowed(x, harness.executables, disk)
      THEN x ELSE NoValue

ArgumentsBounded(m, args, task, harness) ==
  \A i \in 1..Len(args) :
    LET root == ArgumentRoot(m, args, i)
        origin == ArgumentOrigin(m, args, i)
    IN  /\ root # NoValue => PathAllowed(root, task, harness)
        /\ origin # NoValue => OriginAllowed(origin, task, harness)

BoundedRun(x, run, task, harness) ==
  IF run = Denied THEN Denied
  ELSE IF ArgumentsBounded(x.name, run.args, task, harness)
       THEN [exe |-> x, args |-> run.args, files |-> run.files] ELSE Denied

\* resolveAuthorizedAction, for the file x that the action names.
ActionOf(x, action, task, harness, disk, files) ==
  IF /\ x # NoValue
     /\ x.name = "systemctl" => SystemctlValid(action.args)
     /\ action.capabilities \cup DerivedCapabilities(x.name, action.args)
          \subseteq task.bounds.capabilities \cap harness.capabilities
     /\ \A root \in {action.root} \cup {PathOf[p] : p \in action.paths} :
          PathAllowed(root, task, harness)
     /\ \A o \in action.origins : OriginAllowed(UrlOf[o], task, harness)
  THEN BoundedRun(x, Behavior(x, action.args, task, harness, action.origins, disk, files),
                  task, harness)
  ELSE Denied
AuthorizeAction(action, task, harness, disk, files) ==
  ActionOf(ListedFile(action.exe, task, harness, disk), action, task, harness, disk, files)

\* resolveAuthorizedVerification: an observer needs no capability at all.
ObserverOf(x, args, task, harness, disk, files) ==
  IF x # NoValue /\ DerivedCapabilities(x.name, args) = {}
  THEN BoundedRun(x, Behavior(x, args, task, harness, {}, disk, files), task, harness)
  ELSE Denied
AuthorizeVerification(task, harness, disk, files) ==
  ObserverOf(ListedFile(task.observer.exe, task, harness, disk), task.observer.args,
             task, harness, disk, files)

\* resolveAuthorizedProposal: all of the actions, then the observer, or nothing.
AllOrNothing(runs) == IF \E i \in DOMAIN runs : runs[i] = Denied THEN Denied ELSE runs
AuthorizeProposal(actions, task, harness, disk, files) ==
  AllOrNothing(Append([i \in 1..Len(actions) |-> AuthorizeAction(actions[i], task, harness, disk, files)],
                      AuthorizeVerification(task, harness, disk, files)))

\* Executor checks that read nothing but the invocation.
ExecutorAccepts(run) ==
  Launchable(run.exe.name, run.args, InvocationRegistry(run.exe.name, run.args), run.files)
=============================================================================
