----------------------------- MODULE AgentArguments -----------------------------
(***************************************************************************)
(* One package operation an agent proposes, its arguments of whatever     *)
(* shape, and what becomes of it: the arguments the resolution authorizes  *)
(* and what the executor makes of them. Where the command stands is read   *)
(* three times, by three lists of the options that take a separate value   *)
(* (ScriptValues, RegistryValues, LaunchValues), with a rewriting between.  *)
(***************************************************************************)
EXTENDS AgentBounds

CONSTANTS
  Vocabulary,    \* for each manager the arguments a list is made of
  MaxArguments,  \* bound on the length of a list
  Task, Harness, \* the task and the harness it is proposed for
  Directory,     \* the root of the proposed working directory
  Disk, Files    \* what PATH and the requirement files hold

VARIABLES manager, args
vars == <<manager, args>>

Init == manager \in DOMAIN Vocabulary /\ args = <<>>
\* The agent may propose any list.
Propose ==
  /\ Len(args) < MaxArguments
  /\ \E t \in Vocabulary[manager] : args' = Append(args, t)
  /\ UNCHANGED manager
Another == args # <<>> /\ args' = <<>> /\ manager' \in DOMAIN Vocabulary
Next == Propose \/ Another
Spec == Init /\ [][Next]_vars

Proposed ==
  [exe |-> Bare(manager), args |-> args, root |-> Directory,
   paths |-> {}, origins |-> {}, capabilities |-> {}]
Authorized ==
  AuthorizeAction(Proposed, BoundedTask(Task, Harness, Disk), Harness, Disk, Files)

----------------------------------------------------------------------------
(* What must hold of what is authorized, and of which lists it does not.    *)

\* A bare --@scope:registry takes a value in the lists of the resolution and
\* none in the executor's.
BareScope == \E i \in 1..(Len(args) - 1) : args[i] = Flag(Scoped)
\* A registry option that is the value of an option is taken out by the
\* rewriting, and the argument behind it becomes the value.
RegistryAsValue ==
  \E i \in 1..(Len(args) - 1) :
    /\ args[i].val = NoValue
    /\ args[i].opt \in ScriptValues(manager) \cup RegistryValues(manager)
    /\ args[i + 1].opt \in IndexOptions(manager)
\* --isolated of pip takes a value in the lists of the resolution and none in
\* the executor's, and it is safe for the executor only without one.
PipIsolated ==
  manager = "pip" /\ \E i \in 1..Len(args) :
    /\ args[i].opt = "--isolated"
    /\ args[i].val # NoValue \/ i < CommandAt(args, {})

Authorizes(P(_)) == Authorized # Denied => P(Authorized.args)

\* Scripts are off in every installing operation, the command being the one
\* that the executor reads.
ScriptsOff(as) ==
  IF manager \in Npm \cup {"bun"}
  THEN Command(as, LaunchValues(manager)) \in Installing(manager) =>
         Enabled(as, "--ignore-scripts") /\ ~Disabled(as, "--ignore-scripts")
  ELSE LaunchOperation(manager, as) =>
         /\ OnlyBinary(as) /\ ~OtherBinary(as)
         /\ Enabled(as, IF manager = "pip" THEN "--isolated" ELSE "--no-config")
\* It fetches from origins both the task and the harness allow, and from no other.
OneRegistry(as) ==
  LaunchOperation(manager, as) =>
    /\ RegistryOptions(manager, as) # {}
    /\ \A i \in RegistryOptions(manager, as) :
         Https(OptionUrl(as, i)) /\ OriginAllowed(UrlOf[OptionUrl(as, i)], Task, Harness)
\* A package operation that is authorized runs no script of a package
\* (packageManagerPolicy) and fetches from reviewed registries only
\* (authorizeRegistryInvocation). The lists read a bare scope and --isolated of
\* pip differently, and the rewriting of the registry may turn a value into the
\* command: there it is false.
OperationIsReviewed ==
  /\ BareScope \/ PipIsolated \/ RegistryAsValue \/ Authorizes(ScriptsOff)
  /\ BareScope \/ PipIsolated \/ Authorizes(OneRegistry)

\* The executor judges the arguments by checks of its own, written apart from
\* those of the resolution (executeControlledProcess). What the resolution
\* authorized they accept, so that a proposal is not left half done by them, but
\* for lists that are read differently.
AuthorizedIsLaunchable ==
  BareScope \/ PipIsolated \/ (Authorized # Denied => ExecutorAccepts(Authorized))
=============================================================================
