------------------------- MODULE ProfileRevisions -------------------------
(***************************************************************************)
(* Publication and authorization as functions of data.                     *)
(*                                                                         *)
(* A publication takes what discovery proposed, what the operator authored *)
(* and the operator's review, and makes a profile of them.  A profile is   *)
(* its own identity: the id of its revision is the digest of its canonical *)
(* bytes.  A specification is a member of Spec and stands for its blob,    *)
(* whose id is the digest of the specification.                            *)
(*                                                                         *)
(* Authorization shows a follower the resources its groups allow, without  *)
(* those that depend on something it may not see.                          *)
(***************************************************************************)
EXTENDS Naturals, FiniteSets

CONSTANTS Resource, Group, Spec, ProfileName, None

Authored == [groups: SUBSET Group, deps: SUBSET Resource, spec: Spec]
Discovered == [kind: {"tool", "skill"}, status: {"accepted", "needs-review"},
               prose: BOOLEAN, spec: Spec]
Profile == [name: ProfileName, groups: SUBSET Group, resource: [Resource -> Authored \cup {None}]]
PublishProfileInput ==
  [name: ProfileName, groups: SUBSET Group, accepted: BOOLEAN, tasks: BOOLEAN,
   discovered: [Resource -> Discovered \cup {None}], authored: [Resource -> Authored \cup {None}]]

----------------------------------------------------------------------------
(* Publication *)

\* A review that does not accept exactly this proposal publishes nothing.
ReviewAccepted(i) == i.accepted

\* What still has to be decided before this proposal may be published.
UnresolvedReasons(i) ==
  {r \in Resource :
     /\ i.discovered[r] # None
     /\ i.discovered[r].kind # "skill"
     /\ i.discovered[r].status # "accepted" \/ i.discovered[r].prose}
Unresolved(i) == i.tasks \/ UnresolvedReasons(i) # {}

\* A discovered resource depends on nothing and is for every group.
ResourceFor(d) == [groups |-> {}, deps |-> {}, spec |-> d.spec]

\* An authored resource wins over a discovered one of the same id.
MachineProfileFor(i) ==
  [name |-> i.name, groups |-> i.groups,
   resource |-> [r \in Resource |->
     IF i.authored[r] # None THEN i.authored[r]
     ELSE IF i.discovered[r] # None /\ i.discovered[r].status = "accepted"
     THEN ResourceFor(i.discovered[r])
     ELSE None]]

Resources(p) == {r \in Resource : p.resource[r] # None}
Closed(S, deps) == \A r \in S : deps[r] \subseteq S
DependsOn(p) == [r \in Resource |-> IF p.resource[r] = None THEN {} ELSE p.resource[r].deps]
\* A set in which every member depends on another member holds a cycle.
HasCycle(deps) == \E S \in SUBSET Resource \ {{}} : \A r \in S : deps[r] \cap S # {}

ValidMachineProfile(p) ==
  /\ Closed(Resources(p), DependsOn(p))
  /\ \A r \in Resources(p) : p.resource[r].groups \subseteq p.groups
  /\ ~HasCycle(DependsOn(p))

Publishable(i) ==
  /\ ReviewAccepted(i)
  /\ ~Unresolved(i)
  /\ ValidMachineProfile(MachineProfileFor(i))

----------------------------------------------------------------------------
(* Authorization *)

\* A published resource of no group is for everyone.
ResourceIsAuthorized(groups, of) == of = {} \/ of \cap groups # {}

RemainingOnce(authorized, deps) == {r \in authorized : deps[r] \subseteq authorized}
\* The resources left after n passes that remove the dependents of what is missing.
Remaining(authorized, deps) ==
  LET pass[n \in 0..Cardinality(Resource)] ==
        IF n = 0 THEN authorized
        ELSE {r \in pass[n - 1] : deps[r] \subseteq pass[n - 1]}
  IN  pass[Cardinality(Resource)]

\* What a follower of these groups is shown of a row that names these groups.
VisibleResources(p, named, groups) ==
  Remaining({r \in Resources(p) : ResourceIsAuthorized(groups, named[r])}, DependsOn(p))

NamedGroups(p) == [r \in Resource |-> IF p.resource[r] = None THEN {} ELSE p.resource[r].groups]
HoldersOf(p, b) == {r \in Resources(p) : p.resource[r].spec = b}
BlobsOf(p, shown) == {p.resource[r].spec : r \in shown}

\* The intention: a resource may be shown when everything it needs may be shown.
MayBeShown(p, groups) ==
  {r \in Resources(p) :
     \E S \in SUBSET Resources(p) :
       /\ r \in S
       /\ Closed(S, DependsOn(p))
       /\ \A s \in S : ResourceIsAuthorized(groups, p.resource[s].groups)}
=============================================================================
