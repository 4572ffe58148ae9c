------------------------------ MODULE Follower ------------------------------
(***************************************************************************)
(* A follower over many synchronizations: the Source changes what the      *)
(* follower is authorized to see, the user edits the managed targets and   *)
(* claims config keys, and `sync --apply` observes, plans and executes.    *)
(* SyncRun follows one run through crashes and failures; here a run is its *)
(* actions in order, each complete or failed, and what matters is what     *)
(* planning makes of the state earlier runs and the user left.             *)
(***************************************************************************)
EXTENDS ResourcePlans

CONSTANTS
  Resource,    \* resource ids
  Target,      \* disjoint target paths
  Families,    \* families of revisions: the authorized views that may be published
               \* (views) and what a user may turn each target into (edits)
  Claimable,   \* keys a user may claim in the Local Overlay
  MaxPublish,  \* bound on the revisions, for each family
  MaxEdit      \* bound on the user's changes

Kind == {"file", "directory", "config", "skill", "tool", "credential"}
Policy == {"replace", "replace-if-unmodified", "append-local", "mirror-owned", "merge",
           "ensure", "require-local"}
Object == {"absent", "regular", "symlink", "directory", "unreadable"}
Mode == {0, 1}
State == [object: Object, mode: Mode, content: Content]
DesiredTool == [recipe: Recipe \cup {None}, agentInstall: BOOLEAN, login: BOOLEAN]
DesiredResource ==
  [kind: Kind, policy: Policy, target: Target, object: Object, mode: Mode \cup {None},
   content: Content, deps: SUBSET Resource, tool: DesiredTool \cup {None}]
AppliedResource ==
  [kind: Kind, policy: Policy, target: Target, object: Object, mode: Mode \cup {None},
   content: Content]
DraftKind ==
  {"no-op", "write-file", "write-config", "mirror-directory", "remove-resource",
   "install-tool", "agent-task", "human-action", "drift-conflict"}
PlannedAction ==
  [res: Resource, d: DesiredResource,
   draft: [kind: DraftKind, adds: SUBSET Slot, removes: SUBSET Slot],
   seen: [state: {"absent", "unverifiable", "present", "directory"}, object: Object,
          mode: Mode \cup {None}, content: Content \cup {Opaque}]]
Run ==
  [todo: Seq(PlannedAction), disk: [Target -> State],
   records: [Resource -> AppliedResource \cup {None}], left: [Target -> Content]]
Outcome == {"none", "Converged", "Failed", "FollowerDrift", "HumanActionRequired",
            "Refused"}

\* What decoding a resource guarantees.
WellFormed(d) ==
  /\ d.kind = "file" => /\ \E v \in Value : d.content = Unmarked(v)
                        /\ d.object \in {"regular", "symlink"}
  /\ d.kind \in {"file", "directory", "skill"} => d.mode \in Mode
  /\ d.kind \in {"tool", "credential"} => d.content = Empty
  /\ d.kind = "tool" => d.tool # None

\* Kinds whose content means the same.
Class(kind) ==
  CASE Tree(kind) -> "tree" [] kind \in {"tool", "credential"} -> "none" [] OTHER -> kind

ASSUME FollowerAssumption ==
  /\ MaxPublish \in [DOMAIN Families -> Nat] /\ MaxEdit \in Nat
  /\ Claimable \subseteq Slot
  /\ IsFiniteSet(Resource)
  /\ None \notin Mode /\ None \notin AppliedResource /\ None \notin Run

\* What cannot be read has no content here, and neither has what is not there. A text
\* has the two places of a text.
ASSUME EditsAreStates ==
  \A f \in DOMAIN Families : \A t \in Target : \A e \in Families[f].edits[t] :
    /\ e \in State
    /\ e.object \in {"absent", "unreadable"} => e.content = Empty
    /\ \A v \in Families[f].views : \A r \in Resource :
         v[r] # None /\ v[r].kind = "file" /\ v[r].target = t
           => Present(e.content) \subseteq {Source, Local}

\* The views of a family. Content of different kinds is not compared, so a resource
\* and a target keep their class. Targets do not pass from a resource that moves to
\* another one.
ASSUME ViewsAreSane ==
  \A f \in DOMAIN Families :
    LET views == Families[f].views IN
    /\ views \subseteq [Resource -> DesiredResource \cup {None}]
    /\ \A v \in views : \A r \in Resource : v[r] # None => WellFormed(v[r])
    /\ \A v, w \in views : \A r \in Resource :
         v[r] # None /\ w[r] # None => Class(v[r].kind) = Class(w[r].kind)
    /\ \A v, w \in views : \A r, q \in Resource :
         v[r] # None /\ w[q] # None /\ v[r].target = w[q].target
           => Class(v[r].kind) = Class(w[q].kind)
    /\ \A v, w \in views : \A r, q \in Resource :
         /\ r # q /\ v[r] # None /\ w[q] # None /\ v[r].target = w[q].target
         => \A u \in views : u[r] # None => u[r].target = v[r].target

VARIABLES
  family,    \* the family of revisions of this behaviour
  view,      \* the authorized view of the newest revision
  disk,      \* the managed targets
  records,   \* the Applied Resource Records
  overlay,   \* the keys of each resource the follower claimed
  run,       \* the run in progress, or None
  last,      \* how the last run ended
  settled,   \* nothing changed since the last run started
  left,      \* history: the declared content a run last left at each place
  published, edits

vars == <<family, view, disk, records, overlay, run, last, settled, left,
          published, edits>>

Blank == [object |-> "absent", mode |-> 0, content |-> Empty]

----------------------------------------------------------------------------
(* Publication and authorization. *)

In(v) == {r \in Resource : v[r] # None}

\* validateResourcePathConflicts, with targets that are the same or apart.
Disjoint(ds) == \A r, q \in DOMAIN ds : r # q => ds[r].target # ds[q].target

\* findDependencyCycle
Acyclic(ds) ==
  \E depth \in [DOMAIN ds -> 1..Cardinality(DOMAIN ds)] :
    \A r \in DOMAIN ds : \A q \in ds[r].deps : depth[q] < depth[r]

\* validateProfileResources. An append-local file is a plain regular file.
ValidResource(d) ==
  /\ Compatible(d.kind, d.policy)
  /\ d.policy = "append-local" => d.object = "regular" /\ d.mode = 0
  /\ d.kind = "tool" /\ d.tool.recipe # None => ValidRecipe(d.tool.recipe)

ValidView(v) ==
  LET ds == [r \in In(v) |-> v[r]]
  IN  /\ \A r \in In(v) : ValidResource(v[r]) /\ v[r].deps \subseteq In(v)
      /\ Disjoint(ds) /\ Acyclic(ds)

Publish ==
  /\ published < MaxPublish[family]
  /\ \E v \in Families[family].views :
       /\ v # view /\ ValidView(v)
       /\ view' = v
  /\ published' = published + 1
  /\ settled' = FALSE
  /\ UNCHANGED <<family, disk, records, overlay, run, last, left, edits>>

----------------------------------------------------------------------------
(* The user changes things between two runs: SyncRun has edits during one. *)

EditAllowed == edits < MaxEdit /\ run = None

Edit ==
  /\ EditAllowed
  /\ \E t \in Target : \E e \in Families[family].edits[t] :
       e # disk[t] /\ disk' = [disk EXCEPT ![t] = e]
  /\ edits' = edits + 1
  /\ settled' = FALSE
  /\ UNCHANGED <<family, view, records, overlay, run, last, left, published>>

\* A key joins or leaves the Local Overlay of a resource.
Claim ==
  /\ EditAllowed
  /\ \E r \in Resource, k \in Claimable :
       /\ view[r] # None /\ view[r].kind = "config"
       /\ overlay' = [overlay EXCEPT ![r] = IF k \in @ THEN @ \ {k} ELSE @ \cup {k}]
  /\ edits' = edits + 1
  /\ settled' = FALSE
  /\ UNCHANGED <<family, view, disk, records, run, last, left, published>>

----------------------------------------------------------------------------
(* Planning. *)

\* appliedResourceFor
Record(d) == [kind |-> d.kind, policy |-> d.policy, target |-> d.target,
              object |-> d.object, mode |-> d.mode, content |-> d.content]

\* removedResourceState
Gone(rec) == [kind |-> rec.kind, policy |-> rec.policy, target |-> rec.target,
              object |-> rec.object, mode |-> rec.mode, content |-> rec.content,
              deps |-> {}, tool |-> None]

Removed == {r \in Resource : view[r] = None /\ records[r] # None}

\* hydrateRevision: the resources of the view, and those only recorded.
Resources == In(view) \cup Removed
Hydrated(r) == IF r \in Removed THEN Gone(records[r]) ELSE view[r]

\* Resources are ordered dependencies first (the code takes the depth-first
\* order of the sorted ids).
Orders(rs) ==
  {f \in [1..Cardinality(rs) -> rs] :
     /\ \A i, j \in DOMAIN f : i # j => f[i] # f[j]
     /\ \A i, j \in DOMAIN f : f[j] \in Hydrated(f[i]).deps => j < i}

\* The drafts of a resource: what is observed now decides.
Drafts(r) ==
  LET d == Hydrated(r)
      o == Observe(disk[d.target], d, records[r])
  IN  IF r \in Removed THEN PlanRemoved(d, o, records[r])
      ELSE PlanResource(d, o, records[r], overlay[r])

Steps(r) ==
  LET d == Hydrated(r)
      o == Observe(disk[d.target], d, records[r])
      drafts == Drafts(r)
  IN  [i \in DOMAIN drafts |-> [res |-> r, d |-> d, draft |-> drafts[i], seen |-> o]]

\* validateResourceInputs: a target may not overlap another, be it one that is
\* only recorded; dependencies must be present.
Plannable ==
  /\ Disjoint([r \in Resources |-> Hydrated(r)])
  /\ \A r \in Resources : Hydrated(r).deps \subseteq Resources

Concat(f) ==
  LET g[i \in 0..Len(f)] == IF i = 0 THEN <<>> ELSE g[i - 1] \o Steps(f[i])
  IN  g[Len(f)]

Sync ==
  /\ run = None
  /\ Plannable
  /\ \E f \in Orders(Resources) :
       run' = [todo |-> Concat(f), disk |-> disk, records |-> records, left |-> left]
  /\ settled' = TRUE
  /\ UNCHANGED <<family, view, disk, records, overlay, last, left, published, edits>>

\* A planning error: the command fails before a run is recorded.
Refuse ==
  /\ run = None /\ ~Plannable
  /\ last' = "Refused" /\ settled' = TRUE
  /\ UNCHANGED <<family, view, disk, records, overlay, run, left, published, edits>>

----------------------------------------------------------------------------
(* Execution. *)

Below(c, s) == {x \in Slot : s \in Above[x] /\ c[x] # Nothing}

\* A tree after a mutation: a directory that is removed must be empty, and a
\* leaf cannot take the place of a directory that is not.
TreeFits(c) == \A s \in Slot : Below(c, s) # {} => c[s] = Dir

\* composeTextFile
Compose(text, c) ==
  [Empty EXCEPT ![Source] = text,
                ![Local] = IF c[Source] = Nothing /\ c[Local] = text THEN Nothing ELSE c[Local]]

\* appendLocalOutput refuses a marked text that is neither the one the plan
\* saw nor the desired one.
Replan(x, t) ==
  /\ t.object # "absent"
  /\ \/ t.object # "regular"
     \/ t.content[Source] \notin {x.seen.content[Source], x.d.content[Local]}

Regular(mode, c) == [object |-> "regular", mode |-> mode, content |-> c]

WrittenMode(d) == IF d.mode = None THEN 0 ELSE d.mode

\* prepareWrite, prepareAppendLocal
WriteFile(x, t) ==
  IF x.d.policy = "append-local"
  THEN IF Replan(x, t) THEN {} ELSE {Regular(x.d.mode, Compose(x.d.content[Local], t.content))}
  ELSE IF t.object = "directory" THEN {}
  ELSE {[object |-> x.d.object, content |-> x.d.content, mode |-> WrittenMode(x.d)]}

\* prepareConfig
WriteConfig(x, t) ==
  IF t.object \notin {"absent", "regular"} THEN {}
  ELSE {Regular(0, [s \in Slot |-> IF s \in x.draft.adds THEN x.d.content[s]
                                   ELSE IF s \in x.draft.removes THEN Nothing
                                   ELSE t.content[s]])}

\* prepareMirror: removals deepest first, directories, then leaves; the
\* directories on the way are created.
MirrorDirectory(x, t) ==
  LET kept == [s \in Slot |-> IF s \in x.draft.removes THEN Nothing
                              ELSE IF t.object = "directory" THEN t.content[s] ELSE Nothing]
      new == [s \in Slot |->
                CASE s \in x.draft.adds \/ x.d.content[s] = Dir -> x.d.content[s]
                  [] s \notin x.draft.adds /\ x.d.content[s] # Dir
                       /\ s \in Ancestors(x.draft.adds) /\ kept[s] = Nothing -> Dir
                  [] OTHER -> kept[s]]
  IN  IF TreeFits(kept) /\ TreeFits(new)
      THEN {[object |-> "directory", mode |-> x.d.mode, content |-> new]} ELSE {}

\* prepareRemoval
RemoveResource(x, t) ==
  CASE x.d.policy = "append-local" ->
         IF t.object = "absent" THEN {t}
         ELSE IF t.object # "regular" \/ t.content[Source] # x.d.content[Local] THEN {}
         ELSE {[t EXCEPT !.content[Source] = Nothing]}
    [] x.d.policy = "merge" ->
         IF t.object \notin {"absent", "regular"} THEN {}
         ELSE {[t EXCEPT !.content = Keep(@, Slot \ x.draft.removes)]}
    [] Tree(x.d.kind) ->
         LET c == Keep(t.content, Slot \ x.draft.removes)
         IN  IF t.object = "absent" THEN {t}
             ELSE IF t.object = "directory" /\ TreeFits(c) THEN {[t EXCEPT !.content = c]} ELSE {}
    [] OTHER -> IF t.object = "directory" THEN {} ELSE {Blank}

\* The states an action may leave its target in; none when it fails.
Effect(x, t) ==
  CASE x.draft.kind = "write-file" -> WriteFile(x, t)
    [] x.draft.kind = "write-config" -> WriteConfig(x, t)
    [] x.draft.kind = "mirror-directory" -> MirrorDirectory(x, t)
    [] x.draft.kind = "remove-resource" -> RemoveResource(x, t)
    [] x.draft.kind = "install-tool" ->
         IF Refused(x.d.tool.recipe) THEN {} ELSE {Regular(0, Empty)}
    [] x.draft.kind = "agent-task" -> {Regular(0, Empty)}
    [] OTHER -> {t}

\* verifyResource, which does not look at what the profile does not declare.
Verified(d, t) ==
  CASE d.policy = "append-local" -> t.object = "regular" /\ t.content[Source] = d.content[Local]
    [] d.kind = "file" /\ d.policy # "append-local" ->
         /\ t.object = d.object /\ t.content = d.content
         /\ d.object = "regular" => t.mode = d.mode
    [] d.kind = "config" -> t.object = "regular" /\ Keep(t.content, Present(d.content)) = d.content
    [] Tree(d.kind) -> /\ t.object = "directory" /\ t.mode = d.mode
                       /\ Keep(t.content, Present(d.content)) = d.content
    [] OTHER -> t.object # "absent"

Close(outcome) ==
  /\ run' = None /\ last' = outcome
  /\ UNCHANGED <<family, view, overlay, settled, published, edits>>

\* A failed action: the inverses of the actions before it restore their
\* targets and records.
RollBack ==
  /\ disk' = run.disk /\ records' = run.records /\ left' = run.left
  /\ Close("Failed")

\* Faulty variant: a resource keeps its record when it is removed.
RecordKept(x) == IF x.draft.kind = "remove-resource" THEN records[x.res] ELSE Record(x.d)

\* The ownership record an action leaves behind.
Owned(x) ==
  IF x.draft.kind = "remove-resource" THEN None
  ELSE IF x.d.kind \in {"tool", "credential"} THEN records[x.res]
  ELSE Record(x.d)

\* What a resource, or the record of one, declares at a place.
Declared(d, s) ==
  IF d.policy = "append-local" THEN IF s = Source THEN d.content[Local] ELSE Nothing
  ELSE d.content[s]

\* Places that a resource never looks at unless it declares them.
GivenUp(d, s) ==
  \/ d.policy = "append-local" /\ s = Local
  \/ d.kind = "config" /\ d.policy = "replace"

\* What a run left: a place that is as the resource declares it, or still as
\* an earlier run left it. A place the user changed or claimed is released.
Leave(x, u) ==
  [s \in Slot |->
     IF \/ x.draft.kind # "remove-resource" /\ Declared(x.d, s) = u.content[s]
        \/ /\ u.content[s] = left[x.d.target][s]
           /\ s \notin overlay[x.res] /\ ~GivenUp(x.d, s)
     THEN u.content[s] ELSE Nothing]

\* And elsewhere: a resource that moves forgets what it left at its old target.
LeftBy(x, u) ==
  [t \in Target |-> IF t = x.d.target THEN Leave(x, u)
                    ELSE IF records[x.res] # None /\ t = records[x.res].target THEN Empty
                    ELSE left[t]]

Act ==
  /\ run # None /\ run.todo # <<>>
  /\ LET x == Head(run.todo)
         t == disk[x.d.target]
     IN  CASE x.draft.kind = "human-action" -> UNCHANGED <<disk, records, left>> /\ Close("HumanActionRequired")
           [] x.draft.kind = "drift-conflict" -> UNCHANGED <<disk, records, left>> /\ Close("FollowerDrift")
           [] OTHER ->
                \/ \E u \in Effect(x, t) :
                     /\ x.draft.kind # "remove-resource" => Verified(x.d, u)
                     /\ disk' = [disk EXCEPT ![x.d.target] = u]
                     /\ records' = [records EXCEPT ![x.res] = Owned(x)]
                     /\ left' = LeftBy(x, u)
                     /\ run' = [run EXCEPT !.todo = Tail(@)]
                     /\ UNCHANGED <<family, view, overlay, last, settled, published, edits>>
                \* The action or its verification fails, or the installer does.
                \/ /\ \/ \A u \in Effect(x, t) :
                           x.draft.kind # "remove-resource" /\ ~Verified(x.d, u)
                      \/ x.draft.kind = "install-tool"
                   /\ RollBack
                \/ x.draft.kind = "agent-task" /\ UNCHANGED <<disk, records, left>>
                     /\ Close("HumanActionRequired")

Finish ==
  /\ run # None /\ run.todo = <<>>
  /\ UNCHANGED <<disk, records, left>>
  /\ Close("Converged")

Init ==
  /\ family \in DOMAIN Families
  /\ view = [r \in Resource |-> None]
  /\ disk \in [Target -> UNION {Families[family].edits[t] : t \in Target} \cup {Blank}]
  /\ \A t \in Target : disk[t] \in Families[family].edits[t] \cup {Blank}
  /\ records = [r \in Resource |-> None]
  /\ overlay = [r \in Resource |-> {}]
  /\ run = None /\ last = "none" /\ settled = FALSE
  /\ left = [t \in Target |-> Empty]
  /\ published = 0 /\ edits = 0

Next == Publish \/ Edit \/ Claim \/ Sync \/ Refuse \/ Act \/ Finish

Spec == Init /\ [][Next]_vars

----------------------------------------------------------------------------
(* Properties. *)

Installs == {i \in (IF run = None THEN {} ELSE DOMAIN run.todo) :
               run.todo[i].draft.kind = "install-tool"}

\* What validation lets through, the planner leaves to a person whenever the
\* executor would refuse it, instead of letting it fail the run and roll back
\* every action before it; for packages given by their name.
RefusalsArePlanned ==
  \A i \in Installs : LET r == run.todo[i].d.tool.recipe IN
    Refused(r) => AmbiguousPackage(r)

\* Every variable stays in its type.
TypeOK ==
  /\ family \in DOMAIN Families
  /\ view \in Families[family].views \cup {[r \in Resource |-> None]}
  /\ disk \in [Target -> State] /\ left \in [Target -> Content]
  /\ records \in [Resource -> AppliedResource \cup {None}]
  /\ run \in Run \cup {None}
  /\ overlay \in [Resource -> SUBSET Claimable]
  /\ last \in Outcome /\ settled \in BOOLEAN
  /\ published \in 0..MaxPublish[family] /\ edits \in 0..MaxEdit

\* Planning is idempotent: when a run has converged and nobody has changed
\* anything since, the next plan holds no action but no-ops, for every kind
\* and policy and whatever happened before (docs/harness-configuration.md and
\* docs/implementation-map.md ask applying to be idempotent).
ConvergedIsFixpoint ==
  settled /\ run = None /\ last = "Converged" =>
    \A r \in Resources : \A i \in DOMAIN Drafts(r) : Drafts(r)[i].kind = "no-op"

\* The record is about another target, or about a whole file of which the resource now
\* owns the marked text (or the other way round).
Strayed(x) ==
  LET rec == records[x.res] IN
  /\ rec # None
  /\ \/ rec.target # x.d.target
     \/ (rec.policy = "append-local") # (x.d.policy = "append-local")
RecordedAt(x, s) == records[x.res].content[IF x.d.policy = "append-local" THEN Local ELSE s]

\* What an action may change although no run left it: everything under
\* `replace`; the declared places under merge and mirror-owned; under merge also
\* a dropped key whatever its value. append-local takes a text equal to the
\* desired one between its markers. After a move, or a change to or from append-local,
\* also what equals the record although no run left it there.
MayChange(x, s) ==
  \/ Strayed(x) /\ disk[x.d.target].content[s] = RecordedAt(x, s)
  \/ x.d.policy = "append-local" /\ s = Local
       /\ disk[x.d.target].content[s] = disk'[x.d.target].content[Source]
  \/ x.d.policy = "replace"
  \/ x.d.policy = "mirror-owned" /\ x.d.content[s] # Nothing
  \/ x.d.policy = "merge" /\ s \notin overlay[x.res]
                           /\ (s \in x.draft.adds \/ s \in x.draft.removes)

\* A run never takes a local edit away. Whatever sequence of revisions, policy
\* changes, withdrawals, edits and runs came before, an action changes a leaf
\* whose content no run left there only where its Apply Policy says so; the
\* planner knows this only from the record, the observation and the revision.
LocalEditsSurvive ==
  [][run # None /\ run' # None /\ run'.todo # run.todo =>
       LET x == Head(run.todo) IN
       \A s \in Slot :
         LET was == disk[x.d.target].content[s] IN
         (was # disk'[x.d.target].content[s] /\ was \notin {Nothing, Dir, left[x.d.target][s]})
           => MayChange(x, s)]_vars

\* The follower never forgets what it wrote: as long as a leaf is exactly as a
\* run left it, some Applied Resource Record of that target still covers it, so
\* a later run will remove it when the Source drops it. Except what a resource left
\* at an old target, what a config under `replace` no longer declares, and a whole
\* file that became the local text of append-local (LeftBy, GivenUp).
OwnedIsRecorded ==
  \A t \in Target : \A s \in Slot :
    LET now == disk[t].content[s] IN
    now \notin {Nothing, Dir} /\ now = left[t][s] =>
      \E r \in Resource :
        records[r] # None /\ records[r].target = t /\ Declared(records[r], s) = now
=============================================================================
