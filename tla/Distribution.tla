--------------------------- MODULE Distribution ---------------------------
(***************************************************************************)
(* How a revision reaches a follower: operators publish on the source, the *)
(* source's server answers the followers' requests, and a synchronization  *)
(* on the follower lists, describes, fetches and applies.                  *)
(*                                                                         *)
(* Each action ends where the code awaits: a publication reads the table   *)
(* twice before it writes; a request is authenticated first and answered   *)
(* from what the tables hold later; a blob request reads its candidates,   *)
(* looks at the index of earlier answers, and computes what is missing.    *)
(***************************************************************************)
EXTENDS ProfileRevisions, Sequences

CONSTANTS
  Follower, Session, Publisher,
  FollowerOf,   \* whose synchronization a session is
  Revision,     \* ids of what operators try to publish
  Input,        \* the proposal, the authored resources and the review behind each id
  Earlier,      \* one revision of each profile that was published before
  Selected,     \* the profile every follower follows
  Shared,       \* followers that keep their state in the source's repository
  Allowed,      \* the group sets an operator may give
  MaxIndex,     \* entries the index of authorized blobs keeps
  MaxPublish,
  MaxTrouble    \* of a change, a fault and an overlap, how many may happen

ASSUME DistributionConstants ==
  /\ FollowerOf \in [Session -> Follower]
  /\ Input \in [Revision -> PublishProfileInput]
  /\ None \notin Revision
  /\ Selected \in ProfileName
  /\ Shared \subseteq Follower
  /\ Allowed \subseteq SUBSET Group
  /\ IsFiniteSet(Resource)
  /\ {MaxIndex, MaxPublish} \subseteq Nat \ {0} /\ MaxTrouble \in Nat

VARIABLES
  catalog,      \* the revisions published: profile -> sequence
  altered,      \* rows whose resources are not what their canonical bytes say
  views,        \* views that followers have stored in the source's repository
  members,      \* the source's record of each follower
  publishing,   \* the publications under way
  index,        \* the index of authorized blobs, oldest entry first
  syncing,      \* each session and the request it waits for
  cache,        \* verified blobs in each follower's cache
  held,         \* the view each follower applied last
  open,         \* the view of each follower's interrupted run
  troubles

source == <<catalog, altered, views, members, publishing, index>>
follower == <<syncing, cache, held, open>>
vars == <<source, follower, troubles>>

\* The id of a revision is the digest of its content.
Content == [i \in Revision |-> MachineProfileFor(Input[i])]
Ready == {i \in Revision : Publishable(Input[i])}
ASSUME EarlierIsReady ==
  /\ Earlier \subseteq Ready /\ IsFiniteSet(Earlier)
  /\ \A i, j \in Earlier : Content[i].name = Content[j].name => i = j
ASSUME ContentIsIdentity == \A i, j \in Ready : Content[i] = Content[j] => i = j

Published == DOMAIN catalog
Named == [i \in Revision |-> NamedGroups(Content[i])]
Row(i) == [revision |-> i, named |-> IF i \in altered THEN [r \in Resource |-> {}] ELSE Named[i]]
OfProfile(name) == {i \in Published : Content[i].name = name}
Idle == [at |-> "idle", recovering |-> FALSE, revision |-> None, groups |-> {}, shown |-> {},
         wanted |-> {}, now |-> {}, candidates |-> {}, cached |-> None, since |-> 0, changed |-> FALSE]
NotPublishing == [revision |-> None, sequence |-> 0]

\* Every disturbance is one of few: each kind happens once at most.
Trouble(kind) ==
  /\ kind \notin troubles /\ Cardinality(troubles) < MaxTrouble
  /\ troubles' = troubles \cup {kind}
OverlapIf(busy) == IF busy THEN Trouble("overlap") ELSE UNCHANGED troubles

----------------------------------------------------------------------------
(* Publishing *)

SequencesOf(name) == {catalog[i] : i \in OfProfile(name)}
Latest(S) == CHOOSE n \in S \cup {0} : \A m \in S : m <= n

\* Reviewed, resolved, valid and not published before: the revision takes the next
\* number; it is signed and stored later.
PublishProfile(w, i) ==
  /\ publishing[w] = NotPublishing
  /\ Cardinality(Published) < MaxPublish
  /\ i \in Ready \ Published
  /\ OverlapIf(\E v \in Publisher : publishing[v] # NotPublishing)
  /\ publishing' = [publishing EXCEPT ![w] =
       [revision |-> i, sequence |-> Latest(SequencesOf(Content[i].name)) + 1]]
  /\ UNCHANGED <<catalog, altered, views, members, index, follower>>

\* One transaction: an id or a sequence that is taken refuses the revision.
StorableById(i, n) == i \notin Published
Storable(i, n) == i \notin Published /\ n \notin SequencesOf(Content[i].name)
CommitRevision(w) ==
  LET i == publishing[w].revision
      n == publishing[w].sequence
  IN  /\ publishing[w] # NotPublishing
      /\ publishing' = [publishing EXCEPT ![w] = NotPublishing]
      /\ catalog' = IF Storable(i, n)
                    THEN [j \in Published \cup {i} |-> IF j = i THEN n ELSE catalog[j]]
                    ELSE catalog
      /\ UNCHANGED <<altered, views, members, index, follower, troubles>>

----------------------------------------------------------------------------
(* The source's record of its followers *)

Change(f) ==
  /\ Trouble("change")
  /\ syncing' = [s \in Session |->
       [syncing[s] EXCEPT !.changed = @ \/ (FollowerOf[s] = f /\ syncing[s].at # "idle")]]
  /\ UNCHANGED <<catalog, altered, views, publishing, index, cache, held, open>>

UpdateFollowerGroups(f, groups) ==
  /\ Change(f)
  /\ groups # members[f].groups
  /\ members' = [members EXCEPT ![f].groups = groups]

RevokeFollower(f) ==
  /\ Change(f)
  /\ ~members[f].revoked
  /\ members' = [members EXCEPT ![f].revoked = TRUE]

----------------------------------------------------------------------------
(* The server *)

\* A row is used only if its canonical bytes, its resources and its signature agree.
RevisionIsValid(row) == row.named = Named[row.revision]
Visible(row, groups) == VisibleResources(Content[row.revision], row.named, groups)

\* The rows that hold a blob, a follower's stored view among them.
CandidatesOf(b) ==
  {c \in [kind: {"revision"}, row: Published, resource: Resource] :
     c.resource \in HoldersOf(Content[c.row], b)}
  \cup [kind: {"view"}, row: {v \in views : b \in v.blobs}, resource: {None}]

\* A stored view is no machine profile: it never validates.
CandidateIsValid(c) == c.kind = "revision" /\ RevisionIsValid(Row(c.row))
CandidateIsKnown(c, groups) == c.kind = "revision"
CandidateIsVisible(c, groups) == c.resource \in Visible(Row(c.row), groups)

Scope(b, groups) == [blob |-> b, groups |-> groups]
Indexed(scope) == {k \in DOMAIN index : index[k].scope = scope}
LookupOutdated(scope, candidates) ==
  IF Indexed(scope) # {} THEN [entries |-> index[CHOOSE k \in Indexed(scope) : TRUE].entries] ELSE None
Lookup(scope, candidates) ==
  IF \E k \in Indexed(scope) : index[k].candidates = candidates
  THEN [entries |-> index[CHOOSE k \in Indexed(scope) : TRUE].entries]
  ELSE None

\* The newest entry is last; a scope has one, and the oldest gives way.
Without(scope) ==
  LET k == CHOOSE k \in Indexed(scope) : TRUE
  IN  IF Indexed(scope) = {} THEN index
      ELSE SubSeq(index, 1, k - 1) \o SubSeq(index, k + 1, Len(index))
CacheSet(scope, candidates, entries) ==
  LET all == Append(Without(scope), [scope |-> scope, candidates |-> candidates, entries |-> entries])
  IN  SubSeq(all, IF Len(all) > MaxIndex THEN 2 ELSE 1, Len(all))

----------------------------------------------------------------------------
(* The follower's synchronization *)

Step(s, next) ==
  /\ syncing' = [syncing EXCEPT ![s] = next]
  /\ UNCHANGED <<catalog, altered, members, publishing>>
\* The source refuses the credential: the synchronization fails.
Authenticated(s, next) == IF members[FollowerOf[s]].revoked THEN Idle ELSE next

OldestOfSelected == {i \in OfProfile(Selected) : catalog[i] = 1}
NewestOfSelected == {i \in OfProfile(Selected) : catalog[i] = Latest(SequencesOf(Selected))}
\* The newest revision of the selected profile, or that of the interrupted run.
SelectedRevisions(f, recovering) ==
  IF recovering THEN OfProfile(Selected) \cap {open[f].revision} ELSE NewestOfSelected

\* A synchronization, or a recovery, begins with the list of the revisions.
ListRevisions(s, recovering) ==
  LET f == FollowerOf[s]
  IN  /\ syncing[s].at \in {"idle", "refused"}
      /\ recovering => open[f] # None
      /\ OverlapIf(\E t \in Session \ {s} : FollowerOf[t] = f /\ syncing[t].at \notin {"idle", "refused"})
      /\ \E i \in SelectedRevisions(f, recovering) :
           Step(s, Authenticated(s, [Idle EXCEPT
             !.at = "selected", !.recovering = recovering, !.revision = i,
             !.since = Latest(SequencesOf(Selected))]))
      /\ UNCHANGED <<views, index, cache, held, open>>

\* The signed view of the revision: what this follower's groups allow.
GetAuthorizedRevision(s) ==
  LET i == syncing[s].revision
      groups == members[FollowerOf[s]].groups
      shown == Visible(Row(i), groups)
  IN  /\ syncing[s].at = "selected"
      /\ Step(s, IF RevisionIsValid(Row(i))
                 THEN Authenticated(s, [syncing[s] EXCEPT
                        !.at = "fetching", !.groups = groups, !.shown = shown,
                        !.wanted = BlobsOf(Content[i], shown), !.changed = FALSE])
                 ELSE Idle)
      /\ UNCHANGED <<views, index, cache, held, open, troubles>>

\* One blob after another; one that is in the cache is not fetched again.
NextBlob(s) == CHOOSE b \in syncing[s].wanted : TRUE
ReuseBlob(s) ==
  /\ syncing[s].at = "fetching"
  /\ syncing[s].wanted # {}
  /\ NextBlob(s) \in cache[FollowerOf[s]]
  /\ Step(s, [syncing[s] EXCEPT !.wanted = @ \ {NextBlob(s)}])
  /\ UNCHANGED <<views, index, cache, held, open, troubles>>

\* Each request is authenticated; the candidates are read, and the index of
\* earlier answers is looked up before the keys are loaded.
AskBlob(s) ==
  LET groups == members[FollowerOf[s]].groups
      candidates == CandidatesOf(NextBlob(s))
  IN  /\ syncing[s].at = "fetching"
      /\ syncing[s].wanted # {}
      /\ NextBlob(s) \notin cache[FollowerOf[s]]
      /\ Step(s, Authenticated(s, [syncing[s] EXCEPT
           !.at = "asking", !.now = groups, !.candidates = candidates,
           !.cached = Lookup(Scope(NextBlob(s), groups), candidates)]))
      /\ UNCHANGED <<views, index, cache, held, open, troubles>>

Answered(s) == [syncing[s] EXCEPT !.at = "fetching", !.now = {}, !.candidates = {}, !.cached = None]
Stored(s, b) ==
  /\ Step(s, [Answered(s) EXCEPT !.wanted = @ \ {b}])
  /\ cache' = [cache EXCEPT ![FollowerOf[s]] = @ \cup {b}]
Refused(s) ==
  /\ Step(s, [Answered(s) EXCEPT !.at = "refused"])
  /\ UNCHANGED cache

\* The candidates the follower may see, tried in the order of their ids; one that
\* does not validate fails the request.
MaySee(s, candidates) == {c \in candidates : CandidateIsVisible(c, syncing[s].now)}
Serve(s, entries) ==
  \/ \E c \in MaySee(s, entries) : CandidateIsValid(c) /\ Stored(s, NextBlob(s))
  \/ \E c \in entries : ~CandidateIsValid(c) /\ Refused(s)
  \/ MaySee(s, entries) = {} /\ Refused(s)

GetAuthorizedBlob(s) ==
  /\ syncing[s].at = "asking"
  /\ IF syncing[s].cached # None
     THEN Serve(s, syncing[s].cached.entries) /\ UNCHANGED index
     ELSE IF \E c \in syncing[s].candidates : ~CandidateIsValid(c)
     THEN Refused(s) /\ UNCHANGED index
     ELSE LET entries == MaySee(s, syncing[s].candidates)
          IN  /\ Serve(s, entries)
              /\ index' = CacheSet(Scope(NextBlob(s), syncing[s].now), syncing[s].candidates, entries)
  /\ UNCHANGED <<views, held, open, troubles>>

\* What the view is known by: the revision and what the signed metadata says of it.
ViewOf(i, groups, shown) ==
  [revision |-> i, shown |-> shown, named |-> [r \in shown |-> Named[i][r] \cap groups]]
ViewOfSession(s) == ViewOf(syncing[s].revision, syncing[s].groups, syncing[s].shown)

\* Everything is fetched; a synchronization stores the view it is about to apply.
StoreView(s) ==
  /\ syncing[s].at = "fetching"
  /\ syncing[s].wanted = {}
  /\ Step(s, [syncing[s] EXCEPT !.at = "fetched"])
  /\ views' = IF FollowerOf[s] \in Shared /\ ~syncing[s].recovering
              THEN views \cup {[view |-> ViewOfSession(s),
                                blobs |-> BlobsOf(Content[syncing[s].revision], syncing[s].shown)]}
              ELSE views
  /\ UNCHANGED <<index, cache, held, open, troubles>>

\* A run starts only when none is open; recovery applies only the view of the open run.
MayApply(s) ==
  IF syncing[s].recovering THEN open[FollowerOf[s]] = ViewOfSession(s)
  ELSE open[FollowerOf[s]] = None
Apply(s) ==
  LET f == FollowerOf[s]
  IN  /\ syncing[s].at = "fetched"
      /\ Step(s, Idle)
      /\ held' = [held EXCEPT ![f] = IF MayApply(s) THEN ViewOfSession(s) ELSE @]
      /\ open' = [open EXCEPT ![f] = IF MayApply(s) THEN None ELSE @]
      /\ UNCHANGED <<views, index, cache, troubles>>

\* The process ends in the middle of its run.
Interrupt(s) ==
  /\ syncing[s].at = "fetched"
  /\ MayApply(s)
  /\ Trouble("fault")
  /\ open' = [open EXCEPT ![FollowerOf[s]] = ViewOfSession(s)]
  /\ Step(s, Idle)
  /\ UNCHANGED <<views, index, cache, held>>

AbandonKeepingRun(f) == open[f] # None /\ UNCHANGED vars
\* An operator gives the interrupted run up.
AbandonFollowerRun(f) ==
  /\ open[f] # None
  /\ open' = [open EXCEPT ![f] = None]
  /\ UNCHANGED <<source, syncing, cache, held, troubles>>

\* A request times out, or its answer is lost: nothing is applied.
Lose(s) ==
  /\ syncing[s].at \in {"selected", "fetching", "asking"}
  /\ Trouble("fault")
  /\ Step(s, Idle)
  /\ UNCHANGED <<views, index, cache, held, open>>

\* A file of the cache no longer has its digest: it counts as absent.
SpoilBlob(f, b) ==
  /\ \A s \in Session : FollowerOf[s] = f => syncing[s].at \in {"idle", "refused"}
  /\ b \in cache[f]
  /\ Trouble("fault")
  /\ cache' = [cache EXCEPT ![f] = @ \ {b}]
  /\ UNCHANGED <<source, syncing, held, open>>

\* Something outside the program rewrites a row's resources.
SpoilRow(i) ==
  /\ i \in Published \ altered
  /\ Named[i] # [r \in Resource |-> {}]
  /\ Trouble("fault")
  /\ altered' = altered \cup {i}
  /\ UNCHANGED <<catalog, views, members, publishing, index, follower>>

----------------------------------------------------------------------------
Init ==
  /\ catalog = [i \in Earlier |-> 1]
  /\ altered = {} /\ views = {} /\ index = <<>>
  /\ members \in [Follower -> [groups: Allowed, revoked: {FALSE}]]
  /\ publishing = [w \in Publisher |-> NotPublishing]
  /\ syncing = [s \in Session |-> Idle]
  /\ cache = [f \in Follower |-> {}]
  /\ held = [f \in Follower |-> None]
  /\ open = [f \in Follower |-> None]
  /\ troubles = {}

Publishing(w) == (\E i \in Revision : PublishProfile(w, i)) \/ CommitRevision(w)
Fetching(s) ==
  \/ GetAuthorizedRevision(s)
  \/ ReuseBlob(s) \/ AskBlob(s) \/ GetAuthorizedBlob(s)
Synchronizing(s) == ListRevisions(s, FALSE) \/ Fetching(s) \/ StoreView(s) \/ Apply(s)
Operating(f) ==
  \/ RevokeFollower(f)
  \/ \E groups \in Allowed : UpdateFollowerGroups(f, groups)
Disturbance ==
  \/ \E s \in Session : Lose(s) \/ Interrupt(s)
  \/ \E f \in Follower, b \in Spec : SpoilBlob(f, b)
  \/ \E i \in Published : SpoilRow(i)

Next ==
  \/ \E w \in Publisher : Publishing(w)
  \/ \E s \in Session : Synchronizing(s) \/ ListRevisions(s, TRUE)
  \/ \E f \in Follower : Operating(f) \/ AbandonFollowerRun(f)
  \/ Disturbance

\* The schedule starts synchronizations again and again, one of them always goes
\* on, and an operator closes a run that stays interrupted.
Fairness ==
  \A f \in Follower :
    /\ WF_vars(\E s \in Session : FollowerOf[s] = f /\ Synchronizing(s))
    /\ WF_vars(AbandonFollowerRun(f))

Distributing == Init /\ [][Next]_vars /\ Fairness

----------------------------------------------------------------------------
(* Properties *)

\* The records of the source and of the followers keep their form: the index of
\* earlier answers stays within its bound with one entry for each scope.
TypeOK ==
  /\ catalog \in [Published -> 1..MaxPublish] /\ Published \subseteq Ready
  /\ altered \subseteq Published
  /\ members \in [Follower -> [groups: Allowed, revoked: BOOLEAN]]
  /\ Len(index) <= MaxIndex
  /\ \A k, l \in DOMAIN index : index[k].scope = index[l].scope => k = l
  /\ cache \in [Follower -> SUBSET Spec]
  /\ \A s \in Session : syncing[s].wanted \subseteq Spec

\* What a follower of these groups should be shown of a revision.
IntendedViews == [i \in Ready |-> [groups \in Allowed |-> MayBeShown(Content[i], groups)]]
Intended(i, groups) == IntendedViews[i][groups]

\* A follower is shown, and applies, exactly the resources that its groups allow
\* together with everything they depend on: authorization neither leaks a resource
\* nor leaves one out, also when a stored row was rewritten behind the program.
ViewsAreExact ==
  /\ \A s \in Session : syncing[s].at \in {"fetching", "asking", "fetched"} =>
       syncing[s].shown = Intended(syncing[s].revision, syncing[s].groups)
  /\ \A f \in Follower : held[f] # None => \E groups \in Allowed :
       held[f] = ViewOf(held[f].revision, groups, Intended(held[f].revision, groups))

\* A blob is served only if the groups that the follower has when it asks allow it
\* in some revision, whatever it was shown before and whatever earlier answers the
\* index holds.
ServedIsAuthorized ==
  [][\A s \in Session : syncing[s].at = "asking" /\ syncing'[s].at = "fetching" =>
       \E i \in Published : NextBlob(s) \in BlobsOf(Content[i], Intended(i, syncing[s].now))]_vars

\* The revisions of a profile are numbered 1, 2, 3, ... without a gap and without
\* two of one number, however publications overlap: "the latest" is one revision.
SequencesIdentify ==
  \A name \in ProfileName : SequencesOf(name) = 1..Cardinality(OfProfile(name))

\* Every blob of the view a follower was just shown is served to it: a request is
\* refused only when its groups changed in between or a stored row was rewritten.
ViewBlobsAreServed ==
  \A s \in Session : syncing[s].at = "refused" => syncing[s].changed \/ altered # {}

\* A synchronization applies no revision older than the newest one that was
\* published when it began.
AppliedIsFresh ==
  [][\A s \in Session :
       /\ syncing[s].at = "fetched" /\ syncing'[s].at = "idle"
       /\ held'[FollowerOf[s]] # held[FollowerOf[s]]
       /\ ~syncing[s].recovering
       => catalog[held'[FollowerOf[s]].revision] >= syncing[s].since]_vars

\* Once publications and changes cease, every follower that is still enrolled
\* holds the newest revision as its groups allow it, and keeps it.
EventuallyCurrent ==
  \A f \in Follower :
    <>[](\/ members[f].revoked \/ altered # {}
         \/ \A i \in NewestOfSelected :
              held[f] = ViewOf(i, members[f].groups, Intended(i, members[f].groups)))
=============================================================================
