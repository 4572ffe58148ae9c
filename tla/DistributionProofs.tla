--------------------------- MODULE DistributionProofs ---------------------------
(***************************************************************************)
(* Theorems about Distribution for every set of revisions, resources,      *)
(* groups, followers, sessions and operators, and any bounds: the numbers  *)
(* of the revisions, what a follower is shown and served, and what it      *)
(* applies.                                                                *)
(***************************************************************************)
EXTENDS Distribution, FiniteSetTheorems, NaturalsInduction, TLAPS

----------------------------------------------------------------------------
(* Authorization: what is left after the passes is what the intention says. *)

\* A set of naturals has a least member.
LEMMA Least ==
  ASSUME NEW T, T \subseteq Nat, T # {}
  PROVE  \E x \in T : \A y \in T : x <= y
<1>1. PICK x \in T : \A y \in T : ~(<<y, x>> \in OpToRel(<, Nat))
  BY NatLessThanWellFounded, WFMin, Zenon
<1>2. ASSUME NEW y \in T PROVE x <= y
  <2>1. <<y, x>> \in OpToRel(<, Nat) <=> y < x
    BY DEF OpToRel
  <2>2. ~(y < x)
    BY <1>1, <2>1, Zenon
  <2> QED BY <2>2
<1> QED BY <1>2

Last == Cardinality(Resource)
\* The sets of resources after each pass, up to the n-th.
ArePasses(f, n, authorized, deps) ==
  f = [k \in 0..n |-> IF k = 0 THEN authorized ELSE RemainingOnce(f[k - 1], deps)]

\* The number of passes is that of the resources.
LEMMA LastIs == Last \in Nat /\ IsFiniteSet(Resource)
  BY DistributionConstants, FS_CardinalityType DEF Last

\* The passes can be made: if some n could not be reached, the least such n could.
LEMMA PassesExist ==
  ASSUME NEW authorized, NEW deps
  PROVE  \E f : ArePasses(f, Last, authorized, deps)
<1> DEFINE T == {n \in Nat : ~\E f : ArePasses(f, n, authorized, deps)}
<1>1. CASE T = {}
  BY <1>1, LastIs
<1>2. CASE T # {}
  <2>1. PICK n \in T : \A y \in T : n <= y
    BY <1>2, Least
  <2>2. n # 0
    <3> DEFINE f == [k \in 0..0 |-> authorized]
    <3>1. ArePasses(f, 0, authorized, deps)
      BY DEF ArePasses
    <3> QED BY <3>1
  <2>3. n - 1 \in Nat /\ n - 1 \notin T
    BY <2>1, <2>2
  <2>4. PICK f : ArePasses(f, n - 1, authorized, deps)
    BY <2>3
  <2> DEFINE g == [k \in 0..n |-> IF k = n THEN RemainingOnce(f[n - 1], deps) ELSE f[k]]
  <2>5. ASSUME NEW k \in 0..n
        PROVE  g[k] = IF k = 0 THEN authorized ELSE RemainingOnce(g[k - 1], deps)
    <3>1. CASE k = n
      BY <2>2, <2>3, <3>1
    <3>2. CASE k # n /\ k # 0
      <4>1. k \in 0..(n - 1) /\ k - 1 \in 0..n /\ k - 1 # n
        BY <3>2
      <4>2. g[k] = f[k] /\ g[k - 1] = f[k - 1]
        BY <3>2, <4>1
      <4>3. f[k] = RemainingOnce(f[k - 1], deps)
        BY <2>4, <3>2, <4>1 DEF ArePasses
      <4> QED BY <3>2, <4>2, <4>3
    <3>3. CASE k # n /\ k = 0
      <4>1. g[k] = f[k] /\ k \in 0..(n - 1)
        BY <2>2, <3>3
      <4> QED BY <2>4, <3>3, <4>1 DEF ArePasses
    <3> QED BY <3>1, <3>2, <3>3
  <2>6. ArePasses(g, n, authorized, deps)
    BY <2>5 DEF ArePasses
  <2> QED BY <2>1, <2>6
<1> QED BY <1>1, <1>2

\* And what is left after the last one is the result.
LEMMA RemainingIsLast ==
  ASSUME NEW authorized, NEW deps
  PROVE  \E f : ArePasses(f, Last, authorized, deps) /\ Remaining(authorized, deps) = f[Last]
<1> DEFINE f == CHOOSE f : ArePasses(f, Last, authorized, deps)
<1>1. ArePasses(f, Last, authorized, deps)
  BY PassesExist
<1>2. Remaining(authorized, deps) = f[Last]
  BY DEF Remaining, ArePasses, RemainingOnce, Last
<1> QED BY <1>1, <1>2

\* A pass keeps exactly those whose needs are all there.
LEMMA PassIs ==
  ASSUME NEW authorized, NEW deps, NEW f, ArePasses(f, Last, authorized, deps)
  PROVE  /\ f[0] = authorized
         /\ \A k \in 0..Last : k # 0 => f[k] = {r \in f[k - 1] : deps[r] \subseteq f[k - 1]}
<1>1. Last \in Nat /\ 0 \in 0..Last
  BY LastIs
<1>2. \A k \in 0..Last : f[k] = IF k = 0 THEN authorized ELSE RemainingOnce(f[k - 1], deps)
  BY DEF ArePasses
<1> QED BY <1>1, <1>2 DEF RemainingOnce

\* The n-th pass has found everything, or has left at least n resources out.
LEMMA PassShrinks ==
  ASSUME NEW authorized, authorized \subseteq Resource, NEW deps, NEW f,
         ArePasses(f, Last, authorized, deps)
  PROVE  \A n \in 0..Last : /\ f[n] \subseteq authorized
                            /\ Closed(f[n], deps) \/ Cardinality(f[n]) <= Last - n
<1> DEFINE Good(n) == /\ f[n] \subseteq authorized
                      /\ Closed(f[n], deps) \/ Cardinality(f[n]) <= Last - n
           T == {n \in 0..Last : ~Good(n)}
<1>1. Last \in Nat /\ IsFiniteSet(Resource)
  BY LastIs
<1>2. Good(0)
  <2>1. f[0] = authorized
    BY PassIs
  <2>2. Cardinality(authorized) <= Last
    BY <1>1, FS_Subset DEF Last
  <2> QED BY <1>1, <2>1, <2>2
<1>3. ASSUME NEW n \in 1..Last, Good(n - 1)
      PROVE  Good(n)
  <2>1. n \in 0..Last /\ n - 1 \in 0..Last /\ n # 0
    BY <1>1
  <2>2. f[n] = {r \in f[n - 1] : deps[r] \subseteq f[n - 1]}
    BY <2>1, PassIs
  <2>3. f[n - 1] \subseteq Resource /\ f[n] \subseteq f[n - 1]
    BY <1>3, <2>2
  <2>4. IsFiniteSet(f[n - 1])
    BY <1>1, <2>3, FS_Subset
  <2>5. CASE f[n] = f[n - 1]
    <3>1. Closed(f[n], deps)
      BY <2>2, <2>5 DEF Closed
    <3> QED BY <1>3, <2>5, <3>1
  <2>6. CASE f[n] # f[n - 1]
    <3>1. Cardinality(f[n]) < Cardinality(f[n - 1]) /\ Cardinality(f[n]) \in Nat /\ Cardinality(f[n - 1]) \in Nat
      BY <2>3, <2>4, <2>6, FS_Subset, FS_CardinalityType
    <3>2. ~Closed(f[n - 1], deps)
      BY <2>2, <2>6 DEF Closed
    <3>3. Cardinality(f[n - 1]) <= Last - (n - 1)
      BY <1>3, <3>2
    <3>4. Cardinality(f[n]) <= Last - n
      BY <1>1, <3>1, <3>3
    <3> QED BY <1>3, <2>3, <3>4
  <2> QED BY <2>5, <2>6
<1>4. T = {}
  <2> SUFFICES ASSUME T # {} PROVE FALSE
    OBVIOUS
  <2> HIDE DEF Good
  <2>1. T \subseteq Nat
    BY <1>1
  <2>2. PICK n \in T : \A y \in T : n <= y
    BY <2>1, Least
  <2>3. n # 0 /\ n \in 1..Last
    BY <1>1, <1>2, <2>2
  <2>4. n - 1 \in 0..Last /\ n - 1 \notin T
    BY <1>1, <2>2, <2>3
  <2> QED BY <1>3, <2>2, <2>3, <2>4
<1> QED BY <1>4

\* Everything closed that was authorized is left by every pass.
LEMMA PassKeeps ==
  ASSUME NEW authorized, NEW deps, NEW f, ArePasses(f, Last, authorized, deps),
         NEW S, S \subseteq authorized, Closed(S, deps)
  PROVE  \A n \in 0..Last : S \subseteq f[n]
<1> DEFINE T == {n \in 0..Last : ~(S \subseteq f[n])}
<1> SUFFICES ASSUME T # {} PROVE FALSE
  OBVIOUS
<1>1. T \subseteq Nat
  BY LastIs
<1>2. PICK n \in T : \A y \in T : n <= y
  BY <1>1, Least
<1>3. n # 0
  BY <1>2, PassIs
<1>4. n - 1 \in 0..Last /\ n - 1 \notin T
  BY LastIs, <1>2, <1>3
<1>5. S \subseteq f[n - 1]
  BY <1>4
<1>6. f[n] = {r \in f[n - 1] : deps[r] \subseteq f[n - 1]}
  BY <1>2, <1>3, PassIs
<1> QED BY <1>2, <1>5, <1>6 DEF Closed

\* So what is left is the largest closed set of what was authorized.
LEMMA RemainingIs ==
  ASSUME NEW authorized, authorized \subseteq Resource, NEW deps
  PROVE  LET R == Remaining(authorized, deps)
         IN  /\ R \subseteq authorized /\ Closed(R, deps)
             /\ \A S : S \subseteq authorized /\ Closed(S, deps) => S \subseteq R
<1>1. PICK f : ArePasses(f, Last, authorized, deps) /\ Remaining(authorized, deps) = f[Last]
  BY RemainingIsLast
<1>2. Last \in 0..Last /\ Last - Last = 0 /\ IsFiniteSet(Resource)
  BY LastIs
<1>3. f[Last] \subseteq authorized /\ (Closed(f[Last], deps) \/ Cardinality(f[Last]) <= 0)
  BY <1>1, <1>2, PassShrinks
<1>4. Closed(f[Last], deps)
  <2>1. CASE Cardinality(f[Last]) <= 0
    <3>1. IsFiniteSet(f[Last])
      BY <1>2, <1>3, FS_Subset
    <3>2. Cardinality(f[Last]) = 0
      BY <2>1, <3>1, FS_CardinalityType
    <3>3. f[Last] = {}
      BY <3>1, <3>2, FS_EmptySet
    <3> QED BY <3>3 DEF Closed
  <2> QED BY <1>3, <2>1
<1>5. \A S : S \subseteq authorized /\ Closed(S, deps) => S \subseteq f[Last]
  BY <1>1, <1>2, PassKeeps
<1> QED BY <1>1, <1>3, <1>4, <1>5

\* A row that says what its canonical bytes say is shown as intended.
LEMMA VisibleIsIntended ==
  ASSUME NEW p, NEW groups
  PROVE  VisibleResources(p, NamedGroups(p), groups) = MayBeShown(p, groups)
<1> DEFINE A == {r \in Resources(p) : ResourceIsAuthorized(groups, NamedGroups(p)[r])}
           deps == DependsOn(p)
           R == Remaining(A, deps)
<1>1. Resources(p) \subseteq Resource
  BY DEF Resources
<1>2. \A r \in Resources(p) : NamedGroups(p)[r] = p.resource[r].groups
  BY DEF Resources, NamedGroups
<1>3. A \subseteq Resource
  BY <1>1
<1> HIDE DEF A, deps, R
<1>4. /\ R \subseteq A /\ Closed(R, deps)
      /\ \A S : S \subseteq A /\ Closed(S, deps) => S \subseteq R
  BY <1>3, RemainingIs DEF R
<1>5. \A r : r \in A <=> r \in Resources(p) /\ ResourceIsAuthorized(groups, p.resource[r].groups)
  BY <1>2 DEF A
<1>6. ASSUME NEW r \in R
      PROVE  r \in MayBeShown(p, groups)
  <2>1. R \in SUBSET Resources(p) /\ r \in R /\ Closed(R, DependsOn(p))
        /\ \A s \in R : ResourceIsAuthorized(groups, p.resource[s].groups)
    BY <1>4, <1>5, <1>6 DEF deps
  <2> QED BY <2>1 DEF MayBeShown
<1>7. ASSUME NEW r \in MayBeShown(p, groups)
      PROVE  r \in R
  <2>1. PICK S \in SUBSET Resources(p) :
          /\ r \in S /\ Closed(S, DependsOn(p))
          /\ \A s \in S : ResourceIsAuthorized(groups, p.resource[s].groups)
    BY <1>7 DEF MayBeShown
  <2> QED BY <1>4, <1>5, <2>1 DEF deps
<1>8. VisibleResources(p, NamedGroups(p), groups) = R
  BY DEF VisibleResources, R, A, deps
<1> QED BY <1>6, <1>7, <1>8

----------------------------------------------------------------------------
(* Types. *)

ViewSet == {ViewOf(i, groups, shown) : i \in Ready, groups \in Allowed, shown \in SUBSET Resource}
ViewRow == [view: ViewSet, blobs: SUBSET Spec]
Candidate ==
  [kind: {"revision"}, row: Ready, resource: Resource]
  \cup [kind: {"view"}, row: ViewRow, resource: {None}]
Answer == [scope: [blob: Spec, groups: Allowed], candidates: SUBSET Candidate, entries: SUBSET Candidate]
Places == {"idle", "selected", "fetching", "asking", "fetched", "refused"}
Request ==
  [at: Places, recovering: BOOLEAN, revision: Ready \cup {None}, groups: Allowed \cup {{}},
   shown: SUBSET Resource, wanted: SUBSET Spec, now: Allowed \cup {{}}, candidates: SUBSET Candidate,
   cached: {None} \cup [entries: SUBSET Candidate], since: Nat, changed: BOOLEAN]

\* The index: within its bound, one entry for each scope.
Scoped(seq) ==
  /\ Len(seq) <= MaxIndex
  /\ \A k, l \in DOMAIN seq : seq[k].scope = seq[l].scope => k = l

TypeInv ==
  /\ catalog = [i \in Published |-> catalog[i]] /\ Published \subseteq Ready
  /\ \A i \in Published : catalog[i] \in Nat
  /\ altered \subseteq Published /\ views \subseteq ViewRow
  /\ members \in [Follower -> [groups: Allowed, revoked: BOOLEAN]]
  /\ publishing \in [Publisher -> [revision: Ready \cup {None}, sequence: Nat]]
  /\ index \in Seq(Answer) /\ Scoped(index)
  /\ syncing \in [Session -> Request]
  /\ cache \in [Follower -> SUBSET Spec]
  /\ held \in [Follower -> ViewSet \cup {None}] /\ open \in [Follower -> ViewSet \cup {None}]

\* A session that waits for nothing.
LEMMA IdleIs ==
  /\ Idle \in Request /\ Idle.at = "idle" /\ ~Idle.recovering /\ Idle.revision = None
  /\ Idle.groups = {} /\ Idle.shown = {} /\ Idle.wanted = {} /\ Idle.now = {}
  /\ Idle.candidates = {} /\ Idle.cached = None /\ Idle.since = 0 /\ ~Idle.changed
  BY DEF Idle, Request, Places

\* What a revision's profile holds.
LEMMA ContentIs ==
  ASSUME NEW i \in Revision
  PROVE  /\ Content[i] = MachineProfileFor(Input[i]) /\ Content[i].name \in ProfileName
         /\ Resources(Content[i]) \subseteq Resource
         /\ \A r \in Resources(Content[i]) : Content[i].resource[r].spec \in Spec
<1> DEFINE p == MachineProfileFor(Input[i])
<1>1. Content[i] = p /\ Input[i] \in PublishProfileInput
  BY DistributionConstants DEF Content
<1>2. p.name \in ProfileName
  BY <1>1 DEF MachineProfileFor, PublishProfileInput
<1>3. ASSUME NEW r \in Resources(p)
      PROVE  r \in Resource /\ p.resource[r].spec \in Spec
  <2>1. r \in Resource /\ p.resource[r] # None
    BY <1>3 DEF Resources
  <2>2. Input[i].authored[r] \in Authored \cup {None} /\ Input[i].discovered[r] \in Discovered \cup {None}
    BY <1>1, <2>1 DEF PublishProfileInput
  <2>3. p.resource[r] = IF Input[i].authored[r] # None THEN Input[i].authored[r]
                        ELSE IF Input[i].discovered[r] # None /\ Input[i].discovered[r].status = "accepted"
                        THEN ResourceFor(Input[i].discovered[r])
                        ELSE None
    BY <2>1 DEF MachineProfileFor
  <2>4. CASE p.resource[r] = Input[i].authored[r]
    BY <2>1, <2>2, <2>4 DEF Authored
  <2>5. CASE p.resource[r] = ResourceFor(Input[i].discovered[r]) /\ Input[i].discovered[r] # None
    BY <2>1, <2>2, <2>5 DEF Discovered, ResourceFor
  <2> QED BY <2>1, <2>3, <2>4, <2>5
<1> QED BY <1>1, <1>2, <1>3

\* The blobs of what is shown are blobs.
LEMMA BlobsAre ==
  ASSUME NEW i \in Revision, NEW shown, shown \subseteq Resources(Content[i])
  PROVE  BlobsOf(Content[i], shown) \subseteq Spec
  BY ContentIs DEF BlobsOf

\* Whatever is shown is of the revision.
LEMMA VisibleIs ==
  ASSUME NEW row, row.revision \in Revision, NEW groups
  PROVE  Visible(row, groups) \subseteq Resources(Content[row.revision])
<1> DEFINE p == Content[row.revision]
           A == {r \in Resources(p) : ResourceIsAuthorized(groups, row.named[r])}
<1>1. A \subseteq Resource /\ A \subseteq Resources(p)
  BY ContentIs
<1>2. Remaining(A, DependsOn(p)) \subseteq A
  BY <1>1, RemainingIs
<1> QED BY <1>1, <1>2 DEF Visible, VisibleResources

\* What a valid row shows is what the groups may be shown.
LEMMA ValidIsIntended ==
  ASSUME NEW i \in Ready, RevisionIsValid(Row(i)), NEW groups \in Allowed
  PROVE  Visible(Row(i), groups) = Intended(i, groups)
<1>1. Row(i).revision = i /\ Row(i).named = Named[i] /\ i \in Revision
  BY DEF RevisionIsValid, Row, Ready
<1>2. Named[i] = NamedGroups(Content[i])
  BY <1>1 DEF Named
<1>3. Visible(Row(i), groups) = MayBeShown(Content[i], groups)
  BY <1>1, <1>2, VisibleIsIntended DEF Visible
<1> QED BY <1>3 DEF Intended, IntendedViews

\* The candidates of a blob.
LEMMA CandidatesAre ==
  ASSUME TypeInv, NEW b \in Spec
  PROVE  /\ CandidatesOf(b) \subseteq Candidate
         /\ \A c \in CandidatesOf(b) : c.kind = "revision" =>
              c.row \in Published /\ c.resource \in HoldersOf(Content[c.row], b)
         /\ \A i \in Published : \A r \in HoldersOf(Content[i], b) :
              \E c \in CandidatesOf(b) : c.kind = "revision" /\ c.row = i /\ c.resource = r
<1>1. Published \subseteq Ready /\ Ready \subseteq Revision /\ views \subseteq ViewRow
  BY DEF TypeInv, Ready
<1>2. \A i \in Published : HoldersOf(Content[i], b) \subseteq Resource
  BY <1>1, ContentIs DEF HoldersOf
<1>3. ASSUME NEW c \in CandidatesOf(b)
      PROVE  /\ c \in Candidate
             /\ c.kind = "revision" => c.row \in Published /\ c.resource \in HoldersOf(Content[c.row], b)
  <2>1. CASE c \in {x \in [kind: {"revision"}, row: Published, resource: Resource] :
                     x.resource \in HoldersOf(Content[x.row], b)}
    BY <1>1, <2>1 DEF Candidate
  <2>2. CASE c \in [kind: {"view"}, row: {v \in views : b \in v.blobs}, resource: {None}]
    BY <1>1, <2>2 DEF Candidate
  <2> QED BY <1>3, <2>1, <2>2 DEF CandidatesOf
<1>4. ASSUME NEW i \in Published, NEW r \in HoldersOf(Content[i], b)
      PROVE  \E c \in CandidatesOf(b) : c.kind = "revision" /\ c.row = i /\ c.resource = r
  <2> DEFINE c == [kind |-> "revision", row |-> i, resource |-> r]
  <2>1. c \in CandidatesOf(b)
    BY <1>2 DEF CandidatesOf
  <2> QED BY <2>1
<1> QED BY <1>3, <1>4

\* An earlier answer.
LEMMA LookupIs ==
  ASSUME TypeInv, NEW scope, NEW candidates
  PROVE  \/ Lookup(scope, candidates) = None
         \/ \E k \in DOMAIN index :
              /\ index[k].scope = scope /\ index[k].candidates = candidates
              /\ index[k] \in Answer /\ Lookup(scope, candidates) = [entries |-> index[k].entries]
<1> SUFFICES ASSUME NEW l \in Indexed(scope), index[l].candidates = candidates
             PROVE  \E k \in DOMAIN index :
              /\ index[k].scope = scope /\ index[k].candidates = candidates
              /\ index[k] \in Answer /\ Lookup(scope, candidates) = [entries |-> index[k].entries]
  BY DEF Lookup
<1> DEFINE k == CHOOSE k \in Indexed(scope) : TRUE
<1>1. k \in Indexed(scope)
  OBVIOUS
<1>2. k \in DOMAIN index /\ l \in DOMAIN index /\ index[k].scope = scope /\ index[l].scope = scope
  BY <1>1 DEF Indexed
<1>3. k = l
  BY <1>2 DEF TypeInv, Scoped
<1>4. Lookup(scope, candidates) = [entries |-> index[k].entries]
  BY DEF Lookup
<1> HIDE DEF k
<1>5. index[k] \in Answer
  BY <1>2 DEF TypeInv
<1> QED BY <1>2, <1>3, <1>4, <1>5

\* The index without a scope.
LEMMA WithoutIs ==
  ASSUME TypeInv, NEW scope
  PROVE  LET w == Without(scope)
         IN  /\ w \in Seq(Answer) /\ Len(w) <= MaxIndex
             /\ \A k \in DOMAIN w : w[k].scope # scope /\ \E j \in DOMAIN index : w[k] = index[j]
             /\ \A k, l \in DOMAIN w : w[k].scope = w[l].scope => k = l
             /\ Indexed(scope) # {} => Len(w) < MaxIndex
<1>1. index \in Seq(Answer) /\ Scoped(index) /\ Len(index) \in Nat /\ MaxIndex \in Nat
  BY DistributionConstants DEF TypeInv
<1>2. CASE Indexed(scope) = {}
  BY <1>1, <1>2 DEF Without, Indexed, Scoped
<1>3. CASE Indexed(scope) # {}
  <2> DEFINE k == CHOOSE k \in Indexed(scope) : TRUE
             w == SubSeq(index, 1, k - 1) \o SubSeq(index, k + 1, Len(index))
  <2>1. k \in Indexed(scope) /\ Without(scope) = w
    BY <1>3 DEF Without
  <2>2. k \in 1..Len(index) /\ index[k].scope = scope /\ \A j \in DOMAIN index : j # k => index[j].scope # scope
    BY <1>1, <2>1 DEF Indexed, Scoped
  <2> HIDE DEF k
  <2>3. /\ w \in Seq(Answer) /\ Len(w) = Len(index) - 1
        /\ \A j \in 1..(k - 1) : w[j] = index[j]
        /\ \A j \in k..(Len(index) - 1) : w[j] = index[j + 1]
    <3> DEFINE u == SubSeq(index, 1, k - 1)
               v == SubSeq(index, k + 1, Len(index))
    <3>1. u \in Seq(Answer) /\ Len(u) = k - 1 /\ \A j \in 1..(k - 1) : u[j] = index[j]
      BY <1>1, <2>2
    <3>2. v \in Seq(Answer) /\ Len(v) = Len(index) - k /\ \A j \in 1..(Len(index) - k) : v[j] = index[k + j]
      BY <1>1, <2>2
    <3> HIDE DEF u, v
    <3>3. u \o v \in Seq(Answer) /\ Len(u \o v) = Len(u) + Len(v)
          /\ \A j \in 1..(Len(u) + Len(v)) : (u \o v)[j] = IF j <= Len(u) THEN u[j] ELSE v[j - Len(u)]
      BY <3>1, <3>2
    <3>4. \A j \in k..(Len(index) - 1) : v[j - (k - 1)] = index[j + 1]
      BY <1>1, <2>2, <3>2
    <3>5. w = u \o v
      BY DEF u, v
    <3> HIDE DEF w
    <3>6. w \in Seq(Answer) /\ Len(w) = Len(index) - 1
      <4>1. Len(u) + Len(v) = Len(index) - 1
        BY <1>1, <2>2, <3>1, <3>2
      <4> QED BY <3>3, <3>5, <4>1
    <3>7. ASSUME NEW j \in 1..(k - 1)
          PROVE  w[j] = index[j]
      BY <1>1, <2>2, <3>1, <3>2, <3>3, <3>5
    <3>8. ASSUME NEW j \in k..(Len(index) - 1)
          PROVE  w[j] = index[j + 1]
      <4>1. j \in 1..(Len(u) + Len(v)) /\ ~(j <= Len(u)) /\ j - Len(u) = j - (k - 1)
        BY <1>1, <2>2, <3>1, <3>2
      <4> QED BY <3>3, <3>4, <3>5, <4>1
    <3> QED BY <3>6, <3>7, <3>8
  <2> DEFINE of(j) == IF j < k THEN j ELSE j + 1
  <2> HIDE DEF w
  <2>4. \A j \in DOMAIN w : of(j) \in DOMAIN index /\ of(j) # k /\ w[j] = index[of(j)]
    BY <1>1, <2>2, <2>3
  <2>5. \A j, l \in DOMAIN w : of(j) = of(l) => j = l
    BY <2>2, <2>3
  <2> HIDE DEF of
  <2>6. \A j, l \in DOMAIN w : w[j].scope = w[l].scope => j = l
    BY <1>1, <2>4, <2>5 DEF Scoped
  <2>7. \A j \in DOMAIN w : w[j].scope # scope
    BY <2>2, <2>4
  <2> QED BY <1>1, <2>1, <2>3, <2>4, <2>6, <2>7 DEF Scoped
<1> QED BY <1>2, <1>3

\* And with a new entry for it.
LEMMA CacheSetIs ==
  ASSUME TypeInv, NEW scope \in [blob: Spec, groups: Allowed],
         NEW candidates \in SUBSET Candidate, NEW entries \in SUBSET Candidate
  PROVE  LET x == CacheSet(scope, candidates, entries)
             e == [scope |-> scope, candidates |-> candidates, entries |-> entries]
         IN  /\ x \in Seq(Answer) /\ Scoped(x)
             /\ \A k \in DOMAIN x : x[k] = e \/ \E j \in DOMAIN index : x[k] = index[j]
<1> DEFINE w == Without(scope)
           e == [scope |-> scope, candidates |-> candidates, entries |-> entries]
           all == Append(w, e)
           from == IF Len(all) > MaxIndex THEN 2 ELSE 1
           x == SubSeq(all, from, Len(all))
<1>1. /\ w \in Seq(Answer) /\ Len(w) <= MaxIndex
      /\ \A k \in DOMAIN w : w[k].scope # scope /\ \E j \in DOMAIN index : w[k] = index[j]
      /\ \A k, l \in DOMAIN w : w[k].scope = w[l].scope => k = l
  BY WithoutIs
<1>2. e \in Answer /\ e.scope = scope
  BY DEF Answer
<1>3. CacheSet(scope, candidates, entries) = x
  BY DEF CacheSet
<1>4. MaxIndex \in Nat \ {0} /\ Len(w) \in Nat
  BY <1>1, DistributionConstants
<1> HIDE DEF w, e
<1>5. /\ all \in Seq(Answer) /\ Len(all) = Len(w) + 1 /\ all[Len(w) + 1] = e
      /\ \A k \in 1..Len(w) : all[k] = w[k]
  BY <1>1, <1>2
<1>6. \A k, l \in DOMAIN all : all[k].scope = all[l].scope => k = l
  <2>1. DOMAIN all = 1..(Len(w) + 1) /\ DOMAIN w = 1..Len(w)
    BY <1>1, <1>5
  <2> HIDE DEF all
  <2> QED BY <1>1, <1>2, <1>4, <1>5, <2>1
<1> HIDE DEF all
<1>7. /\ x \in Seq(Answer) /\ Len(x) = Len(all) - from + 1 /\ from \in {1, 2}
      /\ \A k \in 1..Len(x) : k + from - 1 \in 1..Len(all) /\ x[k] = all[k + from - 1]
  <2>1. from \in {1, 2} /\ Len(all) \in Nat /\ from <= Len(all)
    BY <1>4, <1>5
  <2> HIDE DEF from
  <2> QED BY <1>4, <1>5, <2>1
<1>8. Len(x) <= MaxIndex
  BY <1>1, <1>4, <1>5, <1>7
<1> HIDE DEF x, from
<1>9. DOMAIN all = 1..Len(all) /\ DOMAIN x = 1..Len(x) /\ DOMAIN w = 1..Len(w)
  BY <1>1, <1>5, <1>7
<1>10. \A k, l \in DOMAIN x : x[k].scope = x[l].scope => k = l
  <2> SUFFICES ASSUME NEW k \in DOMAIN x, NEW l \in DOMAIN x, x[k].scope = x[l].scope
               PROVE  k = l
    OBVIOUS
  <2> DEFINE K == k + from - 1
             L == l + from - 1
  <2>1. K \in DOMAIN all /\ L \in DOMAIN all /\ x[k] = all[K] /\ x[l] = all[L]
    BY <1>7, <1>9
  <2>2. K = L
    <3> HIDE DEF K, L
    <3> QED BY <1>6, <2>1
  <2> QED BY <1>7, <1>9, <2>2
<1>11. \A k \in DOMAIN all : all[k] = e \/ \E j \in DOMAIN index : all[k] = index[j]
  BY <1>1, <1>4, <1>5, <1>9
<1>12. ASSUME NEW k \in DOMAIN x
       PROVE  x[k] = e \/ \E j \in DOMAIN index : x[k] = index[j]
  <2>1. k + from - 1 \in DOMAIN all /\ x[k] = all[k + from - 1]
    BY <1>7, <1>9
  <2> QED BY <1>11, <2>1
<1> QED BY <1>3, <1>7, <1>8, <1>10, <1>12 DEF Scoped, e

----------------------------------------------------------------------------
(* The inductive invariant. *)

\* The number that a publication under way has taken is the next one, or one that
\* another publication has used up since.
IsNumbered(p) ==
  /\ p.revision \in Ready
  /\ p.sequence \in 1..(Cardinality(OfProfile(Content[p.revision].name)) + 1)
NumberInv ==
  /\ \A name \in ProfileName : IsFiniteSet(OfProfile(name))
                               /\ SequencesOf(name) = 1..Cardinality(OfProfile(name))
  /\ \A w \in Publisher : publishing[w] # NotPublishing => IsNumbered(publishing[w])

\* A candidate that is a revision is a published one and holds the blob.
Known(c, b, cat) ==
  c.kind = "revision" => c.row \in DOMAIN cat /\ c.resource \in HoldersOf(Content[c.row], b)

First(blobs) == CHOOSE b \in blobs : TRUE
\* A session's revision is published and not older than what it was begun with, its
\* view is the one that its groups intend, and what it waits for belongs to it.
SessionOk(q, cat) ==
  /\ q.at \notin {"idle", "refused"} =>
       q.revision \in DOMAIN cat /\ (~q.recovering => cat[q.revision] >= q.since)
  /\ q.at \in {"fetching", "asking", "fetched"} =>
       /\ q.groups \in Allowed /\ q.shown = Intended(q.revision, q.groups)
       /\ q.shown \subseteq Resources(Content[q.revision])
  /\ q.at \in {"fetching", "asking"} => q.wanted \subseteq BlobsOf(Content[q.revision], q.shown)
  /\ q.at = "asking" =>
       /\ q.now \in Allowed /\ q.wanted # {}
       /\ \A c \in q.candidates : Known(c, First(q.wanted), cat)
       /\ q.cached # None => \A c \in q.cached.entries : Known(c, First(q.wanted), cat)
SessionsOk == \A s \in Session : SessionOk(syncing[s], catalog)

\* An earlier answer names revisions that hold the blob it was given for.
IndexOk == \A k \in DOMAIN index : \A c \in index[k].entries : Known(c, index[k].scope.blob, catalog)

\* What a follower applied is the view that some groups intend.
ViewIsExact(v) ==
  \E groups \in Allowed : v = ViewOf(v.revision, groups, Intended(v.revision, groups))
HeldOk == \A f \in Follower : held[f] # None => ViewIsExact(held[f])

Inv == TypeInv /\ NumberInv /\ SessionsOk /\ IndexOk /\ HeldOk

\* A revision once published stays, under its number.
Extends(more, cat) == DOMAIN cat \subseteq DOMAIN more /\ \A i \in DOMAIN cat : more[i] = cat[i]

\* What a session relies on survives a publication.
LEMMA SessionStays ==
  ASSUME NEW q, NEW cat, NEW more, SessionOk(q, cat), Extends(more, cat)
  PROVE  SessionOk(q, more)
<1>1. \A c, b : Known(c, b, cat) => Known(c, b, more)
  BY DEF Known, Extends
<1>2. q.revision \in DOMAIN cat => q.revision \in DOMAIN more /\ more[q.revision] = cat[q.revision]
  BY DEF Extends
<1> QED BY <1>1, <1>2, Zenon DEF SessionOk

\* A session that is idle relies on nothing.
LEMMA IdleIsOk ==
  ASSUME NEW cat
  PROVE  SessionOk(Idle, cat)
  BY IdleIs DEF SessionOk

\* A step of a session changes its request alone.
LEMMA StepIs ==
  ASSUME TypeInv, NEW s \in Session, NEW next \in Request, Step(s, next)
  PROVE  /\ catalog' = catalog /\ altered' = altered /\ members' = members /\ publishing' = publishing
         /\ syncing' \in [Session -> Request] /\ syncing'[s] = next
         /\ \A t \in Session : t # s => syncing'[t] = syncing[t]
  BY DEF Step, TypeInv

\* The numbers stay as they are when nothing is published.
LEMMA NumbersStay ==
  ASSUME NumberInv, catalog' = catalog, publishing' = publishing
  PROVE  NumberInv'
  BY DEF NumberInv, IsNumbered, OfProfile, SequencesOf, Published

\* So such a step keeps the invariant if its new request and what it stores do.
LEMMA SessionKeeps ==
  ASSUME Inv, NEW s \in Session, NEW next \in Request, Step(s, next), SessionOk(next, catalog),
         views' \subseteq ViewRow, index' \in Seq(Answer), Scoped(index'), IndexOk',
         cache' \in [Follower -> SUBSET Spec], held' \in [Follower -> ViewSet \cup {None}],
         open' \in [Follower -> ViewSet \cup {None}], HeldOk'
  PROVE  Inv'
<1>1. /\ catalog' = catalog /\ altered' = altered /\ members' = members /\ publishing' = publishing
      /\ syncing' \in [Session -> Request] /\ syncing'[s] = next
      /\ \A t \in Session : t # s => syncing'[t] = syncing[t]
  BY StepIs DEF Inv
<1>2. TypeInv'
  BY <1>1 DEF Inv, TypeInv, Published
<1>3. NumberInv'
  BY <1>1, NumbersStay DEF Inv
<1>4. SessionsOk'
  <2>1. ASSUME NEW t \in Session PROVE SessionOk(syncing'[t], catalog')
    BY <1>1 DEF Inv, SessionsOk
  <2> QED BY <2>1 DEF SessionsOk
<1> QED BY <1>2, <1>3, <1>4 DEF Inv

\* The same for a step that stores nothing else.
LEMMA QuietKeeps ==
  ASSUME Inv, NEW s \in Session, NEW next \in Request, Step(s, next), SessionOk(next, catalog),
         views' = views, index' = index, cache' = cache, held' = held, open' = open
  PROVE  Inv'
<1>1. /\ views' \subseteq ViewRow /\ index' \in Seq(Answer) /\ Scoped(index')
      /\ cache' \in [Follower -> SUBSET Spec] /\ held' \in [Follower -> ViewSet \cup {None}]
      /\ open' \in [Follower -> ViewSet \cup {None}]
  BY DEF Inv, TypeInv
<1>2. catalog' = catalog
  BY DEF Step
<1>3. IndexOk'
  BY <1>2 DEF Inv, IndexOk
<1>4. HeldOk'
  BY DEF Inv, HeldOk
<1> QED BY <1>1, <1>3, <1>4, SessionKeeps

\* A refused credential leaves the session idle.
LEMMA AuthenticatedIs ==
  ASSUME NEW s, NEW next \in Request, NEW cat, SessionOk(next, cat)
  PROVE  Authenticated(s, next) \in Request /\ SessionOk(Authenticated(s, next), cat)
  BY IdleIs, IdleIsOk DEF Authenticated

----------------------------------------------------------------------------
(* Each step of a session. *)

\* The newest number of 1..k is k.
LEMMA LatestIs ==
  ASSUME NEW k \in Nat
  PROVE  Latest(1..k) = k
<1>1. k \in (1..k) \cup {0} /\ \A m \in 1..k : m <= k
  OBVIOUS
<1>2. ASSUME NEW n \in (1..k) \cup {0}, \A m \in 1..k : m <= n
      PROVE  n = k
  BY <1>2
<1> QED BY <1>1, <1>2 DEF Latest

\* The number of revisions of a profile.
LEMMA CountIs ==
  ASSUME NumberInv, NEW name \in ProfileName
  PROVE  /\ Cardinality(OfProfile(name)) \in Nat
         /\ Latest(SequencesOf(name)) = Cardinality(OfProfile(name))
<1>1. IsFiniteSet(OfProfile(name)) /\ SequencesOf(name) = 1..Cardinality(OfProfile(name))
  BY DEF NumberInv
<1>2. Cardinality(OfProfile(name)) \in Nat
  BY <1>1, FS_CardinalityType
<1> QED BY <1>1, <1>2, LatestIs

\* The list names a published revision; without a recovery, the newest one.
LEMMA ListKeeps ==
  ASSUME Inv, NEW s \in Session, NEW recovering \in BOOLEAN, ListRevisions(s, recovering)
  PROVE  Inv'
<1>1. PICK i \in SelectedRevisions(FollowerOf[s], recovering) :
        Step(s, Authenticated(s, [Idle EXCEPT
          !.at = "selected", !.recovering = recovering, !.revision = i,
          !.since = Latest(SequencesOf(Selected))]))
  BY DEF ListRevisions
<1> DEFINE next == [Idle EXCEPT
             !.at = "selected", !.recovering = recovering, !.revision = i,
             !.since = Latest(SequencesOf(Selected))]
<1>2. /\ i \in Published /\ i \in Ready
      /\ recovering = FALSE => catalog[i] = Latest(SequencesOf(Selected))
  BY DEF SelectedRevisions, NewestOfSelected, OfProfile, Inv, TypeInv
<1>3. Latest(SequencesOf(Selected)) \in Nat
  BY CountIs, DistributionConstants DEF Inv
<1>4. /\ next.at = "selected" /\ next.recovering = recovering /\ next.revision = i
      /\ next.since = Latest(SequencesOf(Selected))
  BY DEF Idle
<1>5. next \in Request
  BY <1>2, <1>3 DEF Idle, Request, Places
<1>6. SessionOk(next, catalog)
  <2>1. recovering = FALSE => catalog[i] >= Latest(SequencesOf(Selected))
    BY <1>2, <1>3
  <2> HIDE DEF next
  <2> QED BY <1>2, <1>4, <2>1 DEF SessionOk, Published
<1> HIDE DEF next
<1>7. Step(s, Authenticated(s, next))
  BY <1>1 DEF next
<1>8. Authenticated(s, next) \in Request /\ SessionOk(Authenticated(s, next), catalog)
  BY <1>5, <1>6, AuthenticatedIs
<1>9. views' = views /\ index' = index /\ cache' = cache /\ held' = held /\ open' = open
  BY DEF ListRevisions
<1> QED BY <1>7, <1>8, <1>9, QuietKeeps

\* A row is shown only if it is valid, and then as intended.
LEMMA AuthorizedKeeps ==
  ASSUME Inv, NEW s \in Session, GetAuthorizedRevision(s)
  PROVE  Inv'
<1> DEFINE i == syncing[s].revision
           groups == members[FollowerOf[s]].groups
           shown == Visible(Row(i), groups)
           next == [syncing[s] EXCEPT
                     !.at = "fetching", !.groups = groups, !.shown = shown,
                     !.wanted = BlobsOf(Content[i], shown), !.changed = FALSE]
<1>1. syncing[s] \in Request /\ SessionOk(syncing[s], catalog) /\ syncing[s].at = "selected"
  BY DEF Inv, TypeInv, SessionsOk, GetAuthorizedRevision
<1>2. i \in Published /\ i \in Ready /\ i \in Revision
      /\ (~syncing[s].recovering => catalog[i] >= syncing[s].since)
  BY <1>1 DEF SessionOk, Inv, TypeInv, Ready, Published
<1>3. groups \in Allowed
  BY DistributionConstants DEF Inv, TypeInv
<1>4. Row(i).revision = i
  BY DEF Row
<1>5. shown \subseteq Resources(Content[i]) /\ Resources(Content[i]) \subseteq Resource
      /\ BlobsOf(Content[i], shown) \subseteq Spec
  BY <1>2, <1>4, VisibleIs, ContentIs, BlobsAre
<1>6. views' = views /\ index' = index /\ cache' = cache /\ held' = held /\ open' = open
  BY DEF GetAuthorizedRevision
<1>7. CASE RevisionIsValid(Row(i))
  <2>1. shown = Intended(i, groups)
    BY <1>2, <1>3, <1>7, ValidIsIntended
  <2>2. Step(s, Authenticated(s, next))
    BY <1>7 DEF GetAuthorizedRevision
  <2> HIDE DEF groups, shown
  <2>3. next \in Request
    BY <1>1, <1>3, <1>5 DEF Request, Places
  <2>4. /\ next.at = "fetching" /\ next.recovering = syncing[s].recovering /\ next.revision = i
        /\ next.since = syncing[s].since /\ next.groups = groups /\ next.shown = shown
        /\ next.wanted = BlobsOf(Content[i], shown)
    BY <1>1 DEF Request
  <2>5. SessionOk(next, catalog)
    <3> HIDE DEF next, i
    <3> QED BY <1>2, <1>3, <1>5, <2>1, <2>4 DEF SessionOk, Published
  <2> HIDE DEF next
  <2>6. Authenticated(s, next) \in Request /\ SessionOk(Authenticated(s, next), catalog)
    BY <2>3, <2>5, AuthenticatedIs
  <2> QED BY <1>6, <2>2, <2>6, QuietKeeps
<1>8. CASE ~RevisionIsValid(Row(i))
  <2>1. Step(s, Idle)
    BY <1>8 DEF GetAuthorizedRevision
  <2> QED BY <1>6, <2>1, IdleIs, IdleIsOk, QuietKeeps
<1> QED BY <1>7, <1>8

\* A blob that is in the cache is one less to fetch.
LEMMA ReuseKeeps ==
  ASSUME Inv, NEW s \in Session, ReuseBlob(s)
  PROVE  Inv'
<1> DEFINE next == [syncing[s] EXCEPT !.wanted = @ \ {NextBlob(s)}]
<1>1. syncing[s] \in Request /\ SessionOk(syncing[s], catalog) /\ syncing[s].at = "fetching"
  BY DEF Inv, TypeInv, SessionsOk, ReuseBlob
<1>2. /\ next \in Request /\ next.at = "fetching" /\ next.recovering = syncing[s].recovering
      /\ next.revision = syncing[s].revision /\ next.since = syncing[s].since
      /\ next.groups = syncing[s].groups /\ next.shown = syncing[s].shown
      /\ next.wanted \subseteq syncing[s].wanted
  BY <1>1 DEF Request
<1>3. Step(s, next) /\ views' = views /\ index' = index /\ cache' = cache /\ held' = held /\ open' = open
  BY DEF ReuseBlob
<1> HIDE DEF next
<1>4. SessionOk(next, catalog)
  BY <1>1, <1>2 DEF SessionOk
<1> QED BY <1>2, <1>3, <1>4, QuietKeeps

\* The candidates of a request, and an earlier answer for the same scope, hold the blob.
LEMMA AskKeeps ==
  ASSUME Inv, NEW s \in Session, AskBlob(s)
  PROVE  Inv'
<1> DEFINE b == NextBlob(s)
           groups == members[FollowerOf[s]].groups
           candidates == CandidatesOf(b)
           cached == Lookup(Scope(b, groups), candidates)
           next == [syncing[s] EXCEPT !.at = "asking", !.now = groups, !.candidates = candidates,
                                      !.cached = cached]
<1>1. /\ syncing[s] \in Request /\ SessionOk(syncing[s], catalog)
      /\ syncing[s].at = "fetching" /\ syncing[s].wanted # {}
  BY DEF Inv, TypeInv, SessionsOk, AskBlob
<1>2. b = First(syncing[s].wanted) /\ b \in Spec
  BY <1>1 DEF NextBlob, First, Request
<1>3. groups \in Allowed
  BY DistributionConstants DEF Inv, TypeInv
<1>4. candidates \subseteq Candidate /\ \A c \in candidates : Known(c, b, catalog)
  BY <1>2, CandidatesAre DEF Inv, Known, Published
<1>5. /\ cached \in {None} \cup [entries: SUBSET Candidate]
      /\ cached # None => \A c \in cached.entries : Known(c, b, catalog)
  <2>1. CASE cached = None
    BY <2>1
  <2>2. CASE cached # None
    <3>1. PICK k \in DOMAIN index :
            /\ index[k].scope = Scope(b, groups) /\ index[k] \in Answer
            /\ cached = [entries |-> index[k].entries]
      BY <2>2, LookupIs DEF Inv
    <3>2. index[k].scope.blob = b
      BY <3>1 DEF Scope
    <3>3. index[k].entries \subseteq Candidate /\ cached.entries = index[k].entries
      BY <3>1 DEF Answer
    <3>4. \A c \in index[k].entries : Known(c, b, catalog)
      BY <3>2 DEF Inv, IndexOk
    <3> QED BY <3>1, <3>3, <3>4
  <2> QED BY <2>1, <2>2
<1>6. Step(s, Authenticated(s, next))
      /\ views' = views /\ index' = index /\ cache' = cache /\ held' = held /\ open' = open
  BY DEF AskBlob
<1> HIDE DEF b, groups, candidates, cached
<1>7. /\ next \in Request /\ next.at = "asking" /\ next.recovering = syncing[s].recovering
      /\ next.revision = syncing[s].revision /\ next.since = syncing[s].since
      /\ next.groups = syncing[s].groups /\ next.shown = syncing[s].shown
      /\ next.wanted = syncing[s].wanted /\ next.now = groups
      /\ next.candidates = candidates /\ next.cached = cached
  BY <1>1, <1>3, <1>4, <1>5 DEF Request, Places
<1> HIDE DEF next
<1>8. SessionOk(next, catalog)
  BY <1>1, <1>2, <1>3, <1>4, <1>5, <1>7 DEF SessionOk
<1>9. Authenticated(s, next) \in Request /\ SessionOk(Authenticated(s, next), catalog)
  BY <1>7, <1>8, AuthenticatedIs
<1> QED BY <1>6, <1>9, QuietKeeps

\* What an answered session is: as it was, and not waiting.
LEMMA AnsweredIs ==
  ASSUME Inv, NEW s \in Session, syncing[s].at = "asking", NEW blobs, blobs \subseteq syncing[s].wanted
  PROVE  LET next == [Answered(s) EXCEPT !.wanted = blobs]
             refused == [Answered(s) EXCEPT !.at = "refused"]
         IN  /\ next \in Request /\ SessionOk(next, catalog) /\ next.at = "fetching"
             /\ refused \in Request /\ SessionOk(refused, catalog) /\ refused.at = "refused"
             /\ refused.changed = syncing[s].changed
<1> DEFINE q == Answered(s)
           next == [q EXCEPT !.wanted = blobs]
           refused == [q EXCEPT !.at = "refused"]
<1>1. syncing[s] \in Request /\ SessionOk(syncing[s], catalog)
  BY DEF Inv, TypeInv, SessionsOk
<1>2. /\ q \in Request /\ q.at = "fetching" /\ q.recovering = syncing[s].recovering
      /\ q.revision = syncing[s].revision /\ q.since = syncing[s].since
      /\ q.groups = syncing[s].groups /\ q.shown = syncing[s].shown
      /\ q.wanted = syncing[s].wanted /\ q.changed = syncing[s].changed
  BY <1>1 DEF Answered, Request, Places
<1> HIDE DEF q
<1>3. /\ next \in Request /\ next.at = "fetching" /\ next.recovering = q.recovering
      /\ next.revision = q.revision /\ next.since = q.since
      /\ next.groups = q.groups /\ next.shown = q.shown /\ next.wanted = blobs
  BY <1>1, <1>2 DEF Request
<1>4. refused \in Request /\ refused.at = "refused" /\ refused.changed = q.changed
  BY <1>1, <1>2 DEF Request, Places
<1> HIDE DEF next, refused
<1>5. SessionOk(next, catalog)
  BY <1>1, <1>2, <1>3 DEF SessionOk
<1>6. SessionOk(refused, catalog)
  BY <1>4 DEF SessionOk
<1> QED BY <1>2, <1>3, <1>4, <1>5, <1>6 DEF next, refused, q

\* A request is answered with a blob of a valid candidate, or refused.
LEMMA ServeIs ==
  ASSUME NEW s, NEW entries, Serve(s, entries)
  PROVE  \/ \E c \in entries : /\ CandidateIsVisible(c, syncing[s].now) /\ CandidateIsValid(c)
                               /\ Stored(s, NextBlob(s))
         \/ Refused(s)
  BY DEF Serve, MaySee

\* A request that is answered or refused, whatever the index becomes.
LEMMA ServeKeeps ==
  ASSUME Inv, NEW s \in Session, syncing[s].at = "asking", Stored(s, NextBlob(s)) \/ Refused(s),
         views' = views, held' = held, open' = open,
         index' \in Seq(Answer), Scoped(index'), IndexOk'
  PROVE  Inv'
<1>1. syncing[s] \in Request /\ SessionOk(syncing[s], catalog)
  BY DEF Inv, TypeInv, SessionsOk
<1>2. syncing[s].wanted # {} /\ NextBlob(s) \in Spec
  BY <1>1 DEF SessionOk, NextBlob, Request
<1>3. views' \subseteq ViewRow
      /\ held' \in [Follower -> ViewSet \cup {None}] /\ open' \in [Follower -> ViewSet \cup {None}]
  BY DEF Inv, TypeInv
<1>4. HeldOk'
  BY DEF Inv, HeldOk
<1>5. CASE Stored(s, NextBlob(s))
  <2> DEFINE blobs == syncing[s].wanted \ {NextBlob(s)}
             next == [Answered(s) EXCEPT !.wanted = blobs]
  <2>1. Step(s, [Answered(s) EXCEPT !.wanted = @ \ {NextBlob(s)}])
        /\ cache' = [cache EXCEPT ![FollowerOf[s]] = @ \cup {NextBlob(s)}]
    BY <1>5 DEF Stored
  <2>2. [Answered(s) EXCEPT !.wanted = @ \ {NextBlob(s)}] = next
    BY <1>1 DEF Answered, Request
  <2>3. next \in Request /\ SessionOk(next, catalog)
    BY AnsweredIs
  <2>4. cache' \in [Follower -> SUBSET Spec]
    BY <1>2, <2>1, DistributionConstants DEF Inv, TypeInv
  <2> HIDE DEF next
  <2> QED BY <1>3, <1>4, <2>1, <2>2, <2>3, <2>4, SessionKeeps
<1>6. CASE Refused(s)
  <2> DEFINE next == [Answered(s) EXCEPT !.at = "refused"]
  <2>1. Step(s, next) /\ cache' = cache
    BY <1>6 DEF Refused
  <2>2. next \in Request /\ SessionOk(next, catalog)
    BY AnsweredIs
  <2>3. cache' \in [Follower -> SUBSET Spec]
    BY <2>1 DEF Inv, TypeInv
  <2> HIDE DEF next
  <2> QED BY <1>3, <1>4, <2>1, <2>2, <2>3, SessionKeeps
<1> QED BY <1>5, <1>6

\* The answer to a request, and the entry it leaves in the index.
LEMMA BlobKeeps ==
  ASSUME Inv, NEW s \in Session, GetAuthorizedBlob(s)
  PROVE  Inv'
<1> DEFINE entries == MaySee(s, syncing[s].candidates)
           scope == Scope(NextBlob(s), syncing[s].now)
<1>1. /\ syncing[s] \in Request /\ SessionOk(syncing[s], catalog) /\ syncing[s].at = "asking"
      /\ views' = views /\ held' = held /\ open' = open
  BY DEF Inv, TypeInv, SessionsOk, GetAuthorizedBlob
<1>2. /\ Stored(s, NextBlob(s)) \/ Refused(s)
      /\ \/ index' = index
         \/ index' = CacheSet(scope, syncing[s].candidates, entries)
  BY ServeIs DEF GetAuthorizedBlob
<1>3. catalog' = catalog
  BY <1>2 DEF Stored, Refused, Step
<1>4. index' \in Seq(Answer) /\ Scoped(index') /\ IndexOk'
  <2>1. CASE index' = index
    BY <1>3, <2>1 DEF Inv, TypeInv, IndexOk
  <2>2. CASE index' = CacheSet(scope, syncing[s].candidates, entries)
    <3>1. /\ syncing[s].now \in Allowed /\ syncing[s].wanted # {}
          /\ NextBlob(s) = First(syncing[s].wanted) /\ NextBlob(s) \in Spec
          /\ syncing[s].candidates \subseteq Candidate
          /\ \A c \in syncing[s].candidates : Known(c, NextBlob(s), catalog)
      BY <1>1 DEF SessionOk, NextBlob, First, Request
    <3>2. entries \subseteq syncing[s].candidates
      BY DEF MaySee
    <3>3. scope \in [blob: Spec, groups: Allowed] /\ scope.blob = NextBlob(s)
      BY <3>1 DEF Scope
    <3> DEFINE e == [scope |-> scope, candidates |-> syncing[s].candidates, entries |-> entries]
    <3>4. /\ index' \in Seq(Answer) /\ Scoped(index')
          /\ \A k \in DOMAIN index' : index'[k] = e \/ \E j \in DOMAIN index : index'[k] = index[j]
      <4>1. syncing[s].candidates \in SUBSET Candidate /\ entries \in SUBSET Candidate /\ TypeInv
        BY <3>1, <3>2 DEF Inv
      <4> HIDE DEF entries, scope
      <4> QED BY <2>2, <3>3, <4>1, CacheSetIs
    <3>5. e.scope = scope /\ e.entries = entries
      OBVIOUS
    <3> HIDE DEF e, entries, scope
    <3>6. ASSUME NEW k \in DOMAIN index', NEW c \in index'[k].entries
          PROVE  Known(c, index'[k].scope.blob, catalog)
      <4>1. CASE index'[k] = e
        BY <3>1, <3>2, <3>3, <3>5, <3>6, <4>1
      <4>2. CASE \E j \in DOMAIN index : index'[k] = index[j]
        BY <3>6, <4>2 DEF Inv, IndexOk
      <4> QED BY <3>4, <4>1, <4>2
    <3> QED BY <1>3, <3>4, <3>6 DEF IndexOk
  <2> QED BY <1>2, <2>1, <2>2
<1> QED BY <1>1, <1>2, <1>4, ServeKeeps

\* The view of a session that fetched everything is exact.
LEMMA ViewOfIs ==
  ASSUME Inv, NEW s \in Session, syncing[s].at \in {"fetching", "fetched"}
  PROVE  /\ ViewOfSession(s) \in ViewSet /\ ViewIsExact(ViewOfSession(s))
         /\ ViewOfSession(s).revision = syncing[s].revision
         /\ BlobsOf(Content[syncing[s].revision], syncing[s].shown) \in SUBSET Spec
<1> DEFINE q == syncing[s]
<1>1. q \in Request /\ SessionOk(q, catalog) /\ Published \subseteq Ready
  BY DEF Inv, TypeInv, SessionsOk
<1>2. /\ q.revision \in Ready /\ q.revision \in Revision /\ q.groups \in Allowed
      /\ q.shown = Intended(q.revision, q.groups) /\ q.shown \subseteq Resources(Content[q.revision])
      /\ q.shown \subseteq Resource
  BY <1>1, ContentIs DEF SessionOk, Published, Ready
<1>3. ViewOfSession(s) = ViewOf(q.revision, q.groups, q.shown) /\ ViewOfSession(s).revision = q.revision
  BY DEF ViewOfSession, ViewOf
<1> HIDE DEF q
<1>4. ViewOf(q.revision, q.groups, q.shown) \in ViewSet
  BY <1>2 DEF ViewSet
<1> QED BY <1>2, <1>3, <1>4, BlobsAre DEF ViewIsExact, q

\* A session that fetched everything has an exact view to store.
LEMMA StoreKeeps ==
  ASSUME Inv, NEW s \in Session, StoreView(s)
  PROVE  Inv'
<1> DEFINE next == [syncing[s] EXCEPT !.at = "fetched"]
<1>1. /\ syncing[s] \in Request /\ SessionOk(syncing[s], catalog) /\ syncing[s].at = "fetching"
      /\ Step(s, next) /\ index' = index /\ cache' = cache /\ held' = held /\ open' = open
  BY DEF Inv, TypeInv, SessionsOk, StoreView
<1>2. /\ next \in Request /\ next.at = "fetched" /\ next.recovering = syncing[s].recovering
      /\ next.revision = syncing[s].revision /\ next.since = syncing[s].since
      /\ next.groups = syncing[s].groups /\ next.shown = syncing[s].shown
  BY <1>1 DEF Request, Places
<1> HIDE DEF next
<1>3. SessionOk(next, catalog)
  BY <1>1, <1>2 DEF SessionOk
<1>4. views' \subseteq ViewRow
  <2> DEFINE v == ViewOfSession(s)
             blobs == BlobsOf(Content[syncing[s].revision], syncing[s].shown)
  <2>1. views' = views \/ views' = views \cup {[view |-> v, blobs |-> blobs]}
    BY DEF StoreView
  <2>2. v \in ViewSet /\ blobs \in SUBSET Spec /\ views \subseteq ViewRow
    BY <1>1, ViewOfIs DEF Inv, TypeInv
  <2> HIDE DEF v, blobs
  <2> QED BY <2>1, <2>2 DEF ViewRow
<1>5. catalog' = catalog
  BY <1>1 DEF Step
<1>6. index' \in Seq(Answer) /\ Scoped(index') /\ IndexOk' /\ HeldOk'
  BY <1>1, <1>5 DEF Inv, TypeInv, IndexOk, HeldOk
<1>7. /\ cache' \in [Follower -> SUBSET Spec] /\ held' \in [Follower -> ViewSet \cup {None}]
      /\ open' \in [Follower -> ViewSet \cup {None}]
  BY <1>1 DEF Inv, TypeInv
<1> QED BY <1>1, <1>2, <1>3, <1>4, <1>6, <1>7, SessionKeeps

\* A step back to idle that may record the view as applied or as open.
LEMMA FinishKeeps ==
  ASSUME Inv, NEW s \in Session, Step(s, Idle), views' = views, index' = index, cache' = cache,
         held' \in [Follower -> ViewSet \cup {None}], open' \in [Follower -> ViewSet \cup {None}],
         HeldOk'
  PROVE  Inv'
<1>1. catalog' = catalog
  BY DEF Step
<1>2. /\ views' \subseteq ViewRow /\ index' \in Seq(Answer) /\ Scoped(index') /\ IndexOk'
      /\ cache' \in [Follower -> SUBSET Spec]
  BY <1>1 DEF Inv, TypeInv, IndexOk
<1> QED BY <1>2, IdleIs, IdleIsOk, SessionKeeps

\* What is applied is that view.
LEMMA ApplyKeeps ==
  ASSUME Inv, NEW s \in Session, Apply(s)
  PROVE  Inv'
<1> DEFINE f == FollowerOf[s]
           v == ViewOfSession(s)
<1>1. f \in Follower /\ syncing[s].at = "fetched"
  BY DistributionConstants DEF Apply
<1>2. v \in ViewSet /\ ViewIsExact(v)
  BY <1>1, ViewOfIs
<1>3. /\ Step(s, Idle) /\ views' = views /\ index' = index /\ cache' = cache
      /\ held' = [held EXCEPT ![f] = IF MayApply(s) THEN v ELSE @]
      /\ open' = [open EXCEPT ![f] = IF MayApply(s) THEN None ELSE @]
  BY DEF Apply
<1>4. held \in [Follower -> ViewSet \cup {None}] /\ open \in [Follower -> ViewSet \cup {None}] /\ HeldOk
  BY DEF Inv, TypeInv
<1> HIDE DEF v, f
<1>5. held' \in [Follower -> ViewSet \cup {None}] /\ open' \in [Follower -> ViewSet \cup {None}]
  BY <1>1, <1>2, <1>3, <1>4
<1>6. ASSUME NEW e \in Follower, held'[e] # None
      PROVE  ViewIsExact(held'[e])
  <2>1. held'[e] = held[e] \/ held'[e] = v
    BY <1>1, <1>3, <1>4
  <2>2. CASE held'[e] = v
    BY <1>2, <2>2
  <2>3. CASE held'[e] = held[e]
    BY <1>4, <1>6, <2>3 DEF HeldOk
  <2> QED BY <2>1, <2>2, <2>3
<1>7. HeldOk'
  BY <1>6 DEF HeldOk, ViewIsExact
<1> QED BY <1>3, <1>5, <1>7, FinishKeeps

\* And so is what an interrupted run is open with.
LEMMA InterruptKeeps ==
  ASSUME Inv, NEW s \in Session, Interrupt(s)
  PROVE  Inv'
<1> DEFINE f == FollowerOf[s]
           v == ViewOfSession(s)
<1>1. f \in Follower /\ syncing[s].at = "fetched"
  BY DistributionConstants DEF Interrupt
<1>2. v \in ViewSet
  BY <1>1, ViewOfIs
<1>3. /\ Step(s, Idle) /\ views' = views /\ index' = index /\ cache' = cache /\ held' = held
      /\ open' = [open EXCEPT ![f] = v]
  BY DEF Interrupt
<1> HIDE DEF v, f
<1>4. held' \in [Follower -> ViewSet \cup {None}] /\ open' \in [Follower -> ViewSet \cup {None}] /\ HeldOk'
  BY <1>1, <1>2, <1>3 DEF Inv, TypeInv, HeldOk
<1> QED BY <1>3, <1>4, FinishKeeps

\* A lost request leaves the session idle.
LEMMA LoseKeeps ==
  ASSUME Inv, NEW s \in Session, Lose(s)
  PROVE  Inv'
<1>1. Step(s, Idle) /\ views' = views /\ index' = index /\ cache' = cache /\ held' = held /\ open' = open
  BY DEF Lose
<1> QED BY <1>1, IdleIs, IdleIsOk, QuietKeeps

----------------------------------------------------------------------------
(* Publication. *)

\* A publication takes the number after the last one.
LEMMA PublishKeeps ==
  ASSUME Inv, NEW w \in Publisher, NEW i \in Revision, PublishProfile(w, i)
  PROVE  Inv'
<1> DEFINE name == Content[i].name
<1> PICK entry : entry = [revision |-> i, sequence |-> Latest(SequencesOf(name)) + 1]
  OBVIOUS
<1>1. /\ i \in Ready /\ publishing' = [publishing EXCEPT ![w] = entry]
      /\ catalog' = catalog /\ altered' = altered /\ views' = views /\ members' = members
      /\ index' = index /\ syncing' = syncing /\ cache' = cache /\ held' = held /\ open' = open
  BY DEF PublishProfile, follower
<1>2. name \in ProfileName /\ Cardinality(OfProfile(name)) \in Nat
      /\ Latest(SequencesOf(name)) = Cardinality(OfProfile(name))
  BY ContentIs, CountIs DEF Inv
<1>3. entry.revision = i /\ entry.sequence = Cardinality(OfProfile(name)) + 1
      /\ entry \in [revision: Ready \cup {None}, sequence: Nat]
  BY <1>1, <1>2
<1>4. publishing \in [Publisher -> [revision: Ready \cup {None}, sequence: Nat]]
  BY DEF Inv, TypeInv
<1>5. publishing' \in [Publisher -> [revision: Ready \cup {None}, sequence: Nat]]
      /\ \A v \in Publisher : publishing'[v] = entry \/ publishing'[v] = publishing[v]
  BY <1>1, <1>3, <1>4
<1>6. TypeInv'
  BY <1>1, <1>5 DEF Inv, TypeInv, Published
<1>7. NumberInv'
  <2>1. \A n : OfProfile(n)' = OfProfile(n) /\ SequencesOf(n)' = SequencesOf(n)
    BY <1>1 DEF OfProfile, SequencesOf, Published
  <2>2. IsNumbered(entry)' /\ \A p : IsNumbered(p) => IsNumbered(p)'
    <3>1. \A p : IsNumbered(p)' = IsNumbered(p)
      BY <2>1 DEF IsNumbered
    <3>2. IsNumbered(entry)
      BY <1>1, <1>2, <1>3 DEF IsNumbered
    <3> QED BY <3>1, <3>2
  <2>3. \A n \in ProfileName : IsFiniteSet(OfProfile(n)) /\ SequencesOf(n) = 1..Cardinality(OfProfile(n))
    BY DEF Inv, NumberInv
  <2> QED BY <1>5, <2>1, <2>2, <2>3 DEF Inv, NumberInv
<1>8. SessionsOk' /\ IndexOk' /\ HeldOk'
  BY <1>1 DEF Inv, SessionsOk, IndexOk, HeldOk
<1> QED BY <1>6, <1>7, <1>8 DEF Inv

\* A commit that stores the revision gives it the number after the last one.
LEMMA CommitCounts ==
  ASSUME Inv, NEW w \in Publisher, publishing[w] # NotPublishing,
         Storable(publishing[w].revision, publishing[w].sequence)
  PROVE  LET i == publishing[w].revision
             name == Content[i].name
         IN  /\ i \in Ready /\ i \notin Published /\ name \in ProfileName
             /\ publishing[w].sequence = Cardinality(OfProfile(name)) + 1
             /\ Cardinality(OfProfile(name)) \in Nat
<1> DEFINE i == publishing[w].revision
           n == publishing[w].sequence
           name == Content[i].name
<1>1. i \in Ready /\ n \in 1..(Cardinality(OfProfile(name)) + 1)
  BY DEF Inv, NumberInv, IsNumbered
<1>2. name \in ProfileName
  BY <1>1, ContentIs DEF Ready
<1>3. i \notin Published /\ n \notin SequencesOf(name)
  BY DEF Storable
<1>4. SequencesOf(name) = 1..Cardinality(OfProfile(name)) /\ Cardinality(OfProfile(name)) \in Nat
  BY <1>2, CountIs DEF Inv, NumberInv
<1> QED BY <1>1, <1>2, <1>3, <1>4

\* The commit stores the revision under that number if it still is the next one.
LEMMA CommitKeeps ==
  ASSUME Inv, NEW w \in Publisher, CommitRevision(w)
  PROVE  Inv' /\ Extends(catalog', catalog)
<1> PICK i, n, name : /\ i = publishing[w].revision /\ n = publishing[w].sequence
                      /\ name = Content[i].name
  OBVIOUS
<1>1. /\ publishing[w] # NotPublishing /\ publishing' = [publishing EXCEPT ![w] = NotPublishing]
      /\ altered' = altered /\ views' = views /\ members' = members
      /\ index' = index /\ syncing' = syncing /\ cache' = cache /\ held' = held /\ open' = open
      /\ catalog' = IF Storable(i, n)
                    THEN [j \in Published \cup {i} |-> IF j = i THEN n ELSE catalog[j]]
                    ELSE catalog
  BY DEF CommitRevision, follower
<1>2. publishing \in [Publisher -> [revision: Ready \cup {None}, sequence: Nat]]
      /\ NotPublishing \in [revision: Ready \cup {None}, sequence: Nat]
  BY DEF Inv, TypeInv, NotPublishing
<1>3. /\ publishing' \in [Publisher -> [revision: Ready \cup {None}, sequence: Nat]]
      /\ \A v \in Publisher : publishing'[v] = NotPublishing \/ publishing'[v] = publishing[v]
  BY <1>1, <1>2
<1>4. CASE ~Storable(i, n)
  <2>1. catalog' = catalog
    BY <1>1, <1>4
  <2>2. TypeInv' /\ SessionsOk' /\ IndexOk' /\ HeldOk'
    <3>1. TypeInv'
      BY <1>1, <1>3, <2>1 DEF Inv, TypeInv, Published
    <3>2. SessionsOk'
      BY <1>1, <2>1 DEF Inv, SessionsOk
    <3>3. IndexOk' /\ HeldOk'
      BY <1>1, <2>1 DEF Inv, IndexOk, HeldOk
    <3> QED BY <3>1, <3>2, <3>3
  <2>3. NumberInv'
    <3>1. \A m : OfProfile(m)' = OfProfile(m) /\ SequencesOf(m)' = SequencesOf(m)
      BY <2>1 DEF OfProfile, SequencesOf, Published
    <3> QED BY <1>3, <3>1 DEF Inv, NumberInv, IsNumbered
  <2> QED BY <2>1, <2>2, <2>3 DEF Inv, Extends
<1>5. CASE Storable(i, n)
  <2>1. /\ i \in Ready /\ i \notin Published /\ name \in ProfileName
        /\ n = Cardinality(OfProfile(name)) + 1 /\ Cardinality(OfProfile(name)) \in Nat
    BY <1>1, <1>5, CommitCounts
  <2>2. /\ Published' = Published \cup {i} /\ catalog'[i] = n
        /\ \A j \in Published : catalog'[j] = catalog[j]
        /\ catalog' = [j \in Published' |-> catalog'[j]]
    BY <1>1, <1>5, <2>1 DEF Published
  <2>3. Extends(catalog', catalog)
    BY <2>2 DEF Extends, Published
  <2>4. TypeInv'
    <3>1. Published' \subseteq Ready /\ altered' \subseteq Published' /\ \A j \in Published' : catalog'[j] \in Nat
      BY <1>1, <2>1, <2>2 DEF Inv, TypeInv
    <3> QED BY <1>1, <1>3, <2>2, <3>1 DEF Inv, TypeInv
  <2>5. SessionsOk'
    BY <1>1, <2>3, SessionStays DEF Inv, SessionsOk
  <2>6. IndexOk' /\ HeldOk'
    <3>1. \A c, b : Known(c, b, catalog) => Known(c, b, catalog')
      BY <2>3 DEF Known, Extends
    <3> QED BY <1>1, <3>1 DEF Inv, IndexOk, HeldOk
  <2>7. /\ OfProfile(name)' = OfProfile(name) \cup {i}
        /\ \A m : m # name => OfProfile(m)' = OfProfile(m)
    BY <2>2 DEF OfProfile
  <2>8. i \notin OfProfile(name) /\ IsFiniteSet(OfProfile(name))
    BY <2>1 DEF OfProfile, Inv, NumberInv
  <2>9. IsFiniteSet(OfProfile(name)') /\ Cardinality(OfProfile(name)') = Cardinality(OfProfile(name)) + 1
    <3>1. /\ IsFiniteSet(OfProfile(name) \cup {i})
          /\ Cardinality(OfProfile(name) \cup {i}) = Cardinality(OfProfile(name)) + 1
      BY <2>8, FS_AddElement
    <3> QED BY <2>7, <3>1
  <2>10. SequencesOf(name)' = SequencesOf(name) \cup {n}
    <3>1. \A j \in OfProfile(name) : catalog'[j] = catalog[j]
      BY <2>2 DEF OfProfile
    <3> QED BY <2>2, <2>7, <3>1 DEF SequencesOf
  <2>11. \A m : m # name => SequencesOf(m)' = SequencesOf(m)
    <3>1. \A m : \A j \in OfProfile(m) : catalog'[j] = catalog[j]
      BY <2>2 DEF OfProfile
    <3> QED BY <2>7, <3>1 DEF SequencesOf
  <2>12. ASSUME NEW m \in ProfileName
         PROVE  IsFiniteSet(OfProfile(m)') /\ SequencesOf(m)' = 1..Cardinality(OfProfile(m)')
    <3>1. IsFiniteSet(OfProfile(m)) /\ SequencesOf(m) = 1..Cardinality(OfProfile(m))
      BY DEF Inv, NumberInv
    <3>2. CASE m # name
      BY <2>7, <2>11, <3>1, <3>2
    <3>3. CASE m = name
      <4>1. SequencesOf(name) = 1..Cardinality(OfProfile(name))
        BY <3>1, <3>3
      <4>2. SequencesOf(name)' = 1..(Cardinality(OfProfile(name)) + 1)
        BY <2>1, <2>10, <4>1
      <4> QED BY <2>9, <3>3, <4>2
    <3> QED BY <3>2, <3>3
  <2>13. ASSUME NEW p, IsNumbered(p)
         PROVE  IsNumbered(p)'
    <3> DEFINE m == Content[p.revision].name
    <3>1. p.revision \in Ready /\ p.sequence \in 1..(Cardinality(OfProfile(m)) + 1)
      BY <2>13 DEF IsNumbered
    <3>2. m \in ProfileName
      BY <3>1, ContentIs DEF Ready
    <3>3. Cardinality(OfProfile(m)) \in Nat
          /\ Cardinality(OfProfile(m)') \in Nat /\ Cardinality(OfProfile(m)) <= Cardinality(OfProfile(m)')
      <4>1. Cardinality(OfProfile(m)) \in Nat
        BY <3>2, CountIs DEF Inv
      <4>2. CASE m = name
        BY <2>9, <4>1, <4>2
      <4>3. CASE m # name
        BY <2>7, <4>1, <4>3
      <4> QED BY <4>2, <4>3
    <3> QED BY <3>1, <3>3 DEF IsNumbered
  <2>14. NumberInv'
    BY <1>3, <2>12, <2>13 DEF Inv, NumberInv
  <2> QED BY <2>3, <2>4, <2>5, <2>6, <2>14 DEF Inv
<1> QED BY <1>4, <1>5

----------------------------------------------------------------------------
(* Operators and disturbances. *)

\* A change of the record of a follower marks its sessions and nothing else.
LEMMA ChangeKeeps ==
  ASSUME Inv, NEW f \in Follower, Change(f),
         members' \in [Follower -> [groups: Allowed, revoked: BOOLEAN]]
  PROVE  Inv'
<1>1. /\ catalog' = catalog /\ altered' = altered /\ views' = views /\ publishing' = publishing
      /\ index' = index /\ cache' = cache /\ held' = held /\ open' = open
      /\ syncing' = [s \in Session |->
           [syncing[s] EXCEPT !.changed = @ \/ (FollowerOf[s] = f /\ syncing[s].at # "idle")]]
  BY DEF Change
<1>2. ASSUME NEW s \in Session
      PROVE  /\ syncing'[s] \in Request /\ SessionOk(syncing'[s], catalog)
             /\ syncing'[s] = [syncing[s] EXCEPT !.changed = syncing'[s].changed]
  <2> DEFINE more == FollowerOf[s] = f /\ syncing[s].at # "idle"
             was == syncing[s]
             q == [was EXCEPT !.changed = was.changed \/ more]
  <2>1. was \in Request /\ SessionOk(was, catalog) /\ more \in BOOLEAN
    BY DEF Inv, TypeInv, SessionsOk
  <2>2. syncing'[s] = q
    BY <1>1
  <2> HIDE DEF more, was
  <2>3. /\ q \in Request /\ q.at = was.at /\ q.recovering = was.recovering
        /\ q.revision = was.revision /\ q.since = was.since
        /\ q.groups = was.groups /\ q.shown = was.shown
        /\ q.wanted = was.wanted /\ q.now = was.now
        /\ q.candidates = was.candidates /\ q.cached = was.cached
        /\ q = [was EXCEPT !.changed = q.changed]
    BY <2>1 DEF Request
  <2> HIDE DEF q
  <2>4. SessionOk(q, catalog)
    BY <2>1, <2>3, Zenon DEF SessionOk
  <2> QED BY <2>2, <2>3, <2>4 DEF was
<1>3. syncing' \in [Session -> Request]
  BY <1>1, <1>2
<1>4. TypeInv'
  BY <1>1, <1>3 DEF Inv, TypeInv, Published
<1>5. NumberInv'
  BY <1>1, NumbersStay DEF Inv
<1>6. SessionsOk' /\ IndexOk' /\ HeldOk'
  BY <1>1, <1>2 DEF Inv, SessionsOk, IndexOk, HeldOk
<1> QED BY <1>4, <1>5, <1>6 DEF Inv

\* An operator's changes are such changes.
LEMMA OperatingKeeps ==
  ASSUME Inv, NEW f \in Follower, Operating(f)
  PROVE  Inv'
<1>1. Change(f) /\ (\/ members' = [members EXCEPT ![f].revoked = TRUE]
                    \/ \E groups \in Allowed : members' = [members EXCEPT ![f].groups = groups])
  BY DEF Operating, RevokeFollower, UpdateFollowerGroups
<1>2. members' \in [Follower -> [groups: Allowed, revoked: BOOLEAN]]
  BY <1>1 DEF Inv, TypeInv
<1> QED BY <1>1, <1>2, ChangeKeeps

\* What changes neither the catalog nor a session keeps the rest.
LEMMA OtherKeeps ==
  ASSUME Inv, catalog' = catalog, publishing' = publishing, syncing' = syncing, index' = index,
         members' = members, views' = views, held' = held,
         altered' \subseteq Published, cache' \in [Follower -> SUBSET Spec],
         open' \in [Follower -> ViewSet \cup {None}]
  PROVE  Inv'
<1>1. TypeInv'
  BY DEF Inv, TypeInv, Published
<1>2. NumberInv'
  BY NumbersStay DEF Inv
<1>3. SessionsOk' /\ IndexOk' /\ HeldOk'
  BY DEF Inv, SessionsOk, IndexOk, HeldOk
<1> QED BY <1>1, <1>2, <1>3 DEF Inv

\* An operator gives an interrupted run up.
LEMMA AbandonKeeps ==
  ASSUME Inv, NEW f \in Follower, AbandonFollowerRun(f)
  PROVE  Inv'
<1>1. /\ open' = [open EXCEPT ![f] = None] /\ catalog' = catalog /\ altered' = altered /\ views' = views
      /\ members' = members /\ publishing' = publishing /\ index' = index
      /\ syncing' = syncing /\ cache' = cache /\ held' = held
  BY DEF AbandonFollowerRun, source
<1>2. altered' \subseteq Published /\ cache' \in [Follower -> SUBSET Spec]
      /\ open' \in [Follower -> ViewSet \cup {None}]
  BY <1>1 DEF Inv, TypeInv
<1> QED BY <1>1, <1>2, OtherKeeps

\* A file of the cache is spoilt.
LEMMA SpoilBlobKeeps ==
  ASSUME Inv, NEW f \in Follower, NEW b \in Spec, SpoilBlob(f, b)
  PROVE  Inv'
<1>1. /\ cache' = [cache EXCEPT ![f] = @ \ {b}] /\ catalog' = catalog /\ altered' = altered
      /\ views' = views /\ members' = members /\ publishing' = publishing /\ index' = index
      /\ syncing' = syncing /\ held' = held /\ open' = open
  BY DEF SpoilBlob, source
<1>2. altered' \subseteq Published /\ cache' \in [Follower -> SUBSET Spec]
      /\ open' \in [Follower -> ViewSet \cup {None}]
  BY <1>1 DEF Inv, TypeInv
<1> QED BY <1>1, <1>2, OtherKeeps

\* A row is rewritten: the catalog stays as it is.
LEMMA SpoilRowKeeps ==
  ASSUME Inv, NEW i \in Published, SpoilRow(i)
  PROVE  Inv'
<1>1. /\ altered' = altered \cup {i} /\ catalog' = catalog /\ views' = views /\ members' = members
      /\ publishing' = publishing /\ index' = index
      /\ syncing' = syncing /\ cache' = cache /\ held' = held /\ open' = open
  BY DEF SpoilRow, follower
<1>2. altered' \subseteq Published /\ cache' \in [Follower -> SUBSET Spec]
      /\ open' \in [Follower -> ViewSet \cup {None}]
  BY <1>1 DEF Inv, TypeInv
<1> QED BY <1>1, <1>2, OtherKeeps

----------------------------------------------------------------------------
(* Every step. *)

\* Nothing happens.
LEMMA StutterKeeps ==
  ASSUME Inv, UNCHANGED vars
  PROVE  Inv'
<1>1. /\ catalog' = catalog /\ altered' = altered /\ views' = views /\ members' = members
      /\ publishing' = publishing /\ index' = index
      /\ syncing' = syncing /\ cache' = cache /\ held' = held /\ open' = open
  BY DEF vars, source, follower
<1>2. altered' \subseteq Published /\ cache' \in [Follower -> SUBSET Spec]
      /\ open' \in [Follower -> ViewSet \cup {None}]
  BY <1>1 DEF Inv, TypeInv
<1> QED BY <1>1, <1>2, OtherKeeps

\* Every step of a session.
LEMMA SynchronizingKeeps ==
  ASSUME Inv, NEW s \in Session, Synchronizing(s) \/ ListRevisions(s, TRUE) \/ Lose(s) \/ Interrupt(s)
  PROVE  Inv'
<1>1. CASE ListRevisions(s, TRUE) \/ ListRevisions(s, FALSE)
  BY <1>1, ListKeeps
<1>2. CASE Fetching(s)
  BY <1>2, AuthorizedKeeps, ReuseKeeps, AskKeeps, BlobKeeps DEF Fetching
<1>3. CASE StoreView(s) \/ Apply(s) \/ Lose(s) \/ Interrupt(s)
  BY <1>3, StoreKeeps, ApplyKeeps, LoseKeeps, InterruptKeeps
<1> QED BY <1>1, <1>2, <1>3 DEF Synchronizing

\* Every step preserves the invariant.
LEMMA NextKeeps ==
  ASSUME Inv, [Next]_vars
  PROVE  Inv'
<1>1. CASE \E w \in Publisher : Publishing(w)
  BY <1>1, PublishKeeps, CommitKeeps DEF Publishing
<1>2. CASE \E s \in Session : Synchronizing(s) \/ ListRevisions(s, TRUE)
  BY <1>2, SynchronizingKeeps
<1>3. CASE \E f \in Follower : Operating(f) \/ AbandonFollowerRun(f)
  BY <1>3, OperatingKeeps, AbandonKeeps
<1>4. CASE Disturbance
  BY <1>4, SynchronizingKeeps, SpoilBlobKeeps, SpoilRowKeeps DEF Disturbance
<1>5. CASE UNCHANGED vars
  BY <1>5, StutterKeeps
<1> QED BY <1>1, <1>2, <1>3, <1>4, <1>5 DEF Next

\* The first state: each profile has at most the one revision, under number 1.
LEMMA InitInv ==
  ASSUME Init
  PROVE  Inv
<1>1. /\ catalog = [i \in Earlier |-> 1] /\ Published = Earlier /\ Earlier \subseteq Ready
      /\ \A i \in Published : catalog[i] = 1
  BY EarlierIsReady DEF Init, Published
<1>2. TypeInv
  <2>1. catalog = [i \in Published |-> catalog[i]] /\ \A i \in Published : catalog[i] \in Nat
    BY <1>1
  <2>2. altered = {} /\ views = {} /\ index \in Seq(Answer) /\ Scoped(index)
    BY DistributionConstants DEF Init, Scoped
  <2>3. members \in [Follower -> [groups: Allowed, revoked: BOOLEAN]]
    BY DEF Init
  <2>4. publishing \in [Publisher -> [revision: Ready \cup {None}, sequence: Nat]]
    BY DEF Init, NotPublishing
  <2>5. syncing \in [Session -> Request]
    BY IdleIs DEF Init
  <2>6. cache \in [Follower -> SUBSET Spec] /\ held \in [Follower -> ViewSet \cup {None}]
        /\ open \in [Follower -> ViewSet \cup {None}]
    BY DEF Init
  <2> QED BY <1>1, <2>1, <2>2, <2>3, <2>4, <2>5, <2>6 DEF TypeInv
<1>3. NumberInv
  <2>1. ASSUME NEW name \in ProfileName
        PROVE  IsFiniteSet(OfProfile(name)) /\ SequencesOf(name) = 1..Cardinality(OfProfile(name))
    <3>1. CASE OfProfile(name) = {}
      <4>1. SequencesOf(name) = {} /\ Cardinality(OfProfile(name)) = 0 /\ IsFiniteSet(OfProfile(name))
        BY <3>1, FS_EmptySet DEF SequencesOf
      <4> QED BY <4>1
    <3>2. CASE OfProfile(name) # {}
      <4>1. PICK i \in Earlier : Content[i].name = name
        BY <1>1, <3>2 DEF OfProfile
      <4>2. OfProfile(name) = {i}
        BY <1>1, <4>1, EarlierIsReady DEF OfProfile
      <4>3. SequencesOf(name) = {1}
        BY <1>1, <4>1, <4>2 DEF SequencesOf
      <4>4. IsFiniteSet(OfProfile(name)) /\ Cardinality(OfProfile(name)) = 1
        BY <4>2, FS_Singleton
      <4> QED BY <4>3, <4>4
    <3> QED BY <3>1, <3>2
  <2>2. \A w \in Publisher : publishing[w] = NotPublishing
    BY DEF Init
  <2> QED BY <2>1, <2>2 DEF NumberInv
<1>4. SessionsOk /\ IndexOk /\ HeldOk
  BY IdleIsOk DEF Init, SessionsOk, IndexOk, HeldOk
<1> QED BY <1>2, <1>3, <1>4 DEF Inv

\* The inductive invariant holds throughout.
THEOREM InvHolds == Distributing => []Inv
<1>1. Init => Inv
  BY InitInv
<1>2. Inv /\ [Next]_vars => Inv'
  BY NextKeeps
<1> QED BY <1>1, <1>2, PTL DEF Distributing

\* SequencesIdentify: the revisions of a profile are numbered 1, 2, 3, ... without a
\* gap and without two of one number, however many publications overlap.
THEOREM RevisionsAreNumbered == Distributing => []SequencesIdentify
<1>1. Inv => SequencesIdentify
  BY DEF Inv, NumberInv, SequencesIdentify
<1> QED BY <1>1, InvHolds, PTL

\* ViewsAreExact: a follower is shown, and applies, exactly the resources that its
\* groups allow together with everything they depend on.
THEOREM ViewsMatchIntent == Distributing => []ViewsAreExact
<1>1. Inv => ViewsAreExact
  BY DEF Inv, SessionsOk, SessionOk, HeldOk, ViewIsExact, ViewsAreExact
<1> QED BY <1>1, InvHolds, PTL

----------------------------------------------------------------------------
(* What a step may do to a session. *)

Acts(s) == Synchronizing(s) \/ ListRevisions(s, TRUE) \/ Lose(s) \/ Interrupt(s)

\* A session's step names its next request.
LEMMA ActsStep ==
  ASSUME NEW s, Acts(s)
  PROVE  \E next : Step(s, next)
<1>1. CASE ListRevisions(s, TRUE) \/ ListRevisions(s, FALSE)
  BY <1>1 DEF ListRevisions
<1>2. CASE GetAuthorizedRevision(s) \/ ReuseBlob(s) \/ AskBlob(s)
  BY <1>2 DEF GetAuthorizedRevision, ReuseBlob, AskBlob
<1>3. CASE GetAuthorizedBlob(s)
  <2>1. Stored(s, NextBlob(s)) \/ Refused(s)
    BY <1>3, ServeIs DEF GetAuthorizedBlob
  <2> QED BY <2>1 DEF Stored, Refused
<1>4. CASE StoreView(s) \/ Apply(s)
  BY <1>4 DEF StoreView, Apply
<1>5. CASE Lose(s) \/ Interrupt(s)
  BY <1>5 DEF Lose, Interrupt
<1> QED BY <1>1, <1>2, <1>3, <1>4, <1>5 DEF Acts, Synchronizing, Fetching

\* Where a session is changes by its own steps only.
LEMMA OnlyActs ==
  ASSUME Inv, [Next]_vars, NEW s \in Session, ~Acts(s)
  PROVE  syncing'[s].at = syncing[s].at
<1>1. CASE \E t \in Session : Acts(t)
  <2>1. PICK t \in Session : Acts(t)
    BY <1>1
  <2>2. PICK next : Step(t, next)
    BY <2>1, ActsStep
  <2>3. t # s
    BY <2>1
  <2>4. syncing'[s] = syncing[s]
    BY <2>2, <2>3 DEF Step, Inv, TypeInv
  <2> QED BY <2>4
<1>2. CASE \E f \in Follower : Change(f)
  <2>1. PICK f \in Follower : Change(f)
    BY <1>2
  <2>2. syncing'[s] = [syncing[s] EXCEPT !.changed = @ \/ (FollowerOf[s] = f /\ syncing[s].at # "idle")]
    BY <2>1 DEF Change
  <2>3. syncing[s] \in Request
    BY DEF Inv, TypeInv
  <2> QED BY <2>2, <2>3 DEF Request
<1>3. CASE syncing' = syncing
  BY <1>3
<1>4. \/ \E w \in Publisher : Publishing(w)
      \/ \E f \in Follower : AbandonFollowerRun(f)
      \/ \E f \in Follower, b \in Spec : SpoilBlob(f, b)
      \/ \E i \in Published : SpoilRow(i)
      \/ UNCHANGED vars
      => syncing' = syncing
  BY DEF Publishing, PublishProfile, CommitRevision, AbandonFollowerRun, SpoilBlob, SpoilRow,
         vars, source, follower
<1>5. \A f \in Follower : Operating(f) => Change(f)
  BY DEF Operating, RevokeFollower, UpdateFollowerGroups
<1> QED BY <1>1, <1>2, <1>3, <1>4, <1>5, Zenon DEF Next, Disturbance, Acts

\* ServedIsAuthorized: a blob is served only if the groups that the follower has when
\* it asks allow it in some revision, whatever earlier answers the index holds.
THEOREM BlobsAreAuthorized == Distributing => ServedIsAuthorized
<1> DEFINE Served(s) ==
      syncing[s].at = "asking" /\ syncing'[s].at = "fetching" =>
        \E i \in Published : NextBlob(s) \in BlobsOf(Content[i], Intended(i, syncing[s].now))
<1>1. ASSUME Inv, [Next]_vars, NEW s \in Session
      PROVE  Served(s)
  <2> SUFFICES ASSUME syncing[s].at = "asking", syncing'[s].at = "fetching"
               PROVE  \E i \in Published : NextBlob(s) \in BlobsOf(Content[i], Intended(i, syncing[s].now))
    OBVIOUS
  <2> DEFINE b == NextBlob(s)
  <2>1. syncing[s] \in Request /\ SessionOk(syncing[s], catalog) /\ syncing \in [Session -> Request]
    BY <1>1 DEF Inv, TypeInv, SessionsOk
  <2>2. Acts(s)
    BY <1>1, OnlyActs
  <2>3. ~Lose(s)
    BY <2>1, IdleIs DEF Lose, Step
  <2>4. GetAuthorizedBlob(s)
    BY <2>2, <2>3 DEF Acts, Synchronizing, Fetching, ListRevisions, GetAuthorizedRevision, ReuseBlob,
                      AskBlob, StoreView, Apply, Interrupt
  <2>5. ~Refused(s)
    <3>1. SUFFICES ASSUME Refused(s) PROVE FALSE
      OBVIOUS
    <3>2. syncing'[s] = [Answered(s) EXCEPT !.at = "refused"]
      BY <2>1, <3>1 DEF Refused, Step
    <3>3. [Answered(s) EXCEPT !.at = "refused"].at = "refused"
      BY <1>1, AnsweredIs
    <3> QED BY <3>2, <3>3
  <2>6. \E c \in syncing[s].candidates \cup
               (IF syncing[s].cached = None THEN {} ELSE syncing[s].cached.entries) :
          CandidateIsVisible(c, syncing[s].now) /\ CandidateIsValid(c)
    <3>1. CASE syncing[s].cached # None
      BY <2>4, <2>5, <3>1, ServeIs DEF GetAuthorizedBlob
    <3>2. CASE syncing[s].cached = None
      <4>1. Serve(s, MaySee(s, syncing[s].candidates))
        BY <2>4, <2>5, <3>2 DEF GetAuthorizedBlob
      <4> QED BY <2>5, <4>1, ServeIs DEF MaySee
    <3> QED BY <3>1, <3>2
  <2>7. PICK c : Known(c, b, catalog) /\ CandidateIsVisible(c, syncing[s].now) /\ CandidateIsValid(c)
    <3>1. b = First(syncing[s].wanted)
      BY DEF NextBlob, First
    <3> QED BY <2>1, <2>6, <3>1 DEF SessionOk
  <2>8. c.kind = "revision" /\ RevisionIsValid(Row(c.row)) /\ c.row \in Published
        /\ c.resource \in HoldersOf(Content[c.row], b)
    BY <2>7 DEF CandidateIsValid, Known, Published
  <2>9. c.row \in Ready /\ syncing[s].now \in Allowed
    BY <1>1, <2>1, <2>8 DEF Inv, TypeInv, SessionOk
  <2>10. c.resource \in Intended(c.row, syncing[s].now)
    BY <2>7, <2>8, <2>9, ValidIsIntended DEF CandidateIsVisible
  <2> QED BY <2>8, <2>10 DEF HoldersOf, BlobsOf
<1>2. Inv /\ [Next]_vars => [\A s \in Session : Served(s)]_vars
  BY <1>1
<1> QED BY <1>2, InvHolds, PTL DEF Distributing, ServedIsAuthorized

\* AppliedIsFresh: a synchronization applies no revision older than the newest one
\* that was published when it began.
THEOREM AppliedIsRecent == Distributing => AppliedIsFresh
<1> DEFINE Fresh(s) ==
      /\ syncing[s].at = "fetched" /\ syncing'[s].at = "idle"
      /\ held'[FollowerOf[s]] # held[FollowerOf[s]]
      /\ ~syncing[s].recovering
      => catalog[held'[FollowerOf[s]].revision] >= syncing[s].since
<1>1. ASSUME Inv, [Next]_vars, NEW s \in Session
      PROVE  Fresh(s)
  <2> SUFFICES ASSUME syncing[s].at = "fetched", syncing'[s].at = "idle", ~syncing[s].recovering,
                      held'[FollowerOf[s]] # held[FollowerOf[s]]
               PROVE  catalog[held'[FollowerOf[s]].revision] >= syncing[s].since
    OBVIOUS
  <2>1. syncing[s] \in Request /\ SessionOk(syncing[s], catalog) /\ FollowerOf[s] \in Follower
        /\ held \in [Follower -> ViewSet \cup {None}]
    BY <1>1, DistributionConstants DEF Inv, TypeInv, SessionsOk
  <2>2. Acts(s)
    BY <1>1, OnlyActs
  <2>3. Apply(s)
    BY <2>2 DEF Acts, Synchronizing, Fetching, ListRevisions, GetAuthorizedRevision, ReuseBlob,
                AskBlob, GetAuthorizedBlob, StoreView, Lose, Interrupt
  <2>4. held'[FollowerOf[s]] = ViewOfSession(s)
    BY <2>1, <2>3 DEF Apply
  <2>5. ViewOfSession(s).revision = syncing[s].revision
    BY <1>1, ViewOfIs
  <2> QED BY <2>1, <2>4, <2>5 DEF SessionOk
<1>2. Inv /\ [Next]_vars => [\A s \in Session : Fresh(s)]_vars
  BY <1>1
<1> QED BY <1>2, InvHolds, PTL DEF Distributing, AppliedIsFresh

----------------------------------------------------------------------------
(* Nothing that was shown is refused, when no follower stores its views beside *)
(* the source's revisions.                                                     *)

\* Of these candidates the answer keeps those that the groups allow.
Right(entries, candidates, groups) ==
  entries = {c \in candidates : c.resource \in Intended(c.row, groups)}

\* Where these are the groups of the session's follower, and safe says that no row was
\* rewritten.
ServedOk(q, groups, safe) ==
  /\ q.at = "asking" =>
       /\ \A c \in q.candidates : c.kind = "revision"
       /\ \A r \in HoldersOf(Content[q.revision], First(q.wanted)) :
            \E c \in q.candidates : c.row = q.revision /\ c.resource = r
       /\ safe /\ q.cached # None => Right(q.cached.entries, q.candidates, q.now)
  /\ ~q.changed /\ q.at \in {"fetching", "asking"} => q.groups = groups
  /\ ~q.changed /\ q.at = "asking" => q.now = groups
  /\ ~q.changed /\ q.at = "refused" => ~safe
Safe == altered = {}
GroupsOf(s) == members[FollowerOf[s]].groups
ServingInv ==
  /\ views = {}
  /\ \A s \in Session : ServedOk(syncing[s], GroupsOf(s), Safe)
  /\ \A k \in DOMAIN index :
       /\ \A c \in index[k].candidates : c.kind = "revision"
       /\ Safe => Right(index[k].entries, index[k].candidates, index[k].scope.groups)

\* A session that is idle waits for nothing.
LEMMA IdleIsServed ==
  ASSUME NEW groups, NEW safe
  PROVE  ServedOk(Idle, groups, safe)
  BY IdleIs DEF ServedOk

\* A step of a session keeps it if its new request and the index do.
LEMMA ServingStep ==
  ASSUME Inv, ServingInv, NEW s \in Session, NEW next \in Request, Step(s, next),
         ServedOk(next, GroupsOf(s), Safe), views' = {},
         \A k \in DOMAIN index' :
           /\ \A c \in index'[k].candidates : c.kind = "revision"
           /\ Safe => Right(index'[k].entries, index'[k].candidates, index'[k].scope.groups)
  PROVE  ServingInv'
<1>1. /\ altered' = altered /\ members' = members /\ syncing'[s] = next
      /\ \A t \in Session : t # s => syncing'[t] = syncing[t]
  BY StepIs DEF Inv
<1>2. Safe' = Safe /\ \A t : GroupsOf(t)' = GroupsOf(t)
  BY <1>1 DEF Safe, GroupsOf
<1>3. \A t \in Session : ServedOk(syncing'[t], GroupsOf(t), Safe)
  BY <1>1 DEF ServingInv
<1>4. \A t \in Session : ServedOk(syncing[t], GroupsOf(t), Safe)'
  BY <1>2, <1>3 DEF ServedOk
<1>5. \A k \in DOMAIN index' :
        /\ \A c \in index'[k].candidates : c.kind = "revision"
        /\ Safe' => Right(index'[k].entries, index'[k].candidates, index'[k].scope.groups)
  BY <1>2
<1> QED BY <1>4, <1>5 DEF ServingInv, Right

\* The same for a step that leaves the index alone.
LEMMA ServingQuiet ==
  ASSUME Inv, ServingInv, NEW s \in Session, NEW next \in Request, Step(s, next),
         ServedOk(next, GroupsOf(s), Safe), views' = views, index' = index
  PROVE  ServingInv'
  BY ServingStep DEF ServingInv

\* A refused credential leaves the session idle.
LEMMA AuthenticatedIsServed ==
  ASSUME NEW s, NEW next \in Request, NEW groups, NEW safe, ServedOk(next, groups, safe)
  PROVE  Authenticated(s, next) \in Request /\ ServedOk(Authenticated(s, next), groups, safe)
  BY IdleIs, IdleIsServed DEF Authenticated

\* A session that lists the revisions asks for no blob yet.
LEMMA ListServes ==
  ASSUME Inv, ServingInv, NEW s \in Session, NEW recovering \in BOOLEAN, ListRevisions(s, recovering)
  PROVE  ServingInv'
<1>1. PICK i \in SelectedRevisions(FollowerOf[s], recovering) :
        Step(s, Authenticated(s, [Idle EXCEPT
          !.at = "selected", !.recovering = recovering, !.revision = i,
          !.since = Latest(SequencesOf(Selected))]))
  BY DEF ListRevisions
<1> DEFINE next == [Idle EXCEPT
             !.at = "selected", !.recovering = recovering, !.revision = i,
             !.since = Latest(SequencesOf(Selected))]
<1>2. i \in Ready /\ Latest(SequencesOf(Selected)) \in Nat
  BY CountIs, DistributionConstants DEF SelectedRevisions, NewestOfSelected, OfProfile, Inv, TypeInv
<1>3. next \in Request /\ next.at = "selected"
  BY <1>2 DEF Idle, Request, Places
<1> HIDE DEF next
<1>4. ServedOk(next, GroupsOf(s), Safe)
  BY <1>3 DEF ServedOk
<1>5. Step(s, Authenticated(s, next)) /\ views' = views /\ index' = index
  BY <1>1 DEF next, ListRevisions
<1> QED BY <1>3, <1>4, <1>5, AuthenticatedIsServed, ServingQuiet

\* A session is shown what its groups of this moment allow.
LEMMA AuthorizedServes ==
  ASSUME Inv, ServingInv, NEW s \in Session, GetAuthorizedRevision(s)
  PROVE  ServingInv'
<1> DEFINE i == syncing[s].revision
           groups == members[FollowerOf[s]].groups
           shown == Visible(Row(i), groups)
           wanted == BlobsOf(Content[i], shown)
           next == [syncing[s] EXCEPT
                     !.at = "fetching", !.groups = groups, !.shown = shown,
                     !.wanted = wanted, !.changed = FALSE]
<1>1. syncing[s] \in Request /\ SessionOk(syncing[s], catalog) /\ syncing[s].at = "selected"
  BY DEF Inv, TypeInv, SessionsOk, GetAuthorizedRevision
<1>2. i \in Revision
  BY <1>1 DEF SessionOk, Inv, TypeInv, Ready, Published
<1>3. groups \in Allowed /\ groups = GroupsOf(s)
  BY DistributionConstants DEF Inv, TypeInv, GroupsOf
<1>4. shown \in SUBSET Resource /\ wanted \in SUBSET Spec
  <2>1. Row(i).revision = i
    BY DEF Row
  <2>2. shown \subseteq Resources(Content[i]) /\ Resources(Content[i]) \subseteq Resource
    BY <1>2, <2>1, VisibleIs, ContentIs
  <2> HIDE DEF shown
  <2> QED BY <1>2, <2>2, BlobsAre
<1>5. views' = views /\ index' = index
      /\ (Step(s, Authenticated(s, next)) \/ Step(s, Idle))
  BY DEF GetAuthorizedRevision
<1> HIDE DEF groups, shown, wanted
<1>6. next \in Request /\ next.at = "fetching" /\ next.groups = groups
  BY <1>1, <1>3, <1>4 DEF Request, Places
<1> HIDE DEF next
<1>7. ServedOk(next, GroupsOf(s), Safe)
  BY <1>3, <1>6 DEF ServedOk
<1>8. Authenticated(s, next) \in Request /\ ServedOk(Authenticated(s, next), GroupsOf(s), Safe)
  BY <1>6, <1>7, AuthenticatedIsServed
<1> QED BY <1>5, <1>8, IdleIs, IdleIsServed, ServingQuiet

\* A blob that is in the cache is not asked for.
LEMMA ReuseServes ==
  ASSUME Inv, ServingInv, NEW s \in Session, ReuseBlob(s)
  PROVE  ServingInv'
<1> DEFINE next == [syncing[s] EXCEPT !.wanted = @ \ {NextBlob(s)}]
<1>1. syncing[s] \in Request /\ ServedOk(syncing[s], GroupsOf(s), Safe) /\ syncing[s].at = "fetching"
  BY DEF Inv, TypeInv, ServingInv, ReuseBlob
<1>2. /\ next \in Request /\ next.at = "fetching" /\ next.groups = syncing[s].groups
      /\ next.changed = syncing[s].changed
  BY <1>1 DEF Request
<1>3. Step(s, next) /\ views' = views /\ index' = index
  BY DEF ReuseBlob
<1> HIDE DEF next
<1>4. ServedOk(next, GroupsOf(s), Safe)
  BY <1>1, <1>2 DEF ServedOk
<1> QED BY <1>2, <1>3, <1>4, ServingQuiet

\* The candidates of a request include the session's own revision, and an earlier
\* answer for the same scope and candidates is right for it.
LEMMA AskServes ==
  ASSUME Inv, ServingInv, NEW s \in Session, AskBlob(s)
  PROVE  ServingInv'
<1> DEFINE b == NextBlob(s)
           groups == members[FollowerOf[s]].groups
           candidates == CandidatesOf(b)
           cached == Lookup(Scope(b, groups), candidates)
           next == [syncing[s] EXCEPT !.at = "asking", !.now = groups, !.candidates = candidates,
                                      !.cached = cached]
<1>1. /\ syncing[s] \in Request /\ SessionOk(syncing[s], catalog)
      /\ ServedOk(syncing[s], GroupsOf(s), Safe)
      /\ syncing[s].at = "fetching" /\ syncing[s].wanted # {}
  BY DEF Inv, TypeInv, SessionsOk, ServingInv, AskBlob
<1>2. b = First(syncing[s].wanted) /\ b \in Spec
  BY <1>1 DEF NextBlob, First, Request
<1>3. groups \in Allowed /\ groups = GroupsOf(s)
  BY DistributionConstants DEF Inv, TypeInv, GroupsOf
<1>4. /\ candidates \in SUBSET Candidate
      /\ \A c \in candidates : c.kind = "revision"
      /\ \A r \in HoldersOf(Content[syncing[s].revision], b) :
           \E c \in candidates : c.row = syncing[s].revision /\ c.resource = r
  <2>1. views = {} /\ TypeInv
    BY DEF ServingInv, Inv
  <2>2. \A c \in candidates : c.kind = "revision"
    BY <2>1 DEF CandidatesOf
  <2>3. syncing[s].revision \in Published
    BY <1>1 DEF SessionOk, Published
  <2> HIDE DEF b
  <2> QED BY <1>2, <2>1, <2>2, <2>3, CandidatesAre
<1>5. /\ cached \in {None} \cup [entries: SUBSET Candidate]
      /\ Safe /\ cached # None => Right(cached.entries, candidates, groups)
  <2>1. CASE cached = None
    BY <2>1
  <2>2. CASE cached # None
    <3>1. PICK k \in DOMAIN index :
            /\ index[k].scope = Scope(b, groups) /\ index[k].candidates = candidates
            /\ index[k] \in Answer /\ cached = [entries |-> index[k].entries]
      BY <2>2, LookupIs DEF Inv
    <3>2. index[k].scope.groups = groups
      BY <3>1 DEF Scope
    <3>3. index[k].entries \subseteq Candidate /\ cached.entries = index[k].entries
      BY <3>1 DEF Answer
    <3>4. Safe => Right(index[k].entries, index[k].candidates, index[k].scope.groups)
      BY DEF ServingInv
    <3> QED BY <3>1, <3>2, <3>3, <3>4
  <2> QED BY <2>1, <2>2
<1>6. Step(s, Authenticated(s, next)) /\ views' = views /\ index' = index
  BY DEF AskBlob
<1> HIDE DEF b, groups, candidates, cached
<1>7. /\ next \in Request /\ next.at = "asking" /\ next.revision = syncing[s].revision
      /\ next.groups = syncing[s].groups /\ next.changed = syncing[s].changed
      /\ next.wanted = syncing[s].wanted /\ next.now = groups
      /\ next.candidates = candidates /\ next.cached = cached
  BY <1>1, <1>3, <1>4, <1>5 DEF Request, Places
<1> HIDE DEF next
<1>8. ServedOk(next, GroupsOf(s), Safe)
  BY <1>1, <1>2, <1>3, <1>4, <1>5, <1>7 DEF ServedOk
<1>9. Authenticated(s, next) \in Request /\ ServedOk(Authenticated(s, next), GroupsOf(s), Safe)
  BY <1>7, <1>8, AuthenticatedIsServed
<1> QED BY <1>6, <1>9, ServingQuiet

\* While no row was rewritten, every candidate that is a revision validates, and it is
\* visible to those that it is intended for.
LEMMA SafeIs ==
  ASSUME Inv, Safe, NEW b, NEW c, c.kind = "revision", Known(c, b, catalog), NEW groups \in Allowed
  PROVE  /\ CandidateIsValid(c)
         /\ CandidateIsVisible(c, groups) <=> c.resource \in Intended(c.row, groups)
<1>1. c.row \in Ready /\ c.row \notin altered
  BY DEF Known, Inv, TypeInv, Published, Safe
<1>2. RevisionIsValid(Row(c.row))
  BY <1>1 DEF RevisionIsValid, Row
<1> QED BY <1>1, <1>2, ValidIsIntended DEF CandidateIsValid, CandidateIsVisible

\* A session that asks for a blob of what it was shown has a candidate that its groups,
\* unless they changed, still allow.
LEMMA ShownHasCandidate ==
  ASSUME Inv, ServingInv, NEW s \in Session, syncing[s].at = "asking", ~syncing[s].changed
  PROVE  \E c \in syncing[s].candidates : c.resource \in Intended(c.row, syncing[s].now)
<1> DEFINE q == syncing[s]
           b == First(q.wanted)
<1>1. q \in Request /\ SessionOk(q, catalog) /\ ServedOk(q, GroupsOf(s), Safe)
  BY DEF Inv, TypeInv, SessionsOk, ServingInv
<1> HIDE DEF q
<1>2. q.at = "asking" /\ ~q.changed
  BY DEF q
<1>3. b \in q.wanted /\ q.wanted \subseteq BlobsOf(Content[q.revision], q.shown)
  BY <1>1, <1>2 DEF SessionOk, First
<1>4. PICK r \in q.shown : Content[q.revision].resource[r].spec = b
  BY <1>3 DEF BlobsOf
<1>5. r \in Resources(Content[q.revision]) /\ q.shown = Intended(q.revision, q.groups)
  BY <1>1, <1>2 DEF SessionOk
<1>6. r \in HoldersOf(Content[q.revision], b)
  BY <1>4, <1>5 DEF HoldersOf
<1>7. PICK c \in q.candidates : c.row = q.revision /\ c.resource = r
  BY <1>1, <1>2, <1>6 DEF ServedOk
<1>8. q.now = q.groups
  BY <1>1, <1>2 DEF ServedOk
<1> QED BY <1>5, <1>7, <1>8 DEF q

\* So a request of unchanged groups is refused only where a row was rewritten.
LEMMA BlobServes ==
  ASSUME Inv, ServingInv, NEW s \in Session, GetAuthorizedBlob(s)
  PROVE  ServingInv'
<1> DEFINE q == syncing[s]
           entries == MaySee(s, q.candidates)
           scope == Scope(NextBlob(s), q.now)
           e == [scope |-> scope, candidates |-> q.candidates, entries |-> entries]
<1>1. /\ q \in Request /\ SessionOk(q, catalog) /\ ServedOk(q, GroupsOf(s), Safe) /\ q.at = "asking"
      /\ views' = views /\ views = {}
  BY DEF Inv, TypeInv, SessionsOk, ServingInv, GetAuthorizedBlob
<1>2. /\ NextBlob(s) = First(q.wanted) /\ NextBlob(s) \in Spec /\ q.now \in Allowed
      /\ \A c \in q.candidates : Known(c, NextBlob(s), catalog) /\ c.kind = "revision"
      /\ q.candidates \in SUBSET Candidate
  BY <1>1 DEF SessionOk, ServedOk, NextBlob, First, Request
<1>3. Safe => /\ Right(entries, q.candidates, q.now)
              /\ \A c \in q.candidates : CandidateIsValid(c)
              /\ \A c \in q.candidates :
                   CandidateIsVisible(c, q.now) <=> c.resource \in Intended(c.row, q.now)
  <2> SUFFICES ASSUME Safe
               PROVE  /\ Right(entries, q.candidates, q.now)
                      /\ \A c \in q.candidates : CandidateIsValid(c)
                      /\ \A c \in q.candidates :
                           CandidateIsVisible(c, q.now) <=> c.resource \in Intended(c.row, q.now)
    OBVIOUS
  <2>1. \A c \in q.candidates :
          CandidateIsValid(c) /\ (CandidateIsVisible(c, q.now) <=> c.resource \in Intended(c.row, q.now))
    BY <1>2, SafeIs
  <2> QED BY <2>1 DEF MaySee, Right
<1>4. \A k \in DOMAIN index' :
        /\ \A c \in index'[k].candidates : c.kind = "revision"
        /\ Safe => Right(index'[k].entries, index'[k].candidates, index'[k].scope.groups)
  <2>1. index' = index \/ index' = CacheSet(scope, q.candidates, entries)
    BY DEF GetAuthorizedBlob
  <2>2. CASE index' = index
    BY <2>2 DEF ServingInv
  <2>3. CASE index' = CacheSet(scope, q.candidates, entries)
    <3>1. scope \in [blob: Spec, groups: Allowed] /\ scope.groups = q.now
          /\ entries \in SUBSET Candidate /\ TypeInv
      BY <1>2 DEF Scope, MaySee, Inv
    <3>2. e.entries = entries /\ e.candidates = q.candidates /\ e.scope = scope
      OBVIOUS
    <3>3. \A k \in DOMAIN index' : index'[k] = e \/ \E j \in DOMAIN index : index'[k] = index[j]
      <4> HIDE DEF entries, scope, q
      <4> QED BY <1>2, <2>3, <3>1, CacheSetIs
    <3> HIDE DEF e, entries, scope, q
    <3>4. ASSUME NEW k \in DOMAIN index'
          PROVE  /\ \A c \in index'[k].candidates : c.kind = "revision"
                 /\ Safe => Right(index'[k].entries, index'[k].candidates, index'[k].scope.groups)
      <4>1. CASE index'[k] = e
        BY <1>2, <1>3, <3>1, <3>2, <4>1
      <4>2. CASE \E j \in DOMAIN index : index'[k] = index[j]
        BY <4>2 DEF ServingInv
      <4> QED BY <3>3, <4>1, <4>2
    <3> QED BY <3>4
  <2> QED BY <2>1, <2>2, <2>3
<1>5. CASE Stored(s, NextBlob(s))
  <2> DEFINE blobs == q.wanted \ {NextBlob(s)}
             next == [Answered(s) EXCEPT !.wanted = blobs]
  <2>1. Step(s, [Answered(s) EXCEPT !.wanted = @ \ {NextBlob(s)}])
    BY <1>5 DEF Stored
  <2>2. [Answered(s) EXCEPT !.wanted = @ \ {NextBlob(s)}] = next
    BY <1>1 DEF Answered, Request
  <2>3. next \in Request /\ next.at = "fetching"
    BY <1>1, AnsweredIs
  <2>4. next.groups = q.groups /\ next.changed = q.changed
    BY <1>1 DEF Answered, Request
  <2> HIDE DEF next, q
  <2>5. ServedOk(next, GroupsOf(s), Safe)
    BY <1>1, <2>3, <2>4 DEF ServedOk
  <2> QED BY <1>1, <1>4, <2>1, <2>2, <2>3, <2>5, ServingStep
<1>6. CASE Refused(s) /\ ~Stored(s, NextBlob(s))
  <2> DEFINE next == [Answered(s) EXCEPT !.at = "refused"]
  <2>1. Step(s, next)
    BY <1>6 DEF Refused
  <2>2. next \in Request /\ next.at = "refused" /\ next.changed = q.changed
    BY <1>1, AnsweredIs
  <2>3. ASSUME ~q.changed, Safe PROVE FALSE
    <3>1. PICK c \in q.candidates : c.resource \in Intended(c.row, q.now)
      BY <1>1, <2>3, ShownHasCandidate
    <3>2. CandidateIsVisible(c, q.now) /\ \A d \in q.candidates : CandidateIsValid(d)
      BY <1>3, <2>3, <3>1
    <3>3. ASSUME NEW S, S \subseteq q.candidates, c \in S, Serve(s, S) PROVE FALSE
      <4>1. c \in MaySee(s, S)
        BY <3>2, <3>3 DEF MaySee
      <4>2. \A d \in S : CandidateIsValid(d)
        BY <3>2, <3>3
      <4> QED BY <1>6, <3>3, <4>1, <4>2 DEF Serve
    <3>4. CASE q.cached # None
      <4>1. Right(q.cached.entries, q.candidates, q.now)
        BY <1>1, <2>3, <3>4 DEF ServedOk
      <4>2. Serve(s, q.cached.entries)
        BY <3>4 DEF GetAuthorizedBlob
      <4> QED BY <3>1, <3>3, <4>1, <4>2 DEF Right
    <3>5. CASE q.cached = None
      <4>1. Serve(s, entries)
        BY <3>2, <3>5 DEF GetAuthorizedBlob
      <4> QED BY <3>1, <3>2, <3>3, <4>1 DEF MaySee
    <3> QED BY <3>4, <3>5
  <2> HIDE DEF next, q
  <2>4. ServedOk(next, GroupsOf(s), Safe)
    BY <2>2, <2>3 DEF ServedOk
  <2> QED BY <1>1, <1>4, <2>1, <2>2, <2>4, ServingStep
<1>7. Stored(s, NextBlob(s)) \/ Refused(s)
  BY ServeIs DEF GetAuthorizedBlob
<1> QED BY <1>5, <1>6, <1>7

\* No view is stored beside the revisions.
LEMMA StoreServes ==
  ASSUME Inv, ServingInv, Shared = {}, NEW s \in Session, StoreView(s)
  PROVE  ServingInv'
<1> DEFINE next == [syncing[s] EXCEPT !.at = "fetched"]
<1>1. syncing[s] \in Request /\ Step(s, next) /\ views' = views /\ index' = index
  BY DEF Inv, TypeInv, StoreView
<1>2. next \in Request /\ next.at = "fetched"
  BY <1>1 DEF Request, Places
<1> HIDE DEF next
<1>3. ServedOk(next, GroupsOf(s), Safe)
  BY <1>2 DEF ServedOk
<1> QED BY <1>1, <1>2, <1>3, ServingQuiet

\* A change of the groups marks every session that relied on them.
LEMMA ChangeServes ==
  ASSUME Inv, ServingInv, NEW f \in Follower, Operating(f)
  PROVE  ServingInv'
<1>1. Change(f) /\ \A g \in Follower : g # f => members'[g] = members[g]
  BY DEF Operating, RevokeFollower, UpdateFollowerGroups, Inv, TypeInv
<1>2. altered' = altered /\ views' = views /\ index' = index
  BY <1>1 DEF Change
<1>3. ASSUME NEW s \in Session
      PROVE  ServedOk(syncing'[s], members'[FollowerOf[s]].groups, Safe)
  <2> DEFINE was == syncing[s]
             more == FollowerOf[s] = f /\ was.at # "idle"
             q == [was EXCEPT !.changed = was.changed \/ more]
  <2>1. was \in Request /\ ServedOk(was, GroupsOf(s), Safe)
    BY DEF Inv, TypeInv, ServingInv
  <2>2. syncing'[s] = q
    BY <1>1 DEF Change
  <2>3. more <=> (FollowerOf[s] = f /\ was.at # "idle")
    OBVIOUS
  <2>4. more \in BOOLEAN
    OBVIOUS
  <2> HIDE DEF was, more
  <2>5. /\ q.at = was.at /\ q.revision = was.revision /\ q.groups = was.groups
        /\ q.wanted = was.wanted /\ q.now = was.now /\ q.candidates = was.candidates
        /\ q.cached = was.cached /\ q.changed = (was.changed \/ more)
    BY <2>1 DEF Request
  <2> HIDE DEF q
  <2>6. CASE more
    <3>1. q.changed = TRUE
      BY <2>5, <2>6
    <3> QED BY <2>1, <2>2, <2>5, <3>1 DEF ServedOk
  <2>7. CASE ~more /\ FollowerOf[s] # f
    <3>1. members'[FollowerOf[s]].groups = GroupsOf(s)
      BY <1>1, <2>7, DistributionConstants DEF GroupsOf
    <3>2. ServedOk(q, GroupsOf(s), Safe)
      <4>1. q.changed = was.changed
        BY <2>1, <2>5, <2>7 DEF Request
      <4> QED BY <2>1, <2>5, <4>1 DEF ServedOk
    <3> QED BY <2>2, <3>1, <3>2
  <2>8. CASE ~more /\ FollowerOf[s] = f
    <3>1. q.at = "idle"
      BY <2>3, <2>5, <2>8
    <3> QED BY <2>2, <3>1 DEF ServedOk
  <2> QED BY <2>2, <2>6, <2>7, <2>8
<1>4. Safe' = Safe /\ \A s : GroupsOf(s)' = members'[FollowerOf[s]].groups
  BY <1>2 DEF Safe, GroupsOf
<1>5. \A s \in Session : ServedOk(syncing[s], GroupsOf(s), Safe)'
  BY <1>3, <1>4 DEF ServedOk
<1>6. \A k \in DOMAIN index' :
        /\ \A c \in index'[k].candidates : c.kind = "revision"
        /\ Safe' => Right(index'[k].entries, index'[k].candidates, index'[k].scope.groups)
  BY <1>2, <1>4 DEF ServingInv
<1> QED BY <1>2, <1>5, <1>6 DEF ServingInv, Right

\* What leaves the sessions, the index and the groups alone, and makes no row right.
LEMMA OtherServes ==
  ASSUME ServingInv, syncing' = syncing, index' = index, members' = members, views' = views,
         Safe' => Safe
  PROVE  ServingInv'
<1>1. \A s : GroupsOf(s)' = GroupsOf(s)
  BY DEF GroupsOf
<1>2. \A q, groups : ServedOk(q, groups, Safe) => ServedOk(q, groups, Safe')
  BY DEF ServedOk
<1>3. \A s \in Session : ServedOk(syncing'[s], GroupsOf(s)', Safe')
  BY <1>1, <1>2 DEF ServingInv
<1>4. \A s \in Session : ServedOk(syncing[s], GroupsOf(s), Safe)'
  BY <1>3 DEF ServedOk
<1>5. \A k \in DOMAIN index' :
        /\ \A c \in index'[k].candidates : c.kind = "revision"
        /\ Safe' => Right(index'[k].entries, index'[k].candidates, index'[k].scope.groups)
  BY DEF ServingInv
<1> QED BY <1>4, <1>5 DEF ServingInv, Right

\* Every step of a session,
LEMMA ActsServe ==
  ASSUME Inv, ServingInv, Shared = {}, NEW s \in Session, Acts(s)
  PROVE  ServingInv'
<1>1. CASE ListRevisions(s, TRUE) \/ ListRevisions(s, FALSE)
  BY <1>1, ListServes
<1>2. CASE Fetching(s)
  BY <1>2, AuthorizedServes, ReuseServes, AskServes, BlobServes DEF Fetching
<1>3. CASE StoreView(s)
  BY <1>3, StoreServes
<1>4. CASE Apply(s) \/ Lose(s) \/ Interrupt(s)
  <2>1. Step(s, Idle) /\ views' = views /\ index' = index
    BY <1>4 DEF Apply, Lose, Interrupt
  <2> QED BY <2>1, IdleIs, IdleIsServed, ServingQuiet
<1> QED BY <1>1, <1>2, <1>3, <1>4 DEF Acts, Synchronizing

\* and every step.
LEMMA NextServes ==
  ASSUME Inv, ServingInv, Shared = {}, [Next]_vars
  PROVE  ServingInv'
<1>1. CASE \E s \in Session : Acts(s)
  BY <1>1, ActsServe
<1>2. CASE \E f \in Follower : Operating(f)
  BY <1>2, ChangeServes
<1>3. \/ \E w \in Publisher : Publishing(w)
      \/ \E f \in Follower : AbandonFollowerRun(f)
      \/ \E f \in Follower, b \in Spec : SpoilBlob(f, b)
      \/ \E i \in Published : SpoilRow(i)
      \/ UNCHANGED vars
      => /\ syncing' = syncing /\ index' = index /\ members' = members /\ views' = views
         /\ altered \subseteq altered'
  BY DEF Publishing, PublishProfile, CommitRevision, AbandonFollowerRun, SpoilBlob, SpoilRow,
         vars, source, follower
<1>4. altered \subseteq altered' => (Safe' => Safe)
  BY DEF Safe
<1> QED BY <1>1, <1>2, <1>3, <1>4, OtherServes, Zenon DEF Next, Disturbance, Acts

\* At first no session waits for anything.
LEMMA InitServes ==
  ASSUME Init
  PROVE  ServingInv
  BY IdleIsServed DEF Init, ServingInv

\* ViewBlobsAreServed: every blob of the view a follower was just shown is served to it,
\* unless its groups changed in between or a stored row was rewritten; as long as no
\* follower stores its views beside the source's revisions, where they become candidates.
THEOREM ShownIsServed ==
  ASSUME Shared = {}
  PROVE  Distributing => []ViewBlobsAreServed
<1>1. Init => ServingInv
  BY InitServes
<1>2. Inv /\ ServingInv /\ [Next]_vars => ServingInv'
  BY NextServes
<1>3. ServingInv => ViewBlobsAreServed
  BY DEF ServingInv, ServedOk, Safe, ViewBlobsAreServed
<1> QED BY <1>1, <1>2, <1>3, InvHolds, PTL DEF Distributing

----------------------------------------------------------------------------
(* The records keep their form. *)

\* No number passes the bound on publications.
BoundInv ==
  /\ IsFiniteSet(Published) /\ \A i \in Published : catalog[i] <= MaxPublish
  /\ \A w \in Publisher : publishing[w] # NotPublishing => publishing[w].sequence <= MaxPublish

\* A publication numbers its revision within the bound.
LEMMA PublishBounds ==
  ASSUME Inv, BoundInv, NEW w \in Publisher, NEW i \in Revision, PublishProfile(w, i)
  PROVE  BoundInv'
<1>1. PICK n : n = Latest(SequencesOf(Content[i].name)) + 1
  OBVIOUS
<1>2. /\ publishing' = [publishing EXCEPT ![w] = [revision |-> i, sequence |-> n]]
      /\ catalog' = catalog /\ Cardinality(Published) < MaxPublish
  BY <1>1 DEF PublishProfile
<1>3. n = Cardinality(OfProfile(Content[i].name)) + 1 /\ Cardinality(OfProfile(Content[i].name)) \in Nat
  BY <1>1, ContentIs, CountIs DEF Inv
<1>4. Cardinality(OfProfile(Content[i].name)) <= Cardinality(Published) /\ Cardinality(Published) \in Nat
  <2>1. OfProfile(Content[i].name) \subseteq Published
    BY DEF OfProfile
  <2> QED BY <2>1, FS_Subset, FS_CardinalityType DEF BoundInv
<1>5. n <= MaxPublish
  BY <1>2, <1>3, <1>4, DistributionConstants
<1>6. publishing \in [Publisher -> [revision: Ready \cup {None}, sequence: Nat]]
  BY DEF Inv, TypeInv
<1>7. \A v \in Publisher : publishing'[v] # NotPublishing => publishing'[v].sequence <= MaxPublish
  <2>1. \A v \in Publisher :
          publishing'[v] = [revision |-> i, sequence |-> n] \/ publishing'[v] = publishing[v]
    BY <1>2, <1>6
  <2> QED BY <1>5, <2>1 DEF BoundInv
<1> QED BY <1>2, <1>7 DEF BoundInv, Published

\* And the commit stores it under that number.
LEMMA CommitBounds ==
  ASSUME Inv, BoundInv, NEW w \in Publisher, CommitRevision(w)
  PROVE  BoundInv'
<1>1. PICK i, n : i = publishing[w].revision /\ n = publishing[w].sequence
  OBVIOUS
<1>2. /\ publishing' = [publishing EXCEPT ![w] = NotPublishing] /\ publishing[w] # NotPublishing
      /\ \/ catalog' = catalog
         \/ catalog' = [j \in Published \cup {i} |-> IF j = i THEN n ELSE catalog[j]]
  BY <1>1 DEF CommitRevision
<1>3. n <= MaxPublish
  BY <1>1, <1>2 DEF BoundInv
<1>4. IsFiniteSet(Published') /\ \A j \in Published' : catalog'[j] <= MaxPublish
  <2>1. CASE catalog' = catalog
    BY <2>1 DEF BoundInv, Published
  <2>2. CASE catalog' = [j \in Published \cup {i} |-> IF j = i THEN n ELSE catalog[j]]
    <3>1. Published' = Published \cup {i}
      BY <2>2 DEF Published
    <3>2. IsFiniteSet(Published \cup {i})
      BY FS_AddElement DEF BoundInv
    <3> QED BY <1>3, <2>2, <3>1, <3>2 DEF BoundInv
  <2> QED BY <1>2, <2>1, <2>2
<1>5. publishing \in [Publisher -> [revision: Ready \cup {None}, sequence: Nat]]
  BY DEF Inv, TypeInv
<1>6. \A v \in Publisher : publishing'[v] = NotPublishing \/ publishing'[v] = publishing[v]
  BY <1>2, <1>5
<1> QED BY <1>4, <1>6 DEF BoundInv

\* Nothing else numbers a revision.
LEMMA NextBounds ==
  ASSUME Inv, BoundInv, [Next]_vars
  PROVE  BoundInv'
<1>1. CASE \E w \in Publisher : Publishing(w)
  BY <1>1, PublishBounds, CommitBounds DEF Publishing
<1>2. CASE \E s \in Session : Acts(s)
  <2>1. catalog' = catalog /\ publishing' = publishing
    BY <1>2, ActsStep DEF Step
  <2> QED BY <2>1 DEF BoundInv, Published
<1>3. \/ \E f \in Follower : Operating(f) \/ AbandonFollowerRun(f)
      \/ \E f \in Follower, b \in Spec : SpoilBlob(f, b)
      \/ \E i \in Published : SpoilRow(i)
      \/ UNCHANGED vars
      => catalog' = catalog /\ publishing' = publishing
  BY DEF Operating, RevokeFollower, UpdateFollowerGroups, Change, AbandonFollowerRun, SpoilBlob,
         SpoilRow, vars, source, follower
<1>4. CASE catalog' = catalog /\ publishing' = publishing
  BY <1>4 DEF BoundInv, Published
<1> QED BY <1>1, <1>2, <1>3, <1>4, Zenon DEF Next, Disturbance, Acts

\* The first revisions have number 1.
LEMMA InitBounds ==
  ASSUME Init
  PROVE  BoundInv
<1>1. Published = Earlier /\ \A i \in Earlier : catalog[i] = 1
  BY DEF Init, Published
<1>2. \A w \in Publisher : publishing[w] = NotPublishing
  BY DEF Init
<1> QED BY <1>1, <1>2, EarlierIsReady, DistributionConstants DEF BoundInv

\* A number is at least 1.
LEMMA NumbersArePositive ==
  ASSUME Inv, NEW i \in Published
  PROVE  catalog[i] \in Nat \ {0}
<1> DEFINE name == Content[i].name
<1>1. catalog[i] \in SequencesOf(name)
  BY DEF SequencesOf, OfProfile
<1>2. i \in Revision
  BY DEF Inv, TypeInv, Ready
<1>3. name \in ProfileName
  BY <1>2, ContentIs
<1>4. SequencesOf(name) = 1..Cardinality(OfProfile(name)) /\ Cardinality(OfProfile(name)) \in Nat
  BY <1>3, CountIs DEF Inv, NumberInv
<1> QED BY <1>1, <1>4

\* TypeOK: the records keep their form, the numbers their bound and the index of earlier
\* answers its bound, with one entry for each scope.
THEOREM RecordsTyped == Distributing => []TypeOK
<1>1. Init => BoundInv
  BY InitBounds
<1>2. Inv /\ BoundInv /\ [Next]_vars => BoundInv'
  BY NextBounds
<1>3. ASSUME Inv, BoundInv PROVE TypeOK
  <2>1. \A i \in Published : catalog[i] \in 1..MaxPublish
    BY <1>3, NumbersArePositive, DistributionConstants DEF BoundInv
  <2>2. catalog \in [Published -> 1..MaxPublish]
    BY <1>3, <2>1 DEF Inv, TypeInv
  <2> QED BY <1>3, <2>2 DEF Inv, TypeInv, Scoped, Request, TypeOK
<1> QED BY <1>1, <1>2, <1>3, InvHolds, PTL DEF Distributing
=============================================================================
