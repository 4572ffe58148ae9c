--------------------------- MODULE FollowerProofs ---------------------------
(***************************************************************************)
(* What planning guarantees, for all families of revisions, user edits and *)
(* numbers of runs: a converged follower has nothing to do, local edits    *)
(* survive, nothing written is forgotten, and a recipe the executor would  *)
(* refuse is left to a person.                                             *)
(***************************************************************************)
EXTENDS Follower, FiniteSetTheorems, SequenceTheorems, WellFoundedInduction, TLAPS

----------------------------------------------------------------------------
(* Contents. *)

\* The digest of something that is not what the resource manages is no content.
LEMMA Contents ==
  /\ Source \in Slot /\ Local \in Slot /\ Source # Local
  /\ Empty \in Content /\ \A s \in Slot : Empty[s] = Nothing
  /\ Opaque \notin Content /\ None \notin Content /\ None # Opaque /\ Nothing # Dir
  /\ \A v \in Value : v \notin {Nothing, Dir, "opaque"}
<1>1. \A v \in Value : v \notin {Nothing, Dir, "opaque"}
  BY PlansAssumption
<1>2. Opaque[Source] = "opaque"
  BY PlansAssumption DEF Opaque
<1>3. \A c \in Content : c[Source] \in Value \cup {Nothing, Dir}
  BY PlansAssumption DEF Content
<1>5. None \notin Content
  BY PlansAssumption DEF Content
<1>6. Opaque \in [Slot -> Value \cup {Nothing, Dir, "opaque"}]
  BY DEF Opaque
<1>4. "opaque" \notin Value \cup {Nothing, Dir} /\ Nothing # Dir
  BY PlansAssumption DEF Nothing, Dir
<1> QED BY <1>1, <1>2, <1>3, <1>4, <1>5, <1>6, PlansAssumption DEF Content, Empty

\* Equal contents are equal at every place.
LEMMA SameContent ==
  ASSUME NEW c \in Content, NEW e \in Content, \A s \in Slot : c[s] = e[s]
  PROVE  c = e
  BY DEF Content

\* What is kept of a content.
LEMMA Kept ==
  ASSUME NEW c \in Content, NEW ss
  PROVE  /\ Keep(c, ss) \in Content
         /\ \A s \in Slot : Keep(c, ss)[s] = IF s \in ss THEN c[s] ELSE Nothing
  BY DEF Content, Keep

\* The content of a file without markers.
LEMMA UnmarkedIs ==
  ASSUME NEW v \in Value \cup {Nothing, Dir}
  PROVE  /\ Unmarked(v) \in Content
         /\ \A s \in Slot : Unmarked(v)[s] = IF s = Local THEN v ELSE Nothing
  BY Contents DEF Content, Unmarked, Empty

\* A text file is composed of its marked text and the rest.
LEMMA ComposeIs ==
  ASSUME NEW text \in Value, NEW c \in Content
  PROVE  /\ Compose(text, c) \in Content
         /\ \A s \in Slot : Compose(text, c)[s] =
              IF s = Source THEN text
              ELSE IF s = Local THEN IF c[Source] = Nothing /\ c[Local] = text THEN Nothing
                                     ELSE c[Local]
              ELSE Nothing
<1> DEFINE rest == IF c[Source] = Nothing /\ c[Local] = text THEN Nothing ELSE c[Local]
           e == [s \in Slot |-> IF s = Source THEN text ELSE IF s = Local THEN rest ELSE Nothing]
<1>1. rest \in Value \cup {Nothing, Dir}
  BY Contents DEF Content
<1>2. Compose(text, c) = e
  BY Contents DEF Compose, Empty
<1>3. e \in Content
  BY <1>1 DEF Content
<1> QED BY <1>2, <1>3

----------------------------------------------------------------------------
(* Desired resources, records and observations. *)

\* A resource that passed decoding and validation.
Wanted(d) ==
  /\ d \in DesiredResource /\ WellFormed(d) /\ Compatible(d.kind, d.policy)
  /\ d.policy = "append-local" => d.object = "regular" /\ d.mode = 0

\* A record of the same class, or none.
Recorded(rec, d) ==
  rec # None => /\ rec \in AppliedResource /\ Class(rec.kind) = Class(d.kind)
                /\ rec.policy = "append-local" => rec.kind = "file"
                /\ rec.kind \notin {"tool", "credential"}
                /\ rec.kind = "file" => \E v \in Value : rec.content = Unmarked(v)

\* What is at a target, and at the target of a text.
Found(t) == t \in State /\ (t.object \in {"absent", "unreadable"} => t.content = Empty)
Fits(d, t) == Found(t) /\ (d.kind = "file" => Present(t.content) \subseteq {Source, Local})

\* No mode is missing, and what a file is asked to be is known.
LEMMA Modes == None \notin Mode /\ 0 \in Mode
  BY FollowerAssumption DEF Mode

\* Each kind has its policies.
LEMMA PolicyOf ==
  ASSUME NEW d, Wanted(d)
  PROVE  /\ d.kind = "file" => d.policy \in {"replace", "replace-if-unmodified", "append-local"}
         /\ d.kind = "directory" => d.policy \in {"mirror-owned", "replace"}
         /\ d.kind = "config" => d.policy \in {"merge", "replace"}
         /\ d.kind = "skill" => d.policy \in {"replace-if-unmodified", "replace"}
         /\ d.kind = "tool" => d.policy = "ensure"
         /\ d.kind = "credential" => d.policy = "require-local"
         /\ d.kind \in {"file", "directory", "config", "skill", "tool", "credential"}
  BY DEF Wanted, Compatible, DesiredResource, Kind

\* Kinds of one class.
LEMMA ClassIs ==
  ASSUME NEW k \in Kind
  PROVE  /\ Class(k) = "file" <=> k = "file"
         /\ Class(k) = "config" <=> k = "config"
         /\ Class(k) = "tree" <=> k \in {"directory", "skill"}
         /\ Class(k) = "none" <=> k \in {"tool", "credential"}
<1>1. CASE k = "file"
  <2>1. Class(k) = k
    BY <1>1, Zenon DEF Class, Tree
  <2> QED BY <1>1, <2>1
<1>2. CASE k = "config"
  <2>1. Class(k) = k
    BY <1>2, Zenon DEF Class, Tree
  <2> QED BY <1>2, <2>1
<1>3. CASE k \in {"directory", "skill"}
  <2>1. Class(k) = "tree"
    BY <1>3, Zenon DEF Class, Tree
  <2> QED BY <1>3, <2>1
<1>4. CASE k \in {"tool", "credential"}
  <2>1. Class(k) = "none"
    BY <1>4, Zenon DEF Class, Tree
  <2> QED BY <1>4, <2>1
<1> QED BY <1>1, <1>2, <1>3, <1>4 DEF Kind

\* The record of a resource is of its class.
LEMMA RecordIs ==
  ASSUME NEW d \in DesiredResource
  PROVE  /\ Record(d) \in AppliedResource /\ Record(d) # None
         /\ Record(d).kind = d.kind /\ Record(d).policy = d.policy /\ Record(d).target = d.target
         /\ Record(d).object = d.object /\ Record(d).mode = d.mode /\ Record(d).content = d.content
<1>1. Record(d) \in AppliedResource
  BY DEF Record, DesiredResource, AppliedResource
<1> QED BY <1>1, FollowerAssumption DEF Record

\* What is seen of a file.
LEMMA FileSeen ==
  ASSUME NEW t, Found(t), NEW d \in DesiredResource, d.kind = "file",
         d.object \in {"regular", "symlink"}, NEW rec, NEW o, o = Observe(t, d, rec)
  PROVE  /\ o.state \in {"absent", "unverifiable", "present"} /\ o.object = t.object
         /\ o.state = "absent" <=> t.object = "absent"
         /\ o.state = "unverifiable" <=> t.object = "unreadable"
         /\ o.state = "absent" => t.content = Empty
         /\ o.content # t.content => o.content = Opaque
         /\ t.object = d.object => o.content = t.content
         /\ t.object = "regular" /\ d.object = "regular" => o.mode = t.mode
         /\ t.object = "symlink" => o.mode = None
         /\ o = Seen(o.state, o.object, o.mode, o.content)
<1> t.object \in {"absent", "regular", "symlink", "directory", "unreadable"}
  BY DEF Found, State, Object
<1>1. CASE t.object = "absent"
  BY <1>1 DEF Observe, Seen, Found
<1>2. CASE t.object = "unreadable"
  BY <1>2 DEF Observe, Seen, Found
<1>3. CASE t.object \in {"regular", "symlink", "directory"}
  <2>1. o = ObserveFile(t, d)
    BY <1>3, Zenon DEF Observe, Tree
  <2>2. CASE t.object = "symlink"
    BY <2>1, <2>2 DEF ObserveFile, Seen
  <2>3. CASE t.object = "directory"
    BY <2>1, <2>3 DEF ObserveFile, Foreign, Seen
  <2>4. CASE t.object = "regular" /\ d.object = "symlink"
    BY <2>1, <2>4 DEF ObserveFile, Foreign, Seen
  <2>5. CASE t.object = "regular" /\ d.object = "regular"
    BY <2>1, <2>5 DEF ObserveFile, Seen
  <2> QED BY <1>3, <2>2, <2>3, <2>4, <2>5
<1> QED BY <1>1, <1>2, <1>3

\* A resource with its own record.
LEMMA OwnRecord ==
  ASSUME NEW d, Wanted(d), d.kind \notin {"tool", "credential"}
  PROVE  Recorded(Record(d), d)
<1>1. /\ Record(d) \in AppliedResource /\ Record(d).kind = d.kind /\ Record(d).policy = d.policy
      /\ Record(d).content = d.content
  BY RecordIs DEF Wanted
<1>2. d.kind = "file" => \E v \in Value : d.content = Unmarked(v)
  BY DEF Wanted, WellFormed
<1>3. d.policy = "append-local" => d.kind = "file"
  BY PolicyOf
<1> HIDE DEF Wanted
<1> QED BY <1>1, <1>2, <1>3 DEF Recorded

----------------------------------------------------------------------------
(* What an action does to its target. *)

\* Actions that are executed; the others end the run.
Live(x) == x.draft.kind \notin {"human-action", "drift-conflict"}

\* The place of a record that a place of the target is compared with.
RecordPlace(d, s) == IF d.policy = "append-local" THEN Local ELSE s

\* The content at s is as recorded.
AsRecorded(d, rec, t, s) ==
  /\ rec # None /\ t.content[s] = rec.content[RecordPlace(d, s)]
  /\ d.policy = "append-local" => s = Source

\* Its Apply Policy lets an action change a place.
Licensed(x, ov, t, u, s) ==
  \/ x.d.policy = "append-local" /\ s = Local /\ t.content[s] = u.content[Source]
  \/ x.d.policy = "replace"
  \/ x.d.policy = "mirror-owned" /\ x.d.content[s] # Nothing
  \/ x.d.policy = "merge" /\ s \notin ov /\ (s \in x.draft.adds \/ s \in x.draft.removes)

\* What the record declared and the action left is still declared.
Keeps(x, rec, ov, u) ==
  \A s \in Slot :
    /\ rec # None /\ Declared(rec, s) = u.content[s] /\ u.content[s] \notin {Nothing, Dir}
    /\ s \notin ov /\ ~GivenUp(x.d, s)
    => Declared(x.d, s) = u.content[s]

\* An action changes only what is as recorded or what its policy lets it change.
Respects(x, rec, ov, t, u) ==
  \A s \in Slot :
    t.content[s] # u.content[s] /\ t.content[s] \notin {Nothing, Dir}
      => AsRecorded(x.d, rec, t, s) \/ Licensed(x, ov, t, u, s)

\* And then there is nothing left to do.
Replanned(d, u, ov) == PlanResource(d, Observe(u, d, Record(d)), Record(d), ov)

\* A list of one draft.
LEMMA DraftIs ==
  ASSUME NEW p, NEW k, NEW adds, NEW removes, <<p>> = Draft(k, adds, removes)
  PROVE  p.kind = k /\ p.adds = adds /\ p.removes = removes
  BY DEF Draft

\* The kinds of the drafts that have a name.
LEMMA Named ==
  ASSUME NEW p
  PROVE  /\ <<p>> = NoOp => p.kind = "no-op"
         /\ <<p>> = Human => p.kind = "human-action"
         /\ <<p>> = Drift => p.kind = "drift-conflict"
         /\ <<p>> = Write => p.kind = "write-file"
  BY DraftIs DEF NoOp, Human, Drift, Write

\* What an action does, by the kind of its draft.
LEMMA EffectIs ==
  ASSUME NEW x, NEW t
  PROVE  /\ x.draft.kind = "no-op" => Effect(x, t) = {t}
         /\ x.draft.kind = "write-file" => Effect(x, t) = WriteFile(x, t)
         /\ x.draft.kind = "write-config" => Effect(x, t) = WriteConfig(x, t)
         /\ x.draft.kind = "mirror-directory" => Effect(x, t) = MirrorDirectory(x, t)
         /\ x.draft.kind = "remove-resource" => Effect(x, t) = RemoveResource(x, t)
         /\ x.draft.kind = "agent-task" => Effect(x, t) = {Regular(0, Empty)}
         /\ x.draft.kind = "install-tool" => Effect(x, t) \subseteq {Regular(0, Empty)}
  BY Zenon DEF Effect

\* What is verified declares what is there.
LEMMA VerifiedIs ==
  ASSUME NEW d, Wanted(d), NEW u, Verified(d, u)
  PROVE  /\ d.policy = "append-local" => u.object = "regular" /\ u.content[Source] = d.content[Local]
         /\ d.kind = "file" /\ d.policy # "append-local"
              => /\ u.object = d.object /\ u.content = d.content
                 /\ d.object = "regular" => u.mode = d.mode
         /\ d.kind = "config"
              => u.object = "regular" /\ Keep(u.content, Present(d.content)) = d.content
         /\ d.kind \in {"directory", "skill"}
              => /\ u.object = "directory" /\ u.mode = d.mode
                 /\ Keep(u.content, Present(d.content)) = d.content
         /\ d.kind \in {"tool", "credential"} => u.object # "absent"
<1>1. CASE d.policy = "append-local"
  <2>2. d.kind = "file"
    BY <1>1, PolicyOf
  <2>1. u.object = "regular" /\ u.content[Source] = d.content[Local]
    BY <1>1, <2>2, Zenon DEF Verified, Tree
  <2> QED BY <1>1, <2>1, <2>2
<1>2. CASE d.policy # "append-local" /\ d.kind = "file"
  <2>1. /\ u.object = d.object /\ u.content = d.content
        /\ d.object = "regular" => u.mode = d.mode
    BY <1>2, Zenon DEF Verified, Tree
  <2> QED BY <1>2, <2>1
<1>3. CASE d.policy # "append-local" /\ d.kind = "config"
  <2>1. u.object = "regular" /\ Keep(u.content, Present(d.content)) = d.content
    BY <1>3, Zenon DEF Verified, Tree
  <2> QED BY <1>3, <2>1
<1>4. CASE d.policy # "append-local" /\ d.kind \in {"directory", "skill"}
  <2>1. /\ u.object = "directory" /\ u.mode = d.mode
        /\ Keep(u.content, Present(d.content)) = d.content
    BY <1>4, Zenon DEF Verified, Tree
  <2> QED BY <1>4, <2>1
<1>5. CASE d.policy # "append-local" /\ d.kind \in {"tool", "credential"}
  <2>1. u.object # "absent"
    BY <1>5, Zenon DEF Verified, Tree
  <2> QED BY <1>5, <2>1
<1> QED BY <1>1, <1>2, <1>3, <1>4, <1>5, PolicyOf

\* What a resource declares is there once the action is verified.
LEMMA DeclaredIsThere ==
  ASSUME NEW d, Wanted(d), NEW u \in State, Verified(d, u), NEW s \in Slot,
         Declared(d, s) # Nothing
  PROVE  u.content[s] = Declared(d, s)
<1>1. d.content \in Content /\ u.content \in Content
  BY DEF Wanted, DesiredResource, State
<1>2. CASE d.policy = "append-local"
  BY <1>2, VerifiedIs DEF Declared
<1>3. CASE d.policy # "append-local" /\ d.kind = "file"
  BY <1>3, VerifiedIs DEF Declared
<1>4. CASE d.policy # "append-local" /\ d.kind \in {"config", "directory", "skill"}
  <2>1. Keep(u.content, Present(d.content)) = d.content
    BY <1>4, VerifiedIs
  <2>2. s \in Present(d.content)
    BY <1>4 DEF Declared, Present
  <2> QED BY <1>1, <1>4, <2>1, <2>2, Kept DEF Declared
<1>5. CASE d.kind \in {"tool", "credential"}
  BY <1>5, PolicyOf, Contents DEF Wanted, WellFormed, Declared
<1> QED BY <1>2, <1>3, <1>4, <1>5, PolicyOf

\* Each policy has its plan.
LEMMA PlanIs ==
  ASSUME NEW d, NEW o, NEW rec, NEW ov,
         d.kind \in {"directory", "skill"} => o.state \in {"directory", "absent"}
  PROVE  /\ d.policy = "replace" => PlanResource(d, o, rec, ov) = PlanReplace(d, o, rec)
         /\ d.policy = "mirror-owned" => PlanResource(d, o, rec, ov) = PlanMirror(d, o, rec)
         /\ d.policy = "merge" => PlanResource(d, o, rec, ov) = PlanMerge(d, o, rec, ov)
         /\ d.policy = "replace-if-unmodified"
              => PlanResource(d, o, rec, ov) = PlanReplaceIfUnmodified(d, o, rec)
         /\ d.policy = "append-local" => PlanResource(d, o, rec, ov) = PlanAppendLocal(d, o, rec)
         /\ d.policy = "ensure" => PlanResource(d, o, rec, ov) = PlanEnsure(d, o)
         /\ d.policy = "require-local" => PlanResource(d, o, rec, ov) = PlanRequireLocal(o)
<1>1. ~RootConflict(d, o)
  BY DEF RootConflict, Tree
<1> QED BY <1>1, Zenon DEF PlanResource

\* When observed and desired files match.
LEMMA FileMatches ==
  ASSUME NEW d, NEW o, NEW rec, d.kind = "file"
  PROVE  ObservedMatchesDesired(d, o, rec) <=>
           /\ o.state = "present" /\ o.content = d.content /\ o.object = d.object
           /\ o.mode \in {None, d.mode}
  BY Zenon DEF ObservedMatchesDesired, Tree

----------------------------------------------------------------------------
(* Files under replace and replace-if-unmodified. *)

\* A plain file is wanted, and something is found.
PlainFile(d) == Wanted(d) /\ d.kind = "file" /\ d.policy # "append-local"

\* What a plain file is asked to be: a regular file or a link, with a text.
LEMMA PlainFileIs ==
  ASSUME NEW d, PlainFile(d)
  PROVE  /\ d \in DesiredResource /\ d.object \in {"regular", "symlink"} /\ d.content \in Content
         /\ d.mode \in Mode /\ d.policy \in {"replace", "replace-if-unmodified"}
         /\ Present(d.content) \subseteq {Source, Local}
<1>1. PICK v \in Value : d.content = Unmarked(v)
  BY DEF PlainFile, Wanted, WellFormed
<1>2. Present(d.content) \subseteq {Source, Local}
  BY <1>1, UnmarkedIs DEF Present
<1> QED BY <1>2, PolicyOf DEF PlainFile, Wanted, WellFormed, DesiredResource

\* A file that is as verified matches.
LEMMA VerifiedFileMatches ==
  ASSUME NEW d, PlainFile(d), NEW u, Found(u), Verified(d, u), NEW rec
  PROVE  /\ ObservedMatchesDesired(d, Observe(u, d, rec), rec)
         /\ Observe(u, d, rec).state = "present"
         /\ Observe(u, d, rec).content = d.content /\ Observe(u, d, rec).object = d.object
         /\ d.object = "regular" => Observe(u, d, rec).mode = d.mode
<1> DEFINE o == Observe(u, d, rec)
<1>1. u.object = d.object /\ u.content = d.content /\ (d.object = "regular" => u.mode = d.mode)
  BY VerifiedIs DEF PlainFile
<1>2. /\ o.state \in {"absent", "unverifiable", "present"} /\ o.object = u.object
      /\ o.state = "absent" <=> u.object = "absent"
      /\ o.state = "unverifiable" <=> u.object = "unreadable"
      /\ u.object = d.object => o.content = u.content
      /\ u.object = "regular" /\ d.object = "regular" => o.mode = u.mode
      /\ u.object = "symlink" => o.mode = None
  <2>1. d \in DesiredResource /\ d.kind = "file" /\ d.object \in {"regular", "symlink"}
    BY PlainFileIs DEF PlainFile
  <2> QED BY <2>1, FileSeen
<1> HIDE DEF o
<1>3. ObservedMatchesDesired(d, o, rec)
  BY <1>1, <1>2, PlainFileIs, FileMatches DEF PlainFile
<1>4. d.object \in {"regular", "symlink"}
  BY PlainFileIs
<1>5. /\ o.state = "present" /\ o.content = d.content /\ o.object = d.object
      /\ d.object = "regular" => o.mode = d.mode
  BY <1>1, <1>2, <1>4
<1> QED BY <1>3, <1>5 DEF o

\* The three-way comparison, with what it is asked to compare.
Side(c, m) == [digest |-> c, mode |-> m]
Same(x, y) == x.digest = y.digest /\ (y.mode = None \/ x.mode = y.mode)

\* What the three-way comparison tells of the observed and the applied state.
LEMMA DriftIs ==
  ASSUME NEW desired, NEW observed, NEW applied
  PROVE  LET drift == DetectSkillDrift(desired, observed, applied) IN
         /\ Same(observed, desired) => drift \in {"unchanged", "converged"}
         /\ drift \in {"unchanged", "converged"} => Same(observed, desired)
         /\ drift = "remote-only"
              => \/ applied.digest = None /\ observed.digest = None
                 \/ applied.digest # None /\ Same(observed, applied)
<1> DEFINE matches == /\ desired.digest = applied.digest
                      /\ desired.mode = None \/ applied.mode = None \/ desired.mode = applied.mode
           drift == DetectSkillDrift(desired, observed, applied)
<1>1. CASE Same(observed, desired)
  <2>1. drift = IF matches THEN "unchanged" ELSE "converged"
    BY <1>1, Zenon DEF DetectSkillDrift, Same
  <2> QED BY <1>1, <2>1
<1>2. CASE ~Same(observed, desired) /\ applied.digest = None
  <2>1. drift = IF observed.digest = None THEN "remote-only" ELSE "conflicting"
    BY <1>2, Zenon DEF DetectSkillDrift, Same
  <2> QED BY <1>2, <2>1
<1>3. CASE ~Same(observed, desired) /\ applied.digest # None
  <2>1. drift = CASE Same(observed, applied) -> "remote-only"
                  [] ~Same(observed, applied) /\ matches -> "local-only"
                  [] OTHER -> "conflicting"
    BY <1>3, Zenon DEF DetectSkillDrift, Same
  <2>2. CASE Same(observed, applied)
    BY <2>1, <2>2, <1>3, Zenon
  <2>3. CASE ~Same(observed, applied)
    <3>1. drift \in {"local-only", "conflicting"}
      BY <2>1, <2>3, Zenon
    <3> QED BY <3>1, <1>3
  <2> QED BY <1>3, <2>2, <2>3
<1> QED BY <1>1, <1>2, <1>3

\* replace-if-unmodified of a file: it is written when it is absent or as recorded.
LEMMA GuardedFilePlan ==
  ASSUME NEW d, d.kind = "file", NEW o, o.content # None,
         NEW rec, rec # None => rec.content # None
  PROVE  LET plan == PlanReplaceIfUnmodified(d, o, rec) IN
         /\ plan \in {Human, NoOp, Drift, Write}
         /\ plan = NoOp => ObservedMatchesDesired(d, o, rec)
         /\ plan = Write => \/ o.state = "absent"
                            \/ o.state # "unverifiable" /\ rec # None /\ o.content = rec.content
         /\ /\ o.state = "present" /\ ObservedMatchesDesired(d, o, rec)
            /\ rec # None => o.object = rec.object
            /\ o.content = d.content /\ (d.object = "regular" => o.mode = d.mode)
            => plan = NoOp
<1> DEFINE plan == PlanReplaceIfUnmodified(d, o, rec)
           met == ObservedMatchesDesired(d, o, rec)
           m(mode) == IF d.object = "regular" THEN mode ELSE None
           desired == Side(d.content, m(d.mode))
           observed == Side(ObservedDigest(o), m(o.mode))
           applied == IF rec = None THEN Side(None, m(None)) ELSE Side(rec.content, m(rec.mode))
           drift == DetectSkillDrift(desired, observed, applied)
           turned == rec # None /\ o.state = "present" /\ o.object # rec.object
<1>1. plan = IF o.state = "unverifiable" THEN Human
             ELSE IF turned THEN Drift
             ELSE IF drift \in {"unchanged", "converged"} THEN IF met THEN NoOp ELSE Drift
             ELSE IF drift = "remote-only" \/ ObservedDigest(o) = None
                  THEN IF met THEN NoOp ELSE Write
             ELSE Drift
  BY DEF PlanReplaceIfUnmodified, PlanReplace, Side, Tree
<1>2. /\ Same(observed, desired) => drift \in {"unchanged", "converged"}
      /\ drift = "remote-only"
              => \/ applied.digest = None /\ observed.digest = None
                 \/ applied.digest # None /\ Same(observed, applied)
  BY DriftIs
<1>3. /\ applied.digest = IF rec = None THEN None ELSE rec.content
      /\ observed.digest = ObservedDigest(o) /\ desired.digest = d.content
      /\ observed.mode = m(o.mode) /\ desired.mode = m(d.mode)
  BY DEF Side
<1>4. /\ o.state \in {"absent", "unverifiable"} => ObservedDigest(o) = None
      /\ o.state \notin {"absent", "unverifiable"} => ObservedDigest(o) = o.content
  BY DEF ObservedDigest
<1>5. NoOp # Write /\ NoOp # Human /\ NoOp # Drift /\ Write # Human /\ Write # Drift
  BY DEF NoOp, Write, Human, Drift, Draft
<1> HIDE DEF plan, met, desired, observed, applied, drift
<1>6. plan \in {Human, NoOp, Drift, Write} /\ (plan = NoOp => met)
  BY <1>1, <1>5
<1>7. plan = Write => \/ o.state = "absent"
                      \/ o.state # "unverifiable" /\ rec # None /\ o.content = rec.content
  <2> SUFFICES ASSUME plan = Write, o.state # "absent"
               PROVE  o.state # "unverifiable" /\ rec # None /\ o.content = rec.content
    OBVIOUS
  <2>1. o.state # "unverifiable" /\ (drift = "remote-only" \/ ObservedDigest(o) = None)
    BY <1>1, <1>5
  <2>2. ObservedDigest(o) = o.content
    BY <1>4, <2>1
  <2>3. applied.digest # None /\ Same(observed, applied)
    BY <1>2, <1>3, <2>1, <2>2
  <2> QED BY <1>3, <2>1, <2>2, <2>3 DEF Same
<1>8. ASSUME o.state = "present", met, rec # None => o.object = rec.object,
             o.content = d.content, d.object = "regular" => o.mode = d.mode
      PROVE  plan = NoOp
  <2>1. Same(observed, desired)
    BY <1>3, <1>4, <1>8 DEF Same
  <2> QED BY <1>1, <1>2, <1>8, <2>1
<1> QED BY <1>6, <1>7, <1>8 DEF plan, met

\* The action x is executed where its plan still holds, and u is the outcome.
Acts(x, rec, ov, t, u) ==
  /\ Fits(x.d, t) /\ Recorded(rec, x.d)
  /\ x.seen = Observe(t, x.d, rec)
  /\ PlanResource(x.d, x.seen, rec, ov) = <<x.draft>> /\ Live(x)
  /\ u \in Effect(x, t) /\ Verified(x.d, u)

\* All that is asked of it.
Faithful(x, rec, ov, t, u) ==
  /\ Fits(x.d, u) /\ Keeps(x, rec, ov, u) /\ Respects(x, rec, ov, t, u)
  /\ Replanned(x.d, u, ov) = NoOp

\* Plain files, under replace and replace-if-unmodified.
LEMMA PlainFileActs ==
  ASSUME NEW x, PlainFile(x.d), NEW rec, NEW ov, NEW t, NEW u, Acts(x, rec, ov, t, u)
  PROVE  Faithful(x, rec, ov, t, u)
<1> DEFINE d == x.d
           o == x.seen
           met == ObservedMatchesDesired(d, o, rec)
<1>1. /\ d \in DesiredResource /\ d.object \in {"regular", "symlink"} /\ d.content \in Content
      /\ d.mode \in Mode /\ d.policy \in {"replace", "replace-if-unmodified"}
      /\ Present(d.content) \subseteq {Source, Local} /\ d.kind = "file"
  BY PlainFileIs DEF PlainFile
<1>2. /\ Found(t) /\ t.content \in Content /\ Recorded(rec, d) /\ Verified(d, u)
      /\ o = Observe(t, d, rec) /\ PlanResource(d, o, rec, ov) = <<x.draft>>
  BY DEF Acts, Fits, Found, State
<1>3. x.draft.kind \in {"no-op", "write-file"} /\ (o.state = "absent" => t.content = Empty)
      /\ (x.draft.kind = "write-file" /\ d.policy = "replace-if-unmodified"
             => t.content = Empty \/ (rec # None /\ t.content = rec.content))
  <2>1. /\ o.state = "absent" => t.content = Empty
        /\ o.content # t.content => o.content = Opaque
    BY <1>1, <1>2, FileSeen
  <2>2. o.content # None /\ (rec # None => rec.content # None /\ rec.content \in Content)
    BY <1>2, <2>1, Contents DEF Recorded, AppliedResource
  <2>3. CASE d.policy = "replace"
    <3>1. <<x.draft>> = IF met THEN NoOp ELSE Write
      BY <1>1, <1>2, <2>3, PlanIs DEF PlanReplace, Tree
    <3> QED BY <3>1, <2>1, <2>3, Named
  <2>4. CASE d.policy = "replace-if-unmodified"
    <3>1. <<x.draft>> = PlanReplaceIfUnmodified(d, o, rec)
      BY <1>1, <1>2, <2>4, PlanIs
    <3>2. /\ <<x.draft>> \in {Human, NoOp, Drift, Write}
          /\ <<x.draft>> = Write => \/ o.state = "absent"
                                    \/ rec # None /\ o.content = rec.content
      BY <3>1, <2>2, <1>1, GuardedFilePlan
    <3>3. x.draft.kind \in {"no-op", "write-file"}
      BY <3>2, Named DEF Acts, Live
    <3>4. x.draft.kind = "write-file" => <<x.draft>> = Write
      BY <3>2, Named
    <3> QED BY <3>2, <3>3, <3>4, <2>1, <2>2, Contents
  <2> QED BY <1>1, <2>3, <2>4
<1>5. x.draft.kind = "write-file" =>
        u = [object |-> d.object, content |-> d.content, mode |-> WrittenMode(d)]
  <2> SUFFICES ASSUME x.draft.kind = "write-file"
               PROVE  u = [object |-> d.object, content |-> d.content, mode |-> WrittenMode(d)]
    OBVIOUS
  <2>1. Effect(x, t) = WriteFile(x, t)
    BY EffectIs
  <2>2. u \in WriteFile(x, t)
    BY <2>1 DEF Acts
  <2>3. d.policy # "append-local"
    BY <1>1
  <2> QED BY <2>2, <2>3 DEF WriteFile
<1>6. u.object = d.object /\ u.content = d.content
  BY <1>1, <1>2, VerifiedIs DEF PlainFile
<1>7. Found(u)
  <2>1. CASE x.draft.kind = "no-op"
    BY <2>1, <1>2, EffectIs DEF Acts
  <2>2. CASE x.draft.kind = "write-file"
    BY <2>2, <1>1, <1>5, Modes DEF Found, State, Object, WrittenMode
  <2> QED BY <1>3, <2>1, <2>2
<1>8. Fits(x.d, u)
  BY <1>1, <1>6, <1>7 DEF Fits
<1>9. Keeps(x, rec, ov, u)
  BY <1>1, <1>6 DEF Keeps, Declared
<1>10. Respects(x, rec, ov, t, u)
  <2> SUFFICES ASSUME NEW s \in Slot, t.content[s] # u.content[s], t.content[s] # Nothing,
                      d.policy = "replace-if-unmodified"
               PROVE  AsRecorded(d, rec, t, s)
    BY <1>1 DEF Respects, Licensed
  <2>1. x.draft.kind = "write-file"
    BY <1>3, EffectIs DEF Acts
  <2>2. rec # None /\ t.content = rec.content
    BY <2>1, <1>3, Contents
  <2> QED BY <2>2 DEF AsRecorded, RecordPlace
<1>11. Replanned(d, u, ov) = NoOp
  <2> DEFINE r == Record(d)
             p == Observe(u, d, r)
  <2>1. /\ ObservedMatchesDesired(d, p, r) /\ p.state = "present"
        /\ p.content = d.content /\ p.object = d.object /\ (d.object = "regular" => p.mode = d.mode)
    BY <1>2, <1>7, VerifiedFileMatches
  <2>2. r.object = d.object /\ r.content = d.content /\ d.content # None
    BY <1>1, RecordIs, Contents
  <2>3. CASE d.policy = "replace"
    BY <1>1, <2>1, <2>3, PlanIs DEF PlanReplace, Replanned
  <2>4. CASE d.policy = "replace-if-unmodified"
    <3>1. PlanReplaceIfUnmodified(d, p, r) = NoOp
      BY <1>1, <2>1, <2>2, GuardedFilePlan
    <3> QED BY <1>1, <2>4, <3>1, PlanIs DEF Replanned
  <2> QED BY <1>1, <2>3, <2>4
<1> QED BY <1>7, <1>8, <1>9, <1>10, <1>11 DEF Faithful

----------------------------------------------------------------------------
(* Files under append-local. *)

\* A file under append-local.
AppendedFile(d) == Wanted(d) /\ d.policy = "append-local"

\* A file under append-local is regular and has a text.
LEMMA AppendedFileIs ==
  ASSUME NEW d, AppendedFile(d)
  PROVE  /\ d \in DesiredResource /\ d.kind = "file" /\ d.object = "regular" /\ d.mode = 0
         /\ d.content[Local] \in Value /\ d.content = Unmarked(d.content[Local])
         /\ d.content \in Content
<1>1. d.kind = "file"
  BY PolicyOf DEF AppendedFile
<1>2. PICK v \in Value : d.content = Unmarked(v)
  BY <1>1 DEF AppendedFile, Wanted, WellFormed
<1>3. Unmarked(v) \in Content /\ Unmarked(v)[Local] = v
  BY UnmarkedIs, Contents
<1> QED BY <1>1, <1>2, <1>3 DEF AppendedFile, Wanted

\* Texts that are marked alike are marked the same.
LEMMA UnmarkedInjective ==
  ASSUME NEW v \in Value \cup {Nothing, Dir}, NEW c \in Content, Unmarked(v) = c
  PROVE  c[Local] = v
  BY UnmarkedIs, Contents

\* The marked text of what is seen, as a plain file.
MarkedText(o) == [o EXCEPT !.content = Unmarked(@[Source])]

\* append-local, case by case.
LEMMA AppendCases ==
  ASSUME NEW d, NEW o, NEW rec
  PROVE  LET plan == PlanAppendLocal(d, o, rec)
             marked == o.content[Source] # Nothing
             text == MarkedText(o)
             guarded == PlanReplaceIfUnmodified(d, text, rec)
             refused == o.state = "present" /\ (o.object # "regular"
                          \/ (~marked /\ rec # None /\ rec.policy = "append-local"))
         IN  /\ o.state = "unverifiable" => plan = Human
             /\ o.state = "absent" => plan = Write
             /\ refused => plan = Drift
             /\ o.state \notin {"unverifiable", "absent"} /\ ~refused
                  => plan = IF ~marked THEN Write ELSE guarded
<1> DEFINE plan == PlanAppendLocal(d, o, rec)
           marked == o.content[Source] # Nothing
           text == MarkedText(o)
           guarded == PlanReplaceIfUnmodified(d, text, rec)
           refused == o.state = "present" /\ (o.object # "regular"
                        \/ (~marked /\ rec # None /\ rec.policy = "append-local"))
<1>1. plan = CASE o.state = "unverifiable" -> Human
               [] o.state = "absent" -> Write
               [] refused -> Drift
               [] OTHER -> IF ~marked THEN Write ELSE guarded
  BY DEF PlanAppendLocal, MarkedText
<1> HIDE DEF plan, guarded, marked
<1>2. /\ o.state = "unverifiable" => plan = Human
      /\ o.state = "absent" => plan = Write
      /\ refused => plan = Drift
      /\ o.state \notin {"unverifiable", "absent"} /\ ~refused
           => plan = IF ~marked THEN Write ELSE guarded
  BY <1>1, Zenon
<1> QED BY <1>2 DEF plan, guarded, marked

\* append-local writes where nothing is marked yet, or where the marked text is as recorded.
LEMMA AppendPlan ==
  ASSUME NEW d, AppendedFile(d), NEW o, o = Seen(o.state, o.object, o.mode, o.content),
         o.content[Source] \in Value \cup {Nothing, Dir},
         NEW rec, rec # None => rec.content \in Content
  PROVE  LET plan == PlanAppendLocal(d, o, rec)
             text == MarkedText(o) IN
         /\ plan \in {Human, NoOp, Drift, Write}
         /\ plan = NoOp => /\ o.state = "present" /\ o.object = "regular"
                           /\ o.content[Source] # Nothing /\ ObservedMatchesDesired(d, text, rec)
         /\ plan = Write =>
              \/ o.state = "absent"
              \/ o.content[Source] = Nothing
              \/ rec # None /\ o.content[Source] = rec.content[Local]
         /\ /\ o.state = "present" /\ o.object = "regular" /\ o.content[Source] = d.content[Local]
            /\ rec # None => rec.object = "regular"
            /\ o.mode = d.mode
            => plan = NoOp
<1> DEFINE plan == PlanAppendLocal(d, o, rec)
           marked == o.content[Source] # Nothing
           text == MarkedText(o)
           guarded == PlanReplaceIfUnmodified(d, text, rec)
           refused == o.state = "present" /\ (o.object # "regular"
                        \/ (~marked /\ rec # None /\ rec.policy = "append-local"))
<1>1. /\ o.state = "unverifiable" => plan = Human
      /\ o.state = "absent" => plan = Write
      /\ refused => plan = Drift
      /\ o.state \notin {"unverifiable", "absent"} /\ ~refused
           => plan = IF ~marked THEN Write ELSE guarded
  BY AppendCases
<1>2. Unmarked(o.content[Source]) \in Content /\ Unmarked(o.content[Source]) # None
  BY UnmarkedIs, Contents
<1>3. /\ text.content # None
      /\ text.state = o.state /\ text.object = o.object /\ text.mode = o.mode
      /\ text.content = Unmarked(o.content[Source])
  BY <1>2 DEF Seen, MarkedText
<1>4. o.content[Source] = d.content[Local] => text.content = d.content
  BY <1>3, AppendedFileIs
<1>5. /\ guarded \in {Human, NoOp, Drift, Write}
      /\ guarded = NoOp => ObservedMatchesDesired(d, text, rec)
      /\ guarded = Write => \/ o.state = "absent"
                            \/ o.state # "unverifiable" /\ rec # None /\ text.content = rec.content
      /\ /\ o.state = "present" /\ ObservedMatchesDesired(d, text, rec)
         /\ rec # None => o.object = rec.object
         /\ text.content = d.content /\ o.mode = d.mode
         => guarded = NoOp
  <2>1. d.kind = "file" /\ (rec # None => rec.content # None)
    BY AppendedFileIs, Contents
  <2> HIDE DEF text
  <2> QED BY <2>1, <1>3, GuardedFilePlan
<1>6. NoOp # Write /\ NoOp # Human /\ NoOp # Drift /\ Write # Human /\ Write # Drift
  BY DEF NoOp, Write, Human, Drift, Draft
<1>7. rec # None /\ text.content = rec.content => o.content[Source] = rec.content[Local]
  BY <1>3, UnmarkedInjective
<1> HIDE DEF plan, text, guarded
<1>8. plan \in {Human, NoOp, Drift, Write}
  BY <1>1, <1>5
<1>9. plan = NoOp => /\ o.state = "present" /\ o.object = "regular"
                     /\ o.content[Source] # Nothing /\ ObservedMatchesDesired(d, text, rec)
  <2> SUFFICES ASSUME plan = NoOp
               PROVE  /\ o.state = "present" /\ o.object = "regular"
                      /\ o.content[Source] # Nothing /\ ObservedMatchesDesired(d, text, rec)
    OBVIOUS
  <2>1. guarded = NoOp /\ ~refused /\ o.content[Source] # Nothing
    BY <1>1, <1>6
  <2>2. ObservedMatchesDesired(d, text, rec)
    BY <2>1, <1>5
  <2>3. text.state = "present"
    BY <2>2, AppendedFileIs, FileMatches
  <2> QED BY <2>1, <2>2, <2>3, <1>3
<1>10. plan = Write => \/ o.state = "absent"
                       \/ o.content[Source] = Nothing
                       \/ rec # None /\ o.content[Source] = rec.content[Local]
  BY <1>1, <1>5, <1>6, <1>7
<1>11. ASSUME o.state = "present", o.object = "regular", o.content[Source] = d.content[Local],
              rec # None => rec.object = "regular", o.mode = d.mode
       PROVE  plan = NoOp
  <2>1. o.content[Source] # Nothing
    BY <1>11, AppendedFileIs, Contents
  <2>2. ObservedMatchesDesired(d, text, rec)
    BY <1>11, <1>3, <1>4, AppendedFileIs, FileMatches
  <2> QED BY <1>1, <1>4, <1>5, <1>11, <2>1, <2>2
<1> QED BY <1>8, <1>9, <1>10, <1>11 DEF plan, text

\* What append-local left is not written again.
LEMMA AppendSettles ==
  ASSUME NEW d, AppendedFile(d), NEW o, o = Seen(o.state, o.object, o.mode, o.content),
         NEW rec, rec.content \in Content, rec.object = "regular",
         o.state = "present", o.object = "regular", o.content[Source] = d.content[Local],
         o.mode = d.mode
  PROVE  PlanAppendLocal(d, o, rec) = NoOp
<1>1. o.content[Source] \in Value \cup {Nothing, Dir}
  BY AppendedFileIs
<1> QED BY <1>1, AppendPlan

\* Files under append-local, which share their target with the user.
LEMMA AppendedFileActs ==
  ASSUME NEW x, AppendedFile(x.d), NEW rec, NEW ov, NEW t, NEW u, Acts(x, rec, ov, t, u)
  PROVE  Faithful(x, rec, ov, t, u)
<1> DEFINE d == x.d
           o == x.seen
           v == d.content[Local]
<1>1. /\ d \in DesiredResource /\ d.kind = "file" /\ d.object = "regular" /\ d.mode = 0
      /\ v \in Value /\ d.content = Unmarked(v) /\ d.content \in Content
      /\ d.policy = "append-local"
  BY AppendedFileIs DEF AppendedFile
<1>2. /\ Found(t) /\ t.content \in Content /\ Recorded(rec, d) /\ Verified(d, u)
      /\ o = Observe(t, d, rec) /\ PlanAppendLocal(d, o, rec) = <<x.draft>>
      /\ Present(t.content) \subseteq {Source, Local}
  BY <1>1, PlanIs DEF Acts, Fits, Found, State
<1>3. /\ o.state \in {"absent", "unverifiable", "present"} /\ o.object = t.object
      /\ o.state = "absent" <=> t.object = "absent"
      /\ o.state = "unverifiable" <=> t.object = "unreadable"
      /\ o.state = "absent" => t.content = Empty
      /\ o.content # t.content => o.content = Opaque
      /\ t.object = "regular" => o.content = t.content /\ o.mode = t.mode
      /\ o = Seen(o.state, o.object, o.mode, o.content)
  BY <1>1, <1>2, FileSeen
<1>4. t.object \in {"absent", "regular"}
  <2>1. <<x.draft>> \notin {Human, Drift}
    BY Named DEF Acts, Live
  <2>2. o.state # "unverifiable" /\ (o.state = "present" => o.object = "regular")
    BY <1>2, <2>1, AppendCases
  <2> QED BY <1>3, <2>2
<1>5. /\ x.draft.kind \in {"no-op", "write-file"}
      /\ x.draft.kind = "no-op" => t.object = "regular" /\ t.mode = 0
      /\ x.draft.kind = "write-file" =>
           \/ t.content = Empty \/ t.content[Source] = Nothing
           \/ rec # None /\ t.content[Source] = rec.content[Local]
  <2>1. CASE t.object = "absent"
    <3>1. <<x.draft>> = Write
      BY <1>2, <1>3, <2>1, AppendCases
    <3> QED BY <3>1, <2>1, <1>3, Named
  <2>2. CASE t.object = "regular"
    <3> DEFINE text == MarkedText(o)
    <3>1. o.content = t.content /\ o.content[Source] \in Value \cup {Nothing, Dir}
      BY <1>2, <1>3, <2>2, Contents DEF Content
    <3>2. rec # None => rec.content \in Content
      BY <1>2 DEF Recorded, AppliedResource
    <3>3. /\ <<x.draft>> \in {Human, NoOp, Drift, Write}
          /\ <<x.draft>> = NoOp => ObservedMatchesDesired(d, text, rec)
          /\ <<x.draft>> = Write =>
               \/ o.state = "absent" \/ o.content[Source] = Nothing
               \/ rec # None /\ o.content[Source] = rec.content[Local]
      BY <1>2, <1>3, <3>1, <3>2, AppendPlan
    <3>4. text.mode = o.mode
      BY <1>3 DEF Seen, MarkedText
    <3>5. <<x.draft>> = NoOp => o.mode \in {None, 0}
      BY <3>3, <3>4, <1>1, FileMatches
    <3>6. x.draft.kind \in {"no-op", "write-file"}
      BY <3>3, Named DEF Acts, Live
    <3>7. /\ x.draft.kind = "no-op" => <<x.draft>> = NoOp
          /\ x.draft.kind = "write-file" => <<x.draft>> = Write
      BY <3>3, Named
    <3>8. t.mode # None
      BY <1>2, Modes DEF Found, State
    <3> QED BY <1>3, <2>2, <3>1, <3>3, <3>5, <3>6, <3>7, <3>8
  <2> QED BY <1>4, <2>1, <2>2
<1>6. x.draft.kind = "no-op" => u = t
  BY EffectIs DEF Acts
<1>7. x.draft.kind = "write-file" => u = Regular(0, Compose(v, t.content))
  <2> SUFFICES ASSUME x.draft.kind = "write-file"
               PROVE  u = Regular(0, Compose(v, t.content))
    OBVIOUS
  <2>1. u \in WriteFile(x, t)
    BY EffectIs DEF Acts
  <2> QED BY <1>1, <2>1 DEF WriteFile
<1>8. /\ Compose(v, t.content) \in Content
      /\ \A s \in Slot : Compose(v, t.content)[s] =
           IF s = Source THEN v
           ELSE IF s = Local
                THEN IF t.content[Source] = Nothing /\ t.content[Local] = v THEN Nothing
                     ELSE t.content[Local]
           ELSE Nothing
  BY <1>1, <1>2, ComposeIs
<1>9. u.object = "regular" /\ u.mode = 0 /\ u.content[Source] = v
  BY <1>1, <1>2, <1>5, <1>6, <1>7, VerifiedIs DEF Regular, AppendedFile
<1>10. Found(u)
  BY <1>2, <1>5, <1>6, <1>7, <1>8, Modes DEF Found, State, Object, Regular
<1>11. Fits(d, u)
  BY <1>2, <1>5, <1>6, <1>7, <1>8, <1>10 DEF Fits, Present, Regular
<1>12. Keeps(x, rec, ov, u)
  <2> SUFFICES ASSUME NEW s \in Slot, rec # None, Declared(rec, s) = u.content[s],
                      u.content[s] # Nothing, ~GivenUp(d, s)
               PROVE  Declared(d, s) = u.content[s]
    BY DEF Keeps
  <2>1. s # Local
    BY <1>1 DEF GivenUp
  <2>2. CASE s = Source
    BY <2>2, <1>1, <1>9 DEF Declared
  <2>3. CASE s # Source
    <3>1. rec.kind = "file"
      BY <1>1, <1>2, Zenon DEF Recorded, Class, Tree
    <3>2. PICK w \in Value : rec.content = Unmarked(w)
      BY <1>2, <3>1 DEF Recorded
    <3> QED BY <2>1, <2>3, <3>2, UnmarkedIs DEF Declared
  <2> QED BY <2>2, <2>3
<1>13. Respects(x, rec, ov, t, u)
  <2> SUFFICES ASSUME NEW s \in Slot, t.content[s] # u.content[s], t.content[s] # Nothing
               PROVE  AsRecorded(d, rec, t, s) \/ Licensed(x, ov, t, u, s)
    BY DEF Respects
  <2>1. x.draft.kind = "write-file" /\ u.content = Compose(v, t.content)
    BY <1>5, <1>6, <1>7 DEF Regular
  <2>2. s \in {Source, Local}
    BY <1>2 DEF Present
  <2>3. CASE s = Source
    BY <2>1, <2>3, <1>1, <1>5, Contents DEF AsRecorded, RecordPlace
  <2>4. CASE s = Local
    BY <2>1, <2>4, <1>1, <1>8, Contents DEF Licensed
  <2> QED BY <2>2, <2>3, <2>4
<1>14. Replanned(d, u, ov) = NoOp
  <2> DEFINE r == Record(d)
             p == Observe(u, d, r)
  <2>1. /\ p.state \in {"absent", "unverifiable", "present"} /\ p.object = u.object
        /\ p.state = "absent" <=> u.object = "absent"
        /\ p.state = "unverifiable" <=> u.object = "unreadable"
        /\ u.object = "regular" => p.content = u.content /\ p.mode = u.mode
        /\ p = Seen(p.state, p.object, p.mode, p.content)
    BY <1>1, <1>10, FileSeen
  <2>2. p.state = "present" /\ p.object = "regular" /\ p.content[Source] = v /\ p.mode = 0
    BY <2>1, <1>9
  <2>3. r.object = "regular" /\ r.content \in Content
    BY <1>1, RecordIs
  <2> HIDE DEF p, r
  <2>4. PlanAppendLocal(d, p, r) = NoOp
    <3>2. p.content[Source] = d.content[Local] /\ p.mode = d.mode
      BY <1>1, <2>2
    <3>3. p = Seen(p.state, p.object, p.mode, p.content)
      BY <2>1
    <3> QED BY <3>2, <3>3, <2>2, <2>3, AppendSettles
  <2> QED BY <1>1, <2>4, PlanIs DEF Replanned, p, r
<1> QED BY <1>11, <1>12, <1>13, <1>14 DEF Faithful

----------------------------------------------------------------------------
(* Configs. *)

\* A config.
ConfigFile(d) == Wanted(d) /\ d.kind = "config"

\* What is seen of a config: its declared keys.
LEMMA ConfigSeen ==
  ASSUME NEW t, Found(t), NEW d, d.kind = "config", NEW rec, NEW o, o = Observe(t, d, rec)
  PROVE  /\ t.object = "regular" => /\ o.state = "present" /\ o.object = "regular"
                                    /\ o.mode = None
                                    /\ o.content = Keep(t.content, Present(d.content))
         /\ t.object # "regular" => o.state # "present" \/ o.object # "regular"
<1> t.object \in {"absent", "regular", "symlink", "directory", "unreadable"}
  BY DEF Found, State, Object
<1>1. CASE t.object = "absent"
  BY <1>1 DEF Observe, Seen
<1>2. CASE t.object = "unreadable"
  BY <1>2 DEF Observe, Seen
<1>3. CASE t.object \in {"regular", "symlink", "directory"}
  <2>1. o = ObserveConfig(t, d)
    BY <1>3, Zenon DEF Observe, Tree
  <2> QED BY <1>3, <2>1 DEF ObserveConfig, Foreign, Seen
<1> QED BY <1>1, <1>2, <1>3

\* A config is as desired when its declared keys are.
LEMMA ConfigMatches ==
  ASSUME NEW d, NEW o, NEW rec, d.kind = "config"
  PROVE  ObservedMatchesDesired(d, o, rec) <=>
           o.state = "present" /\ o.content = d.content /\ o.object = "regular"
  BY Zenon DEF ObservedMatchesDesired, Tree

\* merge writes the declared keys and prunes the keys it owns.
Prunable(d, rec, ov) ==
  ((IF rec # None /\ rec.kind = "config" THEN Present(rec.content) ELSE {}) \ Present(d.content)) \ ov

\* The plan of merge, by the keys the follower claimed and those it may prune.
LEMMA MergePlan ==
  ASSUME NEW d, NEW o, NEW rec, NEW ov, NEW keys, keys = Present(d.content),
         NEW prunable, prunable = Prunable(d, rec, ov), NEW plan, plan = PlanMerge(d, o, rec, ov)
  PROVE  /\ keys \cap ov # {} => plan = Human
         /\ keys \cap ov = {} /\ prunable # {} => plan = Draft("write-config", keys, prunable)
         /\ keys \cap ov = {} /\ prunable = {}
              => plan = IF ObservedMatchesDesired(d, o, rec) THEN NoOp
                        ELSE Draft("write-config", keys, {})
<1> DEFINE met == ObservedMatchesDesired(d, o, rec)
<1>1. plan = CASE keys \cap ov # {} -> Human
               [] keys \cap ov = {} /\ prunable # {} -> Draft("write-config", keys, prunable)
               [] OTHER -> IF met THEN NoOp ELSE Draft("write-config", keys, {})
  BY DEF PlanMerge, Prunable
<1> HIDE DEF met
<1> QED BY <1>1, Zenon DEF met

\* What merge does to its target, whether anything is to be pruned or not.
LEMMA MergeActs ==
  ASSUME NEW x, ConfigFile(x.d), x.d.policy = "merge", NEW rec, NEW ov, NEW t, NEW u,
         Acts(x, rec, ov, t, u)
  PROVE  Faithful(x, rec, ov, t, u)
<1> DEFINE d == x.d
           o == x.seen
           keys == Present(d.content)
           prunable == Prunable(d, rec, ov)
           met == ObservedMatchesDesired(d, o, rec)
<1>1. /\ d \in DesiredResource /\ d.kind = "config" /\ d.content \in Content /\ Wanted(d)
  BY DEF ConfigFile, Wanted, DesiredResource
<1>2. /\ Found(t) /\ t \in State /\ t.content \in Content /\ Recorded(rec, d) /\ Verified(d, u)
      /\ PlanMerge(d, o, rec, ov) = <<x.draft>> /\ u \in Effect(x, t)
  BY <1>1, PlanIs DEF Acts, Fits, Found, State
<1>3. rec # None => rec.kind = "config" /\ rec.content \in Content /\ rec.policy # "append-local"
  BY <1>1, <1>2, ClassIs DEF Recorded, AppliedResource, DesiredResource
<1>4. keys \cap ov = {}
  <2> HIDE DEF keys, prunable
  <2>1. keys \cap ov # {} => <<x.draft>> = Human
    BY <1>2, MergePlan DEF keys
  <2>2. <<x.draft>> # Human
    BY Named DEF Acts, Live
  <2> QED BY <2>1, <2>2
<1>5. \/ x.draft.kind = "no-op" /\ prunable = {}
      \/ x.draft.kind = "write-config" /\ x.draft.adds = keys /\ x.draft.removes = prunable
  <2>1. prunable # {} => <<x.draft>> = Draft("write-config", keys, prunable)
    BY <1>2, <1>3, <1>4, MergePlan
  <2>2. prunable = {} => <<x.draft>> = IF met THEN NoOp ELSE Draft("write-config", keys, {})
    BY <1>2, <1>3, <1>4, MergePlan
  <2> HIDE DEF keys, prunable
  <2>3. CASE prunable # {}
    BY <2>1, <2>3, DraftIs
  <2>4. CASE prunable = {} /\ met
    BY <2>2, <2>4, Named
  <2>5. CASE prunable = {} /\ ~met
    BY <2>2, <2>5, DraftIs
  <2> QED BY <2>3, <2>4, <2>5
<1>6. x.draft.kind = "no-op" => u = t
  BY <1>2, EffectIs
<1>7. ASSUME x.draft.kind = "write-config"
      PROVE  u = Regular(0, [s \in Slot |-> IF s \in keys THEN d.content[s]
                                            ELSE IF s \in prunable THEN Nothing
                                            ELSE t.content[s]])
  <2>1. u \in WriteConfig(x, t)
    BY <1>2, <1>7, EffectIs
  <2>2. x.draft.adds = keys /\ x.draft.removes = prunable
    BY <1>5, <1>7
  <2> HIDE DEF keys, prunable
  <2> QED BY <2>1, <2>2 DEF WriteConfig
<1>8. Fits(d, u)
  <2>1. CASE x.draft.kind = "no-op"
    BY <1>1, <1>2, <1>6, <2>1 DEF Fits
  <2>2. CASE x.draft.kind = "write-config"
    <3> DEFINE c == [s \in Slot |-> IF s \in keys THEN d.content[s]
                                    ELSE IF s \in prunable THEN Nothing ELSE t.content[s]]
    <3>1. c \in Content
      BY <1>1, <1>2 DEF Content
    <3>2. u = Regular(0, c)
      BY <1>7, <2>2
    <3> HIDE DEF c
    <3> QED BY <1>1, <3>1, <3>2, Modes DEF Fits, Found, State, Object, Regular
  <2> QED BY <1>5, <2>1, <2>2
<1>9. Keeps(x, rec, ov, u)
  <2> SUFFICES ASSUME NEW s \in Slot, rec # None, Declared(rec, s) = u.content[s],
                      u.content[s] # Nothing, s \notin ov
               PROVE  Declared(d, s) = u.content[s]
    BY DEF Keeps
  <2>1. rec.content[s] = u.content[s] /\ s \in Present(rec.content)
    BY <1>3 DEF Declared, Present
  <2>2. d.policy # "append-local"
    OBVIOUS
  <2>3. CASE s \in keys
    <3>1. Declared(d, s) # Nothing
      BY <2>2, <2>3 DEF Declared, Present
    <3> QED BY <1>1, <1>2, <1>8, <3>1, DeclaredIsThere DEF Fits, Found
  <2>4. CASE s \notin keys
    <3>1. s \in prunable
      BY <1>3, <2>1, <2>4 DEF Prunable
    <3>2. x.draft.kind = "write-config"
      BY <1>5, <3>1
    <3>3. u.content[s] = Nothing
      BY <1>7, <2>4, <3>1, <3>2 DEF Regular
    <3> QED BY <3>3
  <2> QED BY <2>3, <2>4
<1>10. Respects(x, rec, ov, t, u)
  <2> SUFFICES ASSUME NEW s \in Slot, t.content[s] # u.content[s]
               PROVE  s \notin ov /\ (s \in x.draft.adds \/ s \in x.draft.removes)
    BY DEF Respects, Licensed
  <2>1. x.draft.kind = "write-config"
    BY <1>5, <1>6
  <2>2. s \in keys \/ s \in prunable
    BY <1>7, <2>1 DEF Regular
  <2>3. x.draft.adds = keys /\ x.draft.removes = prunable
    BY <1>5, <2>1
  <2> QED BY <1>4, <2>2, <2>3 DEF Prunable
<1>11. Replanned(d, u, ov) = NoOp
  <2> DEFINE r == Record(d)
             p == Observe(u, d, r)
  <2>1. u.object = "regular" /\ Keep(u.content, keys) = d.content
    BY <1>1, <1>2, VerifiedIs
  <2>2. p.state = "present" /\ p.object = "regular" /\ p.content = d.content
    BY <1>1, <1>8, <2>1, ConfigSeen DEF Fits
  <2>3. ObservedMatchesDesired(d, p, r)
    BY <1>1, <2>2, ConfigMatches
  <2>4. r # None /\ r.kind = "config" /\ r.content = d.content
    BY <1>1, RecordIs
  <2> HIDE DEF p, r
  <2>5. Prunable(d, r, ov) = {}
    BY <2>4 DEF Prunable
  <2>6. PlanMerge(d, p, r, ov) = NoOp
    BY <1>4, <2>3, <2>5, MergePlan
  <2> QED BY <1>1, <2>6, PlanIs DEF Replanned, p, r
<1> QED BY <1>8, <1>9, <1>10, <1>11 DEF Faithful

\* A config under replace.
LEMMA ReplacedConfigActs ==
  ASSUME NEW x, ConfigFile(x.d), x.d.policy = "replace", NEW rec, NEW ov, NEW t, NEW u,
         Acts(x, rec, ov, t, u)
  PROVE  Faithful(x, rec, ov, t, u)
<1> DEFINE d == x.d
           met == ObservedMatchesDesired(d, x.seen, rec)
<1>1. /\ d \in DesiredResource /\ d.kind = "config" /\ d.content \in Content /\ Wanted(d)
      /\ d.mode \in Mode \cup {None}
  BY DEF ConfigFile, Wanted, DesiredResource
<1>2. Found(t) /\ Verified(d, u) /\ u \in Effect(x, t)
  BY DEF Acts, Fits
<1>3. x.draft.kind \in {"no-op", "write-file"}
  <2>1. <<x.draft>> = IF met THEN NoOp ELSE Write
    BY <1>1, PlanIs DEF Acts, PlanReplace, Tree
  <2> QED BY <2>1, Named
<1>4. u.object = "regular" /\ Keep(u.content, Present(d.content)) = d.content
  BY <1>1, <1>2, VerifiedIs
<1>5. Fits(d, u)
  <2>1. CASE x.draft.kind = "no-op"
    BY <1>1, <1>2, <2>1, EffectIs DEF Fits
  <2>2. CASE x.draft.kind = "write-file"
    <3>1. u \in WriteFile(x, t)
      BY <1>2, <2>2, EffectIs
    <3>2. u = [object |-> d.object, content |-> d.content, mode |-> WrittenMode(d)]
      BY <3>1 DEF WriteFile
    <3>3. WrittenMode(d) \in Mode
      BY <1>1, Modes DEF WrittenMode
    <3> QED BY <1>1, <1>4, <3>2, <3>3 DEF Fits, Found, State, Object
  <2> QED BY <1>3, <2>1, <2>2
<1>6. Keeps(x, rec, ov, u)
  BY <1>1 DEF Keeps, GivenUp
<1>7. Respects(x, rec, ov, t, u)
  BY DEF Respects, Licensed
<1>8. Replanned(d, u, ov) = NoOp
  <2> DEFINE r == Record(d)
             p == Observe(u, d, r)
  <2>1. p.state = "present" /\ p.object = "regular" /\ p.content = d.content
    BY <1>1, <1>4, <1>5, ConfigSeen DEF Fits
  <2>2. ObservedMatchesDesired(d, p, r)
    BY <1>1, <2>1, ConfigMatches
  <2> QED BY <1>1, <2>2, PlanIs DEF Replanned, PlanReplace
<1> QED BY <1>5, <1>6, <1>7, <1>8 DEF Faithful

----------------------------------------------------------------------------
(* Trees. *)

\* A tree, and the places of it that a record holds.
TreeWanted(d) == Wanted(d) /\ d.kind \in {"directory", "skill"}

OwnedPlaces(rec) == IF rec # None THEN Present(rec.content) ELSE {}

\* The record of a tree.
LEMMA TreeIs ==
  ASSUME NEW d, TreeWanted(d), NEW rec, Recorded(rec, d)
  PROVE  /\ d \in DesiredResource /\ d.content \in Content /\ d.mode \in Mode /\ d.mode # None
         /\ Tree(d.kind) /\ d.kind # "file" /\ d.kind # "config"
         /\ d.policy \in {"mirror-owned", "replace-if-unmodified", "replace"}
         /\ d.policy = "replace-if-unmodified" => d.kind = "skill"
         /\ rec # None => /\ Tree(rec.kind) /\ rec.content \in Content
                          /\ rec.policy # "append-local" /\ rec.mode \in Mode \cup {None}
         /\ OwnedTree(rec) <=> rec # None
         /\ (IF OwnedTree(rec) THEN Present(rec.content) ELSE {}) = OwnedPlaces(rec)
<1>1. rec # None => /\ Tree(rec.kind) /\ rec.content \in Content
                    /\ rec.policy # "append-local" /\ rec.mode \in Mode \cup {None}
  BY ClassIs DEF TreeWanted, Wanted, DesiredResource, Recorded, AppliedResource, Tree
<1>2. OwnedTree(rec) <=> rec # None
  BY <1>1 DEF OwnedTree
<1>3. /\ d \in DesiredResource /\ d.content \in Content /\ d.mode \in Mode /\ d.mode # None
      /\ Tree(d.kind) /\ d.kind # "file" /\ d.kind # "config"
  BY Modes DEF TreeWanted, Wanted, WellFormed, DesiredResource, Tree
<1>4. /\ d.policy \in {"mirror-owned", "replace-if-unmodified", "replace"}
      /\ d.policy = "replace-if-unmodified" => d.kind = "skill"
  BY PolicyOf DEF TreeWanted
<1> QED BY <1>1, <1>2, <1>3, <1>4 DEF OwnedPlaces

\* Where a tree is looked at.
Candidates(d, rec) == IF d.policy = "replace" THEN Slot ELSE OwnedPlaces(rec) \cup Present(d.content)

\* What is seen of a tree.
LEMMA TreeSeen ==
  ASSUME NEW t, Found(t), NEW d, TreeWanted(d), NEW rec, Recorded(rec, d),
         NEW o, o = Observe(t, d, rec)
  PROVE  /\ t.object = "directory" =>
              /\ o.state = "directory" /\ o.object = "directory" /\ o.mode = t.mode
              /\ o.content = Keep(t.content, Candidates(d, rec))
              /\ o = Seen("directory", "directory", t.mode, Keep(t.content, Candidates(d, rec)))
         /\ t.object = "absent" => o = Seen("absent", "absent", None, Empty)
         /\ t.object \notin {"absent", "directory"} => o.state \notin {"absent", "directory"}
<1> t.object \in {"absent", "regular", "symlink", "directory", "unreadable"}
  BY DEF Found, State, Object
<1>1. CASE t.object = "absent"
  BY <1>1 DEF Observe, Seen
<1>2. CASE t.object = "unreadable"
  BY <1>2 DEF Observe, Seen
<1>3. CASE t.object \in {"regular", "symlink", "directory"}
  <2>1. d.kind # "file" /\ d.kind # "config" /\ Tree(d.kind)
    BY TreeIs
  <2>2. o = ObserveTree(t, d, rec)
    BY <1>3, <2>1, Zenon DEF Observe
  <2>3. CASE t.object # "directory"
    BY <1>3, <2>2, <2>3 DEF ObserveTree, Foreign, Seen
  <2>4. CASE t.object = "directory"
    <3>1. o = Seen("directory", "directory", t.mode, Keep(t.content, Candidates(d, rec)))
      BY <2>2, <2>4, TreeIs DEF ObserveTree, Candidates
    <3> QED BY <2>4, <3>1 DEF Seen
  <2> QED BY <2>3, <2>4
<1> QED BY <1>1, <1>2, <1>3

\* When observed and desired trees match.
LEMMA TreeMatches ==
  ASSUME NEW d, TreeWanted(d), NEW rec, Recorded(rec, d), NEW o
  PROVE  ObservedMatchesDesired(d, o, rec) <=>
           /\ o.state = "directory" /\ o.mode = d.mode
           /\ \A s \in Present(d.content) \cup OwnedPlaces(rec) : o.content[s] # Nothing
           /\ DirectoryDigest(o, Present(d.content)) = d.content
<1>1. d.kind # "file" /\ d.kind # "config" /\ Tree(d.kind)
  BY TreeIs
<1>2. ObservedMatchesDesired(d, o, rec) <=>
           /\ o.state = "directory" /\ o.mode = d.mode /\ ~SomeMissing(d, o, rec)
           /\ DirectoryDigest(o, Present(d.content)) = d.content
  BY <1>1, Zenon DEF ObservedMatchesDesired
<1> QED BY <1>2, TreeIs DEF SomeMissing

\* The digest of a tree, place by place.
LEMMA DigestIs ==
  ASSUME NEW o, o.content \in Content, NEW declared
  PROVE  /\ DirectoryDigest(o, declared) \in Content
         /\ \A s \in Slot : DirectoryDigest(o, declared)[s] =
              IF s \in declared \/ o.content[s] # Dir \/ s \notin Ancestors(declared)
              THEN o.content[s] ELSE Nothing
  BY Kept DEF DirectoryDigest

\* What replacing a tree asks for.
LEMMA ReplaceDirectoryIs ==
  ASSUME NEW d, NEW p, NEW o, <<p>> = ReplaceDirectory(d, o),
         o.state = "directory" \/ (o = Seen("absent", "absent", None, Empty))
  PROVE  p.kind = "mirror-directory" /\ p.adds = Changed(d, o) /\ p.removes = Unwanted(d, o)
<1> DEFINE files == IF o.state = "directory" THEN o ELSE [o EXCEPT !.content = Empty]
<1>1. files = o
  BY DEF Seen
<1> HIDE DEF files
<1>2. <<p>> = Draft("mirror-directory", Changed(d, files), Unwanted(d, files))
  BY DEF ReplaceDirectory, files
<1> QED BY <1>1, <1>2, DraftIs

\* A tree after a mutation, place by place.
KeptAt(x, t, s) ==
  IF s \in x.draft.removes \/ t.object # "directory" THEN Nothing ELSE t.content[s]

\* What a mirrored tree holds after the action.
LEMMA MirrorIs ==
  ASSUME NEW x, x.d.content \in Content, NEW t, t.content \in Content, NEW u \in MirrorDirectory(x, t)
  PROVE  /\ u = [object |-> "directory", mode |-> x.d.mode, content |-> u.content]
         /\ u.content \in Content
         /\ \A s \in Slot : u.content[s] =
              IF s \in x.draft.adds \/ x.d.content[s] = Dir THEN x.d.content[s]
              ELSE IF s \in Ancestors(x.draft.adds) /\ KeptAt(x, t, s) = Nothing THEN Dir
              ELSE KeptAt(x, t, s)
<1> DEFINE kept == [s \in Slot |-> IF s \in x.draft.removes THEN Nothing
                                   ELSE IF t.object = "directory" THEN t.content[s] ELSE Nothing]
           at(s) == CASE s \in x.draft.adds \/ x.d.content[s] = Dir -> x.d.content[s]
                      [] s \notin x.draft.adds /\ x.d.content[s] # Dir
                           /\ s \in Ancestors(x.draft.adds) /\ kept[s] = Nothing -> Dir
                      [] OTHER -> kept[s]
           new == [s \in Slot |-> at(s)]
<1>1. u = [object |-> "directory", mode |-> x.d.mode, content |-> new]
  BY DEF MirrorDirectory
<1>2. \A s \in Slot : kept[s] = KeptAt(x, t, s)
  BY DEF KeptAt
<1>3. ASSUME NEW s \in Slot
      PROVE  at(s) = IF s \in x.draft.adds \/ x.d.content[s] = Dir THEN x.d.content[s]
                     ELSE IF s \in Ancestors(x.draft.adds) /\ kept[s] = Nothing THEN Dir
                     ELSE kept[s]
  <2> HIDE DEF kept
  <2>1. CASE s \in x.draft.adds \/ x.d.content[s] = Dir
    BY <2>1, Zenon
  <2>2. CASE ~(s \in x.draft.adds \/ x.d.content[s] = Dir)
             /\ s \in Ancestors(x.draft.adds) /\ kept[s] = Nothing
    BY <2>2, Zenon
  <2>3. CASE ~(s \in x.draft.adds \/ x.d.content[s] = Dir)
             /\ ~(s \in Ancestors(x.draft.adds) /\ kept[s] = Nothing)
    BY <2>3, Zenon
  <2> QED BY <2>1, <2>2, <2>3, Zenon
<1>4. \A s \in Slot : KeptAt(x, t, s) \in Value \cup {Nothing, Dir}
  BY DEF KeptAt, Content
<1> HIDE DEF at, kept
<1>5. \A s \in Slot : new[s] = IF s \in x.draft.adds \/ x.d.content[s] = Dir THEN x.d.content[s]
              ELSE IF s \in Ancestors(x.draft.adds) /\ KeptAt(x, t, s) = Nothing THEN Dir
              ELSE KeptAt(x, t, s)
  BY <1>2, <1>3
<1>6. new \in [Slot -> Value \cup {Nothing, Dir}]
  <2>1. \A s \in Slot : new[s] \in Value \cup {Nothing, Dir}
    BY <1>4, <1>5 DEF Content
  <2> QED BY <2>1
<1>7. u.content = new
  BY <1>1
<1> HIDE DEF new
<1> QED BY <1>1, <1>5, <1>6, <1>7 DEF Content

\* A tree is planned only where a directory or nothing is.
LEMMA TreeFound ==
  ASSUME NEW x, TreeWanted(x.d), NEW rec, NEW ov, NEW t, NEW u, Acts(x, rec, ov, t, u)
  PROVE  /\ Found(t) /\ t.content \in Content /\ Recorded(rec, x.d) /\ Verified(x.d, u)
         /\ u \in Effect(x, t) /\ x.seen = Observe(t, x.d, rec)
         /\ t.object \in {"directory", "absent"} /\ (t.object = "absent" => t.content = Empty)
         /\ t.object = "directory" => x.seen.state = "directory"
         /\ t.object = "absent" => x.seen = Seen("absent", "absent", None, Empty)
         /\ x.seen.state \in {"directory", "absent"}
         /\ x.seen.content = Keep(t.content, Candidates(x.d, rec)) /\ x.seen.content \in Content
<1>1. /\ Found(t) /\ t.content \in Content /\ Recorded(rec, x.d) /\ Verified(x.d, u)
      /\ u \in Effect(x, t) /\ x.seen = Observe(t, x.d, rec)
  BY DEF Acts, Fits, Found, State
<1>2. x.seen.state \in {"directory", "absent"}
  <2> SUFFICES ASSUME x.seen.state \notin {"directory", "absent"}
               PROVE  FALSE
    OBVIOUS
  <2>1. RootConflict(x.d, x.seen)
    BY TreeIs, <1>1 DEF RootConflict
  <2>2. <<x.draft>> = Drift
    BY <2>1 DEF PlanResource, Acts
  <2> QED BY <2>2, Named DEF Acts, Live
<1>3. t.object \in {"directory", "absent"}
  BY <1>1, <1>2, TreeSeen
<1>4. CASE t.object = "directory"
  BY <1>1, <1>2, <1>4, TreeSeen, Kept
<1>5. CASE t.object = "absent"
  <2>1. x.seen = Seen("absent", "absent", None, Empty) /\ t.content = Empty
    BY <1>1, <1>5, TreeSeen DEF Found
  <2>2. Keep(Empty, Candidates(x.d, rec)) = Empty
    BY Contents, Kept, SameContent
  <2> QED BY <1>1, <1>5, <2>1, <2>2, Contents DEF Seen
<1> QED BY <1>1, <1>3, <1>4, <1>5

\* A place that the record covers and the resource does not want is removed.
Drops(x, rec, t) ==
  \A s \in Slot :
    /\ rec # None /\ rec.content[s] = t.content[s] /\ t.content[s] \notin {Nothing, Dir}
    /\ x.d.content[s] = Nothing
    => x.draft.kind = "mirror-directory" /\ s \in x.draft.removes

\* What every action on a tree has in common.
LEMMA TreeStep ==
  ASSUME NEW x, TreeWanted(x.d), NEW rec, NEW ov, NEW t, NEW u, Acts(x, rec, ov, t, u),
         x.draft.kind \in {"no-op", "mirror-directory"},
         x.draft.kind = "mirror-directory" => x.draft.adds \subseteq Present(x.d.content),
         Drops(x, rec, t)
  PROVE  /\ Fits(x.d, u) /\ Keeps(x, rec, ov, u)
         /\ x.draft.kind = "no-op" => u = t
         /\ x.draft.kind = "mirror-directory" =>
              \A s \in Slot : u.content[s] =
                IF s \in x.draft.adds \/ x.d.content[s] = Dir THEN x.d.content[s]
                ELSE IF s \in Ancestors(x.draft.adds) /\ KeptAt(x, t, s) = Nothing THEN Dir
                ELSE KeptAt(x, t, s)
<1> DEFINE d == x.d
<1>1. /\ Found(t) /\ t.content \in Content /\ Recorded(rec, d) /\ Verified(d, u)
      /\ u \in Effect(x, t)
  BY TreeFound
<1>2. /\ d \in DesiredResource /\ d.content \in Content /\ d.mode \in Mode
      /\ d.kind # "file" /\ d.kind # "config" /\ d.policy # "append-local" /\ Wanted(d)
      /\ rec # None => rec.policy # "append-local" /\ rec.content \in Content
  BY <1>1, TreeIs DEF TreeWanted
<1>3. x.draft.kind = "no-op" => u = t
  BY <1>1, EffectIs
<1>4. x.draft.kind = "mirror-directory" =>
         /\ u = [object |-> "directory", mode |-> d.mode, content |-> u.content]
         /\ u.content \in Content
         /\ \A s \in Slot : u.content[s] =
              IF s \in x.draft.adds \/ d.content[s] = Dir THEN d.content[s]
              ELSE IF s \in Ancestors(x.draft.adds) /\ KeptAt(x, t, s) = Nothing THEN Dir
              ELSE KeptAt(x, t, s)
  <2> SUFFICES ASSUME x.draft.kind = "mirror-directory" PROVE u \in MirrorDirectory(x, t)
    BY <1>1, <1>2, MirrorIs
  <2> QED BY <1>1, EffectIs
<1>5. Fits(d, u)
  <2>1. CASE x.draft.kind = "no-op"
    BY <1>1, <1>2, <1>3, <2>1 DEF Fits
  <2>2. CASE x.draft.kind = "mirror-directory"
    <3>1. u \in State /\ u.object = "directory"
      BY <1>2, <1>4, <2>2 DEF State, Object
    <3> QED BY <1>2, <3>1 DEF Fits, Found
  <2> QED BY <2>1, <2>2
<1>6. Keeps(x, rec, ov, u)
  <2> SUFFICES ASSUME NEW s \in Slot, rec # None, Declared(rec, s) = u.content[s],
                      u.content[s] \notin {Nothing, Dir}
               PROVE  Declared(d, s) = u.content[s]
    BY DEF Keeps
  <2>1. rec.content[s] = u.content[s] /\ Declared(d, s) = d.content[s]
    BY <1>2 DEF Declared
  <2>2. CASE d.content[s] # Nothing
    BY <1>1, <1>2, <1>5, <2>1, <2>2, DeclaredIsThere DEF Fits, Found
  <2>3. CASE d.content[s] = Nothing
    <3>1. CASE x.draft.kind = "no-op"
      BY <1>3, <2>1, <2>3, <3>1 DEF Drops
    <3>2. CASE x.draft.kind = "mirror-directory"
      <4>1. s \notin x.draft.adds /\ d.content[s] # Dir
        BY <2>3, <3>2, Contents DEF Present
      <4>2. u.content[s] = KeptAt(x, t, s)
        BY <1>4, <3>2, <4>1
      <4>3. s \notin x.draft.removes /\ u.content[s] = t.content[s]
        BY <4>2 DEF KeptAt
      <4> QED BY <2>1, <2>3, <3>2, <4>3 DEF Drops
    <3> QED BY <3>1, <3>2
  <2> QED BY <2>2, <2>3
<1> QED BY <1>3, <1>4, <1>5, <1>6

----------------------------------------------------------------------------
(* Trees under mirror-owned. *)

\* Trees under mirror-owned: entries nobody recorded stay.
LEMMA MirroredActs ==
  ASSUME NEW x, TreeWanted(x.d), x.d.policy = "mirror-owned", NEW rec, NEW ov, NEW t, NEW u,
         Acts(x, rec, ov, t, u)
  PROVE  Faithful(x, rec, ov, t, u)
<1> DEFINE d == x.d
           o == x.seen
           removes == {s \in Unwanted(d, o) : OwnedTree(rec) /\ rec.content[s] = o.content[s]}
           met == Changed(d, o) = {} /\ removes = {} /\ o.state # "absent" /\ o.mode = d.mode
<1>1. /\ Found(t) /\ t.content \in Content /\ Recorded(rec, d) /\ Verified(d, u)
      /\ u \in Effect(x, t)
      /\ t.object \in {"directory", "absent"} /\ (t.object = "absent" => t.content = Empty)
      /\ o.state \in {"directory", "absent"}
      /\ o.content = Keep(t.content, Candidates(d, rec)) /\ o.content \in Content
  BY TreeFound
<1>2. /\ d \in DesiredResource /\ d.content \in Content /\ d.mode \in Mode /\ Wanted(d)
      /\ Tree(d.kind) /\ (OwnedTree(rec) <=> rec # None)
      /\ rec # None => rec.content \in Content
  BY <1>1, TreeIs DEF TreeWanted
<1>3. <<x.draft>> = IF met THEN NoOp ELSE Draft("mirror-directory", Changed(d, o), removes)
  <2>1. <<x.draft>> = PlanMirror(d, o, rec)
    BY <1>1, PlanIs DEF Acts
  <2>2. PlanMirror(d, o, rec) =
          IF met THEN NoOp ELSE Draft("mirror-directory", Changed(d, o), removes)
    BY DEF PlanMirror
  <2> QED BY <2>1, <2>2
<1>4. \/ met /\ x.draft.kind = "no-op"
      \/ /\ x.draft.kind = "mirror-directory"
         /\ x.draft.adds = Changed(d, o) /\ x.draft.removes = removes
  <2> HIDE DEF met, removes
  <2>1. CASE met
    BY <1>3, <2>1, Named
  <2>2. CASE ~met
    BY <1>3, <2>2, DraftIs
  <2> QED BY <2>1, <2>2
<1>5. Changed(d, o) \subseteq Present(d.content)
  BY DEF Changed
<1>6. Drops(x, rec, t)
  <2> SUFFICES ASSUME NEW s \in Slot, rec # None, rec.content[s] = t.content[s],
                      t.content[s] \notin {Nothing, Dir}, d.content[s] = Nothing
               PROVE  s \in removes
    BY <1>4 DEF Drops
  <2>1. s \in Candidates(d, rec)
    BY DEF Candidates, OwnedPlaces, Present
  <2>2. o.content[s] = t.content[s]
    BY <1>1, <2>1, Kept
  <2> QED BY <1>2, <2>2 DEF Unwanted, Present
<1>7. /\ Fits(d, u) /\ Keeps(x, rec, ov, u)
      /\ x.draft.kind = "no-op" => u = t
      /\ x.draft.kind = "mirror-directory" =>
           \A s \in Slot : u.content[s] =
             IF s \in x.draft.adds \/ d.content[s] = Dir THEN d.content[s]
             ELSE IF s \in Ancestors(x.draft.adds) /\ KeptAt(x, t, s) = Nothing THEN Dir
             ELSE KeptAt(x, t, s)
  BY <1>4, <1>5, <1>6, TreeStep
<1>8. Respects(x, rec, ov, t, u)
  <2> SUFFICES ASSUME NEW s \in Slot, t.content[s] # u.content[s], t.content[s] \notin {Nothing, Dir},
                      d.content[s] = Nothing
               PROVE  AsRecorded(d, rec, t, s)
    BY DEF Respects, Licensed
  <2>1. x.draft.kind = "mirror-directory"
    BY <1>4, <1>7
  <2>2. s \notin x.draft.adds /\ d.content[s] # Dir
    BY <1>4, <1>5, <2>1, Contents DEF Present
  <2>3. t.object = "directory"
    BY <1>1, Contents
  <2>4. s \in x.draft.removes
    BY <1>7, <2>1, <2>2, <2>3 DEF KeptAt
  <2>5. rec # None /\ rec.content[s] = o.content[s] /\ o.content[s] # Nothing
    BY <1>2, <1>4, <2>1, <2>4 DEF Unwanted, Present
  <2>6. o.content[s] = t.content[s]
    BY <1>1, <2>5, Kept
  <2> QED BY <2>5, <2>6 DEF AsRecorded, RecordPlace
<1>9. Replanned(d, u, ov) = NoOp
  <2> DEFINE r == Record(d)
             p == Observe(u, d, r)
  <2>1. u.object = "directory" /\ u.mode = d.mode /\ Keep(u.content, Present(d.content)) = d.content
    BY <1>1, <1>2, VerifiedIs DEF TreeWanted
  <2>2. Recorded(r, d) /\ r.content = d.content /\ r # None
    BY <1>2, RecordIs DEF Recorded, TreeWanted
  <2>3. Candidates(d, r) = Present(d.content)
    BY <2>2 DEF Candidates, OwnedPlaces
  <2>4. p.state = "directory" /\ p.mode = d.mode /\ p.content = d.content
    BY <1>7, <2>1, <2>2, <2>3, TreeSeen DEF Fits
  <2> HIDE DEF p, r
  <2>5. Changed(d, p) = {} /\ Unwanted(d, p) = {}
    BY <2>4 DEF Changed, Unwanted
  <2>6. PlanMirror(d, p, r) = NoOp
    BY <2>4, <2>5 DEF PlanMirror
  <2> QED BY <2>4, <2>6, PlanIs DEF Replanned, p, r
<1> QED BY <1>7, <1>8, <1>9 DEF Faithful

----------------------------------------------------------------------------
(* Trees that are replaced, under replace or replace-if-unmodified. *)

\* What replacing a tree leaves; only files and what leads to them is wanted.
Clean(d, u) ==
  \A s \in Slot : d.content[s] = Nothing =>
    u.content[s] = Nothing \/ (u.content[s] = Dir /\ s \in Ancestors(Present(d.content)))

\* A tree that is as verified matches, where only its own places are looked at or where
\* nothing else is.
LEMMA VerifiedTreeMatches ==
  ASSUME NEW d, TreeWanted(d), NEW u, Found(u), Verified(d, u),
         d.policy = "replace" => Clean(d, u)
  PROVE  ObservedMatchesDesired(d, Observe(u, d, Record(d)), Record(d))
<1> DEFINE r == Record(d)
           p == Observe(u, d, r)
           places == Present(d.content)
<1>1. d \in DesiredResource /\ d.content \in Content /\ d.mode \in Mode /\ Wanted(d)
  <2>1. Recorded(None, d)
    BY DEF Recorded
  <2> QED BY <2>1, TreeIs DEF TreeWanted
<1>2. Recorded(r, d) /\ r.content = d.content /\ r # None
  <2>1. Recorded(r, d)
    BY <1>1, OwnRecord DEF TreeWanted
  <2> QED BY <1>1, <2>1, RecordIs
<1>3. u.object = "directory" /\ u.mode = d.mode /\ Keep(u.content, places) = d.content
  BY <1>1, VerifiedIs DEF TreeWanted
<1>4. OwnedPlaces(r) = places
  BY <1>2 DEF OwnedPlaces
<1>5. /\ p.state = "directory" /\ p.mode = d.mode
      /\ p.content = Keep(u.content, Candidates(d, r))
  BY <1>2, <1>3, TreeSeen
<1>6. u.content \in Content
  BY DEF Found, State
<1>7. p.content \in Content /\ \A s \in places : p.content[s] = d.content[s]
  <2>1. p.content \in Content
    BY <1>5, <1>6, Kept
  <2>2. ASSUME NEW s \in places
        PROVE  p.content[s] = d.content[s]
    <3>1. s \in Slot /\ s \in Candidates(d, r)
      BY <1>4 DEF Candidates, Present
    <3>2. p.content[s] = u.content[s]
      BY <1>5, <1>6, <3>1, Kept
    <3> QED BY <1>3, <1>6, <3>1, <3>2, Kept
  <2> QED BY <2>1, <2>2
<1>8. ASSUME NEW s \in Slot, s \notin places
      PROVE  p.content[s] = Nothing \/ (p.content[s] = Dir /\ s \in Ancestors(places))
  <2>1. d.content[s] = Nothing
    BY <1>8 DEF Present
  <2>2. CASE d.policy = "replace"
    <3>1. p.content[s] = u.content[s]
      BY <1>5, <1>6, <2>2, Kept DEF Candidates
    <3> QED BY <2>1, <2>2, <3>1 DEF Clean
  <2>3. CASE d.policy # "replace"
    BY <1>4, <1>5, <1>6, <1>8, <2>3, Kept DEF Candidates
  <2> QED BY <2>2, <2>3
<1> HIDE DEF p, r
<1>9. DirectoryDigest(p, places) = d.content
  <2>1. ASSUME NEW s \in Slot
        PROVE  DirectoryDigest(p, places)[s] = d.content[s]
    <3>1. DirectoryDigest(p, places)[s] =
            IF s \in places \/ p.content[s] # Dir \/ s \notin Ancestors(places)
            THEN p.content[s] ELSE Nothing
      BY <1>7, DigestIs
    <3>2. CASE s \in places
      BY <1>7, <3>1, <3>2
    <3>3. CASE s \notin places
      BY <1>8, <3>1, <3>3, Contents DEF Present
    <3> QED BY <3>2, <3>3
  <2> QED BY <1>1, <1>7, <2>1, DigestIs, SameContent
<1>10. \A s \in places \cup OwnedPlaces(r) : p.content[s] # Nothing
  BY <1>4, <1>7 DEF Present
<1>11. ObservedMatchesDesired(d, p, r)
  BY <1>2, <1>5, <1>9, <1>10, TreeMatches
<1> QED BY <1>11 DEF p, r

\* replace-if-unmodified of a tree: it is replaced when it is absent or as recorded.
LEMMA GuardedTreePlan ==
  ASSUME NEW d, TreeWanted(d), d.policy = "replace-if-unmodified", NEW rec, Recorded(rec, d),
         NEW o, o.state \in {"directory", "absent"}, o.content \in Content,
         NEW plan, plan = PlanReplaceIfUnmodified(d, o, rec)
  PROVE  /\ ObservedMatchesDesired(d, o, rec) => plan = NoOp
         /\ ~ObservedMatchesDesired(d, o, rec)
              => \/ plan = Drift
                 \/ /\ plan = ReplaceDirectory(d, o)
                    /\ \/ o.state = "absent"
                       \/ rec # None /\ DirectoryDigest(o, Present(rec.content)) = rec.content
<1> DEFINE met == ObservedMatchesDesired(d, o, rec)
           tree == o.state = "directory"
           declared == Present(IF OwnedTree(rec) THEN rec.content ELSE d.content)
           digest == IF tree THEN DirectoryDigest(o, declared) ELSE ObservedDigest(o)
           m(mode) == IF tree THEN mode ELSE None
           desired == Side(d.content, m(d.mode))
           observed == Side(digest, m(o.mode))
           applied == IF rec = None THEN Side(None, m(None)) ELSE Side(rec.content, m(rec.mode))
           drift == DetectSkillDrift(desired, observed, applied)
<1>1. /\ d.kind = "skill" /\ Tree(d.kind) /\ (OwnedTree(rec) <=> rec # None)
      /\ rec # None => rec.content \in Content
  BY TreeIs
<1>2. plan = IF tree /\ met THEN NoOp
             ELSE IF drift \in {"unchanged", "converged"} THEN IF met THEN NoOp ELSE Drift
             ELSE IF drift = "remote-only" \/ digest = None
                  THEN IF met THEN NoOp ELSE ReplaceDirectory(d, o)
             ELSE Drift
  BY <1>1 DEF PlanReplaceIfUnmodified, PlanReplace, Side
<1>3. drift = "remote-only" => \/ applied.digest = None /\ observed.digest = None
                               \/ applied.digest # None /\ Same(observed, applied)
  BY DriftIs
<1>4. met => tree
  BY TreeMatches
<1>5. tree => digest \in Content
  BY DigestIs
<1>6. /\ applied.digest = IF rec = None THEN None ELSE rec.content
      /\ observed.digest = digest
  BY DEF Side
<1>7. rec # None => declared = Present(rec.content)
  BY <1>1
<1>8. ASSUME tree, drift = "remote-only"
      PROVE  rec # None /\ digest = rec.content
  <2>1. digest # None
    BY <1>5, <1>8, Contents
  <2> HIDE DEF digest, applied, observed, drift
  <2>2. applied.digest # None /\ observed.digest = applied.digest
    BY <1>3, <1>6, <1>8, <2>1 DEF Same
  <2> QED BY <1>6, <2>2
<1> HIDE DEF drift, applied, observed, met
<1>9. met => plan = NoOp
  BY <1>2, <1>4
<1>10. ~met /\ ~tree => plan \in {Drift, ReplaceDirectory(d, o)} /\ o.state = "absent"
  BY <1>2
<1>11. ASSUME ~met, tree
       PROVE  \/ plan = Drift
              \/ /\ plan = ReplaceDirectory(d, o)
                 /\ rec # None /\ DirectoryDigest(o, Present(rec.content)) = rec.content
  <2>1. digest # None
    BY <1>5, <1>11, Contents
  <2>2. plan = Drift \/ (plan = ReplaceDirectory(d, o) /\ drift = "remote-only")
    BY <1>2, <1>11, <2>1
  <2>3. digest = DirectoryDigest(o, declared)
    BY <1>11
  <2> QED BY <1>7, <1>8, <1>11, <2>2, <2>3
<1>12. ~met => \/ plan = Drift
               \/ /\ plan = ReplaceDirectory(d, o)
                  /\ \/ o.state = "absent"
                     \/ rec # None /\ DirectoryDigest(o, Present(rec.content)) = rec.content
  <2> HIDE DEF tree
  <2> QED BY <1>10, <1>11
<1> QED BY <1>9, <1>12 DEF met

\* A tree that matches needs nothing.
LEMMA MetTreePlan ==
  ASSUME NEW d, TreeWanted(d), d.policy = "replace-if-unmodified", NEW rec, Recorded(rec, d),
         NEW o, o.state \in {"directory", "absent"}, o.content \in Content,
         ObservedMatchesDesired(d, o, rec)
  PROVE  PlanReplaceIfUnmodified(d, o, rec) = NoOp
<1> DEFINE plan == PlanReplaceIfUnmodified(d, o, rec)
<1>1. plan = PlanReplaceIfUnmodified(d, o, rec)
  OBVIOUS
<1> HIDE DEF plan
<1>2. plan = NoOp
  BY <1>1, GuardedTreePlan
<1> QED BY <1>2 DEF plan

\* Replacing a tree, under either policy.
LEMMA ReplacedTreeActs ==
  ASSUME NEW x, TreeWanted(x.d), x.d.policy \in {"replace", "replace-if-unmodified"},
         NEW rec, NEW ov, NEW t, NEW u, Acts(x, rec, ov, t, u)
  PROVE  Faithful(x, rec, ov, t, u)
<1> DEFINE d == x.d
           o == x.seen
           met == ObservedMatchesDesired(d, o, rec)
           places == Present(d.content)
<1>1. /\ Found(t) /\ t.content \in Content /\ Recorded(rec, d) /\ Verified(d, u)
      /\ u \in Effect(x, t)
      /\ t.object \in {"directory", "absent"} /\ (t.object = "absent" => t.content = Empty)
      /\ t.object = "directory" => o.state = "directory"
      /\ t.object = "absent" => o = Seen("absent", "absent", None, Empty)
      /\ o.state \in {"directory", "absent"}
      /\ o.content = Keep(t.content, Candidates(d, rec)) /\ o.content \in Content
  BY TreeFound
<1>2. /\ d \in DesiredResource /\ d.content \in Content /\ d.mode \in Mode /\ Wanted(d)
      /\ Tree(d.kind)
      /\ rec # None => rec.content \in Content
  BY <1>1, TreeIs DEF TreeWanted
\* The draft is what replacing asks for, and under replace-if-unmodified the tree is absent
\* or as recorded.
<1>3. \/ met /\ x.draft.kind = "no-op"
      \/ /\ x.draft.kind = "mirror-directory"
         /\ x.draft.adds = Changed(d, o) /\ x.draft.removes = Unwanted(d, o)
         /\ \/ d.policy = "replace" \/ o.state = "absent"
            \/ rec # None /\ DirectoryDigest(o, Present(rec.content)) = rec.content
  <2>1. o.state = "directory" \/ o = Seen("absent", "absent", None, Empty)
    BY <1>1
  <2>2. CASE d.policy = "replace"
    <3>1. <<x.draft>> = IF met THEN NoOp ELSE ReplaceDirectory(d, o)
      BY <1>1, <1>2, <2>2, PlanIs DEF Acts, PlanReplace
    <3> HIDE DEF met
    <3> QED BY <2>1, <2>2, <3>1, Named, ReplaceDirectoryIs
  <2>3. CASE d.policy = "replace-if-unmodified"
    <3>1. <<x.draft>> = PlanReplaceIfUnmodified(d, o, rec)
      BY <1>1, <2>3, PlanIs DEF Acts
    <3>3. /\ met => <<x.draft>> = NoOp
          /\ ~met => \/ <<x.draft>> = Drift
                     \/ /\ <<x.draft>> = ReplaceDirectory(d, o)
                        /\ \/ o.state = "absent"
                           \/ rec # None /\ DirectoryDigest(o, Present(rec.content)) = rec.content
      BY <1>1, <2>3, <3>1, GuardedTreePlan
    <3>4. <<x.draft>> # Drift
      BY Named DEF Acts, Live
    <3> HIDE DEF met
    <3> QED BY <2>1, <3>3, <3>4, Named, ReplaceDirectoryIs
  <2> QED BY <2>2, <2>3
<1>4. Changed(d, o) \subseteq places
  BY DEF Changed
<1>5. Drops(x, rec, t)
  <2> SUFFICES ASSUME NEW s \in Slot, rec # None, rec.content[s] = t.content[s],
                      t.content[s] \notin {Nothing, Dir}, d.content[s] = Nothing
               PROVE  ~met /\ s \in Unwanted(d, o)
    BY <1>3 DEF Drops
  <2>1. s \in Candidates(d, rec)
    BY DEF Candidates, OwnedPlaces, Present
  <2>2. o.content[s] = t.content[s]
    BY <1>1, <2>1, Kept
  <2>3. s \in Unwanted(d, o)
    BY <2>2 DEF Unwanted, Present
  <2>4. DirectoryDigest(o, places)[s] = t.content[s]
    BY <1>1, <2>2, DigestIs
  <2>5. ~met
    BY <1>1, <2>4, TreeMatches
  <2> QED BY <2>3, <2>5
<1>6. /\ Fits(d, u) /\ Keeps(x, rec, ov, u)
      /\ x.draft.kind = "no-op" => u = t
      /\ x.draft.kind = "mirror-directory" =>
           \A s \in Slot : u.content[s] =
             IF s \in x.draft.adds \/ d.content[s] = Dir THEN d.content[s]
             ELSE IF s \in Ancestors(x.draft.adds) /\ KeptAt(x, t, s) = Nothing THEN Dir
             ELSE KeptAt(x, t, s)
  <2>1. x.draft.kind \in {"no-op", "mirror-directory"}
        /\ (x.draft.kind = "mirror-directory" => x.draft.adds \subseteq places)
    BY <1>3, <1>4
  <2> QED BY <1>5, <2>1, TreeStep
<1>7. Respects(x, rec, ov, t, u)
  <2> SUFFICES ASSUME NEW s \in Slot, t.content[s] # u.content[s], t.content[s] \notin {Nothing, Dir},
                      d.policy = "replace-if-unmodified"
               PROVE  AsRecorded(d, rec, t, s)
    BY DEF Respects, Licensed
  <2>1. x.draft.kind = "mirror-directory" /\ t.object = "directory"
    BY <1>1, <1>3, <1>6, Contents
  <2>2. rec # None /\ DirectoryDigest(o, Present(rec.content)) = rec.content
    BY <1>1, <1>3, <2>1
  <2>3. CASE s \in Candidates(d, rec)
    <3>1. o.content[s] = t.content[s]
      BY <1>1, <2>3, Kept
    <3>2. rec.content[s] = t.content[s]
      BY <1>1, <2>2, <3>1, DigestIs
    <3> QED BY <2>2, <3>2 DEF AsRecorded, RecordPlace
  <2>4. CASE s \notin Candidates(d, rec)
    <3>1. o.content[s] = Nothing /\ d.content[s] = Nothing
      BY <1>1, <2>4, Kept DEF Candidates, Present
    <3>2. s \notin x.draft.adds /\ s \notin x.draft.removes /\ d.content[s] # Dir
      BY <1>3, <2>1, <3>1, Contents DEF Changed, Unwanted, Present
    <3>3. KeptAt(x, t, s) = t.content[s]
      BY <2>1, <3>2 DEF KeptAt
    <3>4. u.content[s] = t.content[s]
      BY <1>6, <2>1, <3>2, <3>3
    <3> QED BY <3>4
  <2> QED BY <2>3, <2>4
<1>8. d.policy = "replace" => Clean(d, u)
  <2> SUFFICES ASSUME d.policy = "replace", NEW s \in Slot, d.content[s] = Nothing
               PROVE  u.content[s] = Nothing \/ (u.content[s] = Dir /\ s \in Ancestors(places))
    BY DEF Clean
  <2>1. o.content[s] = t.content[s]
    BY <1>1, Kept DEF Candidates
  <2>2. s \notin places
    BY DEF Present
  <2>3. CASE met /\ x.draft.kind = "no-op"
    <3>1. DirectoryDigest(o, places) = d.content
      BY <1>1, <2>3, TreeMatches
    <3>2. u = t
      BY <1>6, <2>3
    <3> QED BY <1>1, <2>1, <2>2, <3>1, <3>2, DigestIs
  <2>4. CASE x.draft.kind = "mirror-directory"
    <3>1. x.draft.adds = Changed(d, o) /\ x.draft.removes = Unwanted(d, o)
      BY <1>3, <2>4
    <3>2. s \notin x.draft.adds /\ d.content[s] # Dir
      BY <1>4, <2>2, <3>1, Contents
    <3>3. Ancestors(x.draft.adds) \subseteq Ancestors(places)
      BY <1>4, <3>1 DEF Ancestors
    <3>4. u.content[s] = IF s \in Ancestors(x.draft.adds) /\ KeptAt(x, t, s) = Nothing THEN Dir
                         ELSE KeptAt(x, t, s)
      BY <1>6, <2>4, <3>2
    <3>5. KeptAt(x, t, s) # Nothing => KeptAt(x, t, s) = t.content[s] /\ s \notin Unwanted(d, o)
      BY <3>1 DEF KeptAt
    <3>6. s \notin Unwanted(d, o) /\ t.content[s] # Nothing
            => t.content[s] = Dir /\ s \in Ancestors(places)
      BY <2>1, <2>2 DEF Unwanted, Present
    <3> QED BY <3>3, <3>4, <3>5, <3>6
  <2> QED BY <1>3, <2>3, <2>4
<1>9. Replanned(d, u, ov) = NoOp
  <2> DEFINE r == Record(d)
             p == Observe(u, d, r)
  <2>1. ObservedMatchesDesired(d, p, r)
    BY <1>1, <1>6, <1>8, VerifiedTreeMatches DEF Fits
  <2>2. Recorded(r, d)
    BY OwnRecord DEF TreeWanted
  <2>3. p.state = "directory"
    BY <2>1, <2>2, TreeMatches
  <2>4. p.content \in Content
    <3>1. u.object = "directory" /\ u.content \in Content
      BY <1>1, <1>2, <1>6, VerifiedIs DEF Fits, Found, State, TreeWanted
    <3> QED BY <1>6, <2>2, <3>1, TreeSeen, Kept DEF Fits
  <2> HIDE DEF p, r
  <2>5. CASE d.policy = "replace"
    <3>1. PlanReplace(d, p, r) = NoOp
      BY <2>1 DEF PlanReplace
    <3>2. Replanned(d, u, ov) = PlanResource(d, p, r, ov)
      BY DEF Replanned, p, r
    <3> QED BY <2>3, <2>5, <3>1, <3>2, PlanIs
  <2>6. CASE d.policy = "replace-if-unmodified"
    <3>1. PlanReplaceIfUnmodified(d, p, r) = NoOp
      <4>1. TreeWanted(d) /\ p.state \in {"directory", "absent"}
        BY <2>3
      <4> HIDE DEF d
      <4> QED BY <2>1, <2>2, <2>4, <2>6, <4>1, MetTreePlan
    <3>2. Replanned(d, u, ov) = PlanResource(d, p, r, ov)
      BY DEF Replanned, p, r
    <3> QED BY <2>3, <2>6, <3>1, <3>2, PlanIs
  <2> QED BY <2>5, <2>6
<1> QED BY <1>6, <1>7, <1>9 DEF Faithful

----------------------------------------------------------------------------
(* Tools and credentials, whose records are never kept. *)

\* What is seen of a program.
LEMMA ProgramSeen ==
  ASSUME NEW t, Found(t), NEW d, d.kind \in {"tool", "credential"}, NEW rec
  PROVE  /\ t.object \in {"absent", "unreadable"} => Observe(t, d, rec).state # "present"
         /\ t.object \notin {"absent", "unreadable"} => Observe(t, d, rec).state = "present"
<1>1. CASE t.object = "absent"
  BY <1>1 DEF Observe, Seen
<1>2. CASE t.object = "unreadable"
  BY <1>2 DEF Observe, Seen
<1>3. CASE t.object \notin {"absent", "unreadable"}
  <2>1. Observe(t, d, rec) = Seen("present", "regular", None, Empty)
    BY <1>3, Zenon DEF Observe, Tree
  <2> QED BY <1>3, <2>1 DEF Seen
<1> QED BY <1>1, <1>2, <1>3

\* What is planned for a program: nothing when it is there; otherwise it is left to a person
\* or an agent, or installed by a recipe the planner trusts.
LEMMA EnsurePlan ==
  ASSUME NEW d, NEW o, NEW i \in DOMAIN PlanEnsure(d, o), NEW p, p = PlanEnsure(d, o)[i]
  PROVE  /\ o.state = "present" => PlanEnsure(d, o) = NoOp
         /\ o.state # "present" => p.kind \in {"human-action", "agent-task", "install-tool"}
         /\ p.kind = "install-tool" => d.tool.recipe # None /\ ~NeedsPerson(d.tool.recipe)
         /\ i # 1 => p.kind = "human-action"
<1>1. CASE o.state = "present"
  <2>1. PlanEnsure(d, o) = NoOp
    BY <1>1, Zenon DEF PlanEnsure
  <2> QED BY <1>1, <2>1 DEF NoOp, Draft
<1>2. ASSUME o.state # "present", PlanEnsure(d, o) \in {Human, Draft("agent-task", {}, {})}
      PROVE  i = 1 /\ p.kind \in {"human-action", "agent-task"}
  BY <1>2 DEF Human, Draft
<1>3. UnresolvedAgentTask(d) \in {Human, Draft("agent-task", {}, {})}
  BY DEF UnresolvedAgentTask
<1>4. CASE o.state # "present" /\ d.tool.recipe = None
  <2>1. PlanEnsure(d, o) = UnresolvedAgentTask(d)
    BY <1>4, Zenon DEF PlanEnsure
  <2> QED BY <1>2, <1>3, <1>4, <2>1
<1>5. CASE o.state # "present" /\ d.tool.recipe # None
  <2> DEFINE install == Draft("install-tool", {}, {}) \o (IF d.tool.login THEN Human ELSE <<>>)
  <2>1. PlanEnsure(d, o) = IF o.state = "unverifiable" THEN UnresolvedAgentTask(d)
                           ELSE IF NeedsPerson(d.tool.recipe) THEN Human ELSE install
    BY <1>5, Zenon DEF PlanEnsure
  <2>2. CASE o.state = "unverifiable" \/ NeedsPerson(d.tool.recipe)
    <3>2. PlanEnsure(d, o) \in {UnresolvedAgentTask(d), Human}
      BY <2>1, <2>2, Zenon
    <3>1. PlanEnsure(d, o) \in {Human, Draft("agent-task", {}, {})}
      BY <1>3, <3>2
    <3> QED BY <1>2, <1>5, <3>1
  <2>3. CASE o.state # "unverifiable" /\ ~NeedsPerson(d.tool.recipe)
    <3>1. PlanEnsure(d, o) = install
      BY <2>1, <2>3, Zenon
    <3>2. DOMAIN install \subseteq 1..2 /\ install[1].kind = "install-tool"
          /\ (2 \in DOMAIN install => install[2].kind = "human-action")
      BY DEF Draft, Human
    <3> HIDE DEF install
    <3> QED BY <1>5, <2>3, <3>1, <3>2
  <2> QED BY <2>2, <2>3
<1> QED BY <1>1, <1>4, <1>5

\* Programs: what is found there is not changed, and once the action is verified nothing is
\* left to do.
LEMMA ProgramActs ==
  ASSUME NEW x, Wanted(x.d), x.d.kind \in {"tool", "credential"}, NEW rec, Recorded(rec, x.d),
         NEW ov, NEW t, Fits(x.d, t), x.seen = Observe(t, x.d, rec),
         NEW i \in DOMAIN PlanResource(x.d, x.seen, rec, ov),
         x.draft = PlanResource(x.d, x.seen, rec, ov)[i], Live(x),
         NEW u, u \in Effect(x, t), Verified(x.d, u)
  PROVE  /\ rec = None /\ x.d.content = Empty /\ Faithful(x, rec, ov, t, u)
         /\ PlanResource(x.d, Observe(u, x.d, rec), rec, ov) = NoOp
<1> DEFINE d == x.d
           o == x.seen
<1>1. rec = None /\ d.content = Empty
  <2>1. d.kind \in Kind /\ (rec # None => rec.kind \in Kind)
    BY DEF Wanted, DesiredResource, Recorded, AppliedResource
  <2> QED BY <2>1, ClassIs DEF Recorded, Wanted, WellFormed
\* The policies look at nothing but whether the program is there.
<1>2. \A r, e : PlanResource(d, e, r, ov) = IF d.kind = "tool" THEN PlanEnsure(d, e)
                                             ELSE PlanRequireLocal(e)
  BY PolicyOf, PlanIs
<1>3. d.kind = "tool" => /\ o.state = "present" => PlanEnsure(d, o) = NoOp
                         /\ o.state # "present" => x.draft.kind \in {"human-action", "agent-task", "install-tool"}
  BY <1>2, EnsurePlan
<1>4. d.kind = "credential" => o.state = "present" /\ PlanRequireLocal(o) = NoOp
  <2>1. CASE d.kind = "credential" /\ o.state # "present"
    <3>1. PlanResource(d, o, rec, ov) = Human
      BY <1>2, <2>1 DEF PlanRequireLocal
    <3> QED BY <3>1 DEF Human, Draft, Live
  <2> QED BY <2>1 DEF PlanRequireLocal
<1>5. \/ t.object \notin {"absent", "unreadable"} /\ x.draft.kind = "no-op"
      \/ t.object \in {"absent", "unreadable"} /\ x.draft.kind \in {"agent-task", "install-tool"}
  <2>1. o.state = "present" => x.draft.kind = "no-op"
    <3>1. o.state = "present" => PlanResource(d, o, rec, ov) = NoOp
      BY <1>2, <1>3, <1>4
    <3> QED BY <3>1 DEF NoOp, Draft
  <2>2. o.state # "present" => x.draft.kind \in {"agent-task", "install-tool"}
    BY <1>3, <1>4 DEF Live
  <2> QED BY <2>1, <2>2, ProgramSeen DEF Fits
<1>6. \/ u = t /\ t.object \notin {"absent", "unreadable"}
      \/ u = Regular(0, Empty) /\ t.content = Empty
  BY <1>5, EffectIs DEF Fits, Found
<1>7. Fits(d, u) /\ u.object \notin {"absent", "unreadable"}
  BY <1>6, Contents, Modes DEF Fits, Found, State, Regular, Object
<1>8. Keeps(x, rec, ov, u) /\ Respects(x, rec, ov, t, u)
  BY <1>1, <1>6, Contents DEF Keeps, Respects, Regular
<1>9. ASSUME NEW r
      PROVE  PlanResource(d, Observe(u, d, r), r, ov) = NoOp
  <2>1. Observe(u, d, r).state = "present"
    BY <1>7, ProgramSeen DEF Fits
  <2>2. PlanEnsure(d, Observe(u, d, r)) = NoOp
    BY <2>1, Zenon DEF PlanEnsure
  <2>3. PlanRequireLocal(Observe(u, d, r)) = NoOp
    BY <2>1 DEF PlanRequireLocal
  <2> QED BY <1>2, <2>2, <2>3
<1> QED BY <1>1, <1>7, <1>8, <1>9 DEF Faithful, Replanned

----------------------------------------------------------------------------
(* Removals. *)

\* What is left of a resource that is gone, next to its record.
LEMMA GoneIs ==
  ASSUME NEW r, Wanted(r), r.kind \notin {"tool", "credential"}, NEW d, d = Gone(Record(r))
  PROVE  /\ Wanted(d) /\ Recorded(Record(r), d)
         /\ d.kind = r.kind /\ d.policy = r.policy /\ d.target = r.target /\ d.object = r.object
         /\ d.mode = r.mode /\ d.content = r.content /\ d.deps = {}
<1>1. /\ d.kind = r.kind /\ d.policy = r.policy /\ d.target = r.target /\ d.object = r.object
      /\ d.mode = r.mode /\ d.content = r.content /\ d.deps = {}
  BY RecordIs DEF Gone, Wanted
<1>2. d \in DesiredResource
  BY RecordIs DEF Gone, Wanted, DesiredResource, AppliedResource
<1>3. WellFormed(d)
  BY <1>1 DEF Wanted, WellFormed
<1>4. Wanted(d)
  BY <1>1, <1>2, <1>3 DEF Wanted
<1>5. Record(d) = Record(r)
  BY <1>1 DEF Record
<1> QED BY <1>1, <1>4, <1>5, OwnRecord

\* A removal x of what rec records, executed where its plan still holds.
Removes(x, rec, t, u) ==
  /\ Wanted(x.d) /\ x.d.kind \notin {"tool", "credential"}
  /\ rec # None /\ rec \in AppliedResource /\ rec = Record(x.d)
  /\ Fits(x.d, t) /\ x.seen = Observe(t, x.d, rec)
  /\ <<x.draft>> = PlanRemoved(x.d, x.seen, rec) /\ x.draft.kind = "remove-resource"
  /\ u \in RemoveResource(x, t)

\* A removal leaves nothing that was declared, and takes only what is as recorded.
Withdrawn(x, rec, ov, t, u) ==
  /\ Fits(x.d, u) /\ Respects(x, rec, ov, t, u)
  /\ \A s \in Slot : Declared(rec, s) # Nothing => u.content[s] = Nothing

\* When a removal is planned, and what it removes.
LEMMA RemovalIs ==
  ASSUME NEW x, NEW rec, NEW t, NEW u, Removes(x, rec, t, u)
  PROVE  /\ x.draft.removes = Present(rec.content) /\ rec.content = x.d.content
         /\ rec.policy = x.d.policy /\ rec.kind = x.d.kind /\ rec.mode = x.d.mode
         /\ t.content \in Content /\ rec.content \in Content
         /\ x.d.policy # "append-local" => ObservedMatchesApplied(x.d, x.seen, rec)
<1> DEFINE remove == Draft("remove-resource", {}, Present(rec.content))
<1>1. /\ rec.content = x.d.content /\ rec.policy = x.d.policy /\ rec.kind = x.d.kind
      /\ rec.mode = x.d.mode /\ t.content \in Content /\ rec.content \in Content
  BY RecordIs DEF Removes, Wanted, Fits, Found, State, AppliedResource
<1>2. /\ <<x.draft>> \in {remove, Drift, <<>>}
      /\ x.d.policy # "append-local" =>
           <<x.draft>> = IF ObservedMatchesApplied(x.d, x.seen, rec) THEN remove ELSE <<>>
  BY DEF Removes, PlanRemoved
<1>3. <<x.draft>> # Drift /\ <<x.draft>> # <<>>
  BY DEF Removes, Drift, Draft
<1>4. <<x.draft>> = remove
  BY <1>2, <1>3
<1>5. x.draft.removes = Present(rec.content)
  BY <1>4 DEF Draft
<1> HIDE DEF remove
<1> QED BY <1>1, <1>2, <1>3, <1>5

\* The marked text of a file.
LEMMA AppendedFileRemoved ==
  ASSUME NEW x, NEW rec, NEW ov, NEW t, NEW u, Removes(x, rec, t, u), x.d.policy = "append-local"
  PROVE  Withdrawn(x, rec, ov, t, u)
<1>1. /\ x.d.kind = "file" /\ x.d.content = Unmarked(x.d.content[Local])
      /\ x.d.content[Local] \in Value
  BY AppendedFileIs DEF Removes, AppendedFile
<1>2. \/ t.object = "absent" /\ u = t
      \/ /\ t.object = "regular" /\ t.content[Source] = x.d.content[Local]
         /\ u = [t EXCEPT !.content[Source] = Nothing]
  <2>1. u \in IF t.object = "absent" THEN {t}
              ELSE IF t.object # "regular" \/ t.content[Source] # x.d.content[Local] THEN {}
              ELSE {[t EXCEPT !.content[Source] = Nothing]}
    <3>1. x.d.policy # "merge" /\ ~Tree(x.d.kind)
      BY <1>1 DEF Tree
    <3> QED BY <3>1, Zenon DEF Removes, RemoveResource
  <2> QED BY <2>1
<1>3. rec.content = x.d.content /\ rec.policy = "append-local" /\ t.content \in Content
  BY RemovalIs
<1>4. CASE t.object = "absent" /\ u = t
  <2>1. \A s \in Slot : u.content[s] = Nothing
    BY <1>4, Contents DEF Removes, Fits, Found
  <2> QED BY <1>4, <2>1 DEF Withdrawn, Removes, Respects
<1>5. CASE /\ t.object = "regular" /\ t.content[Source] = x.d.content[Local]
           /\ u = [t EXCEPT !.content[Source] = Nothing]
  <2>1. u \in State /\ u.object = "regular"
        /\ \A s \in Slot : u.content[s] = IF s = Source THEN Nothing ELSE t.content[s]
    BY <1>3, <1>5, Contents DEF Removes, Fits, Found, State, Content
  <2>2. Fits(x.d, u)
    BY <2>1 DEF Fits, Found, Removes, Present
  <2>3. Respects(x, rec, ov, t, u)
    BY <1>3, <1>5, <2>1 DEF Respects, AsRecorded, RecordPlace, Removes
  <2>4. \A s \in Slot : Declared(rec, s) # Nothing => u.content[s] = Nothing
    BY <1>3, <2>1 DEF Declared
  <2> QED BY <2>2, <2>3, <2>4 DEF Withdrawn
<1> QED BY <1>2, <1>4, <1>5

\* The keys of a config.
LEMMA MergedConfigRemoved ==
  ASSUME NEW x, NEW rec, NEW ov, NEW t, NEW u, Removes(x, rec, t, u), x.d.policy = "merge"
  PROVE  Withdrawn(x, rec, ov, t, u)
<1>1. x.d.kind = "config"
  BY PolicyOf DEF Removes
<1>2. t.object \in {"absent", "regular"} /\ u = [t EXCEPT !.content = Keep(@, Slot \ x.draft.removes)]
  <2>1. u \in IF t.object \notin {"absent", "regular"} THEN {}
              ELSE {[t EXCEPT !.content = Keep(@, Slot \ x.draft.removes)]}
    <3>1. x.d.policy # "append-local" /\ ~Tree(x.d.kind)
      BY <1>1 DEF Tree
    <3> QED BY <3>1, Zenon DEF Removes, RemoveResource
  <2> QED BY <2>1
<1>3. /\ x.draft.removes = Present(rec.content) /\ rec.content = x.d.content
      /\ rec.policy = "merge" /\ t.content \in Content /\ rec.content \in Content
      /\ ObservedMatchesApplied(x.d, x.seen, rec)
  BY RemovalIs
<1>4. /\ u \in State /\ u.object = t.object
      /\ \A s \in Slot : u.content[s] = IF rec.content[s] # Nothing THEN Nothing ELSE t.content[s]
  BY <1>2, <1>3, Kept DEF Removes, Fits, Found, State, Present
<1>5. u.object \in {"absent", "unreadable"} => u.content = Empty
  <2>1. CASE t.object = "absent"
    <3>1. \A s \in Slot : t.content[s] = Nothing
      BY <2>1, Contents DEF Removes, Fits, Found
    <3>2. u.content \in Content
      BY <1>4 DEF State
    <3> QED BY <1>4, <3>1, <3>2, Contents, SameContent
  <2> QED BY <1>2, <1>4, <2>1
<1>6. t.object = "regular" => \A s \in Slot : rec.content[s] # Nothing => t.content[s] = rec.content[s]
  <2> SUFFICES ASSUME t.object = "regular", NEW s \in Slot, rec.content[s] # Nothing
               PROVE  t.content[s] = rec.content[s]
    OBVIOUS
  <2>1. x.seen.state = "present" /\ x.seen.content = Keep(t.content, Present(x.d.content))
    BY <1>1, ConfigSeen DEF Removes, Fits
  <2>2. ObservedDigest(x.seen) = rec.content
    BY <1>1, <1>3, <2>1 DEF ObservedMatchesApplied, Tree, Removes
  <2>3. rec.content = Keep(t.content, Present(x.d.content))
    BY <2>1, <2>2 DEF ObservedDigest
  <2> QED BY <1>3, <2>3, Kept
<1>7. t.object = "absent" => \A s \in Slot : t.content[s] = Nothing
  BY Contents DEF Removes, Fits, Found
<1>8. Respects(x, rec, ov, t, u)
  BY <1>2, <1>3, <1>4, <1>6, <1>7 DEF Respects, AsRecorded, RecordPlace, Removes
<1>9. Fits(x.d, u)
  BY <1>1, <1>4, <1>5 DEF Fits, Found
<1> QED BY <1>3, <1>4, <1>8, <1>9 DEF Withdrawn, Declared

\* The entries of a tree.
LEMMA TreeRemoved ==
  ASSUME NEW x, NEW rec, NEW ov, NEW t, NEW u, Removes(x, rec, t, u),
         x.d.kind \in {"directory", "skill"}
  PROVE  Withdrawn(x, rec, ov, t, u)
<1> DEFINE c == Keep(t.content, Slot \ x.draft.removes)
<1>1. /\ TreeWanted(x.d) /\ Tree(x.d.kind) /\ x.d.policy # "append-local" /\ x.d.policy # "merge"
      /\ Recorded(rec, x.d)
  <2>1. TreeWanted(x.d) /\ Recorded(rec, x.d)
    BY OwnRecord DEF Removes, TreeWanted
  <2> QED BY <2>1, TreeIs
<1>2. /\ x.draft.removes = Present(rec.content) /\ rec.content = x.d.content
      /\ rec.policy = x.d.policy /\ t.content \in Content /\ rec.content \in Content
      /\ ObservedMatchesApplied(x.d, x.seen, rec)
  BY <1>1, RemovalIs
<1>3. \/ t.object = "absent" /\ u = t
      \/ t.object = "directory" /\ u = [t EXCEPT !.content = c]
  <2>1. u \in IF t.object = "absent" THEN {t}
              ELSE IF t.object = "directory" /\ TreeFits(c) THEN {[t EXCEPT !.content = c]} ELSE {}
    BY <1>1, Zenon DEF Removes, RemoveResource
  <2> HIDE DEF c
  <2> QED BY <2>1
<1>4. CASE t.object = "absent" /\ u = t
  <2>1. \A s \in Slot : u.content[s] = Nothing
    BY <1>4, Contents DEF Removes, Fits, Found
  <2> QED BY <1>4, <2>1 DEF Withdrawn, Removes, Respects
<1>5. CASE t.object = "directory" /\ u = [t EXCEPT !.content = c]
  <2>1. /\ u \in State /\ u.object = "directory"
        /\ \A s \in Slot : u.content[s] = IF rec.content[s] # Nothing THEN Nothing ELSE t.content[s]
    BY <1>2, <1>5, Kept DEF Removes, Fits, Found, State, Present
  <2>2. Fits(x.d, u)
    BY <2>1, <1>1, TreeIs DEF Fits, Found
  <2>3. /\ x.seen.state = "directory"
        /\ x.seen.content = Keep(t.content, Candidates(x.d, rec))
    BY <1>1, <1>5, TreeSeen DEF Removes, Fits
  <2>4. \A s \in Present(x.seen.content) \cap Present(rec.content) :
          x.seen.content[s] = rec.content[s]
    BY <1>1, <1>2, <2>3 DEF ObservedMatchesApplied, Removes
  <2>5. ASSUME NEW s \in Slot, rec.content[s] # Nothing, t.content[s] # Nothing
        PROVE  t.content[s] = rec.content[s]
    <3>1. s \in Candidates(x.d, rec) /\ s \in Present(rec.content)
      BY <1>1, <2>5 DEF Candidates, OwnedPlaces, Present, Removes
    <3>2. x.seen.content[s] = t.content[s]
      BY <1>2, <2>3, <3>1, Kept
    <3> QED BY <2>4, <2>5, <3>1, <3>2 DEF Present
  <2>6. Respects(x, rec, ov, t, u)
    BY <1>1, <2>1, <2>5 DEF Respects, AsRecorded, RecordPlace, Removes
  <2>7. \A s \in Slot : Declared(rec, s) # Nothing => u.content[s] = Nothing
    BY <1>1, <1>2, <2>1 DEF Declared
  <2> QED BY <2>2, <2>6, <2>7 DEF Withdrawn
<1> QED BY <1>3, <1>4, <1>5

\* The whole of a plain file or of a config under replace.
LEMMA WholeRemoved ==
  ASSUME NEW x, NEW rec, NEW ov, NEW t, NEW u, Removes(x, rec, t, u),
         x.d.kind \in {"file", "config"}, x.d.policy \notin {"append-local", "merge"}
  PROVE  Withdrawn(x, rec, ov, t, u)
<1>1. u = Blank
  <2>1. u \in IF t.object = "directory" THEN {} ELSE {Blank}
    <3>1. ~Tree(x.d.kind)
      BY DEF Tree
    <3> QED BY <3>1, Zenon DEF Removes, RemoveResource
  <2> QED BY <2>1
<1>2. \A s \in Slot : u.content[s] = Nothing
  BY <1>1, Contents DEF Blank
<1>3. Fits(x.d, u)
  BY <1>1, <1>2, Contents, Modes DEF Fits, Found, State, Object, Blank, Present
<1>4. /\ rec.content = x.d.content /\ rec.kind = x.d.kind /\ t.content \in Content
      /\ rec.content \in Content /\ ObservedMatchesApplied(x.d, x.seen, rec)
  BY RemovalIs
<1>5. CASE x.d.policy = "replace"
  BY <1>2, <1>3, <1>5 DEF Withdrawn, Respects, Licensed
<1>6. CASE x.d.policy # "replace"
  <2>1. x.d.kind = "file" /\ x.d \in DesiredResource /\ x.d.object \in {"regular", "symlink"}
    BY <1>6, PolicyOf DEF Removes, Wanted, WellFormed
  <2>2. /\ x.seen.state \in {"absent", "unverifiable", "present"}
        /\ x.seen.state = "absent" => t.content = Empty
        /\ x.seen.content # t.content => x.seen.content = Opaque
    BY <2>1, FileSeen DEF Removes, Fits
  <2>3. x.seen.state = "absent" \/ ObservedDigest(x.seen) = rec.content
    BY <1>4, <2>1 DEF ObservedMatchesApplied, Tree, Removes
  <2>4. t.content = Empty \/ t.content = rec.content
    BY <1>4, <2>2, <2>3, Contents DEF ObservedDigest
  <2>5. Respects(x, rec, ov, t, u)
    BY <2>1, <2>4, Contents DEF Respects, AsRecorded, RecordPlace, Removes
  <2> QED BY <1>2, <1>3, <2>5 DEF Withdrawn
<1> QED BY <1>5, <1>6

\* Whatever is removed.
LEMMA RemovalActs ==
  ASSUME NEW x, NEW rec, NEW ov, NEW t, NEW u, Removes(x, rec, t, u)
  PROVE  Withdrawn(x, rec, ov, t, u)
<1>1. /\ x.d.kind \in {"file", "directory", "config", "skill"}
      /\ x.d.policy = "append-local" => x.d.kind = "file"
      /\ x.d.policy = "merge" => x.d.kind = "config"
  BY PolicyOf DEF Removes
<1> QED BY <1>1, AppendedFileRemoved, MergedConfigRemoved, TreeRemoved, WholeRemoved

----------------------------------------------------------------------------
(* All kinds of resources. *)

\* A plan of one draft, of the kinds that files, configs and trees know.
IsDraft(plan) ==
  \E k \in {"no-op", "write-file", "write-config", "mirror-directory", "human-action",
            "drift-conflict"}, a, b \in SUBSET Slot : plan = Draft(k, a, b)

\* What is planned for a file, a config or a tree is one draft.
LEMMA OneDraft ==
  ASSUME NEW d, Wanted(d), d.kind \notin {"tool", "credential"}, NEW o, NEW rec, NEW ov
  PROVE  IsDraft(PlanResource(d, o, rec, ov))
<1>1. IsDraft(NoOp) /\ IsDraft(Human) /\ IsDraft(Drift) /\ IsDraft(Write)
  BY DEF IsDraft, NoOp, Human, Drift, Write
<1>2. \A a, b \in SUBSET Slot : /\ IsDraft(Draft("mirror-directory", a, b))
                                /\ IsDraft(Draft("write-config", a, b))
  BY DEF IsDraft
<1>3. \A p : /\ Changed(d, p) \in SUBSET Slot /\ Unwanted(d, p) \in SUBSET Slot
             /\ {s \in Unwanted(d, p) : OwnedTree(rec) /\ rec.content[s] = p.content[s]} \in SUBSET Slot
  BY DEF Changed, Unwanted, Present
<1>4. \A p : IsDraft(ReplaceDirectory(d, p))
  BY <1>2, <1>3, Zenon DEF ReplaceDirectory
<1>5. \A p : IsDraft(PlanReplace(d, p, rec))
  BY <1>1, <1>4, Zenon DEF PlanReplace
<1>6. IsDraft(PlanMirror(d, o, rec))
  BY <1>1, <1>2, <1>3, Zenon DEF PlanMirror
<1>7. IsDraft(PlanMerge(d, o, rec, ov))
  <2> DEFINE keys == Present(d.content)
             prunable == Prunable(d, rec, ov)
             plan == PlanMerge(d, o, rec, ov)
  <2>1. keys \in SUBSET Slot /\ prunable \in SUBSET Slot /\ {} \in SUBSET Slot
    BY DEF Prunable, Present
  <2>2. /\ keys \cap ov # {} => plan = Human
        /\ keys \cap ov = {} /\ prunable # {} => plan = Draft("write-config", keys, prunable)
        /\ keys \cap ov = {} /\ prunable = {}
             => plan = IF ObservedMatchesDesired(d, o, rec) THEN NoOp
                       ELSE Draft("write-config", keys, {})
    BY MergePlan
  <2> HIDE DEF keys, prunable, plan
  <2>3. IsDraft(plan)
    BY <1>1, <1>2, <2>1, <2>2, Zenon
  <2> QED BY <2>3 DEF plan
<1>8. \A p : IsDraft(PlanReplaceIfUnmodified(d, p, rec))
  BY <1>1, <1>5, Zenon DEF PlanReplaceIfUnmodified
<1>9. IsDraft(PlanAppendLocal(d, o, rec))
  BY <1>1, <1>8, Zenon DEF PlanAppendLocal
<1>10. CASE RootConflict(d, o)
  BY <1>1, <1>10 DEF PlanResource
<1>11. CASE ~RootConflict(d, o)
  <2>1. d.kind \in {"directory", "skill"} => o.state \in {"directory", "absent"}
    BY <1>11 DEF RootConflict, Tree
  <2>2. d.policy \in {"replace", "replace-if-unmodified", "append-local", "mirror-owned", "merge"}
    BY PolicyOf
  <2>3. /\ d.policy = "replace" => PlanResource(d, o, rec, ov) = PlanReplace(d, o, rec)
        /\ d.policy = "mirror-owned" => PlanResource(d, o, rec, ov) = PlanMirror(d, o, rec)
        /\ d.policy = "merge" => PlanResource(d, o, rec, ov) = PlanMerge(d, o, rec, ov)
        /\ d.policy = "replace-if-unmodified"
             => PlanResource(d, o, rec, ov) = PlanReplaceIfUnmodified(d, o, rec)
        /\ d.policy = "append-local" => PlanResource(d, o, rec, ov) = PlanAppendLocal(d, o, rec)
    BY <2>1, PlanIs
  <2> QED BY <1>5, <1>6, <1>7, <1>8, <1>9, <2>2, <2>3
<1> QED BY <1>10, <1>11

\* An action of a run, executed where its plan still holds.
Executes(x, rec, ov, t, u) ==
  /\ Wanted(x.d) /\ Fits(x.d, t) /\ Recorded(rec, x.d) /\ x.seen = Observe(t, x.d, rec)
  /\ \E i \in DOMAIN PlanResource(x.d, x.seen, rec, ov) :
       x.draft = PlanResource(x.d, x.seen, rec, ov)[i]
  /\ Live(x) /\ u \in Effect(x, t) /\ Verified(x.d, u)

\* It keeps what is recorded, respects what is local, and leaves nothing to do.
LEMMA ActionActs ==
  ASSUME NEW x, NEW rec, NEW ov, NEW t, NEW u, Executes(x, rec, ov, t, u),
         NEW new, new = IF x.d.kind \in {"tool", "credential"} THEN rec ELSE Record(x.d)
  PROVE  /\ Fits(x.d, u) /\ Keeps(x, rec, ov, u) /\ Respects(x, rec, ov, t, u)
         /\ PlanResource(x.d, Observe(u, x.d, new), new, ov) = NoOp
         /\ x.d.kind \in {"tool", "credential"} => rec = None /\ x.d.content = Empty
<1> DEFINE plan == PlanResource(x.d, x.seen, rec, ov)
<1>1. PICK i \in DOMAIN plan : x.draft = plan[i]
  BY DEF Executes
<1>2. CASE x.d.kind \in {"tool", "credential"}
  <2>1. /\ rec = None /\ x.d.content = Empty /\ Faithful(x, rec, ov, t, u)
        /\ PlanResource(x.d, Observe(u, x.d, rec), rec, ov) = NoOp
    BY <1>1, <1>2, ProgramActs DEF Executes
  <2> QED BY <1>2, <2>1 DEF Faithful
<1>3. CASE x.d.kind \notin {"tool", "credential"}
  <2>1. IsDraft(plan)
    BY <1>3, OneDraft DEF Executes
  <2>2. plan = <<x.draft>>
    <3> HIDE DEF plan
    <3> QED BY <1>1, <2>1 DEF IsDraft, Draft
  <2>3. Acts(x, rec, ov, t, u)
    BY <2>2 DEF Acts, Executes
  <2>4. Faithful(x, rec, ov, t, u)
    <3>1. CASE x.d.kind = "file" /\ x.d.policy # "append-local"
      BY <2>3, <3>1, PlainFileActs DEF PlainFile, Executes
    <3>2. CASE x.d.policy = "append-local"
      BY <2>3, <3>2, AppendedFileActs DEF AppendedFile, Executes
    <3>3. CASE x.d.kind = "config"
      BY <2>3, <3>3, PolicyOf, MergeActs, ReplacedConfigActs DEF ConfigFile, Executes
    <3>4. CASE x.d.kind \in {"directory", "skill"}
      BY <2>3, <3>4, PolicyOf, MirroredActs, ReplacedTreeActs DEF TreeWanted, Executes
    <3> QED BY <1>3, <3>1, <3>2, <3>3, <3>4, PolicyOf DEF Executes
  <2> QED BY <1>3, <2>4 DEF Faithful, Replanned
<1> QED BY <1>2, <1>3

----------------------------------------------------------------------------
(* The inductive invariant. *)

\* What a revision of the family f could give a resource, and what could be recorded of it.
IsGiven(f, r, d) == \E v \in Families[f].views : ValidView(v) /\ v[r] # None /\ d = v[r]
IsRecord(f, r, rec) ==
  \E v \in Families[f].views : /\ ValidView(v) /\ v[r] # None /\ rec = Record(v[r])
                               /\ v[r].kind \notin {"tool", "credential"}

\* The target of a text, and what may be found at a target.
IsText(f, t) == \E v \in Families[f].views : \E r \in Resource :
                  v[r] # None /\ v[r].kind = "file" /\ v[r].target = t
StateOk(f, t, u) == Found(u) /\ (IsText(f, t) => Present(u.content) \subseteq {Source, Local})

\* No two records share a target.
Apart(recs) ==
  \A r, q \in Resource : r # q /\ recs[r] # None /\ recs[q] # None => recs[r].target # recs[q].target

\* What a record declares is what a run left.
Known(recs, lf) ==
  \A r \in Resource : recs[r] # None =>
    \A s \in Slot : Declared(recs[r], s) # Nothing
                      => lf[recs[r].target][s] = Declared(recs[r], s)

\* What a run left is declared by a record.
Covers(rec, t, s, v) == rec # None /\ rec.target = t /\ Declared(rec, s) = v
Covered(recs, lf) ==
  \A t \in Target : \A s \in Slot :
    lf[t][s] \notin {Nothing, Dir} => \E r \in Resource : Covers(recs[r], t, s, lf[t][s])

WorldOk(f, dk, recs, lf) ==
  /\ dk \in [Target -> State] /\ \A t \in Target : StateOk(f, t, dk[t])
  /\ recs \in [Resource -> AppliedResource \cup {None}]
  /\ \A r \in Resource : recs[r] # None => IsRecord(f, r, recs[r])
  /\ lf \in [Target -> Content]
  /\ Apart(recs) /\ Known(recs, lf) /\ Covered(recs, lf)

\* What still holds of an action of a run when it is executed.
Planned(f, x, rec, ov) ==
  IF x.draft.kind = "remove-resource"
  THEN rec # None /\ x.d = Gone(rec) /\ <<x.draft>> = PlanRemoved(x.d, x.seen, rec)
  ELSE /\ IsGiven(f, x.res, x.d)
       /\ \E i \in DOMAIN PlanResource(x.d, x.seen, rec, ov) :
            x.draft = PlanResource(x.d, x.seen, rec, ov)[i]
Alone(x, recs) ==
  \A q \in Resource : q # x.res /\ recs[q] # None => recs[q].target # x.d.target
Current(f, x, dk, recs, ovs) ==
  /\ x.seen = Observe(dk[x.d.target], x.d, recs[x.res])
  /\ Planned(f, x, recs[x.res], ovs[x.res])
  /\ Alone(x, recs)

----------------------------------------------------------------------------
(* What the families of revisions guarantee. *)

\* Whatever a revision gives has passed decoding and validation.
LEMMA GivenIs ==
  ASSUME NEW f \in DOMAIN Families, NEW r \in Resource, NEW d, IsGiven(f, r, d)
  PROVE  Wanted(d) /\ ValidResource(d) /\ d.target \in Target
<1>1. PICK v \in Families[f].views : ValidView(v) /\ v[r] # None /\ d = v[r]
  BY DEF IsGiven
<1>2. d \in DesiredResource /\ WellFormed(d)
  BY <1>1, ViewsAreSane
<1>3. ValidResource(d)
  BY <1>1 DEF ValidView, In
<1> QED BY <1>2, <1>3 DEF Wanted, ValidResource, DesiredResource

\* What is recorded of a resource was given.
LEMMA RecordWasGiven ==
  ASSUME NEW f \in DOMAIN Families, NEW r \in Resource, NEW rec, IsRecord(f, r, rec)
  PROVE  \E d : /\ IsGiven(f, r, d) /\ rec = Record(d) /\ d.kind \notin {"tool", "credential"}
                /\ Wanted(d) /\ rec # None /\ rec \in AppliedResource
                /\ rec.target = d.target /\ rec.kind = d.kind /\ d.target \in Target
<1>1. PICK v \in Families[f].views : /\ ValidView(v) /\ v[r] # None /\ rec = Record(v[r])
                                     /\ v[r].kind \notin {"tool", "credential"}
  BY DEF IsRecord
<1> DEFINE d == v[r]
<1>2. IsGiven(f, r, d)
  BY <1>1 DEF IsGiven
<1>3. Wanted(d) /\ d.target \in Target
  BY <1>2, GivenIs
<1>4. rec # None /\ rec \in AppliedResource /\ rec.target = d.target /\ rec.kind = d.kind
  BY <1>1, <1>3, RecordIs DEF Wanted
<1> QED BY <1>1, <1>2, <1>3, <1>4

\* A resource and its record are of one class.
LEMMA RecordMatchesGiven ==
  ASSUME NEW f \in DOMAIN Families, NEW r \in Resource, NEW d, IsGiven(f, r, d),
         NEW rec, rec # None => IsRecord(f, r, rec)
  PROVE  Recorded(rec, d)
<1> SUFFICES ASSUME rec # None
             PROVE  Recorded(rec, d)
  BY DEF Recorded
<1>1. PICK w \in Families[f].views : /\ ValidView(w) /\ w[r] # None /\ rec = Record(w[r])
                                     /\ w[r].kind \notin {"tool", "credential"}
  BY DEF IsRecord
<1>2. PICK v \in Families[f].views : ValidView(v) /\ v[r] # None /\ d = v[r]
  BY DEF IsGiven
<1>3. Class(w[r].kind) = Class(d.kind)
  BY <1>1, <1>2, ViewsAreSane
<1>4. IsGiven(f, r, w[r])
  BY <1>1 DEF IsGiven
<1>5. Wanted(w[r])
  BY <1>4, GivenIs
<1>6. Recorded(rec, w[r]) /\ rec.kind = w[r].kind
  BY <1>1, <1>5, OwnRecord, RecordIs DEF Wanted
<1> QED BY <1>3, <1>6 DEF Recorded

\* What is found at a target fits the resource that has it.
LEMMA StateFits ==
  ASSUME NEW f \in DOMAIN Families, NEW r \in Resource, NEW d, IsGiven(f, r, d), NEW u
  PROVE  Fits(d, u) <=> StateOk(f, d.target, u)
<1>1. PICK v \in Families[f].views : ValidView(v) /\ v[r] # None /\ d = v[r]
  BY DEF IsGiven
<1>2. d.kind = "file" => IsText(f, d.target)
  BY <1>1 DEF IsText
<1>3. ASSUME IsText(f, d.target)
      PROVE  d.kind = "file"
  <2>1. PICK w \in Families[f].views : \E q \in Resource :
               w[q] # None /\ w[q].kind = "file" /\ w[q].target = d.target
    BY <1>3 DEF IsText
  <2>2. PICK q \in Resource : w[q] # None /\ w[q].kind = "file" /\ w[q].target = d.target
    BY <2>1
  <2>3. Class(w[q].kind) = Class(d.kind)
    BY <1>1, <2>2, ViewsAreSane
  <2>4. d.kind \in Kind /\ w[q].kind \in Kind
    BY <1>1, <2>2, ViewsAreSane DEF DesiredResource
  <2> QED BY <2>2, <2>3, <2>4, ClassIs
<1> QED BY <1>2, <1>3 DEF Fits, StateOk

\* A resource that is planned, or removed, may have its target to itself only.
LEMMA TargetIsOwn ==
  ASSUME NEW f \in DOMAIN Families, NEW v \in Families[f].views, ValidView(v),
         NEW r \in Resource, v[r] # None, NEW q \in Resource, q # r,
         NEW rec, IsRecord(f, q, rec), rec.target = v[r].target
  PROVE  v[q] = None
<1>1. PICK w \in Families[f].views : /\ ValidView(w) /\ w[q] # None /\ rec = Record(w[q])
  BY DEF IsRecord
<1>2. w[q] \in DesiredResource
  BY <1>1, ViewsAreSane
<1>3. w[q].target = v[r].target
  BY <1>1, <1>2, RecordIs
<1>4. v[q] # None => v[q].target = w[q].target
  <2>1. \A a, b \in Families[f].views : \A i, j \in Resource :
          i # j /\ a[i] # None /\ b[j] # None /\ a[i].target = b[j].target
            => \A c \in Families[f].views : c[i] # None => c[i].target = a[i].target
    BY ViewsAreSane
  <2> QED BY <1>1, <1>3, <2>1
<1>5. v[q] # None => v[q].target # v[r].target
  BY DEF ValidView, Disjoint, In
<1> QED BY <1>3, <1>4, <1>5

----------------------------------------------------------------------------
(* An action that is executed as it was planned. *)

\* The target of an action, and what was there.
LEMMA CurrentIs ==
  ASSUME NEW f \in DOMAIN Families, WorldOk(f, disk, records, left), NEW x, x.res \in Resource,
         Live(x), Current(f, x, disk, records, overlay)
  PROVE  /\ Wanted(x.d) /\ x.d.target \in Target
         /\ Fits(x.d, disk[x.d.target]) /\ Recorded(records[x.res], x.d)
         /\ \A u : Fits(x.d, u) <=> StateOk(f, x.d.target, u)
         /\ x.draft.kind = "remove-resource" =>
              /\ x.d.kind \notin {"tool", "credential"} /\ records[x.res] = Record(x.d)
              /\ records[x.res] # None /\ records[x.res] \in AppliedResource
         /\ x.draft.kind # "remove-resource" => IsGiven(f, x.res, x.d)
<1> DEFINE d == x.d
           rec == records[x.res]
<1>1. CASE x.draft.kind = "remove-resource"
  <2>1. rec # None /\ d = Gone(rec) /\ IsRecord(f, x.res, rec)
    BY <1>1 DEF Current, Planned, WorldOk
  <2>2. PICK r : /\ IsGiven(f, x.res, r) /\ rec = Record(r) /\ r.kind \notin {"tool", "credential"}
                 /\ Wanted(r) /\ rec # None /\ rec \in AppliedResource
                 /\ rec.target = r.target /\ rec.kind = r.kind /\ r.target \in Target
    BY <2>1, RecordWasGiven
  <2>3. /\ Wanted(d) /\ Recorded(rec, d)
        /\ d.kind = r.kind /\ d.policy = r.policy /\ d.target = r.target /\ d.object = r.object
        /\ d.mode = r.mode /\ d.content = r.content
    BY <2>1, <2>2, GoneIs
  <2>4. Record(d) = Record(r)
    BY <2>3 DEF Record
  <2>5. \A u : Fits(d, u) <=> StateOk(f, d.target, u)
    <3>1. \A u : Fits(r, u) <=> StateOk(f, r.target, u)
      BY <2>2, StateFits
    <3> QED BY <2>3, <3>1 DEF Fits
  <2>6. StateOk(f, d.target, disk[d.target])
    BY <2>2, <2>3 DEF WorldOk
  <2> QED BY <1>1, <2>1, <2>2, <2>3, <2>4, <2>5, <2>6
<1>2. CASE x.draft.kind # "remove-resource"
  <2>1. IsGiven(f, x.res, d)
    BY <1>2 DEF Current, Planned
  <2>2. Wanted(d) /\ d.target \in Target
    BY <2>1, GivenIs
  <2>3. \A u : Fits(d, u) <=> StateOk(f, d.target, u)
    BY <2>1, StateFits
  <2>4. Recorded(rec, d)
    BY <2>1, RecordMatchesGiven DEF WorldOk
  <2>5. StateOk(f, d.target, disk[d.target])
    BY <2>2 DEF WorldOk
  <2> QED BY <1>2, <2>1, <2>2, <2>3, <2>4, <2>5
<1> QED BY <1>1, <1>2

\* What the action does to its target, as the lemmas on each kind say.
LEMMA CurrentActs ==
  ASSUME NEW f \in DOMAIN Families, WorldOk(f, disk, records, left), NEW x, x.res \in Resource,
         Live(x), Current(f, x, disk, records, overlay),
         NEW u, u \in Effect(x, disk[x.d.target]),
         x.draft.kind # "remove-resource" => Verified(x.d, u)
  PROVE  /\ Fits(x.d, u) /\ Respects(x, records[x.res], overlay[x.res], disk[x.d.target], u)
         /\ x.draft.kind = "remove-resource" =>
              /\ Owned(x) = None
              /\ \A s \in Slot : Declared(records[x.res], s) # Nothing => u.content[s] = Nothing
         /\ x.draft.kind # "remove-resource" =>
              /\ Keeps(x, records[x.res], overlay[x.res], u)
              /\ PlanResource(x.d, Observe(u, x.d, Owned(x)), Owned(x), overlay[x.res]) = NoOp
              /\ Owned(x) = IF x.d.kind \in {"tool", "credential"} THEN None ELSE Record(x.d)
              /\ x.d.kind \in {"tool", "credential"}
                   => records[x.res] = None /\ x.d.content = Empty
<1> DEFINE d == x.d
           t == disk[d.target]
           rec == records[x.res]
           ov == overlay[x.res]
<1>1. /\ Wanted(d) /\ d.target \in Target /\ Fits(d, t) /\ Recorded(rec, d)
      /\ x.draft.kind = "remove-resource" =>
           /\ d.kind \notin {"tool", "credential"} /\ rec = Record(d)
           /\ rec # None /\ rec \in AppliedResource
  BY CurrentIs
<1>2. CASE x.draft.kind = "remove-resource"
  <2>1. u \in RemoveResource(x, t)
    BY <1>2, EffectIs
  <2>2. Removes(x, rec, t, u)
    BY <1>1, <1>2, <2>1 DEF Removes, Current, Planned
  <2>3. Withdrawn(x, rec, ov, t, u)
    BY <2>2, RemovalActs
  <2> QED BY <1>2, <2>3 DEF Withdrawn, Owned
<1>3. CASE x.draft.kind # "remove-resource"
  <2>1. Executes(x, rec, ov, t, u)
    BY <1>1, <1>3 DEF Executes, Current, Planned
  <2> DEFINE new == IF d.kind \in {"tool", "credential"} THEN rec ELSE Record(d)
  <2>2. Owned(x) = new
    BY <1>3 DEF Owned
  <2> HIDE DEF new
  <2>3. /\ Fits(d, u) /\ Keeps(x, rec, ov, u) /\ Respects(x, rec, ov, t, u)
        /\ PlanResource(d, Observe(u, d, new), new, ov) = NoOp
        /\ d.kind \in {"tool", "credential"} => rec = None /\ d.content = Empty
    BY <2>1, ActionActs DEF new
  <2>4. new = IF d.kind \in {"tool", "credential"} THEN None ELSE Record(d)
    BY <2>3 DEF new
  <2> QED BY <1>3, <2>2, <2>3, <2>4
<1> QED BY <1>2, <1>3

\* After the action everything is as it should be.
LEMMA ActKeepsWorld ==
  ASSUME NEW f \in DOMAIN Families, WorldOk(f, disk, records, left), NEW x, x.res \in Resource,
         Live(x), Current(f, x, disk, records, overlay),
         NEW u, u \in Effect(x, disk[x.d.target]),
         x.draft.kind # "remove-resource" => Verified(x.d, u),
         NEW dk, dk = [disk EXCEPT ![x.d.target] = u],
         NEW recs, recs = [records EXCEPT ![x.res] = Owned(x)],
         NEW lf, lf = LeftBy(x, u)
  PROVE  WorldOk(f, dk, recs, lf)
<1> DEFINE d == x.d
           place == d.target
           rec == records[x.res]
           new == Owned(x)
<1>1. /\ Wanted(d) /\ place \in Target
      /\ \A e : Fits(d, e) <=> StateOk(f, place, e)
      /\ x.draft.kind # "remove-resource" => IsGiven(f, x.res, d)
  BY CurrentIs
<1>2. /\ Fits(d, u)
      /\ x.draft.kind = "remove-resource" =>
           /\ new = None
           /\ \A s \in Slot : Declared(rec, s) # Nothing => u.content[s] = Nothing
      /\ x.draft.kind # "remove-resource" =>
           /\ Keeps(x, rec, overlay[x.res], u)
           /\ new = IF d.kind \in {"tool", "credential"} THEN None ELSE Record(d)
           /\ d.kind \in {"tool", "credential"} => rec = None /\ d.content = Empty
  BY CurrentActs
<1>3. /\ disk \in [Target -> State] /\ records \in [Resource -> AppliedResource \cup {None}]
      /\ left \in [Target -> Content]
      /\ Apart(records) /\ Known(records, left) /\ Covered(records, left)
      /\ \A t \in Target : StateOk(f, t, disk[t])
      /\ \A r \in Resource : records[r] # None => IsRecord(f, r, records[r])
  BY DEF WorldOk
<1>4. u \in State /\ u.content \in Content /\ StateOk(f, place, u)
  BY <1>1, <1>2 DEF Fits, Found, State
<1>5. \A q \in Resource : q # x.res /\ records[q] # None => records[q].target # place
  BY DEF Current, Alone
<1>6. new # None => /\ new = Record(d) /\ new \in AppliedResource /\ new.target = place
                    /\ new.content = d.content /\ new.policy = d.policy
                    /\ IsRecord(f, x.res, new) /\ x.draft.kind # "remove-resource"
  <2> SUFFICES ASSUME new # None
               PROVE  /\ new = Record(d) /\ new \in AppliedResource /\ new.target = place
                      /\ new.content = d.content /\ new.policy = d.policy
                      /\ IsRecord(f, x.res, new) /\ x.draft.kind # "remove-resource"
    OBVIOUS
  <2>1. new = Record(d) /\ x.draft.kind # "remove-resource" /\ d.kind \notin {"tool", "credential"}
    BY <1>2
  <2>2. IsRecord(f, x.res, new)
    <3> HIDE DEF new
    <3> QED BY <1>1, <2>1 DEF IsGiven, IsRecord
  <2> QED BY <1>1, <2>1, <2>2, RecordIs DEF Wanted
<1>7. new # None => \A s : Declared(new, s) = Declared(d, s)
  BY <1>6 DEF Declared
<1>8. /\ \A r \in Resource : recs[r] = IF r = x.res THEN new ELSE records[r]
      /\ recs \in [Resource -> AppliedResource \cup {None}]
  <2>1. new \in AppliedResource \cup {None}
    BY <1>6
  <2> HIDE DEF new
  <2>2. recs = [records EXCEPT ![x.res] = new]
    BY DEF new
  <2> QED BY <1>3, <2>1, <2>2
<1>9. \A t \in Target : lf[t] = IF t = place THEN Leave(x, u)
                                 ELSE IF rec # None /\ t = rec.target THEN Empty ELSE left[t]
  BY DEF LeftBy
<1>10. /\ Leave(x, u) \in Content
       /\ \A s \in Slot :
            Leave(x, u)[s] = IF \/ x.draft.kind # "remove-resource" /\ Declared(d, s) = u.content[s]
                                \/ /\ u.content[s] = left[place][s]
                                   /\ s \notin overlay[x.res] /\ ~GivenUp(d, s)
                             THEN u.content[s] ELSE Nothing
  <2>1. Leave(x, u) = [s \in Slot |-> IF \/ x.draft.kind # "remove-resource" /\ Declared(d, s) = u.content[s]
                                         \/ /\ u.content[s] = left[place][s]
                                            /\ s \notin overlay[x.res] /\ ~GivenUp(d, s)
                                      THEN u.content[s] ELSE Nothing]
    BY DEF Leave
  <2>2. \A s \in Slot :
          Leave(x, u)[s] = IF \/ x.draft.kind # "remove-resource" /\ Declared(d, s) = u.content[s]
                              \/ /\ u.content[s] = left[place][s]
                                 /\ s \notin overlay[x.res] /\ ~GivenUp(d, s)
                           THEN u.content[s] ELSE Nothing
    BY <2>1, Zenon
  <2>3. \A s \in Slot : Leave(x, u)[s] \in {u.content[s], Nothing}
    BY <2>2
  <2>4. Leave(x, u) = [s \in Slot |-> Leave(x, u)[s]]
    BY DEF Leave
  <2>5. Leave(x, u) \in Content
    BY <1>4, <2>3, <2>4 DEF Content
  <2> QED BY <2>2, <2>5
<1> HIDE DEF new
<1>11. dk \in [Target -> State] /\ \A t \in Target : StateOk(f, t, dk[t])
  BY <1>1, <1>3, <1>4
<1>12. \A r \in Resource : recs[r] # None => IsRecord(f, r, recs[r])
  BY <1>3, <1>6, <1>8
<1>13. lf \in [Target -> Content]
  <2>1. \A t \in Target : lf[t] \in Content
    BY <1>3, <1>9, <1>10, Contents
  <2>2. lf = [t \in Target |-> lf[t]]
    BY DEF LeftBy
  <2> QED BY <2>1, <2>2
<1>14. Apart(recs)
  BY <1>3, <1>5, <1>6, <1>8 DEF Apart
<1>15. Known(recs, lf)
  <2> SUFFICES ASSUME NEW r \in Resource, recs[r] # None,
                      NEW s \in Slot, Declared(recs[r], s) # Nothing
               PROVE  lf[recs[r].target][s] = Declared(recs[r], s)
    BY DEF Known
  <2>1. CASE r = x.res
    <3>1. new # None /\ recs[r] = new /\ new.target = place /\ Declared(d, s) = Declared(new, s)
      BY <1>6, <1>7, <1>8, <2>1
    <3>2. u.content[s] = Declared(d, s)
      BY <1>1, <1>4, <1>6, <3>1, DeclaredIsThere
    <3> QED BY <1>1, <1>6, <1>9, <1>10, <3>1, <3>2
  <2>2. CASE r # x.res
    <3>1. recs[r] = records[r] /\ records[r].target \in Target
      BY <1>3, <1>8, <2>2 DEF AppliedResource
    <3>2. records[r].target # place /\ (rec # None => records[r].target # rec.target)
      BY <1>3, <1>5, <2>2, <3>1 DEF Apart
    <3>3. lf[records[r].target] = left[records[r].target]
      BY <1>9, <3>1, <3>2
    <3> QED BY <1>3, <3>1, <3>3 DEF Known
  <2> QED BY <2>1, <2>2
<1>16. Covered(recs, lf)
  <2> SUFFICES ASSUME NEW t \in Target, NEW s \in Slot, lf[t][s] \notin {Nothing, Dir}
               PROVE  \E r \in Resource : Covers(recs[r], t, s, lf[t][s])
    BY DEF Covered
  <2>1. CASE t = place
    <3>1. lf[t][s] = u.content[s] /\ u.content[s] \notin {Nothing, Dir}
          /\ \/ x.draft.kind # "remove-resource" /\ Declared(d, s) = u.content[s]
             \/ /\ u.content[s] = left[place][s]
                /\ s \notin overlay[x.res] /\ ~GivenUp(d, s)
      BY <1>9, <1>10, <2>1
    <3>2. x.draft.kind # "remove-resource" /\ Declared(d, s) = u.content[s]
      <4> SUFFICES ASSUME u.content[s] = left[place][s],
                          s \notin overlay[x.res], ~GivenUp(d, s)
                   PROVE  x.draft.kind # "remove-resource" /\ Declared(d, s) = u.content[s]
        BY <3>1
      <4>1. PICK q \in Resource : Covers(records[q], place, s, left[place][s])
        BY <1>1, <1>3, <3>1 DEF Covered
      <4>2. q = x.res
        BY <1>5, <4>1 DEF Covers
      <4>3. rec # None /\ Declared(rec, s) = u.content[s]
        BY <4>1, <4>2 DEF Covers
      <4> QED BY <1>2, <3>1, <4>3 DEF Keeps
    <3>3. new # None
      <4>1. d.kind \notin {"tool", "credential"}
        BY <1>2, <3>1, <3>2, Contents DEF Declared
      <4>2. new = Record(d)
        BY <1>2, <3>2, <4>1
      <4> QED BY <1>1, <4>2, RecordIs DEF Wanted
    <3>4. Covers(recs[x.res], t, s, lf[t][s])
      BY <1>6, <1>7, <1>8, <2>1, <3>1, <3>2, <3>3 DEF Covers
    <3> QED BY <3>4
  <2>2. CASE t # place
    <3>1. lf[t] = left[t] /\ ~(rec # None /\ t = rec.target)
      BY <1>9, <2>2, Contents
    <3>2. PICK q \in Resource : Covers(records[q], t, s, left[t][s])
      BY <1>3, <3>1 DEF Covered
    <3>3. q # x.res
      BY <3>1, <3>2 DEF Covers
    <3> QED BY <1>8, <3>1, <3>2, <3>3
  <2> QED BY <2>1, <2>2
<1> QED BY <1>8, <1>11, <1>12, <1>13, <1>14, <1>15, <1>16 DEF WorldOk

----------------------------------------------------------------------------
(* The actions of a run. *)

\* Those still to be executed hold what they were planned with; and no two have a target
\* in common, except that what follows for the same resource ends the run.
TodoOk(f, todo, dk, recs, ovs) ==
  /\ \A i \in DOMAIN todo : Live(todo[i]) => Current(f, todo[i], dk, recs, ovs)
  /\ \A i, j \in DOMAIN todo : i < j =>
       IF todo[i].res = todo[j].res THEN ~Live(todo[j])
       ELSE todo[i].d.target # todo[j].d.target

\* The resources that are planned in a view v, their desired states and their drafts.
Lives(v, recs) == {r \in Resource : v[r] # None \/ recs[r] # None}
Gives(v, recs, r) == IF v[r] = None THEN Gone(recs[r]) ELSE v[r]
Asks(v, dk, recs, ovs, r) ==
  LET d == Gives(v, recs, r)
      o == Observe(dk[d.target], d, recs[r])
  IN  IF v[r] = None THEN PlanRemoved(d, o, recs[r]) ELSE PlanResource(d, o, recs[r], ovs[r])

\* Planning again would ask for nothing.
Quiet(v, dk, recs, ovs, r) ==
  \A i \in DOMAIN Asks(v, dk, recs, ovs, r) : Asks(v, dk, recs, ovs, r)[i].kind = "no-op"

\* Nothing changed since the run started: its actions are those of the view, and what is
\* not among them needs none.
SettledOk(v, todo, dk, recs, ovs) ==
  /\ \A r, q \in Lives(v, recs) : r # q => Gives(v, recs, r).target # Gives(v, recs, q).target
  /\ \A r \in Lives(v, recs) :
       Quiet(v, dk, recs, ovs, r) \/ \E i \in DOMAIN todo : todo[i].res = r
  /\ \A i \in DOMAIN todo : Live(todo[i]) =>
       IF todo[i].draft.kind = "remove-resource" THEN v[todo[i].res] = None
       ELSE v[todo[i].res] # None /\ todo[i].d = v[todo[i].res]

\* What the module calls them.
LEMMA LivesIs ==
  /\ Resources = Lives(view, records)
  /\ \A r \in Resources : /\ Hydrated(r) = Gives(view, records, r)
                          /\ Drafts(r) = Asks(view, disk, records, overlay, r)
                          /\ r \in Removed <=> view[r] = None
<1>1. Resources = Lives(view, records)
  BY DEF Resources, In, Removed, Lives
<1>2. ASSUME NEW r \in Resources
      PROVE  /\ Hydrated(r) = Gives(view, records, r)
             /\ Drafts(r) = Asks(view, disk, records, overlay, r)
             /\ r \in Removed <=> view[r] = None
  <2>1. r \in Removed <=> view[r] = None
    BY DEF Resources, In, Removed
  <2>2. Hydrated(r) = Gives(view, records, r)
    BY <2>1 DEF Hydrated, Gives
  <2> QED BY <2>1, <2>2 DEF Drafts, Asks
<1> QED BY <1>1, <1>2

\* The rest of a run after its first action.
LEMMA Rest ==
  ASSUME NEW todo \in Seq(PlannedAction), todo # <<>>
  PROVE  /\ Head(todo) = todo[1] /\ 1 \in DOMAIN todo /\ Head(todo) \in PlannedAction
         /\ Tail(todo) \in Seq(PlannedAction)
         /\ \A i \in DOMAIN Tail(todo) : /\ Tail(todo)[i] = todo[i + 1] /\ i + 1 \in DOMAIN todo
                                         /\ i \in Nat /\ i > 0
         /\ \A i \in DOMAIN todo : i # 1 => i - 1 \in DOMAIN Tail(todo) /\ Tail(todo)[i - 1] = todo[i]
  OBVIOUS

\* A planned action has a resource and a target.
LEMMA PlannedIs ==
  ASSUME NEW x \in PlannedAction
  PROVE  x.res \in Resource /\ x.d \in DesiredResource /\ x.d.target \in Target
  BY DEF PlannedAction, DesiredResource

\* After the first action the others are still as planned.
LEMMA ActKeepsTodo ==
  ASSUME NEW f \in DOMAIN Families, WorldOk(f, disk, records, left),
         NEW todo \in Seq(PlannedAction), todo # <<>>, NEW x, x = Head(todo), Live(x),
         TodoOk(f, todo, disk, records, overlay),
         NEW u, u \in Effect(x, disk[x.d.target]),
         x.draft.kind # "remove-resource" => Verified(x.d, u),
         NEW dk, dk = [disk EXCEPT ![x.d.target] = u],
         NEW recs, recs = [records EXCEPT ![x.res] = Owned(x)]
  PROVE  TodoOk(f, Tail(todo), dk, recs, overlay)
<1>1. x = todo[1] /\ 1 \in DOMAIN todo /\ x \in PlannedAction
  BY Rest
<1>2. x.res \in Resource /\ x.d.target \in Target /\ Current(f, x, disk, records, overlay)
  BY <1>1, PlannedIs DEF TodoOk
<1>3. Owned(x) # None => Owned(x).target = x.d.target
  <2>1. Owned(x) = None \/ Owned(x) = Record(x.d)
    BY <1>2, CurrentActs
  <2> QED BY <1>1, <2>1, PlannedIs, RecordIs
<1>4. disk \in [Target -> State] /\ records \in [Resource -> AppliedResource \cup {None}]
  BY DEF WorldOk
<1>5. ASSUME NEW i \in DOMAIN Tail(todo), Live(Tail(todo)[i])
      PROVE  Current(f, Tail(todo)[i], dk, recs, overlay)
  <2> DEFINE y == Tail(todo)[i]
  <2>1. y = todo[i + 1] /\ i + 1 \in DOMAIN todo /\ 1 < i + 1 /\ y \in PlannedAction
    <3>1. y = todo[i + 1] /\ i + 1 \in DOMAIN todo /\ i \in Nat /\ i > 0
      BY Rest
    <3>2. y \in PlannedAction
      BY <3>1
    <3> QED BY <3>1, <3>2
  <2> HIDE DEF y
  <2>2. Live(y)
    BY <1>5 DEF y
  <2>3. y.res # x.res /\ y.d.target # x.d.target
    BY <1>1, <2>1, <2>2 DEF TodoOk
  <2>4. Current(f, y, disk, records, overlay)
    BY <2>1, <2>2 DEF TodoOk
  <2>5. y.res \in Resource /\ y.d.target \in Target
    BY <2>1, PlannedIs
  <2>6. dk[y.d.target] = disk[y.d.target] /\ recs[y.res] = records[y.res]
    BY <1>4, <2>3, <2>5
  <2>7. Alone(y, recs)
    <3> SUFFICES ASSUME NEW q \in Resource, q # y.res, recs[q] # None
                 PROVE  recs[q].target # y.d.target
      BY DEF Alone
    <3>1. CASE q = x.res
      <4>1. recs[q] = Owned(x)
        BY <1>2, <1>4, <3>1
      <4> QED BY <1>3, <2>3, <4>1
    <3>2. CASE q # x.res
      <4>1. recs[q] = records[q]
        BY <1>4, <3>2
      <4> QED BY <2>4, <4>1 DEF Current, Alone
    <3> QED BY <3>1, <3>2
  <2>8. Current(f, y, dk, recs, overlay)
    BY <2>4, <2>6, <2>7 DEF Current
  <2> QED BY <2>8 DEF y
<1>6. ASSUME NEW i \in DOMAIN Tail(todo), NEW j \in DOMAIN Tail(todo), i < j
      PROVE  IF Tail(todo)[i].res = Tail(todo)[j].res THEN ~Live(Tail(todo)[j])
             ELSE Tail(todo)[i].d.target # Tail(todo)[j].d.target
  <2>1. /\ Tail(todo)[i] = todo[i + 1] /\ i + 1 \in DOMAIN todo /\ i \in Nat
        /\ Tail(todo)[j] = todo[j + 1] /\ j + 1 \in DOMAIN todo /\ j \in Nat
    BY Rest
  <2>2. i + 1 < j + 1
    BY <1>6, <2>1
  <2> QED BY <2>1, <2>2 DEF TodoOk
<1> QED BY <1>5, <1>6 DEF TodoOk

\* After the first action the run is still that of the view, and its resource needs nothing.
LEMMA ActKeepsSettled ==
  ASSUME NEW f \in DOMAIN Families, WorldOk(f, disk, records, left),
         NEW todo \in Seq(PlannedAction), todo # <<>>, NEW x, x = Head(todo), Live(x),
         TodoOk(f, todo, disk, records, overlay),
         NEW u, u \in Effect(x, disk[x.d.target]),
         x.draft.kind # "remove-resource" => Verified(x.d, u),
         NEW dk, dk = [disk EXCEPT ![x.d.target] = u],
         NEW recs, recs = [records EXCEPT ![x.res] = Owned(x)],
         NEW v, \A r \in Resource : v[r] # None => v[r].target \in Target,
         SettledOk(v, todo, disk, records, overlay)
  PROVE  SettledOk(v, Tail(todo), dk, recs, overlay)
<1>1. x = todo[1] /\ 1 \in DOMAIN todo /\ x \in PlannedAction
  BY Rest
<1>2. /\ x.res \in Resource /\ x.d.target \in Target /\ x.d \in DesiredResource
      /\ Current(f, x, disk, records, overlay)
  BY <1>1, PlannedIs DEF TodoOk
<1>3. disk \in [Target -> State] /\ records \in [Resource -> AppliedResource \cup {None}]
  BY DEF WorldOk
<1>4. /\ x.draft.kind = "remove-resource" =>
           v[x.res] = None /\ x.d = Gone(records[x.res]) /\ records[x.res] # None
      /\ x.draft.kind # "remove-resource" => v[x.res] # None /\ x.d = v[x.res]
  BY <1>1, <1>2 DEF SettledOk, Current, Planned
<1>5. x.res \in Lives(v, records) /\ Gives(v, records, x.res) = x.d
  BY <1>2, <1>4 DEF Lives, Gives
<1>6. /\ x.draft.kind = "remove-resource" => recs[x.res] = None
      /\ x.draft.kind # "remove-resource" =>
           PlanResource(x.d, Observe(u, x.d, recs[x.res]), recs[x.res], overlay[x.res]) = NoOp
  <2>1. recs[x.res] = Owned(x)
    BY <1>2, <1>3
  <2> QED BY <1>2, <2>1, CurrentActs
<1>7. ASSUME NEW r \in Lives(v, recs), r # x.res
      PROVE  /\ r \in Lives(v, records) /\ Gives(v, recs, r) = Gives(v, records, r)
             /\ Quiet(v, disk, records, overlay, r) => Quiet(v, dk, recs, overlay, r)
  <2>1. recs[r] = records[r] /\ r \in Resource
    BY <1>3, <1>7 DEF Lives
  <2>2. r \in Lives(v, records)
    BY <1>7, <2>1 DEF Lives
  <2>3. Gives(v, records, r).target # x.d.target
    BY <1>5, <1>7, <2>2 DEF SettledOk
  <2>4. Gives(v, records, r).target \in Target
    <3>1. CASE v[r] = None
      <4>1. records[r] \in AppliedResource
        BY <1>3, <2>1, <2>2, <3>1 DEF Lives
      <4> QED BY <3>1, <4>1 DEF Gives, Gone, AppliedResource
    <3>2. CASE v[r] # None
      BY <2>1, <3>2 DEF Gives
    <3> QED BY <3>1, <3>2
  <2>5. dk[Gives(v, records, r).target] = disk[Gives(v, records, r).target]
    BY <1>3, <2>3, <2>4
  <2>6. /\ Gives(v, recs, r) = Gives(v, records, r)
        /\ Quiet(v, disk, records, overlay, r) => Quiet(v, dk, recs, overlay, r)
    <3>1. Gives(v, recs, r) = Gives(v, records, r)
      BY <2>1 DEF Gives
    <3>2. Asks(v, dk, recs, overlay, r) = Asks(v, disk, records, overlay, r)
      BY <2>1, <2>5, <3>1 DEF Asks
    <3> QED BY <3>1, <3>2 DEF Quiet
  <2> QED BY <2>2, <2>6
<1>8. ASSUME x.res \in Lives(v, recs)
      PROVE  /\ Gives(v, recs, x.res) = x.d /\ x.res \in Lives(v, records)
             /\ Quiet(v, dk, recs, overlay, x.res)
  <2>1. x.draft.kind # "remove-resource"
    BY <1>4, <1>6, <1>8 DEF Lives
  <2>2. v[x.res] # None /\ v[x.res] = x.d /\ dk[x.d.target] = u
    BY <1>2, <1>3, <1>4, <2>1
  <2>3. Gives(v, recs, x.res) = x.d
    BY <2>2 DEF Gives
  <2>4. Asks(v, dk, recs, overlay, x.res) = NoOp
    BY <1>6, <2>1, <2>2, <2>3 DEF Asks
  <2>5. Quiet(v, dk, recs, overlay, x.res)
    BY <2>4 DEF Quiet, NoOp, Draft
  <2> QED BY <1>5, <2>3, <2>5
<1>9. \A r, q \in Lives(v, recs) : r # q => Gives(v, recs, r).target # Gives(v, recs, q).target
  <2> SUFFICES ASSUME NEW r \in Lives(v, recs), NEW q \in Lives(v, recs), r # q
               PROVE  Gives(v, recs, r).target # Gives(v, recs, q).target
    OBVIOUS
  <2>1. r \in Lives(v, records) /\ Gives(v, recs, r) = Gives(v, records, r)
    BY <1>5, <1>7, <1>8
  <2>2. q \in Lives(v, records) /\ Gives(v, recs, q) = Gives(v, records, q)
    BY <1>5, <1>7, <1>8
  <2> QED BY <2>1, <2>2 DEF SettledOk
<1>10. ASSUME NEW r \in Lives(v, recs)
       PROVE  Quiet(v, dk, recs, overlay, r) \/ \E i \in DOMAIN Tail(todo) : Tail(todo)[i].res = r
  <2>1. CASE r = x.res
    BY <1>8, <2>1
  <2>2. CASE r # x.res
    <3>1. CASE Quiet(v, disk, records, overlay, r)
      BY <1>7, <2>2, <3>1
    <3>2. CASE ~Quiet(v, disk, records, overlay, r)
      <4>1. r \in Lives(v, records)
        BY <1>7, <2>2
      <4>2. PICK i \in DOMAIN todo : todo[i].res = r
        BY <3>2, <4>1 DEF SettledOk
      <4>3. i # 1
        BY <1>1, <2>2, <4>2
      <4>4. i - 1 \in DOMAIN Tail(todo) /\ Tail(todo)[i - 1] = todo[i]
        BY <4>3, Rest
      <4> QED BY <4>2, <4>4
    <3> QED BY <3>1, <3>2
  <2> QED BY <2>1, <2>2
<1>11. ASSUME NEW i \in DOMAIN Tail(todo), Live(Tail(todo)[i])
       PROVE  IF Tail(todo)[i].draft.kind = "remove-resource" THEN v[Tail(todo)[i].res] = None
              ELSE v[Tail(todo)[i].res] # None /\ Tail(todo)[i].d = v[Tail(todo)[i].res]
  <2>1. Tail(todo)[i] = todo[i + 1] /\ i + 1 \in DOMAIN todo
    BY Rest
  <2> QED BY <1>11, <2>1 DEF SettledOk
<1> QED BY <1>9, <1>10, <1>11 DEF SettledOk

----------------------------------------------------------------------------
(* What a run is planned to do. *)

\* Drafts as they are planned, and observations.
DraftSet == [kind: DraftKind, adds: SUBSET Slot, removes: SUBSET Slot]
SeenSet == [state: {"absent", "unverifiable", "present", "directory"}, object: Object,
            mode: Mode \cup {None}, content: Content \cup {Opaque}]

\* What is observed is an observation.
LEMMA SeenIs ==
  ASSUME NEW t \in State, NEW d, Wanted(d), NEW rec
  PROVE  Observe(t, d, rec) \in SeenSet
<1> t.object \in Object /\ t.mode \in Mode /\ t.content \in Content
  BY DEF State
<1>1. \A c : Keep(t.content, c) \in Content
  BY Kept
<1>2. ASSUME t.object \notin {"absent", "unreadable"}, d.kind = "file"
      PROVE  Observe(t, d, rec) \in SeenSet
  <2>1. Observe(t, d, rec) = ObserveFile(t, d)
    BY <1>2, Zenon DEF Observe, Tree
  <2>2. /\ Seen("present", "symlink", None, t.content) \in SeenSet /\ Foreign("directory") \in SeenSet
        /\ Foreign("regular") \in SeenSet /\ Seen("present", "regular", t.mode, t.content) \in SeenSet
    BY DEF Seen, Foreign, SeenSet, Object
  <2>3. ObserveFile(t, d) \in SeenSet
    BY <2>2, Zenon DEF ObserveFile
  <2> QED BY <2>1, <2>3
<1>3. ASSUME t.object \notin {"absent", "unreadable"}, d.kind = "config"
      PROVE  Observe(t, d, rec) \in SeenSet
  <2>1. Observe(t, d, rec) = ObserveConfig(t, d)
    BY <1>3, Zenon DEF Observe, Tree
  <2>2. ObserveConfig(t, d) \in SeenSet
    BY <1>1 DEF ObserveConfig, Seen, Foreign, SeenSet, Object
  <2> QED BY <2>1, <2>2
<1>4. ASSUME t.object \notin {"absent", "unreadable"}, d.kind \in {"directory", "skill"}
      PROVE  Observe(t, d, rec) \in SeenSet
  <2>1. Observe(t, d, rec) = ObserveTree(t, d, rec)
    BY <1>4, Zenon DEF Observe, Tree
  <2>2. \A c : Seen("directory", "directory", t.mode, Keep(t.content, c)) \in SeenSet
    BY <1>1 DEF Seen, SeenSet, Object
  <2>3. Foreign(t.object) \in SeenSet
    BY DEF Seen, Foreign, SeenSet
  <2>4. ObserveTree(t, d, rec) \in SeenSet
    BY <2>2, <2>3, Zenon DEF ObserveTree
  <2> QED BY <2>1, <2>4
<1>5. ASSUME t.object \notin {"absent", "unreadable"}, d.kind \in {"tool", "credential"}
      PROVE  Observe(t, d, rec) \in SeenSet
  <2>1. Observe(t, d, rec) = Seen("present", "regular", None, Empty)
    BY <1>5, Zenon DEF Observe, Tree
  <2> QED BY <2>1, Contents DEF Seen, SeenSet, Object
<1>6. CASE t.object = "absent"
  BY <1>6, Contents DEF Observe, Seen, SeenSet
<1>7. CASE t.object = "unreadable"
  BY <1>7, Contents DEF Observe, Seen, SeenSet
<1> QED BY <1>2, <1>3, <1>4, <1>5, <1>6, <1>7, PolicyOf

\* What is planned for a resource is a list of drafts, and what follows the first one is
\* left to a person.
LEMMA PlansAre ==
  ASSUME NEW d, Wanted(d), NEW o, NEW rec, NEW ov, NEW plan, plan = PlanResource(d, o, rec, ov)
  PROVE  /\ plan \in Seq(DraftSet)
         /\ \A i \in DOMAIN plan : /\ i # 1 => plan[i].kind = "human-action"
                                   /\ plan[i].kind # "remove-resource"
<1>1. CASE d.kind \notin {"tool", "credential"}
  <2>1. IsDraft(plan)
    BY <1>1, OneDraft
  <2>2. PICK k \in {"no-op", "write-file", "write-config", "mirror-directory", "human-action",
                    "drift-conflict"}, a, b \in SUBSET Slot : plan = Draft(k, a, b)
    BY <2>1 DEF IsDraft
  <2> QED BY <2>2 DEF Draft, DraftSet, DraftKind
<1>2. NoOp \in Seq(DraftSet) /\ Human \in Seq(DraftSet) /\ Draft("agent-task", {}, {}) \in Seq(DraftSet)
      /\ Draft("install-tool", {}, {}) \in Seq(DraftSet)
  BY DEF NoOp, Human, Draft, DraftSet, DraftKind
<1>3. ASSUME NEW k \in {"no-op", "human-action", "agent-task"}, plan = Draft(k, {}, {})
      PROVE  /\ plan \in Seq(DraftSet)
             /\ \A i \in DOMAIN plan : i = 1 /\ plan[i].kind # "remove-resource"
  BY <1>3 DEF Draft, DraftSet, DraftKind
<1>4. CASE d.kind = "credential"
  <2>1. plan = PlanRequireLocal(o)
    BY <1>4, PolicyOf, PlanIs
  <2>2. plan = NoOp \/ plan = Human
    BY <2>1 DEF PlanRequireLocal
  <2> QED BY <1>3, <2>2 DEF NoOp, Human
<1>5. CASE d.kind = "tool"
  <2>1. plan = PlanEnsure(d, o)
    BY <1>5, PolicyOf, PlanIs
  <2>2. \A i \in DOMAIN plan : /\ i # 1 => plan[i].kind = "human-action"
                               /\ plan[i].kind # "remove-resource"
    <3> SUFFICES ASSUME NEW i \in DOMAIN plan
                 PROVE  /\ i # 1 => plan[i].kind = "human-action"
                        /\ plan[i].kind # "remove-resource"
      OBVIOUS
    <3>1. /\ o.state = "present" => PlanEnsure(d, o) = NoOp
          /\ o.state # "present" => plan[i].kind \in {"human-action", "agent-task", "install-tool"}
          /\ i # 1 => plan[i].kind = "human-action"
      BY <2>1, EnsurePlan
    <3> QED BY <2>1, <3>1 DEF NoOp, Draft
  <2> DEFINE install == Draft("install-tool", {}, {}) \o (IF d.tool.login THEN Human ELSE <<>>)
  <2>3. install \in Seq(DraftSet)
    BY <1>2
  <2> HIDE DEF install
  <2>4. UnresolvedAgentTask(d) \in Seq(DraftSet)
    BY <1>2 DEF UnresolvedAgentTask
  <2>5. PlanEnsure(d, o) \in {NoOp, UnresolvedAgentTask(d), Human, install}
    <3>1. CASE o.state = "present"
      <4>1. PlanEnsure(d, o) = NoOp
        BY <3>1, Zenon DEF PlanEnsure
      <4> QED BY <4>1
    <3>2. CASE o.state # "present" /\ d.tool.recipe = None
      <4>1. PlanEnsure(d, o) = UnresolvedAgentTask(d)
        BY <3>2, Zenon DEF PlanEnsure
      <4> QED BY <4>1
    <3>3. CASE o.state # "present" /\ d.tool.recipe # None
      <4>1. PlanEnsure(d, o) = IF o.state = "unverifiable" THEN UnresolvedAgentTask(d)
                               ELSE IF NeedsPerson(d.tool.recipe) THEN Human ELSE install
        BY <3>3, Zenon DEF PlanEnsure, install
      <4> QED BY <4>1, Zenon
    <3> QED BY <3>1, <3>2, <3>3
  <2> QED BY <1>2, <2>1, <2>2, <2>3, <2>4, <2>5
<1> QED BY <1>1, <1>4, <1>5

\* What is planned for a resource that is gone.
LEMMA RemovalPlansAre ==
  ASSUME NEW d, NEW o, NEW rec, rec.content \in Content, NEW plan, plan = PlanRemoved(d, o, rec)
  PROVE  /\ plan \in Seq(DraftSet)
         /\ \A i \in DOMAIN plan : /\ i = 1 /\ plan = <<plan[i]>>
                                   /\ plan[i].kind \in {"remove-resource", "drift-conflict"}
<1>1. Present(rec.content) \in SUBSET Slot
  BY DEF Present
<1> DEFINE remove == Draft("remove-resource", {}, Present(rec.content))
<1>2. plan \in {remove, Drift, <<>>}
  BY DEF PlanRemoved
<1>3. ASSUME NEW k \in {"remove-resource", "drift-conflict"}, NEW b \in SUBSET Slot,
             plan = Draft(k, {}, b)
      PROVE  /\ plan \in Seq(DraftSet)
             /\ \A i \in DOMAIN plan : i = 1 /\ plan = <<plan[i]>> /\ plan[i].kind = k
  BY <1>3 DEF Draft, DraftSet, DraftKind
<1>4. CASE plan = remove
  BY <1>1, <1>3, <1>4
<1>5. CASE plan = Drift
  BY <1>3, <1>5 DEF Drift
<1>6. CASE plan = <<>>
  BY <1>6
<1> QED BY <1>2, <1>4, <1>5, <1>6

\* What is planned, by a plan that is not refused, is as it is observed.
LEMMA StepsAre ==
  ASSUME family \in DOMAIN Families, WorldOk(family, disk, records, left),
         view \in Families[family].views \cup {[r \in Resource |-> None]}, ValidView(view),
         Plannable, NEW r \in Resources
  PROVE  /\ Steps(r) \in Seq(PlannedAction) /\ DOMAIN Steps(r) = DOMAIN Drafts(r)
         /\ \A i \in DOMAIN Steps(r) :
              /\ Steps(r)[i].res = r /\ Steps(r)[i].d = Hydrated(r)
              /\ Steps(r)[i].draft = Drafts(r)[i]
              /\ i # 1 => ~Live(Steps(r)[i])
              /\ Live(Steps(r)[i]) => Current(family, Steps(r)[i], disk, records, overlay)
              /\ Live(Steps(r)[i]) => (Steps(r)[i].draft.kind = "remove-resource" <=> view[r] = None)
<1> DEFINE d == Hydrated(r)
           rec == records[r]
           o == Observe(disk[d.target], d, rec)
           plan == Drafts(r)
<1>1. r \in Resource /\ (view[r] = None <=> r \in Removed) /\ (r \in Removed => rec # None)
  BY DEF Resources, In, Removed
<1>2. /\ rec # None => IsRecord(family, r, rec) /\ rec \in AppliedResource
      /\ disk \in [Target -> State] /\ records \in [Resource -> AppliedResource \cup {None}]
  BY <1>1 DEF WorldOk
<1>3. view[r] # None => IsGiven(family, r, view[r]) /\ d = view[r]
  <2> SUFFICES ASSUME view[r] # None
               PROVE  IsGiven(family, r, view[r]) /\ d = view[r]
    OBVIOUS
  <2>1. view \in Families[family].views
    BY <1>1
  <2>2. d = view[r]
    BY <1>1 DEF Hydrated
  <2> QED BY <2>1, <2>2 DEF IsGiven
<1>4. view[r] = None => d = Gone(rec)
  BY <1>1 DEF Hydrated
<1>5. Wanted(d) /\ d.target \in Target
  <2>1. CASE view[r] # None
    BY <1>1, <1>3, <2>1, GivenIs
  <2>2. CASE view[r] = None
    <3>1. PICK e : /\ IsGiven(family, r, e) /\ rec = Record(e) /\ e.kind \notin {"tool", "credential"}
                   /\ Wanted(e) /\ e.target \in Target
      BY <1>1, <1>2, <2>2, RecordWasGiven
    <3> QED BY <1>4, <2>2, <3>1, GoneIs
  <2> QED BY <2>1, <2>2
<1>6. o \in SeenSet
  BY <1>2, <1>5, SeenIs
<1>7. /\ view[r] = None => plan = PlanRemoved(d, o, rec)
      /\ view[r] # None => plan = PlanResource(d, o, rec, overlay[r])
  BY <1>1 DEF Drafts
<1>8. /\ plan \in Seq(DraftSet)
      /\ \A i \in DOMAIN plan :
           /\ i # 1 => plan[i].kind = "human-action"
           /\ view[r] = None => plan = <<plan[i]>> /\ plan[i].kind \in {"remove-resource", "drift-conflict"}
           /\ view[r] # None => plan[i].kind # "remove-resource"
  <2>1. CASE view[r] = None
    <3>1. rec.content \in Content
      BY <1>1, <1>2, <2>1 DEF AppliedResource
    <3>2. plan = PlanRemoved(d, o, rec)
      BY <1>7, <2>1
    <3> HIDE DEF plan, o, d
    <3>3. /\ plan \in Seq(DraftSet)
          /\ \A i \in DOMAIN plan : /\ i = 1 /\ plan = <<plan[i]>>
                                    /\ plan[i].kind \in {"remove-resource", "drift-conflict"}
      BY <3>1, <3>2, RemovalPlansAre
    <3> QED BY <2>1, <3>3
  <2>2. CASE view[r] # None
    <3>1. plan = PlanResource(d, o, rec, overlay[r])
      BY <1>7, <2>2
    <3> HIDE DEF plan, o, d
    <3>2. /\ plan \in Seq(DraftSet)
          /\ \A i \in DOMAIN plan : /\ i # 1 => plan[i].kind = "human-action"
                                    /\ plan[i].kind # "remove-resource"
      BY <1>5, <3>1, PlansAre
    <3> QED BY <2>2, <3>2
  <2> QED BY <2>1, <2>2
<1>9. Steps(r) = [i \in DOMAIN plan |-> [res |-> r, d |-> d, draft |-> plan[i], seen |-> o]]
  BY DEF Steps
\* No record of another resource has the target.
<1>10. ASSUME NEW q \in Resource, q # r, records[q] # None
       PROVE  records[q].target # d.target
  <2>1. CASE view[r] = None
    <3>1. d.target = rec.target
      BY <1>4, <2>1 DEF Gone
    <3> QED BY <1>1, <1>10, <2>1, <3>1 DEF WorldOk, Apart
  <2>2. CASE view[r] # None
    <3> SUFFICES ASSUME records[q].target = d.target
                 PROVE  FALSE
      OBVIOUS
    <3>1. IsRecord(family, q, records[q]) /\ records[q] \in AppliedResource
      BY <1>10 DEF WorldOk
    <3>2. view \in Families[family].views
      BY <1>1, <2>2
    <3>3. view[q] = None
      <4> HIDE DEF d
      <4>1. records[q].target = view[r].target
        BY <1>3, <2>2
      <4> QED BY <1>1, <1>10, <2>2, <3>1, <3>2, <4>1, TargetIsOwn
    <3>4. q \in Resources /\ Hydrated(q) = Gone(records[q])
      BY <1>10, <3>3 DEF Resources, Removed, Hydrated
    <3>5. Hydrated(q).target = d.target
      BY <3>4 DEF Gone
    <3>6. Hydrated(q).target # Hydrated(r).target
      <4>1. Disjoint([s \in Resources |-> Hydrated(s)])
        BY DEF Plannable
      <4>2. \A a, b \in Resources : a # b => Hydrated(a).target # Hydrated(b).target
        BY <4>1 DEF Disjoint
      <4> QED BY <1>10, <3>4, <4>2
    <3> QED BY <3>5, <3>6
  <2> QED BY <2>1, <2>2
<1> HIDE DEF d, o, plan
<1>11. Steps(r) \in Seq(PlannedAction) /\ DOMAIN Steps(r) = DOMAIN plan
  <2>1. ASSUME NEW i \in DOMAIN plan
        PROVE  [res |-> r, d |-> d, draft |-> plan[i], seen |-> o] \in PlannedAction
    <3>1. plan[i] \in DraftSet /\ d \in DesiredResource
      BY <1>5, <1>8, ElementOfSeq DEF Wanted
    <3> QED BY <1>1, <1>6, <3>1 DEF PlannedAction, SeenSet, DraftSet
  <2>2. PICK n \in Nat : DOMAIN plan = 1..n
    BY <1>8
  <2> QED BY <1>9, <2>1, <2>2
<1>12. ASSUME NEW i \in DOMAIN Steps(r)
       PROVE  /\ Steps(r)[i].res = r /\ Steps(r)[i].d = d
              /\ Steps(r)[i].draft = plan[i]
              /\ i # 1 => ~Live(Steps(r)[i])
              /\ Live(Steps(r)[i]) => Current(family, Steps(r)[i], disk, records, overlay)
              /\ Live(Steps(r)[i]) => (Steps(r)[i].draft.kind = "remove-resource" <=> view[r] = None)
  <2> DEFINE x == Steps(r)[i]
  <2>1. i \in DOMAIN plan /\ x.res = r /\ x.d = d /\ x.draft = plan[i] /\ x.seen = o
    BY <1>9, <1>11
  <2> HIDE DEF x
  <2>2. i # 1 => ~Live(x)
    BY <1>8, <2>1 DEF Live
  <2>3. Live(x) => (x.draft.kind = "remove-resource" <=> view[r] = None)
    BY <1>8, <2>1 DEF Live
  <2>4. ASSUME Live(x)
        PROVE  Current(family, x, disk, records, overlay)
    <3>1. x.seen = Observe(disk[x.d.target], x.d, records[x.res])
      BY <2>1 DEF o
    <3>2. Alone(x, records)
      BY <1>10, <2>1 DEF Alone
    <3>3. Planned(family, x, records[x.res], overlay[x.res])
      <4>1. CASE view[r] = None
        <5>1. x.draft.kind = "remove-resource" /\ <<x.draft>> = plan /\ plan = PlanRemoved(x.d, x.seen, records[r])
          BY <1>7, <1>8, <2>1, <2>3, <2>4, <4>1
        <5>2. x.d = Gone(records[r]) /\ records[r] # None
          BY <1>1, <1>4, <2>1, <4>1
        <5> QED BY <2>1, <5>1, <5>2 DEF Planned
      <4>2. CASE view[r] # None
        <5>1. x.draft.kind # "remove-resource" /\ IsGiven(family, r, x.d)
          BY <1>3, <2>1, <2>3, <2>4, <4>2
        <5>2. plan = PlanResource(x.d, x.seen, records[r], overlay[r])
          BY <1>7, <2>1, <4>2
        <5>3. \E k \in DOMAIN plan : x.draft = plan[k]
          BY <2>1
        <5> QED BY <2>1, <5>1, <5>2, <5>3 DEF Planned
      <4> QED BY <4>1, <4>2
    <3> QED BY <3>1, <3>2, <3>3 DEF Current
  <2> QED BY <2>1, <2>2, <2>3, <2>4 DEF x
<1> QED BY <1>11, <1>12 DEF d, plan

----------------------------------------------------------------------------
(* The plan of a run. *)

\* A set of numbers has a least one.
LEMMA Least ==
  ASSUME NEW T, T \subseteq Nat, T # {}
  PROVE  \E n \in T : \A m \in T : n <= m
<1>1. PICK n \in T : \A m \in T : ~(<<m, n>> \in OpToRel(<, Nat))
  BY NatLessThanWellFounded, WFMin, Zenon
<1>2. ASSUME NEW m \in T PROVE n <= m
  <2>1. <<m, n>> \in OpToRel(<, Nat) <=> m < n
    BY DEF OpToRel
  <2>2. ~(m < n)
    BY <1>1, <2>1, Zenon
  <2> QED BY <2>2
<1> QED BY <1>2

\* The lists of the actions of the first n resources of f.
AreLists(g, f, n) == g = [i \in 0..n |-> IF i = 0 THEN <<>> ELSE g[i - 1] \o Steps(f[i])]

\* They can be made: if some n could not be reached, the least such n could.
LEMMA ListsExist ==
  ASSUME NEW f, NEW size \in Nat
  PROVE  \E g : AreLists(g, f, size)
<1> DEFINE T == {n \in Nat : ~\E g : AreLists(g, f, n)}
<1>1. CASE T = {}
  BY <1>1
<1>2. CASE T # {}
  <2>1. PICK n \in T : \A m \in T : n <= m
    BY <1>2, Least
  <2>2. n # 0
    <3> DEFINE g == [i \in 0..0 |-> <<>>]
    <3>1. AreLists(g, f, 0)
      BY DEF AreLists
    <3> QED BY <3>1
  <2>3. n \in Nat /\ n - 1 \in Nat /\ n - 1 \notin T
    BY <2>1, <2>2
  <2>4. PICK g : AreLists(g, f, n - 1)
    BY <2>3
  <2> DEFINE h == [i \in 0..n |-> IF i = n THEN g[n - 1] \o Steps(f[n]) ELSE g[i]]
  <2>5. ASSUME NEW i \in 0..n
        PROVE  h[i] = IF i = 0 THEN <<>> ELSE h[i - 1] \o Steps(f[i])
    <3>1. CASE i = n
      <4>1. n - 1 \in 0..n /\ n - 1 # n /\ n # 0
        BY <2>2, <2>3
      <4> QED BY <3>1, <4>1
    <3>2. CASE i # n /\ i # 0
      <4>1. i \in 0..(n - 1) /\ i - 1 \in 0..n /\ i - 1 # n
        BY <2>3, <3>2
      <4>2. h[i] = g[i] /\ h[i - 1] = g[i - 1]
        BY <3>2, <4>1
      <4>3. g[i] = g[i - 1] \o Steps(f[i])
        BY <2>4, <3>2, <4>1 DEF AreLists
      <4> QED BY <3>2, <4>2, <4>3
    <3>3. CASE i # n /\ i = 0
      <4>1. h[i] = g[i] /\ i \in 0..(n - 1)
        BY <2>2, <2>3, <3>3
      <4> QED BY <2>4, <3>3, <4>1 DEF AreLists
    <3> QED BY <3>1, <3>2, <3>3
  <2>6. AreLists(h, f, n)
    <3> DEFINE e == [i \in 0..n |-> IF i = 0 THEN <<>> ELSE h[i - 1] \o Steps(f[i])]
    <3>1. h = [i \in 0..n |-> h[i]]
      OBVIOUS
    <3> HIDE DEF h
    <3>2. h = e
      BY <2>5, <3>1
    <3> QED BY <3>2 DEF AreLists
  <2> QED BY <2>1, <2>6
<1> QED BY <1>1, <1>2

\* The last of them is the plan.
LEMMA ConcatIsLast ==
  ASSUME NEW f, Len(f) \in Nat
  PROVE  \E g : AreLists(g, f, Len(f)) /\ Concat(f) = g[Len(f)]
<1> DEFINE g == CHOOSE g : AreLists(g, f, Len(f))
<1>1. AreLists(g, f, Len(f))
  BY ListsExist
<1>2. Concat(f) = g[Len(f)]
  BY DEF Concat, AreLists
<1> QED BY <1>1, <1>2

\* Numbering the resources of a finite set one by one leaves none out.
LEMMA OrderIsComplete ==
  ASSUME NEW rs, IsFiniteSet(rs), NEW f \in [1..Cardinality(rs) -> rs],
         \A i, j \in 1..Cardinality(rs) : i # j => f[i] # f[j]
  PROVE  /\ Cardinality(rs) \in Nat /\ Len(f) = Cardinality(rs)
         /\ \A r \in rs : \E k \in 1..Cardinality(rs) : f[k] = r
<1> DEFINE n == Cardinality(rs)
<1>1. n \in Nat
  BY FS_CardinalityType
<1>2. IsFiniteSet(1..n) /\ Cardinality(1..n) = n
  BY <1>1, FS_Interval
<1>3. f \in Injection(1..n, rs)
  BY DEF Injection, IsInjective
<1>4. f \in Surjection(1..n, rs)
  BY <1>2, <1>3, FS_Injection
<1>5. f \in Seq(rs) /\ Len(f) = n
  BY <1>1
<1> QED BY <1>1, <1>4, <1>5 DEF Surjection

\* When a run can be planned.
CanPlan ==
  /\ family \in DOMAIN Families /\ WorldOk(family, disk, records, left)
  /\ view \in Families[family].views \cup {[r \in Resource |-> None]} /\ ValidView(view)
  /\ Plannable

\* The actions of the resources S, in some order.
ListOk(todo, S) ==
  /\ todo \in Seq(PlannedAction)
  /\ \A p \in DOMAIN todo : \E r \in S : \E i \in DOMAIN Steps(r) : todo[p] = Steps(r)[i]
  /\ \A r \in S : \A i \in DOMAIN Steps(r) : \E p \in DOMAIN todo : todo[p] = Steps(r)[i]
  /\ \A p, q \in DOMAIN todo : p < q =>
       IF todo[p].res = todo[q].res THEN ~Live(todo[q])
       ELSE todo[p].d.target # todo[q].d.target

\* The resources of a plan have targets of their own.
LEMMA PlannedApart ==
  ASSUME CanPlan, NEW r \in Resources, NEW q \in Resources, r # q,
         NEW i \in DOMAIN Steps(r), NEW j \in DOMAIN Steps(q)
  PROVE  Steps(r)[i].res # Steps(q)[j].res /\ Steps(r)[i].d.target # Steps(q)[j].d.target
<1>1. Steps(r)[i].res = r /\ Steps(r)[i].d = Hydrated(r)
  BY StepsAre DEF CanPlan
<1>2. Steps(q)[j].res = q /\ Steps(q)[j].d = Hydrated(q)
  BY StepsAre DEF CanPlan
<1>3. Disjoint([s \in Resources |-> Hydrated(s)])
  BY DEF CanPlan, Plannable
<1>4. \A a, b \in Resources : a # b => Hydrated(a).target # Hydrated(b).target
  BY <1>3 DEF Disjoint
<1> QED BY <1>1, <1>2, <1>4

\* The actions of one more resource.
LEMMA ListGrows ==
  ASSUME CanPlan, NEW todo, NEW S, S \subseteq Resources, ListOk(todo, S),
         NEW r \in Resources, r \notin S
  PROVE  ListOk(todo \o Steps(r), S \cup {r})
<1> DEFINE more == Steps(r)
           all == todo \o more
<1>1. /\ more \in Seq(PlannedAction)
      /\ \A i \in DOMAIN more : more[i].res = r /\ (i # 1 => ~Live(more[i]))
  BY StepsAre DEF CanPlan
<1>2. todo \in Seq(PlannedAction)
  BY DEF ListOk
<1> HIDE DEF more
<1>3. /\ all \in Seq(PlannedAction) /\ Len(all) = Len(todo) + Len(more)
      /\ Len(todo) \in Nat /\ Len(more) \in Nat
      /\ DOMAIN todo = 1..Len(todo) /\ DOMAIN more = 1..Len(more) /\ DOMAIN all = 1..Len(all)
      /\ \A p \in DOMAIN todo : p \in DOMAIN all /\ all[p] = todo[p]
      /\ \A i \in DOMAIN more : Len(todo) + i \in DOMAIN all /\ all[Len(todo) + i] = more[i]
  BY <1>1, <1>2
<1>4. \A p \in DOMAIN all : \/ p \in DOMAIN todo
                            \/ p - Len(todo) \in DOMAIN more /\ p = Len(todo) + (p - Len(todo)) /\ p > Len(todo)
  BY <1>3
<1> HIDE DEF all
<1>5. ASSUME NEW p \in DOMAIN all
      PROVE  \E s \in S \cup {r} : \E i \in DOMAIN Steps(s) : all[p] = Steps(s)[i]
  <2>1. CASE p \in DOMAIN todo
    BY <1>3, <2>1 DEF ListOk
  <2>2. CASE p - Len(todo) \in DOMAIN more /\ p = Len(todo) + (p - Len(todo))
    <3>1. all[p] = more[p - Len(todo)]
      BY <1>3, <2>2
    <3> QED BY <2>2, <3>1 DEF more
  <2> QED BY <1>4, <2>1, <2>2
<1>6. ASSUME NEW s \in S \cup {r}, NEW i \in DOMAIN Steps(s)
      PROVE  \E p \in DOMAIN all : all[p] = Steps(s)[i]
  <2>1. CASE s \in S
    <3>1. PICK p \in DOMAIN todo : todo[p] = Steps(s)[i]
      BY <2>1 DEF ListOk
    <3> QED BY <1>3, <3>1
  <2>2. CASE s = r
    BY <1>3, <1>6, <2>2 DEF more
  <2> QED BY <2>1, <2>2
<1>7. ASSUME NEW p \in DOMAIN all, NEW q \in DOMAIN all, p < q
      PROVE  IF all[p].res = all[q].res THEN ~Live(all[q])
             ELSE all[p].d.target # all[q].d.target
  <2>1. CASE q \in DOMAIN todo
    <3>1. p \in DOMAIN todo
      BY <1>3, <1>7, <2>1
    <3>2. all[p] = todo[p] /\ all[q] = todo[q]
      BY <1>3, <2>1, <3>1
    <3> QED BY <1>7, <2>1, <3>1, <3>2 DEF ListOk
  <2>2. CASE /\ p \in DOMAIN todo
             /\ q - Len(todo) \in DOMAIN more /\ q = Len(todo) + (q - Len(todo))
    <3>1. all[p] = todo[p] /\ all[q] = more[q - Len(todo)]
      BY <1>3, <2>2
    <3>2. PICK s \in S : \E i \in DOMAIN Steps(s) : todo[p] = Steps(s)[i]
      BY <2>2 DEF ListOk
    <3>3. PICK i \in DOMAIN Steps(s) : todo[p] = Steps(s)[i]
      BY <3>2
    <3>4. all[p].res # all[q].res /\ all[p].d.target # all[q].d.target
      BY <2>2, <3>1, <3>3, PlannedApart DEF more
    <3> QED BY <3>4
  <2>3. CASE /\ p - Len(todo) \in DOMAIN more /\ p = Len(todo) + (p - Len(todo))
             /\ q - Len(todo) \in DOMAIN more /\ q = Len(todo) + (q - Len(todo))
    <3>1. all[p] = more[p - Len(todo)] /\ all[q] = more[q - Len(todo)]
      BY <1>3, <2>3
    <3>2. q - Len(todo) # 1
      BY <1>3, <1>7, <2>3
    <3> QED BY <1>1, <2>3, <3>1, <3>2
  <2>4. p \in DOMAIN todo \/ q \notin DOMAIN todo
    BY <1>3, <1>7
  <2> QED BY <1>4, <2>1, <2>2, <2>3, <2>4
<1> QED BY <1>3, <1>5, <1>6, <1>7 DEF ListOk, all, more

\* The plan of a run holds the actions of every resource.
LEMMA PlanIsComplete ==
  ASSUME CanPlan, NEW f \in Orders(Resources)
  PROVE  ListOk(Concat(f), Resources)
<1> DEFINE n == Cardinality(Resources)
           Upto(k) == {f[i] : i \in 1..k}
<1>1. Resources \subseteq Resource
  BY DEF Resources, In, Removed
<1>2. IsFiniteSet(Resources)
  BY <1>1, FollowerAssumption, FS_Subset
<1>3. f \in [1..n -> Resources] /\ \A i, j \in 1..n : i # j => f[i] # f[j]
  BY DEF Orders
<1>4. n \in Nat /\ Len(f) = n /\ \A r \in Resources : \E k \in 1..n : f[k] = r
  BY <1>2, <1>3, OrderIsComplete
<1> HIDE DEF n
<1>5. PICK g : AreLists(g, f, n) /\ Concat(f) = g[n]
  BY <1>4, ConcatIsLast
<1> DEFINE Good(k) == ListOk(g[k], Upto(k))
           T == {k \in 0..n : ~Good(k)}
<1>6. g[0] = <<>> /\ \A k \in 1..n : g[k] = g[k - 1] \o Steps(f[k])
  <2>1. \A k \in 0..n : g[k] = IF k = 0 THEN <<>> ELSE g[k - 1] \o Steps(f[k])
    BY <1>5 DEF AreLists
  <2>2. 0 \in 0..n /\ \A k \in 1..n : k \in 0..n /\ k # 0
    BY <1>4
  <2> QED BY <2>1, <2>2
<1>7. Good(0)
  <2>1. Upto(0) = {}
    OBVIOUS
  <2>2. ListOk(<<>>, {})
    BY DEF ListOk
  <2> QED BY <1>6, <2>1, <2>2
<1>8. ASSUME NEW k \in 1..n, Good(k - 1)
      PROVE  Good(k)
  <2>1. k - 1 \in Nat /\ Upto(k - 1) \subseteq Resources /\ f[k] \in Resources
    BY <1>3, <1>4
  <2>2. f[k] \notin Upto(k - 1)
    <3>1. \A i \in 1..(k - 1) : i \in 1..n /\ i # k
      BY <1>4
    <3> QED BY <1>3, <3>1
  <2>3. Upto(k) = Upto(k - 1) \cup {f[k]}
    <3>1. 1..k = (1..(k - 1)) \cup {k}
      BY <1>4
    <3>2. \A y : y \in Upto(k) <=> \E i \in 1..k : y = f[i]
      OBVIOUS
    <3>3. \A y : y \in Upto(k - 1) <=> \E i \in 1..(k - 1) : y = f[i]
      OBVIOUS
    <3> HIDE DEF Upto
    <3> QED BY <3>1, <3>2, <3>3
  <2> HIDE DEF Upto
  <2>4. ListOk(g[k - 1] \o Steps(f[k]), Upto(k - 1) \cup {f[k]})
    BY <1>8, <2>1, <2>2, ListGrows
  <2> QED BY <1>6, <2>3, <2>4
<1> HIDE DEF Good
<1>9. T = {}
  <2> SUFFICES ASSUME T # {}
               PROVE  FALSE
    OBVIOUS
  <2>3. T \subseteq Nat
    BY <1>4
  <2>1. PICK k \in T : \A m \in T : k <= m
    <3> HIDE DEF T
    <3> QED BY <2>3, Least
  <2>2. k # 0
    BY <1>7, <2>1
  <2>4. k \in 1..n /\ k - 1 \in 0..n /\ k - 1 \notin T
    BY <1>4, <2>1, <2>2
  <2> QED BY <1>8, <2>1, <2>4
<1>10. Good(n)
  <2>1. n \in 0..n
    BY <1>4
  <2> QED BY <1>9, <2>1
<1>11. Upto(n) = Resources
  BY <1>3, <1>4
<1> QED BY <1>5, <1>10, <1>11 DEF Good

\* A run starts with what is planned now.
LEMMA SyncPlans ==
  ASSUME CanPlan, NEW f \in Orders(Resources), NEW todo, todo = Concat(f)
  PROVE  /\ todo \in Seq(PlannedAction)
         /\ TodoOk(family, todo, disk, records, overlay)
         /\ SettledOk(view, todo, disk, records, overlay)
<1>1. ListOk(todo, Resources)
  BY PlanIsComplete
<1>2. ASSUME NEW p \in DOMAIN todo
      PROVE  /\ todo[p].res \in Resources /\ todo[p].d = Hydrated(todo[p].res)
             /\ Live(todo[p]) => Current(family, todo[p], disk, records, overlay)
             /\ Live(todo[p]) => (todo[p].draft.kind = "remove-resource" <=> view[todo[p].res] = None)
  <2>1. PICK r \in Resources : \E i \in DOMAIN Steps(r) : todo[p] = Steps(r)[i]
    BY <1>1 DEF ListOk
  <2>2. PICK i \in DOMAIN Steps(r) : todo[p] = Steps(r)[i]
    BY <2>1
  <2> QED BY <2>2, StepsAre DEF CanPlan
<1>3. TodoOk(family, todo, disk, records, overlay)
  BY <1>1, <1>2 DEF TodoOk, ListOk
<1>4. \A r, q \in Lives(view, records) :
        r # q => Gives(view, records, r).target # Gives(view, records, q).target
  <2>1. Disjoint([s \in Resources |-> Hydrated(s)])
    BY DEF CanPlan, Plannable
  <2>2. \A a, b \in Resources : a # b => Hydrated(a).target # Hydrated(b).target
    BY <2>1 DEF Disjoint
  <2> QED BY <2>2, LivesIs
<1>5. ASSUME NEW r \in Lives(view, records)
      PROVE  \/ Quiet(view, disk, records, overlay, r)
             \/ \E p \in DOMAIN todo : todo[p].res = r
  <2>1. r \in Resources /\ Drafts(r) = Asks(view, disk, records, overlay, r)
    BY LivesIs
  <2>2. CASE DOMAIN Drafts(r) = {}
    BY <2>1, <2>2 DEF Quiet
  <2>3. CASE DOMAIN Drafts(r) # {}
    <3>1. PICK i \in DOMAIN Steps(r) : TRUE
      BY <2>1, <2>3, StepsAre DEF CanPlan
    <3>2. PICK p \in DOMAIN todo : todo[p] = Steps(r)[i]
      BY <1>1, <2>1, <3>1 DEF ListOk
    <3>3. Steps(r)[i].res = r
      BY <2>1, <3>1, StepsAre DEF CanPlan
    <3> QED BY <3>2, <3>3
  <2> QED BY <2>2, <2>3
<1>6. ASSUME NEW p \in DOMAIN todo, Live(todo[p])
      PROVE  IF todo[p].draft.kind = "remove-resource" THEN view[todo[p].res] = None
             ELSE view[todo[p].res] # None /\ todo[p].d = view[todo[p].res]
  <2>1. view[todo[p].res] # None => todo[p].d = view[todo[p].res]
    <3>1. todo[p].res \in Resources /\ todo[p].d = Hydrated(todo[p].res)
      BY <1>2
    <3> QED BY <3>1, LivesIs DEF Gives
  <2> QED BY <1>2, <1>6, <2>1
<1>7. SettledOk(view, todo, disk, records, overlay)
  BY <1>4, <1>5, <1>6 DEF SettledOk
<1> QED BY <1>1, <1>3, <1>7 DEF ListOk

----------------------------------------------------------------------------
(* The invariant. *)

\* Planning again would ask for nothing at all.
AllQuiet(v, dk, recs, ovs) == \A r \in Lives(v, recs) : Quiet(v, dk, recs, ovs, r)

\* A run can be rolled back, and what is left of it is still as planned.
RunOk ==
  /\ WorldOk(family, run.disk, run.records, run.left)
  /\ TodoOk(family, run.todo, disk, records, overlay)
  /\ settled => SettledOk(view, run.todo, disk, records, overlay)

\* The inductive invariant.
FollowerInv ==
  /\ TypeOK /\ ValidView(view)
  /\ WorldOk(family, disk, records, left)
  /\ run # None => RunOk
  /\ settled /\ run = None /\ last = "Converged" => AllQuiet(view, disk, records, overlay)

\* The targets of a view.
LEMMA ViewTargets ==
  ASSUME TypeOK
  PROVE  /\ family \in DOMAIN Families
         /\ \A r \in Resource : view[r] # None => view[r].target \in Target
<1>1. family \in DOMAIN Families
  BY DEF TypeOK
<1>2. ASSUME NEW r \in Resource, view[r] # None
      PROVE  view[r].target \in Target
  <2>1. view \in Families[family].views
    BY <1>2 DEF TypeOK
  <2>2. view[r] \in DesiredResource
    BY <1>1, <1>2, <2>1, ViewsAreSane
  <2> QED BY <2>2 DEF DesiredResource
<1> QED BY <1>1, <1>2

\* What a user may make of a target.
LEMMA EditIs ==
  ASSUME NEW f \in DOMAIN Families, NEW t \in Target,
         NEW e \in Families[f].edits[t] \cup {Blank}
  PROVE  e \in State /\ StateOk(f, t, e)
<1>1. CASE e = Blank
  BY <1>1, Contents, Modes DEF Blank, State, Object, StateOk, Found, Present
<1>2. CASE e \in Families[f].edits[t]
  <2>1. Found(e)
    BY <1>2, EditsAreStates DEF Found
  <2>2. ASSUME IsText(f, t)
        PROVE  Present(e.content) \subseteq {Source, Local}
    BY <1>2, <2>2, EditsAreStates DEF IsText
  <2> QED BY <2>1, <2>2 DEF StateOk, Found
<1> QED BY <1>1, <1>2

\* At first nothing is recorded and no run has left anything.
LEMMA InitInv == Init => FollowerInv
<1> SUFFICES ASSUME Init
             PROVE  FollowerInv
  OBVIOUS
<1>1. /\ family \in DOMAIN Families /\ view = [r \in Resource |-> None]
      /\ records = [r \in Resource |-> None] /\ overlay = [r \in Resource |-> {}]
      /\ run = None /\ last = "none" /\ settled = FALSE /\ left = [t \in Target |-> Empty]
      /\ published = 0 /\ edits = 0
      /\ \A t \in Target : disk[t] \in Families[family].edits[t] \cup {Blank}
  BY DEF Init
<1>2. \A t \in Target : disk[t] \in State /\ StateOk(family, t, disk[t])
  BY <1>1, EditIs
<1>3. disk \in [Target -> State]
  BY <1>2 DEF Init
<1>4. TypeOK
  <2>1. MaxPublish[family] \in Nat /\ MaxEdit \in Nat
    BY <1>1, FollowerAssumption
  <2>2. left \in [Target -> Content] /\ records \in [Resource -> AppliedResource \cup {None}]
        /\ overlay \in [Resource -> SUBSET Claimable]
    BY <1>1, Contents
  <2>3. last \in Outcome /\ settled \in BOOLEAN /\ run \in Run \cup {None}
    BY <1>1 DEF Outcome
  <2>4. published \in 0..MaxPublish[family] /\ edits \in 0..MaxEdit
    BY <1>1, <2>1
  <2>5. view \in Families[family].views \cup {[r \in Resource |-> None]}
    BY <1>1
  <2> QED BY <1>1, <1>3, <2>2, <2>3, <2>4, <2>5 DEF TypeOK
<1>5. ValidView(view)
  <2>1. In(view) = {}
    BY <1>1 DEF In
  <2> DEFINE ds == [r \in In(view) |-> view[r]]
  <2>2. DOMAIN ds = {}
    BY <2>1
  <2> HIDE DEF ds
  <2>3. Disjoint(ds)
    BY <2>2 DEF Disjoint
  <2>4. Acyclic(ds)
    <3>1. [r \in {} |-> 1] \in [DOMAIN ds -> 1..Cardinality(DOMAIN ds)]
      BY <2>2
    <3> QED BY <2>2, <3>1 DEF Acyclic
  <2> QED BY <2>1, <2>3, <2>4 DEF ValidView, ds
<1>6. WorldOk(family, disk, records, left)
  BY <1>1, <1>2, <1>3, Contents DEF WorldOk, Apart, Known, Covered
<1> QED BY <1>1, <1>4, <1>5, <1>6 DEF FollowerInv

\* A user changes nothing while a run is under way.
LEMMA EditKeepsInv ==
  ASSUME FollowerInv, Edit
  PROVE  FollowerInv'
<1>1. /\ edits < MaxEdit /\ run = None /\ edits' = edits + 1 /\ settled' = FALSE
      /\ UNCHANGED <<family, view, records, overlay, run, last, left, published>>
  BY DEF Edit, EditAllowed
<1>2. PICK t \in Target : \E e \in Families[family].edits[t] : disk' = [disk EXCEPT ![t] = e]
  BY DEF Edit
<1>3. PICK e \in Families[family].edits[t] : disk' = [disk EXCEPT ![t] = e]
  BY <1>2
<1>4. family \in DOMAIN Families /\ WorldOk(family, disk, records, left) /\ TypeOK /\ ValidView(view)
  BY ViewTargets DEF FollowerInv
<1>5. e \in State /\ StateOk(family, t, e)
  BY <1>4, EditIs
<1>6. disk' \in [Target -> State] /\ \A q \in Target : StateOk(family, q, disk'[q])
  BY <1>3, <1>4, <1>5 DEF WorldOk
<1>7. WorldOk(family, disk', records, left)
  BY <1>4, <1>6 DEF WorldOk
<1>8. edits' \in 0..MaxEdit
  BY <1>1, <1>4, FollowerAssumption DEF TypeOK
<1>9. TypeOK'
  BY <1>1, <1>4, <1>6, <1>8 DEF TypeOK
<1> QED BY <1>1, <1>4, <1>7, <1>9 DEF FollowerInv

\* A claim does not touch a run either.
LEMMA ClaimKeepsInv ==
  ASSUME FollowerInv, Claim
  PROVE  FollowerInv'
<1>1. /\ edits < MaxEdit /\ run = None /\ edits' = edits + 1 /\ settled' = FALSE
      /\ UNCHANGED <<family, view, disk, records, run, last, left, published>>
      /\ \E r \in Resource, k \in Claimable :
           overlay' = [overlay EXCEPT ![r] = IF k \in @ THEN @ \ {k} ELSE @ \cup {k}]
  BY DEF Claim, EditAllowed
<1>2. family \in DOMAIN Families /\ WorldOk(family, disk, records, left) /\ TypeOK /\ ValidView(view)
  BY ViewTargets DEF FollowerInv
<1>3. edits' \in 0..MaxEdit
  BY <1>1, <1>2, FollowerAssumption DEF TypeOK
<1>4. overlay' \in [Resource -> SUBSET Claimable]
  <2>1. overlay \in [Resource -> SUBSET Claimable]
    BY <1>2 DEF TypeOK
  <2>2. PICK r \in Resource, k \in Claimable :
          overlay' = [overlay EXCEPT ![r] = IF k \in @ THEN @ \ {k} ELSE @ \cup {k}]
    BY <1>1
  <2> QED BY <2>1, <2>2
<1>5. TypeOK'
  BY <1>1, <1>2, <1>3, <1>4 DEF TypeOK
<1> QED BY <1>1, <1>2, <1>5 DEF FollowerInv

\* A revision that arrives during a run settles nothing.
LEMMA PublishKeepsInv ==
  ASSUME FollowerInv, Publish
  PROVE  FollowerInv'
<1>1. /\ published < MaxPublish[family] /\ published' = published + 1 /\ settled' = FALSE
      /\ UNCHANGED <<family, disk, records, overlay, run, last, left, edits>>
      /\ view' \in Families[family].views
      /\ \E v \in Families[family].views : view' = v /\ ValidView(v)
  BY DEF Publish
<1>2. family \in DOMAIN Families /\ WorldOk(family, disk, records, left) /\ TypeOK
  BY ViewTargets DEF FollowerInv
<1>3. published' \in 0..MaxPublish[family]
  BY <1>1, <1>2, FollowerAssumption DEF TypeOK
<1>4. TypeOK'
  BY <1>1, <1>2, <1>3 DEF TypeOK
<1>5. ValidView(view')
  BY <1>1
<1>6. run # None => /\ WorldOk(family, run.disk, run.records, run.left)
                    /\ TodoOk(family, run.todo, disk, records, overlay)
  BY DEF FollowerInv, RunOk
<1> QED BY <1>1, <1>2, <1>4, <1>5, <1>6 DEF FollowerInv, RunOk

\* A run is planned.
LEMMA SyncKeepsInv ==
  ASSUME FollowerInv, Sync
  PROVE  FollowerInv'
<1>1. /\ run = None /\ Plannable /\ settled' = TRUE
      /\ UNCHANGED <<family, view, disk, records, overlay, last, left, published, edits>>
  BY DEF Sync
<1>2. PICK f \in Orders(Resources) :
        run' = [todo |-> Concat(f), disk |-> disk, records |-> records, left |-> left]
  BY DEF Sync
<1>3. family \in DOMAIN Families /\ WorldOk(family, disk, records, left) /\ TypeOK /\ ValidView(view)
  BY ViewTargets DEF FollowerInv
<1>4. CanPlan
  BY <1>1, <1>3 DEF CanPlan, TypeOK
<1>5. /\ Concat(f) \in Seq(PlannedAction)
      /\ TodoOk(family, Concat(f), disk, records, overlay)
      /\ SettledOk(view, Concat(f), disk, records, overlay)
  BY <1>4, SyncPlans
<1>6. run' \in Run /\ run'.todo = Concat(f) /\ run'.disk = disk /\ run'.records = records
      /\ run'.left = left
  BY <1>2, <1>3, <1>5 DEF Run, WorldOk
<1>7. run' # None
  BY <1>6, FollowerAssumption
<1>8. TypeOK'
  BY <1>1, <1>3, <1>6 DEF TypeOK
<1>9. RunOk'
  BY <1>1, <1>3, <1>5, <1>6 DEF RunOk
<1> QED BY <1>1, <1>3, <1>7, <1>8, <1>9 DEF FollowerInv

\* A run that cannot be planned changes nothing.
LEMMA RefuseKeepsInv ==
  ASSUME FollowerInv, Refuse
  PROVE  FollowerInv'
<1>1. /\ run = None /\ last' = "Refused" /\ settled' = TRUE
      /\ UNCHANGED <<family, view, disk, records, overlay, run, left, published, edits>>
  BY DEF Refuse
<1>2. TypeOK'
  BY <1>1 DEF FollowerInv, TypeOK, Outcome
<1> QED BY <1>1, <1>2 DEF FollowerInv

\* A run that has executed every action leaves nothing to do.
LEMMA FinishKeepsInv ==
  ASSUME FollowerInv, Finish
  PROVE  FollowerInv'
<1>1. /\ run # None /\ run.todo = <<>> /\ run' = None /\ last' = "Converged"
      /\ UNCHANGED <<disk, records, left, family, view, overlay, settled, published, edits>>
  BY DEF Finish, Close
<1>2. TypeOK'
  BY <1>1 DEF FollowerInv, TypeOK, Outcome
<1>3. settled => AllQuiet(view, disk, records, overlay)
  <2> SUFFICES ASSUME settled
               PROVE  AllQuiet(view, disk, records, overlay)
    OBVIOUS
  <2>1. SettledOk(view, <<>>, disk, records, overlay)
    BY <1>1 DEF FollowerInv, RunOk
  <2>2. DOMAIN <<>> = {}
    OBVIOUS
  <2> QED BY <2>1, <2>2 DEF SettledOk, AllQuiet
<1> QED BY <1>1, <1>2, <1>3 DEF FollowerInv

\* The first action of a run, while it is executed.
Done(x, u) ==
  /\ x.draft.kind # "remove-resource" => Verified(x.d, u)
  /\ disk' = [disk EXCEPT ![x.d.target] = u]
  /\ records' = [records EXCEPT ![x.res] = Owned(x)]
  /\ left' = LeftBy(x, u)
  /\ run' = [run EXCEPT !.todo = Tail(@)]
  /\ UNCHANGED <<family, view, overlay, last, settled, published, edits>>

\* It is executed, or the run ends without having converged: where it is, or rolled back.
LEMMA ActIs ==
  ASSUME Act
  PROVE  /\ run # None /\ run.todo # <<>>
         /\ LET x == Head(run.todo) IN
            \/ Live(x) /\ \E u \in Effect(x, disk[x.d.target]) : Done(x, u)
            \/ RollBack
            \/ /\ UNCHANGED <<disk, records, left>>
               /\ Close("HumanActionRequired") \/ Close("FollowerDrift")
<1> DEFINE x == Head(run.todo)
<1>1. run # None /\ run.todo # <<>>
  BY DEF Act
<1>2. CASE x.draft.kind = "human-action"
  <2>1. UNCHANGED <<disk, records, left>> /\ Close("HumanActionRequired")
    BY <1>2, Zenon DEF Act
  <2> QED BY <1>1, <2>1
<1>3. CASE x.draft.kind = "drift-conflict"
  <2>1. UNCHANGED <<disk, records, left>> /\ Close("FollowerDrift")
    BY <1>3, Zenon DEF Act
  <2> QED BY <1>1, <2>1
<1>4. CASE Live(x)
  <2>1. x.draft.kind # "human-action" /\ x.draft.kind # "drift-conflict"
    BY <1>4 DEF Live
  <2>2. \/ \E u \in Effect(x, disk[x.d.target]) : Done(x, u)
        \/ RollBack
        \/ UNCHANGED <<disk, records, left>> /\ Close("HumanActionRequired")
    BY <2>1, Zenon DEF Act, Done
  <2> QED BY <1>1, <1>4, <2>2
<1> QED BY <1>2, <1>3, <1>4 DEF Live

\* The first action of a run, whether it is executed or ends the run.
LEMMA ActKeepsInv ==
  ASSUME FollowerInv, Act
  PROVE  FollowerInv'
<1> DEFINE x == Head(run.todo)
           todo == run.todo
<1>1. run # None /\ todo # <<>>
  BY ActIs
<1>2. /\ family \in DOMAIN Families /\ WorldOk(family, disk, records, left) /\ TypeOK
      /\ ValidView(view) /\ RunOk
      /\ \A r \in Resource : view[r] # None => view[r].target \in Target
  BY <1>1, ViewTargets DEF FollowerInv
<1>3. /\ run \in Run /\ todo \in Seq(PlannedAction) /\ x = todo[1] /\ 1 \in DOMAIN todo
      /\ x \in PlannedAction /\ Tail(todo) \in Seq(PlannedAction)
  <2>1. run \in Run
    BY <1>1, <1>2 DEF TypeOK
  <2>2. todo \in Seq(PlannedAction)
    BY <2>1 DEF Run
  <2> HIDE DEF todo
  <2> QED BY <1>1, <2>1, <2>2, Rest DEF todo
<1>4. /\ WorldOk(family, run.disk, run.records, run.left)
      /\ TodoOk(family, todo, disk, records, overlay)
      /\ settled => SettledOk(view, todo, disk, records, overlay)
  BY <1>2 DEF RunOk
<1>5. ASSUME NEW outcome \in {"Failed", "HumanActionRequired", "FollowerDrift"}, Close(outcome),
             WorldOk(family, disk', records', left')
      PROVE  FollowerInv'
  <2>1. /\ run' = None /\ last' = outcome
        /\ UNCHANGED <<family, view, overlay, settled, published, edits>>
    BY <1>5 DEF Close
  <2>2. /\ disk' \in [Target -> State] /\ left' \in [Target -> Content]
        /\ records' \in [Resource -> AppliedResource \cup {None}]
    BY <1>5 DEF WorldOk
  <2>3. TypeOK'
    BY <1>2, <2>1, <2>2 DEF TypeOK, Outcome
  <2> QED BY <1>2, <1>5, <2>1, <2>3 DEF FollowerInv
<1>6. CASE RollBack
  <2>1. disk' = run.disk /\ records' = run.records /\ left' = run.left /\ Close("Failed")
    BY <1>6 DEF RollBack
  <2> QED BY <1>4, <1>5, <2>1
<1>7. CASE /\ UNCHANGED <<disk, records, left>>
           /\ Close("HumanActionRequired") \/ Close("FollowerDrift")
  BY <1>2, <1>5, <1>7
<1>8. ASSUME Live(x), NEW u \in Effect(x, disk[x.d.target]), Done(x, u)
      PROVE  FollowerInv'
  <2>1. /\ x.draft.kind # "remove-resource" => Verified(x.d, u)
        /\ disk' = [disk EXCEPT ![x.d.target] = u]
        /\ records' = [records EXCEPT ![x.res] = Owned(x)]
        /\ left' = LeftBy(x, u)
        /\ run' = [run EXCEPT !.todo = Tail(@)]
        /\ UNCHANGED <<family, view, overlay, last, settled, published, edits>>
    BY <1>8 DEF Done
  <2>2. x.res \in Resource /\ Current(family, x, disk, records, overlay)
    BY <1>3, <1>4, <1>8, PlannedIs DEF TodoOk
  <2> HIDE DEF x, todo
  <2>3. WorldOk(family, disk', records', left')
    BY <1>2, <1>8, <2>1, <2>2, ActKeepsWorld
  <2>4. TodoOk(family, Tail(todo), disk', records', overlay)
    BY <1>1, <1>2, <1>3, <1>4, <1>8, <2>1, ActKeepsTodo DEF x, todo
  <2>5. settled => SettledOk(view, Tail(todo), disk', records', overlay)
    BY <1>1, <1>2, <1>3, <1>4, <1>8, <2>1, ActKeepsSettled DEF x, todo
  <2>6. /\ run' \in Run /\ run'.todo = Tail(todo) /\ run'.disk = run.disk
        /\ run'.records = run.records /\ run'.left = run.left
    BY <1>3, <2>1 DEF Run, todo
  <2>7. run' # None
    BY <2>6, FollowerAssumption
  <2>8. TypeOK'
    <3>1. /\ disk' \in [Target -> State] /\ left' \in [Target -> Content]
          /\ records' \in [Resource -> AppliedResource \cup {None}]
      BY <2>3 DEF WorldOk
    <3> QED BY <1>2, <2>1, <2>6, <3>1 DEF TypeOK
  <2>9. RunOk'
    BY <1>4, <2>1, <2>4, <2>5, <2>6 DEF RunOk
  <2> QED BY <1>2, <2>1, <2>3, <2>7, <2>8, <2>9 DEF FollowerInv
<1> QED BY <1>6, <1>7, <1>8, ActIs

\* Every step keeps the invariant.
LEMMA NextKeepsInv == FollowerInv /\ [Next]_vars => FollowerInv'
<1> SUFFICES ASSUME FollowerInv, [Next]_vars
             PROVE  FollowerInv'
  OBVIOUS
<1>1. CASE Publish
  BY <1>1, PublishKeepsInv
<1>2. CASE Edit
  BY <1>2, EditKeepsInv
<1>3. CASE Claim
  BY <1>3, ClaimKeepsInv
<1>4. CASE Sync
  BY <1>4, SyncKeepsInv
<1>5. CASE Refuse
  BY <1>5, RefuseKeepsInv
<1>6. CASE Act
  BY <1>6, ActKeepsInv
<1>7. CASE Finish
  BY <1>7, FinishKeepsInv
<1>8. CASE UNCHANGED vars
  <2>1. /\ family' = family /\ view' = view /\ disk' = disk /\ records' = records
        /\ overlay' = overlay /\ run' = run /\ last' = last /\ settled' = settled
        /\ left' = left /\ published' = published /\ edits' = edits
    BY <1>8 DEF vars
  <2>2. TypeOK' /\ (run # None => RunOk')
    BY <2>1 DEF FollowerInv, TypeOK, RunOk
  <2> QED BY <2>1, <2>2 DEF FollowerInv
<1> QED BY <1>1, <1>2, <1>3, <1>4, <1>5, <1>6, <1>7, <1>8 DEF Next

\* The inductive invariant holds in every behaviour.
LEMMA SpecInv == Spec => []FollowerInv
<1>1. Init => FollowerInv
  BY InitInv
<1>2. FollowerInv /\ [Next]_vars => FollowerInv'
  BY NextKeepsInv
<1> QED BY <1>1, <1>2, PTL DEF Spec

----------------------------------------------------------------------------
(* What the follower may rely on. *)

\* Every variable stays in its type: in particular the actions of a run, the contents of
\* the targets and the records are those of the families of revisions.
THEOREM TypeCorrect == Spec => []TypeOK
<1>1. FollowerInv => TypeOK
  BY DEF FollowerInv
<1> QED BY <1>1, SpecInv, PTL

\* An installation comes from the recipe of a tool, which the planner did not leave to a person.
LEMMA InstallIs ==
  ASSUME NEW x, NEW rec, NEW ov, Wanted(x.d), x.draft.kind = "install-tool",
         NEW i \in DOMAIN PlanResource(x.d, x.seen, rec, ov),
         x.draft = PlanResource(x.d, x.seen, rec, ov)[i]
  PROVE  /\ x.d.kind = "tool" /\ x.d.tool # None
         /\ x.d.tool.recipe # None /\ ~NeedsPerson(x.d.tool.recipe)
<1> DEFINE d == x.d
           plan == PlanResource(d, x.seen, rec, ov)
<1>1. d.kind \in {"tool", "credential"}
  <2> SUFFICES ASSUME d.kind \notin {"tool", "credential"}
               PROVE  FALSE
    OBVIOUS
  <2>1. IsDraft(plan)
    BY OneDraft
  <2> HIDE DEF plan
  <2>2. PICK k \in {"no-op", "write-file", "write-config", "mirror-directory", "human-action",
                    "drift-conflict"}, a \in SUBSET Slot, b \in SUBSET Slot : plan = Draft(k, a, b)
    BY <2>1 DEF IsDraft
  <2>3. plan[i].kind = k
    BY <2>2 DEF plan, Draft
  <2> QED BY <2>3 DEF plan
<1>2. plan = IF d.kind = "tool" THEN PlanEnsure(d, x.seen) ELSE PlanRequireLocal(x.seen)
  BY <1>1, PolicyOf, PlanIs
<1>3. d.kind = "tool"
  <2> SUFFICES ASSUME d.kind = "credential"
               PROVE  FALSE
    BY <1>1
  <2>1. plan \in {NoOp, Human}
    BY <1>2 DEF PlanRequireLocal
  <2> HIDE DEF plan
  <2>2. plan[i].kind \in {"no-op", "human-action"}
    BY <2>1 DEF plan, NoOp, Human, Draft
  <2> QED BY <2>2 DEF plan
<1>4. plan = PlanEnsure(d, x.seen)
  BY <1>2, <1>3
<1>5. d.tool.recipe # None /\ ~NeedsPerson(d.tool.recipe)
  BY <1>4, EnsurePlan
<1> QED BY <1>3, <1>5 DEF Wanted, WellFormed

\* What the executor refuses of a valid recipe is left to a person, a package that is not
\* given by its name apart.
LEMMA RefusedIs ==
  ASSUME NEW r \in Recipe, ValidRecipe(r), ~NeedsPerson(r), Refused(r)
  PROVE  AmbiguousPackage(r)
<1>1. r.method \in Automatic \cup {"source"}
  BY DEF Recipe
<1> QED BY <1>1 DEF NeedsPerson, Refused

\* planEnsure and the executor agree: of the recipes that validation lets through, an
\* installation that is planned is refused only for a package that is not a name, so that
\* no run is rolled back for a refusal the planner could have foreseen.
THEOREM RefusalsPlanned == Spec => []RefusalsArePlanned
<1>1. FollowerInv => RefusalsArePlanned
  <2> SUFFICES ASSUME FollowerInv, NEW i \in Installs, Refused(run.todo[i].d.tool.recipe)
               PROVE  AmbiguousPackage(run.todo[i].d.tool.recipe)
    BY DEF RefusalsArePlanned
  <2> DEFINE x == run.todo[i]
  <2>1. run # None /\ i \in DOMAIN run.todo /\ x.draft.kind = "install-tool"
    BY DEF Installs
  <2>2. run \in Run /\ family \in DOMAIN Families
    BY <2>1 DEF FollowerInv, TypeOK
  <2>3. x \in PlannedAction
    BY <2>1, <2>2 DEF Run
  <2>4. Current(family, x, disk, records, overlay)
    BY <2>1 DEF FollowerInv, RunOk, TodoOk, Live
  <2> HIDE DEF x
  <2>5. /\ IsGiven(family, x.res, x.d)
        /\ \E j \in DOMAIN PlanResource(x.d, x.seen, records[x.res], overlay[x.res]) :
             x.draft = PlanResource(x.d, x.seen, records[x.res], overlay[x.res])[j]
    BY <2>1, <2>4 DEF Current, Planned, x
  <2>6. Wanted(x.d) /\ ValidResource(x.d)
    BY <2>2, <2>3, <2>5, PlannedIs, GivenIs
  <2>7. /\ x.d.kind = "tool" /\ x.d.tool # None
        /\ x.d.tool.recipe # None /\ ~NeedsPerson(x.d.tool.recipe)
    BY <2>1, <2>5, <2>6, InstallIs DEF x
  <2>8. x.d.tool.recipe \in Recipe
    BY <2>6, <2>7 DEF Wanted, DesiredResource, DesiredTool
  <2>9. ValidRecipe(x.d.tool.recipe)
    BY <2>6, <2>7 DEF ValidResource
  <2> QED BY <2>7, <2>8, <2>9, RefusedIs DEF x
<1> QED BY <1>1, SpecInv, PTL

\* Nothing the follower wrote is forgotten: while a leaf is as a run left it, a record of
\* its target declares it, whatever moves, policy changes, edits and roll backs came between.
THEOREM NothingForgotten == Spec => []OwnedIsRecorded
<1>1. FollowerInv => OwnedIsRecorded
  <2>1. FollowerInv => Covered(records, left)
    BY DEF FollowerInv, WorldOk
  <2> QED BY <2>1 DEF OwnedIsRecorded, Covered, Covers
<1> QED BY <1>1, SpecInv, PTL

\* Planning is idempotent: after a run that converged, and before anything changes, the
\* next plan asks for nothing, for every kind of resource and every Apply Policy.
THEOREM ConvergedStaysConverged == Spec => []ConvergedIsFixpoint
<1>1. FollowerInv => ConvergedIsFixpoint
  <2> SUFFICES ASSUME FollowerInv, settled, run = None, last = "Converged"
               PROVE  \A r \in Resources : \A i \in DOMAIN Drafts(r) : Drafts(r)[i].kind = "no-op"
    BY DEF ConvergedIsFixpoint
  <2>1. AllQuiet(view, disk, records, overlay)
    BY DEF FollowerInv
  <2> QED BY <2>1, LivesIs DEF AllQuiet, Quiet
<1> QED BY <1>1, SpecInv, PTL

\* A run goes on only by executing its first action.
LEMMA RunGoesOn ==
  ASSUME [Next]_vars, run # None, run' # None, run'.todo # run.todo
  PROVE  /\ run.todo # <<>> /\ Live(Head(run.todo))
         /\ \E u \in Effect(Head(run.todo), disk[Head(run.todo).d.target]) : Done(Head(run.todo), u)
<1>1. run' # run
  OBVIOUS
<1>2. ~Publish /\ ~Refuse /\ ~(UNCHANGED vars)
  BY <1>1 DEF Publish, Refuse, vars
<1>3. ~Edit /\ ~Claim
  BY <1>1 DEF Edit, Claim
<1>4. ~Sync /\ ~Finish
  BY DEF Sync, Finish, Close
<1>5. Act
  BY <1>2, <1>3, <1>4 DEF Next
<1> QED BY <1>5, ActIs DEF RollBack, Close

\* Local edits survive every run: what no run left at a place is changed only where the
\* Apply Policy, or a record of another target or form, lets the action do so.
THEOREM LocalEditsKept == Spec => LocalEditsSurvive
<1> DEFINE x == Head(run.todo)
           Spared == \A s \in Slot :
                       LET was == disk[x.d.target].content[s] IN
                       (was # disk'[x.d.target].content[s]
                          /\ was \notin {Nothing, Dir, left[x.d.target][s]}) => MayChange(x, s)
<1>1. ASSUME FollowerInv, [Next]_vars, run # None, run' # None, run'.todo # run.todo
      PROVE  Spared
  <2> DEFINE t == disk[x.d.target]
             rec == records[x.res]
             ov == overlay[x.res]
  <2>1. run.todo # <<>> /\ Live(x) /\ \E v \in Effect(x, t) : Done(x, v)
    BY <1>1, RunGoesOn
  <2>2. PICK u \in Effect(x, t) : Done(x, u)
    BY <2>1
  <2>3. /\ x.draft.kind # "remove-resource" => Verified(x.d, u)
        /\ disk' = [disk EXCEPT ![x.d.target] = u]
    BY <2>2 DEF Done
  <2>4. /\ family \in DOMAIN Families /\ WorldOk(family, disk, records, left)
        /\ TodoOk(family, run.todo, disk, records, overlay) /\ run \in Run
    BY <1>1 DEF FollowerInv, RunOk, TypeOK
  <2>5. run.todo \in Seq(PlannedAction)
    BY <2>4 DEF Run
  <2>6. x = run.todo[1] /\ 1 \in DOMAIN run.todo /\ x \in PlannedAction
    BY <2>1, <2>5, Rest
  <2>7. x.res \in Resource /\ x.d.target \in Target /\ Current(family, x, disk, records, overlay)
    BY <2>1, <2>4, <2>6, PlannedIs DEF TodoOk
  <2> HIDE DEF x
  <2>8. Respects(x, rec, ov, t, u)
    BY <2>1, <2>2, <2>3, <2>4, <2>7, CurrentActs
  <2>9. disk'[x.d.target] = u
    BY <2>3, <2>4, <2>7 DEF WorldOk
  <2>10. ASSUME NEW s \in Slot, t.content[s] # u.content[s],
                t.content[s] \notin {Nothing, Dir, left[x.d.target][s]}
         PROVE  MayChange(x, s)
    <3>1. CASE Licensed(x, ov, t, u, s)
      BY <2>9, <3>1 DEF Licensed, MayChange
    <3>2. CASE AsRecorded(x.d, rec, t, s)
      <4>1. /\ rec # None /\ t.content[s] = rec.content[RecordPlace(x.d, s)]
            /\ x.d.policy = "append-local" => s = Source
        BY <3>2 DEF AsRecorded
      <4>2. t.content[s] = RecordedAt(x, s)
        BY <4>1 DEF RecordedAt, RecordPlace
      <4>3. Strayed(x)
        <5> SUFFICES ASSUME ~Strayed(x)
                     PROVE  FALSE
          OBVIOUS
        <5>1. rec.target = x.d.target /\ (rec.policy = "append-local" <=> x.d.policy = "append-local")
          BY <4>1 DEF Strayed
        <5>2. Declared(rec, s) = t.content[s]
          BY <4>1, <5>1 DEF Declared, RecordPlace
        <5>3. left[x.d.target][s] = t.content[s]
          BY <2>4, <2>7, <2>10, <4>1, <5>1, <5>2 DEF WorldOk, Known
        <5> QED BY <2>10, <5>3
      <4> QED BY <4>2, <4>3 DEF MayChange
    <3> QED BY <2>8, <2>10, <3>1, <3>2 DEF Respects
  <2> QED BY <2>9, <2>10
<1>2. FollowerInv /\ [Next]_vars
        => [run # None /\ run' # None /\ run'.todo # run.todo => Spared]_vars
  BY <1>1
<1> QED BY <1>2, SpecInv, PTL DEF Spec, LocalEditsSurvive
=============================================================================
