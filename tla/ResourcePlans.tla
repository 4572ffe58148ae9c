--------------------------- MODULE ResourcePlans ---------------------------
(***************************************************************************)
(* The per-resource planner: what synchronization does about one resource, *)
(* given its desired state, what is observed at its target and the record  *)
(* of what was applied last.  One operator per Apply Policy.               *)
(*                                                                         *)
(* A target's content is a function from places to values.  The places of  *)
(* a tree are its paths, those of a config its keys.  A text file has two: *)
(* the text between the Source markers and the text outside them, so a     *)
(* plain file is all Local.  A digest is injective, hence the content.     *)
(***************************************************************************)
EXTENDS ToolRecipes, FiniteSets, Sequences

CONSTANTS
  Slot,     \* places inside a target
  Source,   \* of a text file: the text between the Source markers
  Local,    \* of a text file: the text outside the markers
  Above,    \* of a tree: the directories on the way to a path
  Value     \* what a place may hold

Nothing == "nothing"
Dir == "dir"

Content == [Slot -> Value \cup {Nothing, Dir}]

ASSUME PlansAssumption ==
  /\ Source \in Slot /\ Local \in Slot /\ Source # Local
  /\ Above \in [Slot -> SUBSET Slot]
  /\ {Nothing, Dir, "opaque"} \cap Value = {}
  /\ None \notin [Slot -> Value \cup {Nothing, Dir, "opaque"}]

Empty == [s \in Slot |-> Nothing]
Present(c) == {s \in Slot : c[s] # Nothing}
Keep(c, ss) == [s \in Slot |-> IF s \in ss THEN c[s] ELSE Nothing]
Unmarked(v) == [Empty EXCEPT ![Local] = v]
\* The digest of an object that is not what the resource manages.
Opaque == [s \in Slot |-> "opaque"]

Tree(kind) == kind \in {"directory", "skill"}
OwnedTree(rec) == rec # None /\ Tree(rec.kind)

\* relativePathAncestors
Ancestors(ss) == UNION {Above[s] : s \in ss}

Draft(kind, adds, removes) == <<[kind |-> kind, adds |-> adds, removes |-> removes]>>
NoOp == Draft("no-op", {}, {})
Human == Draft("human-action", {}, {})
Drift == Draft("drift-conflict", {}, {})
Write == Draft("write-file", {}, {})

\* policyCompatibleWithKind
Compatible(kind, policy) ==
  policy \in CASE kind = "file"       -> {"replace", "replace-if-unmodified", "append-local"}
               [] kind = "directory"  -> {"mirror-owned", "replace"}
               [] kind = "config"     -> {"merge", "replace"}
               [] kind = "skill"      -> {"replace-if-unmodified", "replace"}
               [] kind = "tool"       -> {"ensure"}
               [] kind = "credential" -> {"require-local"}

----------------------------------------------------------------------------
(* Observation. *)

Seen(state, object, mode, content) ==
  [state |-> state, object |-> object, mode |-> mode, content |-> content]

Foreign(object) == Seen("present", object, None, Opaque)

\* observeFile: no-follow, and a regular file in place of a symlink is opaque.
\* Under append-local an unparsable text is unreadable.
ObserveFile(t, d) ==
  CASE t.object = "symlink" -> Seen("present", "symlink", None, t.content)
    [] t.object = "directory" -> Foreign("directory")
    [] t.object = "regular" /\ d.object = "symlink" -> Foreign("regular")
    [] OTHER -> Seen("present", "regular", t.mode, t.content)

\* observeConfig reads the declared keys alone.
ObserveConfig(t, d) ==
  IF t.object # "regular" THEN Foreign(t.object)
  ELSE Seen("present", "regular", None, Keep(t.content, Present(d.content)))

\* A tree is inspected at the owned and the desired paths; under replace the
\* whole directory is listed.
ObserveTree(t, d, rec) ==
  IF t.object # "directory" THEN Foreign(t.object)
  ELSE LET owned == IF OwnedTree(rec) THEN Present(rec.content) ELSE {}
           candidates == IF d.policy = "replace" THEN Slot
                         ELSE owned \cup Present(d.content)
       IN  Seen("directory", "directory", t.mode, Keep(t.content, candidates))

Observe(t, d, rec) ==
  CASE t.object = "absent" -> Seen("absent", "absent", None, Empty)
    [] t.object = "unreadable" -> Seen("unverifiable", "unreadable", None, Opaque)
    [] OTHER -> CASE d.kind = "file" -> ObserveFile(t, d)
                  [] d.kind = "config" -> ObserveConfig(t, d)
                  [] Tree(d.kind) -> ObserveTree(t, d, rec)
                  [] OTHER -> Seen("present", "regular", None, Empty)

\* Of the owned and desired paths that were inspected, some do not exist.
SomeMissing(d, o, rec) ==
  \E s \in Present(d.content) \cup (IF OwnedTree(rec) THEN Present(rec.content) ELSE {}) :
    o.content[s] = Nothing

----------------------------------------------------------------------------
(* Comparisons. *)

ObservedDigest(o) == IF o.state \in {"absent", "unverifiable"} THEN None ELSE o.content

\* observedDirectoryDigest: directories that only lead to a declared path are
\* left out, explicit entries stay visible.
DirectoryDigest(o, declared) ==
  Keep(o.content, {s \in Slot : s \in declared \/ o.content[s] # Dir
                                \/ s \notin Ancestors(declared)})

ObservedMatchesDesired(d, o, rec) ==
  CASE d.kind = "file" ->
         /\ o.state = "present" /\ o.content = d.content /\ o.object = d.object
         /\ o.mode \in {None, d.mode}
    [] d.kind = "config" ->
         o.state = "present" /\ o.content = d.content /\ o.object = "regular"
    [] Tree(d.kind) ->
         /\ o.state = "directory" /\ o.mode = d.mode
         /\ ~SomeMissing(d, o, rec)
         /\ DirectoryDigest(o, Present(d.content)) = d.content
    [] OTHER -> o.state = "present"

\* Faulty variant: an owned path that was modified counts as unmodified.
ObservedMatchesAnything(d, o, rec) == TRUE

ObservedMatchesApplied(d, o, rec) ==
  \/ rec = None \/ o.state = "absent"
  \/ /\ Tree(d.kind) /\ o.state = "directory"
     /\ o.mode = rec.mode
     /\ \A s \in Present(o.content) \cap Present(rec.content) :
          o.content[s] = rec.content[s]
  \/ /\ ~(Tree(d.kind) /\ o.state = "directory")
     /\ ObservedDigest(o) = rec.content
     /\ d.kind = "file" =>
          /\ o.object = rec.object
          /\ rec.object = "regular" => o.mode = rec.mode

\* detectSkillDrift: the three-way comparison. A mode None is not compared.
DetectSkillDrift(desired, observed, applied) ==
  LET same(x, y) == x.digest = y.digest /\ (y.mode = None \/ x.mode = y.mode)
      desiredMatchesApplied ==
        /\ desired.digest = applied.digest
        /\ desired.mode = None \/ applied.mode = None \/ desired.mode = applied.mode
  IN  CASE same(observed, desired) ->
             IF desiredMatchesApplied THEN "unchanged" ELSE "converged"
        [] ~same(observed, desired) /\ applied.digest = None ->
             IF observed.digest = None THEN "remote-only" ELSE "conflicting"
        [] OTHER ->
             CASE same(observed, applied) -> "remote-only"
               [] ~same(observed, applied) /\ desiredMatchesApplied -> "local-only"
               [] OTHER -> "conflicting"

----------------------------------------------------------------------------
(* Apply Policies. *)

\* The entries of a tree to write, and the observed entries no longer wanted;
\* an implicit parent of a desired path stays.
Changed(d, o) == {s \in Present(d.content) : o.content[s] # d.content[s]}
Unwanted(d, o) ==
  {s \in Present(o.content) \ Present(d.content) :
     ~(o.content[s] = Dir /\ s \in Ancestors(Present(d.content)))}

ReplaceDirectory(d, o) ==
  LET files == IF o.state = "directory" THEN o ELSE [o EXCEPT !.content = Empty]
  IN  Draft("mirror-directory", Changed(d, files), Unwanted(d, files))

PlanReplace(d, o, rec) ==
  IF ObservedMatchesDesired(d, o, rec) THEN NoOp
  ELSE IF Tree(d.kind) THEN ReplaceDirectory(d, o) ELSE Write

\* mirror-owned removes only owned entries that are as they were applied.
PlanMirror(d, o, rec) ==
  LET adds == Changed(d, o)
      removes == {s \in Unwanted(d, o) : OwnedTree(rec) /\ rec.content[s] = o.content[s]}
  IN  IF adds = {} /\ removes = {} /\ o.state # "absent" /\ o.mode = d.mode
      THEN NoOp ELSE Draft("mirror-directory", adds, removes)

\* Faulty variant: two-way, keys the revision dropped are left where they are.
PlanMergeTwoWay(d, o, rec, overlay) ==
  IF Present(d.content) \cap overlay # {} THEN Human
  ELSE IF ObservedMatchesDesired(d, o, rec) THEN NoOp
  ELSE Draft("write-config", Present(d.content), {})

\* merge: keys the revision dropped are pruned unless the follower claimed
\* them; a declared key the follower claimed is a conflict.
PlanMerge(d, o, rec, overlay) ==
  LET keys == Present(d.content)
      owned == IF rec # None /\ rec.kind = "config" THEN Present(rec.content) ELSE {}
      prunable == (owned \ keys) \ overlay
  IN  CASE keys \cap overlay # {} -> Human
        [] keys \cap overlay = {} /\ prunable # {} -> Draft("write-config", keys, prunable)
        [] OTHER -> IF ObservedMatchesDesired(d, o, rec) THEN NoOp
                    ELSE Draft("write-config", keys, {})

\* replace-if-unmodified. Absence is not a local edit.
PlanReplaceIfUnmodified(d, o, rec) ==
  LET tree == d.kind = "skill" /\ o.state = "directory"
      digest == IF tree
                THEN DirectoryDigest(o, Present(IF OwnedTree(rec) THEN rec.content
                                                ELSE d.content))
                ELSE ObservedDigest(o)
      modes == tree \/ (d.kind = "file" /\ d.object = "regular")
      at(c, m) == [digest |-> c, mode |-> IF modes THEN m ELSE None]
      drift == DetectSkillDrift(at(d.content, d.mode), at(digest, o.mode),
                 IF rec = None THEN at(None, None) ELSE at(rec.content, rec.mode))
      turned == d.kind = "file" /\ rec # None /\ o.state = "present" /\ o.object # rec.object
      met == ObservedMatchesDesired(d, o, rec)
  IN  IF o.state = "unverifiable" THEN Human
      ELSE IF tree /\ met THEN NoOp
      ELSE IF turned THEN Drift
      ELSE IF drift \in {"unchanged", "converged"} THEN IF met THEN NoOp ELSE Drift
      ELSE IF drift = "remote-only" \/ digest = None THEN PlanReplace(d, o, rec) ELSE Drift

\* append-local compares the marked text with the desired text, and adopts an
\* unmarked file once.
PlanAppendLocal(d, o, rec) ==
  LET marked == o.content[Source] # Nothing
  IN  CASE o.state = "unverifiable" -> Human
        [] o.state = "absent" -> Write
        [] o.state = "present" /\ (o.object # "regular"
             \/ (~marked /\ rec # None /\ rec.policy = "append-local")) -> Drift
        [] OTHER ->
             IF ~marked THEN Write
             ELSE PlanReplaceIfUnmodified(
                    d, [o EXCEPT !.content = Unmarked(@[Source])], rec)

\* A tool no recipe installs: an agent may, inside authored bounds.
UnresolvedAgentTask(d) ==
  IF d.tool.agentInstall THEN Draft("agent-task", {}, {}) ELSE Human

PlanEnsure(d, o) ==
  CASE o.state = "present" -> NoOp
    [] o.state # "present" /\ d.tool.recipe = None -> UnresolvedAgentTask(d)
    [] OTHER ->
         IF o.state = "unverifiable" THEN UnresolvedAgentTask(d)
         ELSE IF NeedsPerson(d.tool.recipe) THEN Human
         ELSE Draft("install-tool", {}, {}) \o (IF d.tool.login THEN Human ELSE <<>>)

PlanRequireLocal(o) == IF o.state = "present" THEN NoOp ELSE Human

\* directoryRootConflict
RootConflict(d, o) == Tree(d.kind) /\ o.state \notin {"directory", "absent"}

PlanResource(d, o, rec, overlay) ==
  IF RootConflict(d, o) THEN Drift
  ELSE CASE d.policy = "replace" -> PlanReplace(d, o, rec)
         [] d.policy = "mirror-owned" -> PlanMirror(d, o, rec)
         [] d.policy = "merge" -> PlanMerge(d, o, rec, overlay)
         [] d.policy = "replace-if-unmodified" -> PlanReplaceIfUnmodified(d, o, rec)
         [] d.policy = "append-local" -> PlanAppendLocal(d, o, rec)
         [] d.policy = "ensure" -> PlanEnsure(d, o)
         [] d.policy = "require-local" -> PlanRequireLocal(o)

\* planRemovedResource: what the follower still owns of a resource it no
\* longer receives is removed if it is as it was applied.
PlanRemoved(d, o, rec) ==
  LET remove == Draft("remove-resource",
                      {},
                      Present(rec.content))
      text == [o EXCEPT !.content = Unmarked(@[Source])]
  IN  IF d.policy = "append-local"
      THEN IF \/ o.state = "absent"
              \/ /\ o.state = "present" /\ o.content[Source] # Nothing
                 /\ ObservedMatchesApplied(d, text, rec)
           THEN remove ELSE Drift
      ELSE IF ObservedMatchesApplied(d, o, rec) THEN remove ELSE <<>>
=============================================================================
