----------------------------- MODULE MCFollower -----------------------------
(* Families of revisions and edits for TLC, one per kind of resource. *)
EXTENDS Follower, TLC

MCSlot == {"source", "local", "a", "b", "c"}
\* b lies in the directory a.
MCAbove == [s \in MCSlot |-> IF s = "b" THEN {"a"} ELSE {}]
MCValue == {"x", "y"}

On(f) == [s \in MCSlot |-> IF s \in DOMAIN f THEN f[s] ELSE Nothing]
Text(v) == On("local" :> v)

Spec1(kind, policy, target, object, mode, content) ==
  [kind |-> kind, policy |-> policy, target |-> target, object |-> object,
   mode |-> mode, content |-> content, deps |-> {}, tool |-> None]
File(policy, object, mode, v) == Spec1("file", policy, "t1", object, mode, Text(v))
Config(policy, c) == Spec1("config", policy, "t1", "regular", None, c)
TreeSpec(kind, policy, mode, c) == Spec1(kind, policy, "t1", "directory", mode, c)

At(object, mode, c) == [object |-> object, mode |-> mode, content |-> c]
Unreadable == At("unreadable", 0, Empty)
View(d1, d2) == [r \in Resource |-> IF r = "r1" THEN d1 ELSE d2]
One(sp, ed) ==
  [views |-> {View(d, None) : d \in sp \cup {None}},
   edits |-> [t \in Target |-> IF t = "t1" THEN ed ELSE {}]]

\* r2 is r1 under another id.
Files ==
  [One({File("replace-if-unmodified", "regular", m, v) : m \in {0, 1}, v \in MCValue}
         \cup {File("replace-if-unmodified", "symlink", 0, "x"),
               File("replace", "regular", 0, "y")},
       {Blank, Unreadable, At("regular", 0, Text("x")), At("regular", 1, Text("x")),
        At("regular", 0, Text("y")), At("symlink", 0, Text("x")), At("directory", 0, Empty)})
     EXCEPT !.views = @ \cup {View(None, File("replace-if-unmodified", "regular", 0, "x"))}]

Appended ==
  One({File("append-local", "regular", 0, v) : v \in MCValue},
      {Blank, Unreadable, At("regular", 0, Text("x")), At("regular", 0, Text("y")),
       At("regular", 0, On("source" :> "x")),
       At("regular", 0, On("source" :> "y" @@ "local" :> "x")),
       At("regular", 0, On("source" :> "x" @@ "local" :> "y")), At("symlink", 0, Text("x"))})

Configs ==
  One({Config("merge", On("a" :> "x")), Config("merge", On("a" :> "y")),
       Config("merge", On("a" :> "x" @@ "b" :> "x")), Config("merge", On("b" :> "y")),
       Config("replace", On("a" :> "x"))},
      {Blank, At("regular", 0, On("a" :> "x")), At("regular", 0, On("a" :> "y" @@ "c" :> "x")),
       At("regular", 0, On("a" :> "x" @@ "b" :> "x")), At("symlink", 0, Empty)})

Trees(kind, policies) ==
  One({TreeSpec(kind, p, 0, c) :
         p \in policies,
         c \in {On("a" :> "x"), On("a" :> Dir @@ "b" :> "x"), On("b" :> "x"),
               On("b" :> "y" @@ "c" :> "x"), On("c" :> "x")}},
      {Blank, At("directory", 0, On("a" :> "x")), At("directory", 1, On("c" :> "x")),
       At("directory", 0, On("a" :> Dir @@ "b" :> "y")), At("directory", 0, On("a" :> Dir)),
       At("directory", 0, On("a" :> Dir @@ "b" :> "x" @@ "c" :> "x")),
       At("symlink", 0, Empty)})

Tool(recipe, agentInstall, login) ==
  [Spec1("tool", "ensure", "t1", "regular", None, Empty)
     EXCEPT !.tool = [recipe |-> recipe, agentInstall |-> agentInstall, login |-> login]]
\* Every recipe that validation accepts, and no recipe at all.
Recipes == {r \in Recipe : ValidRecipe(r) /\ ~r.index}
\* A file that needs a tool, and a credential the user keeps.
\* The executor is asked about every recipe, with nothing else going on.
Installable ==
  [views |-> {View(Tool(c, FALSE, FALSE), None) : c \in Recipes},
   edits |-> [t \in Target |-> {Blank}]]

Plain(method) == [method |-> method, package |-> "name", version |-> "exact",
                  source |-> None, integrity |-> FALSE, index |-> FALSE,
                  hooks |-> "disabled"]
Tools == {Tool(Plain(m), FALSE, m = "npm") : m \in {"npm", "apt", "cargo"}}
           \cup {Tool(None, a, FALSE) : a \in BOOLEAN}
           \cup {Spec1("credential", "require-local", "t1", "regular", None, Empty)}
Needs == [Spec1("file", "replace-if-unmodified", "t2", "regular", 0, Text("x"))
            EXCEPT !.deps = {"r1"}]
Dependent ==
  [views |-> {View(None, None)} \cup {View(d, e) : d \in Tools, e \in {None, Needs}},
   edits |-> [t \in Target |->
     IF t = "t1" THEN {Blank, At("regular", 0, Empty)}
     ELSE {Blank, At("regular", 0, Text("y")), At("directory", 0, Empty)}]]

\* A file whose policy changes.
AnyPolicy ==
  One({File(p, "regular", 0, v) :
         p \in {"append-local", "replace", "replace-if-unmodified"}, v \in MCValue},
      {Blank, At("regular", 0, Text("x")), At("regular", 0, Text("y")),
       At("regular", 0, On("source" :> "x")),
       At("regular", 0, On("source" :> "y" @@ "local" :> "x"))})

\* A resource whose target changes, with the same edits at both.
Moving(sp, ed) ==
  [views |-> {View(None, None)} \cup {View([d EXCEPT !.target = t], None) : d \in sp, t \in Target},
   edits |-> [t \in Target |-> ed]]
MovingFiles ==
  Moving({File("replace-if-unmodified", "regular", 0, v) : v \in MCValue},
         {Blank, At("regular", 0, Text("x")), At("regular", 0, Text("y"))})
MovingTexts ==
  Moving({File("append-local", "regular", 0, v) : v \in MCValue},
         {Blank, At("regular", 0, Text("x")), At("regular", 0, On("source" :> "x")),
          At("regular", 0, On("source" :> "y" @@ "local" :> "x"))})
MovingConfigs ==
  Moving({Config("merge", On("a" :> "x")), Config("merge", On("b" :> "y"))},
         {Blank, At("regular", 0, On("a" :> "x")), At("regular", 0, On("a" :> "x" @@ "b" :> "x"))})
MovingTrees ==
  Moving({TreeSpec("directory", "mirror-owned", 0, On("a" :> "x")),
          TreeSpec("skill", "replace-if-unmodified", 0, On("a" :> "x")),
          TreeSpec("directory", "mirror-owned", 0, On("a" :> Dir @@ "b" :> "x"))},
         {Blank, At("directory", 0, On("a" :> "x")), At("directory", 0, On("a" :> Dir @@ "b" :> "x"))})

AllFamilies ==
  "file" :> Files @@ "text" :> Appended @@ "config" :> Configs @@ "tool" :> Dependent @@ "recipe" :> Installable
    @@ "directory" :> Trees("directory", {"mirror-owned", "replace"})
    @@ "skill" :> Trees("skill", {"replace-if-unmodified"})
    @@ "policy" :> AnyPolicy @@ "moving file" :> MovingFiles @@ "moving text" :> MovingTexts
    @@ "moving config" :> MovingConfigs @@ "moving tree" :> MovingTrees

\* Three revisions are "left, given up, taken back"; the recipes are many.
MCMaxPublish == [f \in DOMAIN AllFamilies |-> IF f = "recipe" THEN 2 ELSE 3]
=============================================================================
