--------------------------- MODULE MCAgentResolution ---------------------------
(* Instances of AgentResolution for TLC. *)
EXTENDS AgentResolution, TLC

\* Two files, the second included by the first; a scope, a local path, an
\* outside one, an allowed origin and another.
MCFile == {"/req", "/inc"}
MCWord == MCFile \cup
  {"left", "@s/left", "req", "./in", "/out", "https://r", "https://x", "http://r",
   "git+", "git@", ":all:", "true", "false", "install", "list", "tool", "pip",
   "remove", "run", "help", "restart", "start", "enable", "reboot", "reboot.target", "login"}
MCPathOf == [w \in MCWord |->
  CASE w \in {"/req", "/inc", "./in", "@s/left"} -> "work" [] w = "/out" -> "out" [] OTHER -> NoValue]
MCUrlOf == [w \in MCWord |->
  CASE w = "https://r" -> "r" [] w = "https://x" -> "x" [] w = "http://r" -> "http" [] OTHER -> NoValue]
MCPath == <<"a", "b">>
MCRoots == {"work", "out"}

Names == {"npm", "pip", "uv", "bun", "fmt", "systemctl", "service", "npx", "sudo", "codex"}
\* Everything is a file of b; a link before it may come to name another npm.
Installed == [e \in {At("b", n) : n \in Names} \cup {At("c", "npm")} |-> e]
MCDisks == {Installed, (At("a", "npm") :> At("c", "npm")) @@ Installed}

Line(k, v) == [kind |-> k, value |-> v]
Including == <<Line("package", "left"), Line("include", "/inc")>>
Pinned == <<Line("index", "https://r")>>
MCContents ==
  {("/req" :> Including) @@ ("/inc" :> Pinned),
   ("/req" :> Including) @@ ("/inc" :> <<Line("index", "https://x")>>),
   ("/req" :> Including) @@ ("/inc" :> <<Line("include", "/req")>>)}

W(w) == Plain(w)
Npm1 ==
  {<<W("install"), W("left")>>, <<W("install"), W("@s/left")>>, <<W("remove"), W("left")>>,
   <<W("list")>>, <<W("run"), W("left")>>, <<W("install"), W("git+")>>, <<W("install"), W("./in")>>,
   <<W("install"), W("/out")>>, <<W("install"), With("--registry", "https://x"), W("left")>>,
   <<W("install"), Flag("--registry"), W("https://r"), W("left")>>,
   <<W("install"), Flag("--registry"), Flag("--ignore-scripts"), W("left")>>,
   <<Flag("--prefix"), W("install"), W("list")>>,
   <<W("install"), W("left"), With("--ignore-scripts", "false")>>,
   <<W("install"), Separator, W("left")>>}
Pip1 ==
  {<<W("install"), W("left")>>, <<W("install"), Flag("-r"), W("req")>>, <<W("install"), With("-r", "/req")>>,
   <<W("install"), With("--isolated", "false"), W("left")>>,
   <<Flag("--isolated"), W("install"), W("list")>>,
   <<W("install"), Flag("--no-binary"), W("left")>>,
   <<W("install"), Flag("-i"), Flag("--only-binary"), W(":all:"), W("left")>>,
   <<W("install"), Flag("-i"), W("https://r"), W("left")>>, <<W("install"), Flag("--proxy"), W("https://r")>>}
Uv1 ==
  {<<W("pip"), W("install"), W("left")>>, <<W("tool"), W("install"), W("left")>>,
   <<W("pip"), W("install"), Flag("-r"), W("req")>>,
   <<W("tool"), W("install"), With("--index", "https://r"), W("left")>>,
   <<W("pip"), W("install"), Flag("--index-url"), W("https://r"), W("left")>>}
Systemctl1 ==
  {<<W("restart"), W("left")>>, <<W("start"), W("reboot.target")>>,
   <<W("enable"), Flag("--now"), W("reboot.target")>>, <<W("enable"), W("reboot.target")>>,
   <<Flag("--type"), W("restart"), W("list")>>, <<Flag("-t"), Flag("--now"), W("enable"), W("reboot.target")>>,
   <<Flag("--all"), W("list")>>, <<Separator, W("reboot")>>}

Action(n, args) ==
  [exe |-> Bare(n), args |-> args, root |-> "work", paths |-> {}, origins |-> {}, capabilities |-> {}]
Singles ==
  {Action("npm", args) : args \in Npm1} \cup {Action("bun", args) : args \in {a \in Npm1 : Len(a) = 3}}
    \cup {Action("pip", args) : args \in Pip1} \cup {Action("uv", args) : args \in Uv1}
    \cup {Action("systemctl", args) : args \in Systemctl1}
    \cup {Action("service", <<Flag("-p"), W("left"), W("restart")>>), Action("npx", <<W("left")>>),
          Action("sudo", <<Flag("-u"), W("left"), W("reboot")>>), Action("fmt", <<W("./in")>>),
          Action("fmt", <<W("/out")>>), Action("fmt", <<W("login")>>),
          [Action("fmt", <<>>) EXCEPT !.origins = {"https://x"}],
          [Action("fmt", <<>>) EXCEPT !.capabilities = {"login"}],
          [Action("fmt", <<>>) EXCEPT !.paths = {"/out"}]}
Fmt == Action("fmt", <<W("./in")>>)
Install == Action("npm", <<W("install"), W("left")>>)
Required == Action("pip", <<W("install"), Flag("-r"), W("req")>>)
Flows == {<<>>, <<Install>>, <<Fmt, Required>>, <<Fmt, Action("npm", <<W("run")>>)>>}

Everything == {At("b", n) : n \in Names}
MCHarness ==
  [exe |-> Bare("codex"), environment |-> {[name |-> "registry", value |-> "https://x"]}, maxInput |-> 1, interpreters |-> {},
   roots |-> {"work", "out"}, executables |-> Everything, leaves |-> Everything \ {At("b", n) : n \in Launcher},
   origins |-> {"https://r", "https://x"}, capabilities |-> {"restart"}]
MCTask ==
  [size |-> 1, limit |-> 2, observer |-> [exe |-> Bare("fmt"), args |-> <<W("list")>>],
   bounds |-> [roots |-> {"work"}, executables |-> {Bare(n) : n \in Names},
               leaves |-> {Bare(n) : n \in Names \ Launcher},
               origins |-> {"https://r"}, capabilities |-> {"restart", "reboot"}]]
MCInherited == {[name |-> "PATH", value |-> "a"], [name |-> "config", value |-> "mine"],
                [name |-> "registry", value |-> "http://r"]}
OnePlan == [policy |-> "agent-apply", planning |-> FALSE, harness |-> MCHarness,
            tasks |-> <<MCTask>>, answers |-> Flows]
\* A task no observer can settle, one whose bounds are empty within the
\* harness's, and one too large for the harness.
Odd ==
  {[MCTask EXCEPT !.observer = [exe |-> Bare("npm"), args |-> <<W("run")>>]],
   [MCTask EXCEPT !.bounds.executables = {Bare("node")}], [MCTask EXCEPT !.size = 2]}
MCPlans ==
  {[OnePlan EXCEPT !.tasks = <<[MCTask EXCEPT !.limit = 1]>>, !.answers = {<<a>> : a \in Singles}],
   OnePlan,
   [OnePlan EXCEPT !.tasks = <<[MCTask EXCEPT !.limit = 1], MCTask>>, !.answers = {<<>>}],
   [OnePlan EXCEPT !.policy = "agent-propose", !.answers = {<<Fmt>>}],
   [OnePlan EXCEPT !.planning = TRUE, !.answers = {<<Fmt>>}],
   [OnePlan EXCEPT !.policy = "deterministic-only"],
   [OnePlan EXCEPT !.harness.interpreters = {Bare("node")}]}
  \cup {[OnePlan EXCEPT !.tasks = <<t>>, !.answers = {<<>>}] : t \in Odd}

----------------------------------------------------------------------------
(* Any arguments at all: AgentArguments, one list after the other, over the  *)
(* options and words that the lists of PackageArguments tell apart.          *)

VARIABLES manager, args
lists == <<manager, args>>

Managers == {"npm", "pnpm", "bun", "pip", "uv"}
Words(m) ==
  CASE m = "npm" -> {"install", "remove", "list", "@s/left", "https://r"}
    [] m = "pnpm" -> {"install", "list"}
    [] m = "bun" -> {"install", "help", "git+", "https://r"}
    [] m = "pip" -> {"install", "list", "/req", "https://r", ":all:"}
    [] m = "uv" -> {"tool", "pip", "install", "list", "https://r"}
Flags(m) ==
  CASE m = "npm" -> {"--prefix", "--registry", "-C", "--ignore-scripts"}
    [] m = "pnpm" -> {"--ignore-scripts", "--ignore-pnpmfile", "--use-pnpmfile"}
    [] m = "bun" -> {"--cwd", "--registry", "--ignore-scripts"}
    [] m = "pip" -> {"-r", "-i", "--proxy", "--isolated", "--only-binary", "--no-binary"}
    [] m = "uv" -> {"-r", "--default-index", "--index", "--no-config", "--only-binary"}
Inline(m) ==
  CASE m \in {"npm", "bun"} ->
         {<<"--registry", "https://x">>, <<Scoped, "https://r">>, <<"--ignore-scripts", "false">>}
    [] m = "pnpm" -> {<<"--ignore-pnpmfile", "false">>}
    [] m = "pip" -> {<<"-i", "https://x">>, <<"--isolated", "false">>}
    [] m = "uv" -> {<<"--index-url", "https://r">>, <<"--default-index", "https://x">>, <<"--no-config", "false">>}
MCVocabulary == [m \in Managers |->
  {Plain(w) : w \in Words(m) \cup {"left"}} \cup {Flag(o) : o \in Flags(m) \cup {Scoped}}
    \cup {With(x[1], x[2]) : x \in Inline(m)}]

MCTools == [e \in {At("b", m) : m \in Managers} |-> e]
MCToolsHarness == [MCHarness EXCEPT !.executables = DOMAIN MCTools, !.leaves = DOMAIN MCTools]
MCToolsTask ==
  [MCTask EXCEPT !.bounds.executables = {Bare(m) : m \in Managers},
                 !.bounds.leaves = {Bare(m) : m \in Managers}]
MCEmpty == [f \in MCFile |-> <<>>]
Arguments == INSTANCE AgentArguments WITH
  Vocabulary <- MCVocabulary, MaxArguments <- 4, Task <- MCToolsTask, Harness <- MCToolsHarness,
  Directory <- "work", Disk <- MCTools, Files <- MCEmpty

\* The properties of AgentArguments, for lists that are not empty.
\* What is authorized runs no script of a package and fetches from reviewed
\* registries only (packageManagerPolicy, authorizeRegistryInvocation).
OperationIsReviewed == args # <<>> => Arguments!OperationIsReviewed
\* The executor accepts what the resolution authorized (executeControlledProcess).
AuthorizedIsLaunchable == args # <<>> => Arguments!AuthorizedIsLaunchable

\* The lists are gone through where nothing is left to resolve.
AtRest ==
  /\ plan.policy = "deterministic-only" /\ pc = "done" /\ edits = 0 /\ ~cancelled
  /\ disk = Installed /\ files["/inc"] = Pinned
MCInit == Init /\ Arguments!Init /\ manager = "npm"
MCNext == (Next /\ args = <<>> /\ UNCHANGED lists) \/ (AtRest /\ Arguments!Next /\ UNCHANGED vars)
MCSpec == MCInit /\ [][MCNext]_<<vars, lists>> /\ Fairness
=============================================================================
