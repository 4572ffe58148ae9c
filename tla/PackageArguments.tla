--------------------------- MODULE PackageArguments ---------------------------
(***************************************************************************)
(* The arguments of a package manager an agent proposes to run: what       *)
(* AgentResolution lets through, what it rewrites, and what the controlled *)
(* executor asks of them again just before it spawns.                      *)
(*                                                                         *)
(* An argument is an option, alone or with an inline value (--opt=value),  *)
(* or a word. Of each list of options, commands and executables in the     *)
(* source the members that the lists tell apart are kept.                  *)
(***************************************************************************)
EXTENDS Naturals, Sequences, FiniteSets

CONSTANTS
  NoValue,    \* no inline value, no registry, no command
  Denied,     \* what a refused authorization yields
  Word,       \* the words an argument may be, and the values of options
  PathOf,     \* the root a word names a path under, or NoValue
  UrlOf,      \* the origin of a word that is a URL, or NoValue
  File,       \* requirement files, by the word that names them
  MaxDepth, MaxFiles  \* bounds on requirement includes: 8 and 64 in the source

ASSUME PackageAssumption ==
  /\ NoValue # Denied /\ NoValue \notin Word /\ File \subseteq Word
  /\ DOMAIN PathOf = Word /\ DOMAIN UrlOf = Word
  /\ MaxDepth \in Nat /\ MaxFiles \in Nat

Flag(o) == [opt |-> o, val |-> NoValue]
With(o, v) == [opt |-> o, val |-> v]
Plain(w) == [opt |-> "word", val |-> w]
Positional(t) == t.opt = "word"
Separator == Flag("--")

RegistryManager == {"npm", "pnpm", "yarn", "bun", "pip", "uv"}
\* packageManagerPolicy: brew stands for the managers with no safe command.
Manager == RegistryManager \cup {"apt", "winget", "brew"}
Npm == {"npm", "pnpm"}
Scoped == "--@s:registry"

\* An https URL has no other origin than itself; "http" is not one.
Https(w) == w \in Word /\ UrlOf[w] \notin {NoValue, "http"}

----------------------------------------------------------------------------
(* Options whose separate value is not the command. Three lists: the one    *)
(* scripts are judged by, the one the registry is, and the executor's. An   *)
(* option is lowered before it is looked up, so -C is never found.          *)

ScriptValues(m) ==
  CASE m \in Npm -> {"--prefix", "--registry", "--userconfig", Scoped}
    [] m = "bun" -> {"--cwd", "--config", "--registry", Scoped}
    [] m = "pip" -> {"-r", "-c", "-i", "-f", "--index-url", "--proxy", "--isolated", Scoped}
    [] m = "uv" -> {"-f", "--default-index", "--index-url", "--index", "--config-file", Scoped}
    [] m = "apt" -> {"-o", Scoped}
    [] OTHER -> {"--disable-interactivity", Scoped}

RegistryValues(m) ==
  CASE m = "pip" -> ScriptValues(m) \cup {"--only-binary", "--no-binary"}
    [] m \in {"bun", "uv"} -> ScriptValues(m)
    [] OTHER -> ScriptValues("npm")

LaunchValues(m) ==
  CASE m = "pip" -> ScriptValues(m) \ {"--isolated", Scoped}
    [] m \in {"bun", "uv"} -> ScriptValues(m) \ {Scoped}
    [] OTHER -> ScriptValues("npm") \ {Scoped}

\* The positions that are the separate value of the option before them.
Consumed(args, opts) ==
  LET f[i \in 0..Len(args)] ==
        /\ i > 1 /\ ~f[i - 1]
        /\ args[i - 1].opt \in opts /\ args[i - 1].val = NoValue
  IN  {i \in 1..Len(args) : f[i]}

\* firstCommandIndex, or 0
CommandAt(args, opts) ==
  LET at == {i \in 1..Len(args) : Positional(args[i])} \ Consumed(args, opts)
  IN  IF at = {} THEN 0 ELSE CHOOSE i \in at : \A j \in at : i <= j

WordAt(args, i) ==
  IF i \in 1..Len(args) /\ Positional(args[i]) THEN args[i].val ELSE NoValue
Command(args, opts) == WordAt(args, CommandAt(args, opts))

Has(args, t) == \E i \in 1..Len(args) : args[i] = t
Enabled(args, o) == \E i \in 1..Len(args) : args[i].opt = o /\ args[i].val \in {NoValue, "true"}
Disabled(args, o) == \E i \in 1..Len(args) : args[i].opt = o /\ args[i].val \notin {NoValue, "true"}
\* hasSeparateOptionValue: whatever follows the option is taken for its value.
Separate(args, o) == \E i \in 1..(Len(args) - 1) : args[i] = Flag(o)
ValueAt(args, i) == IF args[i].val # NoValue THEN args[i].val ELSE WordAt(args, i + 1)
OnlyBinary(args) ==
  \E i \in 1..Len(args) : args[i].opt = "--only-binary" /\ ValueAt(args, i) = ":all:"
\* hasNonCanonicalBinaryOption
OtherBinary(args) ==
  \E i \in 1..Len(args) :
    \/ args[i].opt = "--no-binary"
    \/ args[i].opt = "--only-binary" /\ ValueAt(args, i) # ":all:"

----------------------------------------------------------------------------
(* Scripts stay off. *)

NonExecuting(m) ==
  CASE m \in Npm -> {"list", "show"}
    [] m = "bun" -> {"help"}
    [] m = "pip" -> {"list", "show"}
    [] m = "apt" -> {"download"}
    [] m = "winget" -> {"list", "show", "download"}
    [] OTHER -> {"help"}
Installing(m) ==
  CASE m \in Npm -> {"install", "remove"}
    [] m = "bun" -> {"install", "remove"}
    [] m = "pip" -> {"install"}
    [] OTHER -> {}

\* npmDependencyArgumentIndexes: what follows a command that names packages.
Dependencies(m, args) ==
  LET c == CommandAt(args, ScriptValues(m))
  IN  IF m \notin Npm \/ WordAt(args, c) \notin {"install", "list"} THEN {}
      ELSE {i \in (c + 1)..Len(args) : Positional(args[i])}
             \ Consumed(args, ScriptValues(m) \cup {"-C"})

\* A specification that is ambiguous, or names a source rather than a registry.
Ambiguous(v) == v = "git@"
Source(v) == v \in {"git@", "git+"} \/ (v \in Word /\ UrlOf[v] # NoValue)
PipSource(v) == Source(v) \/ v \in {"./in", "/out"}
SourceDependency(m, args) ==
  LET words == {i \in 1..Len(args) : Positional(args[i])} \ Consumed(args, LaunchValues(m))
  IN  CASE m \in Npm -> \E i \in Dependencies(m, args) : Ambiguous(args[i].val)
        [] m = "pip" -> \E i \in words : PipSource(args[i].val)
        [] m = "uv" -> \E i \in words : Source(args[i].val)
        [] OTHER -> \E i \in 1..Len(args) : Source(args[i].val)

Ensure(args, o) == IF Enabled(args, o) THEN args ELSE Append(args, Flag(o))
EnsureBinary(args) == IF OnlyBinary(args) THEN args ELSE Append(args, With("--only-binary", ":all:"))

\* Faulty variant: an option that turns scripts on again is not looked for.
NpmPolicyUnchecked(m, args) ==
  LET c == Command(args, ScriptValues(m))
  IN  CASE c \in NonExecuting(m) -> args
        [] c \in Installing(m) -> Ensure(args, "--ignore-scripts")
        [] OTHER -> Denied

NpmPolicy(m, args) ==
  LET c == Command(args, ScriptValues(m))
      hooks == m = "pnpm" /\ (Disabled(args, "--ignore-pnpmfile") \/ Has(args, Flag("--use-pnpmfile")))
      scripts == \/ Disabled(args, "--ignore-scripts") \/ Separate(args, "--ignore-scripts")
                 \/ Has(args, Flag("--no-ignore-scripts"))
      quiet(a) == IF m = "pnpm" THEN Ensure(a, "--ignore-pnpmfile") ELSE a
  IN  CASE c \in NonExecuting(m) /\ ~hooks -> quiet(args)
        [] c \in Installing(m) /\ ~hooks /\ ~scripts -> quiet(Ensure(args, "--ignore-scripts"))
        [] OTHER -> Denied

PipPolicy(args) ==
  LET c == Command(args, ScriptValues("pip"))
  IN  CASE c \in NonExecuting("pip") -> args
        [] c \in Installing("pip") /\ ~OtherBinary(args) -> Ensure(EnsureBinary(args), "--isolated")
        [] OTHER -> Denied

UvPolicy(args) ==
  LET at == CommandAt(args, ScriptValues("uv"))
      c == WordAt(args, at)
      sub == WordAt(args, at + 1)
  IN  CASE c \in NonExecuting("uv") -> args
        [] c = "pip" /\ sub \in {"list", "show"} -> args
        [] /\ c \in {"tool", "pip"} /\ sub = "install" /\ ~OtherBinary(args)
           /\ ~Disabled(args, "--no-config") /\ ~Separate(args, "--no-config") ->
             Ensure(EnsureBinary(args), "--no-config")
        [] OTHER -> Denied

BunPolicy(args) ==
  LET c == Command(args, ScriptValues("bun"))
  IN  CASE c \in NonExecuting("bun") -> args
        [] /\ c \in Installing("bun")
           /\ ~Disabled(args, "--ignore-scripts") /\ ~Separate(args, "--ignore-scripts") ->
             Ensure(args, "--ignore-scripts")
        [] OTHER -> Denied

\* apt and winget only look and download.
SystemPolicy(m, args) ==
  IF Command(args, ScriptValues(m)) \in NonExecuting(m) THEN args ELSE Denied

\* packageManagerPolicy: the arguments to run with, or Denied.
ScriptPolicy(m, args) ==
  IF m \notin Manager THEN args
  ELSE IF Has(args, Separator) \/ SourceDependency(m, args) THEN Denied
  ELSE CASE m \in Npm -> NpmPolicy(m, args)
         [] m = "bun" -> BunPolicy(args)
         [] m = "pip" -> PipPolicy(args)
         [] m = "uv" -> UvPolicy(args)
         [] m \in {"apt", "winget"} -> SystemPolicy(m, args)
         [] OTHER -> Denied

----------------------------------------------------------------------------
(* One reviewed registry. *)

\* registryOperation and, with the executor's list of options,
\* packageOperationRequiresRegistry.
RegistryOperation(m, args, values) ==
  LET at == CommandAt(args, values)
      c == WordAt(args, at)
  IN  /\ ~Has(args, Separator)
      /\ CASE m \in {"npm", "pnpm", "yarn"} -> c \in {"install", "list"}
           [] m = "bun" -> c = "install"
           [] m = "pip" -> c = "install"
           [] m = "uv" -> c \in {"tool", "pip"} /\ WordAt(args, at + 1) = "install"
           [] OTHER -> FALSE

IndexOptions(m) ==
  CASE m = "uv" -> {"--default-index", "--index-url", "-f", "--index"}
    [] m = "pip" -> {"-i", "--index-url", "-f", Scoped}
    [] OTHER -> {"--registry", Scoped}

\* registryOptions: any argument after the option is its value, an option too.
RegistryOptions(m, args) ==
  {i \in 1..Len(args) : args[i].opt \in IndexOptions(m)} \ Consumed(args, IndexOptions(m))
OptionUrl(args, i) == ValueAt(args, i)

UntrustedConfig(m) ==
  CASE m \in Npm -> {"--userconfig"}
    [] m = "bun" -> {"--config"}
    [] m = "uv" -> {"--config-file"}
    [] m = "pip" -> {"--proxy"}
    [] OTHER -> {}
\* isUvFindLinksOption and the indexes uv adds to the default one
UvExtraIndex == {"-f", "--index"}
UvInsecureHost == "--trusted-host"
\* hasUvRequirementFileOption: -r is a requirement file of `uv pip` only.
UvRequirements(args, values) ==
  \E i \in 1..Len(args) :
    \/ args[i].opt = "-c"
    \/ args[i].opt = "-r" /\ Command(args, values) = "pip"

Origins(urls) == {UrlOf[u] : u \in {v \in urls : Https(v)}}
\* canonicalAllowedRegistry: the one URL the reviewed action, else the task,
\* else the harness names among the origins both allow.
AllowedRegistry(task, harness, action) ==
  LET shared == Origins(task) \cap Origins(harness)
      within(urls) == {u \in urls : Https(u) /\ UrlOf[u] \in shared}
      candidates == IF within(action) # {} THEN within(action)
                    ELSE IF within(task) # {} THEN within(task) ELSE within(harness)
  IN  IF Cardinality(candidates) = 1 THEN CHOOSE u \in candidates : TRUE ELSE NoValue

\* Faulty variant: uv is given an index beside its default one.
RegistryOptionBeside(m, args, registry) ==
  With(IF m = "uv" THEN "--index" ELSE IF m = "pip" THEN "--index-url" ELSE "--registry", registry)
RegistryOption(m, args, registry) ==
  LET first == {i \in 1..Len(args) : /\ args[i] \in {Plain("tool"), Plain("pip")}
                                     /\ \A j \in 1..(i - 1) : args[j] # Plain("tool")}
      option == CASE m = "uv" -> IF \E i \in first : args[i] = Plain("pip")
                                  THEN "--index-url" ELSE "--default-index"
                  [] m = "pip" -> "--index-url"
                  [] OTHER -> "--registry"
  IN  With(option, registry)

\* Faulty variant: explicit options go, and the reviewed registry is appended
\* only where there was none.
RegistryArgumentsOnce(m, args, registry) ==
  LET options == RegistryOptions(m, args)
      gone == options \cup {i + 1 : i \in {j \in options : args[j].val = NoValue}}
      f[i \in 0..Len(args)] ==
        IF i = 0 THEN <<>> ELSE IF i \in gone THEN f[i - 1] ELSE Append(f[i - 1], args[i])
  IN  IF options = {} THEN Append(args, RegistryOption(m, args, registry)) ELSE f[Len(args)]
\* registryArguments: explicit options go, with the argument after a bare one,
\* and the reviewed registry is appended (once more for the scopes of npm).
RegistryArguments(m, args, registry) ==
  LET options == RegistryOptions(m, args)
      gone == options \cup {i + 1 : i \in {j \in options : args[j].val = NoValue}}
      f[i \in 0..Len(args)] ==
        IF i = 0 THEN <<>> ELSE IF i \in gone THEN f[i - 1] ELSE Append(f[i - 1], args[i])
      rest == f[Len(args)]
      scoped == \E i \in Dependencies(m, rest) : rest[i].val = "@s/left"
  IN  Append(rest, RegistryOption(m, rest, registry))
        \o (IF m \in Npm /\ scoped THEN <<With(Scoped, registry)>> ELSE <<>>)

\* authorizeRegistryInvocation
AuthorizeRegistry(m, args, task, harness, action) ==
  LET registry == AllowedRegistry(task, harness, action)
      has(opts) == \E i \in 1..Len(args) : args[i].opt \in opts
      agrees(i) == LET v == OptionUrl(args, i) IN Https(v) /\ UrlOf[v] = UrlOf[registry]
      untrusted == \/ has(UntrustedConfig(m)) \/ (m = "uv" /\ has(UvExtraIndex))
                   \/ registry = NoValue
                   \/ \E i \in RegistryOptions(m, args) : ~agrees(i)
  IN  IF m = "uv" /\ (UvRequirements(args, ScriptValues(m)) \/ has({UvInsecureHost})) THEN Denied
      ELSE IF ~RegistryOperation(m, args, RegistryValues(m)) THEN args
      ELSE IF untrusted THEN Denied ELSE RegistryArguments(m, args, registry)

\* registryOriginForInvocation: what the executor is told to insist on.
InvocationRegistry(m, args) ==
  LET options == RegistryOptions(m, args)
      first == CHOOSE i \in options : \A j \in options : i <= j
  IN  IF ~RegistryOperation(m, args, RegistryValues(m)) \/ options = {} THEN NoValue
      ELSE IF Https(OptionUrl(args, first)) THEN OptionUrl(args, first) ELSE NoValue

----------------------------------------------------------------------------
(* Requirement files. A line of one includes a file, names an index, is an  *)
(* allowed option or a package, or is anything else.                        *)

\* pipRequirementOption
Includes(args) ==
  {i \in 1..Len(args) : args[i].opt \in {"-r", "-c"}} \ Consumed(args, {"-r", "-c"})
\* The rewritten argument names the file by its absolute path.
Absolute(w) == IF w = "req" THEN "/req" ELSE w
NormalizedArguments(args) ==
  LET at == Includes(args)
      bare == {i + 1 : i \in {j \in at : args[j].val = NoValue}}
  IN  [i \in 1..Len(args) |-> IF (i \in at /\ args[i].val # NoValue) \/ i \in bare
                              THEN [args[i] EXCEPT !.val = Absolute(@)] ELSE args[i]]

\* visit: the files read, in order, or Denied. A file is read only inside the
\* bounds, never from within itself, and its lines are all understood.
Visit(files, roots, origins) ==
  LET v[above \in SUBSET DOMAIN files, f \in DOMAIN files] ==
        IF f \in above \/ Cardinality(above) > MaxDepth \/ PathOf[f] \notin roots THEN <<Denied>>
        ELSE LET lines == files[f]
                 r[i \in 0..Len(lines)] ==
                   IF i = 0 THEN <<f>>
                   ELSE CASE lines[i].kind = "package" -> r[i - 1]
                          [] lines[i].kind = "index" ->
                               IF Https(lines[i].value) /\ UrlOf[lines[i].value] \in origins
                               THEN r[i - 1] ELSE Append(r[i - 1], Denied)
                          [] lines[i].kind = "include" /\ lines[i].value \in DOMAIN files ->
                               r[i - 1] \o v[above \cup {f}, lines[i].value]
                          [] OTHER -> Append(r[i - 1], Denied)
             IN  r[Len(lines)]
  IN  [f \in DOMAIN files |-> v[{}, f]]

\* validatePipRequirementInputs: the rewritten arguments and the files, each
\* with what was read of it.
PipInputs(m, args, files, roots, origins) ==
  LET rewritten == NormalizedArguments(args)
      at == Includes(args)
      f[i \in 0..Len(args)] ==
        IF i = 0 THEN <<>> ELSE IF i \notin at THEN f[i - 1]
        ELSE LET w == ValueAt(rewritten, i)
             IN  f[i - 1] \o (IF w \in DOMAIN files
                              THEN Visit(files, roots, origins)[w] ELSE <<Denied>>)
      read == f[Len(args)]
  IN  IF m # "pip" THEN [args |-> args, files |-> <<>>]
      ELSE IF (\E i \in 1..Len(read) : read[i] = Denied) \/ Len(read) \notin 0..MaxFiles
      THEN Denied
      ELSE [args |-> rewritten,
            files |-> [i \in 1..Len(read) |-> [file |-> read[i], lines |-> files[read[i]]]]]

----------------------------------------------------------------------------
(* Paths and origins an argument names. *)

\* argumentPath: a dependency of npm names no path unless it is local.
ArgumentRoot(m, args, i) ==
  LET v == args[i].val
  IN  IF v \notin Word THEN NoValue
      ELSE IF i \in Dependencies(m, args) THEN (IF v \in {"./in", "/out"} THEN PathOf[v] ELSE NoValue)
      ELSE PathOf[v]
\* argumentOrigins
ArgumentOrigin(m, args, i) ==
  LET v == args[i].val
  IN  IF v \in Word THEN (IF v = "git+" THEN (IF i \in Dependencies(m, args) THEN "github" ELSE NoValue)
                          ELSE UrlOf[v])
      ELSE NoValue

----------------------------------------------------------------------------
(* The executor, just before it spawns. *)

\* packageOperationRequiresRegistry and hasUvRequirementFileOption of the
\* executor: the same questions under a list of options of its own.
LaunchOperation(m, args) == m \in RegistryManager /\ RegistryOperation(m, args, LaunchValues(m))
LaunchRequirements(args) == UvRequirements(args, LaunchValues("uv"))

\* packageRegistryInvocationIsSafe
RegistrySafe(m, args, registry) ==
  LET index == IF m = "uv" THEN {"--default-index", "--index-url", "-f", "--index"}
               ELSE IF m = "pip" THEN {"-i", "--index-url", "-f"} ELSE {}
      quiet == IF m = "uv" THEN {"--no-config"} ELSE IF m = "pip" THEN {"--isolated"} ELSE {}
      at == {i \in 1..Len(args) : args[i].opt \in index} \ Consumed(args, index)
  IN  /\ registry # NoValue /\ ~Has(args, Separator)
      /\ \A i \in 1..Len(args) :
           /\ args[i].opt \notin (IF m \in {"uv", "pip"} THEN UntrustedConfig(m) ELSE {})
           /\ m = "uv" => args[i].opt \notin UvExtraIndex \cup {UvInsecureHost}
           /\ args[i].opt \in quiet => args[i].val \in {NoValue, "true"}
      /\ m = "uv" => ~LaunchRequirements(args)
      /\ \A i \in at : Https(ValueAt(args, i)) /\ UrlOf[ValueAt(args, i)] = UrlOf[registry]

\* executeControlledProcess, before the process exists. `files` are the
\* requirement files the resolution authorized.
Launchable(m, args, registry, files) ==
  LET named == \E i \in 1..Len(args) : args[i].opt \in {"-r", "-c"}
  IN  /\ m \in RegistryManager => ~Has(args, Separator)
      /\ m = "uv" => ~LaunchRequirements(args) /\ \A i \in 1..Len(args) : args[i].opt # UvInsecureHost
      /\ m = "pip" /\ named => files # <<>>
      /\ LaunchOperation(m, args) => RegistrySafe(m, args, registry)

----------------------------------------------------------------------------
(* The environment of a launched package manager: variables that could name *)
(* another registry or configuration go, whoever set them, and the ones the *)
(* executor sets take their place. An environment is a set of variables     *)
(* [name, value]; of the protected ones two are kept.                       *)

Protected == {"registry", "config"}   \* protectedPackageEnvironment
\* packageManagerConfigurationEnvironment
Configuration(m) == IF m \in RegistryManager THEN {[name |-> "config", value |-> "empty"]} ELSE {}
\* sanitizedPackageManagerEnvironment
Sanitized(m, entries, registry) ==
  IF m \notin RegistryManager THEN entries
  ELSE {e \in entries : e.name \notin Protected} \cup Configuration(m)
         \cup (IF registry = NoValue THEN {} ELSE {[name |-> "registry", value |-> registry]})
\* controlledEnvironment: an entry replaces what is inherited under its name.
Controlled(entries, unset, inherited) ==
  {e \in inherited : e.name \notin unset \cup {x.name : x \in entries}} \cup entries
LaunchEnvironment(m, entries, inherited, registry) ==
  Controlled(Sanitized(m, entries, registry),
             {e.name : e \in {x \in entries : x.name \in Protected}}
               \cup (IF m \in RegistryManager THEN Protected ELSE {}), inherited)
=============================================================================
