----------------------------- MODULE ToolRecipes -----------------------------
(***************************************************************************)
(* Install recipes, judged three times: by validation when a revision is   *)
(* published, by the planner, and by the executor just before it runs the  *)
(* package manager.                                                        *)
(***************************************************************************)
EXTENDS Integers

CONSTANT None

NpmFamily == {"npm", "pnpm", "bun"}
\* AutomaticRecipeMethod; homebrew is brew under another name.
Automatic == NpmFamily \cup {"brew", "apt", "winget", "uv", "cargo"}

\* What stands in the package position: a name, a remote specification
\* (https://..., git+...), or something that reads as an option.
Package == {"name", "remote", "option"}
\* The reviewed source: an evidence locator, a mutable Git reference, the
\* canonical registry tarball of the exact version, another https URL.
RecipeSource == {"locator", "git", "tarball", "https"}

Recipe ==
  {r \in [method: Automatic \cup {"source"}, package: Package,
          version: {None, "exact", "bad"}, source: RecipeSource \cup {None},
          integrity: BOOLEAN, index: BOOLEAN, hooks: {"disabled", "required"}] :
     r.source = None => ~r.integrity}

\* isSafePackageArgument looks for blanks, shell characters and a leading sign.
SafeArgument(package) == package # "option"

Remote(r) == r.source \in {"tarball", "https"}

\* npmVersionFromTarballSource
TarballVersion(r) == IF r.source = "tarball" /\ r.package = "name" THEN "exact" ELSE None
SourceVersion(r) ==
  IF r.method \in NpmFamily /\ r.version = None THEN TarballVersion(r) ELSE r.version

\* recipeSourceValidationError
SourceValid(r) ==
  /\ r.source # "git"
  /\ r.source = "locator" => ~(r.method \in NpmFamily /\ r.integrity)
  /\ r.source = "https" => r.method = "source"
  /\ r.source = "tarball" =>
       \/ r.method = "source"
       \/ r.method \in NpmFamily /\ SourceVersion(r) = "exact" /\ r.package = "name"

\* recipeValidationError
ValidRecipe(r) ==
  /\ r.method \in NpmFamily => r.package = "name"
  /\ r.method = "source" => r.version # None
  /\ r.method # "source" => SafeArgument(r.package)
  /\ r.index => r.method = "uv"
  /\ r.method \in NpmFamily /\ r.version = None => SourceVersion(r) # None /\ r.integrity
  /\ SourceValid(r)
  /\ SourceVersion(r) # "bad"

\* isMissingAutomaticRecipeVersion
MissingVersion(r) ==
  /\ r.method \in Automatic /\ r.version = None /\ SafeArgument(r.package)
  /\ IF r.method \in NpmFamily
     THEN /\ r.package = "name"
          /\ ~(Remote(r) /\ r.integrity)
          /\ ~(TarballVersion(r) # None /\ r.integrity)
     ELSE ~Remote(r)

\* Faulty variant: Cargo is taken to have a disable-scripts mode.
CargoTrusted(r) ==
  \/ MissingVersion(r) \/ r.method = "source" \/ r.hooks = "required"
  \/ r.method = "bun" /\ Remote(r)
  \/ r.method \in NpmFamily /\ Remote(r) /\ ~r.integrity

\* planEnsure: what is left to a person.
NeedsPerson(r) ==
  \/ MissingVersion(r)
  \/ r.method = "source"
  \/ r.method = "cargo" /\ r.hooks = "disabled"
  \/ r.method = "bun" /\ Remote(r)
  \/ r.method \in NpmFamily /\ Remote(r) /\ ~r.integrity
  \/ r.hooks = "required"

\* isUnboundedNonNpmPackage, parseNpmPackageSpecification: the executor takes a
\* plain package name and nothing else.
AmbiguousPackage(r) == r.package # "name"

\* installInvocation: what is refused before any process is started.
Refused(r) ==
  \/ r.method \notin Automatic
  \/ r.hooks = "required"
  \/ r.method = "cargo" /\ r.hooks = "disabled"
  \/ AmbiguousPackage(r)
  \/ ~ValidRecipe(r) \/ MissingVersion(r)
  \/ r.method \in NpmFamily /\ Remote(r) /\ (r.method = "bun" \/ ~r.integrity)
=============================================================================
