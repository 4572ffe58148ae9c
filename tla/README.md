# A TLA+ verification of Canonfig

Canonfig publishes a machine's configuration as an immutable Profile Revision
and synchronizes it, one way, to follower machines. This directory holds TLA+
models of the parts whose correctness depends on crashes, interrupts, lost
answers and overlapping invocations, the TLC configurations that check them, and TLAPS
proofs. `PROJECT.json` maps every definition to source lines and lists runs,
mutants, findings, hazards and theorems.

## 1. Inventory

| Part | State | Operations | Hard behaviour | What makes it correct |
|---|---|---|---|---|
| Apply and recovery (`src/synchronization/executor.ts`, `recovery.ts`, `resource-executors.ts`, `synchronization.layer.ts`) | managed files, rollback snapshots, the loop state of one invocation | run a plan, verify, roll back, recover, clean up | crash or SIGINT between any two steps; errors inside error handlers; a recovery beside a live run | preimages stay reachable, Converged is true, Failed is undone, every open run can be closed |
| State repository (`src/state`) | runs, action journal, ownership records, drift records; followers, invitations, revisions, configuration | startRun, journalAction, recordDrift, completeRun, loadRecovery; enrollment transactions; publishRevision, configuration | several processes on one SQLite database | one open run, final outcomes, guarded ownership, one number per revision |
| Planner (`planner.ts`, `resource-plans.ts`) | none | policy of each resource, recipes, withdrawn resources, dependency order | a record that describes another revision than the file does | local modifications are never overwritten; a converged follower has nothing to do |
| Follower orchestration (`follower-orchestration.ts`) | none of its own | sync, recover, abandon | values read in one transaction and written in another | the newest authorized view is applied, the user's decisions stay |
| Enrollment and transport (`src/enrollment`, `follower enroll` in `src/runtime/layers.ts`) | invitations, pending enrollments, followers, two credential stores; follower configuration; the index of authorized blobs, the follower's blob cache | invite, prepare, finalize, cancel, revoke, set groups; list, describe and fetch | a lost answer, a retry beside the handler it gave up on, a race for one invitation, a database reopened beside the server; groups that change between two requests | an invitation admits one follower; an active identity can be used by somebody; a retry gets through; a follower reads what its groups allow, all of it and nothing else |
| Publication (`src/profile/publication.ts`) | revisions | propose, review, publish | two publications at once | one latest revision, nothing unreviewed |
| Agent resolution (`src/agent`) | one task | bound, ask a harness, authorize, execute, observe | PATH and requirement files that change meanwhile; timers, cancels and output limits that race with an exit | nothing outside the task's bounds runs; applied means verified; it ends |
| Scheduling (`src/schedule`, the systemd backend of `src/machine/linux.layer.ts`) | unit files, what the manager loaded, enabled and active; the decision and the default in the configuration | set, remove, reconcile, snapshot, restore | one of six calls fails; a sync that finishes with what it read before | the job agrees with the decision; a restore is exact |
| Secrets (`src/secrets`) | a manifest file and a credential store on each machine | set, remove, serve, fetch, apply, clear | a crash between the two stores; retries of removals | every listed name resolves, nothing leaks, received secrets are not passed on, the follower mirrors the source |
| Machine adapters (`src/machine`) | filesystem, credential stores, schedulers | atomic write, bounded process, store, schedule | partial writes, output limits, timeouts | a reader sees the old or the new file |
| Discovery, domain, CLI, harness configuration, logging, runtime, docs | – | – | mostly pure conversion or I/O | – |

The parts meet as follows. The CLI (`sync --apply`, `recover`, `recover
--abandon`) calls follower orchestration, which fetches a revision through the
transport, plans, and hands the plan to `Synchronization.run`. That service
writes every step to the state repository, mutates files through the machine
adapter and gives bounded tasks to agent resolution. A converged sync then
reconciles the native job with the profile's default, and a successful `sync
--apply` is followed by a synchronization of the shared secrets. Nothing but the
repository's transactions keeps two invocations apart: there is no process lock.

## 2. Modules

| Module | Models |
|---|---|
| `RunJournal` | the event log of one planned action and the questions recovery asks of it (`validateJournal`, `latestRollbackReference`, `removedResources`) |
| `SyncRun` | the apply engine: any number of invocations, the run tables, the files and the snapshots |
| `RunLedger` | the abstract specification of the run tables |
| `Enrollment` | `canonfig follower enroll` on any number of machines, the source server's handlers, the enrollment tables, both credential stores, the source operator's commands |
| `Membership` | the abstract specification of the enrollment tables |
| `ToolRecipes` | install recipes as validation, planner and executor judge them |
| `ResourcePlans` | the drafts of one resource under every Apply Policy (operators only) |
| `Follower` | a follower over many synchronizations: revisions, user edits, plans, and what executing them leaves; extends `ResourcePlans` |
| `PackageArguments` | the arguments of package managers: script policy, registry, requirement files, the executor's checks, the environment (operators only) |
| `AgentBounds` | what AgentResolution authorizes: executables through PATH, capabilities, paths, origins; extends `PackageArguments` |
| `AgentArguments` | one package operation of any arguments, what is authorized of it and what the executor makes of that; extends `AgentBounds` |
| `AgentResolution` | the tasks of a plan, harness, actions and observer as processes; extends `AgentBounds` |
| `ProfileRevisions` | publication and authorization as functions of data |
| `Distribution` | operators, server and followers' sessions: publish, list, describe, fetch, apply; extends `ProfileRevisions` |
| `SharedSecrets` | two machines with a manifest and a credential store each, their CLI, server and sync |
| `Schedule` | the native job, the configuration's decision, commands and syncs |
| `SyncRunProofs`, `RecoveryProofs` | theorems and proofs about `SyncRun`: types, run tables and the invariant of an invocation; what recovery guarantees |
| `EnrollmentProofs`, `FollowerProofs`, `AgentProofs`, `DistributionProofs`, `SecretsProofs`, `ScheduleProofs` | theorems and proofs about `Enrollment`, `Follower`, `AgentResolution`, `Distribution`, `SharedSecrets`, `Schedule` |
| `MC...` | plans, inputs and symmetry for TLC |

How they compose: `SyncRun` is one run in every detail, with the plan given;
`Follower` takes runs as their actions in order and asks what planning makes of
the state earlier runs left; `AgentResolution` is what `SyncRun`'s agent actions
(`AgentResolve`) stand for; `Distribution` delivers the views that `Follower`
draws from its families; `Schedule` and `SharedSecrets` are what a converged
sync goes on to.

### SyncRun: state

* Database: `cur`, `status`, `plan`, `journal`, `applied`, `drifts` are the rows
  of `synchronization_runs`, `action_journal`, `applied_resources` and
  `drift_records` of one follower. Each repository operation is one step,
  because each is one SQLite transaction.
* Filesystem: `file[a]` is the managed target of action `a`; `snap[r][a]` the
  rollback snapshot of run `r`, whose name is derived from run and action.
* `proc[p]` is everything one invocation holds in memory: its place, the plan,
  the ownership records it loaded (`inp`), the journal it loaded (`seen`), the
  stack of inverses (`done`), the flags of the outcome, and the actions whose
  inverse failed (`keep`). A crash resets it; the rest stays.
* `base`, `edited`, `kept` are history variables used by the properties only.

A content is one of `absent`, `old` (what an earlier revision wrote), `new`
(desired), `local` (the user's), `mixed` (desired text with local additions,
append-local only) and `partial` (a directory or an installation half done).

### SyncRun: actions

| Code | Actions |
|---|---|
| `synchronizeFollower` up to `run` | `Plan` (observation and ownership read now) |
| `startRun` | `StartRun`, `StartRefused` |
| `executeSynchronizationPlan` | `RunNext`, `Cascade`, `CascadeJournal`, `CascadeEnd`, `Skip`, `Outcome` |
| `executeSynchronizationAction` | `Prepare`, `JournalRunning`, `Execute`, `Verify`, `JournalSucceeded`, and their failures; `UndoVerify`, `JournalFailVerify` inside the effect, `Undo`, `JournalFail` in its error handler; `Human`, `RecordDrift`, `DriftSkip` |
| `agentActionResult` | `Agent`, `AgentResolve`, `AgentVerify`, `AgentSucceed`, `AgentFail`, `AgentSkip`, `AgentError` |
| `completeRun`, `cleanupRollbackSnapshots` | `Complete`, `CompleteFails`, `Cleanup` |
| `recoverSynchronizationPlan` | `RecoverStart`, `RecoverNext`, `Restore`, `Reverify`, `Installer`, `OwnBack`, `RecoverLoopEnd` |
| `abandonFollowerRun` | `AbandonStart`, `Abandon` |
| `onInterrupt` handlers | `Interrupt`, `InterruptUndo`, `InterruptFail`, `InterruptComplete` |
| environment | `Crash`, `Edit`, and a bounded number of filesystem and database errors |

Decisions worth knowing:

* `write-config` and `ensure` of a file behave as `write`, `no-op` as `verify`.
  Tools and credentials have no digest, hence no ownership record.
* `atomicWrite` runs uninterruptibly (`linux.layer.ts:437`, `file-content.ts:24`),
  so a write is old or new. `removeFile` does not: an interrupted unlink may land
  after the handler restored the file (`intUnlink`).
* A mirror or an installer may stop half way (`partial`); restoring a content
  over itself cannot tear it.
* What `verifyResource` says of a target without the desired content depends on
  the method: a missing file is an error for a digest, and so is a declared file
  that a directory lacks, while a missing root and another digest are failed
  evidence. Where both are possible `Verification` has both.
* A journal transaction and its return are one step. An interrupt that lands
  between commit and return is not modelled (listed as a hazard).
* The check and the write of append-local are one step; the documentation does
  not claim a lock against editors. What it writes is composed from what the
  snapshot holds (`Desired(k, c)`): over the desired text with additions of the
  user it writes the same again, and it refuses a target that is no longer what
  the snapshot holds (`Stale`). A rollback accepts the preimage and what the
  mutation makes of it (`Overwritable`).
* Recovery fetches the revision again before it starts; a failure there changes
  nothing and is not modelled.

### RunLedger

`Start`, `Own`, `Close(o)` and `Interrupt` say what the run tables promise
whatever the invocations do: one open run, ownership changes only under it, one
final outcome. `SyncRun` instantiates it as `Ledger` with the identity on `cur`,
`status` and `applied`.

### Enrollment: state

* Source: `invite`, `pend` and `fol` are `enrollment_invitations`,
  `pending_enrollments` and `followers` joined with `follower_credentials`;
  `vault` is the source's credential store; `req` the handlers of the HTTPS
  server, each with its place and local values; `console` the operator's command.
* Each machine: `conf` (`follower_sync_configuration`), `slot` (its credential
  store; one entry per identity, since the entry's name is derived from it) and
  `cmd`, the `follower enroll` command with what it holds in memory.
* `spent` counts mishaps, `activated` is a history variable.

Groups, endpoints, fingerprints and nonces are left out: they are fixed by the
invitation, and a mismatch is one more refusal before anything is written. The
follower's id is derived from its name, so the name stands for it.

### Enrollment: actions

| Code | Actions |
|---|---|
| `makeRepository` (every source command) | `OpenRepository`: deletes all pending rows |
| `createInvitation`, `revokeFollower`, any other command | `Issue`, `Revoke`, `EndCommand` |
| `Enrollment.enrollFollower` | `Find`, `Identity`, `StoreCredential`, `ListPending`, `CancelStale`, `DropStale`, `Consume`, `DropOwn`, `DropPrevious` |
| `Enrollment.finalizeFollower` | `FinalizeRead`, `FinalizeActive`, `FinalizeEnrollment` |
| `Enrollment.cancelPendingEnrollment` | `CancelPending` |
| `follower enroll` | `Enroll`, `Resume`, `Resumed`, `Prepare`, `Prepared`, `StoreLocal`, `SavePending`, `Finalize`, `Finalized`, `SaveEnrolled`, `Cancel`, `Cancelled` |
| failures | `Expire`, `RequestFails`, `Reject`, `SaveFails`, `Unreached`, `Lose`, `Crash`, `Restart` |

Decisions worth knowing:

* A repository operation or an access to a credential store is one step; a
  handler may be overtaken between any two of them. The server does not cancel a
  handler whose client is gone, so `Lose` and `Crash` leave it running.
* An answer is `ok`, `invalid` (InvalidFollowerCredentialError, the only error
  `follower enroll` tells apart) or `refused` (every other error).
* A machine runs one `follower enroll` at a time.
* Credential numbers may be reused once they occur nowhere, but never after they
  were active; a handler that finds none left is refused (`Fresh`).
* A source that dies is started again at once: `Restart` is both.
* `Replace` and `Ahead` say whether the operators use `--replace` and issue
  invitations while another is open.

### Membership

`Issue`, `Expire`, `Admit` and `Revoke` say what the tables promise: an
admission needs an open invitation and spends it in the same step, displaces no
active identity and uses a credential that never was active. `Enrollment`
instantiates it with the identity on `invite`, `fol` and `activated`.

### ResourcePlans and Follower

A target's content is a function from places to values: the paths of a tree, the
keys of a config, the text inside and outside the Source markers. Drafts
(`PlanReplace`, `PlanMirror`, `PlanMerge`, `PlanAppendLocal`, `PlanEnsure`,
`PlanRemoved`, ... , one per policy) compare desired state, observation and record. `Follower` publishes
views of one family (a kind of resource at a time, since resources of different
kinds share nothing but their targets), lets the user edit targets and claim
config keys between runs, plans (`Sync`, `Refuse`) and executes (`Act`,
`Finish`, `RollBack`). A digest is injective, hence the content itself.
Targets are the same or apart; overlapping paths are refused by validation.

`left` is a history variable: the declared content a run last left at each
place. A place is released when the user changes or claims it, when it is one
its resource no longer looks at (`GivenUp`), and when its resource moves to
another target (`LeftBy`); both are behaviours of the code (section 3).

Assumed of the views (`ViewsAreSane`): they decode (`WellFormed`), a resource
keeps its class of kinds (a file does not become a config under the same id,
since the contents of different kinds are not compared here), resources that use
one target are of one class, and two resources use one target only if neither of
them ever moves. Of what a user makes of a target (`EditsAreStates`): what is
absent or cannot be read has no content, and at the target of a text stands a
text.

| Code | Definitions |
|---|---|
| `planner.ts`, `resource-plans.ts` | `PlanResource`, `PlanRemoved`, `Plannable`, `Orders` |
| `recipe-versions.ts`, `resource.ts`, `installInvocation` | `ValidRecipe`, `NeedsPerson`, `Refused` |
| `observeResource`, `hydrateRevision` | `Observe`, `Hydrated` |
| `prepareWrite`, `prepareAppendLocal`, `prepareConfig`, `prepareMirror`, `prepareRemoval` | `WriteFile`, `WriteConfig`, `MirrorDirectory`, `RemoveResource` |
| `verifyResource` | `Verified` |

### PackageArguments, AgentBounds, AgentArguments and AgentResolution

An argument is an option, alone or with an inline value, or a word. Of each list
in the code (options, commands, executables) the members that the lists tell
apart are kept; the six places that decide which argument is an option's value
each keep their own list, because they differ. Words are tokens with the path
root and the origin they name. One authorization is a single step: it reads each
file once. Files of PATH never change their content; links to them do. The
executor compares requirement files one at a time (`CheckFile`) and may be
overtaken between two of them.

`AgentArguments` asks the question of the lists alone: an agent proposes any list
of arguments (`Propose`), and `Authorized` is what `AuthorizeAction` returns.
Its properties except three layouts, each by a predicate on the list: a bare
`--@scope:registry` (`BareScope`), a registry option that stands as the value of
another option (`RegistryAsValue`), and `--isolated` of pip before the command
or with a value (`PipIsolated`). In these the code's lists take different
arguments for the command, and the properties are false.

| Code | Definitions |
|---|---|
| `authorizePackageManagerInvocation`, `authorizeRegistryInvocation`, `validatePipRequirementInputs` | `ScriptPolicy`, `AuthorizeRegistry`, `PipInputs` |
| `authorizeExecutableBehavior`, `resolveAuthorizedAction`, `-Verification`, `-Proposal` | `Behavior`, `AuthorizeAction`, `AuthorizeVerification`, `AuthorizeProposal` |
| `derivedCapabilities` | `DerivedCapabilities`, `Structural`, `Systemctl` |
| `resolveAgentTasks`, `runResolution` | `WithoutAgent`, `StartTask`, `HarnessAnswers`, `StartInvocation`, `InvocationEnds` |
| `executeControlledProcess` | `Launchable`, `CheckFile`, `SpawnChecked`, `Write`, `Timer`, `Exit`, `Detach`, `Cancel` |

Redaction, the envelopes of the harnesses and the tokenizer of requirement lines
are left out; an answer that is no proposal is `Undecodable`.

### ProfileRevisions and Distribution

The id of a revision is the digest of its canonical bytes: a model value per
proposal stands for it, and `ContentIsIdentity` says that different ids are
different contents. Each action ends where the code awaits: a publication reads
the latest number and stores later; a request is authenticated together with the
read of its candidates and answered from the index or the table later. A cached
blob whose digest is wrong counts as absent. The cache of validated revisions is
a pure memo and left out; the index of authorized blobs is not, since it answers
for later requests. `Shared` names followers whose state lives in the source's
database; the views they store are candidates of the same query.

### SharedSecrets

A value stands for what a user typed in. A command is a chain of reads and
writes of manifest and credential store; several loads in a row are one step, and
refusals before the manifest is read change nothing and are left out. Two
commands of one machine that hold the manifest at once set `lapped`, which the
properties about files except. A reference is reused only when nobody mentions
it (`Unheard`). `Understands` and `Removable` are where the platforms differ.
Both machines keep their own store: a follower under the source's own OS user
would share its manifest, which is not modelled.

### Schedule

A job is a pair of unit contents. `upsert`, `remove` and `restore` are sequences
of calls (`InstallWork`, `RemoveWork`, `RestoreWork`), each an action that may
fail (`Breaks`) or be the last one of a killed process. The configuration is one
row that a command or a sync reads whole and writes back whole
(`SaveConfiguration`). A recovery records the default of the interrupted
revision, which may be any earlier one. Times and weekdays are model values;
`Unsupported` are those that validation or the platform refuses.

## 3. Runs

| Run | Instance | Shows |
|---|---|---|
| `faults` | 13 plans of all kinds; a crash and an error with a second crash, an interrupt or a refused transaction; for the plans with append-local also a user edit with two crashes, a crash and an error, or an error and an interrupt, and two edits with a crash | `TypeOK`, `MutationsAreRecoverable`, `JournalStaysValid`, `ConvergedMeansConverged`, `LocalAdditionsSurvive` |
| `undo` | file and outcome plans, and a created file behind which an agent works; a crash and an interrupt, 2 crashes, or a crash and 2 errors; fairness | `FailedRunIsUndone`, `NothingHalfDone`, `OnlyStrandedRunsStayOpen` |
| `overlap` | 2 invocations, 2 runs, interrupt, abandon | `OneOpenRun`, `LedgerSpec` |
| `enroll_faults` | one machine, 2 names, `--replace`, 2 invitations, 2 handlers, any 2 mishaps | `ActiveHasHolder`, `MembershipSpec`, `EnrolledIsConfirmed` |
| `enroll_completes` | 3 invitations issued one at a time, any 2 mishaps but expiry, fairness | `EnrollmentCompletes` |
| `follower` | 12 families (files, text, config, directories, skills, tools, recipes, a file that changes its policy, a file, text, config and tree that move), 3 revisions, 2 user changes | `ConvergedIsFixpoint`, `OwnedIsRecorded`, `RefusalsArePlanned`, `LocalEditsSurvive` |
| `agent` | chosen arguments of six managers as one action, then sequences and two tasks; one edit of PATH or of a file; a cancel; then every list of up to four of the 8 to 15 commands, operands and options of npm, pnpm, bun, pip and uv | the six properties of `AgentResolution`, the two of `AgentArguments` |
| `distribution` | 8 proposals (5 of them not publishable) of 2 profiles, 2 operators, one follower with 2 sessions, 2 troubles | `ViewsAreExact`, `ServedIsAuthorized`, `SequencesIdentify`, `ViewBlobsAreServed`, `AppliedIsFresh`, `EventuallyCurrent` |
| `secrets` | 2 names, 2 commands or changes, one trouble | the properties of `SharedSecrets` but `LocalIsUsers`, which is proved |
| `schedule` | 3 calendars, one refused; 3 edits, one trouble | `RestoreIsExact`, `UserDecides`, `InheritedIsInstalled` |
| `stuck`, `secrets_macos` | violations, below | `OpenRunsClose`, `EventuallyMirrors` |

`TypeOK` of every module held in its instance; only that of `SyncRun` is part of
a run. Deadlock is checked everywhere: in SyncRun `Rest` is the only state in
which the system may stay, with nothing open and no invocation alive; in
AgentResolution `Done` is; elsewhere something can always happen again (a next
sync, another attempt).

Bounds of SyncRun: two actions are the least that has an earlier and a later
action, which every cascade and every recovery decision needs; plans put each
kind in front of and behind a deterministic one. `Limits` is a set of mixes of
mishaps, each a bound on crashes, filesystem errors, database errors,
interrupts, user edits and abandons; the mixes of `faults` are the largest whose
runs all end in minutes. One run is enough for a property about one run, because
a new run cannot start beside an open one; `overlap` uses two runs and two
invocations. An edit writes the user's own text, adds to a managed one or takes
the additions back; the invariants of `faults` say nothing of targets a user
edited, except that append-local text survives. Users edit beside three plans
(`EditsBesideAppend`), which have no removal and no installer in front of the
append-local action: an edit may leave a run stuck (below), and recovery then
journals these again and again, without bound. `FailedRunIsUndone` is
about a record only where every success in the journal of its action names the
record the run found as the one it displaced (`Remembered`), and `undo` has no
refused transactions (both below).

Bounds of Enrollment: two handlers for one machine are a request and the
abandoned one before it. Two invitations are the least for a race between
invitations, and the liveness run has one more than mishaps, since each mishap
costs at most one.

Bounds of Follower: three revisions are the least for "left, given up, taken
back", between policies, targets, or sets of keys and paths, and two edits are
one before the first run and one after it. The many recipes get two revisions:
what is asked of them is decided in one plan. Two targets and two resources are
used only where a resource depends on another, takes its target, or moves.

Bounds of AgentResolution: two requirement files, the second included by the
first, are the least for an edit of an included file; an output limit of two is
the least that harness, action and observer can share unevenly. The lists
of AgentArguments are gone through in a state where nothing is left to resolve,
so that the two do not multiply (`MCNext`); four arguments are an option and its value in front of a command
and its operand, or two options that compete for one value.

Bounds of Distribution: a chain of three dependent resources, of which the group
hides the first, needs the transitive rule; an index of one entry makes every
second scope evict the first. Bounds of SharedSecrets: `MaxSecrets` is two, so a
budget is reached and never exceeded; two edits are a command and one change of
mind, in between, before or behind one trouble. Bounds of Schedule: three edits
are a decision, its revocation and a new default or a recovery.

Fairness. SyncRun (`FairSpec`): an invocation under way keeps taking steps
(nothing in it waits for another one), and the operator answers an open run with
`canonfig recover`. Enrollment: handlers and commands under way keep going (they
wait only for the database, the store, or an answer that a timeout bounds); the
operator of a machine that is no member repeats the command, strongly fair for
every open invitation, because an invitation may be closed and another opened
between two attempts; the source operator issues an invitation when none is
open. AgentResolution: the program goes on, a timer fires, a process that was
killed ends; that a process ends by itself, or that a detached child closes the
output it inherited, is not assumed. Distribution: the schedule starts
synchronizations again and again and one session of each follower always goes
on; an operator closes a run that stays interrupted. SharedSecrets: commands
under way go on, and applies, each followed by a sync of secrets, are repeated
unless the follower is revoked. Schedule: commands under way go on and the
follower is synchronized again and again. No fairness is assumed of errors,
crashes or users anywhere.

### Runs that end in a violation

Each is a finding in `PROJECT.json` with the text it contradicts.

* `stuck`: a crash after the inverse of a created file and before its journal
  event. Every recovery then fails with "cannot reverify". So it does for an
  agent's directory that is put back to a tree without a declared file. `Stranded`
  describes these states, and `undo` checks that without errors of the filesystem
  a run stays open in no other.
* `secrets_macos`: on macOS shared secrets are stored under `keychain-hex:`
  references, which only the CLI's layer can load; the source server cannot.

### Met while modelling, without a run of their own

Each was seen as a counterexample of the named property in the named instance,
and is a reason for an exception or for the choice of a run's plans.

* Recovery stops at the first failed action. A later action that a crash left
  running keeps its half-done mutation, and the cleanup that follows deletes its
  snapshot. It takes a removal in front: `NothingHalfDone` over `RemovalPlans`
  with a crash and two errors.
* An action executed again by recovery may journal the run's own new record as the
  one it displaced; a later recovery that fails restores it: `FailedRunIsUndone`
  without `Remembered`. Two crashes are enough. The first exception covered the
  records of interrupted runs only; it was the proof that showed it too narrow.
* Recovery beside a live run restores a preimage under it:
  `ConvergedMeansConverged` in the instance of `overlap`.
* An invitation expires between a machine's pending configuration and
  finalization. Every later `follower enroll` resumes that enrollment first and
  is refused, although a new invitation is open: `EnrollmentCompletes` with
  expiry among the mishaps.
* The handler of a prepare request its client gave up on may remove the secret
  of the retry, which has been finalized meanwhile; `--replace` removes the old
  credential and may then fail to reach the source (the exception `GaveUp` in
  `ActiveHasHolder`); enrolling again under the same name, documented as
  credential rotation, is refused as a duplicate as long as the identity is not
  revoked.
* What the follower wrote may stay for ever, with no record that covers it: keys
  that a config under `replace` drops, or had under `merge`; a file that becomes
  append-local, whose text counts as the follower's own text from then on; and
  everything at the old target of a resource that moves (the exceptions in
  `OwnedIsRecorded`, by `GivenUp` and `LeftBy`).
* A record is compared with the new target of a resource that moved as if it had
  been applied there. What equals it is taken for Canonfig's own, and
  mirror-owned may remove a file there that Canonfig never wrote, while
  `docs/architecture.md:167` says that such files are preserved. Changes to and
  from append-local compare the whole file with the record of the marked text
  and the other way round (the exception `Strayed` in `LocalEditsSurvive`).
* A resource published again under another id claims a target that is still
  recorded: every later plan of the follower fails (`Plannable` is false for
  good) until its state is repaired by hand.
* A package that is a URL passes validation and planning of brew and apt, and is
  refused by the executor (the exception in `RefusalsArePlanned`).
* Script policy, registry policy and executor find the command of a package
  operation by three option lists. A bare `--@scope:registry` takes a value in the
  first two and none in the executor's; a registry option that stands as a value
  is taken out between them; `--isolated` of pip has no value, and the resolution
  gives it one. What is authorized as one command may then be launched as another,
  or be refused: the properties of `AgentArguments` without their exceptions.
* A follower that shares the source's database stores its views among the
  candidates of a blob, where they never validate: `ViewBlobsAreServed` with
  `Shared = {f1}`.
* Serving a request writes back the manifest it read: a `secrets set` beside it
  is lost (`lapped`). On macOS and Windows a reference that was removed just
  before a crash stays queued for ever and stops every apply: `EventuallyMirrors`
  with `Platform = "windows"`. A revoked follower keeps what it received until
  `secrets sync` is run by hand, since its apply fails.
* A `schedule set` while a sync runs is undone by the configuration the sync
  writes back: `UserDecides` without `lapped`. A retry of an operation whose
  daemon-reload or start failed reports "unchanged" while the manager runs the
  old calendar (`loaded`, `active`); a removal with only one unit file left does
  too and leaves the timer active; a failed `disable` is ignored, so the timer of
  a removed job may stay active; a decision is recorded before it is validated.

## 4. Proofs

`SyncRunProofs` proves, for every number of invocations, plan length, set of
plans and bound on runs and mishaps (assumption `ConstantsAssumption`):

* `TypeCorrect` (`TypeOK`). Not inductive alone: that `proc[p].i` stays inside
  the plan, that the stack is not empty where its top is read, and that a
  displaced record is a record, depend on the place of the process. `TypeInv`
  adds `LocalInv`, one conjunct per group of places, and is proved preserved by
  one lemma per action.
* `RunsImplementLedger` (`LedgerSpec`), `AtMostOneOpenRun` (`OneOpenRun`),
  `OutcomesAreFinal` (`EndedIsFinal`), `OwnershipIsGuarded`
  (`OwnershipNeedsOpenRun`); the last two are weaker than the refinement and are
  proved only. `RunsInv` says that runs after `cur` are untouched
  and runs before it have ended. Every action is first classified by its effect
  on the run tables (`StepEffect`), then each effect is shown to keep `RunsInv`
  and to be a ledger step or a stutter (`LedgerStep`).

`RecoveryProofs` goes on from `TypeInv` to the files, the snapshots and the
journal, for every behaviour in which no two invocations work at the same time
(`Alone`, with any number of processes one after the other):

* `MutationsStayRecoverable` (`MutationsAreRecoverable`), `RecoveryIsNeverRefused`
  (`JournalStaysValid`), `ConvergedIsTrue` (`ConvergedMeansConverged`). The
  hypothesis is needed, not convenient: nothing in the code keeps a recovery from
  working beside a live run, and then `ConvergedMeansConverged` is false (section
  3). The runs that check the three have one process, where `Alone` always holds.
* None of the three is inductive, and they do not hold one without the others.
  `Recovering` (proved in `SyncRunProofs`) is their common strengthening, in
  layers: where the invocation is and on which run it works (`RunInv`), which
  actions a place is for and that the stack is in the order of the actions
  (`PlaceInv`), that actions the loop has not reached are as they were found
  (`AheadInv`), that every journal accepts the events still to come, those of the
  inverses on the stack included (`JournalInv`, with `Quiet` and `Undoable`), that
  a snapshot is what the run found and a target changes only behind one
  (`SafeInv`, `PreimageInv`), and that what the loop has passed holds or a flag of
  the outcome is set (`HoldsInv`).
* `AdditionsSurvive` (`LocalAdditionsSurvive`), also under `Alone`, with any mix
  of mishaps. Each step is shown to leave a "mixed" append-local target (`Spared`):
  composing over one gives it again, and a restore accepts one only as its own
  preimage (`AdditionsStay`), so the argument rests on `SafeInv` and
  `PreimageInv`, by which the snapshot is what the run found.
* `FailureIsUndone` (`FailedRunIsUndone`) and `EndsWhole` (`NothingHalfDone`), for
  runs of any plan that nothing cuts short (`Uncut`: no crash, no interrupt, no
  refused transaction), whatever the filesystem refuses, whatever users edit and
  whatever verifications and agents answer. `UncutInv` says
  what the loop leaves behind it: an action in front has not touched its record;
  one that was passed is done and owned, and its inverse is on the stack with the
  record it displaced, which is the one the run found; the current one changes
  its target only behind a snapshot; in the cascade every action is on the stack,
  or undone, or one whose inverse failed and whose snapshot is kept (`CourseInv`,
  `CurrentInv`, `OtherInv`; `LeftInv` for what an ended run leaves). TLC shows why
  the hypothesis stops there: after a crash followed by a filesystem error, a
  crash followed by an edit, or a refused transaction alone, a failed run may leave
  a change that is not undone. The crash and the error: over <remove, write> the
  recovery executes the removal again, its preparation fails, and the torn write
  behind it, which the recovery has not reached, is not restored.
* `CutShortIsUndone` (`FailedRunIsUndone`) and `CutShortEndsWhole`
  (`NothingHalfDone`), for runs of any plan that crashes and interrupts cut short,
  however often, in the run or in any of its recoveries, abandoned or not, while
  the filesystem and the database do what they are asked and no user edits
  (`Untroubled`). This is what a recovery relies on that restarts from nothing but
  the journal. `StayInv` says what the journal of an open run promises of each
  target (`Stands`), and that a target has changed only behind actions that every
  recovery gets past (`Firm`: not skipped, and a task or an installer only if it
  succeeded). So whatever recovery fails at, nothing behind it has changed, and
  what is in front of it is on the stack. `TrackInv` says where the invocation is:
  the handlers of a failed restore or write are never entered, and the cascade
  leaves every action on the stack or put back. `RecordInv` and `HeldInv` say the
  same of the ownership records: a record has changed only of an action that has
  begun, behind `Firm` ones, and the stack, the register of the action that is
  executed again and what recovery read of a success each hold the record the run
  found, where the journal still names it (`Right`). `Remembered` only ever becomes
  false, which is why an inverse is right if its record is remembered when it runs.
  Each action has a lemma for the targets (`...Steady`) and one for the records
  (`...Recorded`).
* Most steps touch the current action alone. `Works` says so, `Leaves` and
  `Enters` describe the steps by which an invocation ends or begins; each action
  is shown to be one of these, and each of these keeps the layers.

`EnrollmentProofs` proves, for any number of machines, names, invitations,
concurrent requests and mishaps (assumption `EnrollmentAssumption`):

* `TypeCorrect` (`TypeOK`). `TypeInv` adds that the fields of handlers and
  commands fit their place: who enrolls has a name and an invitation, who
  finalizes has a credential and a pending configuration. One lemma per way a
  handler or a command may change (`FinishGood`, `SendGood`, `ReceiveGood`, ...).
* `ImplementsMembership` (`MembershipSpec`). The step that matters is
  finalization: its credential must never have been active. `CredInv` makes that
  inductive: the credentials of pending rows, and of handlers that have not yet
  consumed their invitation, are pairwise different and never were active.
* `ConfirmedEnrollment` (`EnrolledIsConfirmed`). `MatchInv`: no two machines
  wait for one request, a request carries the credential its machine holds, and
  an affirmative answer to a finalize is true.
* `ActiveIsHeld` (`ActiveHasHolder`), for machines that share names too. The claim
  is about the identity that a finalize activates, so `HoldInv` follows the
  credential there from the handler that made it: nobody else has it before its
  row exists (`SoleInv`); once it has a row, machines keep it under the row's name
  only (`PrepareInv`, `NameInv`); a row that some handler may still finalize
  belongs to a machine that waits for nothing else (`WaitInv`, which needs
  `DeadInv`: what is answered "invalid" has no row and never gets one back). From
  then on the holder loses the identity only to a command of its own that is past
  its preparation (`KeptInv`), and one for another name has given the old
  credential up first (`ForgetInv`). The steps are first reduced to the few ways
  a machine (`Moves`) or a handler (`Handles`) can affect these invariants.

`AgentProofs` proves, for any set of plans, tasks, answers, PATH and requirement
files (assumptions `PlansAreSane`, `FilesAreNoLinks`, `PathAssumption` and
`ContentsAssumption`, by which the requirement files hold the lines of each file):

* `OutputIsBounded` (`OutputBudget`). `ControlInv` says there is one process, and
  only at `pc = "run"`; `BudgetInv` adds that a process starts with what is left
  of the limit (`proc.max = task.limit - consumed`), which is why the sum of
  processes that each stay under their own maximum stays under the task's.
* `AppliedIsVerified` (`AppliedMeansVerified`). `WorkInv` types what was
  authorized and launched; `OrderInv` says that what was launched is, at every
  moment, the beginning of what was authorized, each of it exited with 0, and
  that the observer is the last. The executable that is launched is the one that
  was authorized only because a link of PATH leads to a file that is no link:
  `FilesAreNoLinks`, through the lemma that the first match of a search in PATH
  exists (`WFMin` of the well-founded order on the naturals).
* `CancelIsHeeded` (`CancelStopsLaunches`), from the guards of the steps that
  launch.
* `ReviewedIsLaunched` (`RequirementsAreReviewed`). The files are compared one at
  a time, and an edit may come between two of them. `ReviewInv` says that the files
  of the invocation, read at once, say one thing of each file, and that a file
  compared so far holds what was reviewed, was edited after its comparison, or is
  to be compared again (a file included twice).
* `LaunchedIsListed`: what is launched is `Listed`, the part of `LaunchedIsBounded`
  that does not depend on the words of the run. A name is looked up again at the
  launch, in a PATH that may have changed, so `ListedInv` speaks of the file.

`ScheduleProofs` proves, for any calendars, defaults and mishaps (assumption
`CalendarsAreSane`):

* `TypesHold` (`TypeOK`), from `TypesInv` and `UnitInv`.
* `TheUserDecides` (`UserDecides`). Not inductive alone: a sync writes back a
  decision it read several steps before. `DecisionInv` adds that unless two
  processes overlapped one is idle (`OneRuns`), what a sync read is what is in
  force (`ReadIsCurrent`), and it works on the job only where the user left it to
  the profile (`WorksIfInherited`).
* `RestoresAreExact` (`RestoreIsExact`). `RestoreInv` ties the calls a restore
  has left to what is already back: behind the files, the reload, the enabling
  and the starting (`Back`, one disjunct per place).

`FollowerProofs` proves, for any families of revisions and edits, any finite set
of resources, any targets, places and values, and any number of publications,
changes and runs (assumptions `PlansAssumption`, `FollowerAssumption`,
`EditsAreStates`, `ViewsAreSane`):

* `TypeCorrect` (`TypeOK`), `RefusalsPlanned` (`RefusalsArePlanned`),
  `NothingForgotten` (`OwnedIsRecorded`), `ConvergedStaysConverged`
  (`ConvergedIsFixpoint`), `LocalEditsKept` (`LocalEditsSurvive`). None is
  inductive; all five follow from `FollowerInv`, which was an invariant of the
  `follower` instance before it was proved.
* `WorldOk` is about targets and records: records of two resources are apart
  (`Apart`), what a record declares is what a run left (`Known`), what a run left
  is declared by a record (`Covered`), and a record is the record of something
  some valid revision gave (`IsRecord`). It holds of the state a roll back returns
  to as well, which is why a failed run needs no argument of its own.
* `TodoOk` is about a run under way: every action still to come was planned from
  the observation, record and claims that hold now (`Current`), and no two have a
  target in common. A plan is made once, up front, and nothing observes again
  before an action is executed; that executing one action leaves the plans of the
  others true is what the proof of `ActKeepsTodo` shows.
* `SettledOk` is why converging is final: unless something changed since the run
  started, what is not among its actions needs none. An action that is executed
  leaves its resource with nothing to do, and the run ends when none is left.
* Underneath there is one lemma for every kind of resource and policy
  (`PlainFileActs`, `AppendedFileActs`, `MergeActs`, `ReplacedConfigActs`,
  `MirroredActs`, `ReplacedTreeActs`, `ProgramActs`, `RemovalActs`), about the
  planner and the executor together: if an action planned from what is there is
  executed there and verified, then what was recorded is still declared
  (`Keeps`), only what is recorded or licensed changed (`Respects`), and planning
  again is a no-op (`Replanned`). That the plan of a view holds the drafts of
  every resource exactly once is proved from the cardinality of finite sets and
  the recursive function `Concat` (`PlanIsComplete`).

`DistributionProofs` proves, for every finite set of resources, any dependencies,
groups and profiles, and any number of operators, followers and sessions
(assumptions `DistributionConstants`, `EarlierIsReady`, `ContentIsIdentity`):

* `ViewsMatchIntent` (`ViewsAreExact`). The code removes, pass by pass, the
  resources with a dependency that is not authorized; the property asks for the
  largest authorized set closed under dependencies. That the passes exist, shrink,
  and have reached a fixed point after as many passes as there are resources is
  proved from the cardinality of finite sets (`PassesExist` to
  `VisibleIsIntended`). What a session was shown then stays true while revisions
  are added (`SessionStays`).
* `RevisionsAreNumbered` (`SequencesIdentify`). `NumberInv`: the number a
  publication under way has read is the next one or already used, so that the
  unique key refuses the slower of two.
* `BlobsAreAuthorized` (`ServedIsAuthorized`). `IndexOk`: what the index kept of an
  earlier answer are revisions that hold the blob; the groups are asked again.
* `AppliedIsRecent` (`AppliedIsFresh`). `SessionOk`: the revision of a session is
  published and not older than what it began with, unless it recovers.
* `ShownIsServed` (`ViewBlobsAreServed`), for `Shared = {}`. `ServingInv` adds that
  the candidates of a waiting session contain its own revision and that an
  answer kept in the index is complete for its groups. With a follower in the
  source's own database the property is false (section 3), hence the hypothesis;
  the run has `Shared = {}` too.
* `RecordsTyped` (`TypeOK`), with `BoundInv` for the numbers.

`SecretsProofs` proves, for any names, values, references, platforms and mishaps
(assumption `ConstantsAreSane`: among others the user types only names, and there
are references for what the source holds at the start):

* `SecretsTyped` (`TypeOK`).
* `ServedIsOwn` (`NonTransitive`), also while commands overlap. `OwnInv`: behind a
  local entry, in the manifest or in a command's registers, is a value of the
  machine's own user.
* `ListedIsStored` (`ActiveResolve`), `NoOtherLeak` (`NothingLeaks`),
  `OthersKeepLocal` (`LocalIsUsers`), on machines that are not `lapped`.
  `WorldInv` says of manifest and store together that references are distinct,
  listed ones are stored and stored ones are accounted for; `KnowInv` what the
  command at work knows of the manifest it read, place by place; `SoleInv` that
  it is the only one. `KnowInv` is what makes the others inductive: a manifest
  is written from registers, so it is right only if these still describe it.

Only model-checked, and why:

* Liveness (`OnlyStrandedRunsStayOpen`, `EnrollmentCompletes`, `EventuallyCurrent`,
  `InheritedIsInstalled` and the others): out of the prover's reach.
* `FailedRunIsUndone` and `NothingHalfDone` where errors of the filesystem come on
  top of a crash: they hold for the plans of `undo` and are false for others
  (section 3). After a refused transaction, or an edit on top of a crash,
  `FailedRunIsUndone` is false, and no run claims either.
* `LaunchedIsBounded` (but for `LaunchedIsListed`), `OperationIsReviewed` and
  `AuthorizedIsLaunchable`: they compare option lists word by word. The last two
  are checked for lists of up to four arguments over the
  vocabulary of the run, and are false in the layouts they except.
What a recursive definition computes for every input is not proved anywhere; no
module declares a RECURSIVE operator.

## 5. What is not modelled

* String and document conversions (`config-codec.ts`, the regular expressions of
  recipe versions and package specifications, harness templates, calendars,
  field-by-field schema validation). They keep no state across steps; where a
  decision depends on them, the classes they tell apart are modelled.
* The launchd and Task Scheduler backends. They have the shape of the systemd
  one (write, load, enable, verify); `Schedule` would need their calls in
  `InstallWork`, `RemoveWork` and `RestoreWork`.
* TLS, certificates, signatures and digests are taken to be sound.
* Discovery and diagnostics (read-only), the CLI's parsing and rendering,
  logging, npm archives (I/O and digest arithmetic), the documentation site.
* A journal transaction and its return are one step: an interrupt that lands
  between commit and return is not modelled, nor is a follower under the
  source's own OS user.
