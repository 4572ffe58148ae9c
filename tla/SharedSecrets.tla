--------------------------- MODULE SharedSecrets ---------------------------
(***************************************************************************)
(* The secrets a source shares with the followers it granted the group     *)
(* canonfig:secrets (src/secrets).  Each machine keeps a manifest of names *)
(* and credential references in a file, and the values in the credential   *)
(* store of its platform; no step changes both, no lock is taken, and a    *)
(* command is a chain of reads and writes of the two.                      *)
(*                                                                         *)
(* A manifest is read once and written back whole, first with the          *)
(* references it no longer needs queued in "retired", then, when they have *)
(* been removed from the store, without them.  The processes of a machine  *)
(* are its CLI, its source server and, on the follower, the sync that runs *)
(* after an apply.                                                         *)
(*                                                                         *)
(* A value stands for what the user of a machine types in; the limit of    *)
(* 128 names and the byte budgets are the one bound MaxSecrets.            *)
(***************************************************************************)
EXTENDS Naturals, FiniteSets, Functions

CONSTANTS
  Source, Follower,     \* the two machines
  Names,                \* names of secrets
  Typed,                \* Typed[m]: the names and values the user of m may store
  Held,                 \* what the source's user stored before: values by name
  References,           \* credential references (random UUIDs)
  MaxSecrets,           \* maximumSharedSecrets, and the payload budgets
  Platform,             \* of both machines
  MaxEdits,             \* bound: commands of users, grants, foreign requests
  MaxTrouble            \* bound: crashes, failures of a call, overlaps

Machines == {Source, Follower}
Processes == (Machines \X {"cli", "serve"}) \cup {<<Follower, "sync">>}
Sync == <<Follower, "sync">>
Server == <<Source, "serve">>

ASSUME ConstantsAreSane ==
  /\ Source # Follower
  /\ DOMAIN Typed = Machines /\ DOMAIN Held \subseteq Names
  /\ \A m \in Machines : \A t \in Typed[m] : t[1] \in Names
  /\ \E f \in [DOMAIN Held -> References] : IsInjective(f)
  /\ \A t \in Typed[Follower] :
       t[2] \notin {s[2] : s \in Typed[Source]} \cup {Held[n] : n \in DOMAIN Held}
  /\ Platform \in {"linux", "macos", "windows"}
  /\ {MaxSecrets, MaxEdits, MaxTrouble} \subseteq Nat

VARIABLES
  manifest,  \* per machine: the entries by name and the queue of retired references
  vault,     \* per machine: the credential store, values by reference
  proc,      \* what each process is doing, and what it holds in memory
  grant,     \* what the source decided on the follower: shared, unshared, revoked
  believed,  \* the follower's configuration lists the group
  lapped,    \* history: machines where two commands used the manifest at once
  leaked,    \* history: credentials given up by a crash or a failed cleanup
  edits, trouble

vars == <<manifest, vault, proc, grant, believed, lapped, leaked, edits, trouble>>
files == <<manifest, vault, leaked>>
world == <<grant, believed>>

NoEntries == [n \in {} |-> {}]
Idle == [pc |-> "idle", goal |-> "none", next |-> NoEntries, retired |-> {},
         failed |-> {}, created |-> {}, todo |-> NoEntries]
\* A process of machine m that holds what it read of the manifest, and what it will store.
Holding(m, goal, pc, todo) ==
  [Idle EXCEPT !.pc = pc, !.goal = goal, !.todo = todo,
               !.next = manifest[m].entries, !.retired = manifest[m].retired]

\* A source in use, and a follower that has just been enrolled.
HeldRefs == CHOOSE f \in [DOMAIN Held -> References] : IsInjective(f)
Init ==
  /\ manifest = [m \in Machines |->
       [entries |-> IF m = Follower THEN NoEntries
                    ELSE [n \in DOMAIN Held |-> [ref |-> HeldRefs[n], origin |-> "local"]],
        retired |-> {}]]
  /\ vault = [m \in Machines |->
       IF m = Follower THEN NoEntries
       ELSE [r \in Range(HeldRefs) |-> Held[CHOOSE n \in DOMAIN Held : HeldRefs[n] = r]]]
  /\ proc = [p \in Processes |-> Idle]
  /\ grant = "shared" /\ believed = TRUE
  /\ lapped = {} /\ leaked = [m \in Machines |-> {}]
  /\ edits = 0 /\ trouble = 0

-----------------------------------------------------------------------------
(* Entries, the credential store, and the two bounds.                      *)

Local(entries) == {n \in DOMAIN entries : entries[n].origin = "local"}
Remote(entries) == DOMAIN entries \ Local(entries)
Refs(entries) == {entries[n].ref : n \in DOMAIN entries}
Entry(r, o) == [ref |-> r, origin |-> o]
Put(f, k, v) == [x \in DOMAIN f \cup {k} |-> IF x = k THEN v ELSE f[x]]

\* A reference no file and no process of the machine has heard of: a new UUID.
InUse(p) == Refs(proc[p].next) \cup proc[p].retired \cup proc[p].failed \cup proc[p].created
Unheard(m) ==
  References \ (DOMAIN vault[m] \cup Refs(manifest[m].entries) \cup manifest[m].retired
                 \cup UNION {InUse(p) : p \in {q \in Processes : q[1] = m}})
Fresh(m) == CHOOSE r \in References : r \in Unheard(m)

\* On macOS the commands store under "keychain-hex:" references; the server
\* runs without that layer and knows only those that start with "keychain:".
Understands(p) == Platform = "macos" => p[2] # "serve"
\* To remove what is gone is an error for the Keychain and Credential Manager.
Removable(p, r) == Understands(p) /\ (r \in DOMAIN vault[p[1]] \/ Platform = "linux")
Loadable(m, entries, names) == \A n \in names : entries[n].ref \in DOMAIN vault[m]
Values(m, entries, names) == [n \in names |-> vault[m][entries[n].ref]]
FitsBudget(names) == Cardinality(names) <= MaxSecrets

\* The credential store of a machine: one value written, some removed.
StoreCredential(m, r, v) == vault' = [vault EXCEPT ![m] = Put(@, r, v)]
RemoveCredentials(m, gone) == vault' = [vault EXCEPT ![m] = Restrict(@, DOMAIN @ \ gone)]

\* writeManifest: an active reference is never queued.
Saved(m, entries, retired) ==
  manifest' = [manifest EXCEPT ![m] = [entries |-> entries, retired |-> retired \ Refs(entries)]]

-----------------------------------------------------------------------------
(* Troubles: a call that fails, a process that dies, two commands at once. *)

Using(p) == proc[p].pc \notin {"idle", "await", "asked", "answered", "refused", "sent"}
Alone(m) == \A p \in Processes : p[1] = m => ~Using(p)

\* A command reads the manifest: while another one holds it, an overlap.
Reads(m) ==
  IF Alone(m) THEN UNCHANGED <<lapped, trouble>>
  ELSE /\ trouble < MaxTrouble /\ trouble' = trouble + 1
       /\ lapped' = lapped \cup {m}

Faulty == trouble < MaxTrouble /\ trouble' = trouble + 1
Smooth == UNCHANGED trouble
Goes(p, r) == proc' = [proc EXCEPT ![p] = r]
Ends(p) == Goes(p, Idle)

GivesUpDirty(p, fault) ==
  /\ IF fault THEN Faulty ELSE Smooth
  /\ Ends(p) /\ UNCHANGED <<vault, leaked>>

\* A command that fails after it stored values removes them again
\* (cleanupReferences); a removal that fails as well is ignored.
GivesUp(p, fault) ==
  \E kept \in SUBSET proc[p].created :
    LET cost == (IF fault THEN 1 ELSE 0) + (IF kept = {} THEN 0 ELSE 1) IN
      /\ trouble + cost <= MaxTrouble /\ trouble' = trouble + cost
      /\ RemoveCredentials(p[1], proc[p].created \ kept)
      /\ leaked' = [leaked EXCEPT ![p[1]] = @ \cup kept]
      /\ Ends(p)

-----------------------------------------------------------------------------
(* The CLI: secrets set and secrets remove.                                *)

StoreSecret(m, n, v) ==
  LET p == <<m, "cli">> IN
    /\ proc[p] = Idle /\ edits < MaxEdits /\ edits' = edits + 1
    /\ Reads(m)
    /\ Goes(p, Holding(m, "set", "measure", Put(NoEntries, n, v)))
    /\ UNCHANGED <<files, world>>

\* The other local values are loaded for the payload budget.
Measure(p) ==
  LET m == p[1]
      retained == Local(proc[p].next) \ DOMAIN proc[p].todo
      fits == /\ Loadable(m, proc[p].next, retained)
              /\ FitsBudget(retained \cup DOMAIN proc[p].todo)
  IN /\ proc[p].pc = "measure"
     /\ \/ fits /\ Smooth /\ Goes(p, [proc[p] EXCEPT !.pc = "store"])
        \/ ~fits /\ Smooth /\ Ends(p)
        \/ Faulty /\ Ends(p)
     /\ UNCHANGED <<files, world, lapped, edits>>

RemoveSecret(m, n) ==
  LET p == <<m, "cli">>
      held == Holding(m, "remove", "write", NoEntries)
  IN /\ proc[p] = Idle /\ edits < MaxEdits /\ edits' = edits + 1
     /\ n \in DOMAIN manifest[m].entries
     /\ Reads(m)
     /\ Goes(p, [held EXCEPT !.next = Restrict(@, DOMAIN @ \ {n}),
                             !.retired = @ \cup {manifest[m].entries[n].ref}])
     /\ UNCHANGED <<files, world>>

-----------------------------------------------------------------------------
(* Steps the commands share: store a value, write the manifest, remove     *)
(* what it retired one by one, write it again.                             *)

Origin(p) == IF p = Sync THEN "source" ELSE "local"

\* One value is stored under a new reference (bound: while the instance has one
\* left).  A user's secret replaces the entry of its name, a transferred one
\* joins those prepared so far.
StoreValue(p, n) ==
  LET m == p[1]
      r == Fresh(m)
      previous == IF n \in DOMAIN proc[p].next THEN {proc[p].next[n].ref} ELSE {}
  IN /\ proc[p].pc = "store" /\ n \in DOMAIN proc[p].todo
     /\ Unheard(m) # {}
     /\ Smooth
     /\ StoreCredential(m, r, proc[p].todo[n])
     /\ Goes(p, [proc[p] EXCEPT !.next = Put(@, n, Entry(r, Origin(p))),
                                !.retired = @ \cup previous,
                                !.created = @ \cup {r},
                                !.todo = Restrict(@, DOMAIN @ \ {n})])
     /\ UNCHANGED <<manifest, leaked, world, lapped, edits>>

StoreFails(p) ==
  /\ proc[p].pc = "store" /\ proc[p].todo # NoEntries
  /\ GivesUp(p, TRUE)
  /\ UNCHANGED <<manifest, world, lapped, edits>>

\* Everything is stored: the manifest names the new entries and queues the old.
ReadyToWrite(p) == proc[p].pc = "write" \/ (proc[p].pc = "store" /\ proc[p].todo = NoEntries)

WriteAtTheEnd(p) ==
  /\ ReadyToWrite(p) /\ FitsBudget(DOMAIN proc[p].next)
  /\ Goes(p, [proc[p] EXCEPT !.pc = "remove", !.created = {}])
  /\ Smooth /\ UNCHANGED <<files, world, lapped, edits>>

WriteManifest(p) ==
  /\ ReadyToWrite(p) /\ FitsBudget(DOMAIN proc[p].next)
  /\ Saved(p[1], proc[p].next, proc[p].retired)
  /\ Goes(p, [proc[p] EXCEPT !.pc = "remove", !.created = {}])
  /\ Smooth /\ UNCHANGED <<vault, leaked, world, lapped, edits>>

WriteFails(p) ==
  /\ ReadyToWrite(p)
  /\ GivesUp(p, FitsBudget(DOMAIN proc[p].next))
  /\ UNCHANGED <<manifest, world, lapped, edits>>

\* removeRetiredReferences, one credential: gone, or kept for another try.
RemoveOne(p) ==
  LET m == p[1]
      rest(r) == [proc[p] EXCEPT !.pc = "removing", !.retired = @ \ {r}]
  IN /\ proc[p].pc \in {"remove", "removing"}
     /\ \E r \in proc[p].retired :
          \/ /\ Removable(p, r)
             /\ RemoveCredentials(m, {r})
             /\ Goes(p, rest(r)) /\ Smooth
          \/ /\ \/ ~Removable(p, r) /\ Smooth
                \/ Faulty
             /\ Goes(p, [rest(r) EXCEPT !.failed = @ \cup {r}])
             /\ UNCHANGED vault
     /\ UNCHANGED <<manifest, leaked, world, lapped, edits>>

\* Nothing is left to remove: the manifest is written without what is gone.
Removed(p) == proc[p].pc \in {"remove", "removing"} /\ proc[p].retired = {}

Continues(p) ==
  CASE proc[p].goal = "sweep" -> Goes(p, [proc[p] EXCEPT !.pc = "check"])
    [] proc[p].goal = "serve" -> Goes(p, [proc[p] EXCEPT !.pc = "load"])
    [] OTHER -> Ends(p)

Settle(p) ==
  /\ Removed(p) /\ Smooth
  /\ IF proc[p].pc = "removing" THEN Saved(p[1], proc[p].next, proc[p].failed)
                                ELSE UNCHANGED manifest
  /\ IF proc[p].failed = {} THEN Continues(p) ELSE Ends(p)
  /\ UNCHANGED <<vault, leaked, world, lapped, edits>>

SettleFails(p) ==
  /\ Removed(p) /\ proc[p].pc = "removing"
  /\ Faulty /\ Ends(p)
  /\ UNCHANGED <<files, world, lapped, edits>>

-----------------------------------------------------------------------------
(* The source server: GET /v1/transport/secrets.                           *)

\* The request is authenticated; without the group the answer is 404, for a
\* revoked identity 403.  Both make the follower clear what it received.
Refuse ==
  /\ proc[Sync].pc = "await" /\ grant # "shared"
  /\ Smooth /\ Goes(Sync, [Idle EXCEPT !.pc = "refused"])
  /\ UNCHANGED <<files, world, lapped, edits>>

\* loadSharedSecrets first retries the removals another command left queued.
Serve ==
  /\ proc[Sync].pc = "await" /\ grant = "shared" /\ proc[Server] = Idle
  /\ Reads(Source)
  /\ proc' = [proc EXCEPT ![Server] = Holding(Source, "serve", "remove", NoEntries),
                          ![Sync].pc = "asked"]
  /\ UNCHANGED <<files, world, edits>>

\* The follower runs a source server of its own, for a machine of its own choice.
ServeForeign ==
  LET p == <<Follower, "serve">> IN
    /\ proc[p] = Idle /\ edits < MaxEdits /\ edits' = edits + 1
    /\ Reads(Follower)
    /\ Goes(p, Holding(Follower, "serve", "remove", NoEntries))
    /\ UNCHANGED <<files, world>>

AnswerAll(m) ==
  LET p == <<m, "serve">>
      payload == Values(m, proc[p].next, DOMAIN proc[p].next)
  IN /\ proc[p].pc = "load" /\ Loadable(m, proc[p].next, DOMAIN proc[p].next) /\ Smooth
     /\ Goes(p, [Idle EXCEPT !.pc = "sent", !.todo = payload])
     /\ UNCHANGED <<files, world, lapped, edits>>

\* The local values are loaded and sent; one that cannot be loaded is a 500.
CanAnswer(p) ==
  LET names == Local(proc[p].next) IN
    /\ Loadable(p[1], proc[p].next, names) /\ FitsBudget(names)
    /\ names = {} \/ Understands(p)

Answer(m) ==
  LET p == <<m, "serve">>
      payload == Values(m, proc[p].next, Local(proc[p].next))
  IN /\ proc[p].pc = "load" /\ CanAnswer(p) /\ Smooth
     /\ Goes(p, [Idle EXCEPT !.pc = "sent", !.todo = payload])
     /\ UNCHANGED <<files, world, lapped, edits>>

AnswerFails(m) ==
  LET p == <<m, "serve">> IN
    /\ proc[p].pc = "load"
    /\ IF CanAnswer(p) THEN Faulty ELSE Smooth
    /\ Ends(p)
    /\ UNCHANGED <<files, world, lapped, edits>>

\* The answer arrives, or finds nobody who still waits for it.
Deliver(m) ==
  LET p == <<m, "serve">>
      waits == p = Server /\ proc[Sync].pc = "asked"
  IN /\ proc[p].pc = "sent" /\ Smooth
     /\ proc' = [q \in Processes |->
                   IF q = p THEN Idle
                   ELSE IF q = Sync /\ waits
                     THEN [Idle EXCEPT !.pc = "answered", !.todo = proc[p].todo]
                   ELSE proc[q]]
     /\ UNCHANGED <<files, world, lapped, edits>>

-----------------------------------------------------------------------------
(* The follower: synchronizeSharedSecrets, after an apply or by hand.      *)

StartSync ==
  /\ proc[Sync] = Idle /\ Smooth
  /\ Goes(Sync, [Idle EXCEPT !.pc = IF believed THEN "await" ELSE "refused"])
  /\ UNCHANGED <<files, world, lapped, edits>>

\* The request times out, or the server is gone or has answered with an error.
NoAnswer ==
  /\ \/ proc[Sync].pc = "asked" /\ proc[Server] = Idle /\ Smooth
     \/ proc[Sync].pc \in {"await", "asked"} /\ Faulty
  /\ Ends(Sync)
  /\ UNCHANGED <<files, world, lapped, edits>>

ClearLater ==
  /\ proc[Sync].pc = "refused" /\ Smooth
  /\ Ends(Sync)
  /\ UNCHANGED <<files, world, lapped, edits>>

\* clearTransferredSecrets: only the follower's own entries stay.
ClearTransferred ==
  LET held == Holding(Follower, "clear", "write", NoEntries)
      source == Remote(held.next)
  IN /\ proc[Sync].pc = "refused"
     /\ Reads(Follower)
     /\ IF source = {} /\ held.retired = {} THEN Ends(Sync)
        ELSE Goes(Sync, [held EXCEPT !.next = Restrict(@, Local(@)),
                                     !.retired = @ \cup {held.next[n].ref : n \in source}])
     /\ UNCHANGED <<files, world, edits>>

\* applyTransferredSecrets reads the manifest and retries the queued removals,
ApplyTransferred ==
  /\ proc[Sync].pc = "answered"
  /\ Reads(Follower)
  /\ Goes(Sync, Holding(Follower, "sweep", "remove", proc[Sync].todo))
  /\ UNCHANGED <<files, world, edits>>

CheckNamesMerging ==
  LET entries == proc[Sync].next
      conflict == Local(entries) \cap DOMAIN proc[Sync].todo # {}
  IN /\ proc[Sync].pc = "check" /\ Smooth
     /\ IF conflict THEN Ends(Sync)
        ELSE Goes(Sync, [proc[Sync] EXCEPT !.goal = "apply", !.pc = "store"])
     /\ UNCHANGED <<files, world, lapped, edits>>

\* then gives up on a name the follower's user owns, or replaces every
\* transferred entry by a new one.
CheckNames ==
  LET entries == proc[Sync].next
      conflict == Local(entries) \cap DOMAIN proc[Sync].todo # {}
  IN /\ proc[Sync].pc = "check" /\ Smooth
     /\ IF conflict THEN Ends(Sync)
        ELSE Goes(Sync, [proc[Sync] EXCEPT
                           !.goal = "apply", !.pc = "store",
                           !.next = Restrict(entries, Local(entries)),
                           !.retired = {entries[n].ref : n \in Remote(entries)}])
     /\ UNCHANGED <<files, world, lapped, edits>>

-----------------------------------------------------------------------------
(* The source's decisions, and a process that dies.                        *)

\* The follower is revoked, or its groups are updated.
Grant(g) ==
  /\ grant # g /\ edits < MaxEdits
  /\ grant' = g /\ edits' = edits + 1
  /\ UNCHANGED <<files, proc, believed, lapped, trouble>>

\* Only a new enrollment writes the groups to the follower's configuration.
LearnGrant ==
  /\ grant # "revoked" /\ believed # (grant = "shared")
  /\ believed' = (grant = "shared")
  /\ UNCHANGED <<files, proc, grant, lapped, edits, trouble>>

\* What it stored and no manifest names yet is in the store for ever.
Crash(p) ==
  /\ proc[p] # Idle /\ Faulty
  /\ leaked' = [leaked EXCEPT ![p[1]] = @ \cup proc[p].created]
  /\ Ends(p)
  /\ UNCHANGED <<manifest, vault, world, lapped, edits>>

-----------------------------------------------------------------------------
UserCommand(m) ==
  \/ \E t \in Typed[m] : StoreSecret(m, t[1], t[2])
  \/ \E n \in Names : RemoveSecret(m, n)

Step(p) ==
  \/ Measure(p) \/ (\E n \in Names : StoreValue(p, n)) \/ StoreFails(p)
  \/ WriteManifest(p) \/ WriteFails(p)
  \/ RemoveOne(p) \/ Settle(p) \/ SettleFails(p)

Exchange ==
  \/ Refuse \/ Serve \/ NoAnswer
  \/ (\E m \in Machines : Answer(m) \/ AnswerFails(m) \/ Deliver(m))
  \/ ClearTransferred \/ ApplyTransferred \/ CheckNames

Next ==
  \/ \E m \in Machines : UserCommand(m)
  \/ \E p \in Processes : Step(p) \/ Crash(p)
  \/ StartSync \/ Exchange \/ ServeForeign \/ LearnGrant
  \/ \E g \in {"shared", "unshared", "revoked"} : Grant(g)

\* Commands go on.  A schedule applies again and again, and each apply that
\* succeeded is followed by a sync; a revoked follower's apply does not succeed.
AfterApply == grant # "revoked" /\ StartSync
Fairness == WF_vars((\E p \in Processes : Step(p)) \/ Exchange \/ AfterApply)

Sharing == Init /\ [][Next]_vars /\ Fairness

-----------------------------------------------------------------------------
(* Properties.                                                             *)

Entries(m) == manifest[m].entries
AnEntry == [ref : References, origin : {"local", "source"}]
SomeEntries(f) == DOMAIN f \subseteq Names /\ \A n \in DOMAIN f : f[n] \in AnEntry

\* The types of the files, the stores and what the processes hold.
TypeOK ==
  /\ \A m \in Machines :
       /\ SomeEntries(Entries(m)) /\ manifest[m].retired \subseteq References
       /\ DOMAIN vault[m] \subseteq References /\ leaked[m] \subseteq References
  /\ \A p \in Processes :
       /\ SomeEntries(proc[p].next)
       /\ proc[p].retired \cup proc[p].failed \cup proc[p].created \subseteq References
       /\ DOMAIN proc[p].todo \subseteq Names
       /\ proc[p].goal \in {"none", "set", "remove", "serve", "sweep", "clear", "apply"}
  /\ grant \in {"shared", "unshared", "revoked"} /\ believed \in BOOLEAN
  /\ edits \in 0 .. MaxEdits /\ trouble \in 0 .. MaxTrouble

\* Whatever crashed or failed half-way, every name a manifest lists has its
\* value in the credential store, as long as the commands of the machine did
\* not use the manifest at once (the files are changed in the right order).
ActiveResolve ==
  \A m \in Machines \ lapped : Loadable(m, Entries(m), DOMAIN Entries(m))

\* A credential in the store is named by the manifest, queued for removal, in
\* the hands of a running command, or was given up in the one window the code
\* leaves open: a crash or a failed cleanup between storeValue and writeManifest.
NothingLeaks ==
  \A m \in Machines \ lapped :
    DOMAIN vault[m] \subseteq
      Refs(Entries(m)) \cup manifest[m].retired \cup leaked[m]
      \cup UNION {proc[p].created : p \in {q \in Processes : q[1] = m}}

\* Non-transitive secrets (README.md:141): what a machine's server hands out was typed in by
\* that machine's own user, even when it is a follower that received others,
\* and whatever ran at the same time.
Own(m) == {t[2] : t \in Typed[m]} \cup (IF m = Source THEN Range(Held) ELSE {})
NonTransitive == \A m \in Machines : Range(proc[<<m, "serve">>].todo) \subseteq Own(m)

\* Synchronization, serving and clean-up never change what the user of a
\* machine stored: only a running set or remove command does.
LocalIsUsers ==
  [][\A m \in Machines \ lapped' :
       LET own(e) == [n \in Local(e) |-> e[n]] IN
         own(Entries(m)') # own(Entries(m)) => proc[<<m, "cli">>].goal \in {"set", "remove"}]_vars

\* What the follower received, by name, and what it should have.
Received == Values(Follower, Entries(Follower), Remote(Entries(Follower)))
Offered == Values(Source, Entries(Source), Local(Entries(Source)))
Fits ==
  /\ Local(Entries(Source)) \cap Local(Entries(Follower)) = {}
  /\ FitsBudget(Local(Entries(Source)) \cup Local(Entries(Follower)))
Mirrors ==
  /\ grant = "unshared" => Remote(Entries(Follower)) = {}
  /\ grant = "shared" /\ believed /\ Fits => Received = Offered

\* Source deletions and changes reach the follower (README.md:141), one that
\* lost the group loses what it received, and no crash or failure on the way
\* (of which there are finitely many) blocks the syncs that follow: in the end
\* the follower holds exactly what the source shares with it, and keeps it.
EventuallyMirrors == <>[](lapped = {} => Mirrors)

\* A follower that is told it was revoked or left out clears what it received,
\* unless something fails once more.
RefusedIsCleared ==
  (proc[Sync].pc = "refused" /\ trouble = MaxTrouble /\ lapped = {})
    ~> (Remote(Entries(Follower)) = {})
=============================================================================
