--------------------------- MODULE SecretsProofs ---------------------------
(***************************************************************************)
(* Theorems about SharedSecrets for every set of names, values and         *)
(* references, every number of commands, crashes, failures and overlaps:   *)
(* what a server hands out is its own user's, and on a machine whose       *)
(* commands did not overlap every listed name has its value, no credential *)
(* is forgotten, and only the user changes the user's secrets.             *)
(***************************************************************************)
EXTENDS SharedSecrets, TLAPS

----------------------------------------------------------------------------
(* Types. *)

\* Functions whose domain is part of S.
PartialMaps(S, T) == UNION {[D -> T] : D \in SUBSET S}
Secret == UNION {Own(m) : m \in Machines}
EntryMap == PartialMaps(Names, AnEntry)
SecretMap == PartialMaps(Names, Secret)
VaultMap == PartialMaps(References, Secret)
Places == {"idle", "measure", "store", "write", "remove", "removing", "check", "load",
           "await", "asked", "answered", "refused", "sent"}
Goals == {"none", "set", "remove", "serve", "sweep", "clear", "apply"}
Registers ==
  [pc: Places, goal: Goals, next: EntryMap, retired: SUBSET References,
   failed: SUBSET References, created: SUBSET References, todo: SecretMap]

TypeInv ==
  /\ manifest \in [Machines -> [entries: EntryMap, retired: SUBSET References]]
  /\ vault \in [Machines -> VaultMap]
  /\ proc \in [Processes -> Registers]
  /\ grant \in {"shared", "unshared", "revoked"} /\ believed \in BOOLEAN
  /\ lapped \subseteq Machines /\ leaked \in [Machines -> SUBSET References]
  /\ edits \in 0 .. MaxEdits /\ trouble \in 0 .. MaxTrouble

\* Membership in a set of partial functions.
LEMMA MapIs ==
  ASSUME NEW S, NEW T, NEW f
  PROVE  f \in PartialMaps(S, T) <=>
           /\ f = [x \in DOMAIN f |-> f[x]]
           /\ DOMAIN f \subseteq S
           /\ \A x \in DOMAIN f : f[x] \in T
<1>1. ASSUME f \in PartialMaps(S, T)
      PROVE  /\ f = [x \in DOMAIN f |-> f[x]] /\ DOMAIN f \subseteq S
             /\ \A x \in DOMAIN f : f[x] \in T
  <2>1. PICK D \in SUBSET S : f \in [D -> T]
    BY <1>1 DEF PartialMaps
  <2> QED BY <2>1
<1>2. ASSUME f = [x \in DOMAIN f |-> f[x]], DOMAIN f \subseteq S,
             \A x \in DOMAIN f : f[x] \in T
      PROVE  f \in PartialMaps(S, T)
  <2>1. f \in [DOMAIN f -> T]
    BY <1>2
  <2> QED BY <1>2, <2>1 DEF PartialMaps
<1> QED BY <1>1, <1>2

\* Adding to a partial function stays in the set.
LEMMA PutType ==
  ASSUME NEW S, NEW T, NEW f \in PartialMaps(S, T), NEW k \in S, NEW v \in T
  PROVE  Put(f, k, v) \in PartialMaps(S, T)
<1> DEFINE g == [x \in DOMAIN f \cup {k} |-> IF x = k THEN v ELSE f[x]]
<1>1. DOMAIN f \subseteq S /\ \A x \in DOMAIN f : f[x] \in T
  BY MapIs
<1>2. g = [x \in DOMAIN g |-> g[x]] /\ DOMAIN g \subseteq S /\ \A x \in DOMAIN g : g[x] \in T
  BY <1>1
<1>3. g \in PartialMaps(S, T)
  <2> HIDE DEF g
  <2> QED BY <1>2, MapIs
<1> QED BY <1>3 DEF Put

\* A part of a partial function.
LEMMA RestrictIs ==
  ASSUME NEW S, NEW T, NEW f \in PartialMaps(S, T), NEW D, D \subseteq DOMAIN f
  PROVE  /\ Restrict(f, D) \in PartialMaps(S, T)
         /\ DOMAIN Restrict(f, D) = D
         /\ \A x \in D : Restrict(f, D)[x] = f[x]
<1> DEFINE g == [x \in D |-> f[x]]
<1>1. DOMAIN f \subseteq S /\ \A x \in DOMAIN f : f[x] \in T
  BY MapIs
<1>2. g = [x \in DOMAIN g |-> g[x]] /\ DOMAIN g \subseteq S /\ \A x \in DOMAIN g : g[x] \in T
  BY <1>1
<1>3. g \in PartialMaps(S, T)
  <2> HIDE DEF g
  <2> QED BY <1>2, MapIs
<1> QED BY <1>3 DEF Restrict

\* The empty map is one.
LEMMA NoneIs ==
  ASSUME NEW S, NEW T
  PROVE  NoEntries \in PartialMaps(S, T) /\ DOMAIN NoEntries = {}
<1>1. DOMAIN NoEntries = {} /\ NoEntries = [x \in DOMAIN NoEntries |-> NoEntries[x]]
  BY DEF NoEntries
<1> HIDE DEF NoEntries
<1> QED BY <1>1, MapIs

\* The processes of the two machines.
LEMMA ProcessIs ==
  /\ \A m \in Machines : <<m, "cli">> \in Processes /\ <<m, "serve">> \in Processes
  /\ Sync \in Processes /\ Server \in Processes
  /\ Source \in Machines /\ Follower \in Machines
  /\ \A p \in Processes : p[1] \in Machines /\ p[2] \in {"cli", "serve", "sync"} /\ p = <<p[1], p[2]>>
  /\ \A p \in Processes : p[2] = "sync" => p = Sync
  /\ Sync[1] = Follower /\ Sync[2] = "sync" /\ Server[1] = Source /\ Server[2] = "serve"
  BY DEF Processes, Machines, Sync, Server

\* The registers of a new command.
LEMMA IdleIs ==
  /\ Idle \in Registers /\ Idle.pc = "idle" /\ Idle.goal = "none" /\ Idle.next = NoEntries
  /\ Idle.retired = {} /\ Idle.failed = {} /\ Idle.created = {} /\ Idle.todo = NoEntries
<1>1. NoEntries \in EntryMap /\ NoEntries \in SecretMap
  BY NoneIs DEF EntryMap, SecretMap
<1> HIDE DEF NoEntries
<1> QED BY <1>1 DEF Idle, Registers, Places, Goals

\* The registers of a command that has read the manifest.
LEMMA HoldingIs ==
  ASSUME TypeInv, NEW m \in Machines, NEW goal \in Goals, NEW pc \in Places, NEW todo \in SecretMap
  PROVE  LET h == Holding(m, goal, pc, todo)
         IN  /\ h \in Registers /\ h.pc = pc /\ h.goal = goal /\ h.todo = todo
             /\ h.next = Entries(m) /\ h.retired = manifest[m].retired
             /\ h.failed = {} /\ h.created = {}
<1>1. manifest[m].entries \in EntryMap /\ manifest[m].retired \in SUBSET References
  BY DEF TypeInv
<1> QED BY <1>1, IdleIs DEF Holding, Registers, Entries

\* Own values are values.
LEMMA OwnIsSecret == \A m \in Machines : Own(m) \subseteq Secret
  BY DEF Secret

----------------------------------------------------------------------------
(* Every step keeps the types. *)

USE DEF Entries

\* A step of one process.
LEMMA GoesIs ==
  ASSUME TypeInv, NEW p \in Processes, NEW r \in Registers, Goes(p, r)
  PROVE  /\ proc' \in [Processes -> Registers] /\ proc'[p] = r
         /\ \A q \in Processes : q # p => proc'[q] = proc[q]
  BY DEF Goes, TypeInv

\* A process that ends holds nothing any more.
LEMMA EndsIs ==
  ASSUME TypeInv, NEW p \in Processes, Ends(p)
  PROVE  /\ proc' \in [Processes -> Registers] /\ proc'[p] = Idle
         /\ \A q \in Processes : q # p => proc'[q] = proc[q]
  BY GoesIs, IdleIs DEF Ends

\* The bounds.
LEMMA BoundsAre == MaxSecrets \in Nat /\ MaxEdits \in Nat /\ MaxTrouble \in Nat
  BY ConstantsAreSane

\* A command that reads the manifest is alone, or the machine has lapped.
LEMMA ReadsIs ==
  ASSUME TypeInv, NEW m \in Machines, Reads(m)
  PROVE  /\ lapped' \subseteq Machines /\ lapped \subseteq lapped' /\ trouble' \in 0 .. MaxTrouble
         /\ m \in lapped' \/ Alone(m)
  BY BoundsAre DEF Reads, TypeInv

\* Failures stay within their bound.
LEMMA TroubleIs ==
  ASSUME TypeInv, Faulty \/ Smooth
  PROVE  trouble' \in 0 .. MaxTrouble
  BY BoundsAre DEF Faulty, Smooth, TypeInv

\* So do the commands.
LEMMA EditIs ==
  ASSUME TypeInv, edits < MaxEdits /\ edits' = edits + 1
  PROVE  edits' \in 0 .. MaxEdits
  BY BoundsAre DEF TypeInv

\* The credential store after a value is stored, and after some are removed.
LEMMA StoreIs ==
  ASSUME TypeInv, NEW m \in Machines, NEW r \in References, NEW v \in Secret, StoreCredential(m, r, v)
  PROVE  /\ vault' \in [Machines -> VaultMap] /\ DOMAIN vault'[m] = DOMAIN vault[m] \cup {r}
         /\ vault'[m][r] = v /\ \A x \in DOMAIN vault[m] : x # r => vault'[m][x] = vault[m][x]
         /\ \A o \in Machines : o # m => vault'[o] = vault[o]
<1>1. vault \in [Machines -> VaultMap] /\ vault[m] \in VaultMap
  BY DEF TypeInv
<1> DEFINE w == Put(vault[m], r, v)
<1>2. w \in VaultMap /\ DOMAIN w = DOMAIN vault[m] \cup {r}
      /\ w[r] = v /\ \A x \in DOMAIN vault[m] : x # r => w[x] = vault[m][x]
  <2>1. w \in VaultMap
    BY <1>1, PutType DEF VaultMap
  <2> QED BY <2>1 DEF Put
<1>3. vault' = [vault EXCEPT ![m] = w]
  BY DEF StoreCredential
<1> HIDE DEF w
<1>4. vault' \in [Machines -> VaultMap] /\ vault'[m] = w /\ \A o \in Machines : o # m => vault'[o] = vault[o]
  BY <1>1, <1>2, <1>3
<1>5. DOMAIN w = DOMAIN vault'[m] /\ w[r] = vault'[m][r] /\ \A x : w[x] = vault'[m][x]
  BY <1>4
<1> QED BY <1>2, <1>4, <1>5

\* The credential store after some credentials are removed.
LEMMA RemoveIs ==
  ASSUME TypeInv, NEW m \in Machines, NEW gone, RemoveCredentials(m, gone)
  PROVE  /\ vault' \in [Machines -> VaultMap] /\ DOMAIN vault'[m] = DOMAIN vault[m] \ gone
         /\ \A x \in DOMAIN vault'[m] : vault'[m][x] = vault[m][x]
         /\ \A o \in Machines : o # m => vault'[o] = vault[o]
<1>1. vault[m] \in VaultMap
  BY DEF TypeInv
<1>2. /\ vault' = [vault EXCEPT ![m] = Restrict(vault[m], DOMAIN vault[m] \ gone)]
      /\ vault'[m] = Restrict(vault[m], DOMAIN vault[m] \ gone)
  BY DEF RemoveCredentials, TypeInv
<1> DEFINE D == DOMAIN vault[m] \ gone
<1>3. D \subseteq DOMAIN vault[m]
  OBVIOUS
<1> HIDE DEF D
<1>4. Restrict(vault[m], D) \in VaultMap /\ DOMAIN Restrict(vault[m], D) = D
      /\ \A x \in D : Restrict(vault[m], D)[x] = vault[m][x]
  BY <1>1, <1>3, RestrictIs DEF VaultMap
<1> QED BY <1>1, <1>2, <1>4 DEF TypeInv, D

\* The manifest after it was written.
LEMMA SavedIs ==
  ASSUME TypeInv, NEW m \in Machines, NEW e \in EntryMap, NEW r \in SUBSET References, Saved(m, e, r)
  PROVE  /\ manifest' \in [Machines -> [entries: EntryMap, retired: SUBSET References]]
         /\ manifest'[m].entries = e /\ manifest'[m].retired = r \ Refs(e)
         /\ \A o \in Machines : o # m => manifest'[o] = manifest[o]
  BY DEF Saved, TypeInv

\* Retiring an entry.
LEMMA RefIs ==
  ASSUME NEW e \in EntryMap
  PROVE  /\ Refs(e) \subseteq References /\ \A n \in DOMAIN e : e[n] \in AnEntry /\ e[n].ref \in References
         /\ DOMAIN e \subseteq Names
<1>1. DOMAIN e \subseteq Names /\ \A n \in DOMAIN e : e[n] \in AnEntry
  BY MapIs DEF EntryMap
<1>2. \A n \in DOMAIN e : e[n].ref \in References
  BY <1>1 DEF AnEntry
<1> QED BY <1>1, <1>2 DEF Refs

\* A command that gives up after it stored values.
LEMMA GivesUpIs ==
  ASSUME TypeInv, NEW p \in Processes, NEW fault, GivesUp(p, fault)
  PROVE  \E kept \in SUBSET proc[p].created :
           /\ Ends(p) /\ RemoveCredentials(p[1], proc[p].created \ kept)
           /\ leaked' = [leaked EXCEPT ![p[1]] = @ \cup kept]
           /\ leaked' \in [Machines -> SUBSET References] /\ trouble' \in 0 .. MaxTrouble
<1>1. PICK kept \in SUBSET proc[p].created :
        LET cost == (IF fault THEN 1 ELSE 0) + (IF kept = {} THEN 0 ELSE 1) IN
          /\ trouble + cost <= MaxTrouble /\ trouble' = trouble + cost
          /\ RemoveCredentials(p[1], proc[p].created \ kept)
          /\ leaked' = [leaked EXCEPT ![p[1]] = @ \cup kept]
          /\ Ends(p)
  BY DEF GivesUp
<1>2. trouble \in Nat /\ trouble' \in 0 .. MaxTrouble
  BY <1>1, BoundsAre DEF TypeInv
<1>3. kept \subseteq References
  BY DEF TypeInv, Registers
<1>4. leaked' \in [Machines -> SUBSET References]
  BY <1>1, <1>3, ProcessIs DEF TypeInv
<1> QED BY <1>1, <1>2, <1>4

\* The values of some entries that can be loaded.
LEMMA ValuesAre ==
  ASSUME TypeInv, NEW m \in Machines, NEW e \in EntryMap, NEW names \in SUBSET DOMAIN e, Loadable(m, e, names)
  PROVE  /\ Values(m, e, names) \in SecretMap /\ DOMAIN Values(m, e, names) = names
         /\ \A n \in names : e[n].ref \in DOMAIN vault[m] /\ Values(m, e, names)[n] = vault[m][e[n].ref]
<1> DEFINE g == [n \in names |-> vault[m][e[n].ref]]
<1>1. \A n \in names : e[n].ref \in DOMAIN vault[m] /\ n \in Names
  BY RefIs DEF Loadable
<1>2. \A r \in DOMAIN vault[m] : vault[m][r] \in Secret
  BY MapIs DEF TypeInv, VaultMap
<1>3. g = [n \in DOMAIN g |-> g[n]] /\ DOMAIN g \subseteq Names /\ \A n \in DOMAIN g : g[n] \in Secret
  BY <1>1, <1>2
<1>4. g \in SecretMap
  <2> HIDE DEF g
  <2> QED BY <1>3, MapIs DEF SecretMap
<1> QED BY <1>1, <1>4 DEF Values

\* One value stored under a new reference.
LEMMA StoreValueType ==
  ASSUME TypeInv, NEW p \in Processes, NEW n \in Names, StoreValue(p, n)
  PROVE  TypeInv'
<1> DEFINE m == p[1]
           r == Fresh(m)
           previous == IF n \in DOMAIN proc[p].next THEN {proc[p].next[n].ref} ELSE {}
           e == Entry(r, Origin(p))
           v == proc[p].todo[n]
           left == DOMAIN proc[p].todo \ {n}
           ps == [proc[p] EXCEPT !.next = Put(@, n, e), !.retired = @ \cup previous,
                                 !.created = @ \cup {r}, !.todo = Restrict(@, left)]
<1>1. m \in Machines /\ proc[p] \in Registers
  BY ProcessIs DEF TypeInv
<1>2. r \in References
  BY DEF StoreValue, Fresh, Unheard
<1>3. e \in AnEntry
  BY <1>2 DEF Entry, Origin, AnEntry
<1>4. proc[p].next \in EntryMap /\ proc[p].todo \in SecretMap
  BY <1>1 DEF Registers
<1>5. previous \subseteq References
  BY <1>4, RefIs
<1>6. v \in Secret
  BY <1>4, MapIs DEF StoreValue, SecretMap
<1>7. Put(proc[p].next, n, e) \in EntryMap
  BY <1>3, <1>4, PutType DEF EntryMap
<1>8. Restrict(proc[p].todo, left) \in SecretMap
  BY <1>4, RestrictIs DEF SecretMap
<1>9. Goes(p, ps) /\ StoreCredential(m, r, v) /\ Smooth /\ UNCHANGED <<manifest, leaked, world, lapped, edits>>
  BY DEF StoreValue
<1> HIDE DEF m, r, previous, e, v, left
<1>10. ps \in Registers
  BY <1>1, <1>2, <1>5, <1>7, <1>8 DEF Registers
<1> HIDE DEF ps
<1>11. proc' \in [Processes -> Registers]
  BY <1>9, <1>10, GoesIs
<1>12. vault' \in [Machines -> VaultMap]
  BY <1>1, <1>2, <1>6, <1>9, StoreIs
<1> QED BY <1>9, <1>11, <1>12, TroubleIs DEF TypeInv, world

\* The user's commands.
LEMMA CommandType ==
  ASSUME TypeInv, NEW m \in Machines, UserCommand(m)
  PROVE  TypeInv'
<1> DEFINE p == <<m, "cli">>
<1>1. p \in Processes
  BY ProcessIs
<1>2. ASSUME NEW t \in Typed[m], StoreSecret(m, t[1], t[2])
      PROVE  TypeInv'
  <2>1. t[1] \in Names /\ t[2] \in Secret
    BY ConstantsAreSane DEF Own, Secret
  <2>2. Put(NoEntries, t[1], t[2]) \in SecretMap
    BY <2>1, PutType, NoneIs DEF SecretMap
  <2>3. Holding(m, "set", "measure", Put(NoEntries, t[1], t[2])) \in Registers
    BY <2>2, HoldingIs DEF Goals, Places
  <2>4. proc' \in [Processes -> Registers]
    BY <1>1, <1>2, <2>3, GoesIs DEF StoreSecret
  <2> QED BY <1>2, <2>4, ReadsIs, EditIs DEF StoreSecret, TypeInv, files, world
<1>3. ASSUME NEW n \in Names, RemoveSecret(m, n)
      PROVE  TypeInv'
  <2> DEFINE held == Holding(m, "remove", "write", NoEntries)
             rest == DOMAIN Entries(m) \ {n}
             ps == [held EXCEPT !.next = Restrict(@, DOMAIN @ \ {n}),
                                !.retired = @ \cup {manifest[m].entries[n].ref}]
  <2>1. held \in Registers /\ held.next = Entries(m)
    BY NoneIs, HoldingIs DEF Goals, Places, SecretMap
  <2>2. Entries(m) \in EntryMap /\ n \in DOMAIN Entries(m)
    BY <1>3 DEF TypeInv, RemoveSecret
  <2>3. Restrict(Entries(m), rest) \in EntryMap
    BY <2>2, RestrictIs DEF EntryMap
  <2>4. manifest[m].entries[n].ref \in References
    BY <2>2, RefIs
  <2>5. Goes(p, ps)
    BY <1>3 DEF RemoveSecret
  <2> HIDE DEF held
  <2>6. ps \in Registers
    BY <2>1, <2>3, <2>4 DEF Registers
  <2> HIDE DEF ps
  <2>7. proc' \in [Processes -> Registers]
    BY <1>1, <2>5, <2>6, GoesIs
  <2> QED BY <1>3, <2>7, ReadsIs, EditIs DEF RemoveSecret, TypeInv, files, world
<1> QED BY <1>2, <1>3 DEF UserCommand

\* One credential removed, or kept for another try.
LEMMA RemoveType ==
  ASSUME TypeInv, NEW p \in Processes, RemoveOne(p)
  PROVE  TypeInv'
<1> DEFINE m == p[1]
           rest(r) == [proc[p] EXCEPT !.pc = "removing", !.retired = @ \ {r}]
<1>1. m \in Machines /\ proc[p] \in Registers
  BY ProcessIs DEF TypeInv
<1>2. PICK r \in proc[p].retired :
        \/ RemoveCredentials(m, {r}) /\ Goes(p, rest(r)) /\ Smooth
        \/ /\ Smooth \/ Faulty
           /\ Goes(p, [rest(r) EXCEPT !.failed = @ \cup {r}])
           /\ UNCHANGED vault
  BY DEF RemoveOne
<1>3. r \in References
  BY <1>1 DEF Registers
<1>4. rest(r) \in Registers /\ [rest(r) EXCEPT !.failed = @ \cup {r}] \in Registers
  BY <1>1, <1>3 DEF Registers, Places
<1> HIDE DEF m, rest
<1>5. proc' \in [Processes -> Registers] /\ vault' \in [Machines -> VaultMap]
  BY <1>1, <1>2, <1>4, GoesIs, RemoveIs DEF TypeInv
<1> QED BY <1>2, <1>5, TroubleIs DEF RemoveOne, TypeInv, world

\* The manifest written, before and after the removals.
LEMMA WriteType ==
  ASSUME TypeInv, NEW p \in Processes, WriteManifest(p) \/ Settle(p) \/ SettleFails(p)
  PROVE  TypeInv'
<1>1. p[1] \in Machines /\ proc[p] \in Registers /\ proc[p].next \in EntryMap
      /\ proc[p].retired \in SUBSET References /\ proc[p].failed \in SUBSET References
  BY ProcessIs DEF TypeInv, Registers
<1>2. /\ [proc[p] EXCEPT !.pc = "remove", !.created = {}] \in Registers
      /\ [proc[p] EXCEPT !.pc = "check"] \in Registers /\ [proc[p] EXCEPT !.pc = "load"] \in Registers
  BY <1>1 DEF Registers, Places
<1>3. CASE WriteManifest(p)
  <2>1. proc' \in [Processes -> Registers]
    BY <1>2, <1>3, GoesIs DEF WriteManifest
  <2>2. manifest' \in [Machines -> [entries: EntryMap, retired: SUBSET References]]
    BY <1>1, <1>3, SavedIs DEF WriteManifest
  <2> QED BY <1>3, <2>1, <2>2, TroubleIs DEF WriteManifest, TypeInv, world
<1>4. CASE Settle(p)
  <2>1. proc' \in [Processes -> Registers]
    <3>1. Continues(p) => proc' \in [Processes -> Registers]
      BY <1>2, GoesIs, EndsIs DEF Continues
    <3> QED BY <1>4, <3>1, EndsIs DEF Settle
  <2>2. manifest' \in [Machines -> [entries: EntryMap, retired: SUBSET References]]
    BY <1>1, <1>4, SavedIs DEF Settle, TypeInv
  <2> QED BY <1>4, <2>1, <2>2, TroubleIs DEF Settle, TypeInv, world
<1>5. CASE SettleFails(p)
  BY <1>5, EndsIs, TroubleIs DEF SettleFails, TypeInv, world, files
<1> QED BY <1>3, <1>4, <1>5

\* A command that fails, and a process that dies.
LEMMA FailType ==
  ASSUME TypeInv, NEW p \in Processes, StoreFails(p) \/ WriteFails(p) \/ Crash(p)
  PROVE  TypeInv'
<1>1. p[1] \in Machines /\ proc[p].created \subseteq References
  BY ProcessIs DEF TypeInv, Registers
<1>2. CASE StoreFails(p) \/ WriteFails(p)
  <2>1. \E fault : GivesUp(p, fault)
    BY <1>2 DEF StoreFails, WriteFails
  <2>2. PICK kept \in SUBSET proc[p].created :
           /\ Ends(p) /\ RemoveCredentials(p[1], proc[p].created \ kept)
           /\ leaked' \in [Machines -> SUBSET References] /\ trouble' \in 0 .. MaxTrouble
    BY <2>1, GivesUpIs
  <2> QED BY <1>1, <1>2, <2>2, EndsIs, RemoveIs DEF StoreFails, WriteFails, TypeInv, world
<1>3. CASE Crash(p)
  <2>1. leaked' \in [Machines -> SUBSET References]
    BY <1>1, <1>3 DEF Crash, TypeInv
  <2> QED BY <1>3, <2>1, EndsIs, TroubleIs DEF Crash, TypeInv, world
<1> QED BY <1>2, <1>3

\* A process that only moves on.
LEMMA PcType ==
  ASSUME TypeInv, NEW p \in Processes, NEW pc \in Places, NEW goal \in Goals
  PROVE  /\ [proc[p] EXCEPT !.pc = pc] \in Registers
         /\ [Idle EXCEPT !.pc = pc] \in Registers
         /\ [proc[p] EXCEPT !.goal = goal, !.pc = pc] \in Registers
  BY IdleIs DEF TypeInv, Registers

\* The payload budget of a secrets set.
LEMMA MeasureType ==
  ASSUME TypeInv, NEW p \in Processes, Measure(p)
  PROVE  TypeInv'
<1>1. proc' \in [Processes -> Registers] /\ (Smooth \/ Faulty)
  BY PcType, GoesIs, EndsIs DEF Measure, Places, Goals
<1> QED BY <1>1, TroubleIs DEF Measure, TypeInv, files, world

\* A request that is refused, or taken up by a server.
LEMMA ServeType ==
  ASSUME TypeInv, Refuse \/ Serve \/ ServeForeign
  PROVE  TypeInv'
<1>1. CASE Refuse
  BY <1>1, PcType, ProcessIs, GoesIs, TroubleIs DEF Refuse, TypeInv, files, world, Places, Goals
<1>2. \A m \in Machines : Holding(m, "serve", "remove", NoEntries) \in Registers
  BY HoldingIs, NoneIs DEF Places, Goals, SecretMap
<1>3. CASE Serve
  <2>1. [proc[Sync] EXCEPT !.pc = "asked"] \in Registers
    BY ProcessIs, PcType DEF Places, Goals
  <2>2. Holding(Source, "serve", "remove", NoEntries) \in Registers
    BY <1>2, ProcessIs
  <2> DEFINE h == Holding(Source, "serve", "remove", NoEntries)
  <2>3. proc' = [proc EXCEPT ![Server] = h, ![Sync].pc = "asked"]
    BY <1>3 DEF Serve
  <2> HIDE DEF h
  <2>4. Server # Sync
    BY DEF Server, Sync
  <2>5. proc' \in [Processes -> Registers]
    BY <2>1, <2>2, <2>3, <2>4, ProcessIs DEF TypeInv, h
  <2> QED BY <1>3, <2>5, ReadsIs, ProcessIs DEF Serve, TypeInv, files, world
<1>4. CASE ServeForeign
  <2>1. proc' \in [Processes -> Registers]
    BY <1>2, <1>4, ProcessIs, GoesIs DEF ServeForeign
  <2> QED BY <1>4, <2>1, ReadsIs, EditIs, ProcessIs DEF ServeForeign, TypeInv, files, world
<1> QED BY <1>1, <1>3, <1>4

\* A server that answers, and the answer that arrives.
LEMMA AnswerType ==
  ASSUME TypeInv, NEW m \in Machines, Answer(m) \/ AnswerFails(m) \/ Deliver(m)
  PROVE  TypeInv'
<1> DEFINE p == <<m, "serve">>
<1>1. p \in Processes /\ proc[p].next \in EntryMap
  BY ProcessIs DEF TypeInv, Registers
<1>2. CASE Answer(m)
  <2> DEFINE payload == Values(m, proc[p].next, Local(proc[p].next))
  <2>1. payload \in SecretMap
    BY <1>1, <1>2, ValuesAre, ProcessIs DEF Answer, CanAnswer, Local
  <2>2. Goes(p, [Idle EXCEPT !.pc = "sent", !.todo = payload])
    BY <1>2 DEF Answer
  <2> HIDE DEF payload
  <2>3. [Idle EXCEPT !.pc = "sent", !.todo = payload] \in Registers
    BY <2>1, IdleIs DEF Registers, Places
  <2> QED BY <1>1, <1>2, <2>2, <2>3, GoesIs, TroubleIs DEF Answer, TypeInv, files, world
<1>3. CASE AnswerFails(m)
  BY <1>1, <1>3, EndsIs, TroubleIs DEF AnswerFails, TypeInv, files, world
<1>4. CASE Deliver(m)
  <2>1. proc[p].todo \in SecretMap
    BY <1>1 DEF TypeInv, Registers
  <2>2. [Idle EXCEPT !.pc = "answered", !.todo = proc[p].todo] \in Registers
    BY <2>1, IdleIs DEF Registers, Places
  <2>3. proc' \in [Processes -> Registers]
    BY <1>4, <2>2, IdleIs DEF Deliver, TypeInv
  <2> QED BY <1>4, <2>3, TroubleIs DEF Deliver, TypeInv, files, world
<1> QED BY <1>2, <1>3, <1>4

\* The follower's sync, from its start to the check of the names.
LEMMA SyncType ==
  ASSUME TypeInv, StartSync \/ NoAnswer \/ ClearTransferred \/ ApplyTransferred \/ CheckNames
  PROVE  TypeInv'
<1>1. Sync \in Processes /\ Follower \in Machines /\ proc[Sync] \in Registers
  BY ProcessIs DEF TypeInv
<1>2. CASE StartSync \/ NoAnswer
  <2>1. proc' \in [Processes -> Registers]
    BY <1>1, <1>2, PcType, GoesIs, EndsIs DEF StartSync, NoAnswer, Places, Goals
  <2> QED BY <1>2, <2>1, TroubleIs DEF StartSync, NoAnswer, TypeInv, files, world
<1>3. CASE ClearTransferred
  <2> DEFINE held == Holding(Follower, "clear", "write", NoEntries)
             source == Remote(Entries(Follower))
             refs == {Entries(Follower)[n].ref : n \in source}
             ps == [held EXCEPT !.next = Restrict(@, Local(@)), !.retired = @ \cup refs]
  <2>1. held \in Registers /\ held.next = Entries(Follower)
    BY <1>1, NoneIs, HoldingIs DEF Goals, Places, SecretMap
  <2>2. Entries(Follower) \in EntryMap
    BY <1>1 DEF TypeInv
  <2>3. Restrict(Entries(Follower), Local(Entries(Follower))) \in EntryMap
    BY <2>2, RestrictIs DEF EntryMap, Local
  <2>4. refs \subseteq References
    BY <2>2, RefIs DEF Remote
  <2>5. Ends(Sync) \/ Goes(Sync, ps)
    BY <1>3, <2>1 DEF ClearTransferred
  <2> HIDE DEF held, refs
  <2>6. ps \in Registers
    BY <2>1, <2>3, <2>4 DEF Registers
  <2> HIDE DEF ps
  <2>7. proc' \in [Processes -> Registers]
    BY <1>1, <2>5, <2>6, GoesIs, EndsIs
  <2> QED BY <1>1, <1>3, <2>7, ReadsIs DEF ClearTransferred, TypeInv, files, world
<1>4. CASE ApplyTransferred
  <2>1. proc[Sync].todo \in SecretMap
    BY <1>1 DEF Registers
  <2>2. Holding(Follower, "sweep", "remove", proc[Sync].todo) \in Registers
    BY <1>1, <2>1, HoldingIs DEF Goals, Places
  <2>3. proc' \in [Processes -> Registers]
    BY <1>1, <1>4, <2>2, GoesIs DEF ApplyTransferred
  <2> QED BY <1>1, <1>4, <2>3, ReadsIs DEF ApplyTransferred, TypeInv, files, world
<1>5. CASE CheckNames
  <2> DEFINE entries == proc[Sync].next
             refs == {entries[n].ref : n \in Remote(entries)}
             next == Restrict(entries, Local(entries))
  <2>1. entries \in EntryMap
    BY <1>1 DEF Registers
  <2>2. next \in EntryMap
    BY <2>1, RestrictIs DEF EntryMap, Local
  <2>3. refs \in SUBSET References
    BY <2>1, RefIs DEF Remote
  <2>4. \/ Ends(Sync)
        \/ Goes(Sync, [proc[Sync] EXCEPT !.goal = "apply", !.pc = "store", !.next = next, !.retired = refs])
    BY <1>5 DEF CheckNames
  <2> HIDE DEF next, refs
  <2>5. [proc[Sync] EXCEPT !.goal = "apply", !.pc = "store", !.next = next, !.retired = refs] \in Registers
    BY <1>1, <2>2, <2>3 DEF Registers, Places, Goals
  <2>6. proc' \in [Processes -> Registers]
    BY <1>1, <2>4, <2>5, GoesIs, EndsIs
  <2> QED BY <1>5, <2>6, TroubleIs DEF CheckNames, TypeInv, files, world
<1> QED BY <1>2, <1>3, <1>4, <1>5

\* The first files and stores.
LEMMA InitType ==
  ASSUME Init
  PROVE  TypeInv
<1>1. HeldRefs \in [DOMAIN Held -> References]
  BY ConstantsAreSane DEF HeldRefs
<1>2. DOMAIN Held \subseteq Names
  BY ConstantsAreSane
<1>3. NoEntries \in EntryMap /\ NoEntries \in VaultMap
  BY NoneIs DEF EntryMap, VaultMap
<1> DEFINE e == [n \in DOMAIN Held |-> [ref |-> HeldRefs[n], origin |-> "local"]]
           v == [r \in Range(HeldRefs) |-> Held[CHOOSE n \in DOMAIN Held : HeldRefs[n] = r]]
<1>4. e = [n \in DOMAIN e |-> e[n]] /\ DOMAIN e \subseteq Names /\ \A n \in DOMAIN e : e[n] \in AnEntry
  BY <1>1, <1>2 DEF AnEntry
<1>5. v = [r \in DOMAIN v |-> v[r]] /\ DOMAIN v \subseteq References
  BY <1>1 DEF Range
<1>6. \A r \in DOMAIN v : v[r] \in Secret
  <2> SUFFICES ASSUME NEW r \in DOMAIN v
               PROVE  v[r] \in Secret
    OBVIOUS
  <2>1. r \in Range(HeldRefs)
    OBVIOUS
  <2>2. \E n \in DOMAIN Held : HeldRefs[n] = r
    BY <1>1, <2>1 DEF Range
  <2>3. (CHOOSE n \in DOMAIN Held : HeldRefs[n] = r) \in DOMAIN Held
    BY <2>2
  <2>4. v[r] = Held[CHOOSE n \in DOMAIN Held : HeldRefs[n] = r]
    BY <2>1
  <2>5. v[r] \in Range(Held)
    BY <2>3, <2>4 DEF Range
  <2>6. v[r] \in Own(Source)
    <3> HIDE DEF v
    <3> QED BY <2>5 DEF Own
  <2> HIDE DEF v
  <2> QED BY <2>6, OwnIsSecret, ProcessIs
<1>7. e \in EntryMap
  <2> HIDE DEF e
  <2> QED BY <1>4, MapIs DEF EntryMap
<1>8. v \in VaultMap
  <2> HIDE DEF v
  <2> QED BY <1>5, <1>6, MapIs DEF VaultMap
<1>9. manifest = [m \in Machines |-> [entries |-> IF m = Follower THEN NoEntries ELSE e, retired |-> {}]]
  BY DEF Init
<1>10. vault = [m \in Machines |-> IF m = Follower THEN NoEntries ELSE v]
  BY DEF Init
<1> HIDE DEF e, v
<1>11. manifest \in [Machines -> [entries: EntryMap, retired: SUBSET References]]
       /\ vault \in [Machines -> VaultMap]
  BY <1>3, <1>7, <1>8, <1>9, <1>10
<1>12. proc = [p \in Processes |-> Idle] /\ grant = "shared" /\ believed = TRUE
       /\ lapped = {} /\ leaked = [m \in Machines |-> {}] /\ edits = 0 /\ trouble = 0
  BY DEF Init
<1>13. proc \in [Processes -> Registers]
  BY <1>12, IdleIs
<1> QED BY <1>11, <1>12, <1>13, BoundsAre DEF TypeInv

\* Every step.
LEMMA NextType ==
  ASSUME TypeInv, [Next]_vars
  PROVE  TypeInv'
<1>1. CASE UNCHANGED vars
  BY <1>1 DEF vars, TypeInv
<1>2. ASSUME NEW p \in Processes, Step(p) \/ Crash(p)
      PROVE  TypeInv'
  BY <1>2, MeasureType, StoreValueType, FailType, WriteType, RemoveType DEF Step
<1>3. CASE Exchange \/ StartSync \/ ServeForeign
  BY <1>3, ServeType, AnswerType, SyncType DEF Exchange
<1>4. ASSUME NEW g \in {"shared", "unshared", "revoked"}, Grant(g)
      PROVE  TypeInv'
  BY <1>4, EditIs DEF Grant, TypeInv, files
<1>5. CASE LearnGrant
  BY <1>5 DEF LearnGrant, TypeInv, files
<1> QED BY <1>1, <1>2, <1>3, <1>4, <1>5, CommandType DEF Next

\* The files, the stores and the registers of every process have their types,
\* for any names, values and references and any number of commands.
THEOREM SecretsTyped == Sharing => []TypeOK
<1>1. Init => TypeInv
  BY InitType
<1>2. TypeInv /\ [Next]_vars => TypeInv'
  BY NextType
<1>3. TypeInv => TypeOK
  <2> SUFFICES ASSUME TypeInv
               PROVE  TypeOK
    OBVIOUS
  <2>1. ASSUME NEW m \in Machines
        PROVE  /\ SomeEntries(Entries(m)) /\ manifest[m].retired \subseteq References
               /\ DOMAIN vault[m] \subseteq References /\ leaked[m] \subseteq References
    <3>1. Entries(m) \in EntryMap /\ vault[m] \in VaultMap
      BY DEF TypeInv
    <3> QED BY <3>1, MapIs DEF TypeInv, SomeEntries, EntryMap, VaultMap
  <2>2. ASSUME NEW p \in Processes
        PROVE  /\ SomeEntries(proc[p].next)
               /\ proc[p].retired \cup proc[p].failed \cup proc[p].created \subseteq References
               /\ DOMAIN proc[p].todo \subseteq Names
               /\ proc[p].goal \in {"none", "set", "remove", "serve", "sweep", "clear", "apply"}
    <3>1. proc[p] \in Registers
      BY DEF TypeInv
    <3>2. proc[p].next \in EntryMap /\ proc[p].todo \in SecretMap
      BY <3>1 DEF Registers
    <3> QED BY <3>1, <3>2, MapIs DEF SomeEntries, EntryMap, SecretMap, Registers, Goals
  <2> QED BY <2>1, <2>2 DEF TypeOK, TypeInv
<1> QED BY <1>1, <1>2, <1>3, PTL DEF Sharing

----------------------------------------------------------------------------
(* The inductive invariant. *)

Blank(p) == /\ proc[p].next = NoEntries /\ proc[p].retired = {} /\ proc[p].failed = {}
            /\ proc[p].created = {}
Quiet(p) == ~Using(p) /\ Blank(p)

\* What each kind of process does, and that values are only stored at "store".
PlaceInv(p) ==
  /\ ~Using(p) => Blank(p)
  /\ p[2] = "cli" => /\ proc[p].pc \in {"idle", "measure", "store", "write", "remove", "removing"}
                     /\ Using(p) => proc[p].goal \in {"set", "remove"}
  /\ p[2] = "serve" => /\ proc[p].pc \in {"idle", "remove", "removing", "load", "sent"}
                       /\ Using(p) => proc[p].goal = "serve"
  /\ p[2] = "sync" => /\ proc[p].pc \in {"idle", "await", "asked", "answered", "refused", "write",
                                         "remove", "removing", "check", "store"}
                      /\ Using(p) => proc[p].goal \in {"sweep", "clear", "apply"}
  /\ proc[p].created # {} => proc[p].pc = "store"

\* The values behind the local entries e of machine m are its user's.
OwnValues(m, e) ==
  \A n \in Local(e) : e[n].ref \in DOMAIN vault[m] => vault[m][e[n].ref] \in Own(m)
OwnInv(p) ==
  /\ OwnValues(p[1], proc[p].next)
  /\ p # Sync => \A n \in DOMAIN proc[p].todo : proc[p].todo[n] \in Own(p[1])

\* No two names share a credential.
Distinct(e) == \A n, o \in DOMAIN e : n # o => e[n].ref # e[o].ref
Disjoint(A, B) == \A x \in A : x \notin B

\* The manifest and the store of machine m.
WorldInv(m) ==
  /\ Distinct(Entries(m)) /\ Refs(Entries(m)) \subseteq DOMAIN vault[m]
  /\ Disjoint(manifest[m].retired, Refs(Entries(m)))
  /\ \A r \in DOMAIN vault[m] :
       \/ r \in Refs(Entries(m)) \/ r \in manifest[m].retired \/ r \in leaked[m]
       \/ \E q \in Processes : q[1] = m /\ r \in proc[q].created

SoleInv(m) == \A p, q \in Processes : p[1] = m /\ q[1] = m /\ Using(p) /\ Using(q) => p = q

\* What a process relies on about the manifest it read and the store.
KnowInv(p) ==
  LET m == p[1]
      pc == proc[p].pc
      next == proc[p].next
      retired == proc[p].retired
      failed == proc[p].failed
  IN
  /\ pc \in {"measure", "remove", "removing", "check", "load"} => next = Entries(m)
  /\ pc \in {"measure", "remove"} => retired = manifest[m].retired
  /\ pc \in {"measure", "remove", "check", "load", "store", "write"} => failed = {}
  /\ pc \in {"remove", "removing"} =>
       /\ \A r \in manifest[m].retired : r \in DOMAIN vault[m] => r \in retired \cup failed
       /\ Disjoint(retired \cup failed, Refs(next))
  /\ pc \in {"check", "load"} => retired = {} /\ manifest[m].retired = {}
  /\ pc \in {"store", "write"} =>
       /\ Distinct(next) /\ Refs(next) \subseteq DOMAIN vault[m] /\ Disjoint(retired, Refs(next))
       /\ Refs(Entries(m)) \cup manifest[m].retired \cup proc[p].created \subseteq Refs(next) \cup retired
       /\ Disjoint(proc[p].created, Refs(Entries(m)))
       /\ p = Sync => /\ Local(next) = Local(Entries(m))
                      /\ \A n \in Local(next) : next[n] = Entries(m)[n]
  /\ pc = "store" /\ p = Sync => \A n \in DOMAIN proc[p].todo : n \notin Local(next)

Inv ==
  /\ \A p \in Processes : PlaceInv(p) /\ OwnInv(p) /\ (p[1] \notin lapped => KnowInv(p))
  /\ \A m \in Machines : OwnValues(m, Entries(m)) /\ (m \notin lapped => WorldInv(m) /\ SoleInv(m))

----------------------------------------------------------------------------
(* Entries. *)

\* A reference of some entries is that of one of them.
LEMMA InRefs ==
  ASSUME NEW e, NEW r
  PROVE  r \in Refs(e) <=> \E n \in DOMAIN e : e[n].ref = r
  BY DEF Refs

\* The user's entries and the received ones.
LEMMA InLocal ==
  ASSUME NEW e
  PROVE  /\ \A n : n \in Local(e) <=> n \in DOMAIN e /\ e[n].origin = "local"
         /\ \A n : n \in Remote(e) <=> n \in DOMAIN e /\ n \notin Local(e)
  BY DEF Local, Remote

\* Nothing is in the empty map.
LEMMA NoneHas == Refs(NoEntries) = {} /\ Local(NoEntries) = {} /\ Distinct(NoEntries) /\ DOMAIN NoEntries = {}
  BY DEF Refs, Local, Distinct, NoEntries

\* Giving a name a new credential displaces at most the previous one.
LEMMA PutRefs ==
  ASSUME NEW e, NEW n, NEW r, NEW o, Distinct(e), r \notin Refs(e)
  PROVE  LET g == Put(e, n, Entry(r, o))
             previous == IF n \in DOMAIN e THEN {e[n].ref} ELSE {}
         IN  /\ Distinct(g) /\ Refs(g) \subseteq Refs(e) \cup {r} /\ r \in Refs(g)
             /\ Refs(e) \subseteq Refs(g) \cup previous /\ Disjoint(previous, Refs(g))
<1> DEFINE g == Put(e, n, Entry(r, o))
           previous == IF n \in DOMAIN e THEN {e[n].ref} ELSE {}
<1>1. DOMAIN g = DOMAIN e \cup {n} /\ g[n].ref = r /\ \A x \in DOMAIN e : x # n => g[x] = e[x]
  BY DEF Put, Entry
<1> HIDE DEF g
<1>2. \A x \in DOMAIN e : e[x].ref # r
  BY InRefs
<1>3. \A x : x \in Refs(e) <=> \E y \in DOMAIN e : e[y].ref = x
  BY InRefs
<1>4. \A x : x \in Refs(g) <=> \E y \in DOMAIN g : g[y].ref = x
  BY InRefs
<1>5. Distinct(g)
  BY <1>1, <1>2 DEF Distinct
<1>6. Refs(g) \subseteq Refs(e) \cup {r} /\ r \in Refs(g)
  BY <1>1, <1>3, <1>4
<1>7. Refs(e) \subseteq Refs(g) \cup previous
  <2> SUFFICES ASSUME NEW y \in DOMAIN e
               PROVE  e[y].ref \in Refs(g) \cup previous
    BY <1>3
  <2> QED BY <1>1, <1>4
<1>8. Disjoint(previous, Refs(g))
  BY <1>1, <1>2, <1>4 DEF Disjoint, Distinct
<1> QED BY <1>5, <1>6, <1>7, <1>8 DEF g

\* Keeping some names gives up the credentials of the others.
LEMMA RestrictRefs ==
  ASSUME NEW e, NEW D, D \subseteq DOMAIN e, Distinct(e)
  PROVE  LET g == Restrict(e, D)
             rest == {e[n].ref : n \in DOMAIN e \ D}
         IN  /\ Distinct(g) /\ Refs(g) \subseteq Refs(e)
             /\ Refs(e) \subseteq Refs(g) \cup rest /\ Disjoint(rest, Refs(g))
<1> DEFINE g == Restrict(e, D)
           rest == {e[n].ref : n \in DOMAIN e \ D}
<1>1. DOMAIN g = D /\ \A x \in D : g[x] = e[x]
  BY DEF Restrict
<1> HIDE DEF g
<1>2. \A x : x \in Refs(e) <=> \E y \in DOMAIN e : e[y].ref = x
  BY InRefs
<1>3. \A x : x \in Refs(g) <=> \E y \in DOMAIN g : g[y].ref = x
  BY InRefs
<1>4. Distinct(g) /\ Refs(g) \subseteq Refs(e)
  BY <1>1, <1>2, <1>3 DEF Distinct
<1>5. Refs(e) \subseteq Refs(g) \cup rest
  BY <1>1, <1>2, <1>3
<1>6. Disjoint(rest, Refs(g))
  BY <1>1, <1>3 DEF Disjoint, Distinct
<1> QED BY <1>4, <1>5, <1>6 DEF g

\* A reference that nobody has heard of.
LEMMA FreshIs ==
  ASSUME NEW p \in Processes, Unheard(p[1]) # {}
  PROVE  Fresh(p[1]) \in Unheard(p[1]) /\ Fresh(p[1]) \in References
  BY DEF Fresh, Unheard

\* It is in no store, no manifest and no register of the machine.
LEMMA UnheardIs ==
  ASSUME NEW m \in Machines, NEW r \in Unheard(m)
  PROVE  /\ r \notin DOMAIN vault[m] /\ r \notin Refs(Entries(m)) /\ r \notin manifest[m].retired
         /\ \A q \in Processes : q[1] = m =>
              r \notin Refs(proc[q].next) /\ r \notin proc[q].retired /\ r \notin proc[q].created
  BY DEF Unheard, InUse

----------------------------------------------------------------------------
(* A step of one process concerns its own machine, and there only it. *)

\* A quiet process relies on nothing.
LEMMA QuietKnows ==
  ASSUME NEW p \in Processes, Quiet(p)'
  PROVE  KnowInv(p)' /\ OwnValues(p[1], proc[p].next)'
<1>1. proc'[p].pc \in {"idle", "await", "asked", "answered", "refused", "sent"} /\ proc'[p].next = NoEntries
  BY DEF Quiet, Using, Blank
<1>2. KnowInv(p)'
  BY <1>1 DEF KnowInv
<1>3. OwnValues(p[1], proc[p].next)'
  BY <1>1, NoneHas DEF OwnValues
<1> QED BY <1>2, <1>3

\* What such a step has to show for the invariant to hold after it: the process
\* that takes it, the files of its machine, and that it is alone or under way.
LEMMA Acts ==
  ASSUME TypeInv, TypeInv', Inv, NEW p \in Processes,
         \A q \in Processes : q # p =>
           proc'[q] = proc[q] \/ (q = Sync /\ Quiet(q) /\ Quiet(q)' /\ PlaceInv(q)'),
         \A m \in Machines : m # p[1] =>
           manifest'[m] = manifest[m] /\ vault'[m] = vault[m] /\ leaked'[m] = leaked[m],
         lapped \subseteq lapped',
         \A r \in DOMAIN vault'[p[1]] :
           (r \in DOMAIN vault[p[1]] /\ vault'[p[1]][r] = vault[p[1]][r]) \/ r \in Unheard(p[1]),
         PlaceInv(p)', OwnInv(p)', OwnValues(p[1], Entries(p[1]))',
         p[1] \notin lapped' => /\ WorldInv(p[1])' /\ KnowInv(p)'
                                /\ \/ Using(p) \/ Alone(p[1])
                                   \/ ~Using(p)' /\ UNCHANGED <<manifest, vault>>
  PROVE  Inv'
<1>1. \A q \in Processes : q[1] \in Machines
  BY ProcessIs
<1>2. ASSUME NEW q \in Processes, q # p
      PROVE  PlaceInv(q)' /\ proc'[q].created = proc[q].created /\ (Using(q)' <=> Using(q))
  <2>1. CASE proc'[q] = proc[q]
    <3>1. PlaceInv(q)
      BY DEF Inv
    <3>2. PlaceInv(q)'
      BY <2>1, <3>1 DEF PlaceInv, Using, Blank
    <3> QED BY <2>1, <3>2 DEF Using
  <2>2. CASE Quiet(q) /\ Quiet(q)' /\ PlaceInv(q)'
    BY <2>2 DEF Quiet, Blank
  <2> QED BY <1>2, <2>1, <2>2
<1>3. ASSUME NEW m \in Machines, NEW e, OwnValues(m, e),
             m = p[1] => \A r \in Unheard(m) : r \notin Refs(e)
      PROVE  \A n \in Local(e) : e[n].ref \in DOMAIN vault'[m] => vault'[m][e[n].ref] \in Own(m)
  <2> SUFFICES ASSUME NEW n \in Local(e), e[n].ref \in DOMAIN vault'[m]
               PROVE  vault'[m][e[n].ref] \in Own(m)
    OBVIOUS
  <2>1. e[n].ref \in Refs(e)
    BY InLocal, InRefs
  <2>2. e[n].ref \in DOMAIN vault[m] /\ vault'[m][e[n].ref] = vault[m][e[n].ref]
    BY <1>3, <2>1
  <2> QED BY <1>3, <2>2 DEF OwnValues
<1>4. ASSUME NEW q \in Processes, q # p
      PROVE  OwnInv(q)'
  <2>1. CASE q = Sync /\ Quiet(q)'
    BY <2>1, QuietKnows DEF OwnInv
  <2>2. CASE proc'[q] = proc[q]
    <3>1. OwnInv(q) /\ q[1] \in Machines
      BY <1>1 DEF Inv
    <3>2. q[1] = p[1] => \A r \in Unheard(q[1]) : r \notin Refs(proc[q].next)
      BY <3>1, UnheardIs
    <3>3. \A n \in Local(proc[q].next) :
            proc[q].next[n].ref \in DOMAIN vault'[q[1]] => vault'[q[1]][proc[q].next[n].ref] \in Own(q[1])
      BY <1>3, <3>1, <3>2 DEF OwnInv
    <3> QED BY <2>2, <3>1, <3>3 DEF OwnInv, OwnValues
  <2> QED BY <1>4, <2>1, <2>2
<1>5. ASSUME NEW q \in Processes, q # p, q[1] \notin lapped'
      PROVE  KnowInv(q)'
  <2>1. CASE ~Using(q)'
    BY <1>2, <1>5, <2>1, QuietKnows DEF Quiet, PlaceInv
  <2>2. CASE Using(q)'
    <3>1. proc'[q] = proc[q] /\ Using(q) /\ q[1] \in Machines
      BY <1>1, <1>2, <1>5, <2>2 DEF Quiet
    <3>2. KnowInv(q) /\ SoleInv(q[1])
      BY <1>5, <3>1 DEF Inv
    <3>3. q[1] = p[1] => ~Using(p) /\ ~Alone(p[1])
      BY <1>5, <3>1, <3>2 DEF SoleInv, Alone
    <3>4. manifest'[q[1]] = manifest[q[1]] /\ vault'[q[1]] = vault[q[1]]
      BY <1>5, <3>1, <3>3
    <3> QED BY <3>1, <3>2, <3>4 DEF KnowInv
  <2> QED BY <2>1, <2>2
<1>6. ASSUME NEW m \in Machines, m # p[1]
      PROVE  OwnValues(m, Entries(m))'
  <2>1. OwnValues(m, Entries(m)) /\ manifest'[m] = manifest[m] /\ vault'[m] = vault[m]
    BY <1>6 DEF Inv
  <2> QED BY <2>1 DEF OwnValues
<1>7. ASSUME NEW m \in Machines, m # p[1], m \notin lapped'
      PROVE  WorldInv(m)' /\ SoleInv(m)'
  <2>1. WorldInv(m) /\ SoleInv(m)
    BY <1>7 DEF Inv
  <2>2. manifest'[m] = manifest[m] /\ vault'[m] = vault[m] /\ leaked'[m] = leaked[m]
    BY <1>7
  <2>3. \A q \in Processes : q[1] = m => proc'[q].created = proc[q].created /\ (Using(q)' <=> Using(q))
    BY <1>2, <1>7
  <2>4. WorldInv(m)'
    BY <2>1, <2>2, <2>3 DEF WorldInv
  <2>5. SoleInv(m)'
    BY <2>1, <2>3 DEF SoleInv
  <2> QED BY <2>4, <2>5
<1>8. ASSUME p[1] \notin lapped'
      PROVE  SoleInv(p[1])'
  <2>1. SoleInv(p[1])
    BY <1>1, <1>8 DEF Inv
  <2>2. Using(p)' => Using(p) \/ Alone(p[1])
    BY <1>8
  <2>3. \A q \in Processes : q # p => (Using(q)' <=> Using(q))
    BY <1>2
  <2> QED BY <2>1, <2>2, <2>3 DEF SoleInv, Alone
<1> QED BY <1>1, <1>2, <1>4, <1>5, <1>6, <1>7, <1>8 DEF Inv

----------------------------------------------------------------------------
(* Every step keeps the invariant. *)

\* A step that changes neither file nor store.
LEMMA Moves ==
  ASSUME TypeInv, TypeInv', Inv, NEW p \in Processes, UNCHANGED files, lapped \subseteq lapped',
         \A q \in Processes : q # p =>
           proc'[q] = proc[q] \/ (q = Sync /\ Quiet(q) /\ Quiet(q)' /\ PlaceInv(q)'),
         proc'[p].created = proc[p].created,
         PlaceInv(p)', OwnInv(p)',
         p[1] \notin lapped' => KnowInv(p)' /\ (~Using(p)' \/ Using(p) \/ Alone(p[1]))
  PROVE  Inv'
<1>1. UNCHANGED <<manifest, vault, leaked>> /\ p[1] \in Machines
  BY ProcessIs DEF files
<1>2. OwnValues(p[1], Entries(p[1]))'
  BY <1>1 DEF Inv, OwnValues
<1>3. \A q \in Processes : proc'[q].created = proc[q].created
  BY DEF Quiet, Blank
<1>4. p[1] \notin lapped' => WorldInv(p[1])'
  BY <1>1, <1>3 DEF Inv, WorldInv
<1> QED BY <1>1, <1>2, <1>4, Acts

\* A command that ends.
LEMMA IdleKnows ==
  ASSUME NEW p \in Processes, proc'[p] = Idle
  PROVE  ~Using(p)' /\ Quiet(p)' /\ PlaceInv(p)' /\ OwnInv(p)' /\ KnowInv(p)'
<1>1. ~Using(p)' /\ Quiet(p)'
  BY IdleIs DEF Using, Quiet, Blank
<1>2. PlaceInv(p)'
  BY <1>1, IdleIs DEF PlaceInv, Quiet
<1>3. OwnInv(p)'
  BY <1>1, IdleIs, NoneHas, QuietKnows DEF OwnInv
<1> QED BY <1>1, <1>2, <1>3, QuietKnows

\* A command that has stored nothing ends without a trace.
LEMMA EndsKeeps ==
  ASSUME TypeInv, TypeInv', Inv, NEW p \in Processes, UNCHANGED files, lapped \subseteq lapped',
         Ends(p), proc[p].created = {}
  PROVE  Inv'
<1>1. proc'[p] = Idle /\ \A q \in Processes : q # p => proc'[q] = proc[q]
  BY EndsIs
<1>2. proc'[p].created = proc[p].created
  BY <1>1, IdleIs
<1> QED BY <1>1, <1>2, IdleKnows, Moves

\* A command that begins on what it reads.
LEMMA BeginsKeeps ==
  ASSUME TypeInv, Inv, NEW p \in Processes, Reads(p[1]), UNCHANGED files, p[1] \notin lapped'
  PROVE  WorldInv(p[1]) /\ Alone(p[1]) /\ UNCHANGED <<manifest, vault, leaked>>
<1>1. p[1] \in Machines
  BY ProcessIs
<1>2. lapped \subseteq lapped' /\ Alone(p[1])
  BY <1>1, ReadsIs
<1> QED BY <1>1, <1>2 DEF Inv, files

\* The entries of a machine carry its user's values also where fewer are kept.
LEMMA OwnRestrict ==
  ASSUME NEW m, NEW e, NEW D, D \subseteq DOMAIN e, OwnValues(m, e)
  PROVE  OwnValues(m, Restrict(e, D))
<1>1. DOMAIN Restrict(e, D) = D /\ \A x \in D : Restrict(e, D)[x] = e[x]
  BY DEF Restrict
<1>2. Local(Restrict(e, D)) \subseteq Local(e) /\ \A x \in Local(Restrict(e, D)) : Restrict(e, D)[x] = e[x]
  BY <1>1, InLocal
<1> QED BY <1>2 DEF OwnValues

\* Begins a secrets set.
LEMMA StoreSecretKeeps ==
  ASSUME TypeInv, TypeInv', Inv, NEW m \in Machines, NEW t \in Typed[m], StoreSecret(m, t[1], t[2])
  PROVE  Inv'
<1> DEFINE p == <<m, "cli">>
           todo == Put(NoEntries, t[1], t[2])
<1>1. p \in Processes /\ p[1] = m /\ p[2] = "cli" /\ p # Sync
  BY ProcessIs DEF Sync
<1>2. t[1] \in Names /\ t[2] \in Secret /\ t[2] \in Own(m)
  BY ConstantsAreSane DEF Own, Secret
<1>3. todo \in SecretMap
  BY <1>2, PutType, NoneIs DEF SecretMap
<1>4. \A n \in DOMAIN todo : todo[n] \in Own(m)
  BY <1>2, NoneHas DEF Put
<1> DEFINE h == Holding(m, "set", "measure", todo)
<1>5. Goes(p, h) /\ proc[p] = Idle /\ Reads(m) /\ UNCHANGED files
  BY DEF StoreSecret
<1> HIDE DEF p, todo
<1>6. /\ h \in Registers /\ h.pc = "measure" /\ h.goal = "set" /\ h.todo = todo
      /\ h.next = Entries(m) /\ h.retired = manifest[m].retired /\ h.failed = {} /\ h.created = {}
  BY <1>3, HoldingIs DEF Goals, Places
<1> HIDE DEF h
<1>7. proc'[p] = h /\ \A q \in Processes : q # p => proc'[q] = proc[q]
  BY <1>1, <1>5, <1>6, GoesIs
<1>8. PlaceInv(p)'
  BY <1>1, <1>6, <1>7 DEF PlaceInv, Using, Blank
<1>9. OwnInv(p)'
  <2>1. UNCHANGED <<manifest, vault>>
    BY <1>5 DEF files
  <2>2. OwnValues(m, Entries(m))
    BY DEF Inv
  <2> QED BY <1>1, <1>4, <1>6, <1>7, <2>1, <2>2 DEF OwnInv, OwnValues
<1>10. ASSUME m \notin lapped'
       PROVE  KnowInv(p)' /\ Alone(m)
  <2>1. Alone(m) /\ UNCHANGED <<manifest, vault>>
    BY <1>1, <1>5, <1>10, BeginsKeeps
  <2> QED BY <1>1, <1>6, <1>7, <2>1 DEF KnowInv
<1>11. proc'[p].created = proc[p].created /\ lapped \subseteq lapped'
  BY <1>5, <1>6, <1>7, IdleIs, ReadsIs
<1> QED BY <1>1, <1>5, <1>7, <1>8, <1>9, <1>10, <1>11, Moves

\* Begins a secrets remove.
LEMMA RemoveSecretKeeps ==
  ASSUME TypeInv, TypeInv', Inv, NEW m \in Machines, NEW n \in Names, RemoveSecret(m, n)
  PROVE  Inv'
<1> DEFINE p == <<m, "cli">>
           e == Entries(m)
           h == Holding(m, "remove", "write", NoEntries)
           D == DOMAIN e \ {n}
           ps == [h EXCEPT !.next = Restrict(@, DOMAIN @ \ {n}),
                           !.retired = @ \cup {manifest[m].entries[n].ref}]
<1>1. p \in Processes /\ p[1] = m /\ p[2] = "cli" /\ p # Sync
  BY ProcessIs DEF Sync
<1>2. Goes(p, ps) /\ proc[p] = Idle /\ Reads(m) /\ UNCHANGED files /\ n \in DOMAIN e
  BY DEF RemoveSecret
<1>3. /\ h \in Registers /\ h.pc = "write" /\ h.goal = "remove" /\ h.todo = NoEntries
      /\ h.next = e /\ h.retired = manifest[m].retired /\ h.failed = {} /\ h.created = {}
  BY NoneIs, HoldingIs DEF Goals, Places, SecretMap
<1>4. e \in EntryMap
  BY DEF TypeInv
<1>5. Restrict(e, D) \in EntryMap /\ DOMAIN Restrict(e, D) = D
  BY <1>4, RestrictIs DEF EntryMap
<1>6. e[n].ref \in References
  BY <1>2, <1>4, RefIs
<1>7. D \subseteq DOMAIN e /\ \A x \in DOMAIN e \ D : e[x].ref = e[n].ref
  OBVIOUS
<1> HIDE DEF h, p
<1>8. /\ ps \in Registers /\ ps.pc = "write" /\ ps.goal = "remove" /\ ps.todo = NoEntries
      /\ ps.next = Restrict(e, D) /\ ps.retired = manifest[m].retired \cup {e[n].ref}
      /\ ps.failed = {} /\ ps.created = {}
  BY <1>3, <1>5, <1>6 DEF Registers
<1> HIDE DEF ps
<1>9. proc'[p] = ps /\ \A q \in Processes : q # p => proc'[q] = proc[q]
  BY <1>1, <1>2, <1>8, GoesIs
<1>10. PlaceInv(p)'
  BY <1>1, <1>8, <1>9 DEF PlaceInv, Using, Blank
<1>11. UNCHANGED <<manifest, vault>>
  BY <1>2 DEF files
<1>12. OwnInv(p)'
  <2>1. OwnValues(m, Restrict(e, D))
    BY <1>7, OwnRestrict DEF Inv
  <2> QED BY <1>1, <1>8, <1>9, <1>11, <2>1, NoneHas DEF OwnInv, OwnValues
<1>13. ASSUME m \notin lapped'
       PROVE  KnowInv(p)' /\ Alone(m)
  <2>1. Alone(m) /\ WorldInv(m)
    BY <1>1, <1>2, <1>13, BeginsKeeps
  <2> DEFINE g == Restrict(e, D)
             rest == {e[x].ref : x \in DOMAIN e \ D}
  <2>2. /\ Distinct(g) /\ Refs(g) \subseteq Refs(e)
        /\ Refs(e) \subseteq Refs(g) \cup rest /\ Disjoint(rest, Refs(g))
    BY <1>7, <2>1, RestrictRefs DEF WorldInv
  <2>3. rest = {e[n].ref}
    BY <1>2
  <2> HIDE DEF g, rest, D, e
  <2>4. Refs(g) \subseteq DOMAIN vault[m] /\ Disjoint(manifest[m].retired \cup {e[n].ref}, Refs(g))
    BY <2>1, <2>2, <2>3 DEF WorldInv, Disjoint, e
  <2>5. Refs(e) \cup manifest[m].retired \subseteq Refs(g) \cup (manifest[m].retired \cup {e[n].ref})
    BY <2>2, <2>3
  <2>6. proc'[p].next = g /\ e' = e
    BY <1>8, <1>9, <1>11 DEF g, e
  <2>7. KnowInv(p)'
    BY <1>1, <1>8, <1>9, <1>11, <2>2, <2>4, <2>5, <2>6 DEF KnowInv, Disjoint, e
  <2> QED BY <2>1, <2>7
<1>14. proc'[p].created = proc[p].created /\ lapped \subseteq lapped'
  BY <1>2, <1>8, <1>9, IdleIs, ReadsIs
<1> QED BY <1>1, <1>2, <1>9, <1>10, <1>12, <1>13, <1>14, Moves

\* The check of the budget.
LEMMA MeasureKeeps ==
  ASSUME TypeInv, TypeInv', Inv, NEW p \in Processes, Measure(p)
  PROVE  Inv'
<1>1. /\ proc[p].pc = "measure" /\ UNCHANGED files /\ UNCHANGED lapped
      /\ Goes(p, [proc[p] EXCEPT !.pc = "store"]) \/ Ends(p)
  BY DEF Measure
<1>2. PlaceInv(p) /\ OwnInv(p) /\ (p[1] \notin lapped => KnowInv(p) /\ WorldInv(p[1])) /\ p[1] \in Machines
  BY ProcessIs DEF Inv
<1>3. proc[p].created = {}
  BY <1>1, <1>2 DEF PlaceInv
<1>4. CASE Ends(p)
  BY <1>1, <1>3, <1>4, EndsKeeps
<1>5. CASE Goes(p, [proc[p] EXCEPT !.pc = "store"])
  <2> DEFINE ps == [proc[p] EXCEPT !.pc = "store"]
  <2>1. ps \in Registers /\ proc[p] \in Registers
    BY PcType DEF Places, Goals, TypeInv
  <2>2. /\ ps.pc = "store" /\ ps.goal = proc[p].goal /\ ps.next = proc[p].next /\ ps.retired = proc[p].retired
        /\ ps.failed = proc[p].failed /\ ps.created = {} /\ ps.todo = proc[p].todo
    BY <1>3, <2>1 DEF Registers
  <2> HIDE DEF ps
  <2>3. proc'[p] = ps /\ \A q \in Processes : q # p => proc'[q] = proc[q]
    BY <1>5, <2>1, GoesIs DEF ps
  <2>4. p # Sync /\ p[2] = "cli"
    BY <1>1, <1>2, ProcessIs DEF PlaceInv
  <2>5. PlaceInv(p)'
    BY <1>1, <1>2, <2>2, <2>3, <2>4 DEF PlaceInv, Using, Blank
  <2>6. UNCHANGED <<manifest, vault>>
    BY <1>1 DEF files
  <2>7. OwnInv(p)'
    BY <1>2, <2>2, <2>3, <2>6 DEF OwnInv, OwnValues
  <2>8. ASSUME p[1] \notin lapped'
        PROVE  KnowInv(p)'
    BY <1>1, <1>2, <2>2, <2>3, <2>4, <2>6, <2>8 DEF KnowInv, WorldInv, Disjoint
  <2>9. Using(p)
    BY <1>1 DEF Using
  <2> QED BY <1>1, <1>3, <2>2, <2>3, <2>5, <2>7, <2>8, <2>9, Moves
<1> QED BY <1>1, <1>4, <1>5

\* What the invariant says of a process that is under way.
LEMMA InvAt ==
  ASSUME TypeInv, Inv, NEW p \in Processes
  PROVE  /\ p[1] \in Machines /\ proc[p] \in Registers /\ PlaceInv(p) /\ OwnInv(p)
         /\ OwnValues(p[1], Entries(p[1])) /\ Entries(p[1]) \in EntryMap
         /\ p[1] \notin lapped => KnowInv(p) /\ WorldInv(p[1]) /\ SoleInv(p[1])
  BY ProcessIs DEF Inv, TypeInv

\* While a process is under way on a machine without overlaps, what others have
\* created is none.
LEMMA OthersCreated ==
  ASSUME TypeInv, Inv, NEW p \in Processes, Using(p), p[1] \notin lapped
  PROVE  \A q \in Processes : q[1] = p[1] /\ q # p => proc[q].created = {}
<1>1. SoleInv(p[1])
  BY InvAt
<1>2. \A q \in Processes : q[1] = p[1] /\ q # p => ~Using(q) /\ PlaceInv(q)
  BY <1>1 DEF SoleInv, Inv
<1> QED BY <1>2 DEF PlaceInv, Blank

\* A value is stored before any manifest names it.
LEMMA StoreValueKeeps ==
  ASSUME TypeInv, TypeInv', Inv, NEW p \in Processes, NEW n \in Names, StoreValue(p, n)
  PROVE  Inv'
<1> DEFINE m == p[1]
           r == Fresh(m)
           next == proc[p].next
           previous == IF n \in DOMAIN next THEN {next[n].ref} ELSE {}
           e == Entry(r, Origin(p))
           v == proc[p].todo[n]
           left == DOMAIN proc[p].todo \ {n}
           g == Put(next, n, e)
           todo == Restrict(proc[p].todo, left)
           ps == [proc[p] EXCEPT !.next = Put(@, n, e), !.retired = @ \cup previous,
                                 !.created = @ \cup {r}, !.todo = Restrict(@, DOMAIN @ \ {n})]
<1>1. m \in Machines /\ proc[p] \in Registers /\ PlaceInv(p) /\ OwnInv(p)
  BY InvAt
<1>2. r \in References /\ r \in Unheard(m)
  BY FreshIs DEF StoreValue
<1>3. /\ r \notin DOMAIN vault[m] /\ r \notin Refs(Entries(m)) /\ r \notin manifest[m].retired
      /\ r \notin Refs(next) /\ r \notin proc[p].retired /\ r \notin proc[p].created
  BY <1>1, <1>2, UnheardIs
<1>4. next \in EntryMap /\ proc[p].todo \in SecretMap
  BY <1>1 DEF Registers
<1>5. proc[p].pc = "store" /\ n \in DOMAIN proc[p].todo
      /\ Goes(p, ps) /\ StoreCredential(m, r, v) /\ UNCHANGED <<manifest, leaked, lapped>>
  BY DEF StoreValue
<1>6. e \in AnEntry /\ e.ref = r /\ e.origin = Origin(p)
  BY <1>2 DEF Entry, Origin, AnEntry
<1>7. v \in Secret
  BY <1>4, <1>5, MapIs DEF SecretMap
<1>8. g \in EntryMap /\ DOMAIN g = DOMAIN next \cup {n} /\ g[n] = e
      /\ \A x \in DOMAIN next : x # n => g[x] = next[x]
  <2>1. g \in EntryMap
    BY <1>4, <1>6, PutType DEF EntryMap
  <2> QED BY <2>1 DEF Put
<1>9. todo \in SecretMap /\ DOMAIN todo = left /\ \A x \in left : todo[x] = proc[p].todo[x]
  BY <1>4, RestrictIs DEF SecretMap
<1>10. previous \subseteq References
  BY <1>4, RefIs
<1> HIDE DEF m, r, previous, e, v, g, todo
<1>11. /\ ps \in Registers /\ ps.pc = "store" /\ ps.goal = proc[p].goal /\ ps.next = g
       /\ ps.retired = proc[p].retired \cup previous /\ ps.created = proc[p].created \cup {r}
       /\ ps.failed = proc[p].failed /\ ps.todo = todo
  BY <1>1, <1>2, <1>5, <1>8, <1>9, <1>10 DEF Registers, g, todo
<1> HIDE DEF ps
<1>12. proc'[p] = ps /\ \A q \in Processes : q # p => proc'[q] = proc[q]
  BY <1>5, <1>11, GoesIs
<1>13. /\ DOMAIN vault'[m] = DOMAIN vault[m] \cup {r}
       /\ vault'[m][r] = v /\ \A x \in DOMAIN vault[m] : x # r => vault'[m][x] = vault[m][x]
       /\ \A o \in Machines : o # m => vault'[o] = vault[o]
  BY <1>1, <1>2, <1>5, <1>7, StoreIs
<1>14. PlaceInv(p)'
  BY <1>1, <1>5, <1>11, <1>12 DEF PlaceInv, Using, Blank
<1>15. p[2] # "serve" /\ (p = Sync \/ p[2] = "cli")
  BY <1>1, <1>5, ProcessIs DEF PlaceInv
<1>16. \A x \in Local(next) : next[x].ref # r
  BY <1>3, InLocal, InRefs
<1>17. \A x \in Local(Entries(m)) : Entries(m)[x].ref # r
  BY <1>3, InLocal, InRefs
<1>18. OwnInv(p)'
  <2>1. ASSUME NEW x \in Local(g), g[x].ref \in DOMAIN vault'[m]
        PROVE  vault'[m][g[x].ref] \in Own(m)
    <3>1. x \in DOMAIN g /\ g[x].origin = "local"
      BY <2>1, InLocal
    <3>2. CASE x = n
      <4>1. p # Sync
        BY <1>6, <1>8, <3>1, <3>2 DEF Origin
      <4>2. v \in Own(m)
        BY <1>1, <1>5, <4>1 DEF OwnInv, v, m
      <4> QED BY <1>6, <1>8, <1>13, <3>2, <4>2
    <3>3. CASE x # n
      <4>1. x \in Local(next) /\ g[x] = next[x]
        BY <1>8, <3>1, <3>3, InLocal
      <4>2. next[x].ref \in DOMAIN vault[m] /\ vault'[m][next[x].ref] = vault[m][next[x].ref]
        BY <1>13, <1>16, <2>1, <4>1
      <4> QED BY <1>1, <4>1, <4>2 DEF OwnInv, OwnValues, m
    <3> QED BY <3>2, <3>3
  <2>2. p # Sync => \A x \in DOMAIN todo : todo[x] \in Own(m)
    BY <1>1, <1>9 DEF OwnInv, m
  <2> QED BY <1>11, <1>12, <2>1, <2>2 DEF OwnInv, OwnValues, m
<1>19. OwnValues(m, Entries(m))'
  <2>1. OwnValues(m, Entries(m))
    BY <1>1 DEF Inv
  <2>2. manifest' = manifest
    BY <1>5
  <2> QED BY <1>13, <1>17, <2>1, <2>2 DEF OwnValues
<1>20. ASSUME m \notin lapped'
       PROVE  WorldInv(m)' /\ KnowInv(p)'
  <2>1. KnowInv(p) /\ WorldInv(m) /\ manifest' = manifest /\ leaked' = leaked
    BY <1>5, <1>20, InvAt DEF m
  <2>2. /\ Distinct(next) /\ Refs(next) \subseteq DOMAIN vault[m] /\ Disjoint(proc[p].retired, Refs(next))
        /\ Refs(Entries(m)) \cup manifest[m].retired \cup proc[p].created \subseteq Refs(next) \cup proc[p].retired
        /\ Disjoint(proc[p].created, Refs(Entries(m))) /\ proc[p].failed = {}
    BY <1>5, <2>1 DEF KnowInv, m
  <2>3. /\ Distinct(g) /\ Refs(g) \subseteq Refs(next) \cup {r} /\ r \in Refs(g)
        /\ Refs(next) \subseteq Refs(g) \cup previous /\ Disjoint(previous, Refs(g))
    BY <1>3, <2>2, PutRefs DEF g, e, previous
  <2>4. WorldInv(m)'
    <3>1. r \in proc'[p].created /\ \A q \in Processes : proc[q].created \subseteq proc'[q].created
      BY <1>11, <1>12
    <3> QED BY <1>13, <2>1, <3>1 DEF WorldInv, m
  <2>5. Refs(g) \subseteq DOMAIN vault'[m] /\ Disjoint(proc[p].retired \cup previous, Refs(g))
    BY <1>3, <1>13, <2>2, <2>3 DEF Disjoint
  <2>6. Refs(Entries(m)) \cup manifest[m].retired \cup (proc[p].created \cup {r})
          \subseteq Refs(g) \cup (proc[p].retired \cup previous)
    BY <2>2, <2>3
  <2>7. Disjoint(proc[p].created \cup {r}, Refs(Entries(m)))
    BY <1>3, <2>2 DEF Disjoint
  <2>8. ASSUME p = Sync
        PROVE  /\ Local(g) = Local(Entries(m)) /\ \A x \in Local(g) : g[x] = Entries(m)[x]
               /\ \A x \in DOMAIN todo : x \notin Local(g)
    <3>1. /\ Local(next) = Local(Entries(m)) /\ \A x \in Local(next) : next[x] = Entries(m)[x]
          /\ \A x \in DOMAIN proc[p].todo : x \notin Local(next)
      BY <1>5, <2>1, <2>8 DEF KnowInv, m
    <3>2. g[n].origin # "local"
      BY <1>6, <1>8, <2>8 DEF Origin
    <3>3. \A x : x \in Local(g) <=> x \in Local(next)
      BY <1>5, <1>8, <3>1, <3>2, InLocal
    <3>4. \A x \in Local(g) : g[x] = next[x]
      BY <1>5, <1>8, <3>1, <3>3, InLocal
    <3> QED BY <1>9, <3>1, <3>3, <3>4
  <2>9. KnowInv(p)'
    BY <1>11, <1>12, <2>1, <2>2, <2>3, <2>5, <2>6, <2>7, <2>8 DEF KnowInv, m
  <2> QED BY <2>4, <2>9
<1>21. Using(p)
  BY <1>5 DEF Using
<1>22. \A x \in DOMAIN vault'[m] : (x \in DOMAIN vault[m] /\ vault'[m][x] = vault[m][x]) \/ x \in Unheard(m)
  BY <1>2, <1>3, <1>13
<1>23. UNCHANGED <<manifest, leaked, lapped>>
  BY <1>5
<1> QED BY <1>12, <1>13, <1>14, <1>18, <1>19, <1>20, <1>21, <1>22, <1>23, Acts DEF m

\* A command that fails removes what it stored, or gives it up.
LEMMA FailKeeps ==
  ASSUME TypeInv, TypeInv', Inv, NEW p \in Processes, StoreFails(p) \/ WriteFails(p) \/ Crash(p)
  PROVE  Inv'
<1> DEFINE m == p[1]
<1>1. m \in Machines /\ PlaceInv(p) /\ OwnInv(p)
  BY InvAt
<1>2. UNCHANGED <<manifest, lapped>> /\ Ends(p)
  <2>1. CASE StoreFails(p) \/ WriteFails(p)
    <3>1. \E fault : GivesUp(p, fault)
      BY <2>1 DEF StoreFails, WriteFails
    <3>2. Ends(p)
      BY <3>1, GivesUpIs
    <3> QED BY <2>1, <3>2 DEF StoreFails, WriteFails
  <2> QED BY <2>1 DEF Crash
<1>3. proc'[p] = Idle /\ (\A q \in Processes : q # p => proc'[q] = proc[q])
      /\ ~Using(p)' /\ PlaceInv(p)' /\ OwnInv(p)' /\ KnowInv(p)'
  BY <1>2, EndsIs, IdleKnows
<1>4. \E kept \in SUBSET proc[p].created :
        /\ DOMAIN vault'[m] = DOMAIN vault[m] \ (proc[p].created \ kept)
        /\ \A x \in DOMAIN vault'[m] : vault'[m][x] = vault[m][x]
        /\ \A o \in Machines : o # m => vault'[o] = vault[o] /\ leaked'[o] = leaked[o]
        /\ leaked'[m] = leaked[m] \cup kept
  <2>1. CASE StoreFails(p) \/ WriteFails(p)
    <3>1. \E fault : GivesUp(p, fault)
      BY <2>1 DEF StoreFails, WriteFails
    <3>2. PICK kept \in SUBSET proc[p].created :
           /\ RemoveCredentials(p[1], proc[p].created \ kept)
           /\ leaked' = [leaked EXCEPT ![p[1]] = @ \cup kept]
      BY <3>1, GivesUpIs
    <3>3. leaked'[m] = leaked[m] \cup kept /\ \A o \in Machines : o # m => leaked'[o] = leaked[o]
      BY <1>1, <3>2 DEF TypeInv
    <3> QED BY <1>1, <3>2, <3>3, RemoveIs
  <2>2. CASE Crash(p)
    <3>1. vault' = vault /\ leaked' = [leaked EXCEPT ![p[1]] = @ \cup proc[p].created]
      BY <2>2 DEF Crash
    <3>2. leaked'[m] = leaked[m] \cup proc[p].created /\ \A o \in Machines : o # m => leaked'[o] = leaked[o]
      BY <1>1, <3>1 DEF TypeInv
    <3> QED BY <3>1, <3>2
  <2> QED BY <2>1, <2>2
<1>5. PICK kept \in SUBSET proc[p].created :
        /\ DOMAIN vault'[m] = DOMAIN vault[m] \ (proc[p].created \ kept)
        /\ \A x \in DOMAIN vault'[m] : vault'[m][x] = vault[m][x]
        /\ \A o \in Machines : o # m => vault'[o] = vault[o] /\ leaked'[o] = leaked[o]
        /\ leaked'[m] = leaked[m] \cup kept
  BY <1>4
<1>6. OwnValues(m, Entries(m))'
  BY <1>1, <1>2, <1>5 DEF Inv, OwnValues
<1>7. ASSUME m \notin lapped'
      PROVE  WorldInv(m)' /\ (Using(p) \/ UNCHANGED <<manifest, vault>>)
  <2>1. KnowInv(p) /\ WorldInv(m) /\ manifest' = manifest
    BY <1>2, <1>7, InvAt
  <2>2. proc[p].created # {} => proc[p].pc = "store" /\ Using(p) /\ Disjoint(proc[p].created, Refs(Entries(m)))
    BY <1>1, <2>1 DEF PlaceInv, Using, KnowInv
  <2>3. WorldInv(m)'
    <3>1. Refs(Entries(m)) \subseteq DOMAIN vault'[m]
      BY <1>5, <2>1, <2>2 DEF WorldInv, Disjoint
    <3>2. ASSUME NEW r \in DOMAIN vault'[m]
          PROVE  \/ r \in Refs(Entries(m)) \/ r \in manifest[m].retired \/ r \in leaked'[m]
                 \/ \E q \in Processes : q[1] = m /\ r \in proc'[q].created
      <4>1. CASE \E q \in Processes : q[1] = m /\ q # p /\ r \in proc[q].created
        BY <1>3, <4>1
      <4>2. CASE r \in proc[p].created
        BY <1>5, <4>2
      <4> QED BY <1>5, <2>1, <4>1, <4>2 DEF WorldInv
    <3> QED BY <2>1, <3>1, <3>2 DEF WorldInv
  <2>4. ASSUME ~Using(p)
        PROVE  UNCHANGED <<manifest, vault>>
    <3>1. \/ StoreFails(p) \/ WriteFails(p) => Using(p)
      BY DEF StoreFails, WriteFails, ReadyToWrite, Using
    <3> QED BY <2>4, <3>1 DEF Crash
  <2> QED BY <2>3, <2>4
<1>8. \A x \in DOMAIN vault'[m] : x \in DOMAIN vault[m] /\ vault'[m][x] = vault[m][x]
  BY <1>5
<1>9. \A o \in Machines : o # m => manifest'[o] = manifest[o] /\ vault'[o] = vault[o] /\ leaked'[o] = leaked[o]
  BY <1>2, <1>5
<1> HIDE DEF m
<1> QED BY <1>2, <1>3, <1>6, <1>7, <1>8, <1>9, Acts DEF m

\* The manifest names what is stored, and queues what it no longer names.
LEMMA WriteKeeps ==
  ASSUME TypeInv, TypeInv', Inv, NEW p \in Processes, WriteManifest(p)
  PROVE  Inv'
<1> DEFINE m == p[1]
           ps == [proc[p] EXCEPT !.pc = "remove", !.created = {}]
           next == proc[p].next
           retired == proc[p].retired
<1>1. m \in Machines /\ proc[p] \in Registers /\ PlaceInv(p) /\ OwnInv(p)
  BY InvAt
<1>2. /\ proc[p].pc \in {"write", "store"} /\ Saved(m, next, retired) /\ Goes(p, ps)
      /\ UNCHANGED <<vault, leaked, lapped>> /\ Using(p)
  BY DEF WriteManifest, ReadyToWrite, Using
<1>3. /\ ps \in Registers /\ ps.pc = "remove" /\ ps.goal = proc[p].goal /\ ps.next = next
      /\ ps.retired = retired /\ ps.failed = proc[p].failed /\ ps.created = {} /\ ps.todo = proc[p].todo
  BY <1>1 DEF Registers, Places
<1> HIDE DEF ps
<1>4. proc'[p] = ps /\ \A q \in Processes : q # p => proc'[q] = proc[q]
  BY <1>2, <1>3, GoesIs
<1>5. next \in EntryMap /\ retired \in SUBSET References
  BY <1>1 DEF Registers
<1>6. /\ manifest'[m].entries = next /\ manifest'[m].retired = retired \ Refs(next)
      /\ \A o \in Machines : o # m => manifest'[o] = manifest[o]
  BY <1>1, <1>2, <1>5, SavedIs
<1>7. PlaceInv(p)'
  BY <1>1, <1>2, <1>3, <1>4 DEF PlaceInv, Using, Blank
<1>8. OwnInv(p)' /\ OwnValues(m, Entries(m))'
  BY <1>1, <1>2, <1>3, <1>4, <1>6 DEF OwnInv, OwnValues
<1>9. ASSUME m \notin lapped'
      PROVE  WorldInv(m)' /\ KnowInv(p)'
  <2>1. KnowInv(p) /\ WorldInv(m) /\ \A q \in Processes : q[1] = m /\ q # p => proc[q].created = {}
    BY <1>2, <1>9, InvAt, OthersCreated
  <2>2. /\ Distinct(next) /\ Refs(next) \subseteq DOMAIN vault[m] /\ Disjoint(retired, Refs(next))
        /\ Refs(Entries(m)) \cup manifest[m].retired \cup proc[p].created \subseteq Refs(next) \cup retired
        /\ proc[p].failed = {}
    BY <1>2, <2>1 DEF KnowInv
  <2>3. manifest'[m].retired = retired
    BY <1>6, <2>2 DEF Disjoint
  <2>4. \A r \in DOMAIN vault[m] : r \in Refs(next) \/ r \in retired \/ r \in leaked[m]
    BY <2>1, <2>2 DEF WorldInv
  <2>5. WorldInv(m)'
    BY <1>2, <1>6, <2>2, <2>3, <2>4 DEF WorldInv
  <2>6. KnowInv(p)'
    BY <1>3, <1>4, <1>6, <2>2, <2>3 DEF KnowInv, Disjoint
  <2> QED BY <2>5, <2>6
<1>10. vault' = vault /\ leaked' = leaked /\ lapped' = lapped
  BY <1>2
<1> HIDE DEF m
<1> QED BY <1>2, <1>4, <1>6, <1>7, <1>8, <1>9, <1>10, Acts DEF m

\* Only what the manifest no longer names is removed.
LEMMA RemoveKeeps ==
  ASSUME TypeInv, TypeInv', Inv, NEW p \in Processes, RemoveOne(p)
  PROVE  Inv'
<1> DEFINE m == p[1]
           rest(r) == [proc[p] EXCEPT !.pc = "removing", !.retired = @ \ {r}]
           next == proc[p].next
<1>1. m \in Machines /\ proc[p] \in Registers /\ PlaceInv(p) /\ OwnInv(p)
  BY InvAt
<1>2. PICK r \in proc[p].retired :
        \/ RemoveCredentials(m, {r}) /\ Goes(p, rest(r))
        \/ /\ Goes(p, [rest(r) EXCEPT !.failed = @ \cup {r}])
           /\ UNCHANGED vault
  BY DEF RemoveOne
<1>3. proc[p].pc \in {"remove", "removing"} /\ UNCHANGED <<manifest, leaked, lapped>> /\ Using(p)
  BY DEF RemoveOne, Using
<1>4. r \in References
  BY <1>1 DEF Registers
<1>5. \E ps \in Registers :
        /\ proc'[p] = ps /\ ps.pc = "removing" /\ ps.goal = proc[p].goal /\ ps.next = next
        /\ ps.retired = proc[p].retired \ {r} /\ ps.created = proc[p].created /\ ps.todo = proc[p].todo
        /\ \/ ps.failed = proc[p].failed /\ DOMAIN vault'[m] = DOMAIN vault[m] \ {r}
           \/ ps.failed = proc[p].failed \cup {r} /\ vault' = vault
  <2>1. CASE RemoveCredentials(m, {r}) /\ Goes(p, rest(r))
    <3> DEFINE ps == rest(r)
    <3>1. /\ ps \in Registers /\ ps.pc = "removing" /\ ps.goal = proc[p].goal /\ ps.next = next
          /\ ps.retired = proc[p].retired \ {r} /\ ps.created = proc[p].created /\ ps.todo = proc[p].todo
          /\ ps.failed = proc[p].failed
      BY <1>1 DEF Registers, Places
    <3> HIDE DEF ps
    <3>2. proc'[p] = ps
      BY <2>1, <3>1, GoesIs DEF ps
    <3>3. DOMAIN vault'[m] = DOMAIN vault[m] \ {r}
      BY <1>1, <2>1, RemoveIs
    <3> QED BY <3>1, <3>2, <3>3
  <2>2. CASE Goes(p, [rest(r) EXCEPT !.failed = @ \cup {r}]) /\ UNCHANGED vault
    <3> DEFINE ps == [rest(r) EXCEPT !.failed = @ \cup {r}]
    <3>1. /\ ps \in Registers /\ ps.pc = "removing" /\ ps.goal = proc[p].goal /\ ps.next = next
          /\ ps.retired = proc[p].retired \ {r} /\ ps.created = proc[p].created /\ ps.todo = proc[p].todo
          /\ ps.failed = proc[p].failed \cup {r}
      BY <1>1, <1>4 DEF Registers, Places
    <3> HIDE DEF ps
    <3>2. proc'[p] = ps
      BY <2>2, <3>1, GoesIs DEF ps
    <3> QED BY <2>2, <3>1, <3>2
  <2> QED BY <1>2, <2>1, <2>2
<1>6. /\ \A q \in Processes : q # p => proc'[q] = proc[q]
      /\ \A x \in DOMAIN vault'[m] : x \in DOMAIN vault[m] /\ vault'[m][x] = vault[m][x]
      /\ \A o \in Machines : o # m => vault'[o] = vault[o]
      /\ \A x \in DOMAIN vault[m] : x # r => x \in DOMAIN vault'[m]
  <2>1. \A q \in Processes : q # p => proc'[q] = proc[q]
    BY <1>2 DEF Goes, TypeInv
  <2>2. CASE RemoveCredentials(m, {r})
    BY <1>1, <2>1, <2>2, RemoveIs
  <2> QED BY <1>2, <2>1, <2>2
<1> HIDE DEF rest
<1>7. PICK ps \in Registers :
        /\ proc'[p] = ps /\ ps.pc = "removing" /\ ps.goal = proc[p].goal /\ ps.next = next
        /\ ps.retired = proc[p].retired \ {r} /\ ps.created = proc[p].created /\ ps.todo = proc[p].todo
        /\ \/ ps.failed = proc[p].failed /\ DOMAIN vault'[m] = DOMAIN vault[m] \ {r}
           \/ ps.failed = proc[p].failed \cup {r} /\ vault' = vault
  BY <1>5
<1>8. PlaceInv(p)'
  BY <1>1, <1>3, <1>7 DEF PlaceInv, Using, Blank
<1>9. OwnInv(p)'
  BY <1>1, <1>6, <1>7 DEF OwnInv, OwnValues
<1>10. OwnValues(m, Entries(m))'
  BY <1>1, <1>3, <1>6 DEF Inv, OwnValues
<1>11. ASSUME m \notin lapped'
       PROVE  WorldInv(m)' /\ KnowInv(p)'
  <2>1. KnowInv(p) /\ WorldInv(m) /\ manifest' = manifest /\ leaked' = leaked
        /\ \A q \in Processes : q[1] = m /\ q # p => proc[q].created = {}
    BY <1>3, <1>11, InvAt, OthersCreated
  <2>2. proc[p].created = {}
    BY <1>1, <1>3 DEF PlaceInv
  <2>3. /\ next = Entries(m) /\ Disjoint(proc[p].retired \cup proc[p].failed, Refs(next))
        /\ \A x \in manifest[m].retired : x \in DOMAIN vault[m] => x \in proc[p].retired \cup proc[p].failed
    BY <1>3, <2>1 DEF KnowInv
  <2>4. r \notin Refs(next)
    BY <2>3 DEF Disjoint
  <2>5. WorldInv(m)'
    <3>1. Refs(Entries(m)) \subseteq DOMAIN vault'[m]
      BY <1>6, <2>1, <2>3, <2>4 DEF WorldInv
    <3>2. \A x \in DOMAIN vault[m] : x \in Refs(Entries(m)) \/ x \in manifest[m].retired \/ x \in leaked[m]
      BY <2>1, <2>2 DEF WorldInv
    <3> QED BY <1>6, <2>1, <3>1, <3>2 DEF WorldInv
  <2>6. \A x \in manifest[m].retired : x \in DOMAIN vault'[m] => x \in ps.retired \cup ps.failed
    BY <1>6, <1>7, <2>3
  <2>7. Disjoint(ps.retired \cup ps.failed, Refs(next))
    BY <1>7, <2>3 DEF Disjoint
  <2>8. KnowInv(p)'
    BY <1>7, <2>1, <2>3, <2>6, <2>7 DEF KnowInv
  <2> QED BY <2>5, <2>8
<1>12. UNCHANGED <<manifest, leaked, lapped>>
  BY <1>3
<1> HIDE DEF m, next
<1> QED BY <1>3, <1>6, <1>8, <1>9, <1>10, <1>11, <1>12, Acts DEF m

\* What could be removed leaves the manifest, and a sweep goes on from a manifest
\* with an empty queue.
LEMMA SettleKeeps ==
  ASSUME TypeInv, TypeInv', Inv, NEW p \in Processes, Settle(p)
  PROVE  Inv'
<1> DEFINE m == p[1]
           next == proc[p].next
<1>1. m \in Machines /\ proc[p] \in Registers /\ PlaceInv(p) /\ OwnInv(p)
  BY InvAt
<1>2. proc[p].pc \in {"remove", "removing"} /\ proc[p].retired = {} /\ Using(p)
      /\ UNCHANGED <<vault, leaked, lapped>> /\ proc[p].created = {}
  BY <1>1 DEF Settle, Removed, Using, PlaceInv
<1>3. next \in EntryMap /\ proc[p].failed \in SUBSET References
  BY <1>1 DEF Registers
<1>4. /\ \A o \in Machines : o # m => manifest'[o] = manifest[o]
      /\ \/ proc[p].pc = "remove" /\ manifest' = manifest
         \/ /\ proc[p].pc = "removing" /\ manifest'[m].entries = next
            /\ manifest'[m].retired = proc[p].failed \ Refs(next)
  BY <1>1, <1>2, <1>3, SavedIs DEF Settle
<1>5. /\ \A q \in Processes : q # p => proc'[q] = proc[q]
      /\ \/ proc'[p] = Idle
         \/ /\ proc[p].failed = {} /\ proc[p].goal = "sweep"
            /\ proc'[p] = [proc[p] EXCEPT !.pc = "check"]
         \/ /\ proc[p].failed = {} /\ proc[p].goal = "serve"
            /\ proc'[p] = [proc[p] EXCEPT !.pc = "load"]
  <2>1. [proc[p] EXCEPT !.pc = "check"] \in Registers /\ [proc[p] EXCEPT !.pc = "load"] \in Registers
    BY PcType DEF Places, Goals
  <2>2. CASE Ends(p)
    BY <2>2, EndsIs
  <2>3. CASE proc[p].failed = {} /\ proc[p].goal = "sweep" /\ Goes(p, [proc[p] EXCEPT !.pc = "check"])
    BY <2>1, <2>3, GoesIs
  <2>4. CASE proc[p].failed = {} /\ proc[p].goal = "serve" /\ Goes(p, [proc[p] EXCEPT !.pc = "load"])
    BY <2>1, <2>4, GoesIs
  <2> QED BY <2>2, <2>3, <2>4 DEF Settle, Continues
<1>6. \/ proc'[p] = Idle
      \/ /\ proc[p].failed = {} /\ proc'[p].failed = {} /\ proc'[p].retired = {} /\ proc'[p].created = {}
         /\ proc'[p].next = next /\ proc'[p].goal = proc[p].goal /\ proc'[p].todo = proc[p].todo
         /\ \/ proc[p].goal = "sweep" /\ proc'[p].pc = "check"
            \/ proc[p].goal = "serve" /\ proc'[p].pc = "load"
  BY <1>1, <1>2, <1>5 DEF Registers
<1>7. PlaceInv(p)'
  <2>1. CASE proc'[p] = Idle
    BY <2>1, IdleKnows
  <2>2. CASE proc[p].goal = "sweep" /\ proc'[p].pc = "check" /\ proc'[p].goal = "sweep" /\ proc'[p].created = {}
    <3>1. p[2] = "sync"
      BY <1>1, <1>2, <2>2, ProcessIs DEF PlaceInv
    <3> QED BY <2>2, <3>1 DEF PlaceInv, Using
  <2>3. CASE proc[p].goal = "serve" /\ proc'[p].pc = "load" /\ proc'[p].goal = "serve" /\ proc'[p].created = {}
    <3>1. p[2] = "serve"
      BY <1>1, <1>2, <2>3, ProcessIs DEF PlaceInv
    <3> QED BY <2>3, <3>1 DEF PlaceInv, Using
  <2> QED BY <1>6, <2>1, <2>2, <2>3
<1>8. OwnInv(p)'
  <2>1. CASE proc'[p] = Idle
    BY <2>1, IdleKnows
  <2>2. CASE proc'[p].next = next /\ proc'[p].todo = proc[p].todo
    BY <1>1, <1>2, <2>2 DEF OwnInv, OwnValues
  <2> QED BY <1>6, <2>1, <2>2
<1>9. OwnValues(m, Entries(m))'
  BY <1>1, <1>2, <1>4 DEF Inv, OwnInv, OwnValues
<1>10. ASSUME m \notin lapped'
       PROVE  WorldInv(m)' /\ KnowInv(p)'
  <2>1. KnowInv(p) /\ WorldInv(m) /\ \A q \in Processes : q[1] = m /\ q # p => proc[q].created = {}
    BY <1>2, <1>10, InvAt, OthersCreated
  <2>2. /\ next = Entries(m) /\ Disjoint(proc[p].failed, Refs(next))
        /\ \A x \in manifest[m].retired : x \in DOMAIN vault[m] => x \in proc[p].failed
        /\ proc[p].pc = "remove" => proc[p].failed = {} /\ manifest[m].retired = {}
    BY <1>2, <2>1 DEF KnowInv, Disjoint
  <2>3. manifest'[m].entries = next /\ manifest'[m].retired = proc[p].failed
    BY <1>4, <2>2 DEF Disjoint
  <2>4. WorldInv(m)'
    BY <1>2, <2>1, <2>2, <2>3 DEF WorldInv
  <2>5. KnowInv(p)'
    <3>1. CASE proc'[p] = Idle
      BY <3>1, IdleKnows
    <3>2. CASE /\ proc[p].failed = {} /\ proc'[p].failed = {} /\ proc'[p].retired = {}
               /\ proc'[p].next = next /\ proc'[p].pc \in {"check", "load"}
      BY <2>3, <3>2 DEF KnowInv
    <3> QED BY <1>6, <3>1, <3>2
  <2> QED BY <2>4, <2>5
<1>11. vault' = vault /\ leaked' = leaked /\ lapped' = lapped
  BY <1>2
<1> HIDE DEF m, next
<1> QED BY <1>2, <1>4, <1>5, <1>7, <1>8, <1>9, <1>10, <1>11, Acts DEF m

\* The second write of the manifest fails: its queue stays as it was.
LEMMA SettleFailsKeeps ==
  ASSUME TypeInv, TypeInv', Inv, NEW p \in Processes, SettleFails(p)
  PROVE  Inv'
<1>1. PlaceInv(p)
  BY InvAt
<1>2. proc[p].created = {}
  BY <1>1 DEF SettleFails, PlaceInv
<1> QED BY <1>2, EndsKeeps DEF SettleFails

\* A process that waits for the other machine, or ends while it does.
LEMMA WaitKeeps ==
  ASSUME TypeInv, TypeInv', Inv, Refuse \/ StartSync \/ NoAnswer
  PROVE  Inv'
<1>1. Sync \in Processes /\ PlaceInv(Sync) /\ UNCHANGED <<files, lapped>>
      /\ proc[Sync].pc \in {"idle", "await", "asked"}
  BY ProcessIs, InvAt, IdleIs DEF Refuse, StartSync, NoAnswer
<1>2. proc[Sync].created = {} /\ UNCHANGED files /\ lapped' = lapped
  BY <1>1 DEF PlaceInv, Using, Blank
<1>3. CASE Ends(Sync)
  BY <1>1, <1>2, <1>3, EndsKeeps
<1>4. ASSUME NEW pc \in {"await", "refused"}, Goes(Sync, [Idle EXCEPT !.pc = pc])
      PROVE  Inv'
  <2> DEFINE ps == [Idle EXCEPT !.pc = pc]
  <2>1. ps \in Registers
    BY <1>1, PcType DEF Places, Goals
  <2>2. /\ ps.pc = pc /\ ps.next = NoEntries /\ ps.retired = {}
        /\ ps.failed = {} /\ ps.created = {} /\ ps.todo = NoEntries
    BY IdleIs DEF Registers
  <2> HIDE DEF ps
  <2>3. proc'[Sync] = ps /\ \A q \in Processes : q # Sync => proc'[q] = proc[q]
    BY <1>1, <1>4, <2>1, GoesIs DEF ps
  <2>4. ~Using(Sync)' /\ Quiet(Sync)'
    BY <2>2, <2>3 DEF Using, Quiet, Blank
  <2>5. PlaceInv(Sync)'
    BY <2>2, <2>3, <2>4, ProcessIs DEF PlaceInv, Quiet, Using
  <2>6. OwnInv(Sync)' /\ KnowInv(Sync)'
    BY <1>1, <2>4, QuietKnows DEF OwnInv
  <2> QED BY <1>1, <1>2, <2>2, <2>3, <2>4, <2>5, <2>6, Moves
<1> QED BY <1>3, <1>4 DEF Refuse, StartSync, NoAnswer

\* A source server begins, and the sync that asked goes on waiting.
LEMMA ServeKeeps ==
  ASSUME TypeInv, TypeInv', Inv, NEW m \in Machines,
         \/ Serve /\ m = Source
         \/ ServeForeign /\ m = Follower
  PROVE  Inv'
<1> DEFINE p == <<m, "serve">>
           h == Holding(m, "serve", "remove", NoEntries)
<1>1. p \in Processes /\ p[1] = m /\ p[2] = "serve" /\ p # Sync /\ Sync \in Processes
  BY ProcessIs DEF Sync
<1>2. proc[p] = Idle /\ Reads(m) /\ UNCHANGED files
  BY DEF Serve, ServeForeign, Server
<1>3. /\ h \in Registers /\ h.pc = "remove" /\ h.goal = "serve" /\ h.todo = NoEntries
      /\ h.next = Entries(m) /\ h.retired = manifest[m].retired /\ h.failed = {} /\ h.created = {}
  BY NoneIs, HoldingIs DEF Goals, Places, SecretMap
<1>4. /\ proc'[p] = h
      /\ \A q \in Processes : q # p => proc'[q] = proc[q]
                              \/ (q = Sync /\ Quiet(q) /\ Quiet(q)' /\ PlaceInv(q)')
  <2>1. CASE ServeForeign /\ m = Follower
    <3>1. Goes(p, h)
      BY <2>1 DEF ServeForeign
    <3> HIDE DEF p, h
    <3> QED BY <1>1, <1>3, <3>1, GoesIs
  <2>2. CASE Serve /\ m = Source
    <3> DEFINE ps == [proc[Sync] EXCEPT !.pc = "asked"]
    <3>1. p = Server /\ proc' = [proc EXCEPT ![Server] = h, ![Sync].pc = "asked"] /\ proc[Sync].pc = "await"
      BY <2>2 DEF Serve, Server
    <3>2. proc[Sync] \in Registers /\ ps \in Registers
      BY <1>1, PcType DEF TypeInv, Places, Goals
    <3>3. /\ ps.pc = "asked" /\ ps.next = proc[Sync].next /\ ps.retired = proc[Sync].retired
          /\ ps.failed = proc[Sync].failed /\ ps.created = proc[Sync].created
      BY <3>2 DEF Registers
    <3> HIDE DEF p, h
    <3>4. proc'[p] = h /\ proc'[Sync] = ps /\ \A q \in Processes : q # p /\ q # Sync => proc'[q] = proc[q]
      BY <1>1, <3>1 DEF TypeInv
    <3> HIDE DEF ps
    <3>5. PlaceInv(Sync)
      BY <1>1, InvAt
    <3>6. Quiet(Sync) /\ Quiet(Sync)'
      BY <3>1, <3>3, <3>4, <3>5 DEF Quiet, Using, Blank, PlaceInv
    <3>7. PlaceInv(Sync)'
      BY <3>3, <3>4, <3>6, ProcessIs DEF PlaceInv, Quiet, Blank, Using
    <3> QED BY <3>4, <3>6, <3>7
  <2> QED BY <2>1, <2>2
<1> HIDE DEF p, h
<1>5. PlaceInv(p)'
  BY <1>1, <1>3, <1>4 DEF PlaceInv, Using, Blank
<1>6. OwnInv(p)'
  <2>1. UNCHANGED <<manifest, vault>>
    BY <1>2 DEF files
  <2>2. OwnValues(m, Entries(m))
    BY DEF Inv
  <2>3. \A n \in DOMAIN proc'[p].todo : FALSE
    BY <1>3, <1>4, NoneHas
  <2> QED BY <1>1, <1>3, <1>4, <2>1, <2>2, <2>3 DEF OwnInv, OwnValues
<1>7. ASSUME m \notin lapped'
      PROVE  KnowInv(p)' /\ Alone(m)
  <2>1. Alone(m) /\ WorldInv(m) /\ UNCHANGED <<manifest, vault>>
    BY <1>1, <1>2, <1>7, BeginsKeeps
  <2> QED BY <1>1, <1>3, <1>4, <2>1 DEF KnowInv, WorldInv, Disjoint
<1>8. proc'[p].created = proc[p].created /\ lapped \subseteq lapped'
  BY <1>2, <1>3, <1>4, IdleIs, ReadsIs
<1> QED BY <1>1, <1>2, <1>4, <1>5, <1>6, <1>7, <1>8, Moves

\* What a server sends are the values behind its machine's local entries.
LEMMA AnswerKeeps ==
  ASSUME TypeInv, TypeInv', Inv, NEW m \in Machines, Answer(m)
  PROVE  Inv'
<1> DEFINE p == <<m, "serve">>
           next == proc[p].next
           payload == Values(m, next, Local(next))
           ps == [Idle EXCEPT !.pc = "sent", !.todo = payload]
<1>1. p \in Processes /\ p[1] = m /\ p[2] = "serve" /\ p # Sync
  BY ProcessIs DEF Sync
<1>2. proc[p].pc = "load" /\ CanAnswer(p) /\ Goes(p, ps) /\ UNCHANGED files /\ lapped' = lapped
  BY DEF Answer
<1>3. next \in EntryMap /\ PlaceInv(p) /\ OwnInv(p)
  BY <1>1, InvAt DEF Registers
<1>4. Local(next) \subseteq DOMAIN next /\ Loadable(m, next, Local(next))
  BY <1>1, <1>2 DEF CanAnswer, Local
<1>5. /\ payload \in SecretMap /\ DOMAIN payload = Local(next)
      /\ \A n \in Local(next) : next[n].ref \in DOMAIN vault[m] /\ payload[n] = vault[m][next[n].ref]
  BY <1>3, <1>4, ValuesAre
<1> HIDE DEF payload, p
<1>6. \A n \in DOMAIN payload : payload[n] \in Own(m)
  BY <1>1, <1>3, <1>5 DEF OwnInv, OwnValues
<1>7. /\ ps \in Registers /\ ps.pc = "sent" /\ ps.next = NoEntries /\ ps.retired = {}
      /\ ps.failed = {} /\ ps.created = {} /\ ps.todo = payload
  BY <1>5, IdleIs DEF Registers, Places
<1> HIDE DEF ps
<1>8. proc'[p] = ps /\ \A q \in Processes : q # p => proc'[q] = proc[q]
  BY <1>1, <1>2, <1>7, GoesIs
<1>9. ~Using(p)' /\ Quiet(p)'
  BY <1>7, <1>8 DEF Using, Quiet, Blank
<1>10. PlaceInv(p)'
  BY <1>1, <1>7, <1>8, <1>9 DEF PlaceInv, Quiet
<1>11. OwnInv(p)' /\ KnowInv(p)'
  BY <1>1, <1>6, <1>7, <1>8, <1>9, QuietKnows DEF OwnInv
<1>12. proc'[p].created = proc[p].created
  BY <1>2, <1>3, <1>7, <1>8 DEF PlaceInv
<1> QED BY <1>1, <1>2, <1>8, <1>9, <1>10, <1>11, <1>12, Moves

\* An answer that cannot be given, and one that arrives.
LEMMA AnswerFailsKeeps ==
  ASSUME TypeInv, TypeInv', Inv, NEW m \in Machines, AnswerFails(m)
  PROVE  Inv'
<1> DEFINE p == <<m, "serve">>
<1>1. p \in Processes /\ proc[p].pc = "load" /\ Ends(p) /\ UNCHANGED files /\ lapped' = lapped
  BY ProcessIs DEF AnswerFails
<1> HIDE DEF p
<1>2. proc[p].created = {}
  BY <1>1, InvAt DEF PlaceInv
<1> QED BY <1>1, <1>2, EndsKeeps

\* The answer reaches the sync that waits for it, or nobody.
LEMMA DeliverKeeps ==
  ASSUME TypeInv, TypeInv', Inv, NEW m \in Machines, Deliver(m)
  PROVE  Inv'
<1> DEFINE p == <<m, "serve">>
           waits == p = Server /\ proc[Sync].pc = "asked"
           ps == [Idle EXCEPT !.pc = "answered", !.todo = proc[p].todo]
<1>1. p \in Processes /\ p[1] = m /\ p # Sync /\ Sync \in Processes
  BY ProcessIs DEF Sync
<1>2. /\ proc[p].pc = "sent" /\ UNCHANGED files /\ lapped' = lapped
      /\ proc' = [q \in Processes |->
                   IF q = p THEN Idle ELSE IF q = Sync /\ waits THEN ps ELSE proc[q]]
  BY DEF Deliver
<1>3. PlaceInv(p) /\ PlaceInv(Sync)
  BY <1>1, InvAt
<1>4. proc[p].todo \in SecretMap
  BY <1>1 DEF TypeInv, Registers
<1>5. ps.pc = "answered" /\ ps.next = NoEntries /\ ps.retired = {} /\ ps.failed = {} /\ ps.created = {}
  BY <1>4, IdleIs DEF Registers
<1> HIDE DEF ps, p
<1>6. proc'[p] = Idle
  BY <1>1, <1>2
<1>7. ASSUME waits
      PROVE  Quiet(Sync) /\ Quiet(Sync)' /\ PlaceInv(Sync)'
  <2>1. proc'[Sync] = ps
    BY <1>1, <1>2, <1>7
  <2>2. Quiet(Sync) /\ Quiet(Sync)'
    BY <1>3, <1>5, <1>7, <2>1 DEF Quiet, Using, Blank, PlaceInv
  <2> QED BY <1>5, <2>1, <2>2, ProcessIs DEF PlaceInv, Quiet, Blank, Using
<1>8. \A q \in Processes : q # p => proc'[q] = proc[q]
                              \/ (q = Sync /\ Quiet(q) /\ Quiet(q)' /\ PlaceInv(q)')
  BY <1>2, <1>7
<1>9. proc'[p].created = proc[p].created
  BY <1>2, <1>3, <1>6, IdleIs DEF PlaceInv
<1> QED BY <1>1, <1>2, <1>6, <1>8, <1>9, IdleKnows, Moves

\* The local entries of what keeps the local entries.
LEMMA LocalOfLocal ==
  ASSUME NEW e
  PROVE  Local(Restrict(e, Local(e))) = Local(e)
<1> DEFINE D == Local(e)
           g == Restrict(e, D)
<1>1. DOMAIN g = D /\ \A n \in D : g[n] = e[n]
  BY DEF Restrict
<1>2. D \subseteq DOMAIN e /\ \A n \in D : e[n].origin = "local"
  BY DEF Local
<1> HIDE DEF g, D
<1>3. Local(g) = D
  BY <1>1, <1>2 DEF Local
<1> QED BY <1>3 DEF g, D

\* The follower keeps its user's entries, and queues the credentials of the others.
LEMMA ClearKeeps ==
  ASSUME TypeInv, TypeInv', Inv, ClearTransferred
  PROVE  Inv'
<1> DEFINE m == Follower
           e == Entries(m)
           h == Holding(m, "clear", "write", NoEntries)
           D == Local(e)
           g == Restrict(e, D)
           rest == {e[n].ref : n \in DOMAIN e \ D}
           ps == [h EXCEPT !.next = g, !.retired = @ \cup rest]
<1>1. Sync \in Processes /\ m \in Machines /\ Sync[1] = m /\ Sync[2] = "sync" /\ PlaceInv(Sync)
  BY ProcessIs, InvAt
<1>2. /\ h \in Registers /\ h.pc = "write" /\ h.goal = "clear" /\ h.todo = NoEntries
      /\ h.next = e /\ h.retired = manifest[m].retired /\ h.failed = {} /\ h.created = {}
  BY <1>1, NoneIs, HoldingIs DEF Goals, Places, SecretMap
<1>3. /\ Ends(Sync) \/ Goes(Sync, ps)
      /\ proc[Sync].pc = "refused" /\ Reads(m) /\ UNCHANGED files
  <2> HIDE DEF m
  <2> QED BY <1>2 DEF ClearTransferred, Remote, m
<1>4. proc[Sync].created = {} /\ ~Using(Sync) /\ lapped \subseteq lapped'
  BY <1>1, <1>3, ReadsIs DEF PlaceInv, Using, Blank
<1>5. CASE Ends(Sync)
  BY <1>1, <1>3, <1>4, <1>5, EndsKeeps
<1>6. CASE Goes(Sync, ps)
  <2>1. e \in EntryMap /\ D \subseteq DOMAIN e
    BY <1>1 DEF TypeInv, Local
  <2>2. g \in EntryMap /\ DOMAIN g = D /\ \A n \in D : g[n] = e[n]
    BY <2>1, RestrictIs DEF EntryMap
  <2>3. rest \subseteq References
    BY <2>1, RefIs
  <2>4. OwnValues(m, e)
    BY <1>1 DEF Inv
  <2>5. OwnValues(m, g)
    <3> HIDE DEF D, e
    <3> QED BY <2>1, <2>4, OwnRestrict
  <2>6. Local(g) = Local(e)
    BY LocalOfLocal
  <2>7. Distinct(e) => /\ Distinct(g) /\ Refs(g) \subseteq Refs(e)
                       /\ Refs(e) \subseteq Refs(g) \cup rest /\ Disjoint(rest, Refs(g))
    BY <2>1, RestrictRefs
  <2>8. \A n \in Local(g) : g[n] = e[n]
    BY <2>2, <2>6
  <2> HIDE DEF h, g, rest, D, m
  <2>9. /\ ps \in Registers /\ ps.pc = "write" /\ ps.goal = "clear" /\ ps.todo = NoEntries
        /\ ps.next = g /\ ps.retired = manifest[m].retired \cup rest /\ ps.failed = {} /\ ps.created = {}
    BY <1>2, <2>2, <2>3 DEF Registers
  <2> HIDE DEF ps
  <2>10. proc'[Sync] = ps /\ \A q \in Processes : q # Sync => proc'[q] = proc[q]
    BY <1>1, <1>6, <2>9, GoesIs
  <2>11. PlaceInv(Sync)'
    BY <1>1, <2>9, <2>10 DEF PlaceInv, Using, Blank
  <2>12. UNCHANGED <<manifest, vault>>
    BY <1>3 DEF files
  <2>13. OwnInv(Sync)'
    BY <1>1, <2>5, <2>9, <2>10, <2>12 DEF OwnInv, OwnValues
  <2>14. ASSUME m \notin lapped'
         PROVE  KnowInv(Sync)' /\ Alone(m)
    <3>1. Alone(m) /\ WorldInv(m)
      BY <1>1, <1>3, <2>14, BeginsKeeps
    <3>2. /\ Distinct(g) /\ Refs(g) \subseteq DOMAIN vault[m]
          /\ Disjoint(manifest[m].retired \cup rest, Refs(g))
      BY <2>7, <3>1 DEF WorldInv, Disjoint
    <3>3. Refs(e) \cup manifest[m].retired \subseteq Refs(g) \cup (manifest[m].retired \cup rest)
      BY <2>7, <3>1 DEF WorldInv
    <3>4. proc'[Sync].next = g /\ e' = e
      BY <2>9, <2>10, <2>12
    <3>5. KnowInv(Sync)'
      BY <1>1, <2>6, <2>8, <2>9, <2>10, <2>12, <3>2, <3>3, <3>4 DEF KnowInv, Disjoint, e
    <3> QED BY <3>1, <3>5
  <2>15. proc'[Sync].created = proc[Sync].created
    BY <1>4, <2>9, <2>10
  <2> QED BY <1>1, <1>3, <1>4, <2>10, <2>11, <2>13, <2>14, <2>15, Moves
<1> QED BY <1>3, <1>5, <1>6

\* What was received is held while the queued removals are retried.
LEMMA ApplyKeeps ==
  ASSUME TypeInv, TypeInv', Inv, ApplyTransferred
  PROVE  Inv'
<1> DEFINE m == Follower
           todo == proc[Sync].todo
           h == Holding(m, "sweep", "remove", todo)
<1>1. Sync \in Processes /\ m \in Machines /\ Sync[1] = m /\ Sync[2] = "sync" /\ PlaceInv(Sync)
  BY ProcessIs, InvAt
<1>2. todo \in SecretMap
  BY <1>1 DEF TypeInv, Registers
<1>3. /\ h \in Registers /\ h.pc = "remove" /\ h.goal = "sweep" /\ h.todo = todo
      /\ h.next = Entries(m) /\ h.retired = manifest[m].retired /\ h.failed = {} /\ h.created = {}
  BY <1>1, <1>2, HoldingIs DEF Goals, Places
<1>4. Goes(Sync, h) /\ proc[Sync].pc = "answered" /\ Reads(m) /\ UNCHANGED files
  BY DEF ApplyTransferred
<1> HIDE DEF h, m, todo
<1>5. proc[Sync].created = {} /\ ~Using(Sync) /\ lapped \subseteq lapped'
  BY <1>1, <1>4, ReadsIs DEF PlaceInv, Using, Blank
<1>6. proc'[Sync] = h /\ \A q \in Processes : q # Sync => proc'[q] = proc[q]
  BY <1>1, <1>3, <1>4, GoesIs
<1>7. PlaceInv(Sync)'
  BY <1>1, <1>3, <1>6 DEF PlaceInv, Using, Blank
<1>8. UNCHANGED <<manifest, vault>>
  BY <1>4 DEF files
<1>9. OwnInv(Sync)'
  <2>1. OwnValues(m, Entries(m))
    BY <1>1 DEF Inv
  <2> QED BY <1>1, <1>3, <1>6, <1>8, <2>1 DEF OwnInv, OwnValues
<1>10. ASSUME m \notin lapped'
       PROVE  KnowInv(Sync)' /\ Alone(m)
  <2>1. Alone(m) /\ WorldInv(m)
    BY <1>1, <1>4, <1>10, BeginsKeeps
  <2> QED BY <1>1, <1>3, <1>6, <1>8, <2>1 DEF KnowInv, WorldInv, Disjoint
<1>11. proc'[Sync].created = proc[Sync].created
  BY <1>3, <1>5, <1>6
<1> QED BY <1>1, <1>4, <1>5, <1>6, <1>7, <1>9, <1>10, <1>11, Moves

\* Without a name the user owns, the transferred entries give way to new ones.
LEMMA CheckKeeps ==
  ASSUME TypeInv, TypeInv', Inv, CheckNames
  PROVE  Inv'
<1> DEFINE m == Follower
           e == proc[Sync].next
           todo == proc[Sync].todo
           D == Local(e)
           g == Restrict(e, D)
           rest == {e[n].ref : n \in DOMAIN e \ D}
           ps == [proc[Sync] EXCEPT !.goal = "apply", !.pc = "store", !.next = g, !.retired = rest]
<1>1. /\ Sync \in Processes /\ m \in Machines /\ Sync[1] = m /\ Sync[2] = "sync"
      /\ PlaceInv(Sync) /\ OwnInv(Sync) /\ proc[Sync] \in Registers
  BY ProcessIs, InvAt
<1>2. /\ Ends(Sync) \/ (Goes(Sync, ps) /\ D \cap DOMAIN todo = {})
      /\ proc[Sync].pc = "check" /\ UNCHANGED files /\ lapped' = lapped
  BY DEF CheckNames, Remote
<1>3. proc[Sync].created = {} /\ Using(Sync)
  BY <1>1, <1>2 DEF PlaceInv, Using
<1>4. CASE Ends(Sync)
  BY <1>1, <1>2, <1>3, <1>4, EndsKeeps
<1>5. CASE Goes(Sync, ps) /\ D \cap DOMAIN todo = {}
  <2>1. e \in EntryMap /\ D \subseteq DOMAIN e
    BY <1>1 DEF Registers, Local
  <2>2. g \in EntryMap /\ DOMAIN g = D /\ \A n \in D : g[n] = e[n]
    BY <2>1, RestrictIs DEF EntryMap
  <2>3. rest \subseteq References
    BY <2>1, RefIs
  <2>4. OwnValues(m, g)
    <3>1. OwnValues(m, e)
      BY <1>1 DEF OwnInv
    <3> HIDE DEF D, e
    <3> QED BY <2>1, <3>1, OwnRestrict
  <2>5. Local(g) = Local(e) /\ \A n \in Local(g) : g[n] = e[n]
    BY <2>2, LocalOfLocal
  <2>6. Distinct(e) => /\ Distinct(g) /\ Refs(g) \subseteq Refs(e)
                       /\ Refs(e) \subseteq Refs(g) \cup rest /\ Disjoint(rest, Refs(g))
    BY <2>1, RestrictRefs
  <2>7. \A n \in DOMAIN todo : n \notin Local(g)
    BY <1>5, <2>5
  <2> HIDE DEF g, rest, D, m
  <2>8. /\ ps \in Registers /\ ps.pc = "store" /\ ps.goal = "apply" /\ ps.todo = todo
        /\ ps.next = g /\ ps.retired = rest /\ ps.failed = proc[Sync].failed /\ ps.created = {}
    BY <1>1, <1>3, <2>2, <2>3 DEF Registers, Places, Goals
  <2> HIDE DEF ps
  <2>9. proc'[Sync] = ps /\ \A q \in Processes : q # Sync => proc'[q] = proc[q]
    BY <1>1, <1>5, <2>8, GoesIs
  <2>10. PlaceInv(Sync)'
    BY <1>1, <2>8, <2>9 DEF PlaceInv, Using, Blank
  <2>11. UNCHANGED <<manifest, vault>>
    BY <1>2 DEF files
  <2>12. OwnInv(Sync)'
    BY <1>1, <2>4, <2>8, <2>9, <2>11 DEF OwnInv, OwnValues
  <2>13. ASSUME m \notin lapped'
         PROVE  KnowInv(Sync)'
    <3>1. KnowInv(Sync) /\ WorldInv(m)
      BY <1>1, <1>2, <2>13, InvAt
    <3>2. e = Entries(m) /\ manifest[m].retired = {} /\ proc[Sync].failed = {}
      BY <1>1, <1>2, <3>1 DEF KnowInv
    <3>3. Distinct(g) /\ Refs(g) \subseteq DOMAIN vault[m] /\ Disjoint(rest, Refs(g))
      BY <2>6, <3>1, <3>2 DEF WorldInv
    <3>4. Refs(Entries(m)) \cup manifest[m].retired \subseteq Refs(g) \cup rest
      BY <2>6, <3>1, <3>2 DEF WorldInv
    <3> QED BY <1>1, <2>5, <2>7, <2>8, <2>9, <2>11, <3>2, <3>3, <3>4 DEF KnowInv, Disjoint
  <2>14. proc'[Sync].created = proc[Sync].created
    BY <1>3, <2>8, <2>9
  <2> QED BY <1>1, <1>2, <1>3, <2>9, <2>10, <2>12, <2>13, <2>14, Moves
<1> QED BY <1>2, <1>4, <1>5

\* A decision of the source changes no process and no file.
LEMMA StaysKeeps ==
  ASSUME Inv, manifest' = manifest, vault' = vault, leaked' = leaked,
         proc' = proc, lapped' = lapped
  PROVE  Inv'
<1>1. /\ manifest' = manifest /\ vault' = vault /\ leaked' = leaked
      /\ proc' = proc /\ lapped' = lapped
  OBVIOUS
<1>2. ASSUME NEW p \in Processes
      PROVE  PlaceInv(p)' /\ OwnInv(p)' /\ (p[1] \notin lapped' => KnowInv(p)')
  <2>1. PlaceInv(p) /\ OwnInv(p) /\ (p[1] \notin lapped => KnowInv(p))
    BY DEF Inv
  <2>2. PlaceInv(p)'
    BY <1>1, <2>1 DEF PlaceInv, Using, Blank
  <2>3. OwnInv(p)'
    BY <1>1, <2>1 DEF OwnInv, OwnValues
  <2>4. p[1] \notin lapped' => KnowInv(p)'
    BY <1>1, <2>1 DEF KnowInv
  <2> QED BY <2>2, <2>3, <2>4
<1>3. ASSUME NEW m \in Machines
      PROVE  OwnValues(m, Entries(m))' /\ (m \notin lapped' => WorldInv(m)' /\ SoleInv(m)')
  <2>1. OwnValues(m, Entries(m)) /\ (m \notin lapped => WorldInv(m) /\ SoleInv(m))
    BY DEF Inv
  <2>2. OwnValues(m, Entries(m))'
    BY <1>1, <2>1 DEF OwnValues
  <2>3. m \notin lapped' => WorldInv(m)'
    BY <1>1, <2>1 DEF WorldInv
  <2>4. m \notin lapped' => SoleInv(m)'
    BY <1>1, <2>1 DEF SoleInv, Using
  <2> QED BY <2>2, <2>3, <2>4
<1> QED BY <1>2, <1>3 DEF Inv

\* A source in use, and a follower that has just been enrolled.
LEMMA InvInit ==
  ASSUME Init
  PROVE  Inv
<1> DEFINE e == [n \in DOMAIN Held |-> [ref |-> HeldRefs[n], origin |-> "local"]]
           at(r) == CHOOSE n \in DOMAIN Held : HeldRefs[n] = r
           v == [r \in Range(HeldRefs) |-> Held[at(r)]]
<1>1. HeldRefs \in [DOMAIN Held -> References] /\ IsInjective(HeldRefs)
  BY ConstantsAreSane DEF HeldRefs
<1>2. \A n \in DOMAIN Held : HeldRefs[n] \in Range(HeldRefs) /\ at(HeldRefs[n]) = n
  BY <1>1 DEF Range, IsInjective
<1>3. \A r \in Range(HeldRefs) : \E n \in DOMAIN Held : HeldRefs[n] = r
  BY <1>1 DEF Range
<1>4. /\ DOMAIN e = DOMAIN Held /\ \A n \in DOMAIN e : e[n].ref = HeldRefs[n]
      /\ DOMAIN v = Range(HeldRefs) /\ \A n \in DOMAIN Held : v[HeldRefs[n]] = Held[n]
  BY <1>2
<1>5. manifest = [m \in Machines |-> [entries |-> IF m = Follower THEN NoEntries ELSE e, retired |-> {}]]
  BY DEF Init
<1>6. vault = [m \in Machines |-> IF m = Follower THEN NoEntries ELSE v]
  BY DEF Init
<1>7. proc = [p \in Processes |-> Idle] /\ lapped = {} /\ leaked = [m \in Machines |-> {}]
  BY DEF Init
<1> HIDE DEF e, v, at
<1>8. ASSUME NEW p \in Processes
      PROVE  PlaceInv(p) /\ OwnInv(p) /\ KnowInv(p) /\ ~Using(p) /\ proc[p].created = {}
  <2>1. proc[p] = Idle
    BY <1>7
  <2>2. ~Using(p) /\ Blank(p)
    BY <2>1, IdleIs DEF Using, Blank
  <2>3. PlaceInv(p)
    BY <2>1, <2>2, IdleIs DEF PlaceInv, Using
  <2>4. OwnInv(p)
    BY <2>1, IdleIs, NoneHas DEF OwnInv, OwnValues
  <2>5. KnowInv(p)
    BY <2>1, IdleIs DEF KnowInv
  <2> QED BY <2>1, <2>2, <2>3, <2>4, <2>5, IdleIs
<1>9. ASSUME NEW m \in Machines
      PROVE  OwnValues(m, Entries(m)) /\ WorldInv(m) /\ SoleInv(m)
  <2>1. SoleInv(m)
    BY <1>8 DEF SoleInv
  <2>2. CASE m = Follower
    <3>1. Entries(m) = NoEntries /\ manifest[m].retired = {} /\ vault[m] = NoEntries
      BY <1>5, <1>6, <2>2
    <3>2. OwnValues(m, Entries(m)) /\ WorldInv(m)
      BY <3>1, NoneHas DEF OwnValues, WorldInv, Disjoint
    <3> QED BY <2>1, <3>2
  <2>3. CASE m # Follower
    <3>1. Entries(m) = e /\ manifest[m].retired = {} /\ vault[m] = v /\ m = Source
      BY <1>5, <1>6, <2>3 DEF Machines
    <3>2. \A n \in DOMAIN Held : Held[n] \in Own(m)
      BY <3>1 DEF Own, Range
    <3>3. OwnValues(m, e)
      BY <1>4, <3>1, <3>2, InLocal DEF OwnValues
    <3>4. Distinct(e)
      BY <1>1, <1>4 DEF Distinct, IsInjective
    <3>5. Refs(e) = DOMAIN v
      <4>1. \A r : r \in Refs(e) <=> \E n \in DOMAIN e : e[n].ref = r
        BY InRefs
      <4>2. ASSUME NEW r \in Refs(e)
            PROVE  r \in DOMAIN v
        BY <1>2, <1>4, <4>1
      <4>3. ASSUME NEW r \in DOMAIN v
            PROVE  r \in Refs(e)
        <5>1. PICK n \in DOMAIN Held : HeldRefs[n] = r
          BY <1>3, <1>4
        <5>2. n \in DOMAIN e /\ e[n].ref = r
          BY <1>4, <5>1
        <5> QED BY <4>1, <5>2
      <4> QED BY <4>2, <4>3
    <3>6. WorldInv(m)
      BY <3>1, <3>4, <3>5 DEF WorldInv, Disjoint
    <3> QED BY <2>1, <3>1, <3>3, <3>6
  <2> QED BY <2>2, <2>3
<1> QED BY <1>8, <1>9 DEF Inv

\* Every step keeps the invariant.
LEMMA InvNext ==
  ASSUME TypeInv, Inv, [Next]_vars
  PROVE  TypeInv' /\ Inv'
<1>1. TypeInv'
  BY NextType
<1>2. CASE UNCHANGED vars
  <2>1. /\ manifest' = manifest /\ vault' = vault /\ leaked' = leaked
        /\ proc' = proc /\ lapped' = lapped
    BY <1>2 DEF vars
  <2> QED BY <1>1, <2>1, StaysKeeps
<1>3. ASSUME NEW m \in Machines, UserCommand(m)
      PROVE  Inv'
  BY <1>1, <1>3, StoreSecretKeeps, RemoveSecretKeeps DEF UserCommand
<1>4. ASSUME NEW p \in Processes, Step(p) \/ Crash(p)
      PROVE  Inv'
  BY <1>1, <1>4, MeasureKeeps, StoreValueKeeps, FailKeeps, WriteKeeps, RemoveKeeps, SettleKeeps,
     SettleFailsKeeps DEF Step
<1>5. CASE StartSync \/ Refuse \/ NoAnswer
  BY <1>1, <1>5, WaitKeeps
<1>6. CASE Serve \/ ServeForeign
  BY <1>1, <1>6, ServeKeeps, ProcessIs
<1>7. ASSUME NEW m \in Machines, Answer(m) \/ AnswerFails(m) \/ Deliver(m)
      PROVE  Inv'
  BY <1>1, <1>7, AnswerKeeps, AnswerFailsKeeps, DeliverKeeps
<1>8. CASE ClearTransferred \/ ApplyTransferred \/ CheckNames
  BY <1>1, <1>8, ClearKeeps, ApplyKeeps, CheckKeeps
<1>9. CASE LearnGrant \/ \E g \in {"shared", "unshared", "revoked"} : Grant(g)
  <2>1. /\ manifest' = manifest /\ vault' = vault /\ leaked' = leaked
        /\ proc' = proc /\ lapped' = lapped
    BY <1>9 DEF LearnGrant, Grant, files
  <2> QED BY <1>1, <2>1, StaysKeeps
<1> QED BY <1>1, <1>2, <1>3, <1>4, <1>5, <1>6, <1>7, <1>8, <1>9 DEF Next, Exchange

\* The invariant holds throughout.
LEMMA InvAlways == Sharing => [](TypeInv /\ Inv)
<1>1. Init => TypeInv /\ Inv
  BY InitType, InvInit
<1>2. TypeInv /\ Inv /\ [Next]_vars => (TypeInv /\ Inv)'
  BY InvNext
<1> QED BY <1>1, <1>2, PTL DEF Sharing

----------------------------------------------------------------------------
(* What the invariant says. *)

\* Secrets are not transitive (README.md:141): whatever overlaps, crashes or
\* fails, what a machine's server hands out was typed in by its own user, never
\* received from another machine.
THEOREM ServedIsOwn == Sharing => []NonTransitive
<1>1. TypeInv /\ Inv => NonTransitive
  <2> SUFFICES ASSUME TypeInv, Inv, NEW m \in Machines
               PROVE  Range(proc[<<m, "serve">>].todo) \subseteq Own(m)
    BY DEF NonTransitive
  <2> DEFINE p == <<m, "serve">>
  <2>1. p \in Processes /\ p # Sync /\ p[1] = m
    BY ProcessIs DEF Sync
  <2> HIDE DEF p
  <2>2. \A n \in DOMAIN proc[p].todo : proc[p].todo[n] \in Own(m)
    BY <2>1, InvAt DEF OwnInv
  <2>3. Range(proc[p].todo) \subseteq Own(m)
    BY <2>2 DEF Range
  <2> QED BY <2>3 DEF p
<1> QED BY <1>1, InvAlways, PTL

\* Every name a manifest lists has its value in the credential store, after any
\* crashes and failures, on a machine whose commands never used the manifest at
\* once: the value is stored before the name is written, and removed after.
THEOREM ListedIsStored == Sharing => []ActiveResolve
<1>1. TypeInv /\ Inv => ActiveResolve
  <2> SUFFICES ASSUME TypeInv, Inv, NEW m \in Machines \ lapped
               PROVE  Loadable(m, Entries(m), DOMAIN Entries(m))
    BY DEF ActiveResolve
  <2>1. Refs(Entries(m)) \subseteq DOMAIN vault[m]
    BY DEF Inv, WorldInv
  <2> QED BY <2>1, InRefs DEF Loadable
<1> QED BY <1>1, InvAlways, PTL

\* And every credential in the store is named, queued for removal, in the hands of
\* a running command, or among those given up between storeValue and writeManifest.
THEOREM NoOtherLeak == Sharing => []NothingLeaks
<1>1. TypeInv /\ Inv => NothingLeaks
  <2> SUFFICES ASSUME TypeInv, Inv, NEW m \in Machines \ lapped, NEW r \in DOMAIN vault[m]
               PROVE  r \in Refs(Entries(m)) \cup manifest[m].retired \cup leaked[m]
                            \cup UNION {proc[p].created : p \in {q \in Processes : q[1] = m}}
    BY DEF NothingLeaks
  <2>1. WorldInv(m)
    BY DEF Inv
  <2>2. \/ r \in Refs(Entries(m)) \/ r \in manifest[m].retired \/ r \in leaked[m]
        \/ \E q \in Processes : q[1] = m /\ r \in proc[q].created
    BY <2>1 DEF WorldInv
  <2> QED BY <2>2
<1> QED BY <1>1, InvAlways, PTL

\* The manifest of a machine changes only when a command of it writes, and a
\* command other than the user's writes the user's entries as they were.
LEMMA WritesKeepLocal ==
  ASSUME TypeInv, Inv, NEW p \in Processes, NEW m \in Machines, m \notin lapped',
         WriteManifest(p) \/ Settle(p), proc[<<m, "cli">>].goal \notin {"set", "remove"}
  PROVE  [n \in Local(Entries(m)') |-> Entries(m)'[n]] = [n \in Local(Entries(m)) |-> Entries(m)[n]]
<1> DEFINE next == proc[p].next
<1>1. /\ p[1] \in Machines /\ proc[p] \in Registers /\ PlaceInv(p) /\ lapped' = lapped
      /\ proc[p].pc \in {"remove", "removing", "write", "store"} /\ Using(p)
  BY InvAt DEF WriteManifest, Settle, Removed, ReadyToWrite, Using
<1>2. next \in EntryMap /\ proc[p].retired \in SUBSET References /\ proc[p].failed \in SUBSET References
  BY <1>1 DEF Registers
<1>3. \/ manifest' = manifest
      \/ /\ manifest'[p[1]].entries = next
         /\ \A o \in Machines : o # p[1] => manifest'[o] = manifest[o]
  BY <1>1, <1>2, SavedIs DEF WriteManifest, Settle
<1>4. CASE manifest'[m] = manifest[m]
  BY <1>4
<1>5. CASE m = p[1] /\ Entries(m)' = next
  <2>1. KnowInv(p)
    BY <1>1, <1>5, InvAt
  <2>2. p[2] # "cli"
    BY <1>1, <1>5, ProcessIs DEF PlaceInv
  <2>3. Local(next) = Local(Entries(m)) /\ \A n \in Local(next) : next[n] = Entries(m)[n]
    <3>1. CASE proc[p].pc \in {"remove", "removing"}
      BY <1>5, <2>1, <3>1 DEF KnowInv
    <3>2. CASE proc[p].pc \in {"store", "write"}
      <4>1. p = Sync
        BY <1>1, <2>2, <3>2, ProcessIs DEF PlaceInv
      <4> QED BY <1>5, <2>1, <3>2, <4>1 DEF KnowInv
    <3> QED BY <1>1, <3>1, <3>2
  <2> QED BY <1>5, <2>3
<1> QED BY <1>3, <1>4, <1>5

\* Synchronization, serving and clean-up never change, drop or take over a secret
\* the user of the machine stored, on a machine whose commands did not overlap.
THEOREM OthersKeepLocal == Sharing => LocalIsUsers
<1> DEFINE own(f) == [n \in Local(f) |-> f[n]]
           Kept == \A m \in Machines \ lapped' :
                     own(Entries(m)') # own(Entries(m)) => proc[<<m, "cli">>].goal \in {"set", "remove"}
<1>1. ASSUME TypeInv, Inv, [Next]_vars
      PROVE  Kept
  <2>1. ASSUME NEW p \in Processes, WriteManifest(p) \/ Settle(p)
        PROVE  Kept
    BY <1>1, <2>1, WritesKeepLocal
  <2>2. ASSUME UNCHANGED manifest
        PROVE  Kept
    BY <2>2
  <2>3. UNCHANGED manifest \/ \E p \in Processes : WriteManifest(p) \/ Settle(p)
    BY <1>1 DEF Next, vars, files, UserCommand, Step, Exchange, StoreSecret, RemoveSecret, Measure,
       StoreValue, StoreFails, WriteFails, RemoveOne, SettleFails, Refuse, Serve, NoAnswer, Answer,
       AnswerFails, Deliver, ClearTransferred, ApplyTransferred, CheckNames, StartSync, ServeForeign,
       LearnGrant, Grant, Crash
  <2> QED BY <2>1, <2>2, <2>3
<1>2. TypeInv /\ Inv /\ [Next]_vars => [Kept]_vars
  BY <1>1
<1> QED BY <1>2, InvAlways, PTL DEF Sharing, LocalIsUsers
=============================================================================
