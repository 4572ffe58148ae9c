----------------------------- MODULE Enrollment -----------------------------
(***************************************************************************)
(* Enrollment of followers: `canonfig follower enroll` on each machine,    *)
(* the request handlers of the source server, the source's enrollment      *)
(* tables and credential store, and the source operator's own commands,    *)
(* each of which opens the same database as the server.                    *)
(*                                                                         *)
(* A machine waits for one request at a time. A request whose client gave  *)
(* up (timeout, crash) is not cancelled: its handler runs to its end       *)
(* beside the handlers of later requests. Every repository operation and   *)
(* every access to a credential store is a step of its own.                *)
(*                                                                         *)
(* A credential is a number, 0 for none. The source keeps digests and a    *)
(* reference; both are the number here, since each credential has one      *)
(* digest and is stored under a fresh name.                                *)
(***************************************************************************)
EXTENDS Integers, FiniteSets

CONSTANTS
  Machine,   \* follower machines
  Name,      \* names, hence identities: the id is derived from the name
  Code,      \* invitations the operator may issue
  None,      \* no name, no invitation
  MaxCred,   \* bound on credentials in use at the same time
  MaxReq,    \* bound on requests being handled at the same time
  Replace,   \* whether an operator may pass --replace
  Ahead,     \* whether invitations are issued while another one is open
  Allowed,   \* kinds of mishap that may happen
  MaxMishaps \* bound on their number

Cred == 1..MaxCred
Req == 1..MaxReq
Mishap == {"lose", "crash", "restart", "expire", "error", "save", "reject",
           "revoke", "command"}

ASSUME EnrollmentAssumption ==
  /\ MaxCred \in Nat /\ MaxReq \in Nat
  /\ None \notin Name \cup Code
  /\ Replace \in BOOLEAN /\ Ahead \in BOOLEAN
  /\ Allowed \subseteq Mishap
  /\ MaxMishaps \in Nat

VARIABLES
  invite,     \* enrollment_invitations
  pend,       \* pending_enrollments, keyed by identity; cred 0: no row
  fol,        \* followers and follower_credentials; cred 0: no row
  vault,      \* follower credentials in the source's credential store
  req,        \* the request handlers of the source server
  console,    \* the source operator's command under way
  conf,       \* follower_sync_configuration of each machine
  slot,       \* each machine's credential store, keyed by identity
  cmd,        \* the `follower enroll` command of each machine
  spent,      \* number of mishaps so far
  activated   \* history: credentials that were active at some time

tables == <<invite, pend, fol, activated>>
source == <<invite, pend, fol, activated, vault, console>>
follower == <<conf, slot, cmd>>
vars == <<invite, pend, fol, vault, req, console, conf, slot, cmd, spent, activated>>

Invite == {"unissued", "open", "expired", "used"}
Row == [code: Code \cup {None}, cred: 0..MaxCred]
NoRow == [code |-> None, cred |-> 0]

Answer == {"none", "ok", "invalid", "refused"}
HandlerAt == {"free", "find", "identity", "store", "list", "unpend", "unvault",
              "consume", "drop", "unprev", "fread", "factive", "ftxn", "cancel",
              "answered"}
Handler == [at: HandlerAt, name: Name \cup {None}, code: Code \cup {None},
            cred: 0..MaxCred, prev: 0..MaxCred, stale: 0..MaxCred, fresh: BOOLEAN, res: Answer]
Free == [at |-> "free", name |-> None, code |-> None, cred |-> 0, prev |-> 0, stale |-> 0,
         fresh |-> FALSE, res |-> "none"]

CmdAt == {"idle", "resume", "resuming", "prepare", "preparing", "store", "save",
          "cancel", "cancelling", "finalize", "finalizing", "clear"}
Waiting == {"resuming", "preparing", "cancelling", "finalizing"}
Command == [at: CmdAt, name: Name \cup {None}, code: Code \cup {None},
            cred: 0..MaxCred, req: 0..MaxReq]
Idle == [at |-> "idle", name |-> None, code |-> None, cred |-> 0, req |-> 0]

\* Somebody waits for the answer of request k.
Awaited(k) == \E m \in Machine : cmd[m].req = k

\* Types, and that commands and handlers match: who waits has a request, and
\* an answer nobody waits for is not kept (the server ends every handler).
TypeOK ==
  /\ invite \in [Code -> Invite]
  /\ pend \in [Name -> Row]
  /\ fol \in [Name -> [cred: 0..MaxCred, active: BOOLEAN]]
  /\ vault \subseteq Cred
  /\ req \in [Req -> Handler]
  /\ console \in {"idle", "issue", "revoke", "other"}
  /\ conf \in [Machine -> [kind: {"none", "pending", "enrolled"}, name: Name \cup {None}]]
  /\ slot \in [Machine -> [Name -> 0..MaxCred]]
  /\ cmd \in [Machine -> Command]
  /\ spent \in 0..MaxMishaps
  /\ activated \subseteq Cred
  /\ \A m \in Machine : cmd[m].at \in Waiting <=> cmd[m].req # 0
  /\ \A k \in Req : req[k].at = "answered" => Awaited(k)

Init ==
  /\ invite = [c \in Code |-> "unissued"]
  /\ pend = [n \in Name |-> NoRow]
  /\ fol = [n \in Name |-> [cred |-> 0, active |-> FALSE]]
  /\ vault = {}
  /\ req = [k \in Req |-> Free]
  /\ console = "idle"
  /\ conf = [m \in Machine |-> [kind |-> "none", name |-> None]]
  /\ slot = [m \in Machine |-> [n \in Name |-> 0]]
  /\ cmd = [m \in Machine |-> Idle]
  /\ spent = 0
  /\ activated = {}

\* One more mishap, of kind x, within the bound.
Spend(x) ==
  /\ x \in Allowed
  /\ spent < MaxMishaps
  /\ spent' = spent + 1

----------------------------------------------------------------------------
(* The source operator: every command first opens the repository. *)

\* makeRepository discards all pending rows, those the running server has just
\* written included.
OpenRepository(what) ==
  /\ console = "idle"
  /\ CASE what = "issue" -> /\ \E c \in Code : invite[c] = "unissued"
                            /\ Ahead \/ \A c \in Code : invite[c] # "open"
                            /\ UNCHANGED spent
       [] what = "revoke" -> Spend("revoke")
       [] what = "other" -> Spend("command")
  /\ console' = what
  /\ pend' = [n \in Name |-> NoRow]
  /\ UNCHANGED <<invite, fol, activated, vault, req, follower>>

\* createEnrollmentInvitation.
Issue(c) ==
  /\ console = "issue"
  /\ invite[c] = "unissued"
  /\ invite' = [invite EXCEPT ![c] = "open"]
  /\ console' = "idle"
  /\ UNCHANGED <<pend, fol, activated, vault, req, follower, spent>>

\* revokeFollower.
Revoke(n) ==
  /\ console = "revoke"
  /\ fol[n].cred # 0
  /\ fol' = [fol EXCEPT ![n].active = FALSE]
  /\ console' = "idle"
  /\ UNCHANGED <<invite, pend, activated, vault, req, follower, spent>>

\* Any other command of the source, and `source revoke` of an unknown follower.
EndCommand ==
  /\ console = "other" \/ (console = "revoke" /\ \A n \in Name : fol[n].cred = 0)
  /\ console' = "idle"
  /\ UNCHANGED <<tables, vault, req, follower, spent>>

\* The lifetime of an invitation passes.
Expire(c) ==
  /\ invite[c] = "open"
  /\ Spend("expire")
  /\ invite' = [invite EXCEPT ![c] = "expired"]
  /\ UNCHANGED <<pend, fol, activated, vault, req, console, follower>>

----------------------------------------------------------------------------
(* The handlers of the source server. *)

\* The handler of request k ends with answer a; nobody may be left to read it.
Finish(k, a) ==
  req' = [req EXCEPT ![k] =
            IF Awaited(k)
            THEN [Free EXCEPT !.at = "answered", !.res = a, !.cred = req[k].cred]
            ELSE Free]

Goto(k, at) == req' = [req EXCEPT ![k].at = at]

\* findEnrollmentInvitation and the checks that follow it.
Find(k) ==
  /\ req[k].at = "find"
  /\ IF invite[req[k].code] = "open" THEN Goto(k, "identity") ELSE Finish(k, "refused")
  /\ UNCHANGED <<source, follower, spent>>

\* getFollowerCredential: an active identity is refused before the credential
\* store is touched; a revoked one leaves its credential behind.
Identity(k) ==
  LET n == req[k].name IN
  /\ req[k].at = "identity"
  /\ IF fol[n].active
     THEN Finish(k, "refused")
     ELSE req' = [req EXCEPT ![k].at = "store", ![k].prev = fol[n].cred]
  /\ UNCHANGED <<source, follower, spent>>

\* Credentials that occur nowhere, and never were active: a random one is new.
Fresh ==
  {c \in Cred :
     /\ c \notin activated \cup vault
     /\ \A n \in Name : c # pend[n].cred /\ \A m \in Machine : c # slot[m][n]
     /\ \A m \in Machine : c # cmd[m].cred
     /\ \A k \in Req : c \notin {req[k].cred, req[k].stale, req[k].prev}}

\* storeCredential under a random name, then enrolledAt is read from the clock:
\* whether the invitation had expired by then is decided now, not when it is
\* consumed.
StoreCredential(k) ==
  /\ req[k].at = "store"
  /\ \/ \E c \in Fresh :
          /\ \A d \in Fresh : c <= d
          /\ vault' = vault \cup {c}
          /\ req' = [req EXCEPT ![k].at = "list", ![k].cred = c,
                                ![k].fresh = invite[req[k].code] = "open"]
     \/ /\ Fresh = {}
        /\ Finish(k, "refused")
        /\ UNCHANGED vault
  /\ UNCHANGED <<tables, console, follower, spent>>

Pending(n, c) == pend[n].cred # 0 /\ pend[n].code = c

\* listPendingEnrollments: an earlier preparation with the same invitation is
\* replaced if it was for the same identity.
ListPending(k) ==
  LET h == req[k]
      rows == {n \in Name : Pending(n, h.code)}
  IN
  /\ h.at = "list"
  /\ CASE rows = {} -> Goto(k, "consume")
       [] h.name \in rows ->
            req' = [req EXCEPT ![k].at = "unpend", ![k].stale = pend[h.name].cred]
       [] OTHER -> Finish(k, "refused")
  /\ UNCHANGED <<source, follower, spent>>

\* DELETE FROM pending_enrollments WHERE credential_digest = c.
WithoutRow(c) == [n \in Name |-> IF pend[n].cred = c THEN NoRow ELSE pend[n]]

CancelStale(k) ==
  /\ req[k].at = "unpend"
  /\ pend' = WithoutRow(req[k].stale)
  /\ Goto(k, "unvault")
  /\ UNCHANGED <<invite, fol, activated, vault, console, follower, spent>>

DropStale(k) ==
  /\ req[k].at = "unvault"
  /\ vault' = vault \ {req[k].stale}
  /\ req' = [req EXCEPT ![k].at = "consume", ![k].stale = 0]
  /\ UNCHANGED <<tables, console, follower, spent>>

\* consumeEnrollmentInvitation, one transaction. The last conjunct is the
\* primary key of pending_enrollments.
Consumable(h) ==
  /\ invite[h.code] # "used"
  /\ h.fresh
  /\ \A n \in Name : ~Pending(n, h.code)
  /\ ~fol[h.name].active
  /\ pend[h.name].cred = 0

Consume(k) ==
  LET h == req[k] IN
  /\ h.at = "consume"
  /\ IF Consumable(h)
     THEN /\ pend' = [pend EXCEPT ![h.name] = [code |-> h.code, cred |-> h.cred]]
          /\ Goto(k, "unprev")
     ELSE /\ Goto(k, "drop")
          /\ UNCHANGED pend
  /\ UNCHANGED <<invite, fol, activated, vault, console, follower, spent>>

\* The handler's own credential is removed when the transaction is refused.
DropOwn(k) ==
  /\ req[k].at = "drop"
  /\ vault' = vault \ {req[k].cred}
  /\ Finish(k, "refused")
  /\ UNCHANGED <<tables, console, follower, spent>>

\* The credential of the revoked identity is removed, and the answer is sent.
DropPrevious(k) ==
  /\ req[k].at = "unprev"
  /\ vault' = vault \ {req[k].prev}
  /\ Finish(k, "ok")
  /\ UNCHANGED <<tables, console, follower, spent>>

\* finalizeFollower: listPendingEnrollments.
FinalizeRead(k) ==
  LET rows == {n \in Name : pend[n].cred # 0 /\ pend[n].cred = req[k].cred} IN
  /\ req[k].at = "fread"
  /\ \/ \E n \in rows : req' = [req EXCEPT ![k].at = "ftxn", ![k].name = n]
     \/ rows = {} /\ Goto(k, "factive")
  /\ UNCHANGED <<source, follower, spent>>

ActiveCredential(c) == \E n \in Name : fol[n].active /\ fol[n].cred = c

\* Faulty variant: a credential without a pending row counts as finalized.
FinalizeActiveLenient(k) ==
  /\ req[k].at = "factive"
  /\ Finish(k, "ok")
  /\ UNCHANGED <<source, follower, spent>>

\* findFollowerCredential: a repeated finalize of an active credential is fine.
FinalizeActive(k) ==
  /\ req[k].at = "factive"
  /\ Finish(k, IF ActiveCredential(req[k].cred) THEN "ok" ELSE "invalid")
  /\ UNCHANGED <<source, follower, spent>>

\* Faulty variant: expiry is checked only when the invitation is consumed.
FinalizableLate(h) == ~fol[h.name].active /\ invite[pend[h.name].code] # "used"

\* The pending row of handler h may become an active follower.
Finalizable(h) == ~fol[h.name].active /\ invite[pend[h.name].code] = "open"

\* UPDATE enrollment_invitations SET used_at.
SpendInvitation(c) == invite' = [invite EXCEPT ![c] = "used"]

\* finalizeEnrollment, one transaction: the row may be gone by now.
FinalizeEnrollment(k) ==
  LET h == req[k]
      row == pend[h.name]
      active == fol[h.name] = [cred |-> h.cred, active |-> TRUE]
  IN
  /\ h.at = "ftxn"
  /\ IF row.cred = h.cred /\ Finalizable(h)
     THEN /\ fol' = [fol EXCEPT ![h.name] = [cred |-> h.cred, active |-> TRUE]]
          /\ SpendInvitation(row.code)
          /\ pend' = [pend EXCEPT ![h.name] = NoRow]
          /\ activated' = activated \cup {h.cred}
          /\ Finish(k, "ok")
     ELSE /\ Finish(k, IF row.cred # h.cred /\ active THEN "ok" ELSE "refused")
          /\ UNCHANGED tables
  /\ UNCHANGED <<vault, console, follower, spent>>

\* cancelPendingEnrollment.
CancelPending(k) ==
  /\ req[k].at = "cancel"
  /\ pend' = WithoutRow(req[k].cred)
  /\ Finish(k, "ok")
  /\ UNCHANGED <<invite, fol, activated, vault, console, follower, spent>>

HandlerStep(k) ==
  \/ Find(k) \/ Identity(k) \/ StoreCredential(k) \/ ListPending(k)
  \/ CancelStale(k) \/ DropStale(k) \/ Consume(k) \/ DropOwn(k) \/ DropPrevious(k)
  \/ FinalizeRead(k) \/ FinalizeActive(k) \/ FinalizeEnrollment(k)
  \/ CancelPending(k)

\* A repository operation or a store operation of the handler fails. Only a
\* refused consumption removes the handler's credential; the failure at
\* "unprev" is that of listRevisions, after the removal.
RequestFails(k) ==
  /\ req[k].at \in {"find", "identity", "store", "list", "unpend", "consume",
                    "unprev", "fread", "factive", "ftxn", "cancel"}
  /\ Spend("error")
  /\ IF req[k].at = "consume" THEN Goto(k, "drop") ELSE Finish(k, "refused")
  /\ vault' = IF req[k].at = "unprev" THEN vault \ {req[k].prev} ELSE vault
  /\ UNCHANGED <<tables, console, follower>>

----------------------------------------------------------------------------
(* `canonfig follower enroll` on machine m. *)

\* The credential the machine's configuration refers to: configurations hold a
\* reference, and the reference is the same for every credential of a name.
Held(m) == slot[m][conf[m].name]

Forget(m, n) == slot' = [slot EXCEPT ![m][n] = 0]

Command0(m, at) == cmd' = [cmd EXCEPT ![m].at = at]

\* The command reads the configuration. Taking another name than the one the
\* machine is enrolled under needs --replace and removes the credential of the
\* old one first.
Enroll(m, n, c) ==
  LET other == conf[m].kind = "enrolled" /\ conf[m].name # n IN
  /\ cmd[m].at = "idle"
  /\ invite[c] # "unissued"
  /\ other => Replace
  /\ cmd' = [cmd EXCEPT ![m] =
               [Idle EXCEPT !.at = IF conf[m].kind = "pending" THEN "resume" ELSE "prepare",
                            !.name = n, !.code = c]]
  /\ IF other THEN Forget(m, conf[m].name) ELSE UNCHANGED slot
  /\ UNCHANGED <<source, req, conf, spent>>

\* Machine m sends request h and waits at place at.
Send(m, h, at) ==
  \E k \in Req :
    /\ req[k].at = "free" /\ \A j \in Req : req[j].at = "free" => k <= j
    /\ req' = [req EXCEPT ![k] = h]
    /\ cmd' = [cmd EXCEPT ![m].at = at, ![m].req = k]

\* Machine m, waiting at place at, reads an answer and goes on at place next.
Receive(m, at, answers, next) ==
  LET k == cmd[m].req IN
  /\ cmd[m].at = at
  /\ req[k].at = "answered" /\ req[k].res \in answers
  /\ req' = [req EXCEPT ![k] = Free]
  /\ cmd' = [cmd EXCEPT ![m] =
               IF next = "idle" THEN Idle ELSE [@ EXCEPT !.at = next, !.req = 0]]

\* A pending configuration is finalized before anything else; without its
\* credential that fails as an invalid credential.
Resume(m) ==
  /\ cmd[m].at = "resume"
  /\ IF Held(m) = 0
     THEN Command0(m, "prepare") /\ UNCHANGED req
     ELSE Send(m, [Free EXCEPT !.at = "fread", !.cred = Held(m)], "resuming")
  /\ UNCHANGED <<source, conf, slot, spent>>

\* Faulty variant: every failure to resume drops the local half.
ResumedForgetting(m) ==
  /\ \/ Receive(m, "resuming", {"ok"}, "clear") /\ UNCHANGED slot
     \/ Receive(m, "resuming", {"invalid", "refused"}, "prepare") /\ Forget(m, conf[m].name)
  /\ UNCHANGED <<source, conf, spent>>

\* Faulty variant: every failure to resume is reported.
ResumedStrict(m) ==
  /\ \/ Receive(m, "resuming", {"ok"}, "clear")
     \/ Receive(m, "resuming", {"refused", "invalid"}, "idle")
  /\ UNCHANGED <<source, conf, slot, spent>>

\* Only an invalid credential means that the source has forgotten the pending
\* enrollment; then the local half is dropped too.
Resumed(m) ==
  /\ \/ Receive(m, "resuming", {"ok"}, "clear") /\ UNCHANGED slot
     \/ Receive(m, "resuming", {"refused"}, "idle") /\ UNCHANGED slot
     \/ Receive(m, "resuming", {"invalid"}, "prepare") /\ Forget(m, conf[m].name)
  /\ UNCHANGED <<source, conf, spent>>

Prepare(m) ==
  /\ cmd[m].at = "prepare"
  /\ Send(m, [Free EXCEPT !.at = "find", !.name = cmd[m].name, !.code = cmd[m].code],
          "preparing")
  /\ UNCHANGED <<source, conf, slot, spent>>

Prepared(m) ==
  LET k == cmd[m].req IN
  /\ cmd[m].at = "preparing" /\ req[k].at = "answered"
  /\ cmd' = [cmd EXCEPT ![m] =
               IF req[k].res = "ok"
               THEN [@ EXCEPT !.at = "store", !.cred = req[k].cred, !.req = 0]
               ELSE Idle]
  /\ req' = [req EXCEPT ![k] = Free]
  /\ UNCHANGED <<source, conf, slot, spent>>

\* storeCredential, under a name derived from the identity.
StoreLocal(m) ==
  /\ cmd[m].at = "store"
  /\ slot' = [slot EXCEPT ![m][cmd[m].name] = cmd[m].cred]
  /\ cmd' = [cmd EXCEPT ![m].at = "save", ![m].cred = 0]
  /\ UNCHANGED <<source, req, conf, spent>>

\* The pending configuration is saved before the source is asked to finalize.
SavePending(m) ==
  /\ cmd[m].at = "save"
  /\ conf' = [conf EXCEPT ![m] = [kind |-> "pending", name |-> cmd[m].name]]
  /\ Command0(m, "finalize")
  /\ UNCHANGED <<source, req, slot, spent>>

Finalize(m) ==
  /\ cmd[m].at = "finalize"
  /\ Send(m, [Free EXCEPT !.at = "fread", !.cred = Held(m)], "finalizing")
  /\ UNCHANGED <<source, conf, slot, spent>>

Finalized(m) ==
  /\ \/ Receive(m, "finalizing", {"ok"}, "clear")
     \/ Receive(m, "finalizing", {"invalid", "refused"}, "idle")
  /\ UNCHANGED <<source, conf, slot, spent>>

SaveEnrolled(m) ==
  /\ cmd[m].at = "clear"
  /\ conf' = [conf EXCEPT ![m].kind = "enrolled"]
  /\ cmd' = [cmd EXCEPT ![m] = Idle]
  /\ UNCHANGED <<source, req, slot, spent>>

\* cancelFollowerEnrollment removes the local credential whatever the answer.
Cancel(m) ==
  /\ cmd[m].at = "cancel"
  /\ Send(m, [Free EXCEPT !.at = "cancel", !.cred = slot[m][cmd[m].name]], "cancelling")
  /\ UNCHANGED <<source, conf, slot, spent>>

Cancelled(m) ==
  /\ Receive(m, "cancelling", {"ok", "refused"}, "idle")
  /\ Forget(m, cmd[m].name)
  /\ UNCHANGED <<source, conf, spent>>

MachineStep(m) ==
  \/ Resume(m) \/ Resumed(m) \/ Prepare(m) \/ Prepared(m) \/ StoreLocal(m)
  \/ SavePending(m) \/ Finalize(m) \/ Finalized(m) \/ SaveEnrolled(m)
  \/ Cancel(m) \/ Cancelled(m)

----------------------------------------------------------------------------
(* Mishaps. *)

\* The selected profile has no authorized revision.
Reject(m) ==
  /\ cmd[m].at = "save"
  /\ Spend("reject")
  /\ Command0(m, "cancel")
  /\ UNCHANGED <<source, req, conf, slot>>

\* The machine's credential store or database refuses a write.
SaveFails(m) ==
  /\ cmd[m].at \in {"store", "save", "clear"}
  /\ Spend("save")
  /\ cmd' = [cmd EXCEPT ![m] = IF @.at = "save" THEN [@ EXCEPT !.at = "cancel"] ELSE Idle]
  /\ UNCHANGED <<source, req, conf, slot>>

\* The source cannot be reached: nothing is sent, and a credential to cancel
\* stays where it is.
Unreached(m) ==
  /\ cmd[m].at \in {"resume", "prepare", "finalize", "cancel"}
  /\ Spend("lose")
  /\ cmd' = [cmd EXCEPT ![m] = Idle]
  /\ UNCHANGED <<source, req, conf, slot>>

\* The store after the commands of machines ms were told that their request
\* failed: a cancellation removes the credential all the same.
AfterFailure(ms) ==
  [m \in Machine |->
     IF m \in ms /\ cmd[m].at = "cancelling"
     THEN [slot[m] EXCEPT ![cmd[m].name] = 0] ELSE slot[m]]

\* Nobody waits for request k any more. Its handler goes on.
Abandoned(k) == req' = [req EXCEPT ![k] = IF @.at = "answered" THEN Free ELSE @]

\* The client gives up after its timeout; the request may never have arrived.
Lose(m) ==
  LET k == cmd[m].req IN
  /\ cmd[m].at \in Waiting
  /\ Spend("lose")
  /\ \/ Abandoned(k)
     \/ req[k].at \in {"find", "fread", "cancel"} /\ req' = [req EXCEPT ![k] = Free]
  /\ slot' = AfterFailure({m})
  /\ cmd' = [cmd EXCEPT ![m] = Idle]
  /\ UNCHANGED <<source, conf>>

\* The command dies.
Crash(m) ==
  /\ cmd[m].at # "idle"
  /\ Spend("crash")
  /\ IF cmd[m].at \in Waiting THEN Abandoned(cmd[m].req) ELSE UNCHANGED req
  /\ cmd' = [cmd EXCEPT ![m] = Idle]
  /\ UNCHANGED <<source, conf, slot>>

\* The source server dies and is started again: its handlers are gone, the
\* clients see a closed connection, and pending rows are discarded.
Restart ==
  LET ms == {m \in Machine : cmd[m].at \in Waiting} IN
  /\ Spend("restart")
  /\ req' = [k \in Req |-> Free]
  /\ pend' = [n \in Name |-> NoRow]
  /\ slot' = AfterFailure(ms)
  /\ cmd' = [m \in Machine |-> IF m \in ms THEN Idle ELSE cmd[m]]
  /\ UNCHANGED <<invite, fol, activated, vault, console, conf>>

Operator ==
  \/ \E what \in {"issue", "revoke", "other"} : OpenRepository(what)
  \/ \E c \in Code : Issue(c)
  \/ \E n \in Name : Revoke(n)
  \/ EndCommand

Next ==
  \/ Operator
  \/ \E c \in Code : Expire(c)
  \/ \E k \in Req : HandlerStep(k) \/ RequestFails(k)
  \/ \E m \in Machine, n \in Name, c \in Code : Enroll(m, n, c)
  \/ \E m \in Machine : \/ MachineStep(m)
                        \/ Reject(m) \/ SaveFails(m) \/ Unreached(m)
                        \/ Lose(m) \/ Crash(m)
  \/ Restart

Spec == Init /\ [][Next]_vars

\* Machine m is enrolled, and the source agrees.
Member(m) ==
  /\ conf[m].kind = "enrolled"
  /\ fol[conf[m].name] = [cred |-> Held(m), active |-> TRUE]

\* Handlers and commands under way keep going; the operator of a machine that
\* is no member repeats the command with every open invitation, and the operator
\* of the source issues one when there is none.
FairSpec ==
  /\ Spec
  /\ \A k \in Req : WF_vars(HandlerStep(k))
  /\ \A m \in Machine :
       /\ WF_vars(MachineStep(m))
       /\ \A c \in Code :
            SF_vars(~Member(m) /\ invite[c] = "open" /\ \E n \in Name : Enroll(m, n, c))
  /\ WF_vars(/\ \A c \in Code : invite[c] # "open"
             /\ OpenRepository("issue"))
  /\ WF_vars(console # "idle" /\ (EndCommand \/ \E c \in Code : Issue(c)
                                  \/ \E n \in Name : Revoke(n)))

----------------------------------------------------------------------------
(* Properties. *)

\* The source's tables implement Membership: whatever requests are lost,
\* repeated or abandoned, an invitation admits one follower and is spent by
\* that admission, before it expires, and an active identity is not displaced.
MembershipTables == INSTANCE Membership
MembershipSpec == MembershipTables!Spec

\* A machine that calls itself enrolled was confirmed: the credential it holds
\* has been active at the source (`follower enroll` reports success only then).
EnrolledIsConfirmed ==
  [][\A m \in Machine :
       conf'[m].kind = "enrolled" /\ conf[m].kind # "enrolled"
         => Held(m)' \in activated']_vars

\* Machine m gave identity n up: `follower enroll --replace` removed its
\* credential, and n is still the enrolled identity or another one is configured.
GaveUp(m, n) ==
  Replace /\ slot[m][n] = 0 /\ (conf[m].kind = "enrolled" \/ conf[m].name \notin {n, None})

\* An active identity has a machine that holds its credential and remembers
\* the enrollment, so an interrupted command can be repeated and the name is
\* never locked by an identity nobody can use (two-phase enrollment: save the
\* pending configuration, then finalize). The one exception is an identity its
\* machine replaced.
ActiveHasHolder ==
  \A n \in Name : fol[n].active =>
    \E m \in Machine :
      \/ conf[m].kind # "none" /\ conf[m].name = n /\ slot[m][n] = fol[n].cred
      \/ GaveUp(m, n)

\* A machine that is not a member becomes one: no lost answer, crash, restart,
\* expired invitation or discarded pending row blocks the retries for good.
EnrollmentCompletes == \A m \in Machine : ~Member(m) ~> Member(m)
=============================================================================
