-------------------------- MODULE EnrollmentProofs --------------------------
(***************************************************************************)
(* Theorems about Enrollment, for every number of machines, names,         *)
(* invitations and concurrent requests and every bound on mishaps.         *)
(***************************************************************************)
EXTENDS Enrollment, TLAPS

----------------------------------------------------------------------------
(* The inductive invariant. *)

Enrolling == {"find", "identity", "store", "list", "unpend", "unvault", "consume",
              "drop", "unprev"}

\* Handlers whose fields fit their place.
GoodHandler ==
  {h \in Handler :
     /\ h.at \in Enrolling => h.name \in Name /\ h.code \in Code
     /\ h.at = "ftxn" => h.name \in Name /\ h.cred # 0}

\* Commands whose fields fit their place.
GoodCommand ==
  {c \in Command :
     /\ c.at \in Waiting <=> c.req # 0
     /\ c.at # "idle" => c.name \in Name /\ c.code \in Code}

SourceInv ==
  /\ invite \in [Code -> Invite]
  /\ pend \in [Name -> Row]
  /\ fol \in [Name -> [cred: 0..MaxCred, active: BOOLEAN]]
  /\ vault \subseteq Cred
  /\ console \in {"idle", "issue", "revoke", "other"}
  /\ spent \in 0..MaxMishaps
  /\ activated \subseteq Cred

RequestInv ==
  /\ req \in [Req -> GoodHandler]
  /\ \A k \in Req : req[k].at = "answered" => Awaited(k)

CommandInv == cmd \in [Machine -> GoodCommand]

\* A configuration that is being finalized is pending, and has a name.
MachineInv ==
  /\ conf \in [Machine -> [kind: {"none", "pending", "enrolled"}, name: Name \cup {None}]]
  /\ slot \in [Machine -> [Name -> 0..MaxCred]]
  /\ \A m \in Machine :
       /\ conf[m].kind # "none" => conf[m].name \in Name
       /\ cmd[m].at \in {"resume", "resuming", "finalize", "finalizing", "clear"}
            => conf[m].kind = "pending"

TypeInv == SourceInv /\ RequestInv /\ CommandInv /\ MachineInv

----------------------------------------------------------------------------
(* Updates of one handler and of one command. *)

\* Free handlers and answers are well formed.
LEMMA FreeGood ==
  /\ Free \in GoodHandler
  /\ \A a \in Answer, c \in 0..MaxCred :
       [Free EXCEPT !.at = "answered", !.res = a, !.cred = c] \in GoodHandler
  /\ \A c \in 0..MaxCred, at \in {"fread", "cancel"} :
       [Free EXCEPT !.at = at, !.cred = c] \in GoodHandler
  /\ \A n \in Name, c \in Code :
       [Free EXCEPT !.at = "find", !.name = n, !.code = c] \in GoodHandler
<1>. 0 \in 0..MaxCred
  BY EnrollmentAssumption
<1>. QED
  BY DEF Free, GoodHandler, Handler, HandlerAt, Answer, Enrolling

\* Finish keeps the handlers well formed and leaves no unread answer.
LEMMA FinishGood ==
  ASSUME RequestInv, NEW k \in Req, NEW a \in Answer, Finish(k, a), UNCHANGED cmd
  PROVE  RequestInv'
<1>1. req[k].cred \in 0..MaxCred
  BY DEF RequestInv, GoodHandler, Handler
<1>2. [Free EXCEPT !.at = "answered", !.res = a, !.cred = req[k].cred] \in GoodHandler
  BY <1>1, FreeGood
<1>3. Free.at # "answered"
  BY DEF Free
<1>4. req' \in [Req -> GoodHandler]
  BY <1>2, FreeGood DEF Finish, RequestInv
<1>5. ASSUME NEW j \in Req, req'[j].at = "answered" PROVE Awaited(j)'
  <2>1. Awaited(j)
    BY <1>3, <1>5 DEF Finish, RequestInv
  <2>. QED
    BY <2>1 DEF Awaited
<1>. QED
  BY <1>4, <1>5 DEF RequestInv

\* A handler that goes on keeps the handlers well formed.
LEMMA ReplaceGood ==
  ASSUME RequestInv, NEW k \in Req, NEW h \in GoodHandler, h.at # "answered",
         req' = [req EXCEPT ![k] = h], UNCHANGED cmd
  PROVE  RequestInv'
BY DEF RequestInv, Awaited

\* An enrolling handler stays well formed at the next place.
LEMMA GotoGood ==
  ASSUME RequestInv, NEW k \in Req, NEW at \in Enrolling, req[k].at \in Enrolling,
         Goto(k, at), UNCHANGED cmd
  PROVE  RequestInv'
<1>. DEFINE h == [req[k] EXCEPT !.at = at]
<1>1. h \in GoodHandler /\ h.at # "answered"
  BY DEF RequestInv, GoodHandler, Handler, HandlerAt, Enrolling
<1>2. req' = [req EXCEPT ![k] = h]
  BY DEF Goto
<1>. HIDE DEF h
<1>. QED
  BY <1>1, <1>2, ReplaceGood

\* A command that is not under way.
LEMMA IdleGood == Idle \in GoodCommand /\ Idle.at = "idle" /\ Idle.req = 0
<1>1. 0 \in 0..MaxCred /\ 0 \in 0..MaxReq
  BY EnrollmentAssumption
<1>. QED
  BY <1>1 DEF Idle, GoodCommand, Command, CmdAt, Waiting

\* A command that changes while other answers stay as they are.
LEMMA CommandChange ==
  ASSUME RequestInv, NEW m \in Machine, NEW c \in GoodCommand,
         CommandInv, cmd' = [cmd EXCEPT ![m] = c],
         req' \in [Req -> GoodHandler],
         \A j \in Req : req'[j].at = "answered"
                          => req[j].at = "answered" /\ cmd[m].req # j
  PROVE  RequestInv' /\ CommandInv'
<1>1. CommandInv'
  BY DEF CommandInv
<1>2. ASSUME NEW j \in Req, req'[j].at = "answered" PROVE Awaited(j)'
  <2>1. PICK o \in Machine : cmd[o].req = j
    BY <1>2 DEF RequestInv, Awaited
  <2>2. o # m
    BY <1>2, <2>1
  <2>3. cmd'[o] = cmd[o]
    BY <2>2 DEF CommandInv
  <2>. QED
    BY <2>1, <2>3 DEF Awaited
<1>. QED
  BY <1>1, <1>2 DEF RequestInv

\* The same when the requests do not change.
LEMMA CommandAlone ==
  ASSUME RequestInv, NEW m \in Machine, NEW c \in GoodCommand,
         CommandInv, cmd' = [cmd EXCEPT ![m] = c], cmd[m].at \notin Waiting,
         UNCHANGED req
  PROVE  /\ RequestInv' /\ CommandInv' /\ cmd'[m] = c
         /\ \A o \in Machine \ {m} : cmd'[o] = cmd[o]
<1>1. cmd[m].req = 0
  BY DEF CommandInv, GoodCommand
<1>2. \A j \in Req : cmd[m].req # j
  BY <1>1, EnrollmentAssumption DEF Req
<1>3. req' \in [Req -> GoodHandler]
  BY DEF RequestInv
<1>4. cmd'[m] = c /\ \A o \in Machine \ {m} : cmd'[o] = cmd[o]
  BY DEF CommandInv
<1>. QED
  BY <1>2, <1>3, <1>4, CommandChange

\* Sending a well-formed request.
LEMMA SendGood ==
  ASSUME RequestInv, CommandInv, NEW m \in Machine, NEW h \in GoodHandler,
         h.at # "answered", NEW at \in Waiting,
         cmd[m].at \notin Waiting \cup {"idle"}, Send(m, h, at)
  PROVE  /\ RequestInv' /\ CommandInv' /\ cmd'[m].at = at
         /\ \A o \in Machine \ {m} : cmd'[o] = cmd[o]
<1>1. PICK k \in Req : /\ req' = [req EXCEPT ![k] = h]
                       /\ cmd' = [cmd EXCEPT ![m].at = at, ![m].req = k]
  BY DEF Send
<1>. DEFINE c == [cmd[m] EXCEPT !.at = at, !.req = k]
<1>2. c \in GoodCommand /\ c.at = at
  <2>1. cmd[m] \in Command /\ cmd[m].name \in Name /\ cmd[m].code \in Code
    BY DEF CommandInv, GoodCommand
  <2>2. at \in CmdAt /\ k \in 0..MaxReq /\ k # 0
    BY EnrollmentAssumption DEF Waiting, CmdAt, Req
  <2>3. c \in Command /\ c.at = at /\ c.req = k /\ c.name = cmd[m].name
                      /\ c.code = cmd[m].code
    BY <2>1, <2>2 DEF Command
  <2>. HIDE DEF c
  <2>. QED
    BY <2>1, <2>2, <2>3 DEF GoodCommand
<1>3. cmd' = [cmd EXCEPT ![m] = c]
  BY <1>1
<1>4. cmd[m].req = 0
  BY DEF CommandInv, GoodCommand
<1>5. \A j \in Req : cmd[m].req # j
  BY <1>4, EnrollmentAssumption DEF Req
<1>6. req' \in [Req -> GoodHandler]
  BY <1>1 DEF RequestInv
<1>7. \A j \in Req : req'[j].at = "answered" => req[j].at = "answered"
  BY <1>1 DEF RequestInv
<1>. HIDE DEF c
<1>8. cmd'[m] = c /\ \A o \in Machine \ {m} : cmd'[o] = cmd[o]
  BY <1>3 DEF CommandInv
<1>. QED
  BY <1>2, <1>3, <1>5, <1>6, <1>7, <1>8, CommandChange

\* What a waiting machine reads, and that the request is closed by it.
LEMMA ReceiveGood ==
  ASSUME RequestInv, CommandInv, NEW m \in Machine, NEW at \in Waiting,
         NEW answers, NEW next \in (CmdAt \ Waiting), Receive(m, at, answers, next)
  PROVE  /\ RequestInv' /\ CommandInv' /\ cmd'[m].at = next
         /\ \A o \in Machine \ {m} : cmd'[o] = cmd[o]
<1>. DEFINE k == cmd[m].req
            c == IF next = "idle" THEN Idle ELSE [cmd[m] EXCEPT !.at = next, !.req = 0]
<1>1. k \in Req
  BY EnrollmentAssumption DEF Receive, CommandInv, GoodCommand, Command, Req
<1>2. c \in GoodCommand /\ c.at = next
  <2>1. cmd[m] \in Command /\ cmd[m].name \in Name /\ cmd[m].code \in Code
    BY DEF CommandInv, GoodCommand, Receive, Waiting
  <2>2. next \in CmdAt /\ next \notin Waiting /\ 0 \in 0..MaxReq
    BY EnrollmentAssumption
  <2>3. CASE next = "idle"
    BY <2>3, IdleGood
  <2>4. CASE next # "idle"
    <3>1. c \in Command /\ c.at = next /\ c.req = 0 /\ c.name = cmd[m].name
                        /\ c.code = cmd[m].code
      BY <2>1, <2>2, <2>4 DEF Command
    <3>. HIDE DEF c
    <3>. QED
      BY <2>1, <2>2, <3>1 DEF GoodCommand
  <2>. QED
    BY <2>3, <2>4
<1>3. cmd' = [cmd EXCEPT ![m] = c]
  BY DEF Receive
<1>4. req' = [req EXCEPT ![k] = Free]
  BY DEF Receive
<1>5. req' \in [Req -> GoodHandler]
  BY <1>1, <1>4, FreeGood DEF RequestInv
<1>6. Free.at # "answered"
  BY DEF Free
<1>7. \A j \in Req : req'[j].at = "answered" => req[j].at = "answered" /\ k # j
  BY <1>1, <1>4, <1>6 DEF RequestInv
<1>8. cmd'[m] = c /\ \A o \in Machine \ {m} : cmd'[o] = cmd[o]
  BY <1>3 DEF CommandInv
<1>. HIDE DEF c
<1>. QED
  BY <1>2, <1>3, <1>5, <1>7, <1>8, CommandChange

----------------------------------------------------------------------------
(* The parts of TypeInv that an action leaves alone. *)

\* A mishap keeps the count within its bound.
LEMMA SpendGood ==
  ASSUME NEW x, spent \in 0..MaxMishaps, Spend(x)
  PROVE  spent' \in 0..MaxMishaps
BY EnrollmentAssumption DEF Spend

\* What happens at a machine leaves the source's state alone.
LEMMA SourceKept ==
  ASSUME SourceInv, UNCHANGED source, spent' \in 0..MaxMishaps
  PROVE  SourceInv'
BY DEF SourceInv, source

\* What happens at the source leaves machines and commands alone.
LEMMA FollowerKept ==
  ASSUME CommandInv, MachineInv, UNCHANGED follower
  PROVE  CommandInv' /\ MachineInv' /\ cmd' = cmd
BY DEF CommandInv, MachineInv, follower

\* The operator leaves the handlers alone.
LEMMA RequestKept ==
  ASSUME RequestInv, UNCHANGED req, UNCHANGED cmd
  PROVE  RequestInv'
BY DEF RequestInv, Awaited

\* A machine's configuration stays when its command moves.
LEMMA MachineKept ==
  ASSUME MachineInv, NEW m \in Machine, UNCHANGED conf,
         slot' \in [Machine -> [Name -> 0..MaxCred]],
         \A o \in Machine \ {m} : cmd'[o] = cmd[o],
         cmd'[m].at \in {"resume", "resuming", "finalize", "finalizing", "clear"}
           => conf[m].kind = "pending"
  PROVE  MachineInv'
BY DEF MachineInv

\* Removing a credential from a machine's store.
LEMMA ForgetGood ==
  ASSUME NEW m \in Machine, NEW n \in Name, Forget(m, n),
         slot \in [Machine -> [Name -> 0..MaxCred]]
  PROVE  slot' \in [Machine -> [Name -> 0..MaxCred]]
<1>1. 0 \in 0..MaxCred
  BY EnrollmentAssumption
<1>2. [slot[m] EXCEPT ![n] = 0] \in [Name -> 0..MaxCred]
  BY <1>1
<1>. QED
  BY <1>2 DEF Forget

----------------------------------------------------------------------------
(* The operator's commands. *)

\* Every step of the operator, and the expiry of an invitation, keeps TypeInv.
LEMMA OperatorType ==
  ASSUME TypeInv, Operator \/ \E c \in Code : Expire(c)
  PROVE  TypeInv'
<1>. USE DEF TypeInv
<1>. UNCHANGED <<req, follower>>
  BY DEF Operator, OpenRepository, Issue, Revoke, EndCommand, Expire
<1>1. NoRow \in Row
  BY EnrollmentAssumption DEF NoRow, Row
<1>2. CommandInv' /\ MachineInv' /\ cmd' = cmd
  BY FollowerKept
<1>3. RequestInv'
  BY <1>2, RequestKept
<1>4. ASSUME NEW what \in {"issue", "revoke", "other"}, OpenRepository(what)
      PROVE  SourceInv'
  <2>1. spent' \in 0..MaxMishaps
    BY <1>4, SpendGood DEF OpenRepository, SourceInv
  <2>. QED
    BY <1>1, <1>4, <2>1 DEF OpenRepository, SourceInv
<1>5. ASSUME NEW c \in Code, Issue(c) PROVE SourceInv'
  BY <1>5 DEF Issue, SourceInv, Invite
<1>6. ASSUME NEW n \in Name, Revoke(n) PROVE SourceInv'
  BY <1>6 DEF Revoke, SourceInv
<1>7. ASSUME EndCommand PROVE SourceInv'
  BY <1>7 DEF EndCommand, SourceInv, tables
<1>8. ASSUME NEW c \in Code, Expire(c) PROVE SourceInv'
  <2>1. spent' \in 0..MaxMishaps
    BY <1>8, SpendGood DEF Expire, SourceInv
  <2>. QED
    BY <1>8, <2>1 DEF Expire, SourceInv, Invite
<1>9. SourceInv'
  BY <1>4, <1>5, <1>6, <1>7, <1>8 DEF Operator
<1>. QED
  BY <1>2, <1>3, <1>9

----------------------------------------------------------------------------
(* The handlers. *)

\* The steps of an enrolling handler keep TypeInv.
LEMMA EnrollHandlerType ==
  ASSUME TypeInv, NEW k \in Req,
         \/ Find(k) \/ Identity(k) \/ StoreCredential(k) \/ ListPending(k)
         \/ CancelStale(k) \/ DropStale(k) \/ Consume(k) \/ DropOwn(k) \/ DropPrevious(k)
  PROVE  TypeInv'
<1>. USE DEF TypeInv
<1>. DEFINE h == req[k]
<1>a. UNCHANGED follower /\ UNCHANGED cmd
  BY DEF Find, Identity, StoreCredential, ListPending, CancelStale, DropStale, Consume,
         DropOwn, DropPrevious, follower
<1>b. CommandInv' /\ MachineInv'
  BY <1>a, FollowerKept
<1>c. h \in GoodHandler
  BY DEF RequestInv
<1>d. {"ok", "invalid", "refused"} \subseteq Answer
  BY DEF Answer
<1>e. spent \in 0..MaxMishaps
  BY DEF SourceInv
<1>1. CASE Find(k)
  <2>1. SourceInv'
    BY <1>1, <1>e, SourceKept DEF Find
  <2>2. RequestInv'
    BY <1>1, <1>a, <1>d, FinishGood, GotoGood DEF Find, Enrolling
  <2>. QED
    BY <1>b, <2>1, <2>2
<1>2. CASE Identity(k)
  <2>1. SourceInv'
    BY <1>2, <1>e, SourceKept DEF Identity
  <2>2. RequestInv'
    <3>1. CASE Finish(k, "refused")
      BY <3>1, <1>a, <1>d, FinishGood
    <3>2. CASE req' = [req EXCEPT ![k].at = "store", ![k].prev = fol[h.name].cred]
      <4>. DEFINE g == [h EXCEPT !.at = "store", !.prev = fol[h.name].cred]
      <4>1. h.name \in Name /\ h.code \in Code
        BY <1>2, <1>c DEF Identity, GoodHandler, Enrolling
      <4>2. fol[h.name].cred \in 0..MaxCred
        BY <4>1 DEF SourceInv
      <4>3. g \in GoodHandler /\ g.at # "answered"
        BY <1>c, <4>1, <4>2 DEF GoodHandler, Handler, HandlerAt, Enrolling
      <4>4. req' = [req EXCEPT ![k] = g]
        BY <3>2
      <4>. HIDE DEF g
      <4>. QED
        BY <1>a, <4>3, <4>4, ReplaceGood
    <3>. QED
      BY <1>2, <3>1, <3>2 DEF Identity
  <2>. QED
    BY <1>b, <2>1, <2>2
<1>3. CASE StoreCredential(k)
  <2>. UNCHANGED <<tables, console, follower, spent>>
    BY <1>3 DEF StoreCredential
  <2>1. CASE Finish(k, "refused") /\ UNCHANGED vault
    <3>1. SourceInv'
      BY <2>1 DEF SourceInv, tables
    <3>2. RequestInv'
      BY <2>1, <1>a, <1>d, FinishGood
    <3>. QED
      BY <1>b, <3>1, <3>2
  <2>2. CASE ~(Finish(k, "refused") /\ UNCHANGED vault)
    <3>1. PICK c \in Fresh :
            /\ vault' = vault \cup {c}
            /\ req' = [req EXCEPT ![k].at = "list", ![k].cred = c,
                                  ![k].fresh = invite[req[k].code] = "open"]
      BY <1>3, <2>2 DEF StoreCredential
    <3>2. c \in Cred /\ c \in 0..MaxCred
      BY EnrollmentAssumption DEF Fresh, Cred
    <3>3. SourceInv'
      BY <3>1, <3>2 DEF SourceInv, tables
    <3>. DEFINE open == invite[h.code] = "open"
                g == [h EXCEPT !.at = "list", !.cred = c, !.fresh = open]
    <3>4. h.name \in Name /\ h.code \in Code
      BY <1>3, <1>c DEF StoreCredential, GoodHandler, Enrolling
    <3>5. open \in BOOLEAN
      OBVIOUS
    <3>6. req' = [req EXCEPT ![k] = g]
      BY <3>1
    <3>. HIDE DEF open
    <3>7. g \in GoodHandler /\ g.at # "answered"
      BY <1>c, <3>2, <3>4, <3>5 DEF GoodHandler, Handler, HandlerAt, Enrolling
    <3>. HIDE DEF g
    <3>. QED
      BY <1>a, <1>b, <3>3, <3>6, <3>7, ReplaceGood
  <2>. QED
    BY <2>1, <2>2
<1>4. CASE ListPending(k)
  <2>1. SourceInv'
    BY <1>4, <1>e, SourceKept DEF ListPending
  <2>2. RequestInv'
    <3>1. CASE Finish(k, "refused")
      BY <3>1, <1>a, <1>d, FinishGood
    <3>2. CASE Goto(k, "consume")
      BY <3>2, <1>4, <1>a, GotoGood DEF ListPending, Enrolling
    <3>3. CASE req' = [req EXCEPT ![k].at = "unpend", ![k].stale = pend[h.name].cred]
      <4>. DEFINE g == [h EXCEPT !.at = "unpend", !.stale = pend[h.name].cred]
      <4>1. h.name \in Name /\ h.code \in Code
        BY <1>4, <1>c DEF ListPending, GoodHandler, Enrolling
      <4>2. pend[h.name].cred \in 0..MaxCred
        BY <4>1 DEF SourceInv, Row
      <4>3. g \in GoodHandler /\ g.at # "answered"
        BY <1>c, <4>1, <4>2 DEF GoodHandler, Handler, HandlerAt, Enrolling
      <4>4. req' = [req EXCEPT ![k] = g]
        BY <3>3
      <4>. HIDE DEF g
      <4>. QED
        BY <1>a, <4>3, <4>4, ReplaceGood
    <3>. QED
      BY <1>4, <3>1, <3>2, <3>3 DEF ListPending
  <2>. QED
    BY <1>b, <2>1, <2>2
<1>5. CASE CancelStale(k)
  <2>1. NoRow \in Row
    BY EnrollmentAssumption DEF NoRow, Row
  <2>2. SourceInv'
    BY <1>5, <2>1 DEF CancelStale, SourceInv, WithoutRow
  <2>3. RequestInv'
    BY <1>5, <1>a, GotoGood DEF CancelStale, Enrolling
  <2>. QED
    BY <1>b, <2>2, <2>3
<1>6. CASE DropStale(k)
  <2>1. SourceInv'
    BY <1>6 DEF DropStale, SourceInv, tables
  <2>. DEFINE g == [h EXCEPT !.at = "consume", !.stale = 0]
  <2>2. g \in GoodHandler /\ g.at # "answered"
    <3>1. 0 \in 0..MaxCred
      BY EnrollmentAssumption
    <3>. QED
      BY <1>6, <1>c, <3>1 DEF DropStale, GoodHandler, Handler, HandlerAt, Enrolling
  <2>3. req' = [req EXCEPT ![k] = g]
    BY <1>6 DEF DropStale
  <2>. HIDE DEF g
  <2>. QED
    BY <1>a, <1>b, <2>1, <2>2, <2>3, ReplaceGood
<1>7. CASE Consume(k)
  <2>1. h.name \in Name /\ h.code \in Code /\ h.cred \in 0..MaxCred
    BY <1>7, <1>c DEF Consume, GoodHandler, Handler, Enrolling
  <2>2. [code |-> h.code, cred |-> h.cred] \in Row
    BY <2>1 DEF Row
  <2>3. pend' \in [Name -> Row]
    BY <1>7, <2>1, <2>2 DEF Consume, SourceInv
  <2>4. SourceInv'
    BY <1>7, <2>3 DEF Consume, SourceInv
  <2>5. RequestInv'
    BY <1>7, <1>a, GotoGood DEF Consume, Enrolling
  <2>. QED
    BY <1>b, <2>4, <2>5
<1>8. CASE DropOwn(k)
  <2>1. SourceInv'
    BY <1>8 DEF DropOwn, SourceInv, tables
  <2>2. RequestInv'
    BY <1>8, <1>a, <1>d, FinishGood DEF DropOwn
  <2>. QED
    BY <1>b, <2>1, <2>2
<1>9. CASE DropPrevious(k)
  <2>1. SourceInv'
    BY <1>9 DEF DropPrevious, SourceInv, tables
  <2>2. RequestInv'
    BY <1>9, <1>a, <1>d, FinishGood DEF DropPrevious
  <2>. QED
    BY <1>b, <2>1, <2>2
<1>. QED
  BY <1>1, <1>2, <1>3, <1>4, <1>5, <1>6, <1>7, <1>8, <1>9

\* The steps of a finalizing or cancelling handler keep TypeInv.
LEMMA FinalizeHandlerType ==
  ASSUME TypeInv, NEW k \in Req,
         FinalizeRead(k) \/ FinalizeActive(k) \/ FinalizeEnrollment(k) \/ CancelPending(k)
  PROVE  TypeInv'
<1>. USE DEF TypeInv
<1>. DEFINE h == req[k]
<1>a. UNCHANGED follower /\ UNCHANGED cmd
  BY DEF FinalizeRead, FinalizeActive, FinalizeEnrollment, CancelPending, follower
<1>b. CommandInv' /\ MachineInv'
  BY <1>a, FollowerKept
<1>c. h \in GoodHandler
  BY DEF RequestInv
<1>d. {"ok", "invalid", "refused"} \subseteq Answer
  BY DEF Answer
<1>e. spent \in 0..MaxMishaps
  BY DEF SourceInv
<1>f. NoRow \in Row
  BY EnrollmentAssumption DEF NoRow, Row
<1>1. CASE FinalizeRead(k)
  <2>1. SourceInv'
    BY <1>1, <1>e, SourceKept DEF FinalizeRead
  <2>2. ASSUME NEW g \in GoodHandler, g.at # "answered", req' = [req EXCEPT ![k] = g]
        PROVE  RequestInv'
    BY <2>2, <1>a, ReplaceGood
  <2>3. ASSUME NEW n \in Name, h.cred # 0,
               req' = [req EXCEPT ![k].at = "ftxn", ![k].name = n]
        PROVE  RequestInv'
    <3>. DEFINE g == [h EXCEPT !.at = "ftxn", !.name = n]
    <3>1. g \in GoodHandler /\ g.at # "answered"
      BY <1>c, <2>3 DEF GoodHandler, Handler, HandlerAt, Enrolling
    <3>2. req' = [req EXCEPT ![k] = g]
      BY <2>3
    <3>. HIDE DEF g
    <3>. QED
      BY <2>2, <3>1, <3>2
  <2>4. ASSUME Goto(k, "factive") PROVE RequestInv'
    <3>. DEFINE g == [h EXCEPT !.at = "factive"]
    <3>1. g \in GoodHandler /\ g.at # "answered"
      BY <1>c DEF GoodHandler, Handler, HandlerAt, Enrolling
    <3>2. req' = [req EXCEPT ![k] = g]
      BY <2>4 DEF Goto
    <3>. HIDE DEF g
    <3>. QED
      BY <2>2, <3>1, <3>2
  <2>. QED
    BY <1>1, <1>b, <2>1, <2>3, <2>4 DEF FinalizeRead
<1>2. CASE FinalizeActive(k)
  <2>1. SourceInv'
    BY <1>2, <1>e, SourceKept DEF FinalizeActive
  <2>2. RequestInv'
    BY <1>2, <1>a, <1>d, FinishGood DEF FinalizeActive
  <2>. QED
    BY <1>b, <2>1, <2>2
<1>3. CASE FinalizeEnrollment(k)
  <2>1. RequestInv'
    <3>1. PICK a \in {"ok", "refused"} : Finish(k, a)
      BY <1>3 DEF FinalizeEnrollment
    <3>. QED
      BY <3>1, <1>a, <1>d, FinishGood
  <2>2. h.name \in Name /\ h.cred \in 0..MaxCred /\ h.cred # 0
    BY <1>3, <1>c DEF FinalizeEnrollment, GoodHandler, Handler
  <2>3. invite' \in [Code -> Invite]
    BY <1>3 DEF FinalizeEnrollment, SpendInvitation, SourceInv, Invite, tables
  <2>4. pend' \in [Name -> Row]
    BY <1>3, <1>f, <2>2 DEF FinalizeEnrollment, SourceInv, tables
  <2>x. fol' \in [Name -> [cred: 0..MaxCred, active: BOOLEAN]]
    <3>1. [cred |-> h.cred, active |-> TRUE] \in [cred: 0..MaxCred, active: BOOLEAN]
      BY <2>2
    <3>. QED
      BY <1>3, <3>1 DEF FinalizeEnrollment, SourceInv, tables
  <2>5. activated' \subseteq Cred
    <3>1. h.cred \in Cred
      BY <2>2, EnrollmentAssumption DEF Cred
    <3>. QED
      BY <1>3, <3>1 DEF FinalizeEnrollment, SourceInv, tables
  <2>6. SourceInv'
    BY <1>3, <2>3, <2>4, <2>x, <2>5 DEF FinalizeEnrollment, SourceInv
  <2>. QED
    BY <1>b, <2>1, <2>6
<1>4. CASE CancelPending(k)
  <2>1. SourceInv'
    BY <1>4, <1>f DEF CancelPending, SourceInv, WithoutRow
  <2>2. RequestInv'
    BY <1>4, <1>a, <1>d, FinishGood DEF CancelPending
  <2>. QED
    BY <1>b, <2>1, <2>2
<1>. QED
  BY <1>1, <1>2, <1>3, <1>4

\* A failing operation of a handler keeps TypeInv.
LEMMA RequestFailsType ==
  ASSUME TypeInv, NEW k \in Req, RequestFails(k)
  PROVE  TypeInv'
<1>. USE DEF TypeInv
<1>1. UNCHANGED follower /\ UNCHANGED cmd
  BY DEF RequestFails, follower
<1>2. CommandInv' /\ MachineInv'
  BY <1>1, FollowerKept
<1>3. spent' \in 0..MaxMishaps
  BY SpendGood DEF RequestFails, SourceInv
<1>4. SourceInv'
  BY <1>3 DEF RequestFails, SourceInv, tables
<1>5. "refused" \in Answer
  BY DEF Answer
<1>6. RequestInv'
  BY <1>1, <1>5, FinishGood, GotoGood DEF RequestFails, Enrolling
<1>. QED
  BY <1>2, <1>4, <1>6

----------------------------------------------------------------------------
(* The machines. *)

\* A command that starts or moves without a request keeps TypeInv.
LEMMA MoveType ==
  ASSUME TypeInv, NEW m \in Machine, NEW c \in GoodCommand,
         cmd[m].at \notin Waiting, cmd' = [cmd EXCEPT ![m] = c],
         UNCHANGED <<source, req, conf>>, spent' \in 0..MaxMishaps,
         slot' \in [Machine -> [Name -> 0..MaxCred]],
         c.at \in {"resume", "resuming", "finalize", "finalizing", "clear"}
           => conf[m].kind = "pending"
  PROVE  TypeInv'
<1>1. SourceInv'
  BY SourceKept DEF TypeInv
<1>2. /\ RequestInv' /\ CommandInv' /\ cmd'[m] = c
      /\ \A o \in Machine \ {m} : cmd'[o] = cmd[o]
  BY CommandAlone DEF TypeInv
<1>3. MachineInv'
  BY <1>2, MachineKept DEF TypeInv
<1>. QED
  BY <1>1, <1>2, <1>3 DEF TypeInv

\* A command under way, at another place and with another credential.
LEMMA PlaceGood ==
  ASSUME CommandInv, NEW m \in Machine, cmd[m].at \notin Waiting \cup {"idle"},
         NEW at \in CmdAt \ Waiting, NEW k \in 0..MaxCred
  PROVE  /\ [cmd[m] EXCEPT !.at = at] \in GoodCommand
         /\ [cmd[m] EXCEPT !.at = at, !.cred = k] \in GoodCommand
<1>1. /\ cmd[m] \in Command /\ cmd[m].name \in Name /\ cmd[m].code \in Code
      /\ cmd[m].req = 0
  BY DEF CommandInv, GoodCommand
<1>. DEFINE d == [cmd[m] EXCEPT !.at = at]
            e == [cmd[m] EXCEPT !.at = at, !.cred = k]
<1>2. d \in Command /\ d.at = at /\ d.req = 0 /\ d.name = cmd[m].name
        /\ d.code = cmd[m].code
  BY <1>1 DEF Command
<1>3. e \in Command /\ e.at = at /\ e.req = 0 /\ e.name = cmd[m].name
        /\ e.code = cmd[m].code
  BY <1>1 DEF Command
<1>. HIDE DEF d, e
<1>4. d \in GoodCommand /\ e \in GoodCommand
  BY <1>1, <1>2, <1>3 DEF GoodCommand
<1>. QED
  BY <1>4 DEF d, e

\* A new command keeps TypeInv.
LEMMA EnrollType ==
  ASSUME TypeInv, NEW m \in Machine, NEW n \in Name, NEW i \in Code, Enroll(m, n, i)
  PROVE  TypeInv'
<1>. DEFINE at == IF conf[m].kind = "pending" THEN "resume" ELSE "prepare"
            c == [Idle EXCEPT !.at = at, !.name = n, !.code = i]
<1>1. c \in GoodCommand /\ c.at = at
  <2>1. 0 \in 0..MaxCred /\ 0 \in 0..MaxReq
    BY EnrollmentAssumption
  <2>2. at \in CmdAt /\ at \notin Waiting
    BY DEF CmdAt, Waiting
  <2>. HIDE DEF at
  <2>3. c \in Command /\ c.at = at /\ c.name = n /\ c.code = i /\ c.req = 0
    BY <2>1, <2>2 DEF Idle, Command
  <2>. HIDE DEF c
  <2>. QED
    BY <2>2, <2>3 DEF GoodCommand
<1>2. cmd' = [cmd EXCEPT ![m] = c]
  BY DEF Enroll
<1>3. slot' \in [Machine -> [Name -> 0..MaxCred]]
  BY ForgetGood DEF Enroll, TypeInv, MachineInv
<1>4. cmd[m].at \notin Waiting /\ UNCHANGED <<source, req, conf>> /\ spent' \in 0..MaxMishaps
  BY DEF Enroll, Waiting, TypeInv, SourceInv
<1>5. at \in {"resume", "resuming", "finalize", "finalizing", "clear"}
        => conf[m].kind = "pending"
  OBVIOUS
<1>. HIDE DEF c, at
<1>. QED
  BY <1>1, <1>2, <1>3, <1>4, <1>5, MoveType

\* A request that is sent keeps TypeInv.
LEMMA SendType ==
  ASSUME TypeInv, NEW m \in Machine, NEW h \in GoodHandler, h.at # "answered",
         NEW at \in Waiting, cmd[m].at \notin Waiting \cup {"idle"}, Send(m, h, at),
         at \in {"resuming", "finalizing"} => conf[m].kind = "pending",
         UNCHANGED <<source, conf, slot, spent>>
  PROVE  TypeInv'
<1>1. SourceInv'
  BY SourceKept DEF TypeInv, SourceInv
<1>2. /\ RequestInv' /\ CommandInv' /\ cmd'[m].at = at
      /\ \A o \in Machine \ {m} : cmd'[o] = cmd[o]
  BY SendGood DEF TypeInv
<1>3. slot' \in [Machine -> [Name -> 0..MaxCred]]
  BY DEF TypeInv, MachineInv
<1>4. MachineInv'
  BY <1>2, <1>3, MachineKept DEF TypeInv, Waiting
<1>. QED
  BY <1>1, <1>2, <1>4 DEF TypeInv

\* An answer that is read keeps TypeInv.
LEMMA ReceiveType ==
  ASSUME TypeInv, NEW m \in Machine, NEW at \in Waiting, NEW answers,
         NEW next \in (CmdAt \ Waiting), Receive(m, at, answers, next),
         next \in {"resume", "finalize", "clear"} => conf[m].kind = "pending",
         UNCHANGED <<source, conf, spent>>,
         slot' \in [Machine -> [Name -> 0..MaxCred]]
  PROVE  TypeInv'
<1>1. SourceInv'
  BY SourceKept DEF TypeInv, SourceInv
<1>2. /\ RequestInv' /\ CommandInv' /\ cmd'[m].at = next
      /\ \A o \in Machine \ {m} : cmd'[o] = cmd[o]
  BY ReceiveGood DEF TypeInv
<1>3. MachineInv'
  BY <1>2, MachineKept DEF TypeInv, Waiting
<1>. QED
  BY <1>1, <1>2, <1>3 DEF TypeInv

\* Every step of a command keeps TypeInv.
LEMMA MachineStepType ==
  ASSUME TypeInv, NEW m \in Machine, MachineStep(m)
  PROVE  TypeInv'
<1>a. /\ cmd[m] \in GoodCommand
      /\ cmd[m].at # "idle" => cmd[m].name \in Name /\ cmd[m].code \in Code
      /\ cmd[m].cred \in 0..MaxCred
  BY DEF TypeInv, CommandInv, GoodCommand, Command
<1>b. /\ slot \in [Machine -> [Name -> 0..MaxCred]]
      /\ conf \in [Machine -> [kind: {"none", "pending", "enrolled"}, name: Name \cup {None}]]
      /\ cmd[m].at \in {"resume", "resuming", "finalize", "finalizing", "clear"}
           => conf[m].kind = "pending" /\ conf[m].name \in Name /\ Held(m) \in 0..MaxCred
  BY DEF TypeInv, MachineInv, Held
<1>c. spent \in 0..MaxMishaps /\ 0 \in 0..MaxCred
  BY EnrollmentAssumption DEF TypeInv, SourceInv
<1>1. CASE Resume(m)
  <2>1. cmd[m].at = "resume" /\ cmd[m].at \notin Waiting \cup {"idle"}
    BY <1>1 DEF Resume, Waiting
  <2>2. CASE Held(m) = 0
    <3>. DEFINE c == [cmd[m] EXCEPT !.at = "prepare"]
    <3>1. "prepare" \in CmdAt \ Waiting
      BY DEF CmdAt, Waiting
    <3>2. c \in GoodCommand
      BY <1>c, <2>1, <3>1, PlaceGood DEF TypeInv
    <3>3. c.at = "prepare"
      BY <1>a DEF GoodCommand, Command
    <3>4. cmd' = [cmd EXCEPT ![m] = c] /\ UNCHANGED <<source, req, conf, slot, spent>>
      BY <1>1, <2>2 DEF Resume, Command0
    <3>. HIDE DEF c
    <3>. QED
      BY <1>b, <1>c, <2>1, <3>2, <3>3, <3>4, MoveType
  <2>3. CASE Held(m) # 0
    <3>. DEFINE h == [Free EXCEPT !.at = "fread", !.cred = Held(m)]
    <3>1. h \in GoodHandler
      BY <1>b, <2>1, FreeGood
    <3>2. h.at # "answered"
      BY DEF Free
    <3>3. Send(m, h, "resuming") /\ UNCHANGED <<source, conf, slot, spent>>
      BY <1>1, <2>3 DEF Resume
    <3>4. "resuming" \in Waiting
      BY DEF Waiting
    <3>. HIDE DEF h
    <3>. QED
      BY <1>b, <2>1, <3>1, <3>2, <3>3, <3>4, SendType
  <2>. QED
    BY <2>2, <2>3
<1>2. CASE Resumed(m)
  <2>1. "resuming" \in Waiting /\ {"clear", "idle", "prepare"} \subseteq CmdAt \ Waiting
    BY DEF Waiting, CmdAt
  <2>2. cmd[m].at = "resuming"
    BY <1>2 DEF Resumed, Receive
  <2>3. slot' \in [Machine -> [Name -> 0..MaxCred]]
    BY <1>2, <1>b, <2>2, ForgetGood DEF Resumed
  <2>4. UNCHANGED <<source, conf, spent>>
    BY <1>2 DEF Resumed
  <2>5. ASSUME NEW answers, NEW next \in {"clear", "idle", "prepare"},
               Receive(m, "resuming", answers, next)
        PROVE  TypeInv'
    BY <1>b, <2>1, <2>2, <2>3, <2>4, <2>5, ReceiveType
  <2>. QED
    BY <1>2, <2>5 DEF Resumed
<1>3. CASE Prepare(m)
  <2>. DEFINE h == [Free EXCEPT !.at = "find", !.name = cmd[m].name, !.code = cmd[m].code]
  <2>1. cmd[m].at = "prepare" /\ cmd[m].at \notin Waiting \cup {"idle"}
    BY <1>3 DEF Prepare, Waiting
  <2>2. h \in GoodHandler
    BY <1>a, <2>1, FreeGood
  <2>3. h.at # "answered"
    BY DEF Free
  <2>4. Send(m, h, "preparing") /\ UNCHANGED <<source, conf, slot, spent>>
    BY <1>3 DEF Prepare
  <2>5. "preparing" \in Waiting
    BY DEF Waiting
  <2>. HIDE DEF h
  <2>. QED
    BY <2>1, <2>2, <2>3, <2>4, <2>5, SendType
<1>4. CASE Prepared(m)
  <2>. DEFINE k == cmd[m].req
              c == IF req[k].res = "ok"
                   THEN [cmd[m] EXCEPT !.at = "store", !.cred = req[k].cred, !.req = 0]
                   ELSE Idle
  <2>1. k \in Req /\ cmd[m].at = "preparing"
    BY <1>4, <1>a, EnrollmentAssumption DEF Prepared, GoodCommand, Command, Waiting, Req
  <2>2. req[k].cred \in 0..MaxCred
    BY <2>1 DEF TypeInv, RequestInv, GoodHandler, Handler
  <2>3. cmd[m] \in Command /\ cmd[m].name \in Name /\ cmd[m].code \in Code
    BY <1>a, <2>1 DEF GoodCommand
  <2>4. c \in GoodCommand /\ c.at \in {"store", "idle"}
    <3>1. CASE req[k].res = "ok"
      <4>1. 0 \in 0..MaxReq /\ "store" \in CmdAt /\ "store" \notin Waiting
        BY EnrollmentAssumption DEF CmdAt, Waiting
      <4>2. c \in Command /\ c.at = "store" /\ c.req = 0 /\ c.name = cmd[m].name
              /\ c.code = cmd[m].code
        BY <2>2, <2>3, <3>1, <4>1 DEF Command
      <4>. HIDE DEF c
      <4>. QED
        BY <2>3, <4>1, <4>2 DEF GoodCommand
    <3>2. CASE req[k].res # "ok"
      BY <3>2, IdleGood
    <3>. QED
      BY <3>1, <3>2
  <2>5. cmd' = [cmd EXCEPT ![m] = c] /\ req' = [req EXCEPT ![k] = Free]
        /\ UNCHANGED <<source, conf, slot, spent>>
    BY <1>4 DEF Prepared
  <2>6. Free.at # "answered"
    BY DEF Free
  <2>7. req' \in [Req -> GoodHandler]
    BY <2>1, <2>5, FreeGood DEF TypeInv, RequestInv
  <2>8. \A j \in Req : req'[j].at = "answered" => req[j].at = "answered" /\ k # j
    BY <2>1, <2>5, <2>6 DEF TypeInv, RequestInv
  <2>9. cmd'[m] = c /\ \A o \in Machine \ {m} : cmd'[o] = cmd[o]
    BY <2>5 DEF TypeInv, CommandInv
  <2>. HIDE DEF c
  <2>10. RequestInv' /\ CommandInv'
    BY <2>4, <2>5, <2>7, <2>8, CommandChange DEF TypeInv
  <2>11. SourceInv'
    BY <1>c, <2>5, SourceKept DEF TypeInv
  <2>12. MachineInv'
    BY <1>b, <2>4, <2>5, <2>9, MachineKept DEF TypeInv
  <2>. QED
    BY <2>10, <2>11, <2>12 DEF TypeInv
<1>5. CASE StoreLocal(m)
  <2>. DEFINE c == [cmd[m] EXCEPT !.at = "save", !.cred = 0]
  <2>1. cmd[m].at = "store" /\ cmd[m].at \notin Waiting \cup {"idle"}
    BY <1>5 DEF StoreLocal, Waiting
  <2>2. "save" \in CmdAt \ Waiting
    BY DEF CmdAt, Waiting
  <2>3. c \in GoodCommand
    BY <1>c, <2>1, <2>2, PlaceGood DEF TypeInv
  <2>4. c.at = "save"
    BY <1>a DEF GoodCommand, Command
  <2>5. cmd' = [cmd EXCEPT ![m] = c] /\ UNCHANGED <<source, req, conf, spent>>
    BY <1>5 DEF StoreLocal
  <2>6. slot' \in [Machine -> [Name -> 0..MaxCred]]
    <3>1. [slot[m] EXCEPT ![cmd[m].name] = cmd[m].cred] \in [Name -> 0..MaxCred]
      BY <1>a, <1>b, <2>1
    <3>. QED
      BY <1>5, <1>b, <3>1 DEF StoreLocal
  <2>. HIDE DEF c
  <2>. QED
    BY <1>c, <2>1, <2>3, <2>4, <2>5, <2>6, MoveType
<1>6. CASE SavePending(m)
  <2>. DEFINE c == [cmd[m] EXCEPT !.at = "finalize"]
              p == [kind |-> "pending", name |-> cmd[m].name]
  <2>1. cmd[m].at = "save" /\ cmd[m].at \notin Waiting \cup {"idle"}
    BY <1>6 DEF SavePending, Waiting
  <2>2. "finalize" \in CmdAt \ Waiting
    BY DEF CmdAt, Waiting
  <2>3. c \in GoodCommand
    BY <1>c, <2>1, <2>2, PlaceGood DEF TypeInv
  <2>4. cmd' = [cmd EXCEPT ![m] = c] /\ conf' = [conf EXCEPT ![m] = p]
        /\ UNCHANGED <<source, req, slot, spent>>
    BY <1>6 DEF SavePending, Command0
  <2>. HIDE DEF c
  <2>5. SourceInv'
    BY <1>c, <2>4, SourceKept DEF TypeInv
  <2>6. /\ RequestInv' /\ CommandInv'
        /\ \A o \in Machine \ {m} : cmd'[o] = cmd[o]
    BY <2>1, <2>3, <2>4, CommandAlone DEF TypeInv
  <2>7. p \in [kind: {"none", "pending", "enrolled"}, name: Name \cup {None}]
        /\ p.kind = "pending" /\ p.name \in Name
    BY <1>a, <2>1
  <2>. HIDE DEF p
  <2>8. conf' \in [Machine -> [kind: {"none", "pending", "enrolled"}, name: Name \cup {None}]]
        /\ conf'[m] = p /\ \A o \in Machine \ {m} : conf'[o] = conf[o]
    BY <1>b, <2>4, <2>7
  <2>9. MachineInv'
    BY <1>b, <2>4, <2>6, <2>7, <2>8 DEF TypeInv, MachineInv
  <2>. QED
    BY <2>5, <2>6, <2>9 DEF TypeInv
<1>7. CASE Finalize(m)
  <2>. DEFINE h == [Free EXCEPT !.at = "fread", !.cred = Held(m)]
  <2>1. cmd[m].at = "finalize" /\ cmd[m].at \notin Waiting \cup {"idle"}
    BY <1>7 DEF Finalize, Waiting
  <2>2. h \in GoodHandler
    BY <1>b, <2>1, FreeGood
  <2>3. h.at # "answered"
    BY DEF Free
  <2>4. Send(m, h, "finalizing") /\ UNCHANGED <<source, conf, slot, spent>>
    BY <1>7 DEF Finalize
  <2>5. "finalizing" \in Waiting
    BY DEF Waiting
  <2>. HIDE DEF h
  <2>. QED
    BY <1>b, <2>1, <2>2, <2>3, <2>4, <2>5, SendType
<1>8. CASE Finalized(m)
  <2>1. "finalizing" \in Waiting /\ {"clear", "idle"} \subseteq CmdAt \ Waiting
    BY DEF Waiting, CmdAt
  <2>2. cmd[m].at = "finalizing" /\ UNCHANGED <<source, conf, slot, spent>>
    BY <1>8 DEF Finalized, Receive
  <2>3. ASSUME NEW answers, NEW next \in {"clear", "idle"},
               Receive(m, "finalizing", answers, next)
        PROVE  TypeInv'
    BY <1>b, <2>1, <2>2, <2>3, ReceiveType
  <2>. QED
    BY <1>8, <2>3 DEF Finalized
<1>9. CASE SaveEnrolled(m)
  <2>1. cmd[m].at = "clear" /\ cmd[m].at \notin Waiting
        /\ conf' = [conf EXCEPT ![m].kind = "enrolled"] /\ cmd' = [cmd EXCEPT ![m] = Idle]
        /\ UNCHANGED <<source, req, slot, spent>>
    BY <1>9 DEF SaveEnrolled, Waiting
  <2>2. SourceInv'
    BY <1>c, <2>1, SourceKept DEF TypeInv
  <2>3. /\ RequestInv' /\ CommandInv' /\ cmd'[m] = Idle
        /\ \A o \in Machine \ {m} : cmd'[o] = cmd[o]
    BY <2>1, IdleGood, CommandAlone DEF TypeInv
  <2>4. /\ conf' \in [Machine -> [kind: {"none", "pending", "enrolled"}, name: Name \cup {None}]]
        /\ \A o \in Machine : conf'[o].name = conf[o].name
        /\ conf'[m].kind = "enrolled"
        /\ \A o \in Machine \ {m} : conf'[o] = conf[o]
    BY <1>b, <2>1
  <2>5. MachineInv'
    BY <1>b, <2>1, <2>3, <2>4, IdleGood DEF TypeInv, MachineInv
  <2>. QED
    BY <2>2, <2>3, <2>5 DEF TypeInv
<1>10. CASE Cancel(m)
  <2>. DEFINE h == [Free EXCEPT !.at = "cancel", !.cred = slot[m][cmd[m].name]]
  <2>1. cmd[m].at = "cancel" /\ cmd[m].at \notin Waiting \cup {"idle"}
    BY <1>10 DEF Cancel, Waiting
  <2>2. slot[m][cmd[m].name] \in 0..MaxCred
    BY <1>a, <1>b, <2>1
  <2>3. h \in GoodHandler
    BY <2>2, FreeGood
  <2>4. h.at # "answered"
    BY DEF Free
  <2>5. Send(m, h, "cancelling") /\ UNCHANGED <<source, conf, slot, spent>>
    BY <1>10 DEF Cancel
  <2>6. "cancelling" \in Waiting
    BY DEF Waiting
  <2>. HIDE DEF h
  <2>. QED
    BY <2>1, <2>3, <2>4, <2>5, <2>6, SendType
<1>11. CASE Cancelled(m)
  <2>1. "cancelling" \in Waiting /\ "idle" \in CmdAt \ Waiting
    BY DEF Waiting, CmdAt
  <2>2. cmd[m].at = "cancelling" /\ UNCHANGED <<source, conf, spent>>
        /\ Receive(m, "cancelling", {"ok", "refused"}, "idle")
    BY <1>11 DEF Cancelled, Receive
  <2>3. slot' \in [Machine -> [Name -> 0..MaxCred]]
    BY <1>11, <1>a, <1>b, <2>2, ForgetGood DEF Cancelled
  <2>. QED
    BY <2>1, <2>2, <2>3, ReceiveType
<1>. QED
  BY <1>1, <1>2, <1>3, <1>4, <1>5, <1>6, <1>7, <1>8, <1>9, <1>10, <1>11 DEF MachineStep

----------------------------------------------------------------------------
(* Mishaps. *)

\* Nobody waits for a request any more: the handlers stay well formed.
LEMMA AbandonType ==
  ASSUME TypeInv, NEW m \in Machine, NEW x, Spend(x), cmd[m].at \in Waiting,
         \/ Abandoned(cmd[m].req)
         \/ req' = [req EXCEPT ![cmd[m].req] = Free],
         cmd' = [cmd EXCEPT ![m] = Idle], UNCHANGED <<source, conf>>,
         slot' \in [Machine -> [Name -> 0..MaxCred]]
  PROVE  TypeInv'
<1>. DEFINE k == cmd[m].req
<1>1. k \in Req
  BY EnrollmentAssumption DEF TypeInv, CommandInv, GoodCommand, Command, Req
<1>2. Free.at # "answered"
  BY DEF Free
<1>3. req' \in [Req -> GoodHandler]
  BY <1>1, FreeGood DEF Abandoned, TypeInv, RequestInv
<1>4. \A j \in Req : req'[j].at = "answered" => req[j].at = "answered" /\ k # j
  BY <1>1, <1>2 DEF Abandoned, TypeInv, RequestInv
<1>5. cmd'[m] = Idle /\ \A o \in Machine \ {m} : cmd'[o] = cmd[o]
  BY DEF TypeInv, CommandInv
<1>6. RequestInv' /\ CommandInv'
  BY <1>3, <1>4, IdleGood, CommandChange DEF TypeInv
<1>7. spent' \in 0..MaxMishaps
  BY SpendGood DEF TypeInv, SourceInv
<1>8. SourceInv'
  BY <1>7, SourceKept DEF TypeInv
<1>9. MachineInv'
  BY <1>5, IdleGood, MachineKept DEF TypeInv
<1>. QED
  BY <1>6, <1>8, <1>9 DEF TypeInv

\* Cancelled credentials leave the stores.
LEMMA AfterFailureGood ==
  ASSUME TypeInv, NEW ms \in SUBSET Machine
  PROVE  AfterFailure(ms) \in [Machine -> [Name -> 0..MaxCred]]
<1>1. 0 \in 0..MaxCred
  BY EnrollmentAssumption
<1>2. slot \in [Machine -> [Name -> 0..MaxCred]]
  BY DEF TypeInv, MachineInv
<1>3. \A m \in Machine : [slot[m] EXCEPT ![cmd[m].name] = 0] \in [Name -> 0..MaxCred]
  BY <1>1, <1>2
<1>. QED
  BY <1>2, <1>3 DEF AfterFailure

\* Every mishap of a machine keeps TypeInv.
LEMMA MishapType ==
  ASSUME TypeInv, NEW m \in Machine,
         Reject(m) \/ SaveFails(m) \/ Unreached(m) \/ Lose(m) \/ Crash(m)
  PROVE  TypeInv'
<1>a. /\ cmd[m] \in GoodCommand /\ cmd[m] \in Command
      /\ slot \in [Machine -> [Name -> 0..MaxCred]]
  BY DEF TypeInv, CommandInv, GoodCommand, MachineInv
<1>b. 0 \in 0..MaxCred
  BY EnrollmentAssumption
<1>c. PICK x : Spend(x)
  BY DEF Reject, SaveFails, Unreached, Lose, Crash
<1>d. spent' \in 0..MaxMishaps
  BY <1>c, SpendGood DEF TypeInv, SourceInv
<1>. DEFINE d == [cmd[m] EXCEPT !.at = "cancel"]
<1>e. d.at = "cancel"
  BY <1>a DEF Command
<1>f. ASSUME cmd[m].at = "save" PROVE d \in GoodCommand
  <2>1. "cancel" \in CmdAt \ Waiting /\ cmd[m].at \notin Waiting \cup {"idle"}
    BY <1>f DEF CmdAt, Waiting
  <2>. QED
    BY <1>b, <2>1, PlaceGood DEF TypeInv
<1>1. CASE Reject(m) \/ SaveFails(m) \/ Unreached(m)
  <2>1. cmd[m].at \notin Waiting /\ UNCHANGED <<source, req, conf, slot>>
    BY <1>1 DEF Reject, SaveFails, Unreached, Waiting
  <2>2. \/ cmd' = [cmd EXCEPT ![m] = Idle]
        \/ cmd[m].at = "save" /\ cmd' = [cmd EXCEPT ![m] = d]
    BY <1>1 DEF Reject, SaveFails, Unreached, Command0
  <2>. HIDE DEF d
  <2>3. PICK c \in GoodCommand : c.at \in {"idle", "cancel"} /\ cmd' = [cmd EXCEPT ![m] = c]
    BY <1>e, <1>f, <2>2, IdleGood
  <2>. QED
    BY <1>a, <1>d, <2>1, <2>3, MoveType
<1>2. CASE Lose(m)
  <2>1. slot' \in [Machine -> [Name -> 0..MaxCred]]
    BY <1>2, AfterFailureGood DEF Lose
  <2>. QED
    BY <1>2, <1>c, <2>1, AbandonType DEF Lose
<1>3. CASE Crash(m)
  <2>1. CASE cmd[m].at \in Waiting
    BY <1>3, <1>a, <1>c, <2>1, AbandonType DEF Crash
  <2>2. CASE cmd[m].at \notin Waiting
    BY <1>3, <1>a, <1>d, <2>2, IdleGood, MoveType DEF Crash
  <2>. QED
    BY <2>1, <2>2
<1>. QED
  BY <1>1, <1>2, <1>3

\* A restart of the source keeps TypeInv.
LEMMA RestartType ==
  ASSUME TypeInv, Restart
  PROVE  TypeInv'
<1>. DEFINE ms == {m \in Machine : cmd[m].at \in Waiting}
<1>1. NoRow \in Row
  BY EnrollmentAssumption DEF NoRow, Row
<1>2. spent' \in 0..MaxMishaps
  BY SpendGood DEF Restart, TypeInv, SourceInv
<1>3. SourceInv'
  BY <1>1, <1>2 DEF Restart, TypeInv, SourceInv
<1>4. RequestInv'
  BY FreeGood DEF Restart, RequestInv, Free
<1>5. CommandInv'
  BY IdleGood DEF Restart, TypeInv, CommandInv
<1>6. slot' \in [Machine -> [Name -> 0..MaxCred]] /\ UNCHANGED conf
  BY AfterFailureGood DEF Restart
<1>7. \A m \in Machine : cmd'[m] = Idle \/ cmd'[m] = cmd[m]
  BY DEF Restart
<1>8. MachineInv'
  BY <1>6, <1>7, IdleGood DEF TypeInv, MachineInv
<1>. QED
  BY <1>3, <1>4, <1>5, <1>8 DEF TypeInv

----------------------------------------------------------------------------
(* Type correctness. *)

\* Initially nothing is issued, pending or under way.
LEMMA InitType == Init => TypeInv
<1>. SUFFICES ASSUME Init PROVE TypeInv
  OBVIOUS
<1>1. NoRow \in Row /\ 0 \in 0..MaxCred /\ 0 \in 0..MaxMishaps
  BY EnrollmentAssumption DEF NoRow, Row
<1>2. SourceInv
  BY <1>1 DEF Init, SourceInv, Invite
<1>3. RequestInv
  BY FreeGood DEF Init, RequestInv, Free
<1>4. CommandInv
  BY IdleGood DEF Init, CommandInv
<1>5. MachineInv
  BY <1>1, IdleGood DEF Init, MachineInv
<1>. QED
  BY <1>2, <1>3, <1>4, <1>5 DEF TypeInv

\* Every step of the system keeps TypeInv.
LEMMA NextType ==
  ASSUME TypeInv, [Next]_vars
  PROVE  TypeInv'
<1>1. CASE Operator \/ \E c \in Code : Expire(c)
  BY <1>1, OperatorType
<1>2. ASSUME NEW k \in Req, HandlerStep(k) \/ RequestFails(k) PROVE TypeInv'
  BY <1>2, EnrollHandlerType, FinalizeHandlerType, RequestFailsType DEF HandlerStep
<1>3. ASSUME NEW m \in Machine, NEW n \in Name, NEW c \in Code, Enroll(m, n, c)
      PROVE  TypeInv'
  BY <1>3, EnrollType
<1>4. ASSUME NEW m \in Machine, MachineStep(m) PROVE TypeInv'
  BY <1>4, MachineStepType
<1>5. ASSUME NEW m \in Machine,
             Reject(m) \/ SaveFails(m) \/ Unreached(m) \/ Lose(m) \/ Crash(m)
      PROVE  TypeInv'
  BY <1>5, MishapType
<1>6. CASE Restart
  BY <1>6, RestartType
<1>7. CASE UNCHANGED vars
  BY <1>7 DEF vars, TypeInv, SourceInv, RequestInv, CommandInv, MachineInv, Awaited
<1>. QED
  BY <1>1, <1>2, <1>3, <1>4, <1>5, <1>6, <1>7 DEF Next

\* The tables, stores, handlers and commands have their types, who waits has a
\* request, and no answer is kept that nobody waits for, however many machines,
\* invitations and requests there are.
THEOREM TypeCorrect == Spec => []TypeOK
<1>1. TypeInv => TypeOK
  BY DEF TypeInv, SourceInv, RequestInv, CommandInv, MachineInv, TypeOK, GoodHandler,
         GoodCommand
<1>. QED
  BY <1>1, InitType, NextType, PTL DEF Spec

----------------------------------------------------------------------------
(* The enrollment tables implement Membership. *)

\* A handler holds a new credential that no row has yet.
Unconsumed == {"list", "unpend", "unvault", "consume"}

\* Credentials of pending rows are pairwise different and never were active, and
\* so are those of handlers that have not consumed their invitation.
RowInv ==
  \A n \in Name : pend[n].cred # 0 =>
    /\ pend[n].code \in Code
    /\ pend[n].cred \notin activated
    /\ \A o \in Name : pend[o].cred = pend[n].cred => o = n

HolderInv ==
  \A k \in Req : req[k].at \in Unconsumed =>
    /\ req[k].cred # 0
    /\ req[k].cred \notin activated
    /\ \A n \in Name : pend[n].cred # req[k].cred
    /\ \A j \in Req : req[j].at \in Unconsumed /\ req[j].cred = req[k].cred => j = k

CredInv == RowInv /\ HolderInv

\* A step that adds no row, no holder and no active credential keeps CredInv.
LEMMA QuietCred ==
  ASSUME CredInv, activated' = activated,
         \A n \in Name : pend'[n] = pend[n] \/ pend'[n].cred = 0,
         \A k \in Req : req'[k].at \in Unconsumed
                          => req[k].at \in Unconsumed /\ req'[k].cred = req[k].cred
  PROVE  CredInv'
<1>1. RowInv'
  BY DEF CredInv, RowInv
<1>2. HolderInv'
  BY DEF CredInv, HolderInv
<1>. QED
  BY <1>1, <1>2 DEF CredInv

\* A handler that ends, or is replaced by one that holds nothing.
LEMMA QuietReplace ==
  ASSUME RequestInv, NEW k \in Req, NEW h, h.at \notin Unconsumed,
         req' = [req EXCEPT ![k] = h]
  PROVE  \A j \in Req : req'[j].at \in Unconsumed
                          => req[j].at \in Unconsumed /\ req'[j].cred = req[j].cred
BY DEF RequestInv

\* The same for Finish.
LEMMA QuietFinish ==
  ASSUME RequestInv, NEW k \in Req, NEW a, Finish(k, a)
  PROVE  \A j \in Req : req'[j].at \in Unconsumed
                          => req[j].at \in Unconsumed /\ req'[j].cred = req[j].cred
<1>. DEFINE h == IF Awaited(k)
                 THEN [Free EXCEPT !.at = "answered", !.res = a, !.cred = req[k].cred]
                 ELSE Free
<1>1. h.at \in {"answered", "free"}
  BY DEF Free
<1>2. h.at \notin Unconsumed
  BY <1>1 DEF Unconsumed
<1>3. req' = [req EXCEPT ![k] = h]
  BY DEF Finish
<1>. HIDE DEF h
<1>. QED
  BY <1>2, <1>3, QuietReplace

\* A holder that goes on, or any handler that goes to a place without one.
LEMMA QuietGoto ==
  ASSUME RequestInv, NEW k \in Req, NEW at, Goto(k, at),
         at \in Unconsumed => req[k].at \in Unconsumed
  PROVE  \A j \in Req : req'[j].at \in Unconsumed
                          => req[j].at \in Unconsumed /\ req'[j].cred = req[j].cred
<1>1. \A j \in Req : req'[j].cred = req[j].cred /\ (j # k => req'[j] = req[j])
  BY DEF Goto, RequestInv, GoodHandler, Handler
<1>2. req'[k].at = at
  BY DEF Goto, RequestInv, GoodHandler, Handler
<1>. QED
  BY <1>1, <1>2

\* The operator's steps keep CredInv.
LEMMA OperatorCred ==
  ASSUME TypeInv, CredInv, Operator \/ \E c \in Code : Expire(c)
  PROVE  CredInv'
<1>1. UNCHANGED <<req, activated>>
  BY DEF Operator, OpenRepository, Issue, Revoke, EndCommand, Expire, tables
<1>2. \A n \in Name : pend'[n] = pend[n] \/ pend'[n].cred = 0
  BY DEF Operator, OpenRepository, Issue, Revoke, EndCommand, Expire, tables, NoRow
<1>. QED
  BY <1>1, <1>2, QuietCred

\* A new credential is nowhere else.
LEMMA StoreCredentialCred ==
  ASSUME TypeInv, CredInv, NEW k \in Req, StoreCredential(k)
  PROVE  CredInv'
<1>1. UNCHANGED <<pend, activated>> /\ req[k].at = "store"
  BY DEF StoreCredential, tables
<1>2. CASE Finish(k, "refused")
  BY <1>1, <1>2, QuietFinish, QuietCred DEF TypeInv
<1>3. CASE ~Finish(k, "refused")
  <2>1. PICK c \in Fresh :
          req' = [req EXCEPT ![k].at = "list", ![k].cred = c,
                             ![k].fresh = invite[req[k].code] = "open"]
    BY <1>3 DEF StoreCredential
  <2>2. /\ c # 0 /\ c \notin activated
        /\ \A n \in Name : pend[n].cred # c
        /\ \A j \in Req : req[j].cred # c
    BY EnrollmentAssumption DEF Fresh, Cred
  <2>3. req'[k].at = "list" /\ req'[k].cred = c /\ \A j \in Req \ {k} : req'[j] = req[j]
    BY <2>1 DEF TypeInv, RequestInv, GoodHandler, Handler
  <2>4. HolderInv'
    BY <1>1, <2>2, <2>3 DEF CredInv, HolderInv
  <2>5. RowInv'
    BY <1>1 DEF CredInv, RowInv
  <2>. QED
    BY <2>4, <2>5 DEF CredInv
<1>. QED
  BY <1>2, <1>3

\* The credential passes from the handler to the row.
LEMMA ConsumeCred ==
  ASSUME TypeInv, CredInv, NEW k \in Req, Consume(k)
  PROVE  CredInv'
<1>. DEFINE h == req[k]
<1>1. UNCHANGED activated /\ h.at = "consume" /\ h.at \in Unconsumed
  BY DEF Consume, Unconsumed
<1>2. CASE ~Consumable(h)
  <2>1. Goto(k, "drop") /\ UNCHANGED pend
    BY <1>2 DEF Consume
  <2>2. "drop" \notin Unconsumed
    BY DEF Unconsumed
  <2>. QED
    BY <1>1, <2>1, <2>2, QuietGoto, QuietCred DEF TypeInv
<1>3. CASE Consumable(h)
  <2>1. /\ h.name \in Name /\ h.code \in Code /\ h.cred # 0 /\ h.cred \notin activated
        /\ \A n \in Name : pend[n].cred # h.cred
        /\ \A j \in Req : req[j].at \in Unconsumed /\ req[j].cred = h.cred => j = k
    BY <1>1 DEF TypeInv, RequestInv, GoodHandler, Enrolling, CredInv, HolderInv
  <2>2. /\ pend'[h.name] = [code |-> h.code, cred |-> h.cred]
        /\ \A n \in Name \ {h.name} : pend'[n] = pend[n]
    BY <1>3, <2>1 DEF Consume, TypeInv, SourceInv
  <2>3. req'[k].at = "unprev" /\ \A j \in Req \ {k} : req'[j] = req[j]
    BY <1>3 DEF Consume, Goto, TypeInv, RequestInv, GoodHandler, Handler
  <2>4. pend'[h.name].code = h.code /\ pend'[h.name].cred = h.cred
    BY <2>2
  <2>5. RowInv'
    BY <1>1, <2>1, <2>2, <2>4 DEF CredInv, RowInv
  <2>6. "unprev" \notin Unconsumed
    BY DEF Unconsumed
  <2>7. HolderInv'
    BY <1>1, <2>1, <2>2, <2>3, <2>4, <2>6 DEF CredInv, HolderInv
  <2>. QED
    BY <2>5, <2>7 DEF CredInv
<1>. QED
  BY <1>2, <1>3

\* The row that is finalized disappears, so no other has an active credential.
LEMMA FinalizeEnrollmentCred ==
  ASSUME TypeInv, CredInv, NEW k \in Req, FinalizeEnrollment(k)
  PROVE  CredInv'
<1>. DEFINE h == req[k]
            done == pend[h.name].cred = h.cred /\ Finalizable(h)
<1>1. PICK a : Finish(k, a)
  BY DEF FinalizeEnrollment
<1>2. \A j \in Req : req'[j].at \in Unconsumed
                       => req[j].at \in Unconsumed /\ req'[j].cred = req[j].cred
  BY <1>1, QuietFinish DEF TypeInv
<1>3. CASE ~done
  BY <1>2, <1>3, QuietCred DEF FinalizeEnrollment, tables
<1>4. CASE done
  <2>1. h.name \in Name /\ h.cred # 0
    BY DEF FinalizeEnrollment, TypeInv, RequestInv, GoodHandler
  <2>2. /\ pend' = [pend EXCEPT ![h.name] = NoRow]
        /\ activated' = activated \cup {h.cred}
        /\ pend[h.name].cred = h.cred
    BY <1>4 DEF FinalizeEnrollment
  <2>3. pend'[h.name].cred = 0 /\ \A n \in Name \ {h.name} : pend'[n] = pend[n]
    BY <2>1, <2>2 DEF TypeInv, SourceInv, NoRow
  <2>4. RowInv'
    BY <2>1, <2>2, <2>3 DEF CredInv, RowInv
  <2>5. HolderInv'
    BY <1>2, <2>1, <2>2, <2>3 DEF CredInv, HolderInv
  <2>. QED
    BY <2>4, <2>5 DEF CredInv
<1>. QED
  BY <1>3, <1>4

\* The other steps of a handler keep CredInv.
LEMMA HandlerCred ==
  ASSUME TypeInv, CredInv, NEW k \in Req, HandlerStep(k) \/ RequestFails(k)
  PROVE  CredInv'
<1>. DEFINE QuietPend == \A n \in Name : pend'[n] = pend[n] \/ pend'[n].cred = 0
            Quiet == \A j \in Req : req'[j].at \in Unconsumed
                       => req[j].at \in Unconsumed /\ req'[j].cred = req[j].cred
<1>a. ASSUME NEW a, Finish(k, a) PROVE Quiet
  BY <1>a, QuietFinish DEF TypeInv
<1>b. ASSUME NEW at, Goto(k, at), at \in Unconsumed => req[k].at \in Unconsumed PROVE Quiet
  BY <1>b, QuietGoto DEF TypeInv
<1>c. req \in [Req -> Handler]
  BY DEF TypeInv, RequestInv, GoodHandler
<1>1. CASE Find(k)
  <2>1. Quiet
    BY <1>1, <1>a, <1>b DEF Find, Unconsumed
  <2>. QED
    BY <1>1, <2>1, QuietCred DEF Find, source
<1>2. CASE Identity(k)
  <2>1. CASE Finish(k, "refused")
    BY <1>2, <1>a, <2>1, QuietCred DEF Identity, source
  <2>2. CASE ~Finish(k, "refused")
    <3>1. req'[k].at = "store" /\ \A j \in Req \ {k} : req'[j] = req[j]
      BY <1>2, <1>c, <2>2 DEF Identity, Handler
    <3>2. Quiet
      BY <3>1 DEF Unconsumed
    <3>. QED
      BY <1>2, <3>2, QuietCred DEF Identity, source
  <2>. QED
    BY <2>1, <2>2
<1>3. CASE ListPending(k)
  <2>1. \/ Goto(k, "consume")
        \/ Finish(k, "refused")
        \/ req' = [req EXCEPT ![k].at = "unpend", ![k].stale = pend[req[k].name].cred]
    BY <1>3 DEF ListPending
  <2>2. Quiet
    <3>1. req[k].at \in Unconsumed
      BY <1>3 DEF ListPending, Unconsumed
    <3>2. ASSUME req' = [req EXCEPT ![k].at = "unpend", ![k].stale = pend[req[k].name].cred]
          PROVE  Quiet
      BY <3>1, <3>2, <1>c DEF Handler
    <3>. QED
      BY <2>1, <3>1, <3>2, <1>a, <1>b
  <2>. QED
    BY <1>3, <2>2, QuietCred DEF ListPending, source
<1>4. CASE CancelStale(k) \/ CancelPending(k)
  <2>1. Quiet
    BY <1>4, <1>a, <1>b DEF CancelStale, CancelPending, Unconsumed
  <2>2. QuietPend
    BY <1>4 DEF CancelStale, CancelPending, WithoutRow, NoRow
  <2>. QED
    BY <1>4, <2>1, <2>2, QuietCred DEF CancelStale, CancelPending
<1>5. CASE DropStale(k)
  <2>1. Quiet
    BY <1>5, <1>c DEF DropStale, Handler, Unconsumed
  <2>. QED
    BY <1>5, <2>1, QuietCred DEF DropStale, tables
<1>6. CASE DropOwn(k) \/ DropPrevious(k)
  <2>1. Quiet
    BY <1>6, <1>a DEF DropOwn, DropPrevious
  <2>. QED
    BY <1>6, <2>1, QuietCred DEF DropOwn, DropPrevious, tables
<1>7. CASE FinalizeRead(k)
  <2>1. req'[k].at \notin Unconsumed /\ \A j \in Req \ {k} : req'[j] = req[j]
    BY <1>7, <1>c DEF FinalizeRead, Goto, Unconsumed, Handler
  <2>. QED
    BY <1>7, <2>1, QuietCred DEF FinalizeRead, source
<1>8. CASE FinalizeActive(k)
  <2>1. Quiet
    BY <1>8, <1>a DEF FinalizeActive
  <2>. QED
    BY <1>8, <2>1, QuietCred DEF FinalizeActive, source
<1>9. CASE RequestFails(k)
  <2>1. Quiet
    BY <1>9, <1>a, <1>b DEF RequestFails, Unconsumed
  <2>. QED
    BY <1>9, <2>1, QuietCred DEF RequestFails, tables
<1>. QED
  BY <1>1, <1>2, <1>3, <1>4, <1>5, <1>6, <1>7, <1>8, <1>9, StoreCredentialCred,
     ConsumeCred, FinalizeEnrollmentCred DEF HandlerStep

\* Where a step of a machine, or a mishap of one, leaves the handlers.
LEMMA MachineRequests ==
  ASSUME TypeInv, NEW m \in Machine,
         \/ MachineStep(m) \/ Reject(m) \/ SaveFails(m) \/ Unreached(m)
         \/ Lose(m) \/ Crash(m) \/ \E n \in Name, c \in Code : Enroll(m, n, c)
  PROVE  \/ UNCHANGED req
         \/ \E k \in Req : \E h : h.at \notin Unconsumed /\ req' = [req EXCEPT ![k] = h]
<1>a. Free.at \notin Unconsumed
  BY DEF Free, Unconsumed
<1>b. cmd[m].at \in Waiting => cmd[m].req \in Req
  BY EnrollmentAssumption DEF TypeInv, CommandInv, GoodCommand, Command, Req
<1>c. ASSUME NEW h, NEW at, h.at \notin Unconsumed, Send(m, h, at)
      PROVE  \E k \in Req : \E g : g.at \notin Unconsumed /\ req' = [req EXCEPT ![k] = g]
  BY <1>c DEF Send
<1>d. ASSUME NEW at \in Waiting, NEW answers, NEW next, Receive(m, at, answers, next)
      PROVE  \E k \in Req : \E g : g.at \notin Unconsumed /\ req' = [req EXCEPT ![k] = g]
  BY <1>a, <1>b, <1>d DEF Receive
<1>e. {"resuming", "preparing", "cancelling", "finalizing"} = Waiting
  BY DEF Waiting
<1>f. \A c : [Free EXCEPT !.at = "fread", !.cred = c].at \notin Unconsumed
  BY DEF Free, Unconsumed
<1>1. CASE Resume(m) \/ Finalize(m)
  BY <1>1, <1>c, <1>f DEF Resume, Finalize
<1>2. CASE Prepare(m)
  <2>. DEFINE h == [Free EXCEPT !.at = "find", !.name = cmd[m].name, !.code = cmd[m].code]
  <2>1. h.at \notin Unconsumed
    BY DEF Free, Unconsumed
  <2>2. Send(m, h, "preparing")
    BY <1>2 DEF Prepare
  <2>. HIDE DEF h
  <2>. QED
    BY <1>c, <2>1, <2>2
<1>3. CASE Cancel(m)
  <2>. DEFINE h == [Free EXCEPT !.at = "cancel", !.cred = slot[m][cmd[m].name]]
  <2>1. h.at \notin Unconsumed
    BY DEF Free, Unconsumed
  <2>2. Send(m, h, "cancelling")
    BY <1>3 DEF Cancel
  <2>. HIDE DEF h
  <2>. QED
    BY <1>c, <2>1, <2>2
<1>4. CASE Resumed(m) \/ Finalized(m) \/ Cancelled(m)
  BY <1>4, <1>d, <1>e DEF Resumed, Finalized, Cancelled
<1>5. CASE Prepared(m)
  BY <1>5, <1>a, <1>b, <1>e DEF Prepared
<1>6. CASE StoreLocal(m) \/ SavePending(m) \/ SaveEnrolled(m)
  BY <1>6 DEF StoreLocal, SavePending, SaveEnrolled
<1>7. CASE Reject(m) \/ SaveFails(m) \/ Unreached(m)
  BY <1>7 DEF Reject, SaveFails, Unreached
<1>8. ASSUME cmd[m].at \in Waiting, Abandoned(cmd[m].req)
      PROVE  \/ UNCHANGED req
             \/ \E k \in Req : \E h : h.at \notin Unconsumed /\ req' = [req EXCEPT ![k] = h]
  <2>1. CASE req[cmd[m].req].at = "answered"
    BY <1>8, <1>a, <1>b, <2>1 DEF Abandoned
  <2>2. CASE req[cmd[m].req].at # "answered"
    BY <1>8, <2>2 DEF Abandoned, TypeInv, RequestInv
  <2>. QED
    BY <2>1, <2>2
<1>9. CASE Lose(m)
  BY <1>9, <1>8, <1>a, <1>b DEF Lose
<1>10. CASE Crash(m)
  BY <1>10, <1>8 DEF Crash
<1>11. CASE \E n \in Name, c \in Code : Enroll(m, n, c)
  BY <1>11 DEF Enroll
<1>. QED
  BY <1>1, <1>2, <1>3, <1>4, <1>5, <1>6, <1>7, <1>9, <1>10, <1>11 DEF MachineStep

\* The steps of machines leave the source's tables alone.
LEMMA MachineTables ==
  ASSUME NEW m \in Machine,
         \/ MachineStep(m) \/ Reject(m) \/ SaveFails(m) \/ Unreached(m)
         \/ Lose(m) \/ Crash(m) \/ \E n \in Name, c \in Code : Enroll(m, n, c)
  PROVE  UNCHANGED source
BY DEF MachineStep, Resume, Resumed, Prepare, Prepared, StoreLocal, SavePending, Finalize,
       Finalized, SaveEnrolled, Cancel, Cancelled, Reject, SaveFails, Unreached, Lose,
       Crash, Enroll

\* Every step keeps CredInv.
LEMMA NextCred ==
  ASSUME TypeInv, CredInv, [Next]_vars
  PROVE  CredInv'
<1>1. CASE Operator \/ \E c \in Code : Expire(c)
  BY <1>1, OperatorCred
<1>2. ASSUME NEW k \in Req, HandlerStep(k) \/ RequestFails(k) PROVE CredInv'
  BY <1>2, HandlerCred
<1>3. ASSUME NEW m \in Machine,
             \/ MachineStep(m) \/ Reject(m) \/ SaveFails(m) \/ Unreached(m)
             \/ Lose(m) \/ Crash(m) \/ \E n \in Name, c \in Code : Enroll(m, n, c)
      PROVE  CredInv'
  <2>1. UNCHANGED <<pend, activated>>
    BY <1>3, MachineTables DEF source
  <2>2. \A k \in Req : req'[k].at \in Unconsumed
                         => req[k].at \in Unconsumed /\ req'[k].cred = req[k].cred
    BY <1>3, MachineRequests, QuietReplace DEF TypeInv
  <2>. QED
    BY <2>1, <2>2, QuietCred
<1>4. CASE Restart
  <2>1. \A k \in Req : req'[k].at \notin Unconsumed
    BY <1>4 DEF Restart, Free, Unconsumed
  <2>2. \A n \in Name : pend'[n].cred = 0
    BY <1>4 DEF Restart, NoRow
  <2>. QED
    BY <1>4, <2>1, <2>2, QuietCred DEF Restart
<1>5. CASE UNCHANGED vars
  BY <1>5, QuietCred DEF vars
<1>. QED
  BY <1>1, <1>2, <1>3, <1>4, <1>5 DEF Next

\* A step of the system is a step of Membership, or changes none of its tables.
LEMMA NextMembership ==
  ASSUME TypeInv, CredInv, [Next]_vars
  PROVE  [MembershipTables!Next]_(MembershipTables!members)
<1>. USE DEF MembershipTables!members
<1>1. ASSUME NEW c \in Code, Issue(c) PROVE MembershipTables!Next
  BY <1>1 DEF Issue, MembershipTables!Next, MembershipTables!Issue
<1>2. ASSUME NEW c \in Code, Expire(c) PROVE MembershipTables!Next
  BY <1>2 DEF Expire, MembershipTables!Next, MembershipTables!Expire
<1>3. ASSUME NEW n \in Name, Revoke(n) PROVE MembershipTables!Next
  BY <1>3 DEF Revoke, MembershipTables!Next, MembershipTables!Revoke
<1>4. ASSUME NEW k \in Req, FinalizeEnrollment(k)
      PROVE  MembershipTables!Next \/ UNCHANGED <<invite, fol, activated>>
  <2>. DEFINE h == req[k]
              row == pend[h.name]
  <2>1. CASE ~(row.cred = h.cred /\ Finalizable(h))
    BY <1>4, <2>1 DEF FinalizeEnrollment, tables
  <2>2. CASE row.cred = h.cred /\ Finalizable(h)
    <3>1. h.name \in Name /\ h.cred # 0 /\ h.cred \in 0..MaxCred
      BY <1>4 DEF FinalizeEnrollment, TypeInv, RequestInv, GoodHandler, Handler
    <3>2. h.cred \in 1..MaxCred
      BY <3>1, EnrollmentAssumption
    <3>3. row.code \in Code /\ h.cred \notin activated
      BY <2>2, <3>1 DEF CredInv, RowInv
    <3>4. MembershipTables!Admit(h.name, row.code, h.cred)
      BY <1>4, <2>2, <3>3 DEF FinalizeEnrollment, Finalizable, SpendInvitation,
                              MembershipTables!Admit
    <3>. QED
      BY <3>1, <3>2, <3>3, <3>4 DEF MembershipTables!Next
  <2>. QED
    BY <2>1, <2>2
<1>5. ASSUME NEW k \in Req, HandlerStep(k) \/ RequestFails(k), ~FinalizeEnrollment(k)
      PROVE  UNCHANGED <<invite, fol, activated>>
  BY <1>5 DEF HandlerStep, Find, Identity, StoreCredential, ListPending, CancelStale,
              DropStale, Consume, DropOwn, DropPrevious, FinalizeRead, FinalizeActive,
              CancelPending, RequestFails, source, tables
<1>6. ASSUME NEW m \in Machine,
             \/ MachineStep(m) \/ Reject(m) \/ SaveFails(m) \/ Unreached(m)
             \/ Lose(m) \/ Crash(m) \/ \E n \in Name, c \in Code : Enroll(m, n, c)
      PROVE  UNCHANGED <<invite, fol, activated>>
  BY <1>6, MachineTables DEF source
<1>7. CASE Restart
  BY <1>7 DEF Restart
<1>8. ASSUME NEW what, OpenRepository(what) PROVE UNCHANGED <<invite, fol, activated>>
  BY <1>8 DEF OpenRepository
<1>9. CASE EndCommand
  BY <1>9 DEF EndCommand, tables
<1>10. CASE UNCHANGED vars
  BY <1>10 DEF vars
<1>. QED
  BY <1>1, <1>2, <1>3, <1>4, <1>5, <1>6, <1>7, <1>8, <1>9, <1>10 DEF Next, Operator

\* Enrollment implements Membership: with any number of machines, commands that
\* die, requests that are lost or outlive their client, and databases reopened
\* beside the server, an invitation admits at most one follower, before it
\* expires, with a credential that never was active, and displaces nobody.
THEOREM ImplementsMembership == Spec => MembershipSpec
<1>1. Init => CredInv
  BY DEF Init, CredInv, RowInv, HolderInv, Unconsumed, NoRow, Free
<1>2. Init => MembershipTables!Init
  BY DEF Init, MembershipTables!Init
<1>. QED
  BY <1>1, <1>2, InitType, NextType, NextCred, NextMembership, PTL
     DEF Spec, MembershipSpec, MembershipTables!Spec

----------------------------------------------------------------------------
(* An enrolled machine was confirmed by the source. *)

Finalizing == {"fread", "factive", "ftxn"}

\* What machine m is told. The request it waits for is its own and carries the
\* credential it holds, and an affirmative answer to a finalize is true.
ToldInv(m) ==
  LET h == req[cmd[m].req] IN
  /\ cmd[m].at \in Waiting => h.at # "free"
  /\ cmd[m].at \in {"resuming", "finalizing"} =>
       /\ h.at \in Finalizing \cup {"answered"}
       /\ h.cred = Held(m)
       /\ h.at = "answered" /\ h.res = "ok" => Held(m) \in activated
  /\ cmd[m].at = "clear" => Held(m) \in activated

\* No two machines wait for the same request.
OwnInv == \A m, o \in Machine : cmd[m].req # 0 /\ cmd[m].req = cmd[o].req => m = o

ActiveInv == \A n \in Name : fol[n].active => fol[n].cred \in activated

MatchInv == OwnInv /\ ActiveInv /\ \A m \in Machine : ToldInv(m)

\* A handler's step keeps MatchInv if its answer, in case it is a finalize, is
\* the truth about the credential it was given.
LEMMA HandlerMatch ==
  ASSUME TypeInv, MatchInv, NEW k \in Req, UNCHANGED follower, ActiveInv',
         activated \subseteq activated',
         \A j \in Req \ {k} : req'[j] = req[j],
         Awaited(k) => req'[k].at # "free",
         req[k].at # "answered",
         req[k].at \in Finalizing =>
           /\ Awaited(k) => req'[k].at \in Finalizing \cup {"answered"}
           /\ Awaited(k) => req'[k].cred = req[k].cred
           /\ req'[k].at = "answered" /\ req'[k].res = "ok" => req[k].cred \in activated'
  PROVE  MatchInv'
<1>1. UNCHANGED <<cmd, conf, slot>>
  BY DEF follower
<1>2. OwnInv'
  BY <1>1 DEF MatchInv, OwnInv
<1>3. ASSUME NEW m \in Machine PROVE ToldInv(m)'
  <2>. DEFINE j == cmd[m].req
  <2>1. Held(m)' = Held(m) /\ cmd'[m] = cmd[m]
    BY <1>1 DEF Held
  <2>2. cmd[m].at \in Waiting => j \in Req
    BY EnrollmentAssumption DEF TypeInv, CommandInv, GoodCommand, Command, Req
  <2>3. {"resuming", "finalizing"} \subseteq Waiting
    BY DEF Waiting
  <2>4. ToldInv(m)
    BY DEF MatchInv
  <2>5. CASE j = k
    <3>1. Awaited(k)
      BY <2>5 DEF Awaited
    <3>. QED
      BY <2>1, <2>2, <2>3, <2>4, <2>5, <3>1 DEF ToldInv
  <2>6. CASE j # k
    <3>1. cmd[m].at \in Waiting => req'[j] = req[j]
      BY <2>2, <2>6
    <3>. QED
      BY <2>1, <2>3, <2>4, <3>1 DEF ToldInv
  <2>. QED
    BY <2>5, <2>6
<1>. QED
  BY <1>2, <1>3 DEF MatchInv

\* Steps of machine m keep MatchInv if what it is told is right afterwards and
\* it touches no request but its own and unused ones.
LEMMA MachineMatch ==
  ASSUME TypeInv, MatchInv, NEW m \in Machine, UNCHANGED source,
         \A o \in Machine \ {m} : cmd'[o] = cmd[o] /\ conf'[o] = conf[o] /\ slot'[o] = slot[o],
         \A j \in Req : j # cmd[m].req /\ req[j].at # "free" => req'[j] = req[j],
         cmd'[m].req # 0 => cmd'[m].req \in Req /\ req[cmd'[m].req].at = "free",
         ToldInv(m)'
  PROVE  MatchInv'
<1>1. ActiveInv'
  BY DEF MatchInv, ActiveInv, source
<1>2. \A o \in Machine : cmd[o].at \in Waiting <=> cmd[o].req # 0
  BY DEF TypeInv, CommandInv, GoodCommand
<1>3. \A o \in Machine : cmd[o].req # 0 => cmd[o].req \in Req /\ req[cmd[o].req].at # "free"
  BY <1>2, EnrollmentAssumption
     DEF MatchInv, ToldInv, TypeInv, CommandInv, GoodCommand, Command, Req
<1>4. OwnInv'
  BY <1>3 DEF MatchInv, OwnInv
<1>5. ASSUME NEW o \in Machine \ {m} PROVE ToldInv(o)'
  <2>1. Held(o)' = Held(o) /\ cmd'[o] = cmd[o] /\ activated' = activated
    BY DEF Held, source
  <2>2. cmd[o].at \in Waiting => req'[cmd[o].req] = req[cmd[o].req]
    BY <1>2, <1>3 DEF MatchInv, OwnInv
  <2>3. {"resuming", "finalizing"} \subseteq Waiting
    BY DEF Waiting
  <2>. QED
    BY <2>1, <2>2, <2>3 DEF MatchInv, ToldInv
<1>. QED
  BY <1>1, <1>4, <1>5 DEF MatchInv

\* A machine whose command ends or goes on without a request is told nothing.
LEMMA MoveMatch ==
  ASSUME TypeInv, MatchInv, NEW m \in Machine, NEW c \in GoodCommand,
         cmd' = [cmd EXCEPT ![m] = c], c.at \notin Waiting \cup {"clear"},
         UNCHANGED source,
         \A j \in Req : j # cmd[m].req => req'[j] = req[j],
         \A o \in Machine \ {m} : conf'[o] = conf[o] /\ slot'[o] = slot[o]
  PROVE  MatchInv'
<1>1. cmd'[m] = c /\ \A o \in Machine \ {m} : cmd'[o] = cmd[o]
  BY DEF TypeInv, CommandInv
<1>2. c.req = 0
  BY DEF GoodCommand
<1>3. ToldInv(m)'
  BY <1>1 DEF ToldInv, Waiting
<1>. QED
  BY <1>1, <1>2, <1>3, MachineMatch

\* A request that is sent is told about truthfully: it is not answered yet.
LEMMA SendMatch ==
  ASSUME TypeInv, MatchInv, NEW m \in Machine, NEW h, h.at \notin {"free", "answered"},
         NEW at \in Waiting, cmd[m].at \notin Waiting, Send(m, h, at),
         at \in {"resuming", "finalizing"} => h.at = "fread" /\ h.cred = Held(m),
         UNCHANGED <<source, conf, slot>>
  PROVE  MatchInv'
<1>1. PICK k \in Req : /\ req[k].at = "free" /\ req' = [req EXCEPT ![k] = h]
                       /\ cmd' = [cmd EXCEPT ![m].at = at, ![m].req = k]
  BY DEF Send
<1>2. cmd'[m].at = at /\ cmd'[m].req = k /\ \A o \in Machine \ {m} : cmd'[o] = cmd[o]
  BY <1>1 DEF TypeInv, CommandInv, GoodCommand, Command
<1>3. req'[k] = h /\ \A j \in Req \ {k} : req'[j] = req[j]
  BY <1>1 DEF TypeInv, RequestInv
<1>4. Held(m)' = Held(m)
  BY DEF Held
<1>5. at # "clear"
  BY DEF Waiting
<1>6. ToldInv(m)'
  BY <1>2, <1>3, <1>4, <1>5 DEF ToldInv, Finalizing
<1>. QED
  BY <1>1, <1>2, <1>3, <1>6, MachineMatch

\* A machine that reads "ok" to its finalize holds a confirmed credential.
LEMMA ClearMatch ==
  ASSUME TypeInv, MatchInv, NEW m \in Machine, NEW at \in {"resuming", "finalizing"},
         Receive(m, at, {"ok"}, "clear"), UNCHANGED <<source, conf, slot>>
  PROVE  MatchInv'
<1>. DEFINE k == cmd[m].req
            c == [cmd[m] EXCEPT !.at = "clear", !.req = 0]
<1>1. k \in Req
  BY EnrollmentAssumption DEF Receive, TypeInv, CommandInv, GoodCommand, Command, Req, Waiting
<1>2. Held(m) \in activated
  BY DEF Receive, MatchInv, ToldInv
<1>3. c.at = "clear" /\ c.req = 0
  BY DEF TypeInv, CommandInv, GoodCommand, Command
<1>4. cmd' = [cmd EXCEPT ![m] = c] /\ req' = [req EXCEPT ![k] = Free]
  BY DEF Receive
<1>. HIDE DEF c
<1>5. cmd'[m] = c /\ \A o \in Machine \ {m} : cmd'[o] = cmd[o]
  BY <1>4 DEF TypeInv, CommandInv
<1>6. \A j \in Req : j # k => req'[j] = req[j]
  BY <1>1, <1>4 DEF TypeInv, RequestInv
<1>7. Held(m)' = Held(m) /\ activated' = activated
  BY DEF Held, source
<1>8. ToldInv(m)'
  BY <1>2, <1>3, <1>5, <1>7 DEF ToldInv, Waiting
<1>. QED
  BY <1>3, <1>5, <1>6, <1>8, MachineMatch

\* Commands and their mishaps keep MatchInv.
LEMMA MachineStepMatch ==
  ASSUME TypeInv, MatchInv, CommandInv', NEW m \in Machine,
         \/ MachineStep(m) \/ Reject(m) \/ SaveFails(m) \/ Unreached(m)
         \/ Lose(m) \/ Crash(m) \/ \E n \in Name, c \in Code : Enroll(m, n, c)
  PROVE  MatchInv'
<1>a. UNCHANGED source
  BY MachineTables
<1>b. cmd \in [Machine -> Command] /\ req \in [Req -> GoodHandler]
      /\ slot \in [Machine -> [Name -> 0..MaxCred]]
      /\ conf \in [Machine -> [kind: {"none", "pending", "enrolled"}, name: Name \cup {None}]]
  BY DEF TypeInv, CommandInv, RequestInv, MachineInv, GoodCommand
<1>c. cmd[m].at \in Waiting => cmd[m].req \in Req
  BY EnrollmentAssumption DEF TypeInv, CommandInv, GoodCommand, Command, Req
<1>1. CASE (Resume(m) /\ Held(m) # 0) \/ Finalize(m)
  <2>. DEFINE h == [Free EXCEPT !.at = "fread", !.cred = Held(m)]
  <2>1. h.at = "fread" /\ h.cred = Held(m)
    BY DEF Free
  <2>2. Send(m, h, "resuming") \/ Send(m, h, "finalizing")
    BY <1>1 DEF Resume, Finalize
  <2>3. cmd[m].at \notin Waiting /\ UNCHANGED <<source, conf, slot>>
    BY <1>1 DEF Resume, Finalize, Waiting
  <2>4. {"resuming", "finalizing"} \subseteq Waiting
    BY DEF Waiting
  <2>. HIDE DEF h
  <2>. QED
    BY <2>1, <2>2, <2>3, <2>4, SendMatch
<1>2. CASE Prepare(m)
  <2>. DEFINE h == [Free EXCEPT !.at = "find", !.name = cmd[m].name, !.code = cmd[m].code]
  <2>1. h.at = "find"
    BY DEF Free
  <2>2. Send(m, h, "preparing") /\ cmd[m].at \notin Waiting /\ UNCHANGED <<source, conf, slot>>
    BY <1>2 DEF Prepare, Waiting
  <2>3. "preparing" \in Waiting
    BY DEF Waiting
  <2>. HIDE DEF h
  <2>. QED
    BY <2>1, <2>2, <2>3, SendMatch
<1>3. CASE Cancel(m)
  <2>. DEFINE h == [Free EXCEPT !.at = "cancel", !.cred = slot[m][cmd[m].name]]
  <2>1. h.at = "cancel"
    BY DEF Free
  <2>2. Send(m, h, "cancelling") /\ cmd[m].at \notin Waiting /\ UNCHANGED <<source, conf, slot>>
    BY <1>3 DEF Cancel, Waiting
  <2>3. "cancelling" \in Waiting
    BY DEF Waiting
  <2>. HIDE DEF h
  <2>. QED
    BY <2>1, <2>2, <2>3, SendMatch
<1>4. CASE Receive(m, "resuming", {"ok"}, "clear") /\ UNCHANGED <<source, conf, slot>>
  BY <1>4, ClearMatch
<1>5. CASE Receive(m, "finalizing", {"ok"}, "clear") /\ UNCHANGED <<source, conf, slot>>
  BY <1>5, ClearMatch
<1>6. ASSUME NEW c, cmd' = [cmd EXCEPT ![m] = c], c.at \notin Waiting \cup {"clear"},
             \A j \in Req : j # cmd[m].req => req'[j] = req[j],
             \A o \in Machine \ {m} : conf'[o] = conf[o] /\ slot'[o] = slot[o]
      PROVE  MatchInv'
  <2>1. c \in GoodCommand
    BY <1>6, <1>b DEF CommandInv
  <2>. QED
    BY <1>6, <1>a, <2>1, MoveMatch
<1>7. Idle.at \notin Waiting \cup {"clear"}
  BY DEF Idle, Waiting
<1>8. \A at \in CmdAt : \A k : /\ [cmd[m] EXCEPT !.at = at].at = at
                               /\ [cmd[m] EXCEPT !.at = at, !.req = 0].at = at
                               /\ [cmd[m] EXCEPT !.at = at, !.cred = k].at = at
                               /\ [cmd[m] EXCEPT !.at = at, !.cred = k, !.req = 0].at = at
  BY <1>b DEF Command
<1>9. CASE (Resume(m) /\ Held(m) = 0) \/ SavePending(m) \/ Reject(m)
  <2>1. PICK at \in {"prepare", "finalize", "cancel"} :
          cmd' = [cmd EXCEPT ![m] = [cmd[m] EXCEPT !.at = at]]
    BY <1>9 DEF Resume, SavePending, Reject, Command0
  <2>2. UNCHANGED <<req, slot>> /\ \A o \in Machine \ {m} : conf'[o] = conf[o]
    BY <1>9, <1>b DEF Resume, SavePending, Reject
  <2>3. at \in CmdAt /\ at \notin Waiting \cup {"clear"}
    BY DEF CmdAt, Waiting
  <2>. DEFINE c == [cmd[m] EXCEPT !.at = at]
  <2>4. c.at = at
    BY <1>8, <2>3
  <2>5. cmd' = [cmd EXCEPT ![m] = c]
    BY <2>1
  <2>. HIDE DEF c
  <2>. QED
    BY <1>6, <2>2, <2>3, <2>4, <2>5
<1>10. CASE StoreLocal(m)
  <2>1. \A o \in Machine \ {m} : slot'[o] = slot[o]
    BY <1>10, <1>b DEF StoreLocal
  <2>2. "save" \in CmdAt /\ "save" \notin Waiting \cup {"clear"}
    BY DEF CmdAt, Waiting
  <2>. DEFINE c == [cmd[m] EXCEPT !.at = "save", !.cred = 0]
  <2>3. c.at = "save"
    BY <1>8, <2>2
  <2>4. cmd' = [cmd EXCEPT ![m] = c] /\ UNCHANGED <<req, conf>>
    BY <1>10 DEF StoreLocal
  <2>. HIDE DEF c
  <2>. QED
    BY <1>6, <2>1, <2>2, <2>3, <2>4
<1>11. CASE Prepared(m)
  <2>. DEFINE k == cmd[m].req
              c == IF req[k].res = "ok"
                   THEN [cmd[m] EXCEPT !.at = "store", !.cred = req[k].cred, !.req = 0]
                   ELSE Idle
  <2>1. "store" \in CmdAt /\ "store" \notin Waiting \cup {"clear"}
    BY DEF CmdAt, Waiting
  <2>2. c.at \notin Waiting \cup {"clear"}
    BY <1>7, <1>8, <2>1
  <2>3. cmd' = [cmd EXCEPT ![m] = c] /\ req' = [req EXCEPT ![k] = Free]
        /\ UNCHANGED <<conf, slot>>
    BY <1>11 DEF Prepared
  <2>4. \A j \in Req : j # k => req'[j] = req[j]
    BY <1>b, <2>3
  <2>. HIDE DEF c
  <2>. QED
    BY <1>6, <2>2, <2>3, <2>4
<1>12. ASSUME NEW at, NEW answers, NEW next \in {"idle", "prepare"},
              Receive(m, at, answers, next), UNCHANGED conf,
              \A o \in Machine \ {m} : slot'[o] = slot[o]
       PROVE  MatchInv'
  <2>. DEFINE k == cmd[m].req
              c == IF next = "idle" THEN Idle ELSE [cmd[m] EXCEPT !.at = next, !.req = 0]
  <2>1. next \in CmdAt /\ next \notin Waiting \cup {"clear"}
    BY DEF CmdAt, Waiting
  <2>2. c.at \notin Waiting \cup {"clear"}
    BY <1>7, <1>8, <2>1
  <2>3. cmd' = [cmd EXCEPT ![m] = c] /\ req' = [req EXCEPT ![k] = Free]
    BY <1>12 DEF Receive
  <2>4. \A j \in Req : j # k => req'[j] = req[j]
    BY <1>b, <2>3
  <2>. HIDE DEF c
  <2>. QED
    BY <1>6, <1>12, <2>2, <2>3, <2>4
<1>13. CASE Resumed(m) \/ Finalized(m) \/ Cancelled(m)
  <2>1. UNCHANGED conf /\ \A o \in Machine \ {m} : slot'[o] = slot[o]
    BY <1>13, <1>b DEF Resumed, Finalized, Cancelled, Forget
  <2>. QED
    BY <1>4, <1>5, <1>12, <1>13, <2>1 DEF Resumed, Finalized, Cancelled
<1>14. CASE SaveEnrolled(m)
  <2>1. \A o \in Machine \ {m} : conf'[o] = conf[o]
    BY <1>14, <1>b DEF SaveEnrolled
  <2>. QED
    BY <1>6, <1>7, <1>14, <2>1 DEF SaveEnrolled
<1>15. CASE SaveFails(m)
  <2>1. CASE cmd[m].at = "save"
    <3>. DEFINE c == [cmd[m] EXCEPT !.at = "cancel"]
    <3>1. "cancel" \in CmdAt /\ "cancel" \notin Waiting \cup {"clear"}
      BY DEF CmdAt, Waiting
    <3>2. c.at = "cancel"
      BY <1>8, <3>1
    <3>3. cmd' = [cmd EXCEPT ![m] = c] /\ UNCHANGED <<req, conf, slot>>
      BY <1>15, <2>1 DEF SaveFails
    <3>. HIDE DEF c
    <3>. QED
      BY <1>6, <3>1, <3>2, <3>3
  <2>2. CASE cmd[m].at # "save"
    BY <1>6, <1>7, <1>15, <2>2 DEF SaveFails
  <2>. QED
    BY <2>1, <2>2
<1>16. CASE Unreached(m)
  BY <1>6, <1>7, <1>16 DEF Unreached
<1>17. CASE Lose(m)
  <2>1. \A o \in Machine \ {m} : slot'[o] = slot[o]
    BY <1>17, <1>b DEF Lose, AfterFailure
  <2>2. \A j \in Req : j # cmd[m].req => req'[j] = req[j]
    BY <1>17, <1>b DEF Lose, Abandoned
  <2>. QED
    BY <1>6, <1>7, <1>17, <2>1, <2>2 DEF Lose
<1>18. CASE Crash(m)
  <2>1. \A j \in Req : j # cmd[m].req => req'[j] = req[j]
    BY <1>18, <1>b DEF Crash, Abandoned
  <2>. QED
    BY <1>6, <1>7, <1>18, <2>1 DEF Crash
<1>19. ASSUME NEW n \in Name, NEW i \in Code, Enroll(m, n, i) PROVE MatchInv'
  <2>. DEFINE at == IF conf[m].kind = "pending" THEN "resume" ELSE "prepare"
              c == [Idle EXCEPT !.at = at, !.name = n, !.code = i]
  <2>1. c.at \in {"resume", "prepare"}
    BY DEF Idle
  <2>2. c.at \notin Waiting \cup {"clear"}
    BY <2>1 DEF Waiting
  <2>3. cmd' = [cmd EXCEPT ![m] = c] /\ UNCHANGED <<req, conf>>
    BY <1>19 DEF Enroll
  <2>4. \A o \in Machine \ {m} : slot'[o] = slot[o]
    BY <1>19, <1>b DEF Enroll, Forget
  <2>. HIDE DEF c
  <2>. QED
    BY <1>6, <2>2, <2>3, <2>4
<1>. QED
  BY <1>1, <1>2, <1>3, <1>9, <1>10, <1>11, <1>13, <1>14, <1>15, <1>16, <1>17, <1>18, <1>19
     DEF MachineStep

\* What a handler that finishes leaves behind.
LEMMA FinishTold ==
  ASSUME TypeInv, NEW k \in Req, NEW a, Finish(k, a)
  PROVE  /\ \A j \in Req \ {k} : req'[j] = req[j]
         /\ Awaited(k) => req'[k].at = "answered" /\ req'[k].cred = req[k].cred
         /\ req'[k].at = "answered" => req'[k].res = a
BY DEF Finish, Free, TypeInv, RequestInv

\* What a handler that goes on leaves behind.
LEMMA GotoTold ==
  ASSUME TypeInv, NEW k \in Req, NEW at, Goto(k, at)
  PROVE  /\ \A j \in Req \ {k} : req'[j] = req[j]
         /\ req'[k].at = at /\ req'[k].cred = req[k].cred
BY DEF Goto, TypeInv, RequestInv, GoodHandler, Handler

\* Handlers keep MatchInv: only finalize requests make promises.
LEMMA HandlerStepMatch ==
  ASSUME TypeInv, MatchInv, NEW k \in Req, HandlerStep(k) \/ RequestFails(k)
  PROVE  MatchInv'
<1>a. UNCHANGED follower
  BY DEF HandlerStep, Find, Identity, StoreCredential, ListPending, CancelStale, DropStale,
         Consume, DropOwn, DropPrevious, FinalizeRead, FinalizeActive, FinalizeEnrollment,
         CancelPending, RequestFails
<1>b. req \in [Req -> Handler]
  BY DEF TypeInv, RequestInv, GoodHandler
<1>. DEFINE Others == \A j \in Req \ {k} : req'[j] = req[j]
            Stays == Awaited(k) => req'[k].at # "free"
<1>1. CASE \/ Find(k) \/ Identity(k) \/ StoreCredential(k) \/ ListPending(k)
           \/ CancelStale(k) \/ DropStale(k) \/ Consume(k) \/ DropOwn(k) \/ DropPrevious(k)
           \/ CancelPending(k)
  <2>1. req[k].at \notin Finalizing \cup {"answered"}
    BY <1>1 DEF Find, Identity, StoreCredential, ListPending, CancelStale, DropStale,
                Consume, DropOwn, DropPrevious, CancelPending, Finalizing
  <2>2. UNCHANGED <<fol, activated>>
    BY <1>1 DEF Find, Identity, StoreCredential, ListPending, CancelStale, DropStale,
                Consume, DropOwn, DropPrevious, CancelPending, source, tables
  <2>3. ASSUME NEW at \in HandlerAt \ {"free"}, NEW g, g.at = at, req' = [req EXCEPT ![k] = g]
        PROVE  Others /\ Stays
    BY <2>3, <1>b
  <2>4. ASSUME NEW a, Finish(k, a) PROVE Others /\ Stays
    BY <2>4, FinishTold
  <2>5. ASSUME NEW at \in HandlerAt \ {"free"}, Goto(k, at) PROVE Others /\ Stays
    BY <2>5, GotoTold
  <2>6. CASE Find(k) \/ CancelStale(k) \/ Consume(k) \/ DropOwn(k) \/ DropPrevious(k)
             \/ CancelPending(k)
    BY <1>a, <2>1, <2>2, <2>4, <2>5, <2>6, HandlerMatch
       DEF Find, CancelStale, Consume, DropOwn, DropPrevious, CancelPending, HandlerAt,
           MatchInv, ActiveInv
  <2>7. CASE Identity(k) \/ StoreCredential(k) \/ ListPending(k) \/ DropStale(k)
    <3>1. Others /\ Stays
      <4>1. CASE Identity(k)
        <5>. DEFINE g == [req[k] EXCEPT !.at = "store", !.prev = fol[req[k].name].cred]
        <5>1. g.at = "store" /\ "store" \in HandlerAt \ {"free"}
          BY <1>b DEF Handler, HandlerAt
        <5>2. Finish(k, "refused") \/ req' = [req EXCEPT ![k] = g]
          BY <4>1 DEF Identity
        <5>. HIDE DEF g
        <5>. QED
          BY <2>3, <2>4, <5>1, <5>2
      <4>2. CASE StoreCredential(k)
        <5>1. CASE ~Finish(k, "refused")
          <6>1. PICK c : req' = [req EXCEPT ![k].at = "list", ![k].cred = c,
                                            ![k].fresh = invite[req[k].code] = "open"]
            BY <4>2, <5>1 DEF StoreCredential
          <6>2. req'[k].at = "list"
            BY <6>1, <1>b DEF Handler
          <6>3. Others
            BY <6>1, <1>b
          <6>. QED
            BY <6>2, <6>3
        <5>. QED
          BY <2>4, <5>1
      <4>3. CASE ListPending(k)
        <5>. DEFINE g == [req[k] EXCEPT !.at = "unpend", !.stale = pend[req[k].name].cred]
        <5>1. g.at = "unpend" /\ {"unpend", "consume"} \subseteq HandlerAt \ {"free"}
          BY <1>b DEF Handler, HandlerAt
        <5>2. Goto(k, "consume") \/ Finish(k, "refused") \/ req' = [req EXCEPT ![k] = g]
          BY <4>3 DEF ListPending
        <5>. HIDE DEF g
        <5>. QED
          BY <2>3, <2>4, <2>5, <5>1, <5>2
      <4>4. CASE DropStale(k)
        <5>. DEFINE g == [req[k] EXCEPT !.at = "consume", !.stale = 0]
        <5>1. g.at = "consume" /\ "consume" \in HandlerAt \ {"free"}
          BY <1>b DEF Handler, HandlerAt
        <5>2. req' = [req EXCEPT ![k] = g]
          BY <4>4 DEF DropStale
        <5>. HIDE DEF g
        <5>. QED
          BY <2>3, <5>1, <5>2
      <4>. QED
        BY <2>7, <4>1, <4>2, <4>3, <4>4
    <3>. QED
      BY <1>a, <2>1, <2>2, <3>1, HandlerMatch DEF MatchInv, ActiveInv
  <2>. QED
    BY <1>1, <2>6, <2>7
<1>2. CASE FinalizeRead(k)
  <2>1. req[k].at = "fread" /\ UNCHANGED <<fol, activated>>
    BY <1>2 DEF FinalizeRead, source
  <2>2. req'[k].at \in {"ftxn", "factive"} /\ req'[k].cred = req[k].cred /\ Others
    BY <1>2, <1>b DEF FinalizeRead, Goto, Handler
  <2>. QED
    BY <1>a, <2>1, <2>2, HandlerMatch DEF Finalizing, MatchInv, ActiveInv
<1>3. CASE FinalizeActive(k)
  <2>1. req[k].at = "factive" /\ UNCHANGED <<fol, activated>>
    BY <1>3 DEF FinalizeActive, source
  <2>. DEFINE a == IF ActiveCredential(req[k].cred) THEN "ok" ELSE "invalid"
  <2>2. Finish(k, a)
    BY <1>3 DEF FinalizeActive
  <2>3. a = "ok" => req[k].cred \in activated
    BY DEF ActiveCredential, MatchInv, ActiveInv
  <2>. HIDE DEF a
  <2>4. /\ Others /\ (req'[k].at = "answered" => req'[k].res = a)
        /\ Awaited(k) => req'[k].at = "answered" /\ req'[k].cred = req[k].cred
    BY <2>2, FinishTold
  <2>. QED
    BY <1>a, <2>1, <2>3, <2>4, HandlerMatch DEF Finalizing, MatchInv, ActiveInv
<1>4. CASE FinalizeEnrollment(k)
  <2>. DEFINE h == req[k]
              row == pend[h.name]
              active == fol[h.name] = [cred |-> h.cred, active |-> TRUE]
  <2>1. h.at = "ftxn" /\ h.name \in Name
    BY <1>4 DEF FinalizeEnrollment, TypeInv, RequestInv, GoodHandler
  <2>2. CASE row.cred = h.cred /\ Finalizable(h)
    <3>1. /\ fol' = [fol EXCEPT ![h.name] = [cred |-> h.cred, active |-> TRUE]]
          /\ activated' = activated \cup {h.cred} /\ Finish(k, "ok")
      BY <1>4, <2>2 DEF FinalizeEnrollment
    <3>2. fol'[h.name].cred = h.cred /\ \A n \in Name \ {h.name} : fol'[n] = fol[n]
      BY <2>1, <3>1 DEF TypeInv, SourceInv
    <3>3. ActiveInv'
      BY <3>1, <3>2 DEF MatchInv, ActiveInv
    <3>4. Others /\ (Awaited(k) => req'[k].at = "answered" /\ req'[k].cred = req[k].cred)
      BY <3>1, FinishTold
    <3>. QED
      BY <1>a, <2>1, <3>1, <3>3, <3>4, HandlerMatch DEF Finalizing
  <2>3. CASE ~(row.cred = h.cred /\ Finalizable(h))
    <3>. DEFINE a == IF row.cred # h.cred /\ active THEN "ok" ELSE "refused"
    <3>1. Finish(k, a) /\ UNCHANGED <<fol, activated>>
      BY <1>4, <2>3 DEF FinalizeEnrollment, tables
    <3>2. a = "ok" => h.cred \in activated
      <4>1. active => fol[h.name].active /\ fol[h.name].cred = h.cred
        OBVIOUS
      <4>. QED
        BY <2>1, <4>1 DEF MatchInv, ActiveInv
    <3>. HIDE DEF a
    <3>3. /\ Others /\ (req'[k].at = "answered" => req'[k].res = a)
          /\ Awaited(k) => req'[k].at = "answered" /\ req'[k].cred = req[k].cred
      BY <3>1, FinishTold
    <3>. QED
      BY <1>a, <2>1, <3>1, <3>2, <3>3, HandlerMatch DEF Finalizing, MatchInv, ActiveInv
  <2>. QED
    BY <2>2, <2>3
<1>5. CASE RequestFails(k)
  <2>1. req[k].at # "answered" /\ UNCHANGED <<fol, activated>>
    BY <1>5 DEF RequestFails, tables
  <2>2. CASE req[k].at = "consume"
    <3>1. Goto(k, "drop")
      BY <1>5, <2>2 DEF RequestFails
    <3>. QED
      BY <1>a, <2>1, <2>2, <3>1, GotoTold, HandlerMatch DEF Finalizing, MatchInv, ActiveInv
  <2>3. CASE req[k].at # "consume"
    <3>1. Finish(k, "refused")
      BY <1>5, <2>3 DEF RequestFails
    <3>2. /\ Others /\ (req'[k].at = "answered" => req'[k].res = "refused")
          /\ Awaited(k) => req'[k].at = "answered" /\ req'[k].cred = req[k].cred
      BY <3>1, FinishTold
    <3>. QED
      BY <1>a, <2>1, <3>2, HandlerMatch DEF Finalizing, MatchInv, ActiveInv
  <2>. QED
    BY <2>2, <2>3
<1>. QED
  BY <1>1, <1>2, <1>3, <1>4, <1>5 DEF HandlerStep

\* Every step keeps MatchInv.
LEMMA NextMatch ==
  ASSUME TypeInv, TypeInv', MatchInv, [Next]_vars
  PROVE  MatchInv'
<1>1. ASSUME UNCHANGED <<req, follower, activated>>, ActiveInv' PROVE MatchInv'
  BY <1>1 DEF MatchInv, OwnInv, ToldInv, Held, follower
<1>2. CASE Operator \/ \E c \in Code : Expire(c)
  <2>1. UNCHANGED <<req, follower, activated>>
    BY <1>2 DEF Operator, OpenRepository, Issue, Revoke, EndCommand, Expire, tables
  <2>2. ASSUME NEW n \in Name, Revoke(n) PROVE ActiveInv'
    <3>1. \A o \in Name : fol'[o].cred = fol[o].cred /\ (fol'[o].active => fol[o].active)
      BY <2>2 DEF Revoke, TypeInv, SourceInv
    <3>. QED
      BY <2>1, <3>1 DEF MatchInv, ActiveInv
  <2>3. CASE \A n \in Name : ~Revoke(n)
    <3>1. UNCHANGED fol
      BY <1>2, <2>3 DEF Operator, OpenRepository, Issue, EndCommand, Expire, tables
    <3>. QED
      BY <1>1, <2>1, <3>1 DEF MatchInv, ActiveInv
  <2>. QED
    BY <1>1, <2>1, <2>2, <2>3
<1>3. ASSUME NEW k \in Req, HandlerStep(k) \/ RequestFails(k) PROVE MatchInv'
  BY <1>3, HandlerStepMatch
<1>4. ASSUME NEW m \in Machine,
             \/ MachineStep(m) \/ Reject(m) \/ SaveFails(m) \/ Unreached(m)
             \/ Lose(m) \/ Crash(m) \/ \E n \in Name, c \in Code : Enroll(m, n, c)
      PROVE  MatchInv'
  BY <1>4, MachineStepMatch DEF TypeInv
<1>5. CASE Restart
  <2>1. \A m \in Machine : \/ cmd'[m] = Idle
                           \/ cmd'[m] = cmd[m] /\ cmd[m].at \notin Waiting
    BY <1>5 DEF Restart
  <2>2. Idle.req = 0 /\ Idle.at \notin Waiting \cup {"clear"}
    BY DEF Idle, Waiting
  <2>3. \A m \in Machine : cmd'[m].req = 0 /\ cmd'[m].at \notin Waiting
    BY <2>1, <2>2 DEF TypeInv, CommandInv, GoodCommand
  <2>4. OwnInv' /\ ActiveInv'
    BY <1>5, <2>3 DEF Restart, OwnInv, MatchInv, ActiveInv
  <2>5. ASSUME NEW m \in Machine PROVE ToldInv(m)'
    <3>1. CASE cmd'[m] = Idle
      BY <2>2, <3>1 DEF ToldInv, Waiting
    <3>2. CASE cmd'[m] = cmd[m] /\ cmd[m].at \notin Waiting
      <4>1. cmd[m].at = "clear" => slot'[m] = slot[m]
        BY <1>5 DEF Restart, AfterFailure
      <4>2. cmd[m].at = "clear" => Held(m)' = Held(m) /\ activated' = activated
        BY <1>5, <4>1 DEF Restart, Held
      <4>. QED
        BY <3>2, <4>2 DEF ToldInv, MatchInv, Waiting
    <3>. QED
      BY <2>1, <3>1, <3>2
  <2>. QED
    BY <2>4, <2>5 DEF MatchInv
<1>6. CASE UNCHANGED vars
  <2>1. UNCHANGED <<req, follower, activated>> /\ ActiveInv'
    BY <1>6 DEF vars, follower, MatchInv, ActiveInv
  <2>. QED
    BY <1>1, <2>1
<1>. QED
  BY <1>2, <1>3, <1>4, <1>5, <1>6 DEF Next

\* `follower enroll` reports success, and the machine calls itself enrolled, only
\* when the source has activated the very credential the machine holds, however
\* answers and abandoned requests interleave.
THEOREM ConfirmedEnrollment == Spec => EnrolledIsConfirmed
<1>. DEFINE Confirms == \A m \in Machine :
              conf'[m].kind = "enrolled" /\ conf[m].kind # "enrolled"
                => Held(m)' \in activated'
<1>1. Init => MatchInv
  BY DEF Init, MatchInv, OwnInv, ActiveInv, ToldInv, Idle, Waiting
<1>2. TypeInv /\ MatchInv /\ [Next]_vars => Confirms
  <2>. SUFFICES ASSUME TypeInv, MatchInv, [Next]_vars, NEW m \in Machine,
                       conf'[m].kind = "enrolled", conf[m].kind # "enrolled"
                PROVE  Held(m)' \in activated'
    OBVIOUS
  <2>1. conf' # conf
    OBVIOUS
  <2>2. PICK o \in Machine : SavePending(o) \/ SaveEnrolled(o)
    BY <2>1 DEF Next, vars, Operator, OpenRepository, Issue, Revoke, EndCommand, Expire,
         HandlerStep, Find, Identity, StoreCredential, ListPending, CancelStale, DropStale,
         Consume, DropOwn, DropPrevious, FinalizeRead, FinalizeActive, FinalizeEnrollment,
         CancelPending, RequestFails, MachineStep, Resume, Resumed, Prepare, Prepared,
         StoreLocal, Finalize, Finalized, Cancel, Cancelled, Reject, SaveFails, Unreached,
         Lose, Crash, Enroll, Restart, follower
  <2>3. conf \in [Machine -> [kind: {"none", "pending", "enrolled"}, name: Name \cup {None}]]
    BY DEF TypeInv, MachineInv
  <2>4. CASE SavePending(o)
    BY <2>3, <2>4 DEF SavePending
  <2>5. CASE SaveEnrolled(o)
    <3>1. m = o
      BY <2>3, <2>5 DEF SaveEnrolled
    <3>2. Held(m)' = Held(m) /\ activated' = activated
      BY <2>3, <2>5, <3>1 DEF SaveEnrolled, Held, source
    <3>. QED
      BY <2>5, <3>1, <3>2 DEF SaveEnrolled, MatchInv, ToldInv
  <2>. QED
    BY <2>2, <2>4, <2>5
<1>. QED
  BY <1>1, <1>2, InitType, NextType, NextMatch, PTL DEF Spec, EnrolledIsConfirmed

----------------------------------------------------------------------------
(* An active identity has a machine that can use it. *)

\* A credential that no row has yet is nowhere else.
SoleInv ==
  \A k \in Req : req[k].at \in Unconsumed =>
    /\ \A j \in Req : req[j].cred = req[k].cred => j = k
    /\ \A m \in Machine : cmd[m].cred # req[k].cred
    /\ \A m \in Machine, n \in Name : slot[m][n] # req[k].cred

\* A machine that prepares waits for an enrolling handler of the name it gave.
PrepareInv ==
  \A m \in Machine : cmd[m].at = "preparing" =>
    LET h == req[cmd[m].req] IN
    /\ h.at \in Enrolling \cup {"answered"}
    /\ h.at \in Enrolling => h.name = cmd[m].name

\* Its preparation has succeeded, whether it knows or not.
Granted(m) ==
  LET h == req[cmd[m].req] IN
  cmd[m].at = "preparing" /\ (h.at = "unprev" \/ (h.at = "answered" /\ h.res = "ok"))

\* The credential of a pending row is kept under the name of the row only.
NameInv ==
  \A n \in Name : pend[n].cred # 0 =>
    \A m \in Machine :
      /\ cmd[m].cred = pend[n].cred => cmd[m].name = n
      /\ Granted(m) /\ req[cmd[m].req].cred = pend[n].cred => cmd[m].name = n
      /\ \A o \in Name : slot[m][o] = pend[n].cred => o = n

\* A machine that is to take another name has dropped the credential of its own.
ForgetInv ==
  \A m \in Machine :
    /\ cmd[m].at \in {"prepare", "preparing", "store", "save", "cancel", "cancelling"}
    /\ conf[m].kind # "none" /\ cmd[m].name # conf[m].name
    => Held(m) = 0

\* What a finalize finds invalid has no pending row, and never will.
Gone(c) == c # 0 => \A n \in Name : pend[n].cred # c
DeadInv ==
  /\ \A k \in Req : req[k].at = "factive" => Gone(req[k].cred)
  /\ \A m \in Machine :
       /\ cmd[m].at = "resuming" /\ req[cmd[m].req].at = "answered"
       /\ req[cmd[m].req].res = "invalid"
       => Gone(Held(m)) /\ ~ActiveCredential(Held(m))

\* A row that is being finalized belongs to a machine that remembers it.
Waits(m, n) ==
  /\ conf[m].kind = "pending" /\ conf[m].name = n /\ slot[m][n] = pend[n].cred
  /\ cmd[m].at \in {"idle", "resume", "resuming", "finalize", "finalizing"}
WaitInv ==
  \A n \in Name, k \in Req :
    pend[n].cred # 0 /\ req[k].at \in {"fread", "ftxn"} /\ req[k].cred = pend[n].cred
      => \E m \in Machine : Waits(m, n)

\* An active identity has a holder, and no command of the holder is about to
\* change that.
Clobbers(m, n) ==
  cmd[m].name = n /\ (cmd[m].at \in {"store", "save", "cancel", "cancelling"} \/ Granted(m))
Holds(m, n) ==
  \/ conf[m].kind # "none" /\ conf[m].name = n /\ slot[m][n] = fol[n].cred
  \/ GaveUp(m, n)
KeptInv == \A n \in Name : fol[n].active => \E m \in Machine : Holds(m, n) /\ ~Clobbers(m, n)

HoldInv == SoleInv /\ PrepareInv /\ NameInv /\ ForgetInv /\ DeadInv /\ WaitInv /\ KeptInv

----------------------------------------------------------------------------
(* The moves of a machine's command, as far as HoldInv tells them apart. *)

Acts(m) ==
  \/ MachineStep(m) \/ Reject(m) \/ SaveFails(m) \/ Unreached(m)
  \/ Lose(m) \/ Crash(m) \/ \E n \in Name, c \in Code : Enroll(m, n, c)

Same(m) == conf'[m] = conf[m] /\ slot'[m] = slot[m]

\* The credential under name n becomes c.
Puts(m, n, c) == \A o \in Name : slot'[m][o] = IF o = n THEN c ELSE slot[m][o]

Told(m, a) == req[cmd[m].req].at = "answered" /\ req[cmd[m].req].res = a

\* The command ends: it leaves everything as it is, it has confirmed the
\* configuration, or its cancellation drops the credential.
EndsCommand(m) ==
  /\ cmd'[m].at = "idle" /\ cmd'[m].cred = 0
  /\ \/ Same(m)
     \/ /\ cmd[m].at = "clear" /\ slot'[m] = slot[m]
        /\ conf'[m].kind = "enrolled" /\ conf'[m].name = conf[m].name
     \/ cmd[m].at = "cancelling" /\ conf'[m] = conf[m] /\ Puts(m, cmd[m].name, 0)

\* A command begins; it may give another name up.
BeginsCommand(m) ==
  /\ cmd[m].at = "idle" /\ cmd'[m].cred = 0 /\ conf'[m] = conf[m]
  /\ \/ cmd'[m].at = "resume" /\ conf[m].kind = "pending" /\ slot'[m] = slot[m]
     \/ /\ cmd'[m].at = "prepare" /\ conf[m].kind # "pending"
        /\ IF conf[m].kind = "enrolled" /\ conf[m].name # cmd'[m].name
           THEN Replace /\ Puts(m, conf[m].name, 0)
           ELSE slot'[m] = slot[m]

\* The command sends a request and waits.
Sends(m) ==
  LET h == req'[cmd'[m].req] IN
  /\ cmd'[m].name = cmd[m].name /\ cmd'[m].cred = cmd[m].cred /\ Same(m)
  /\ \/ cmd[m].at = "prepare" /\ cmd'[m].at = "preparing" /\ h.at = "find"
        /\ h.name = cmd[m].name /\ h.cred = 0
     \/ cmd[m].at = "cancel" /\ cmd'[m].at = "cancelling" /\ h.at = "cancel"
        /\ h.cred = slot[m][cmd[m].name]
     \/ /\ \/ cmd[m].at = "resume" /\ cmd'[m].at = "resuming"
           \/ cmd[m].at = "finalize" /\ cmd'[m].at = "finalizing"
        /\ h.at = "fread" /\ h.cred = Held(m)

\* The command goes on without the source, or after an answer.
Proceeds(m) ==
  /\ cmd'[m].name = cmd[m].name
  /\ \/ /\ Same(m) /\ cmd'[m].cred = cmd[m].cred
        /\ \/ cmd[m].at = "resume" /\ cmd'[m].at = "prepare" /\ Held(m) = 0
           \/ cmd[m].at \in {"resuming", "finalizing"} /\ cmd'[m].at = "clear" /\ Told(m, "ok")
           \/ cmd[m].at = "save" /\ cmd'[m].at = "cancel"
     \/ /\ cmd[m].at = "resuming" /\ cmd'[m].at = "prepare" /\ Told(m, "invalid")
        /\ cmd'[m].cred = cmd[m].cred /\ conf'[m] = conf[m] /\ Puts(m, conf[m].name, 0)
     \/ /\ cmd[m].at = "preparing" /\ cmd'[m].at = "store" /\ Told(m, "ok")
        /\ cmd'[m].cred = req[cmd[m].req].cred /\ Same(m)
     \/ /\ cmd[m].at = "store" /\ cmd'[m].at = "save" /\ cmd'[m].cred = 0
        /\ conf'[m] = conf[m] /\ Puts(m, cmd[m].name, cmd[m].cred)
     \/ /\ cmd[m].at = "save" /\ cmd'[m].at = "finalize" /\ cmd'[m].cred = cmd[m].cred
        /\ conf'[m].kind = "pending" /\ conf'[m].name = cmd[m].name /\ slot'[m] = slot[m]

Moves(m) == EndsCommand(m) \/ BeginsCommand(m) \/ Sends(m) \/ Proceeds(m)

\* What the move of machine m leaves alone.
Apart(m) ==
  /\ UNCHANGED <<pend, fol, activated>>
  /\ \A o \in Machine \ {m} : cmd'[o] = cmd[o] /\ conf'[o] = conf[o] /\ slot'[o] = slot[o]
  /\ \A o \in Machine \ {m} : cmd[o].at \in Waiting => req'[cmd[o].req] = req[cmd[o].req]
  /\ \A j \in Req : req'[j] = req[j] \/ req'[j] = Free \/ (Sends(m) /\ j = cmd'[m].req)

\* What every command has while it is under way.
LEMMA CommandFacts ==
  ASSUME TypeInv, NEW m \in Machine
  PROVE  /\ cmd[m].at \in Waiting => cmd[m].req \in Req
         /\ cmd[m].at # "idle" => cmd[m].name \in Name
         /\ cmd[m].at \in {"resume", "resuming", "finalize", "finalizing", "clear"}
              => conf[m].kind = "pending"
         /\ conf[m].kind # "none" => conf[m].name \in Name
         /\ conf[m].kind \in {"none", "pending", "enrolled"}
BY EnrollmentAssumption DEF TypeInv, CommandInv, MachineInv, GoodCommand, Command, Req

\* A move of a machine brings no credential of a handler that is not consumed.
LEMMA MoveSole ==
  ASSUME TypeInv, CredInv, SoleInv, NEW m \in Machine, Moves(m), Apart(m)
  PROVE  SoleInv'
<1>. SUFFICES ASSUME NEW k \in Req, req'[k].at \in Unconsumed
              PROVE  /\ \A j \in Req : req'[j].cred = req'[k].cred => j = k
                     /\ \A o \in Machine : cmd'[o].cred # req'[k].cred
                     /\ \A o \in Machine, n \in Name : slot'[o][n] # req'[k].cred
  BY DEF SoleInv
<1>. DEFINE c == req[k].cred
<1>1. req'[k] = req[k]
  BY DEF Apart, Sends, Unconsumed, Free
<1>2. c # 0
  BY <1>1 DEF CredInv, HolderInv
<1>3. /\ \A j \in Req : req[j].cred = c => j = k
      /\ \A o \in Machine : cmd[o].cred # c
      /\ \A o \in Machine, n \in Name : slot[o][n] # c
  BY <1>1 DEF SoleInv
<1>4. ASSUME NEW j \in Req, req'[j].cred = c PROVE j = k
  <2>1. CASE req'[j] = req[j]
    BY <1>3, <1>4, <2>1
  <2>2. CASE req'[j] = Free
    BY <1>2, <1>4, <2>2 DEF Free
  <2>3. CASE Sends(m) /\ j = cmd'[m].req
    BY <1>2, <1>3, <1>4, <2>3, CommandFacts DEF Sends, Held
  <2>. QED
    BY <2>1, <2>2, <2>3 DEF Apart
<1>5. cmd'[m].cred # c
  <2>1. cmd'[m].cred \in {0, cmd[m].cred} \/ (cmd[m].at = "preparing" /\ Told(m, "ok")
                                               /\ cmd'[m].cred = req[cmd[m].req].cred)
    BY DEF Moves, EndsCommand, BeginsCommand, Sends, Proceeds
  <2>2. CASE cmd[m].at = "preparing" /\ Told(m, "ok") /\ cmd'[m].cred = req[cmd[m].req].cred
    <3>1. cmd[m].req \in Req
      BY <2>2, CommandFacts DEF Waiting
    <3>2. cmd[m].req # k
      BY <2>2, <1>1 DEF Told, Unconsumed
    <3>. QED
      BY <2>2, <3>1, <3>2, <1>3
  <2>. QED
    BY <2>1, <2>2, <1>2, <1>3
<1>6. ASSUME NEW n \in Name PROVE slot'[m][n] # c
  <2>1. slot'[m][n] \in {0, slot[m][n], cmd[m].cred}
    BY DEF Moves, EndsCommand, BeginsCommand, Sends, Proceeds, Same, Puts
  <2>. QED
    BY <2>1, <1>2, <1>3
<1>. QED
  BY <1>1, <1>3, <1>4, <1>5, <1>6 DEF Apart

\* Commands keep PrepareInv.
LEMMA MovePrepare ==
  ASSUME TypeInv, PrepareInv, NEW m \in Machine, Moves(m), Apart(m)
  PROVE  PrepareInv'
<1>. SUFFICES ASSUME NEW o \in Machine, cmd'[o].at = "preparing"
              PROVE  /\ req'[cmd'[o].req].at \in Enrolling \cup {"answered"}
                     /\ req'[cmd'[o].req].at \in Enrolling
                          => req'[cmd'[o].req].name = cmd'[o].name
  BY DEF PrepareInv
<1>1. CASE o = m
  BY <1>1 DEF Moves, EndsCommand, BeginsCommand, Sends, Proceeds, Enrolling
<1>2. CASE o # m
  <2>1. cmd'[o] = cmd[o] /\ req'[cmd[o].req] = req[cmd[o].req]
    BY <1>2 DEF Apart, Waiting
  <2>. QED
    BY <2>1 DEF PrepareInv
<1>. QED
  BY <1>1, <1>2

\* What a machine waits for is as before, unless it is the one that moves.
LEMMA ApartGranted ==
  ASSUME NEW m \in Machine, Apart(m), NEW o \in Machine \ {m}
  PROVE  /\ cmd'[o] = cmd[o] /\ conf'[o] = conf[o] /\ slot'[o] = slot[o]
         /\ Granted(o)' <=> Granted(o)
         /\ Granted(o) => req'[cmd[o].req] = req[cmd[o].req]
BY DEF Apart, Granted, Waiting

\* Commands put the credential of a row under the name of the row.
LEMMA MoveName ==
  ASSUME TypeInv, NameInv, NEW m \in Machine, Moves(m), Apart(m)
  PROVE  NameInv'
<1>. SUFFICES ASSUME NEW n \in Name, pend'[n].cred # 0, NEW o \in Machine
              PROVE  /\ cmd'[o].cred = pend'[n].cred => cmd'[o].name = n
                     /\ Granted(o)' /\ req'[cmd'[o].req].cred = pend'[n].cred => cmd'[o].name = n
                     /\ \A x \in Name : slot'[o][x] = pend'[n].cred => x = n
  BY DEF NameInv
<1>. DEFINE c == pend[n].cred
<1>1. pend' = pend /\ c # 0
  BY DEF Apart
<1>2. /\ cmd[o].cred = c => cmd[o].name = n
      /\ Granted(o) /\ req[cmd[o].req].cred = c => cmd[o].name = n
      /\ \A x \in Name : slot[o][x] = c => x = n
  BY <1>1 DEF NameInv
<1>3. CASE o # m
  BY <1>1, <1>2, <1>3, ApartGranted
<1>4. CASE o = m
  <2>1. cmd'[m].cred = c => cmd'[m].name = n
    <3>1. \/ cmd'[m].cred = 0
          \/ cmd'[m].cred = cmd[m].cred /\ cmd'[m].name = cmd[m].name
          \/ Granted(m) /\ cmd'[m].cred = req[cmd[m].req].cred /\ cmd'[m].name = cmd[m].name
      BY DEF Moves, EndsCommand, BeginsCommand, Sends, Proceeds, Granted, Told
    <3>. QED
      BY <3>1, <1>1, <1>2, <1>4
  <2>2. ~Granted(m)'
    BY DEF Moves, EndsCommand, BeginsCommand, Sends, Proceeds, Granted
  <2>3. ASSUME NEW x \in Name, slot'[m][x] = c PROVE x = n
    <3>1. \/ slot'[m][x] \in {0, slot[m][x]}
          \/ x = cmd[m].name /\ slot'[m][x] = cmd[m].cred
      BY DEF Moves, EndsCommand, BeginsCommand, Sends, Proceeds, Same, Puts
    <3>. QED
      BY <3>1, <2>3, <1>1, <1>2, <1>4
  <2>. QED
    BY <2>1, <2>2, <2>3, <1>1, <1>4
<1>. QED
  BY <1>3, <1>4

\* A machine drops its credential before it prepares for another name.
LEMMA MoveForget ==
  ASSUME TypeInv, ForgetInv, NEW m \in Machine, Moves(m), Apart(m)
  PROVE  ForgetInv'
<1>. DEFINE Late == {"prepare", "preparing", "store", "save", "cancel", "cancelling"}
<1>. SUFFICES ASSUME NEW o \in Machine, cmd'[o].at \in Late, conf'[o].kind # "none",
                     cmd'[o].name # conf'[o].name
              PROVE  slot'[o][conf'[o].name] = 0
  BY DEF ForgetInv, Held
<1>1. CASE o # m
  BY <1>1, ApartGranted DEF ForgetInv, Held
<1>2. CASE o = m
  <2>1. /\ conf'[m] = conf[m] /\ conf[m].name \in Name
        /\ conf[m].kind \in {"pending", "enrolled"}
    BY <1>2, CommandFacts DEF Moves, EndsCommand, BeginsCommand, Sends, Proceeds, Same
  <2>2. CASE BeginsCommand(m)
    BY <1>2, <2>1, <2>2 DEF BeginsCommand, Puts
  <2>3. CASE Sends(m) \/ Proceeds(m)
    <3>1. CASE cmd[m].at \in Late
      <4>1. slot[m][conf[m].name] = 0
        BY <1>2, <2>1, <2>3, <3>1 DEF ForgetInv, Held, Sends, Proceeds
      <4>2. slot'[m][conf[m].name] = slot[m][conf[m].name]
        BY <1>2, <2>1, <2>3, <3>1 DEF Sends, Proceeds, Same, Puts
      <4>. QED
        BY <1>2, <2>1, <4>1, <4>2
    <3>2. CASE cmd[m].at \notin Late
      BY <1>2, <2>1, <2>3, <3>2 DEF Sends, Proceeds, Same, Puts, Held
    <3>. QED
      BY <3>1, <3>2
  <2>. QED
    BY <1>2, <2>2, <2>3 DEF Moves, EndsCommand
<1>. QED
  BY <1>1, <1>2

\* Commands keep DeadInv: they change no row and no answer.
LEMMA MoveDead ==
  ASSUME TypeInv, DeadInv, NEW m \in Machine, Moves(m), Apart(m)
  PROVE  DeadInv'
<1>1. UNCHANGED <<pend, fol>>
  BY DEF Apart
<1>2. ASSUME NEW k \in Req, req'[k].at = "factive" PROVE Gone(req[k].cred)'
  <2>1. req'[k] = req[k]
    BY <1>2 DEF Apart, Sends, Free
  <2>. QED
    BY <1>1, <1>2, <2>1 DEF DeadInv, Gone
<1>3. ASSUME NEW o \in Machine, cmd'[o].at = "resuming", req'[cmd'[o].req].at = "answered",
             req'[cmd'[o].req].res = "invalid"
      PROVE  (Gone(Held(o)) /\ ~ActiveCredential(Held(o)))'
  <2>1. o # m
    BY <1>3 DEF Moves, EndsCommand, BeginsCommand, Sends, Proceeds
  <2>2. cmd'[o] = cmd[o] /\ req'[cmd[o].req] = req[cmd[o].req] /\ Held(o)' = Held(o)
    BY <1>3, <2>1 DEF Apart, Waiting, Held
  <2>. QED
    BY <1>1, <1>3, <2>2 DEF DeadInv, Gone, ActiveCredential
<1>. QED
  BY <1>2, <1>3 DEF DeadInv

\* A finalize is sent by the machine that remembers the row, and what that
\* machine was told keeps it waiting.
LEMMA MoveWait ==
  ASSUME TypeInv, CredInv, MatchInv, NameInv, DeadInv, WaitInv,
         NEW m \in Machine, Moves(m), Apart(m)
  PROVE  WaitInv'
<1>. SUFFICES ASSUME NEW n \in Name, NEW k \in Req, pend'[n].cred # 0,
                     req'[k].at \in {"fread", "ftxn"}, req'[k].cred = pend'[n].cred
              PROVE  \E o \in Machine : Waits(o, n)'
  BY DEF WaitInv
<1>. DEFINE c == pend[n].cred
<1>1. pend' = pend /\ c # 0 /\ c \notin activated
  BY DEF Apart, CredInv, RowInv
<1>2. CASE req'[k] = req[k]
  <2>1. PICK o \in Machine : Waits(o, n)
    BY <1>1, <1>2 DEF WaitInv
  <2>2. CASE o # m
    BY <1>1, <2>1, <2>2 DEF Waits, Apart
  <2>3. CASE o = m
    <3>1. /\ conf[m].kind = "pending" /\ conf[m].name = n /\ slot[m][n] = c
          /\ cmd[m].at \in {"idle", "resume", "resuming", "finalize", "finalizing"}
      BY <2>1, <2>3 DEF Waits
    <3>2. Held(m) = c
      BY <3>1 DEF Held
    <3>3. cmd[m].at \in {"resuming", "finalizing"} => ~Told(m, "ok")
      BY <1>1, <3>2 DEF MatchInv, ToldInv, Told
    <3>4. cmd[m].at = "resuming" => ~Told(m, "invalid")
      BY <1>1, <3>2 DEF DeadInv, Gone, Told
    <3>5. /\ conf'[m] = conf[m] /\ slot'[m] = slot[m]
          /\ cmd'[m].at \in {"idle", "resume", "resuming", "finalize", "finalizing"}
      BY <1>1, <3>1, <3>2, <3>3, <3>4
         DEF Moves, EndsCommand, BeginsCommand, Sends, Proceeds, Same
    <3>. QED
      BY <1>1, <3>1, <3>5 DEF Waits
  <2>. QED
    BY <2>2, <2>3
<1>3. CASE req'[k] # req[k]
  <2>1. Sends(m) /\ k = cmd'[m].req
    BY <1>3 DEF Apart, Free
  <2>2. /\ cmd[m].at \in {"resume", "finalize"} /\ cmd'[m].at \in {"resuming", "finalizing"}
        /\ Held(m) = c /\ Same(m)
    BY <1>1, <2>1 DEF Sends
  <2>3. conf[m].kind = "pending" /\ conf[m].name \in Name
    BY <2>2, CommandFacts
  <2>4. conf[m].name = n
    BY <1>1, <2>2, <2>3 DEF NameInv, Held
  <2>. QED
    BY <1>1, <2>2, <2>3, <2>4 DEF Waits, Same, Held
<1>. QED
  BY <1>2, <1>3

\* A holder that does not give an active identity up by its move keeps it.
LEMMA MoveHolds ==
  ASSUME TypeInv, MatchInv, ForgetInv, DeadInv, NEW m \in Machine, Moves(m),
         NEW n \in Name, fol[n].active, fol'[n] = fol[n], Holds(m, n), ~Clobbers(m, n)
  PROVE  (Holds(m, n) /\ ~Clobbers(m, n))'
<1>. DEFINE c == fol[n].cred
            Mine == conf[m].kind # "none" /\ conf[m].name = n /\ slot[m][n] = c
<1>1. c # 0
  BY EnrollmentAssumption DEF MatchInv, ActiveInv, TypeInv, SourceInv, Cred
<1>2. None # n
  BY EnrollmentAssumption
<1>3. cmd[m].at = "preparing" /\ Told(m, "ok") => cmd[m].name # n
  BY DEF Granted, Clobbers, Told
<1>4. CASE EndsCommand(m)
  <2>1. ~Clobbers(m, n)'
    BY <1>4 DEF EndsCommand, Clobbers, Granted
  <2>2. Holds(m, n)'
    BY <1>4 DEF EndsCommand, Clobbers, Holds, GaveUp, Same, Puts
  <2>. QED
    BY <2>1, <2>2
<1>5. CASE BeginsCommand(m)
  <2>1. ~Clobbers(m, n)'
    BY <1>5 DEF BeginsCommand, Clobbers, Granted
  <2>2. Holds(m, n)'
    BY <1>5 DEF BeginsCommand, Holds, GaveUp, Puts
  <2>. QED
    BY <2>1, <2>2
<1>6. CASE Sends(m)
  <2>1. ~Clobbers(m, n)'
    BY <1>6 DEF Sends, Clobbers, Granted
  <2>2. Holds(m, n)'
    BY <1>6 DEF Sends, Holds, GaveUp, Same
  <2>. QED
    BY <2>1, <2>2
<1>7. CASE Proceeds(m)
  <2>1. ~Clobbers(m, n)'
    BY <1>3, <1>7 DEF Proceeds, Clobbers, Granted
  <2>2. CASE Mine
    <3>1. Held(m) = c
      BY <2>2 DEF Held
    <3>2. ~(cmd[m].at = "resuming" /\ Told(m, "invalid"))
      BY <3>1 DEF DeadInv, Told, ActiveCredential
    <3>3. ~(cmd[m].at = "save" /\ cmd'[m].at = "finalize")
      <4>1. cmd[m].at = "save" => cmd[m].name # n
        BY DEF Clobbers
      <4>. QED
        BY <1>1, <2>2, <3>1, <4>1 DEF ForgetInv
    <3>4. Mine'
      BY <1>1, <1>7, <2>2, <3>1, <3>2, <3>3 DEF Proceeds, Same, Puts, Clobbers
    <3>. QED
      BY <2>1, <3>4 DEF Holds
  <2>3. CASE ~Mine
    <3>1. GaveUp(m, n)
      BY <2>3 DEF Holds
    <3>2. cmd[m].at \in {"store", "save"} => cmd[m].name # n /\ cmd[m].name # None
      BY CommandFacts, EnrollmentAssumption DEF Clobbers
    <3>3. slot'[m][n] = 0
      BY <1>7, <3>1, <3>2 DEF Proceeds, GaveUp, Same, Puts
    <3>4. conf'[m].kind = "enrolled" \/ conf'[m].name \notin {n, None}
      BY <1>7, <3>1, <3>2 DEF Proceeds, GaveUp, Same
    <3>. QED
      BY <2>1, <3>1, <3>3, <3>4 DEF Holds, GaveUp
  <2>. QED
    BY <2>2, <2>3
<1>. QED
  BY <1>4, <1>5, <1>6, <1>7 DEF Moves

\* Commands keep KeptInv.
LEMMA MoveKept ==
  ASSUME TypeInv, MatchInv, ForgetInv, DeadInv, KeptInv, NEW m \in Machine, Moves(m), Apart(m)
  PROVE  KeptInv'
<1>. SUFFICES ASSUME NEW n \in Name, fol'[n].active
              PROVE  \E o \in Machine : (Holds(o, n) /\ ~Clobbers(o, n))'
  BY DEF KeptInv
<1>1. fol' = fol
  BY DEF Apart
<1>2. PICK o \in Machine : Holds(o, n) /\ ~Clobbers(o, n)
  BY <1>1 DEF KeptInv
<1>3. CASE o = m
  BY <1>1, <1>2, <1>3, MoveHolds
<1>4. CASE o # m
  BY <1>1, <1>2, <1>4, ApartGranted DEF Holds, Clobbers, GaveUp
<1>. QED
  BY <1>3, <1>4

\* Commands keep HoldInv.
LEMMA MoveHold ==
  ASSUME TypeInv, CredInv, MatchInv, HoldInv, NEW m \in Machine, Moves(m), Apart(m)
  PROVE  HoldInv'
BY MoveSole, MovePrepare, MoveName, MoveForget, MoveDead, MoveWait, MoveKept DEF HoldInv

----------------------------------------------------------------------------
(* The moves of a handler, as far as HoldInv tells them apart. *)

\* Rows of pending_enrollments disappear at most.
Shrinks == \A n \in Name : pend'[n] = pend[n] \/ pend'[n].cred = 0

\* The handler ends, and who waits for it is answered.
Closes(k) ==
  \/ req'[k] = Free /\ ~Awaited(k)
  \/ /\ req'[k].at = "answered" /\ req'[k].cred = req[k].cred
     /\ req'[k].res = "ok" => req[k].at \in {"unprev", "factive", "ftxn", "cancel"}
     /\ req'[k].res = "invalid" => req[k].at = "factive" /\ ~ActiveCredential(req[k].cred)

EndsHandler(k) == Closes(k) /\ Shrinks /\ fol' = fol

\* The handler goes on: one that enrolls keeps its name, and a finalize that
\* found no row has seen that there is none.
GoesOn(k) ==
  /\ req'[k].cred = req[k].cred /\ Shrinks /\ fol' = fol
  /\ req'[k].at \notin {"free", "answered", "unprev"}
  /\ req'[k].at \in Unconsumed => req[k].at \in Unconsumed
  /\ req[k].at \in Enrolling => req'[k].at \in Enrolling /\ req'[k].name = req[k].name
  /\ req'[k].at = "factive" => pend' = pend /\ Gone(req[k].cred)
  /\ req'[k].at \in {"fread", "ftxn"} => req[k].at = "fread"

\* The handler stores a new credential.
Stores(k) ==
  /\ req[k].at = "store" /\ req'[k].at = "list" /\ req'[k].name = req[k].name
  /\ req'[k].cred \in Fresh /\ pend' = pend /\ fol' = fol

\* The credential passes from the handler to a row of its name.
Consumes(k) ==
  LET n == req[k].name IN
  /\ req[k].at = "consume" /\ req'[k].at = "unprev"
  /\ req'[k].name = n /\ req'[k].cred = req[k].cred
  /\ n \in Name /\ ~fol[n].active /\ fol' = fol
  /\ pend'[n].cred = req[k].cred /\ \A o \in Name \ {n} : pend'[o] = pend[o]

\* The row becomes an active follower.
Finalizes(k) ==
  LET n == req[k].name IN
  /\ req[k].at = "ftxn" /\ Closes(k) /\ (req'[k].at = "answered" => req'[k].res = "ok")
  /\ n \in Name /\ pend[n].cred = req[k].cred /\ req[k].cred # 0
  /\ fol'[n].cred = req[k].cred /\ \A o \in Name \ {n} : fol'[o] = fol[o]
  /\ Shrinks

Handles(k) ==
  /\ UNCHANGED follower /\ \A j \in Req \ {k} : req'[j] = req[j]
  /\ req[k].at \notin {"free", "answered"}
  /\ EndsHandler(k) \/ GoesOn(k) \/ Stores(k) \/ Consumes(k) \/ Finalizes(k)

\* What a handler leaves alone: machines, and the requests of all but itself.
LEMMA HandlesApart ==
  ASSUME TypeInv, NEW k \in Req, Handles(k), NEW m \in Machine
  PROVE  /\ cmd'[m] = cmd[m] /\ conf'[m] = conf[m] /\ slot'[m] = slot[m]
         /\ cmd[m].at \in Waiting /\ cmd[m].req # k => req'[cmd[m].req] = req[cmd[m].req]
         /\ cmd[m].at \in Waiting /\ cmd[m].req = k => Awaited(k)
<1>1. cmd' = cmd /\ conf' = conf /\ slot' = slot
  BY DEF Handles, follower
<1>2. cmd[m].at \in Waiting => cmd[m].req \in Req
  BY CommandFacts
<1>. QED
  BY <1>1, <1>2 DEF Handles, Awaited

\* A handler takes no credential of another one.
LEMMA HandleSole ==
  ASSUME TypeInv, CredInv, SoleInv, NEW k \in Req, Handles(k)
  PROVE  SoleInv'
<1>. SUFFICES ASSUME NEW i \in Req, req'[i].at \in Unconsumed
              PROVE  /\ \A j \in Req : req'[j].cred = req'[i].cred => j = i
                     /\ \A m \in Machine : cmd'[m].cred # req'[i].cred
                     /\ \A m \in Machine, n \in Name : slot'[m][n] # req'[i].cred
  BY DEF SoleInv
<1>1. cmd' = cmd /\ slot' = slot /\ \A j \in Req \ {k} : req'[j] = req[j]
  BY DEF Handles, follower
<1>2. CASE Stores(k)
  <2>1. /\ \A j \in Req : req[j].cred # req'[k].cred
        /\ \A m \in Machine : cmd[m].cred # req'[k].cred
        /\ \A m \in Machine, n \in Name : slot[m][n] # req'[k].cred
    BY <1>2 DEF Stores, Fresh
  <2>. QED
    BY <1>1, <2>1 DEF SoleInv
<1>3. CASE ~Stores(k)
  <2>1. req'[k].cred \in {0, req[k].cred}
    BY <1>3 DEF Handles, EndsHandler, Closes, GoesOn, Consumes, Finalizes, Free
  <2>2. req[i].at \in Unconsumed /\ req'[i].cred = req[i].cred
    BY <1>1, <1>3 DEF Handles, EndsHandler, Closes, GoesOn, Consumes, Finalizes, Free, Unconsumed
  <2>3. req[i].cred # 0
    BY <2>2 DEF CredInv, HolderInv
  <2>. QED
    BY <1>1, <2>1, <2>2, <2>3 DEF SoleInv
<1>. QED
  BY <1>2, <1>3

\* An enrolling handler that goes on keeps its name.
LEMMA HandlePrepare ==
  ASSUME TypeInv, PrepareInv, NEW k \in Req, Handles(k)
  PROVE  PrepareInv'
<1>. SUFFICES ASSUME NEW m \in Machine, cmd[m].at = "preparing"
              PROVE  /\ req'[cmd[m].req].at \in Enrolling \cup {"answered"}
                     /\ req'[cmd[m].req].at \in Enrolling
                          => req'[cmd[m].req].name = cmd[m].name
  BY HandlesApart DEF PrepareInv
<1>1. cmd[m].at \in Waiting
  BY DEF Waiting
<1>2. CASE cmd[m].req # k
  BY <1>1, <1>2, HandlesApart DEF PrepareInv
<1>3. CASE cmd[m].req = k
  <2>1. Awaited(k)
    BY <1>1, <1>3, HandlesApart
  <2>2. /\ req[k].at \in Enrolling \cup {"answered"}
        /\ req[k].at \in Enrolling => req[k].name = cmd[m].name
    BY <1>3 DEF PrepareInv
  <2>3. CASE Closes(k)
    BY <1>3, <2>1, <2>3 DEF Closes, Enrolling
  <2>4. CASE GoesOn(k) \/ Stores(k) \/ Consumes(k)
    BY <1>3, <2>2, <2>4 DEF Handles, GoesOn, Stores, Consumes, Enrolling
  <2>. QED
    BY <2>3, <2>4 DEF Handles, EndsHandler, Finalizes
<1>. QED
  BY <1>2, <1>3

\* A machine that prepares is granted nothing but by the consumption of its own
\* invitation.
LEMMA HandleGranted ==
  ASSUME TypeInv, PrepareInv, NEW k \in Req, Handles(k), NEW m \in Machine, Granted(m)'
  PROVE  \/ Granted(m) /\ req'[cmd[m].req].cred = req[cmd[m].req].cred
         \/ Consumes(k) /\ cmd[m].req = k /\ cmd[m].name = req[k].name
<1>1. cmd'[m] = cmd[m] /\ cmd[m].at = "preparing" /\ cmd[m].at \in Waiting
  BY HandlesApart DEF Granted, Waiting
<1>2. CASE cmd[m].req # k
  BY <1>1, <1>2, HandlesApart DEF Granted
<1>3. CASE cmd[m].req = k
  <2>1. req[k].at \in Enrolling /\ req[k].name = cmd[m].name
    BY <1>1, <1>3 DEF PrepareInv, Handles
  <2>2. CASE Closes(k)
    <3>1. req'[k].at = "answered" /\ req'[k].cred = req[k].cred /\ req'[k].res = "ok"
      BY <1>1, <1>3, <2>2, HandlesApart DEF Closes, Granted
    <3>. QED
      BY <1>1, <1>3, <2>1, <2>2, <3>1, HandlesApart DEF Closes, Granted, Enrolling, Free
  <2>3. CASE GoesOn(k) \/ Stores(k)
    BY <1>1, <1>3, <2>3 DEF GoesOn, Stores, Granted
  <2>4. CASE Consumes(k)
    BY <1>3, <2>1, <2>4
  <2>. QED
    BY <2>2, <2>3, <2>4 DEF Handles, EndsHandler, Finalizes
<1>. QED
  BY <1>2, <1>3

\* A row appears by a consumption only, with the credential of its handler.
LEMMA HandleRows ==
  ASSUME NEW k \in Req, Handles(k), NEW n \in Name
  PROVE  \/ pend'[n] = pend[n]
         \/ pend'[n].cred = 0
         \/ Consumes(k) /\ n = req[k].name /\ pend'[n].cred = req[k].cred
BY DEF Handles, EndsHandler, GoesOn, Stores, Consumes, Finalizes, Shrinks

\* The credential of a new row is nowhere but with its handler.
LEMMA ConsumedAlone ==
  ASSUME SoleInv, NEW k \in Req, Consumes(k)
  PROVE  /\ \A j \in Req : req[j].cred = req[k].cred => j = k
         /\ \A m \in Machine : cmd[m].cred # req[k].cred
         /\ \A m \in Machine, n \in Name : slot[m][n] # req[k].cred
<1>1. req[k].at \in Unconsumed
  BY DEF Consumes, Unconsumed
<1>. QED
  BY <1>1 DEF SoleInv

\* Handlers keep NameInv.
LEMMA HandleName ==
  ASSUME TypeInv, CredInv, SoleInv, PrepareInv, NameInv, NEW k \in Req, Handles(k)
  PROVE  NameInv'
<1>. SUFFICES ASSUME NEW n \in Name, pend'[n].cred # 0, NEW m \in Machine
              PROVE  /\ cmd'[m].cred = pend'[n].cred => cmd'[m].name = n
                     /\ Granted(m)' /\ req'[cmd'[m].req].cred = pend'[n].cred => cmd'[m].name = n
                     /\ \A x \in Name : slot'[m][x] = pend'[n].cred => x = n
  BY DEF NameInv
<1>1. cmd'[m] = cmd[m] /\ slot'[m] = slot[m]
  BY HandlesApart
<1>2. CASE pend'[n] = pend[n]
  <2>1. ASSUME Granted(m)', req'[cmd[m].req].cred = pend[n].cred PROVE cmd[m].name = n
    <3>1. CASE Granted(m) /\ req'[cmd[m].req].cred = req[cmd[m].req].cred
      BY <1>2, <2>1, <3>1 DEF NameInv
    <3>2. CASE Consumes(k) /\ cmd[m].req = k
      <4>1. req[k].cred # pend[n].cred
        BY <3>2 DEF Consumes, CredInv, HolderInv, Unconsumed
      <4>. QED
        BY <2>1, <3>2, <4>1 DEF Consumes
    <3>. QED
      BY <2>1, <3>1, <3>2, HandleGranted
  <2>. QED
    BY <1>1, <1>2, <2>1 DEF NameInv
<1>3. CASE Consumes(k) /\ n = req[k].name /\ pend'[n].cred = req[k].cred
  <2>1. ASSUME Granted(m)', req'[cmd[m].req].cred = req[k].cred PROVE cmd[m].name = n
    <3>1. CASE Granted(m) /\ req'[cmd[m].req].cred = req[cmd[m].req].cred
      <4>1. cmd[m].req \in Req
        BY <3>1, CommandFacts DEF Granted, Waiting
      <4>2. cmd[m].req = k
        BY <1>3, <2>1, <3>1, <4>1, ConsumedAlone
      <4>. QED
        BY <1>3, <3>1, <4>2 DEF Granted, Consumes
    <3>. QED
      BY <1>3, <2>1, <3>1, HandleGranted
  <2>. QED
    BY <1>1, <1>3, <2>1, ConsumedAlone
<1>. QED
  BY <1>2, <1>3, HandleRows

\* No handler brings a credential back that has no row.
LEMMA HandleGone ==
  ASSUME NEW k \in Req, Handles(k), NEW c, Gone(c), Consumes(k) => c # req[k].cred
  PROVE  c # 0 => \A n \in Name : pend'[n].cred # c
<1>1. \A n \in Name : \/ pend'[n] = pend[n] \/ pend'[n].cred = 0
                      \/ Consumes(k) /\ pend'[n].cred = req[k].cred
  BY HandleRows
<1>. QED
  BY <1>1 DEF Gone

\* Handlers keep DeadInv.
LEMMA HandleDead ==
  ASSUME TypeInv, MatchInv, SoleInv, DeadInv, NEW k \in Req, Handles(k)
  PROVE  DeadInv'
<1>1. ASSUME NEW j \in Req, req'[j].at = "factive" PROVE Gone(req[j].cred)'
  <2>1. CASE j = k
    <3>1. GoesOn(k)
      BY <1>1, <2>1 DEF Handles, EndsHandler, Closes, Stores, Consumes, Finalizes, Free
    <3>. QED
      BY <1>1, <2>1, <3>1 DEF GoesOn, Gone
  <2>2. CASE j # k
    <3>1. req'[j] = req[j] /\ Gone(req[j].cred)
      BY <1>1, <2>2 DEF Handles, DeadInv
    <3>2. Consumes(k) => req[j].cred # req[k].cred
      BY <2>2, ConsumedAlone
    <3>3. req[j].cred # 0 => \A n \in Name : pend'[n].cred # req[j].cred
      BY <3>1, <3>2, HandleGone
    <3>. QED
      BY <3>1, <3>3 DEF Gone
  <2>. QED
    BY <2>1, <2>2
<1>2. ASSUME NEW m \in Machine, cmd'[m].at = "resuming", req'[cmd'[m].req].at = "answered",
             req'[cmd'[m].req].res = "invalid"
      PROVE  (Gone(Held(m)) /\ ~ActiveCredential(Held(m)))'
  <2>. DEFINE c == Held(m)
  <2>1. /\ cmd'[m] = cmd[m] /\ cmd[m].at = "resuming" /\ cmd[m].at \in Waiting
        /\ Held(m)' = c /\ conf[m].name \in Name
    BY <1>2, HandlesApart, CommandFacts DEF Waiting, Held
  <2>2. Gone(c) /\ ~ActiveCredential(c)
    <3>1. CASE cmd[m].req # k
      BY <1>2, <2>1, <3>1, HandlesApart DEF DeadInv
    <3>2. CASE cmd[m].req = k
      <4>1. req[k].cred = c
        BY <2>1, <3>2 DEF MatchInv, ToldInv, Handles, Finalizing
      <4>2. req[k].at = "factive" /\ ~ActiveCredential(req[k].cred)
        <5>1. Closes(k) /\ ~Finalizes(k)
          BY <1>2, <2>1, <3>2 DEF Handles, EndsHandler, GoesOn, Stores, Consumes, Finalizes
        <5>. QED
          BY <1>2, <2>1, <3>2, <5>1 DEF Closes, Free
      <4>. QED
        BY <4>1, <4>2 DEF DeadInv
    <3>. QED
      BY <3>1, <3>2
  <2>3. Consumes(k) => c # req[k].cred
    BY <2>1, ConsumedAlone DEF Held
  <2>4. c # 0 => \A n \in Name : pend'[n].cred # c
    BY <2>2, <2>3, HandleGone
  <2>5. ASSUME NEW n \in Name, fol'[n].active, fol'[n].cred = c PROVE FALSE
    <3>1. CASE fol'[n] = fol[n]
      BY <2>2, <2>5, <3>1 DEF ActiveCredential
    <3>2. CASE fol'[n] # fol[n]
      <4>1. Finalizes(k) /\ n = req[k].name
        BY <3>2 DEF Handles, EndsHandler, GoesOn, Stores, Consumes, Finalizes
      <4>2. pend[n].cred = c /\ c # 0
        BY <2>5, <4>1 DEF Finalizes
      <4>. QED
        BY <2>2, <4>2 DEF Gone
    <3>. QED
      BY <3>1, <3>2
  <2>. HIDE DEF c
  <2>. QED
    BY <2>1, <2>4, <2>5 DEF Gone, ActiveCredential
<1>. QED
  BY <1>1, <1>2 DEF DeadInv

\* Handlers keep WaitInv: the credential of a new row is finalized by nobody.
LEMMA HandleWait ==
  ASSUME TypeInv, SoleInv, WaitInv, NEW k \in Req, Handles(k)
  PROVE  WaitInv'
<1>. SUFFICES ASSUME NEW n \in Name, NEW j \in Req, pend'[n].cred # 0,
                     req'[j].at \in {"fread", "ftxn"}, req'[j].cred = pend'[n].cred
              PROVE  \E m \in Machine : Waits(m, n)'
  BY DEF WaitInv
<1>1. req[j].at \in {"fread", "ftxn"} /\ req'[j].cred = req[j].cred
  BY DEF Handles, EndsHandler, Closes, GoesOn, Stores, Consumes, Finalizes, Free
<1>2. pend'[n] = pend[n]
  <2>1. ~(Consumes(k) /\ req[j].cred = req[k].cred)
    BY <1>1, ConsumedAlone DEF Consumes
  <2>. QED
    BY <1>1, <2>1, HandleRows
<1>3. PICK m \in Machine : Waits(m, n)
  BY <1>1, <1>2 DEF WaitInv
<1>. QED
  BY <1>2, <1>3, HandlesApart DEF Waits

\* Handlers keep KeptInv: who waits for a row to be finalized holds the identity.
LEMMA HandleKept ==
  ASSUME TypeInv, PrepareInv, WaitInv, KeptInv, NEW k \in Req, Handles(k)
  PROVE  KeptInv'
<1>. SUFFICES ASSUME NEW n \in Name, fol'[n].active
              PROVE  \E m \in Machine : (Holds(m, n) /\ ~Clobbers(m, n))'
  BY DEF KeptInv
<1>1. CASE fol'[n] = fol[n]
  <2>1. PICK m \in Machine : Holds(m, n) /\ ~Clobbers(m, n)
    BY <1>1 DEF KeptInv
  <2>2. cmd'[m] = cmd[m] /\ conf'[m] = conf[m] /\ slot'[m] = slot[m]
    BY HandlesApart
  <2>3. Holds(m, n)'
    BY <1>1, <2>1, <2>2 DEF Holds, GaveUp
  <2>4. ~(Consumes(k) /\ n = req[k].name)
    BY <1>1 DEF Consumes
  <2>5. ~Clobbers(m, n)'
    BY <2>1, <2>2, <2>4, HandleGranted DEF Clobbers
  <2>. QED
    BY <2>3, <2>5
<1>2. CASE fol'[n] # fol[n]
  <2>1. Finalizes(k) /\ n = req[k].name
    BY <1>2 DEF Handles, EndsHandler, GoesOn, Stores, Consumes, Finalizes
  <2>2. PICK m \in Machine : Waits(m, n)
    BY <2>1 DEF WaitInv, Finalizes
  <2>3. cmd'[m] = cmd[m] /\ conf'[m] = conf[m] /\ slot'[m] = slot[m]
    BY HandlesApart
  <2>4. Holds(m, n)'
    BY <2>1, <2>2, <2>3 DEF Waits, Holds, Finalizes
  <2>5. ~Clobbers(m, n)'
    BY <2>2, <2>3 DEF Waits, Clobbers, Granted
  <2>. QED
    BY <2>4, <2>5
<1>. QED
  BY <1>1, <1>2

\* Handlers keep HoldInv.
LEMMA HandleHold ==
  ASSUME TypeInv, CredInv, MatchInv, HoldInv, NEW k \in Req, Handles(k)
  PROVE  HoldInv'
<1>1. ForgetInv'
  BY DEF HoldInv, ForgetInv, Held, Handles, follower
<1>. QED
  BY <1>1, HandleSole, HandlePrepare, HandleName, HandleDead, HandleWait, HandleKept
     DEF HoldInv

----------------------------------------------------------------------------
(* Every step is one of these moves. *)

\* The steps of machine m leave the others, and what they wait for, alone.
LEMMA MovesApart ==
  ASSUME TypeInv, MatchInv, NEW m \in Machine, UNCHANGED source,
         \A o \in Machine \ {m} : cmd'[o] = cmd[o] /\ conf'[o] = conf[o] /\ slot'[o] = slot[o],
         \A j \in Req : j # cmd[m].req /\ req[j].at # "free" => req'[j] = req[j],
         \A j \in Req : req'[j] = req[j] \/ req'[j] = Free \/ (Sends(m) /\ j = cmd'[m].req)
  PROVE  Apart(m)
<1>1. ASSUME NEW o \in Machine \ {m}, cmd[o].at \in Waiting
      PROVE  req'[cmd[o].req] = req[cmd[o].req]
  <2>1. cmd[o].req \in Req /\ cmd[o].req # 0
    BY <1>1, CommandFacts DEF TypeInv, CommandInv, GoodCommand
  <2>2. req[cmd[o].req].at # "free"
    BY <1>1 DEF MatchInv, ToldInv
  <2>3. cmd[o].req # cmd[m].req
    BY <2>1 DEF MatchInv, OwnInv
  <2>. QED
    BY <2>1, <2>2, <2>3
<1>. QED
  BY <1>1 DEF Apart, source

\* What sending a request does.
LEMMA SendMoves ==
  ASSUME TypeInv, MatchInv, NEW m \in Machine, NEW h, NEW at, Send(m, h, at),
         cmd[m].at \notin Waiting, UNCHANGED <<source, conf, slot>>,
         \/ cmd[m].at = "prepare" /\ at = "preparing" /\ h.at = "find"
            /\ h.name = cmd[m].name /\ h.cred = 0
         \/ cmd[m].at = "cancel" /\ at = "cancelling" /\ h.at = "cancel"
            /\ h.cred = slot[m][cmd[m].name]
         \/ /\ \/ cmd[m].at = "resume" /\ at = "resuming"
               \/ cmd[m].at = "finalize" /\ at = "finalizing"
            /\ h.at = "fread" /\ h.cred = Held(m)
  PROVE  Moves(m) /\ Apart(m)
<1>1. PICK k \in Req : /\ req[k].at = "free" /\ req' = [req EXCEPT ![k] = h]
                       /\ cmd' = [cmd EXCEPT ![m].at = at, ![m].req = k]
  BY DEF Send
<1>2. /\ cmd'[m].at = at /\ cmd'[m].req = k
      /\ cmd'[m].name = cmd[m].name /\ cmd'[m].cred = cmd[m].cred
      /\ \A o \in Machine \ {m} : cmd'[o] = cmd[o]
  BY <1>1 DEF TypeInv, CommandInv, GoodCommand, Command
<1>3. req'[k] = h /\ \A j \in Req \ {k} : req'[j] = req[j]
  BY <1>1 DEF TypeInv, RequestInv
<1>4. Sends(m)
  BY <1>2, <1>3 DEF Sends, Same
<1>. QED
  BY <1>1, <1>2, <1>3, <1>4, MovesApart DEF Moves

\* What is common to the steps that send nothing: the request, if there is one,
\* is closed or abandoned.
LEMMA QuietApart ==
  ASSUME TypeInv, MatchInv, NEW m \in Machine, UNCHANGED source,
         \A o \in Machine \ {m} : cmd'[o] = cmd[o] /\ conf'[o] = conf[o] /\ slot'[o] = slot[o],
         \/ UNCHANGED req
         \/ req' = [req EXCEPT ![cmd[m].req] = Free]
         \/ Abandoned(cmd[m].req)
  PROVE  Apart(m)
<1>1. \A j \in Req : /\ j # cmd[m].req => req'[j] = req[j]
                     /\ req'[j] = req[j] \/ req'[j] = Free
  BY DEF Abandoned, TypeInv, RequestInv
<1>. QED
  BY <1>1, MovesApart

\* What reading an answer does.
LEMMA ReceiveMoves ==
  ASSUME TypeInv, NEW m \in Machine, NEW at, NEW answers, NEW next, Receive(m, at, answers, next)
  PROVE  /\ cmd[m].at = at /\ req[cmd[m].req].at = "answered"
         /\ req[cmd[m].req].res \in answers
         /\ req' = [req EXCEPT ![cmd[m].req] = Free]
         /\ \A o \in Machine \ {m} : cmd'[o] = cmd[o]
         /\ next = "idle" => cmd'[m].at = "idle" /\ cmd'[m].cred = 0
         /\ next # "idle" => /\ cmd'[m].at = next /\ cmd'[m].name = cmd[m].name
                             /\ cmd'[m].cred = cmd[m].cred
<1>1. cmd \in [Machine -> Command]
  BY DEF TypeInv, CommandInv, GoodCommand
<1>2. CASE next = "idle"
  BY <1>1, <1>2 DEF Receive, Idle
<1>3. CASE next # "idle"
  BY <1>1, <1>3 DEF Receive, Command
<1>. QED
  BY <1>2, <1>3

\* Forgetting is putting no credential.
LEMMA ForgetPuts ==
  ASSUME TypeInv, NEW m \in Machine, NEW n, Forget(m, n)
  PROVE  Puts(m, n, 0) /\ \A o \in Machine \ {m} : slot'[o] = slot[o]
BY DEF Forget, Puts, TypeInv, MachineInv

\* Every step of a machine is a move.
LEMMA ActsMove ==
  ASSUME TypeInv, MatchInv, NEW m \in Machine, Acts(m)
  PROVE  Moves(m) /\ Apart(m)
<1>a. UNCHANGED source
  BY MachineTables DEF Acts
<1>b. /\ cmd \in [Machine -> Command] /\ slot \in [Machine -> [Name -> 0..MaxCred]]
      /\ conf \in [Machine -> [kind: {"none", "pending", "enrolled"}, name: Name \cup {None}]]
  BY DEF TypeInv, CommandInv, MachineInv, GoodCommand
<1>c. Idle.at = "idle" /\ Idle.cred = 0
  BY DEF Idle
<1>d. ASSUME NEW at \in CmdAt, Command0(m, at)
      PROVE  /\ cmd'[m].at = at /\ cmd'[m].name = cmd[m].name /\ cmd'[m].cred = cmd[m].cred
             /\ \A o \in Machine \ {m} : cmd'[o] = cmd[o]
  BY <1>b, <1>d DEF Command0, Command
<1>e. ASSUME cmd' = [cmd EXCEPT ![m] = Idle]
      PROVE  /\ cmd'[m].at = "idle" /\ cmd'[m].cred = 0
             /\ \A o \in Machine \ {m} : cmd'[o] = cmd[o]
  BY <1>b, <1>c, <1>e
<1>1. CASE Prepare(m)
  <2>. DEFINE h == [Free EXCEPT !.at = "find", !.name = cmd[m].name, !.code = cmd[m].code]
  <2>1. h.at = "find" /\ h.name = cmd[m].name /\ h.cred = 0
    BY DEF Free
  <2>2. Send(m, h, "preparing") /\ cmd[m].at = "prepare" /\ UNCHANGED <<conf, slot>>
    BY <1>1 DEF Prepare
  <2>3. cmd[m].at \notin Waiting
    BY <2>2 DEF Waiting
  <2>. HIDE DEF h
  <2>. QED
    BY <1>a, <2>1, <2>2, <2>3, SendMoves
<1>2. CASE Cancel(m)
  <2>. DEFINE h == [Free EXCEPT !.at = "cancel", !.cred = slot[m][cmd[m].name]]
  <2>1. h.at = "cancel" /\ h.cred = slot[m][cmd[m].name]
    BY DEF Free
  <2>2. Send(m, h, "cancelling") /\ cmd[m].at = "cancel" /\ UNCHANGED <<conf, slot>>
    BY <1>2 DEF Cancel
  <2>3. cmd[m].at \notin Waiting
    BY <2>2 DEF Waiting
  <2>. HIDE DEF h
  <2>. QED
    BY <1>a, <2>1, <2>2, <2>3, SendMoves
<1>3. CASE Finalize(m) \/ (Resume(m) /\ Held(m) # 0)
  <2>. DEFINE h == [Free EXCEPT !.at = "fread", !.cred = Held(m)]
  <2>1. h.at = "fread" /\ h.cred = Held(m)
    BY DEF Free
  <2>2. /\ UNCHANGED <<conf, slot>>
        /\ \/ Send(m, h, "finalizing") /\ cmd[m].at = "finalize"
           \/ Send(m, h, "resuming") /\ cmd[m].at = "resume"
    BY <1>3 DEF Finalize, Resume
  <2>3. cmd[m].at \notin Waiting
    BY <2>2 DEF Waiting
  <2>. HIDE DEF h
  <2>. QED
    BY <1>a, <2>1, <2>2, <2>3, SendMoves
<1>4. CASE Resume(m) /\ Held(m) = 0
  <2>1. /\ Command0(m, "prepare") /\ cmd[m].at = "resume" /\ UNCHANGED <<req, conf, slot>>
        /\ "prepare" \in CmdAt
    BY <1>4 DEF Resume, CmdAt
  <2>2. Apart(m)
    BY <1>a, <1>d, <2>1, QuietApart
  <2>. QED
    BY <1>4, <1>d, <2>1, <2>2 DEF Moves, Proceeds, Same
<1>5. CASE Resumed(m)
  <2>1. CASE Receive(m, "resuming", {"ok"}, "clear") /\ UNCHANGED <<conf, slot>>
    <3>1. Apart(m)
      BY <1>a, <2>1, ReceiveMoves, QuietApart
    <3>. QED
      BY <2>1, <3>1, ReceiveMoves DEF Moves, Proceeds, Same, Told
  <2>2. CASE Receive(m, "resuming", {"refused"}, "idle") /\ UNCHANGED <<conf, slot>>
    <3>1. Apart(m)
      BY <1>a, <2>2, ReceiveMoves, QuietApart
    <3>. QED
      BY <2>2, <3>1, ReceiveMoves DEF Moves, EndsCommand, Same
  <2>3. CASE Receive(m, "resuming", {"invalid"}, "prepare") /\ Forget(m, conf[m].name)
             /\ UNCHANGED conf
    <3>1. Apart(m)
      BY <1>a, <2>3, ReceiveMoves, ForgetPuts, QuietApart
    <3>. QED
      BY <2>3, <3>1, ReceiveMoves, ForgetPuts DEF Moves, Proceeds, Told
  <2>. QED
    BY <1>5, <2>1, <2>2, <2>3 DEF Resumed
<1>6. CASE Prepared(m)
  <2>. DEFINE k == cmd[m].req
              c == IF req[k].res = "ok"
                   THEN [cmd[m] EXCEPT !.at = "store", !.cred = req[k].cred, !.req = 0]
                   ELSE Idle
  <2>1. /\ cmd[m].at = "preparing" /\ req[k].at = "answered" /\ cmd' = [cmd EXCEPT ![m] = c]
        /\ req' = [req EXCEPT ![k] = Free] /\ UNCHANGED <<conf, slot>>
    BY <1>6 DEF Prepared
  <2>2. IF req[k].res = "ok"
        THEN c.at = "store" /\ c.name = cmd[m].name /\ c.cred = req[k].cred
        ELSE c.at = "idle" /\ c.cred = 0
    BY <1>b, <1>c DEF Command
  <2>. HIDE DEF c
  <2>3. cmd'[m] = c /\ \A o \in Machine \ {m} : cmd'[o] = cmd[o]
    BY <1>b, <2>1
  <2>4. Apart(m)
    BY <1>a, <2>1, <2>3, QuietApart
  <2>. QED
    BY <2>1, <2>2, <2>3, <2>4 DEF Moves, Proceeds, EndsCommand, Same, Told
<1>7. CASE StoreLocal(m)
  <2>1. /\ cmd[m].at = "store" /\ UNCHANGED <<req, conf>>
        /\ slot' = [slot EXCEPT ![m][cmd[m].name] = cmd[m].cred]
        /\ cmd' = [cmd EXCEPT ![m].at = "save", ![m].cred = 0]
    BY <1>7 DEF StoreLocal
  <2>2. /\ cmd'[m].at = "save" /\ cmd'[m].cred = 0 /\ cmd'[m].name = cmd[m].name
        /\ \A o \in Machine \ {m} : cmd'[o] = cmd[o]
    BY <1>b, <2>1 DEF Command
  <2>3. /\ Puts(m, cmd[m].name, cmd[m].cred)
        /\ \A o \in Machine \ {m} : slot'[o] = slot[o]
    BY <1>b, <2>1 DEF Puts
  <2>4. Apart(m)
    BY <1>a, <2>1, <2>2, <2>3, QuietApart
  <2>. QED
    BY <2>1, <2>2, <2>3, <2>4 DEF Moves, Proceeds
<1>8. CASE SavePending(m)
  <2>1. /\ cmd[m].at = "save" /\ UNCHANGED <<req, slot>> /\ Command0(m, "finalize")
        /\ conf' = [conf EXCEPT ![m] = [kind |-> "pending", name |-> cmd[m].name]]
        /\ "finalize" \in CmdAt
    BY <1>8 DEF SavePending, CmdAt
  <2>2. /\ conf'[m].kind = "pending" /\ conf'[m].name = cmd[m].name
        /\ \A o \in Machine \ {m} : conf'[o] = conf[o]
    BY <1>b, <2>1
  <2>3. Apart(m)
    BY <1>a, <1>d, <2>1, <2>2, QuietApart
  <2>. QED
    BY <1>d, <2>1, <2>2, <2>3 DEF Moves, Proceeds
<1>9. CASE Finalized(m)
  <2>1. CASE Receive(m, "finalizing", {"ok"}, "clear") /\ UNCHANGED <<conf, slot>>
    <3>1. Apart(m)
      BY <1>a, <2>1, ReceiveMoves, QuietApart
    <3>. QED
      BY <2>1, <3>1, ReceiveMoves DEF Moves, Proceeds, Same, Told
  <2>2. CASE Receive(m, "finalizing", {"invalid", "refused"}, "idle") /\ UNCHANGED <<conf, slot>>
    <3>1. Apart(m)
      BY <1>a, <2>2, ReceiveMoves, QuietApart
    <3>. QED
      BY <2>2, <3>1, ReceiveMoves DEF Moves, EndsCommand, Same
  <2>. QED
    BY <1>9, <2>1, <2>2 DEF Finalized
<1>10. CASE SaveEnrolled(m)
  <2>1. /\ cmd[m].at = "clear" /\ UNCHANGED <<req, slot>> /\ cmd' = [cmd EXCEPT ![m] = Idle]
        /\ conf' = [conf EXCEPT ![m].kind = "enrolled"]
    BY <1>10 DEF SaveEnrolled
  <2>2. /\ conf'[m].kind = "enrolled" /\ conf'[m].name = conf[m].name
        /\ \A o \in Machine \ {m} : conf'[o] = conf[o]
    BY <1>b, <2>1
  <2>3. Apart(m)
    BY <1>a, <1>e, <2>1, <2>2, QuietApart
  <2>. QED
    BY <1>e, <2>1, <2>2, <2>3 DEF Moves, EndsCommand
<1>11. CASE Cancelled(m)
  <2>1. /\ Receive(m, "cancelling", {"ok", "refused"}, "idle")
        /\ Forget(m, cmd[m].name) /\ UNCHANGED conf
    BY <1>11 DEF Cancelled
  <2>2. Apart(m)
    BY <1>a, <2>1, ReceiveMoves, ForgetPuts, QuietApart
  <2>. QED
    BY <2>1, <2>2, ReceiveMoves, ForgetPuts DEF Moves, EndsCommand
<1>12. CASE Reject(m) \/ (SaveFails(m) /\ cmd[m].at = "save")
  <2>1. /\ cmd[m].at = "save" /\ UNCHANGED <<req, conf, slot>> /\ Command0(m, "cancel")
        /\ "cancel" \in CmdAt
    BY <1>12 DEF Reject, SaveFails, Command0, CmdAt
  <2>2. Apart(m)
    BY <1>a, <1>d, <2>1, QuietApart
  <2>. QED
    BY <1>d, <2>1, <2>2 DEF Moves, Proceeds, Same
<1>13. CASE Unreached(m) \/ (SaveFails(m) /\ cmd[m].at # "save")
  <2>1. UNCHANGED <<req, conf, slot>> /\ cmd' = [cmd EXCEPT ![m] = Idle]
    BY <1>13 DEF Unreached, SaveFails
  <2>2. Apart(m)
    BY <1>a, <1>e, <2>1, QuietApart
  <2>. QED
    BY <1>e, <2>1, <2>2 DEF Moves, EndsCommand, Same
<1>14. CASE Lose(m)
  <2>1. /\ cmd' = [cmd EXCEPT ![m] = Idle] /\ UNCHANGED conf /\ slot' = AfterFailure({m})
        /\ Abandoned(cmd[m].req) \/ req' = [req EXCEPT ![cmd[m].req] = Free]
    BY <1>14 DEF Lose
  <2>2. \A o \in Machine \ {m} : slot'[o] = slot[o]
    BY <1>b, <2>1 DEF AfterFailure
  <2>3. slot'[m] = slot[m] \/ (cmd[m].at = "cancelling" /\ Puts(m, cmd[m].name, 0))
    BY <1>b, <2>1 DEF AfterFailure, Puts
  <2>4. Apart(m)
    BY <1>a, <1>e, <2>1, <2>2, QuietApart
  <2>. QED
    BY <1>e, <2>1, <2>3, <2>4 DEF Moves, EndsCommand, Same
<1>15. CASE Crash(m)
  <2>1. /\ cmd' = [cmd EXCEPT ![m] = Idle] /\ UNCHANGED <<conf, slot>>
        /\ Abandoned(cmd[m].req) \/ UNCHANGED req
    BY <1>15 DEF Crash
  <2>2. Apart(m)
    BY <1>a, <1>e, <2>1, QuietApart
  <2>. QED
    BY <1>e, <2>1, <2>2 DEF Moves, EndsCommand, Same
<1>16. ASSUME NEW n \in Name, NEW i \in Code, Enroll(m, n, i) PROVE Moves(m) /\ Apart(m)
  <2>. DEFINE other == conf[m].kind = "enrolled" /\ conf[m].name # n
              at == IF conf[m].kind = "pending" THEN "resume" ELSE "prepare"
              c == [Idle EXCEPT !.at = at, !.name = n, !.code = i]
  <2>1. /\ cmd[m].at = "idle" /\ cmd' = [cmd EXCEPT ![m] = c] /\ UNCHANGED <<req, conf>>
        /\ IF other THEN Replace /\ Forget(m, conf[m].name) ELSE UNCHANGED slot
    BY <1>16 DEF Enroll
  <2>2. c.at = at /\ c.name = n /\ c.cred = 0
    BY DEF Idle
  <2>. HIDE DEF c
  <2>3. cmd'[m] = c /\ \A o \in Machine \ {m} : cmd'[o] = cmd[o]
    BY <1>b, <2>1
  <2>4. Apart(m)
    BY <1>a, <2>1, <2>3, ForgetPuts, QuietApart
  <2>5. BeginsCommand(m)
    BY <2>1, <2>2, <2>3, ForgetPuts DEF BeginsCommand
  <2>. QED
    BY <2>4, <2>5 DEF Moves
<1>. QED
  BY <1>1, <1>2, <1>3, <1>4, <1>5, <1>6, <1>7, <1>8, <1>9, <1>10, <1>11, <1>12, <1>13,
     <1>14, <1>15, <1>16 DEF Acts, MachineStep

\* A handler that finishes closes its request.
LEMMA FinishCloses ==
  ASSUME TypeInv, NEW k \in Req, NEW a, Finish(k, a),
         a = "ok" => req[k].at \in {"unprev", "factive", "ftxn", "cancel"},
         a = "invalid" => req[k].at = "factive" /\ ~ActiveCredential(req[k].cred)
  PROVE  Closes(k) /\ \A j \in Req \ {k} : req'[j] = req[j]
<1>1. ~Awaited(k) => req'[k] = Free
  BY DEF Finish, TypeInv, RequestInv
<1>2. Awaited(k) => req'[k].at = "answered" /\ req'[k].cred = req[k].cred /\ req'[k].res = a
  BY FinishTold
<1>3. \A j \in Req \ {k} : req'[j] = req[j]
  BY FinishTold
<1>. QED
  BY <1>1, <1>2, <1>3 DEF Closes

\* A handler that goes to another place.
LEMMA GotoOn ==
  ASSUME TypeInv, NEW k \in Req, NEW at \in Enrolling \ {"unprev"}, Goto(k, at),
         req[k].at \in Enrolling, at \in Unconsumed => req[k].at \in Unconsumed,
         Shrinks, UNCHANGED fol
  PROVE  GoesOn(k) /\ \A j \in Req \ {k} : req'[j] = req[j]
<1>1. /\ req'[k].at = at /\ req'[k].cred = req[k].cred /\ req'[k].name = req[k].name
      /\ \A j \in Req \ {k} : req'[j] = req[j]
  BY DEF Goto, TypeInv, RequestInv, GoodHandler, Handler
<1>. QED
  BY <1>1 DEF GoesOn, Enrolling

\* Every step of a handler is one of its moves.
LEMMA StepHandles ==
  ASSUME TypeInv, NEW k \in Req, HandlerStep(k) \/ RequestFails(k)
  PROVE  Handles(k)
<1>a. UNCHANGED follower
  BY DEF HandlerStep, Find, Identity, StoreCredential, ListPending, CancelStale, DropStale,
         Consume, DropOwn, DropPrevious, FinalizeRead, FinalizeActive, FinalizeEnrollment,
         CancelPending, RequestFails
<1>b. req \in [Req -> Handler] /\ pend \in [Name -> Row]
      /\ fol \in [Name -> [cred: 0..MaxCred, active: BOOLEAN]]
  BY DEF TypeInv, RequestInv, SourceInv, GoodHandler
<1>c. UNCHANGED pend => Shrinks
  BY DEF Shrinks
<1>d. ASSUME NEW c, pend' = WithoutRow(c) PROVE Shrinks
  BY <1>d DEF Shrinks, WithoutRow, NoRow
<1>1. CASE Find(k)
  <2>1. req[k].at = "find" /\ UNCHANGED <<pend, fol>>
        /\ (Goto(k, "identity") \/ Finish(k, "refused"))
    BY <1>1 DEF Find, source
  <2>2. "identity" \in Enrolling \ {"unprev"} /\ "identity" \notin Unconsumed
        /\ "find" \in Enrolling
    BY DEF Enrolling, Unconsumed
  <2>. QED
    BY <1>a, <1>c, <2>1, <2>2, GotoOn, FinishCloses DEF Handles, EndsHandler
<1>2. CASE Identity(k)
  <2>1. req[k].at = "identity" /\ UNCHANGED <<pend, fol>>
    BY <1>2 DEF Identity, source
  <2>2. CASE Finish(k, "refused")
    BY <1>a, <1>c, <2>1, <2>2, FinishCloses DEF Handles, EndsHandler
  <2>3. CASE req' = [req EXCEPT ![k].at = "store", ![k].prev = fol[req[k].name].cred]
    <3>1. /\ req'[k].at = "store" /\ req'[k].cred = req[k].cred /\ req'[k].name = req[k].name
          /\ \A j \in Req \ {k} : req'[j] = req[j]
      BY <1>b, <2>3 DEF Handler
    <3>. QED
      BY <1>a, <1>c, <2>1, <3>1 DEF Handles, GoesOn, Unconsumed, Enrolling
  <2>. QED
    BY <1>2, <2>2, <2>3 DEF Identity
<1>3. CASE StoreCredential(k)
  <2>1. req[k].at = "store" /\ UNCHANGED <<pend, fol>>
    BY <1>3 DEF StoreCredential, tables
  <2>2. CASE Finish(k, "refused")
    BY <1>a, <1>c, <2>1, <2>2, FinishCloses DEF Handles, EndsHandler
  <2>3. CASE ~Finish(k, "refused")
    <3>1. PICK c \in Fresh : req' = [req EXCEPT ![k].at = "list", ![k].cred = c,
                                                ![k].fresh = invite[req[k].code] = "open"]
      BY <1>3, <2>3 DEF StoreCredential
    <3>2. /\ req'[k].at = "list" /\ req'[k].cred = c /\ req'[k].name = req[k].name
          /\ \A j \in Req \ {k} : req'[j] = req[j]
      BY <1>b, <3>1 DEF Handler
    <3>. QED
      BY <1>a, <2>1, <3>2 DEF Handles, Stores
  <2>. QED
    BY <2>2, <2>3
<1>4. CASE ListPending(k)
  <2>1. req[k].at = "list" /\ UNCHANGED <<pend, fol>>
    BY <1>4 DEF ListPending, source
  <2>2. CASE Finish(k, "refused")
    BY <1>a, <1>c, <2>1, <2>2, FinishCloses DEF Handles, EndsHandler
  <2>3. CASE Goto(k, "consume")
    BY <1>a, <1>c, <2>1, <2>3, GotoOn DEF Handles, Enrolling, Unconsumed
  <2>4. CASE req' = [req EXCEPT ![k].at = "unpend", ![k].stale = pend[req[k].name].cred]
    <3>1. /\ req'[k].at = "unpend" /\ req'[k].cred = req[k].cred /\ req'[k].name = req[k].name
          /\ \A j \in Req \ {k} : req'[j] = req[j]
      BY <1>b, <2>4 DEF Handler
    <3>. QED
      BY <1>a, <1>c, <2>1, <3>1 DEF Handles, GoesOn, Unconsumed, Enrolling
  <2>. QED
    BY <1>4, <2>2, <2>3, <2>4 DEF ListPending
<1>5. CASE CancelStale(k)
  <2>1. req[k].at = "unpend" /\ Goto(k, "unvault") /\ UNCHANGED fol /\ Shrinks
    BY <1>5, <1>d DEF CancelStale
  <2>. QED
    BY <1>a, <2>1, GotoOn DEF Handles, Enrolling, Unconsumed
<1>6. CASE DropStale(k)
  <2>1. req[k].at = "unvault" /\ UNCHANGED <<pend, fol>>
        /\ req' = [req EXCEPT ![k].at = "consume", ![k].stale = 0]
    BY <1>6 DEF DropStale, tables
  <2>2. /\ req'[k].at = "consume" /\ req'[k].cred = req[k].cred /\ req'[k].name = req[k].name
        /\ \A j \in Req \ {k} : req'[j] = req[j]
    BY <1>b, <2>1 DEF Handler
  <2>. QED
    BY <1>a, <1>c, <2>1, <2>2 DEF Handles, GoesOn, Unconsumed, Enrolling
<1>7. CASE Consume(k)
  <2>. DEFINE h == req[k]
  <2>1. h.at = "consume" /\ UNCHANGED fol /\ h.name \in Name
    BY <1>7 DEF Consume, TypeInv, RequestInv, GoodHandler, Enrolling
  <2>2. CASE Consumable(h)
    <3>1. /\ pend' = [pend EXCEPT ![h.name] = [code |-> h.code, cred |-> h.cred]]
          /\ Goto(k, "unprev") /\ ~fol[h.name].active
      BY <1>7, <2>2 DEF Consume, Consumable
    <3>2. /\ req'[k].at = "unprev" /\ req'[k].cred = h.cred /\ req'[k].name = h.name
          /\ \A j \in Req \ {k} : req'[j] = req[j]
      BY <1>b, <3>1 DEF Goto, Handler
    <3>3. pend'[h.name].cred = h.cred /\ \A o \in Name \ {h.name} : pend'[o] = pend[o]
      BY <1>b, <2>1, <3>1
    <3>. QED
      BY <1>a, <2>1, <3>1, <3>2, <3>3 DEF Handles, Consumes
  <2>3. CASE ~Consumable(h)
    <3>1. Goto(k, "drop") /\ UNCHANGED pend
      BY <1>7, <2>3 DEF Consume
    <3>. QED
      BY <1>a, <1>c, <2>1, <3>1, GotoOn DEF Handles, Enrolling, Unconsumed
  <2>. QED
    BY <2>2, <2>3
<1>8. CASE DropOwn(k) \/ DropPrevious(k)
  <2>1. /\ UNCHANGED <<pend, fol>>
        /\ \/ req[k].at = "drop" /\ Finish(k, "refused")
           \/ req[k].at = "unprev" /\ Finish(k, "ok")
    BY <1>8 DEF DropOwn, DropPrevious, tables
  <2>. QED
    BY <1>a, <1>c, <2>1, FinishCloses DEF Handles, EndsHandler
<1>9. CASE FinalizeRead(k)
  <2>1. req[k].at = "fread" /\ UNCHANGED <<pend, fol>>
    BY <1>9 DEF FinalizeRead, source
  <2>2. /\ req'[k].cred = req[k].cred /\ \A j \in Req \ {k} : req'[j] = req[j]
        /\ \/ req'[k].at = "ftxn"
           \/ req'[k].at = "factive" /\ Gone(req[k].cred)
    BY <1>9, <1>b DEF FinalizeRead, Goto, Handler, Gone
  <2>. QED
    BY <1>a, <1>c, <2>1, <2>2 DEF Handles, GoesOn, Unconsumed, Enrolling
<1>10. CASE FinalizeActive(k)
  <2>1. /\ req[k].at = "factive" /\ UNCHANGED <<pend, fol>>
        /\ Finish(k, IF ActiveCredential(req[k].cred) THEN "ok" ELSE "invalid")
    BY <1>10 DEF FinalizeActive, source
  <2>. QED
    BY <1>a, <1>c, <2>1, FinishCloses DEF Handles, EndsHandler
<1>11. CASE FinalizeEnrollment(k)
  <2>. DEFINE h == req[k]
              row == pend[h.name]
  <2>1. h.at = "ftxn" /\ h.name \in Name /\ h.cred # 0
    BY <1>11 DEF FinalizeEnrollment, TypeInv, RequestInv, GoodHandler
  <2>2. CASE row.cred = h.cred /\ Finalizable(h)
    <3>1. /\ fol' = [fol EXCEPT ![h.name] = [cred |-> h.cred, active |-> TRUE]]
          /\ pend' = [pend EXCEPT ![h.name] = NoRow] /\ Finish(k, "ok")
      BY <1>11, <2>2 DEF FinalizeEnrollment
    <3>2. fol'[h.name].cred = h.cred /\ \A o \in Name \ {h.name} : fol'[o] = fol[o]
      BY <1>b, <2>1, <3>1
    <3>3. Shrinks
      BY <1>b, <3>1 DEF Shrinks, NoRow
    <3>4. Closes(k) /\ \A j \in Req \ {k} : req'[j] = req[j]
      BY <2>1, <3>1, FinishCloses
    <3>5. req'[k].at = "answered" => req'[k].res = "ok"
      BY <3>1, FinishTold
    <3>. QED
      BY <1>a, <2>1, <2>2, <3>2, <3>3, <3>4, <3>5 DEF Handles, Finalizes
  <2>3. CASE ~(row.cred = h.cred /\ Finalizable(h))
    <3>1. UNCHANGED <<pend, fol>> /\ (Finish(k, "ok") \/ Finish(k, "refused"))
      BY <1>11, <2>3 DEF FinalizeEnrollment, tables
    <3>. QED
      BY <1>a, <1>c, <2>1, <3>1, FinishCloses DEF Handles, EndsHandler
  <2>. QED
    BY <2>2, <2>3
<1>12. CASE CancelPending(k)
  <2>1. req[k].at = "cancel" /\ Finish(k, "ok") /\ UNCHANGED fol /\ Shrinks
    BY <1>12, <1>d DEF CancelPending
  <2>. QED
    BY <1>a, <2>1, FinishCloses DEF Handles, EndsHandler
<1>13. CASE RequestFails(k)
  <2>1. UNCHANGED <<pend, fol>> /\ req[k].at \notin {"free", "answered"}
    BY <1>13 DEF RequestFails, tables
  <2>2. CASE req[k].at = "consume"
    <3>1. Goto(k, "drop")
      BY <1>13, <2>2 DEF RequestFails
    <3>. QED
      BY <1>a, <1>c, <2>1, <2>2, <3>1, GotoOn DEF Handles, Enrolling, Unconsumed
  <2>3. CASE req[k].at # "consume"
    <3>1. Finish(k, "refused")
      BY <1>13, <2>3 DEF RequestFails
    <3>. QED
      BY <1>a, <1>c, <2>1, <3>1, FinishCloses DEF Handles, EndsHandler
  <2>. QED
    BY <2>2, <2>3
<1>. QED
  BY <1>1, <1>2, <1>3, <1>4, <1>5, <1>6, <1>7, <1>8, <1>9, <1>10, <1>11, <1>12, <1>13
     DEF HandlerStep

\* The operator revokes identities and discards rows, and touches nothing else
\* that HoldInv is about.
LEMMA OperatorHold ==
  ASSUME TypeInv, HoldInv, Operator \/ \E c \in Code : Expire(c)
  PROVE  HoldInv'
<1>1. cmd' = cmd /\ conf' = conf /\ slot' = slot /\ req' = req
  BY DEF Operator, OpenRepository, Issue, Revoke, EndCommand, Expire, follower, tables
<1>2. Shrinks
  BY DEF Operator, OpenRepository, Issue, Revoke, EndCommand, Expire, tables, NoRow, Shrinks
<1>3. \A n \in Name : fol'[n].cred = fol[n].cred /\ (fol'[n].active => fol[n].active)
  <2>1. fol' = fol \/ \E n \in Name : fol' = [fol EXCEPT ![n].active = FALSE]
    BY DEF Operator, OpenRepository, Issue, Revoke, EndCommand, Expire, tables
  <2>. QED
    BY <2>1 DEF TypeInv, SourceInv
<1>4. SoleInv' /\ PrepareInv' /\ ForgetInv'
  BY <1>1 DEF HoldInv, SoleInv, PrepareInv, ForgetInv, Held
<1>5. NameInv'
  BY <1>1, <1>2 DEF HoldInv, NameInv, Shrinks, Granted
<1>6. DeadInv'
  BY <1>1, <1>2, <1>3 DEF HoldInv, DeadInv, Shrinks, Gone, ActiveCredential, Held
<1>7. WaitInv'
  BY <1>1, <1>2 DEF HoldInv, WaitInv, Shrinks, Waits
<1>8. KeptInv'
  BY <1>1, <1>3 DEF HoldInv, KeptInv, Holds, Clobbers, GaveUp, Granted
<1>. QED
  BY <1>4, <1>5, <1>6, <1>7, <1>8 DEF HoldInv

\* When the source server dies, every waiting command ends and every row is gone.
LEMMA RestartHold ==
  ASSUME TypeInv, MatchInv, HoldInv, Restart
  PROVE  HoldInv'
<1>1. (\A k \in Req : req'[k].at = "free") /\ (\A n \in Name : pend'[n].cred = 0)
      /\ fol' = fol
  BY DEF Restart, Free, NoRow
<1>2. ASSUME NEW m \in Machine
      PROVE  \/ /\ cmd[m].at \notin Waiting /\ cmd'[m] = cmd[m]
                /\ conf'[m] = conf[m] /\ slot'[m] = slot[m]
             \/ EndsCommand(m)
  <2>1. slot \in [Machine -> [Name -> 0..MaxCred]]
    BY DEF TypeInv, MachineInv
  <2>2. CASE cmd[m].at \in Waiting
    BY <2>1, <2>2 DEF Restart, AfterFailure, EndsCommand, Same, Puts, Idle
  <2>3. CASE cmd[m].at \notin Waiting
    BY <2>3 DEF Restart, AfterFailure, Waiting
  <2>. QED
    BY <2>2, <2>3
<1>3. \A m \in Machine : cmd'[m].at \notin Waiting
  BY <1>2 DEF EndsCommand, Waiting
<1>4. SoleInv' /\ PrepareInv' /\ NameInv' /\ WaitInv'
  BY <1>1, <1>3 DEF SoleInv, PrepareInv, NameInv, WaitInv, Unconsumed, Waiting
<1>5. DeadInv'
  BY <1>1, <1>3 DEF DeadInv, Waiting
<1>6. ForgetInv'
  BY <1>2 DEF HoldInv, ForgetInv, EndsCommand, Held
<1>7. KeptInv'
  <2>. SUFFICES ASSUME NEW n \in Name, fol'[n].active
                PROVE  \E m \in Machine : (Holds(m, n) /\ ~Clobbers(m, n))'
    BY DEF KeptInv
  <2>1. PICK m \in Machine : Holds(m, n) /\ ~Clobbers(m, n)
    BY <1>1 DEF HoldInv, KeptInv
  <2>2. CASE EndsCommand(m)
    BY <1>1, <2>1, <2>2, MoveHolds DEF Moves, HoldInv
  <2>3. CASE cmd[m].at \notin Waiting /\ cmd'[m] = cmd[m] /\ conf'[m] = conf[m]
             /\ slot'[m] = slot[m]
    BY <1>1, <2>1, <2>3 DEF Holds, GaveUp, Clobbers, Granted, Waiting
  <2>. QED
    BY <1>2, <2>2, <2>3
<1>. QED
  BY <1>4, <1>5, <1>6, <1>7 DEF HoldInv

\* Every step keeps HoldInv.
LEMMA NextHold ==
  ASSUME TypeInv, CredInv, MatchInv, HoldInv, [Next]_vars
  PROVE  HoldInv'
<1>1. CASE Operator \/ \E c \in Code : Expire(c)
  BY <1>1, OperatorHold
<1>2. ASSUME NEW k \in Req, HandlerStep(k) \/ RequestFails(k) PROVE HoldInv'
  BY <1>2, StepHandles, HandleHold
<1>3. ASSUME NEW m \in Machine, Acts(m) PROVE HoldInv'
  BY <1>3, ActsMove, MoveHold
<1>4. CASE Restart
  BY <1>4, RestartHold
<1>5. CASE UNCHANGED vars
  BY <1>5 DEF vars, HoldInv, SoleInv, PrepareInv, NameInv, ForgetInv, DeadInv, WaitInv, KeptInv,
              Granted, Held, Gone, ActiveCredential, Waits, Clobbers, Holds, GaveUp
<1>. QED
  BY <1>1, <1>2, <1>3, <1>4, <1>5 DEF Next, Acts

LEMMA InitHold == Init => HoldInv
BY DEF Init, HoldInv, SoleInv, PrepareInv, NameInv, ForgetInv, DeadInv, WaitInv, KeptInv,
       Unconsumed, NoRow, Free, Idle

\* Two-phase enrollment: an active identity always has a machine that remembers
\* it and holds its credential, unless that machine replaced it. A command may
\* die, a request may be lost or outlive its client, the server may restart and
\* a database may be reopened between any two steps: the row that a finalize
\* turns into an identity belongs to a machine that has saved its half.
THEOREM ActiveIsHeld == Spec => []ActiveHasHolder
<1>1. Init => CredInv /\ MatchInv
  BY DEF Init, CredInv, RowInv, HolderInv, MatchInv, OwnInv, ActiveInv, ToldInv, Unconsumed,
         NoRow, Free, Idle, Waiting
<1>2. HoldInv => ActiveHasHolder
  BY DEF HoldInv, KeptInv, Holds, ActiveHasHolder
<1>. QED
  BY <1>1, <1>2, InitType, NextType, NextCred, NextMatch, InitHold, NextHold, PTL DEF Spec
=============================================================================
