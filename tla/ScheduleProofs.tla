--------------------------- MODULE ScheduleProofs ---------------------------
(***************************************************************************)
(* That a synchronization leaves a job the user decided on alone, and that *)
(* a restore puts back what was captured, for every set of calendars and   *)
(* however often things fail.                                              *)
(*                                                                         *)
(* Both rest on what a process holds in memory: as long as no two ran at   *)
(* once, the configuration a synchronization read is still the one in      *)
(* force, it has calls to make only where the user left the job to the     *)
(* profile, and the calls a restore has left tell what it has put back.    *)
(***************************************************************************)
EXTENDS Schedule, TLAPS

Ops == {"idle", "run", "recovery", "upsert", "remove", "restore"}
Calls == {"persist", "inspect", "service", "timer", "reload", "enable", "disable",
          "start", "stop", "try-disable", "verify"}
Jobs == [service : {None, Found, "own"}, timer : Calendars \cup {None}]
Configurations == [override : Decisions, deft : Calendars \cup {None}]

\* What a process is: nothing, or an operation with what it read and will call.
Process == [op : Ops, work : Seq(Calls), want : Jobs, conf : Configurations,
            deft : Calendars \cup {None}]
AProcess(r) ==
  /\ r \in Process
  /\ r.op = "idle" => r = Idle
  /\ r.op \in {"run", "recovery"} => r.work = <<>>
  /\ r.op = "upsert" => r.want \in Requests
  /\ r.op = "remove" => r.want = NoJob

TypesInv ==
  /\ proc \in [Processes -> Process]
  /\ \A p \in Processes : AProcess(proc[p])
  /\ proc["cli"].op \notin {"run", "recovery", "restore"}
  /\ config \in Configurations /\ published \in Calendars \cup {None}

\* What the machine has, and what a rollback captured of it.
UnitInv ==
  /\ files \in Jobs /\ loaded \in Calendars \cup {None}
  /\ enabled \in BOOLEAN /\ active \in BOOLEAN
  /\ captured \subseteq [service : {None, Found, "own"}, timer : Calendars \cup {None},
                         enabled : BOOLEAN, active : BOOLEAN]
  /\ \A s \in captured : s.enabled \/ s.active => s.timer # None

\* Unless two ran at once, one of the two is idle, ...
OneRuns == ~lapped => \E p \in Processes : proc[p] = Idle
\* ... what a synchronization read is what is in force, ...
ReadIsCurrent ==
  ~lapped /\ proc["sync"].op \in {"run", "recovery"} => proc["sync"].conf = config
\* ... and it works on the job only where the user left it to the profile.
WorksIfInherited ==
  ~lapped /\ proc["sync"].op \in {"upsert", "remove"} => config.override = Inherit

DecisionInv == TypesInv /\ OneRuns /\ ReadIsCurrent /\ WorksIfInherited

USE DEF Processes

\* The jobs, and the decisions about them.
LEMMA JobTypes ==
  /\ Inherit \in Decisions /\ NoJob \in Decisions /\ Requests \subseteq Decisions
  /\ NoJob \in Jobs /\ Requests \subseteq Jobs /\ Unread \in Configurations
  BY DEF Decisions, Jobs, NoJob, Inherit, Job, Requests, Unread, Configurations, None, Found

\* A process that has nothing to do.
LEMMA IdleIsAProcess == AProcess(Idle) /\ Idle.op = "idle" /\ Idle.work = <<>>
  BY JobTypes DEF AProcess, Process, Idle, Ops

\* The calls of every operation.
LEMMA WorkTypes ==
  InstallWork \in Seq(Calls) /\ RemoveWork \in Seq(Calls) /\ <<"inspect">> \in Seq(Calls)
  BY DEF InstallWork, RemoveWork, Calls

\* The calls of a restore.
LEMMA RestoreTypes ==
  ASSUME NEW s
  PROVE  RestoreWork(s) \in Seq(Calls)
<1>1. Enabling(s) \in Calls /\ Starting(s) \in Calls
  BY DEF Enabling, Starting, Calls
<1>2. {"try-disable", "service", "timer", "reload", "verify"} \subseteq Calls
  BY DEF Calls
<1> QED BY <1>1, <1>2 DEF RestoreWork

\* A process that has a call to make is at work on the job.
LEMMA CallerWorks ==
  ASSUME TypesInv, NEW p \in Processes, Call1(p) # None
  PROVE  /\ proc[p] # Idle /\ proc[p].op \in {"upsert", "remove", "restore"}
         /\ p = "cli" => proc[p].op # "restore"
         /\ proc[p].work # <<>>
  BY DEF TypesInv, AProcess, Process, Call1, Idle, Ops

\* What a process becomes when it takes up other work.
LEMMA WorkingTypes ==
  ASSUME NEW op \in {"upsert", "remove", "restore"}, NEW want \in Jobs, NEW work \in Seq(Calls),
         op = "upsert" => want \in Requests, op = "remove" => want = NoJob
  PROVE  AProcess(Working(op, want, work)) /\ Working(op, want, work).op = op
  BY JobTypes DEF AProcess, Process, Working, Idle, Ops

\* At first no process is at work.
LEMMA InitDecision == Init => DecisionInv
<1> SUFFICES ASSUME Init PROVE DecisionInv
  OBVIOUS
<1>1. TypesInv
  BY IdleIsAProcess, JobTypes, CalendarsAreSane DEF Init, TypesInv, AProcess
<1>2. OneRuns /\ ReadIsCurrent /\ WorksIfInherited
  BY IdleIsAProcess DEF Init, OneRuns, ReadIsCurrent, WorksIfInherited
<1> QED BY <1>1, <1>2 DEF DecisionInv

\* A process ends, or makes its next call.
LEMMA EndsKeeps ==
  ASSUME DecisionInv, NEW p \in Processes, Ends(p),
         UNCHANGED <<config, published, lapped>>
  PROVE  DecisionInv'
<1>1. TypesInv'
  BY IdleIsAProcess DEF DecisionInv, TypesInv, Ends, Goes, AProcess
<1>2. OneRuns' /\ ReadIsCurrent' /\ WorksIfInherited'
  BY IdleIsAProcess
  DEF DecisionInv, TypesInv, OneRuns, ReadIsCurrent, WorksIfInherited, Ends, Goes
<1> QED BY <1>1, <1>2 DEF DecisionInv

\* A process that goes on to other calls of its operation.
LEMMA WorkKeeps ==
  ASSUME DecisionInv, NEW p \in Processes, NEW w \in Seq(Calls), Call1(p) # None,
         Goes(p, [proc[p] EXCEPT !.work = w]), UNCHANGED <<config, published, lapped>>
  PROVE  DecisionInv'
<1> DEFINE r == [proc[p] EXCEPT !.work = w]
<1>1. proc[p] # Idle /\ proc[p].op \in {"upsert", "remove", "restore"}
  BY CallerWorks DEF DecisionInv
<1>2. AProcess(r) /\ r.op = proc[p].op
  BY <1>1 DEF DecisionInv, TypesInv, AProcess, Process
<1>3. proc' = [proc EXCEPT ![p] = r]
  BY DEF Goes
<1> HIDE DEF r
<1>4. TypesInv'
  BY <1>2, <1>3 DEF DecisionInv, TypesInv, AProcess
<1>5. OneRuns'
  BY <1>1, <1>3 DEF DecisionInv, OneRuns, TypesInv
<1>6. ReadIsCurrent' /\ WorksIfInherited'
  BY <1>1, <1>2, <1>3 DEF DecisionInv, ReadIsCurrent, WorksIfInherited, TypesInv
<1> QED BY <1>4, <1>5, <1>6 DEF DecisionInv

\* A process begins: with what it read, or with calls of a restore or a command.
LEMMA BeginKeeps ==
  ASSUME DecisionInv, NEW p \in Processes, NEW r, Begins(p, r),
         UNCHANGED <<config, published>>,
         AProcess(r), r.op # "idle",
         p = "cli" => r.op \in {"upsert", "remove"},
         p = "sync" => r.op = "restore" \/ (r.op \in {"run", "recovery"} /\ r.conf = config)
  PROVE  DecisionInv'
<1>1. TypesInv'
  BY DEF DecisionInv, TypesInv, Begins, Goes, AProcess
<1>2. OneRuns'
  BY DEF DecisionInv, TypesInv, OneRuns, Begins, Goes
<1>3. ReadIsCurrent' /\ WorksIfInherited'
  BY IdleIsAProcess DEF DecisionInv, TypesInv, ReadIsCurrent, WorksIfInherited, OneRuns, Begins, Goes
<1> QED BY <1>1, <1>2, <1>3 DEF DecisionInv

\* The calls that are left after one.
LEMMA TailTypes ==
  ASSUME TypesInv, NEW p \in Processes, Call1(p) # None
  PROVE  Tail(proc[p].work) \in Seq(Calls)
  BY CallerWorks DEF TypesInv, Process

\* A call to the service manager keeps the decisions.
LEMMA CallKeeps ==
  ASSUME DecisionInv, NEW p \in Processes, Call(p)
  PROVE  DecisionInv'
<1>1. CASE Inspect(p)
  <2>1. Call1(p) # None /\ UNCHANGED <<config, published, lapped>>
    BY <1>1 DEF Inspect, CallFrame, None
  <2>2. Ends(p) \/ \E w \in Seq(Calls) : Goes(p, [proc[p] EXCEPT !.work = w])
    BY <1>1, WorkTypes DEF Inspect, Ends
  <2> QED BY <2>1, <2>2, EndsKeeps, WorkKeeps
<1>2. CASE Verify(p)
  BY <1>2, EndsKeeps DEF Verify
<1>3. CASE WriteUnit(p) \/ DaemonReload(p) \/ Enable(p) \/ Start(p) \/ TryDisable(p)
  <2>1. Call1(p) # None /\ UNCHANGED <<config, published, lapped>> /\ Proceeds(p)
    BY <1>3 DEF WriteUnit, DaemonReload, Enable, Start, TryDisable, CallFrame, None
  <2>2. Tail(proc[p].work) \in Seq(Calls)
    BY <2>1, TailTypes DEF DecisionInv
  <2> QED BY <2>1, <2>2, WorkKeeps DEF Proceeds
<1> QED BY <1>1, <1>2, <1>3 DEF Call

\* So every step keeps the decisions.
LEMMA NextDecision == DecisionInv /\ UnitInv /\ [Next]_vars => DecisionInv'
<1> SUFFICES ASSUME DecisionInv, UnitInv, [Next]_vars PROVE DecisionInv'
  OBVIOUS
<1>1. CASE PersistScheduleOverride
  <2> DEFINE r == [proc["cli"] EXCEPT !.work = Tail(@), !.conf = Unread]
  <2>1. proc["cli"] # Idle /\ proc["cli"].op \in {"upsert", "remove"}
        /\ Tail(proc["cli"].work) \in Seq(Calls)
    BY <1>1, CallerWorks, TailTypes DEF DecisionInv, PersistScheduleOverride, None
  <2>2. AProcess(proc["cli"]) /\ proc["cli"].want \in Decisions
    BY <2>1, JobTypes DEF DecisionInv, TypesInv, AProcess
  <2>3. AProcess(r) /\ r.op = proc["cli"].op
    BY <2>1, <2>2, JobTypes DEF AProcess, Process
  <2>4. ~lapped => proc["sync"] = Idle
    BY <2>1 DEF DecisionInv, OneRuns
  <2>5. proc' = [proc EXCEPT !["cli"] = r] /\ UNCHANGED <<published, lapped>>
    BY <1>1 DEF PersistScheduleOverride, Goes
  <2>6. config' \in Configurations
    BY <1>1, <2>2 DEF PersistScheduleOverride, SaveConfiguration, AProcess, Process, Configurations
  <2> HIDE DEF r
  <2>7. TypesInv'
    BY <2>1, <2>3, <2>5, <2>6 DEF DecisionInv, TypesInv, AProcess
  <2>8. OneRuns' /\ ReadIsCurrent' /\ WorksIfInherited'
    BY <2>4, <2>5, IdleIsAProcess
    DEF DecisionInv, TypesInv, OneRuns, ReadIsCurrent, WorksIfInherited
  <2> QED BY <2>7, <2>8 DEF DecisionInv
<1>2. CASE PersistProfileScheduleDefault
  <2> DEFINE p == proc["sync"]
             r == IF p.op = "run" THEN Reconciled(p.conf, p.deft) ELSE Idle
  <2>1. p.op \in {"run", "recovery"} /\ p # Idle /\ AProcess(p)
        /\ UNCHANGED <<published, lapped>>
    BY <1>2, IdleIsAProcess DEF PersistProfileScheduleDefault, DecisionInv, TypesInv
  <2>2. proc' = [proc EXCEPT !["sync"] = r]
    BY <1>2 DEF PersistProfileScheduleDefault, Goes
  <2>3. config' \in Configurations /\ config'.override = p.conf.override
    BY <1>2, <2>1
    DEF PersistProfileScheduleDefault, SaveConfiguration, AProcess, Process, Configurations
  <2>4. AProcess(r) /\ (r = Idle \/ (r.op \in {"upsert", "remove"} /\ p.conf.override = Inherit))
    <3>1. CASE p.op = "run" /\ p.conf.override = Inherit /\ p.deft = None
      BY <3>1, WorkingTypes, JobTypes, WorkTypes DEF Reconciled, Removal
    <3>2. CASE p.op = "run" /\ p.conf.override = Inherit /\ p.deft # None
      <4>1. Job(Found, p.deft) \in Requests
        BY <2>1, <3>2 DEF AProcess, Process, Job, Requests
      <4> QED BY <3>2, <4>1, WorkingTypes, JobTypes, WorkTypes DEF Reconciled, Upsert
    <3>3. CASE p.op # "run"
      <4>1. r = Idle
        BY <3>3
      <4> HIDE DEF r
      <4> QED BY <4>1, IdleIsAProcess
    <3>4. CASE p.op = "run" /\ p.conf.override # Inherit
      <4>1. r = Idle
        BY <3>4 DEF Reconciled
      <4> HIDE DEF r
      <4> QED BY <4>1, IdleIsAProcess
    <3> QED BY <3>1, <3>2, <3>3, <3>4
  <2>5. ~lapped => proc["cli"] = Idle
    BY <2>1 DEF DecisionInv, OneRuns
  <2> HIDE DEF r
  <2>6. TypesInv'
    BY <2>1, <2>2, <2>3, <2>4 DEF DecisionInv, TypesInv, AProcess
  <2>7. OneRuns' /\ ReadIsCurrent' /\ WorksIfInherited'
    BY <2>1, <2>2, <2>3, <2>4, <2>5, IdleIsAProcess
    DEF DecisionInv, TypesInv, OneRuns, ReadIsCurrent, WorksIfInherited
  <2> QED BY <2>6, <2>7 DEF DecisionInv
<1>3. CASE \E p \in Processes : Call(p)
  BY <1>3, CallKeeps
<1>4. CASE StartSync
  <2> DEFINE r == [Idle EXCEPT !.op = "run", !.conf = config, !.deft = published]
  <2>1. r.op = "run" /\ r.conf = config /\ r.work = <<>>
    BY DEF Idle
  <2>2. r \in Process
    BY IdleIsAProcess DEF AProcess, Process, Ops, DecisionInv, TypesInv
  <2>3. AProcess(r)
    BY <2>1, <2>2 DEF AProcess
  <2> HIDE DEF r
  <2>4. Begins("sync", r) /\ UNCHANGED <<config, published>>
    BY <1>4 DEF StartSync, r
  <2> QED BY <2>1, <2>3, <2>4, BeginKeeps
<1>5. ASSUME NEW d \in Calendars \cup {None}, StartRecovery(d) PROVE DecisionInv'
  <2> DEFINE r == [Idle EXCEPT !.op = "recovery", !.conf = config, !.deft = d]
  <2>1. r.op = "recovery" /\ r.conf = config /\ r.work = <<>>
    BY DEF Idle
  <2>2. r \in Process
    BY IdleIsAProcess DEF AProcess, Process, Ops, DecisionInv, TypesInv
  <2>3. AProcess(r)
    BY <2>1, <2>2 DEF AProcess
  <2> HIDE DEF r
  <2>4. Begins("sync", r) /\ UNCHANGED <<config, published>>
    BY <1>5 DEF StartRecovery, r
  <2> QED BY <2>1, <2>3, <2>4, BeginKeeps
<1>6. CASE RestoreScheduleRollback
  <2>1. PICK s \in captured :
          Begins("sync", Working("restore", Job(s.service, s.timer), RestoreWork(s)))
    BY <1>6 DEF RestoreScheduleRollback
  <2> DEFINE r == Working("restore", Job(s.service, s.timer), RestoreWork(s))
  <2>2. Job(s.service, s.timer) \in Jobs
    BY DEF UnitInv, Jobs, Job
  <2>3. AProcess(r) /\ r.op = "restore"
    BY <2>2, RestoreTypes, WorkingTypes
  <2> HIDE DEF r
  <2>4. Begins("sync", r) /\ UNCHANGED <<config, published>>
    BY <1>6, <2>1 DEF RestoreScheduleRollback, r
  <2> QED BY <2>3, <2>4, BeginKeeps
<1>7. ASSUME NEW work, Decide(work), AProcess(work), work.op \in {"upsert", "remove"}
      PROVE  DecisionInv'
  <2> DEFINE r == [work EXCEPT !.work = <<"persist">> \o @, !.conf = config]
  <2>1. <<"persist">> \o work.work \in Seq(Calls)
    BY <1>7 DEF AProcess, Process, Calls
  <2>2. AProcess(r) /\ r.op \in {"upsert", "remove"}
    BY <1>7, <2>1 DEF AProcess, Process, DecisionInv, TypesInv
  <2>3. Begins("cli", r) /\ UNCHANGED <<config, published>>
    BY <1>7 DEF Decide
  <2> HIDE DEF r
  <2> QED BY <2>2, <2>3, BeginKeeps
<1>8. CASE RemoveSchedule
  <2>1. AProcess(Removal) /\ Removal.op = "remove"
    BY WorkingTypes, WorkTypes, JobTypes DEF Removal
  <2> QED BY <1>7, <1>8, <2>1 DEF RemoveSchedule
<1>9. ASSUME NEW job \in Requests, SetSchedule(job) PROVE DecisionInv'
  <2>1. AProcess(Upsert(job)) /\ Upsert(job).op = "upsert"
    BY WorkingTypes, WorkTypes, JobTypes DEF Upsert
  <2> QED BY <1>7, <1>9, <2>1 DEF SetSchedule
<1>10. CASE CaptureScheduleRollback \/ (\E d \in Calendars \cup {None} : Publish(d))
         \/ UNCHANGED vars
  BY <1>10
  DEF CaptureScheduleRollback, Publish, vars, DecisionInv, TypesInv, OneRuns, ReadIsCurrent, WorksIfInherited
<1>11. CASE \E p \in Processes : Breaks(p)
  BY <1>11, EndsKeeps DEF Breaks, CallFrame
<1> QED
  BY <1>1, <1>2, <1>3, <1>4, <1>5, <1>6, <1>8, <1>9, <1>10, <1>11 DEF Next, Go

\* The first unit on the machine, and every later one, is a unit.
LEMMA InitUnit == Init => UnitInv
  BY JobTypes DEF Init, UnitInv

\* Every step writes a unit or leaves it.
LEMMA NextUnit == DecisionInv /\ UnitInv /\ [Next]_vars => UnitInv'
<1> SUFFICES ASSUME DecisionInv, UnitInv, [Next]_vars PROVE UnitInv'
  OBVIOUS
<1>1. CASE \E p \in Processes : WriteUnit(p)
  <2>1. PICK p \in Processes : WriteUnit(p)
    BY <1>1
  <2>2. proc[p].want \in Jobs
    BY DEF DecisionInv, TypesInv, Process
  <2>3. files' \in Jobs
    BY <2>1, <2>2 DEF WriteUnit, UnitInv, Jobs
  <2> QED BY <2>1, <2>3 DEF WriteUnit, CallFrame, UnitInv
<1>2. CASE \E p \in Processes : DaemonReload(p) \/ Enable(p) \/ Start(p) \/ TryDisable(p)
  BY <1>2 DEF DaemonReload, Enable, Start, TryDisable, CallFrame, UnitInv, Jobs
<1>3. CASE \E p \in Processes : Inspect(p) \/ Verify(p) \/ Breaks(p)
  BY <1>3 DEF Inspect, Verify, Breaks, CallFrame, unit, UnitInv
<1>4. CASE CaptureScheduleRollback
  <2>1. Snapshot \in [service : {None, Found, "own"}, timer : Calendars \cup {None},
                      enabled : BOOLEAN, active : BOOLEAN]
        /\ (Snapshot.enabled \/ Snapshot.active => Snapshot.timer # None)
    BY DEF Snapshot, UnitInv, Jobs
  <2> QED BY <1>4, <2>1 DEF CaptureScheduleRollback, unit, UnitInv
<1>5. CASE UNCHANGED <<unit, captured>>
  BY <1>5 DEF unit, UnitInv
<1>6. PersistScheduleOverride \/ PersistProfileScheduleDefault \/ StartSync
        \/ RestoreScheduleRollback \/ RemoveSchedule
        \/ (\E job \in Requests : SetSchedule(job))
        \/ (\E d \in Calendars \cup {None} : Publish(d) \/ StartRecovery(d)) \/ UNCHANGED vars
        => UNCHANGED <<unit, captured>>
  BY DEF PersistScheduleOverride, PersistProfileScheduleDefault, StartSync,
         RestoreScheduleRollback, RemoveSchedule, SetSchedule, Decide, Publish, StartRecovery, vars
<1> QED BY <1>1, <1>2, <1>3, <1>4, <1>5, <1>6 DEF Next, Go, Call

\* The decisions and the unit, throughout.
LEMMA Decision == Scheduling => [](DecisionInv /\ UnitInv)
  BY InitDecision, NextDecision, InitUnit, NextUnit, PTL DEF Scheduling

-----------------------------------------------------------------------------
(* Types.                                                                  *)

Counted == edits \in 0 .. MaxEdits /\ trouble \in 0 .. MaxTrouble /\ lapped \in BOOLEAN

\* The bounds.
LEMMA BoundsAreNaturals == MaxEdits \in Nat /\ MaxTrouble \in Nat
  BY CalendarsAreSane

\* The counters stay within their bounds, from the first state on.
LEMMA InitCounted == Init => Counted
<1> SUFFICES ASSUME Init PROVE Counted
  OBVIOUS
<1>1. edits = 0 /\ trouble = 0
  BY DEF Init
<1>2. lapped \in BOOLEAN
  BY DEF Init
<1> QED BY <1>1, <1>2, BoundsAreNaturals DEF Counted

\* A machine that has lapped stays so.
LEMMA LappedStays ==
  ASSUME [Next]_vars
  PROVE  lapped' = lapped \/ lapped' = TRUE
  BY DEF Next, vars, Go, PersistScheduleOverride, PersistProfileScheduleDefault, Call, Inspect,
         WriteUnit, DaemonReload, Enable, Start, TryDisable, Verify, CallFrame, StartSync,
         RestoreScheduleRollback, CaptureScheduleRollback, RemoveSchedule, SetSchedule, Decide,
         Breaks, Publish, StartRecovery, Begins

\* Every step counts at most one edit and one trouble, within the bounds.
LEMMA NextCounted == Counted /\ [Next]_vars => Counted'
<1> SUFFICES ASSUME Counted, [Next]_vars PROVE Counted'
  OBVIOUS
<1>1. edits' = edits \/ (edits < MaxEdits /\ edits' = edits + 1)
  BY DEF Next, vars, Go, PersistScheduleOverride, PersistProfileScheduleDefault, Call, Inspect,
         WriteUnit, DaemonReload, Enable, Start, TryDisable, Verify, CallFrame, StartSync,
         RestoreScheduleRollback, CaptureScheduleRollback, RemoveSchedule, SetSchedule, Decide,
         Breaks, Publish, StartRecovery
<1>2. trouble' = trouble \/ (trouble < MaxTrouble /\ trouble' = trouble + 1)
  BY DEF Next, vars, Go, PersistScheduleOverride, PersistProfileScheduleDefault, Call, Inspect,
         WriteUnit, DaemonReload, Enable, Start, TryDisable, Verify, StartSync,
         RestoreScheduleRollback, CaptureScheduleRollback, RemoveSchedule, SetSchedule, Decide,
         Breaks, Publish, StartRecovery, Begins, Smooth, Faulty
<1>3. lapped' \in BOOLEAN
  BY LappedStays DEF Counted
<1>4. edits' \in 0 .. MaxEdits
  BY <1>1, BoundsAreNaturals DEF Counted
<1>5. trouble' \in 0 .. MaxTrouble
  BY <1>2, BoundsAreNaturals DEF Counted
<1> QED BY <1>3, <1>4, <1>5 DEF Counted

\* The unit files, the configuration, what is captured and what the processes
\* hold have their types, and no counter passes its bound.
THEOREM TypesHold == Scheduling => []TypeOK
<1>1. DecisionInv /\ UnitInv /\ Counted => TypeOK
  BY IdleIsAProcess
  DEF DecisionInv, TypesInv, UnitInv, Counted, TypeOK, AProcess, Process, Ops, Jobs, Configurations
<1> QED BY <1>1, Decision, InitCounted, NextCounted, PTL DEF Scheduling

-----------------------------------------------------------------------------
(* The decision of the user stands.                                        *)

\* A step of a synchronization leaves the job alone when the user decided.
LEMMA UserDecidesStep ==
  ASSUME DecisionInv, [Next]_vars, ~lapped', proc["sync"].op \notin {"idle", "restore"},
         config.override # Inherit
  PROVE  UNCHANGED <<unit, config.override>>
<1>1. ~lapped
  BY LappedStays
<1>2. proc["sync"].op \in {"run", "recovery"} /\ proc["sync"].conf = config
      /\ proc["sync"].work = <<>>
  <2>1. proc["sync"].op \in Ops /\ AProcess(proc["sync"])
    BY DEF DecisionInv, TypesInv, Process
  <2>2. proc["sync"].op \in {"run", "recovery"}
    BY <1>1, <2>1 DEF Ops, DecisionInv, WorksIfInherited
  <2> QED BY <1>1, <2>1, <2>2 DEF AProcess, DecisionInv, ReadIsCurrent
<1>3. proc["cli"] = Idle
  BY <1>1, <1>2, IdleIsAProcess DEF DecisionInv, OneRuns
<1>4. \A p \in Processes : Call1(p) = None
  BY <1>2, <1>3, IdleIsAProcess DEF Call1
<1>5. ~PersistScheduleOverride /\ \A p \in Processes : ~Call(p)
  BY <1>4
  DEF PersistScheduleOverride, Call, Inspect, WriteUnit, DaemonReload, Enable, Start, TryDisable,
      Verify, None
<1>6. CASE PersistProfileScheduleDefault
  <2>1. AProcess(proc["sync"])
    BY DEF DecisionInv, TypesInv
  <2> QED
    BY <1>2, <1>6, <2>1 DEF PersistProfileScheduleDefault, SaveConfiguration, AProcess
<1>7. CASE StartSync \/ RestoreScheduleRollback \/ CaptureScheduleRollback \/ RemoveSchedule
        \/ (\E job \in Requests : SetSchedule(job)) \/ (\E p \in Processes : Breaks(p))
        \/ (\E d \in Calendars \cup {None} : Publish(d) \/ StartRecovery(d)) \/ UNCHANGED vars
  BY <1>7
  DEF StartSync, RestoreScheduleRollback, CaptureScheduleRollback, RemoveSchedule, SetSchedule,
      Decide, Breaks, CallFrame, Publish, StartRecovery, vars
<1> QED BY <1>5, <1>6, <1>7 DEF Next, Go

\* Where the user has decided, no synchronization and no recovery touches the
\* job or the decision, unless a command ran beside it.
THEOREM TheUserDecides == Scheduling => UserDecides
<1>1. DecisionInv /\ [Next]_vars
        => (~lapped' /\ proc["sync"].op \notin {"idle", "restore"} /\ config.override # Inherit
              => UNCHANGED <<unit, config.override>>)
  BY UserDecidesStep
<1> QED BY <1>1, Decision, PTL DEF Scheduling, UserDecides

-----------------------------------------------------------------------------
(* A restore puts back what was captured.                                  *)

\* What a restore has put back, by the calls it has left.
Back(s, w) ==
  LET written == files = Job(s.service, s.timer)
      rest == IF s.timer = None THEN <<"verify">> ELSE <<Enabling(s), Starting(s), "verify">>
  IN  IF s.timer = None
      THEN \/ w \in {RestoreWork(s), <<"service", "timer", "reload", "verify">>}
           \/ w = <<"timer", "reload", "verify">> /\ files.service = s.service
           \/ w \in {<<"reload", "verify">>, <<"verify">>} /\ written
      ELSE \/ w \in {RestoreWork(s),
                     <<"service", "timer", "reload", Enabling(s), Starting(s), "verify">>}
           \/ /\ w = <<"timer", "reload", Enabling(s), Starting(s), "verify">>
              /\ files.service = s.service
           \/ /\ w \in {<<"reload", Enabling(s), Starting(s), "verify">>,
                        <<Enabling(s), Starting(s), "verify">>}
              /\ written
           \/ w = <<Starting(s), "verify">> /\ written /\ enabled = s.enabled
           \/ w = <<"verify">> /\ written /\ enabled = s.enabled /\ active = s.active

RestoreInv ==
  /\ \A s, t \in captured : s = t
  /\ ~lapped /\ proc["sync"].op = "restore" =>
       \E s \in captured : proc["sync"].want = Job(s.service, s.timer)
                           /\ Back(s, proc["sync"].work)

\* Nothing is restored at first.
LEMMA InitRestore == Init => RestoreInv
  BY IdleIsAProcess DEF Init, RestoreInv

\* No step of the restore and no change of the machine: nothing is lost.
LEMMA ElsewhereKeeps ==
  ASSUME RestoreInv, UNCHANGED <<unit, captured>>, ~lapped' => ~lapped,
         proc'["sync"].op = "restore" => proc'["sync"] = proc["sync"]
  PROVE  RestoreInv'
  BY DEF RestoreInv, Back, unit

\* One call of a restore.
LEMMA BackCall ==
  ASSUME UnitInv, NEW s \in captured, NEW w, Back(s, w), proc["sync"].work = w,
         proc["sync"].want = Job(s.service, s.timer), Call1("sync") = Head(w),
         WriteUnit("sync") \/ DaemonReload("sync") \/ Enable("sync") \/ Start("sync")
           \/ TryDisable("sync")
  PROVE  Back(s, Tail(w))'
<1>1. Enabling(s) \in {"enable", "disable"} /\ Starting(s) \in {"start", "stop"}
  BY DEF Enabling, Starting
<1>2. Job(s.service, s.timer) \in Jobs
  BY DEF UnitInv, Jobs, Job
<1>3. CASE TryDisable("sync")
  <2>1. Head(w) = "try-disable"
    BY <1>3 DEF TryDisable
  <2>2. w = RestoreWork(s)
    BY <1>1, <2>1 DEF Back
  <2>3. CASE s.timer = None
    BY <2>2, <2>3 DEF Back, RestoreWork
  <2>4. CASE s.timer # None
    <3>1. Tail(w) = <<"service", "timer", "reload", Enabling(s), Starting(s), "verify">>
      BY <2>2, <2>4 DEF RestoreWork
    <3> QED BY <2>4, <3>1 DEF Back
  <2> QED BY <2>3, <2>4
<1>4. CASE DaemonReload("sync")
  <2>1. Head(w) = "reload" /\ files' = files
    BY <1>4 DEF DaemonReload
  <2>2. files = Job(s.service, s.timer)
        /\ w = IF s.timer = None THEN <<"reload", "verify">>
               ELSE <<"reload", Enabling(s), Starting(s), "verify">>
    BY <1>1, <2>1 DEF Back, RestoreWork
  <2>3. CASE s.timer = None
    BY <2>1, <2>2, <2>3 DEF Back
  <2>4. CASE s.timer # None
    <3>1. Tail(w) = <<Enabling(s), Starting(s), "verify">>
      BY <2>2, <2>4
    <3> QED BY <2>1, <2>2, <2>4, <3>1 DEF Back
  <2> QED BY <2>3, <2>4
<1>5. CASE WriteUnit("sync") /\ Head(w) = "service"
  <2>1. files'.service = s.service
    BY <1>5 DEF WriteUnit, UnitInv, Jobs, Job
  <2>2. w = IF s.timer = None THEN <<"service", "timer", "reload", "verify">>
            ELSE <<"service", "timer", "reload", Enabling(s), Starting(s), "verify">>
    BY <1>1, <1>5 DEF Back, RestoreWork
  <2>3. CASE s.timer = None
    BY <2>1, <2>2, <2>3 DEF Back
  <2>4. CASE s.timer # None
    <3>1. Tail(w) = <<"timer", "reload", Enabling(s), Starting(s), "verify">>
      BY <2>2, <2>4
    <3> QED BY <2>1, <2>4, <3>1 DEF Back
  <2> QED BY <2>3, <2>4
<1>6. CASE WriteUnit("sync") /\ Head(w) = "timer"
  <2>1. files.service = s.service
        /\ w = IF s.timer = None THEN <<"timer", "reload", "verify">>
               ELSE <<"timer", "reload", Enabling(s), Starting(s), "verify">>
    BY <1>1, <1>6 DEF Back, RestoreWork
  <2>2. files' \in Jobs /\ files'.service = s.service /\ files'.timer = s.timer
    BY <1>2, <1>6, <2>1 DEF WriteUnit, UnitInv, Jobs, Job
  <2>3. files' = Job(s.service, s.timer)
    BY <2>2 DEF Jobs, Job
  <2>4. CASE s.timer = None
    BY <2>1, <2>3, <2>4 DEF Back
  <2>5. CASE s.timer # None
    <3>1. Tail(w) = <<"reload", Enabling(s), Starting(s), "verify">>
      BY <2>1, <2>5
    <3> QED BY <2>3, <2>5, <3>1 DEF Back
  <2> QED BY <2>4, <2>5
<1>7. CASE Enable("sync")
  <2>1. Head(w) \in {"enable", "disable"} /\ files' = files /\ enabled' = (Head(w) = "enable")
    BY <1>7 DEF Enable
  <2>2. s.timer # None /\ w = <<Enabling(s), Starting(s), "verify">>
        /\ files = Job(s.service, s.timer)
    BY <1>1, <2>1 DEF Back, RestoreWork
  <2>3. Head(w) = Enabling(s) /\ Tail(w) = <<Starting(s), "verify">>
    BY <2>2
  <2>4. enabled' = s.enabled
    BY <2>1, <2>3 DEF Enabling, UnitInv
  <2> QED BY <2>1, <2>2, <2>3, <2>4 DEF Back
<1>8. CASE Start("sync")
  <2>1. Head(w) \in {"start", "stop"} /\ UNCHANGED <<files, enabled>>
        /\ active' = (Head(w) = "start")
    BY <1>8 DEF Start
  <2>2. s.timer # None /\ w = <<Starting(s), "verify">>
        /\ files = Job(s.service, s.timer) /\ enabled = s.enabled
    BY <1>1, <2>1 DEF Back, RestoreWork
  <2>3. Head(w) = Starting(s) /\ Tail(w) = <<"verify">>
    BY <2>2
  <2>4. active' = s.active
    BY <2>1, <2>3 DEF Starting, UnitInv
  <2> QED BY <2>1, <2>2, <2>3, <2>4 DEF Back
<1>9. WriteUnit("sync") => Head(w) \in {"service", "timer"}
  BY DEF WriteUnit
<1> QED BY <1>3, <1>4, <1>5, <1>6, <1>7, <1>8, <1>9

\* Each call of the restore makes the machine more like what was captured.
LEMMA RestoreCallKeeps ==
  ASSUME DecisionInv, UnitInv, RestoreInv, ~lapped, proc["sync"].op = "restore", Call("sync")
  PROVE  RestoreInv'
<1>1. PICK s \in captured : proc["sync"].want = Job(s.service, s.timer)
                            /\ Back(s, proc["sync"].work)
  BY DEF RestoreInv
<1>2. PICK w : w = proc["sync"].work
  OBVIOUS
<1>3. CASE Verify("sync")
  BY <1>3, IdleIsAProcess DEF Verify, Ends, Goes, RestoreInv, DecisionInv, TypesInv
<1>4. CASE ~Verify("sync")
  <2>1. Call1("sync") # None
    BY DEF Call, Inspect, WriteUnit, DaemonReload, Enable, Start, TryDisable, Verify, None
  <2>2. Call1("sync") = Head(w)
    BY <1>2, <2>1 DEF Call1
  <2>3. Head(w) # "inspect"
    <3>1. Enabling(s) # "inspect" /\ Starting(s) # "inspect"
      BY DEF Enabling, Starting
    <3> QED BY <1>1, <1>2, <3>1 DEF Back, RestoreWork
  <2>4. WriteUnit("sync") \/ DaemonReload("sync") \/ Enable("sync") \/ Start("sync")
          \/ TryDisable("sync")
    BY <1>4, <2>2, <2>3 DEF Call, Inspect
  <2>5. Proceeds("sync") /\ UNCHANGED <<captured, lapped>>
    BY <2>4 DEF WriteUnit, DaemonReload, Enable, Start, TryDisable, CallFrame
  <2>6. proc'["sync"].op = "restore" /\ proc'["sync"].want = proc["sync"].want
        /\ proc'["sync"].work = Tail(w)
    BY <1>2, <2>5 DEF Proceeds, Goes, DecisionInv, TypesInv, Process
  <2>7. Back(s, Tail(w))'
    BY <1>1, <1>2, <2>2, <2>4, BackCall
  <2>8. Back(s, proc["sync"].work)'
    BY <2>6, <2>7 DEF Back
  <2> QED BY <1>1, <2>5, <2>6, <2>8 DEF RestoreInv
<1> QED BY <1>3, <1>4

\* Whatever else happens: only a call of the other process can disturb a restore.
LEMMA NextRestore == DecisionInv /\ UnitInv /\ RestoreInv /\ [Next]_vars => RestoreInv'
<1> SUFFICES ASSUME DecisionInv, UnitInv, RestoreInv, [Next]_vars PROVE RestoreInv'
  OBVIOUS
<1> DEFINE restoring == ~lapped /\ proc["sync"].op = "restore"
<1>1. CASE Call("sync") \/ Call("cli")
  <2>1. CASE restoring
    <3>1. proc["cli"] = Idle
      BY <2>1, IdleIsAProcess DEF DecisionInv, OneRuns
    <3>2. ~Call("cli")
      BY <3>1, IdleIsAProcess
      DEF Call, Inspect, WriteUnit, DaemonReload, Enable, Start, TryDisable, Verify, Call1, None
    <3> QED BY <1>1, <2>1, <3>2, RestoreCallKeeps
  <2>2. CASE ~restoring
    <3>1. PICK p \in Processes : Call(p)
      BY <1>1
    <3>2. captured' \subseteq captured /\ UNCHANGED lapped
      BY <3>1 DEF Call, Inspect, WriteUnit, DaemonReload, Enable, Start, TryDisable, Verify, CallFrame
    <3>3. proc'["sync"].op = "restore" => proc["sync"].op = "restore"
      BY <3>1, IdleIsAProcess
      DEF Call, Inspect, WriteUnit, DaemonReload, Enable, Start, TryDisable, Verify, Ends, Proceeds,
          Goes, DecisionInv, TypesInv, Process
    <3> QED BY <2>2, <3>2, <3>3 DEF RestoreInv
  <2> QED BY <2>1, <2>2
<1>2. CASE RestoreScheduleRollback
  <2>1. PICK s \in captured :
          Begins("sync", Working("restore", Job(s.service, s.timer), RestoreWork(s)))
          /\ UNCHANGED captured
    BY <1>2 DEF RestoreScheduleRollback
  <2>2. proc'["sync"] = Working("restore", Job(s.service, s.timer), RestoreWork(s))
    BY <2>1 DEF Begins, Goes, DecisionInv, TypesInv
  <2>3. proc'["sync"].want = Job(s.service, s.timer) /\ proc'["sync"].work = RestoreWork(s)
    BY <2>2 DEF Working, Idle
  <2>4. Back(s, RestoreWork(s))'
    BY DEF Back
  <2>5. Back(s, proc["sync"].work)'
    BY <2>3, <2>4 DEF Back
  <2> QED BY <2>1, <2>3, <2>5 DEF RestoreInv
<1>3. CASE CaptureScheduleRollback
  BY <1>3, IdleIsAProcess DEF CaptureScheduleRollback, RestoreInv
<1>4. CASE (\E p \in Processes : Breaks(p)) \/ PersistScheduleOverride
             \/ PersistProfileScheduleDefault \/ StartSync \/ RemoveSchedule
             \/ (\E job \in Requests : SetSchedule(job))
             \/ (\E d \in Calendars \cup {None} : Publish(d) \/ StartRecovery(d)) \/ UNCHANGED vars
  <2>1. UNCHANGED <<unit, captured>>
    BY <1>4
    DEF Breaks, CallFrame, PersistScheduleOverride, PersistProfileScheduleDefault, StartSync,
        RemoveSchedule, SetSchedule, Decide, Publish, StartRecovery, vars
  <2>2. ~lapped' => ~lapped
    BY <1>4
    DEF Breaks, CallFrame, PersistScheduleOverride, PersistProfileScheduleDefault, StartSync,
        RemoveSchedule, SetSchedule, Decide, Publish, StartRecovery, Begins, vars
  <2>3. proc'["sync"].op = "restore" => proc'["sync"] = proc["sync"]
    <3>1. CASE PersistProfileScheduleDefault
      BY <3>1, IdleIsAProcess
      DEF PersistProfileScheduleDefault, Goes, Reconciled, Removal, Upsert, Working, Idle,
          DecisionInv, TypesInv
    <3>2. CASE StartSync
      BY <3>2 DEF StartSync, Begins, Goes, Idle, DecisionInv, TypesInv
    <3>3. ASSUME NEW d, StartRecovery(d) PROVE proc'["sync"].op = "recovery"
      BY <3>3 DEF StartRecovery, Begins, Goes, Idle, DecisionInv, TypesInv
    <3>4. CASE \E p \in Processes : Breaks(p)
      BY <3>4, IdleIsAProcess DEF Breaks, Ends, Goes, DecisionInv, TypesInv
    <3>5. CASE PersistScheduleOverride \/ RemoveSchedule \/ (\E job \in Requests : SetSchedule(job))
                 \/ (\E d \in Calendars \cup {None} : Publish(d)) \/ UNCHANGED vars
      BY <3>5
      DEF PersistScheduleOverride, RemoveSchedule, SetSchedule, Decide, Begins, Goes, Publish, vars,
          DecisionInv, TypesInv
    <3> QED BY <1>4, <3>1, <3>2, <3>3, <3>4, <3>5
  <2> QED BY <2>1, <2>2, <2>3, ElsewhereKeeps
<1> QED BY <1>1, <1>2, <1>3, <1>4 DEF Next, Go

\* When only the check is left, the machine is what was captured.
LEMMA RestoreInvExact == UnitInv /\ RestoreInv => RestoreIsExact
<1> SUFFICES ASSUME UnitInv, RestoreInv, ~lapped, proc["sync"].op = "restore",
                    Call1("sync") = "verify"
             PROVE  captured = {Snapshot}
  BY DEF RestoreIsExact
<1>1. PICK s \in captured : Back(s, proc["sync"].work)
  BY DEF RestoreInv
<1>2. PICK w : w = proc["sync"].work
  OBVIOUS
<1>3. Head(w) = "verify"
  BY <1>2 DEF Call1, None
<1>4. Enabling(s) # "verify" /\ Starting(s) # "verify"
  BY DEF Enabling, Starting
<1>5. files = Job(s.service, s.timer) /\ (s.timer # None => enabled = s.enabled /\ active = s.active)
  BY <1>1, <1>2, <1>3, <1>4 DEF Back, RestoreWork
<1>6. s = [service |-> s.service, timer |-> s.timer, enabled |-> s.enabled, active |-> s.active]
      /\ s.enabled \in BOOLEAN /\ s.active \in BOOLEAN /\ (s.enabled \/ s.active => s.timer # None)
  BY DEF UnitInv
<1>7. Snapshot = s
  BY <1>5, <1>6 DEF Snapshot, Job, UnitInv
<1> QED BY <1>7 DEF RestoreInv

\* A restore that made all its calls has put back exactly what was captured,
\* however many attempts broke off before it and whichever first call failed.
THEOREM RestoresAreExact == Scheduling => []RestoreIsExact
  BY Decision, InitRestore, NextRestore, RestoreInvExact, PTL DEF Scheduling
=============================================================================
