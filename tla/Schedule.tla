------------------------------ MODULE Schedule ------------------------------
(***************************************************************************)
(* The native job that runs sync --apply on a follower (src/schedule, the  *)
(* systemd backend of src/machine/linux.layer.ts, and what the commands    *)
(* and the synchronization make of it).                                    *)
(*                                                                         *)
(* The follower's configuration holds the schedule its user decided on,    *)
(* and the default of the profile.  A command or a sync reads it whole,    *)
(* writes it back whole, and then changes the job: two unit files, what    *)
(* the user manager has loaded, and whether the timer is enabled and       *)
(* active.  Each of these is a call of its own that may fail, and the      *)
(* process may die between any two.                                        *)
(*                                                                         *)
(* A job is a pair of unit contents: the service stands for the executable *)
(* and its arguments, the timer for the calendar.                          *)
(***************************************************************************)
EXTENDS Naturals, Sequences

CONSTANTS
  Calendars,    \* what a user or a profile may ask for
  Unsupported,  \* those the platform or the validation refuses
  MaxEdits,     \* bound: commands of the user, new defaults of the profile
  MaxTrouble    \* bound: crashes, failed calls, runs that do not converge, overlaps

ASSUME CalendarsAreSane ==
  /\ Unsupported \subseteq Calendars /\ "none" \notin Calendars
  /\ {MaxEdits, MaxTrouble} \subseteq Nat

VARIABLES
  files,      \* the unit files: service and timer
  loaded,     \* the timer as of the last daemon-reload
  enabled, active,
  config,     \* the override of the user and the inherited default
  published,  \* the default of the profile's newest revision
  captured,   \* the snapshot a rollback has to restore
  proc,       \* the running command and the running synchronization
  lapped,     \* history: the two were running at once
  edits, trouble

unit == <<files, loaded, enabled, active>>
vars == <<unit, config, published, captured, proc, lapped, edits, trouble>>

None == "none"
Job(x, c) == [service |-> x, timer |-> c]
NoJob == Job(None, None)
Found == "found"      \* the canonfig executable of PATH
Requests == [service : {Found, "own"}, timer : Calendars]

\* What the user may have decided: nothing, that there is no job, or a job.
Inherit == Job("inherit", "inherit")
Decisions == {Inherit, NoJob} \cup Requests

Processes == {"cli", "sync"}
Unread == [override |-> Inherit, deft |-> None]
Idle == [op |-> "idle", work |-> <<>>, want |-> NoJob, conf |-> Unread, deft |-> None]

-----------------------------------------------------------------------------
(* What the scheduler manager sees.                                        *)

Installed == files.service # None /\ files.timer # None
IsCurrentIfEnabled(want) == Installed /\ enabled
IsCurrent(want) == Installed /\ files = want /\ enabled

\* is-enabled and is-active are asked only of a timer that has its file.
Snapshot == [service |-> files.service, timer |-> files.timer,
             enabled |-> files.timer # None /\ enabled,
             active |-> files.timer # None /\ active]

\* The calls each operation makes, in order.
InstallWork == <<"service", "timer", "reload", "enable", "start", "verify">>
RemoveWork == <<"try-disable", "service", "timer", "reload", "verify">>
RestoreWorkByEnabled(s) ==
  IF s.timer = None THEN <<"try-disable", "service", "timer", "reload", "verify">>
  ELSE <<"try-disable", "service", "timer", "reload",
         IF s.enabled THEN "enable" ELSE "disable", IF s.enabled THEN "start" ELSE "stop", "verify">>
\* The state of the timer is put back as it was, if there was a timer.
Enabling(s) == IF s.enabled THEN "enable" ELSE "disable"
Starting(s) == IF s.active THEN "start" ELSE "stop"
RestoreWork(s) ==
  IF s.timer = None THEN <<"try-disable", "service", "timer", "reload", "verify">>
  ELSE <<"try-disable", "service", "timer", "reload", Enabling(s), Starting(s), "verify">>

Init ==
  /\ files = NoJob /\ loaded = None /\ enabled = FALSE /\ active = FALSE
  /\ config = Unread
  /\ published \in (Calendars \ Unsupported) \cup {None}
  /\ captured = {}
  /\ proc = [p \in Processes |-> Idle]
  /\ lapped = FALSE /\ edits = 0 /\ trouble = 0

-----------------------------------------------------------------------------
(* Processes.                                                              *)

Goes(p, r) == proc' = [proc EXCEPT ![p] = r]
Ends(p) == Goes(p, Idle)
Faulty == trouble < MaxTrouble /\ trouble' = trouble + 1
Smooth == UNCHANGED trouble

\* The call a process makes next.
Call1(p) == IF proc[p].work = <<>> THEN None ELSE Head(proc[p].work)

\* A process begins with the configuration it reads.
Begins(p, r) ==
  /\ proc[p] = Idle
  /\ IF \A q \in Processes : proc[q] = Idle THEN Smooth /\ UNCHANGED lapped
     ELSE Faulty /\ lapped' = TRUE
  /\ Goes(p, r)

Working(op, want, work) == [Idle EXCEPT !.op = op, !.want = want, !.work = work]
Upsert(want) == Working("upsert", want, <<"inspect">>)
Removal == Working("remove", NoJob, <<"inspect">>)

\* The configuration is one row, and is written whole.
SaveConfiguration(c) == config' = c

\* schedule set and schedule remove record the decision, then change the job.
Decide(work) ==
  /\ edits < MaxEdits /\ edits' = edits + 1
  /\ Begins("cli", [work EXCEPT !.work = <<"persist">> \o @, !.conf = config])
  /\ UNCHANGED <<unit, config, published, captured>>

SetSchedule(job) == Decide(Upsert(job))
RemoveSchedule == Decide(Removal)

PersistScheduleOverride ==
  /\ Call1("cli") = "persist" /\ Smooth
  /\ SaveConfiguration([proc["cli"].conf EXCEPT !.override = proc["cli"].want])
  /\ Goes("cli", [proc["cli"] EXCEPT !.work = Tail(@), !.conf = Unread])
  /\ UNCHANGED <<unit, published, captured, lapped, edits>>

\* A synchronization reads the configuration and the revision, and runs.
StartSync ==
  /\ Begins("sync", [Idle EXCEPT !.op = "run", !.conf = config, !.deft = published])
  /\ UNCHANGED <<unit, config, published, captured, edits>>

\* A recovery records the default of the revision that was interrupted, whichever
\* that was, and leaves the job alone.
StartRecovery(d) ==
  /\ edits < MaxEdits /\ edits' = edits + 1
  /\ Begins("sync", [Idle EXCEPT !.op = "recovery", !.conf = config, !.deft = d])
  /\ UNCHANGED <<unit, config, published, captured>>

\* What the sync does about the job once the run has converged.
ReconciledAnyway(conf, deft) ==
  IF deft = None THEN Removal ELSE Upsert(Job(Found, deft))
Reconciled(conf, deft) ==
  IF conf.override # Inherit THEN Idle
  ELSE IF deft = None THEN Removal ELSE Upsert(Job(Found, deft))

\* persistProfileScheduleDefault, then reconcileInheritedSchedule.
PersistProfileScheduleDefault ==
  LET p == proc["sync"] IN
    /\ p.op \in {"run", "recovery"} /\ Smooth
    /\ SaveConfiguration([p.conf EXCEPT !.deft = p.deft])
    /\ Goes("sync", IF p.op = "run" THEN Reconciled(p.conf, p.deft) ELSE Idle)
    /\ UNCHANGED <<unit, published, captured, lapped, edits>>

\* The rollback of a schedule action: the job is captured before a run changes
\* it, and restored until a restore has succeeded.  No command of this version
\* calls the two; the contract of the manager and its tests do.
CaptureScheduleRollback ==
  /\ captured = {} /\ edits < MaxEdits /\ edits' = edits + 1
  /\ \A p \in Processes : proc[p] = Idle
  /\ captured' = {Snapshot}
  /\ UNCHANGED <<unit, config, published, proc, lapped, trouble>>

RestoreScheduleRollback ==
  /\ \E s \in captured :
       Begins("sync", Working("restore", Job(s.service, s.timer), RestoreWork(s)))
  /\ UNCHANGED <<unit, config, published, captured, edits>>

-----------------------------------------------------------------------------
(* The calls to the machine.                                               *)

Proceeds(p) == Goes(p, [proc[p] EXCEPT !.work = Tail(@)])
CallFrame == UNCHANGED <<config, published, captured, lapped, edits>>

\* upsert and remove look first; an invalid schedule is found out only here.
Inspect(p) ==
  LET want == proc[p].want
      over == IF proc[p].op = "upsert" THEN want.timer \in Unsupported \/ IsCurrent(want)
                                       ELSE ~Installed
      work == IF proc[p].op = "upsert" THEN InstallWork ELSE RemoveWork
  IN /\ Call1(p) = "inspect" /\ Smooth
     /\ Goes(p, IF over THEN Idle ELSE [proc[p] EXCEPT !.work = work])
     /\ UNCHANGED unit /\ CallFrame

WriteUnit(p) ==
  /\ Call1(p) \in {"service", "timer"} /\ Smooth
  /\ files' = [files EXCEPT ![Call1(p)] = proc[p].want[Call1(p)]]
  /\ Proceeds(p)
  /\ UNCHANGED <<loaded, enabled, active>> /\ CallFrame

DaemonReload(p) ==
  /\ Call1(p) = "reload" /\ Smooth
  /\ loaded' = files.timer
  /\ Proceeds(p)
  /\ UNCHANGED <<files, enabled, active>> /\ CallFrame

\* enable --now is enable and start; disable --now, whose failure is ignored,
\* is disable and stop.
Enable(p) ==
  /\ Call1(p) \in {"enable", "disable"} /\ Smooth
  /\ enabled' = (Call1(p) = "enable")
  /\ Proceeds(p)
  /\ UNCHANGED <<files, loaded, active>> /\ CallFrame

Start(p) ==
  /\ Call1(p) \in {"start", "stop"} /\ Smooth
  /\ active' = (Call1(p) = "start")
  /\ Proceeds(p)
  /\ UNCHANGED <<files, loaded, enabled>> /\ CallFrame

TryDisable(p) ==
  /\ Call1(p) = "try-disable"
  /\ \/ files.timer # None /\ Smooth /\ enabled' = FALSE /\ active' = FALSE
     \/ files.timer = None /\ Smooth /\ UNCHANGED <<enabled, active>>
     \/ Faulty /\ UNCHANGED <<enabled, active>>
  /\ Proceeds(p)
  /\ UNCHANGED <<files, loaded>> /\ CallFrame

Verified(p) ==
  CASE proc[p].op = "upsert" -> IsCurrent(proc[p].want)
    [] proc[p].op = "remove" -> ~Installed
    [] proc[p].op = "restore" -> captured = {Snapshot}
    [] OTHER -> TRUE

\* The operation is verified: it succeeds, or fails; the rollback is used up.
Verify(p) ==
  /\ Call1(p) = "verify" /\ Smooth
  /\ Ends(p)
  /\ captured' = IF proc[p].op = "restore" /\ Verified(p) THEN {} ELSE captured
  /\ UNCHANGED <<unit, config, published, lapped, edits>>

\* A call fails, a run does not converge, or the process dies.
Breaks(p) ==
  /\ proc[p] # Idle /\ Faulty
  /\ Ends(p)
  /\ UNCHANGED unit /\ CallFrame

Publish(d) ==
  /\ published # d /\ edits < MaxEdits
  /\ published' = d /\ edits' = edits + 1
  /\ UNCHANGED <<unit, config, captured, proc, lapped, trouble>>

-----------------------------------------------------------------------------
Call(p) ==
  \/ Inspect(p) \/ WriteUnit(p) \/ DaemonReload(p)
  \/ Enable(p) \/ Start(p) \/ TryDisable(p) \/ Verify(p)

Go ==
  \/ PersistScheduleOverride \/ PersistProfileScheduleDefault
  \/ \E p \in Processes : Call(p)

Next ==
  \/ Go \/ StartSync \/ RestoreScheduleRollback
  \/ CaptureScheduleRollback \/ RemoveSchedule
  \/ \E job \in Requests : SetSchedule(job)
  \/ \E p \in Processes : Breaks(p)
  \/ \E d \in Calendars \cup {None} : Publish(d) \/ StartRecovery(d)

\* What runs goes on, and the follower is synchronized again and again.
Fairness == WF_vars(Go \/ StartSync)

Scheduling == Init /\ [][Next]_vars /\ Fairness

-----------------------------------------------------------------------------
(* Properties.                                                             *)

TypeOK ==
  /\ files \in [service : {None, Found, "own"}, timer : Calendars \cup {None}]
  /\ loaded \in Calendars \cup {None}
  /\ {enabled, active, lapped} \subseteq BOOLEAN
  /\ config \in [override : Decisions, deft : Calendars \cup {None}]
  /\ published \in Calendars \cup {None}
  /\ \A s \in captured : s.enabled \/ s.active => s.timer # None
  /\ \A p \in Processes :
       /\ proc[p].op \in {"idle", "run", "recovery", "upsert", "remove", "restore"}
       /\ proc[p].op = "idle" <=> proc[p] = Idle
  /\ edits \in 0 .. MaxEdits /\ trouble \in 0 .. MaxTrouble

\* Where the user has decided, no synchronization and no recovery touches the
\* job or the decision, unless a command ran beside it (README, native
\* scheduling; reconcileInheritedSchedule).
UserDecides ==
  [][~lapped' /\ proc["sync"].op \notin {"idle", "restore"} /\ config.override # Inherit
       => UNCHANGED <<unit, config.override>>]_vars

\* A restore that made all its calls has put back exactly what was captured,
\* even where the first call failed and was ignored and where an earlier
\* attempt broke off (scheduleManager.restore: "its exact prior state").
RestoreIsExact ==
  ~lapped /\ proc["sync"].op = "restore" /\ Call1("sync") = "verify" => captured = {Snapshot}

\* A follower whose user has not decided ends up with the job the profile
\* asks for, and with none when it asks for none, whatever broke on the way.
InheritedIsInstalled ==
  <>[](~lapped /\ config.override = Inherit /\ published \notin Unsupported
         => /\ config.deft = published
            /\ IF published = None THEN ~Installed
               ELSE files = Job(Found, published) /\ enabled)
=============================================================================
