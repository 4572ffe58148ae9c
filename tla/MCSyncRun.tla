----------------------------- MODULE MCSyncRun -----------------------------
(* Instances of SyncRun for TLC: plans and bounds. *)
EXTENDS SyncRun, TLC

\* Invocations are interchangeable.
Symmetry == Permutations(Proc)

PlanOf(ks) == [a \in 1..Len(ks) |-> ks[a]]

\* Two actions: every kind in front of and behind a deterministic one.
FilePlans == {PlanOf(<<"write", "mirror">>), PlanOf(<<"mirror", "append">>),
              PlanOf(<<"verify", "write">>), PlanOf(<<"append", "transfer">>)}
OutcomePlans == {PlanOf(<<"write", "human">>), PlanOf(<<"mirror", "agent">>),
                 PlanOf(<<"write", "drift">>), PlanOf(<<"agent", "write">>)}
RemovalPlans == {PlanOf(<<"remove", "write">>), PlanOf(<<"write", "remove">>)}
InstallPlans == {PlanOf(<<"install", "write">>), PlanOf(<<"mirror", "install">>)}
CreatedPlans == {PlanOf(<<"write", "agent">>)}
UndoPlans == FilePlans \cup OutcomePlans \cup CreatedPlans
\* Plans with an append-local target that users edit. An edit may leave a run
\* stranded; in front of the edited action stands none that every recovery
\* journals again, as removals and installers are.
AppendPlans == {PlanOf(<<"mirror", "append">>), PlanOf(<<"append", "transfer">>),
                PlanOf(<<"append", "agent">>)}
AllPlans == FilePlans \cup OutcomePlans \cup RemovalPlans \cup InstallPlans \cup AppendPlans
CreationPlans == {PlanOf(<<"write", "mirror">>)}
\* One action, for several invocations.
SinglePlans == {PlanOf(<<"write">>)}

\* A mix of mishaps.
Mishaps(crash, fsErrors, dbErrors, interrupt, edit, abandon) ==
  [m \in Mishap |-> CASE m = "crash" -> crash [] m = "fs" -> fsErrors
                      [] m = "db" -> dbErrors [] m = "interrupt" -> interrupt
                      [] m = "edit" -> edit [] m = "abandon" -> abandon]

\* A crash and a filesystem error with a second crash, an interrupt or a refused
\* transaction.
Faults == {Mishaps(2, 1, 0, 0, 0, 0), Mishaps(1, 1, 0, 1, 0, 0),
           Mishaps(1, 1, 1, 0, 0, 0)}
\* A user's edit, or two, and what stops or fails an invocation around it.
Edits == {Mishaps(2, 0, 0, 0, 1, 0), Mishaps(1, 1, 0, 0, 1, 0),
          Mishaps(0, 1, 0, 1, 1, 0), Mishaps(1, 0, 0, 0, 2, 0)}
FaultsOrEdits == Faults \cup Edits
\* A constraint on the states TLC goes on from: users edit beside the plans for
\* it only, from the moment one is made.
EditsBesideAppend ==
  spent["edit"] > 0 =>
    IF cur = 0 THEN \E p \in Proc : proc[p].plan \in AppendPlans ELSE plan[cur] \in AppendPlans
CrashAndErrors == {Mishaps(1, 2, 0, 0, 0, 0)}
CrashAndError == {Mishaps(1, 1, 0, 0, 0, 0)}
CrashesOnly == {Mishaps(1, 0, 0, 1, 0, 0), Mishaps(2, 0, 0, 0, 0, 0)}
CrashesOrErrors == CrashesOnly \cup CrashAndErrors
Overlap == {Mishaps(0, 0, 0, 1, 0, 1)}
=============================================================================
