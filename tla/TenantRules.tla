---------------------------- MODULE TenantRules ----------------------------
(***************************************************************************)
(* The rules of the gateway's per-tenant kill switch that do not touch      *)
(* state: the order of the three tenant states, who may move a tenant       *)
(* where, what a transition does to the unwind job's status, and which      *)
(* class of route each state lets through (tenant_state.rs).                *)
(***************************************************************************)
EXTENDS Integers

Active     == "Active"
CancelOnly == "CancelOnly"
Halted     == "Halted"

TenantStates == {Active, CancelOnly, Halted}

Actors == {"Operator", "Client", "Automation"}

\* The derived Ord of `enum TenantState`: ACTIVE < CANCEL_ONLY < HALTED.
Severity(s) == CASE s = Active -> 0 [] s = CancelOnly -> 1 [] OTHER -> 2

(***************************************************************************)
(* Status of the unwind job carried by a tenant record.  "None" is a record *)
(* without a status: one written before the job existed.                    *)
(***************************************************************************)
FinalPhases == {"Done", "Failed", "Terminated"}
Phases      == {"None", "Pending", "Running"} \cup FinalPhases

IsFinal(phase) == phase \in FinalPhases

\* A tenant without a record is ACTIVE; records are never deleted.
NoRecord == [state |-> Active, by |-> "nobody", phase |-> "None"]

Records == [state : TenantStates, by : Actors \cup {"nobody"}, phase : Phases]

\* Mutated form of Refused: any actor may lower the state.
RefusedUnlessReason(current, to, by, reason) ==
    \/ by = "Operator" /\ ~reason
    \/ by = "Automation" /\ to # CancelOnly

(***************************************************************************)
(* TenantStateStore::transition, the decision half.  The operator must give *)
(* a reason; automation may only ask for CANCEL_ONLY; asking for the        *)
(* current state changes nothing; only the operator lowers the state.       *)
(***************************************************************************)
Refused(current, to, by, reason) ==
    \/ by = "Operator" /\ ~reason
    \/ by = "Automation" /\ to # CancelOnly
    \/ by # "Operator" /\ Severity(to) < Severity(current)

Changes(current, to, by, reason) ==
    /\ ~Refused(current, to, by, reason)
    /\ to # current

\* The status after a transition: a release, or a stop that finds a job that
\* is not final, keeps it; every other stop arms a fresh one.
PhaseAfter(phase, to) ==
    IF to = Active \/ phase \in {"Pending", "Running"} THEN phase ELSE "Pending"

Moved(rec, to, by) == [state |-> to, by |-> by, phase |-> PhaseAfter(rec.phase, to)]

\* TenantStateStore::update_reconcile: nothing happens without a record.
WithPhase(rec, phase) ==
    IF rec = NoRecord THEN rec ELSE [rec EXCEPT !.phase = phase]

\* TenantStateStore::reconcile_candidates: stopped, and no final status.
JobDue(rec) == rec.state # Active /\ ~IsFinal(rec.phase)

(***************************************************************************)
(* Route classes and the decision matrix of `decide`.                       *)
(***************************************************************************)
RouteClasses == {"Order", "Cancel", "Read", "MoneyMoving", "BodyDecides", "Exempt", "Unknown"}

AllowedClasses(s) ==
    CASE s = Active     -> RouteClasses
      [] s = CancelOnly -> {"Cancel", "Read", "Exempt", "BodyDecides"}
      [] OTHER          -> {"Exempt"}

=============================================================================
