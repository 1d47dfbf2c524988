------------------------------- MODULE Hedge -------------------------------
(***************************************************************************)
(* The execution half of POST /hedge (hedge.rs): both legs are signed by    *)
(* now; a spawned task, which a timeout of the request does not stop, sends *)
(* them side by side, sorts each answer into ok, rejected or unknown, and   *)
(* reports one status.  A leg that reached the venue may be placed at any   *)
(* time, also after the gateway gave up waiting for the answer.             *)
(*                                                                          *)
(* The venues are assumed to be honest: a 4xx, an error code or a final     *)
(* status without a fill means that nothing was placed.                     *)
(***************************************************************************)
EXTENDS FiniteSets

CONSTANT Legs

ASSUME HedgeAssumption == Legs # {}

VARIABLES
    leg,      \* leg[l]: "idle", "signed", "sent", then its LegOutcome
    placed,   \* the venue's view: legs that became orders
    refused,  \* the venue's view: legs it will never place
    report    \* the status the caller got; "none" until then

hedgeVars == <<leg, placed, refused, report>>

LegOutcomes == {"ok", "rejected", "unknown"}
LegStages   == {"idle", "signed", "sent"} \cup LegOutcomes

HedgeInit ==
    /\ leg = [l \in Legs |-> "idle"]
    /\ placed = {} /\ refused = {}
    /\ report = "none"

\* post_hedge after both signatures: the task that executes is spawned.
Execute ==
    /\ \A l \in Legs : leg[l] = "idle"
    /\ report = "none"
    /\ leg' = [l \in Legs |-> "signed"]
    /\ UNCHANGED <<placed, refused, report>>

\* A leg that was not signed rejects the hedge: nothing is sent.
RejectHedge ==
    /\ \A l \in Legs : leg[l] = "idle"
    /\ report = "none"
    /\ report' = "rejected"
    /\ UNCHANGED <<leg, placed, refused>>

\* execute_leg: the venue cannot be connected to, so nothing was sent ...
ConnectFails(l) ==
    /\ leg[l] = "signed"
    /\ leg' = [leg EXCEPT ![l] = "rejected"]
    /\ UNCHANGED <<placed, refused, report>>

\* ... or the request goes out.
Send(l) ==
    /\ leg[l] = "signed"
    /\ leg' = [leg EXCEPT ![l] = "sent"]
    /\ UNCHANGED <<placed, refused, report>>

\* The venue: decides once on a leg that reached it, whether or not somebody
\* still waits for the answer.
Reached(l) == leg[l] \in {"sent", "unknown"} /\ l \notin placed \cup refused

VenuePlaces(l) ==
    /\ Reached(l)
    /\ placed' = placed \cup {l}
    /\ UNCHANGED <<leg, refused, report>>

VenueRefuses(l) ==
    /\ Reached(l)
    /\ refused' = refused \cup {l}
    /\ UNCHANGED <<leg, placed, report>>

\* classify_receipt and the status line: a readable verdict of the venue.
Verdict(l) == IF l \in placed THEN "ok" ELSE "rejected"

LegAnswered(l) ==
    /\ leg[l] = "sent"
    /\ l \in placed \cup refused
    /\ leg' = [leg EXCEPT ![l] = Verdict(l)]
    /\ UNCHANGED <<placed, refused, report>>

\* Mutated form of LegLost: no answer counts as a rejection.
LegLostIsRejected(l) ==
    /\ leg[l] = "sent"
    /\ leg' = [leg EXCEPT ![l] = "rejected"]
    /\ UNCHANGED <<placed, refused, report>>

\* A timeout, a broken connection, a body that is too long, a 5xx or an answer
\* that is not JSON: whatever the venue did, the gateway does not know.
LegLost(l) ==
    /\ leg[l] = "sent"
    /\ leg' = [leg EXCEPT ![l] = "unknown"]
    /\ UNCHANGED <<placed, refused, report>>

\* The status of the pair: one unknown leg makes it unknown.
HedgeStatus ==
    LET ok == {l \in Legs : leg[l] = "ok"}
    IN IF \E l \in Legs : leg[l] = "unknown" THEN "unknown"
       ELSE IF ok = Legs THEN "executed"
       ELSE IF ok = {} THEN "failed" ELSE "partial"

\* Both legs are sorted and the caller is told.
ReportHedge ==
    /\ \A l \in Legs : leg[l] \in LegOutcomes
    /\ report = "none"
    /\ report' = HedgeStatus
    /\ UNCHANGED <<leg, placed, refused>>

\* The spawned task dies: what was not sent never will be, and the caller is told
\* that the state is unknown.
ExecutionPanics ==
    /\ \E l \in Legs : leg[l] # "idle"
    /\ report = "none"
    /\ report' = "unknown"
    /\ leg' = [l \in Legs |-> CASE leg[l] = "signed" -> "rejected"
                               [] leg[l] = "sent" -> "unknown"
                               [] OTHER -> leg[l]]
    /\ UNCHANGED <<placed, refused>>

\* The spawned task and the venues.
ExecutionStep ==
    \E l \in Legs :
        \/ ConnectFails(l) \/ Send(l) \/ LegAnswered(l) \/ LegLost(l)
        \/ VenuePlaces(l) \/ VenueRefuses(l)

HedgeNext == Execute \/ RejectHedge \/ ExecutionStep \/ ReportHedge \/ ExecutionPanics

HedgeSpec == HedgeInit /\ [][HedgeNext]_hedgeVars

-----------------------------------------------------------------------------

\* Types of the execution.
HedgeTypeOK ==
    /\ leg \in [Legs -> LegStages]
    /\ placed \in SUBSET Legs /\ refused \in SUBSET Legs
    /\ report \in {"none", "executed", "partial", "failed", "rejected", "unknown"}

\* The orders at the venues and the status in the answer.
Promise == INSTANCE HedgePromise WITH live <- placed, told <- report

\* What the caller is told about the two orders is true and stays true, whichever
\* leg fails, times out or is answered late, and whether or not the request that
\* started the execution is still there (post_hedge, execute_leg).
HedgeKeepsPromise == Promise!Spec

=============================================================================
