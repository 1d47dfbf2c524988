----------------------------- MODULE Reconcile -----------------------------
(***************************************************************************)
(* The automatic unwind that follows a stop (reconcile.rs), composed with   *)
(* the tenant-state store: presses on worker threads, the claim set that    *)
(* keeps one job per tenant, the job's rounds of list and cancel against    *)
(* the venues, operator release, panics, gateway restarts, and the orders   *)
(* that passed the kill switch while the tenant was still ACTIVE.           *)
(*                                                                          *)
(* Every `.await` and every acquisition of the store's lock ends a step.    *)
(***************************************************************************)
EXTENDS TenantState, FiniteSets

CONSTANTS
    Pressers,    \* worker threads that run a press handler
    Jobs,        \* spawned unwind tasks alive at one time
    Venues,      \* trading venues a tenant has a staged blob for
    Supported,   \* the ones this version can unwind
    Orders,      \* client orders
    Owner,       \* Owner[o]: the tenant of order o
    VenueOf,     \* VenueOf[o]: the venue of order o
    Tokens,      \* tenants with an entry in SIGNER_API_TOKENS
    MaxRounds,   \* MAX_ROUNDS
    MaxPresses,  \* bound: presses that change a state
    MaxCrashes,  \* bound: restarts
    MaxPanics    \* bound: panics of an unwind task

ASSUME ReconcileAssumption ==
    /\ Supported \subseteq Venues
    /\ Owner \in [Orders -> Customers]
    /\ VenueOf \in [Orders -> Venues]
    /\ MaxRounds \in Nat \ {0}
    /\ MaxPresses \in Nat /\ MaxCrashes \in Nat /\ MaxPanics \in Nat

VARIABLES
    press,    \* press[p]: the presser's stage and tenant
    claims,   \* RUNNING: tenants whose claim is held
    job,      \* job[j]: locals of the spawned task
    order,    \* order[o]: how far an order got
    unseen,   \* history: orders at rest that no listing has returned yet
    after,    \* history: cancel batches sent to a tenant since its release
    turned,   \* history: tenants a kick of this process left to a held claim
    spent     \* bounds: presses, crashes and panics so far

ownVars == <<press, claims, job, order, unseen, after, turned, spent>>
vars == <<storeVars, ownVars>>

IdlePress == [at |-> "idle"]

\* `seen` is VenueReconcile::resting: None, Some(0) or Some(n).
FreshJob(c) ==
    [cust |-> c, at |-> "spawned", rounds |-> 0, clean |-> TRUE, todo |-> {},
     cur |-> {}, seen |-> [v \in Venues |-> "unknown"], gated |-> FALSE,
     verdict |-> "Failed"]
NoJob == [at |-> "idle"]

Live(j) == job[j].at # "idle"

Init ==
    /\ StoreInit
    /\ press = [p \in Pressers |-> IdlePress]
    /\ claims = {}
    /\ job = [j \in Jobs |-> NoJob]
    /\ order = [o \in Orders |-> "idle"]
    /\ unseen = {}
    /\ after = [c \in Customers |-> 0]
    /\ turned = {}
    /\ spent = [presses |-> 0, crashes |-> 0, panics |-> 0]

-----------------------------------------------------------------------------
(* Presses: post_tenant_halt and admin_set.  No await separates the         *)
(* transition from the kick, but other threads run between them.            *)

\* Mutated form of Press: the state is written without asking `transition`.
PressUnchecked(p, c, to, by, reason, ok) ==
    /\ proc = "up"
    /\ press[p].at = "idle"
    /\ spent.presses < MaxPresses
    /\ tenants' = [tenants EXCEPT ![c] = Moved(@, to, by)]
    /\ Persist(ok)
    /\ press' = [press EXCEPT ![p] = [at |-> "changed", cust |-> c]]
    /\ after' = [after EXCEPT ![c] = 0]
    /\ spent' = [spent EXCEPT !.presses = @ + 1]
    /\ UNCHANGED <<proc, claims, job, order, unseen, turned>>

Press(p, c, to, by, reason, ok) ==
    /\ press[p].at = "idle"
    /\ spent.presses < MaxPresses
    /\ Transition(c, to, by, reason, ok)
    /\ press' = [press EXCEPT ![p] = [at |-> "changed", cust |-> c]]
    /\ after' = [after EXCEPT ![c] = 0]
    /\ spent' = [spent EXCEPT !.presses = @ + 1]
    /\ UNCHANGED <<claims, job, order, unseen, turned>>

\* kick, first half: reconcile_candidates under the read lock.
KickDue(p) ==
    /\ press[p].at = "changed"
    /\ press' = [press EXCEPT ![p] =
                    IF JobDue(tenants[@.cust]) THEN [@ EXCEPT !.at = "due"] ELSE IdlePress]
    /\ UNCHANGED <<storeVars, claims, job, order, unseen, after, turned, spent>>

\* kick, second half: try_claim, and the task is spawned only if it succeeds.
KickClaim(p) ==
    /\ press[p].at = "due"
    /\ LET c == press[p].cust
       IN \/ /\ c \in claims
             /\ turned' = turned \cup {c}
             /\ UNCHANGED <<claims, job>>
          \/ /\ c \notin claims
             /\ \E j \in Jobs :
                   /\ ~Live(j)
                   /\ job' = [job EXCEPT ![j] = FreshJob(c)]
             /\ claims' = claims \cup {c}
             /\ UNCHANGED turned
    /\ press' = [press EXCEPT ![p] = IdlePress]
    /\ UNCHANGED <<storeVars, order, unseen, after, spent>>

-----------------------------------------------------------------------------
(* The spawned task: kick's closure and `run`.                              *)

\* A task step that writes no tenant record.
Quiet == UNCHANGED <<storeVars, press, claims, turned, spent>>

\* A task step that writes the record's status and nothing outside the store.
Recorded(c, phase, ok) ==
    /\ JobUpdate(c, phase, ok)
    /\ UNCHANGED <<press, claims, order, unseen, after, turned, spent>>

\* The task's first writes: Failed when the tenant has no token, else Running.
Begin(j, ok) ==
    /\ job[j].at = "spawned"
    /\ \/ /\ job[j].cust \notin Tokens
          /\ Recorded(job[j].cust, "Failed", ok)
          /\ job' = [job EXCEPT ![j].at = "leaving"]
       \/ /\ job[j].cust \in Tokens
          /\ Recorded(job[j].cust, "Running", ok)
          /\ job' = [job EXCEPT ![j].at = "round"]

\* Mutated form of Round: rounds are not counted.
RoundUncounted(j) ==
    /\ job[j].at = "round"
    /\ job' = [job EXCEPT ![j] =
          IF StateOf(@.cust) = Active
          THEN [@ EXCEPT !.verdict = "Terminated", !.at = "verdict"]
          ELSE [@ EXCEPT !.clean = TRUE, !.todo = Supported, !.at = "list"]]
    /\ Quiet /\ UNCHANGED <<order, unseen, after>>

\* Head of the round loop: out of rounds, released, or another round.
Round(j) ==
    /\ job[j].at = "round"
    /\ LET t == job[j]
           n == t.rounds + 1
       IN job' = [job EXCEPT ![j] =
          IF t.rounds = MaxRounds THEN [t EXCEPT !.at = "verdict"]
          ELSE IF StateOf(t.cust) = Active
          THEN [t EXCEPT !.rounds = n, !.verdict = "Terminated", !.at = "verdict"]
          ELSE [t EXCEPT !.rounds = n, !.clean = TRUE, !.todo = Supported, !.at = "list"]]
    /\ Quiet /\ UNCHANGED <<order, unseen, after>>

Resting(c, v) == {o \in Orders : order[o] = "resting" /\ Owner[o] = c /\ VenueOf[o] = v}

\* Mutated form of ListFails: an unreadable book counts as an empty one.
ListFailsClean(j, v) ==
    /\ job[j].at = "list" /\ v \in job[j].todo
    /\ job' = [job EXCEPT ![j].todo = @ \ {v}, ![j].seen[v] = "clean"]
    /\ Quiet /\ UNCHANGED <<order, unseen, after>>

\* list_open failed (signature refused, venue error, unreadable answer).
ListFails(j, v) ==
    /\ job[j].at = "list" /\ v \in job[j].todo
    /\ job' = [job EXCEPT ![j].todo = @ \ {v}, ![j].seen[v] = "unknown", ![j].clean = FALSE]
    /\ Quiet /\ UNCHANGED <<order, unseen, after>>

\* list_open returned the resting orders; an empty book needs no cancel.
List(j, v) ==
    /\ job[j].at = "list" /\ v \in job[j].todo
    /\ LET found == Resting(job[j].cust, v)
       IN /\ IF found = {}
             THEN job' = [job EXCEPT ![j].todo = @ \ {v}, ![j].seen[v] = "clean"]
             ELSE job' = [job EXCEPT ![j].seen[v] = "dirty", ![j].clean = FALSE,
                                     ![j].cur = {v}, ![j].at = "recheck"]
          /\ unseen' = unseen \ found
    /\ Quiet /\ UNCHANGED <<order, after>>

\* Mutated form of Recheck: the release is not looked at before the cancels.
RecheckSkipped(j) ==
    /\ job[j].at = "recheck"
    /\ job' = [job EXCEPT ![j].at = "cancel"]
    /\ Quiet /\ UNCHANGED <<order, unseen, after>>

\* The second look at the tenant state, right before the cancels are sent.
Recheck(j) ==
    /\ job[j].at = "recheck"
    /\ job' = [job EXCEPT ![j] =
          IF StateOf(@.cust) = Active
          THEN [@ EXCEPT !.verdict = "Terminated", !.at = "verdict"]
          ELSE [@ EXCEPT !.at = "cancel"]]
    /\ Quiet /\ UNCHANGED <<order, unseen, after>>

\* ops.cancel: any of the venue's resting orders may be gone afterwards (the job
\* believes no acknowledgement, it lists again); a refused cancel may carry the
\* intent-gate mark.
Cancel(j) ==
    /\ job[j].at = "cancel"
    /\ LET c == job[j].cust
           v == CHOOSE w \in job[j].cur : TRUE
       IN \E gone \in SUBSET Resting(c, v), gated \in {job[j].gated, TRUE} :
             /\ order' = [o \in Orders |-> IF o \in gone THEN "closed" ELSE order[o]]
             /\ unseen' = unseen \ gone
             /\ job' = [job EXCEPT ![j].todo = @ \ {v}, ![j].cur = {}, ![j].gated = gated,
                                   ![j].at = "list"]
             /\ after' = IF StateOf(c) = Active THEN [after EXCEPT ![c] = @ + 1] ELSE after
    /\ Quiet

\* Every supported venue was visited: the progress is recorded and the round
\* judged.  (A first round that is clean found nothing, so the code's two
\* conditions for Done are one.)
RoundEnd(j, ok) ==
    /\ job[j].at = "list" /\ job[j].todo = {}
    /\ Recorded(job[j].cust, tenants[job[j].cust].phase, ok)
    /\ job' = [job EXCEPT ![j] =
          IF @.gated THEN [@ EXCEPT !.at = "verdict"]
          ELSE IF @.clean THEN [@ EXCEPT !.verdict = "Done", !.at = "verdict"]
          ELSE [@ EXCEPT !.at = "round"]]

\* The final verdict, and the incident bundle, whose outcome decides nothing.
Verdict(j) ==
    /\ job[j].at = "verdict"
    /\ job' = [job EXCEPT ![j].at = "publish",
                          ![j].verdict =
              IF \/ @ = "Done" /\ \E v \in Supported : job[j].seen[v] # "clean"
                 \/ @ # "Terminated" /\ Supported # Venues
              THEN "Failed" ELSE @]
    /\ Quiet /\ UNCHANGED <<order, unseen, after>>

Publish(j, ok) ==
    /\ job[j].at = "publish"
    /\ Recorded(job[j].cust, job[j].verdict, ok)
    /\ job' = [job EXCEPT ![j].at = "leaving"]

\* Mutated form of Leave: the claim is not released.
LeaveClaimed(j) ==
    /\ job[j].at = "leaving"
    /\ job' = [job EXCEPT ![j] = NoJob]
    /\ UNCHANGED <<storeVars, press, claims, order, unseen, after, turned, spent>>

\* The task ends and ClaimGuard is dropped.
Leave(j) ==
    /\ job[j].at = "leaving"
    /\ job' = [job EXCEPT ![j] = NoJob]
    /\ claims' = claims \ {job[j].cust}
    /\ UNCHANGED <<storeVars, press, order, unseen, after, turned, spent>>

\* A panic anywhere in the task: ClaimGuard still releases the claim.  In a build
\* with panic = "abort", as the release profile has it, a panic is a Crash.
Panic(j) ==
    /\ Live(j)
    /\ spent.panics < MaxPanics
    /\ job' = [job EXCEPT ![j] = NoJob]
    /\ claims' = claims \ {job[j].cust}
    /\ spent' = [spent EXCEPT !.panics = @ + 1]
    /\ UNCHANGED <<storeVars, press, order, unseen, after, turned>>

-----------------------------------------------------------------------------
(* Orders.  The kill switch is asked once, before the handler (or, for a    *)
(* route the body decides, once more inside it: Admit is the last look).    *)
(* What was admitted is signed, and reaches the venue whenever the client   *)
(* sends it.                                                                *)

Admit(o) ==
    /\ proc = "up"
    /\ order[o] = "idle"
    /\ "Order" \in AllowedClasses(StateOf(Owner[o]))
    /\ order' = [order EXCEPT ![o] = "admitted"]
    /\ UNCHANGED <<storeVars, press, claims, job, unseen, after, turned, spent>>

Place(o) ==
    /\ order[o] = "admitted"
    /\ order' = [order EXCEPT ![o] = "resting"]
    /\ unseen' = unseen \cup {o}
    /\ UNCHANGED <<storeVars, press, claims, job, after, turned, spent>>

\* Filled, cancelled by the client, or never placed at all.
Close(o) ==
    /\ order[o] \in {"admitted", "resting"}
    /\ order' = [order EXCEPT ![o] = "closed"]
    /\ unseen' = unseen \ {o}
    /\ UNCHANGED <<storeVars, press, claims, job, after, turned, spent>>

-----------------------------------------------------------------------------
(* Process life.                                                            *)

Crash ==
    /\ spent.crashes < MaxCrashes
    /\ StoreCrash
    /\ press' = [p \in Pressers |-> IdlePress]
    /\ claims' = {}
    /\ job' = [j \in Jobs |-> NoJob]
    /\ turned' = {}
    /\ spent' = [spent EXCEPT !.crashes = @ + 1]
    /\ UNCHANGED <<order, unseen, after>>

Load == Boot /\ UNCHANGED ownVars

CloseOrphan(c, ok) == ResumeOrphan(c, ok) /\ UNCHANGED ownVars

\* Mutated form of Resume: the interrupted jobs are left alone.
ResumeNone ==
    /\ Serve
    /\ UNCHANGED ownVars

\* resume_all, second loop: every candidate is kicked, then requests are served.
Resume ==
    /\ Serve
    /\ LET due == {c \in Customers : JobDue(tenants[c])}
       IN \E slot \in [due -> Jobs] :
             /\ \A c, d \in due : c # d => slot[c] # slot[d]
             /\ claims' = due
             /\ job' = [j \in Jobs |->
                           IF \E c \in due : slot[c] = j
                           THEN FreshJob(CHOOSE c \in due : slot[c] = j) ELSE NoJob]
    /\ UNCHANGED <<press, order, unseen, after, turned, spent>>

-----------------------------------------------------------------------------

TaskStep(j) ==
    \/ \E ok \in BOOLEAN : Begin(j, ok) \/ RoundEnd(j, ok) \/ Publish(j, ok)
    \/ Round(j) \/ Recheck(j) \/ Cancel(j) \/ Verdict(j) \/ Leave(j)
    \/ \E v \in Venues : List(j, v) \/ ListFails(j, v)

Restart == Load \/ Resume \/ \E c \in Customers, ok \in BOOLEAN : CloseOrphan(c, ok)

PressStep(p) ==
    \E c \in Customers, to \in TenantStates, by \in Actors, reason, ok \in BOOLEAN :
        Press(p, c, to, by, reason, ok)

Next ==
    \/ \E p \in Pressers : PressStep(p) \/ KickDue(p) \/ KickClaim(p)
    \/ \E j \in Jobs : TaskStep(j) \/ Panic(j)
    \/ \E o \in Orders : Admit(o) \/ Place(o) \/ Close(o)
    \/ Crash
    \/ Restart

Spec == Init /\ [][Next]_vars

(***************************************************************************)
(* Fairness: the runtime polls every ready task, every outbound call has a  *)
(* client timeout, and systemd restarts the gateway.  Nothing obliges       *)
(* anybody to press, the venue to answer, or a write to succeed.            *)
(***************************************************************************)
Fairness ==
    /\ \A p \in Pressers : WF_vars(KickDue(p)) /\ WF_vars(KickClaim(p))
    /\ \A j \in Jobs : WF_vars(TaskStep(j))
    /\ WF_vars(Restart)

FairSpec == Spec /\ Fairness

-----------------------------------------------------------------------------

JobRecords ==
    [cust : Customers,
     at : {"spawned", "round", "list", "recheck", "cancel", "verdict", "publish", "leaving"},
     rounds : 0..MaxRounds, clean : BOOLEAN, todo : SUBSET Supported, cur : SUBSET Supported,
     seen : [Venues -> {"unknown", "clean", "dirty"}], gated : BOOLEAN,
     verdict : FinalPhases]

PressRecords == {IdlePress} \cup [at : {"changed", "due"}, cust : Customers]

\* Every variable of the composition holds a value of its type.
TypeOK ==
    /\ StoreTypeOK
    /\ press \in [Pressers -> PressRecords]
    /\ claims \in SUBSET Customers
    /\ job \in [Jobs -> {NoJob} \cup JobRecords]
    /\ order \in [Orders -> {"idle", "admitted", "resting", "closed"}]
    /\ unseen \in SUBSET Orders
    /\ after \in [Customers -> Nat]
    /\ turned \in SUBSET Customers
    /\ spent \in [presses : 0..MaxPresses, crashes : 0..MaxCrashes, panics : 0..MaxPanics]

\* However presses, panics and restarts interleave, a tenant's claim is held
\* exactly while one task of that tenant is alive, and never by two: two unwinds
\* of one tenant would overwrite each other's status (kick, ClaimGuard).
OneJobPerTenant ==
    /\ claims = {job[j].cust : j \in {k \in Jobs : Live(k)}}
    /\ \A j, k \in Jobs : Live(j) /\ Live(k) /\ job[j].cust = job[k].cust => j = k

\* A job that is about to report Done can unwind every venue of the tenant and
\* left no order it ever saw: what still rests came to rest after the venue's
\* last listing (run: unreadable is never clean, unsupported is never Done).
DoneIsTruthful ==
    \A j \in Jobs : job[j].at = "publish" /\ job[j].verdict = "Done" =>
        /\ Supported = Venues
        /\ \A v \in Venues : Resting(job[j].cust, v) \subseteq unseen

\* An operator's release stops the unwind: at most the one batch of cancels that
\* was past its second look at the tenant state still goes out (run).
ReleaseStopsUnwind == \A c \in Customers : after[c] <= 1

\* A status that reads Running has a task behind it unless the task panicked: a
\* restart resumes the job or closes it, also when the tenant was released first
\* (resume_all).
RunningHasJob ==
    \A c \in Customers : proc = "up" /\ tenants[c].phase = "Running" /\ spent.panics = 0 =>
        \E j \in Jobs : Live(j) /\ job[j].cust = c

\* Every spawned unwind ends, whatever the venues answer (MAX_ROUNDS, run).
UnwindEnds == \A j \in Jobs : Live(j) ~> ~Live(j)

\* A stop is followed by an unwind that reports a verdict, or by a release, also
\* across restarts in the middle of the unwind; the only stop that can be left
\* without one is a stop whose kick met a claim still held, or whose task
\* panicked (kick, resume_all).
UnwindMissedOnlyByClaim ==
    \A c \in Customers :
        StateOf(c) # Active ~>
            (StateOf(c) = Active \/ IsFinal(tenants[c].phase) \/ c \in turned \/ spent.panics > 0)

\* "Start the reconcile job for `customer` if its record says one is due and none
\* is running": every stop is followed by an unwind that reports a verdict, or by
\* a release (kick).
StopIsUnwound ==
    \A c \in Customers :
        StateOf(c) # Active ~> (StateOf(c) = Active \/ IsFinal(tenants[c].phase))

\* "Operator released the tenant to ACTIVE while the job ran": a tenant that is
\* stopped now has no status that says its unwind was called off by a release
\* (ReconcilePhase::Terminated).
StoppedIsNotTerminated ==
    \A c \in Customers : StateOf(c) # Active => tenants[c].phase # "Terminated"

\* The unwind changes the store only the way the store allows anybody to.
ImplementsStore == StoreSpec

=============================================================================
