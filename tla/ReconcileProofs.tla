-------------------------- MODULE ReconcileProofs --------------------------
(***************************************************************************)
(* Proofs about the automatic unwind, for any number of tenants, venues,    *)
(* orders, press threads, tasks, presses, panics and restarts: it keeps the *)
(* store's promises, one task works for a tenant at a time, a status that   *)
(* reads Running has a task behind it, a release stops the cancels, and     *)
(* Done is truthful.                                                        *)
(***************************************************************************)
EXTENDS Reconcile, TenantStateProofs

-----------------------------------------------------------------------------
(* The inductive invariant, part by part.                                   *)

\* RUNNING and the tasks agree, and nothing runs before requests are served.
ClaimsHeld ==
    /\ \A j \in Jobs : Live(j) => job[j].cust \in claims
    /\ \A c \in claims : \E j \in Jobs : Live(j) /\ job[j].cust = c
    /\ \A j, k \in Jobs : Live(j) /\ Live(k) /\ job[j].cust = job[k].cust => j = k
    /\ proc # "up" =>
          (\A j \in Jobs : job[j] = NoJob) /\ (\A p \in Pressers : press[p] = IdlePress)

\* A kick, and the task it spawned, are about a tenant that has a record.
RecordsExist ==
    /\ \A p \in Pressers : press[p].at # "idle" => tenants[press[p].cust] # NoRecord
    /\ \A j \in Jobs : Live(j) => tenants[job[j].cust] # NoRecord

\* A task past its last write has left a status that is not Running.
LeavingHasReported ==
    \A j \in Jobs : job[j].at = "leaving" => tenants[job[j].cust].phase # "Running"

\* A tenant that was sent a batch after its release has none on its way.
NoSecondBatch ==
    \A c \in Customers, j \in Jobs :
        after[c] > 0 /\ StateOf(c) = Active /\ job[j].at = "cancel" => job[j].cust # c

\* What rests at a venue whose last listing was empty came to rest after it.
CleanMeansUnseen ==
    \A j \in Jobs, v \in Venues :
        Live(j) /\ job[j].seen[v] = "clean" => Resting(job[j].cust, v) \subseteq unseen

\* Done is published only if every venue of the tenant was listed and clean.
DoneMeansClean ==
    \A j \in Jobs : job[j].at = "publish" /\ job[j].verdict = "Done" =>
        Supported = Venues /\ \A v \in Venues : job[j].seen[v] = "clean"

-----------------------------------------------------------------------------
(* Types, and the store below the unwind.                                   *)

\* The types of what the unwind adds to the store.
UnwindTypeOK ==
    /\ press \in [Pressers -> PressRecords]
    /\ claims \in SUBSET Customers
    /\ job \in [Jobs -> {NoJob} \cup JobRecords]
    /\ order \in [Orders -> {"idle", "admitted", "resting", "closed"}]
    /\ unseen \in SUBSET Orders
    /\ after \in [Customers -> Nat]
    /\ turned \in SUBSET Customers
    /\ spent \in [presses : 0..MaxPresses, crashes : 0..MaxCrashes, panics : 0..MaxPanics]

\* The steps of a task that leave it alive.
WorkStep(j) ==
    \/ \E ok \in BOOLEAN : Begin(j, ok) \/ RoundEnd(j, ok) \/ Publish(j, ok)
    \/ Round(j) \/ Recheck(j) \/ Cancel(j) \/ Verdict(j)
    \/ \E v \in Venues : List(j, v) \/ ListFails(j, v)

\* A fresh task is a well-formed one (kick).
LEMMA FreshJobType == ASSUME NEW c \in Customers PROVE FreshJob(c) \in JobRecords
  BY ReconcileAssumption DEF FreshJob, JobRecords, FinalPhases

\* A live task is a record with all of the task's locals.
LEMMA LiveJob ==
    ASSUME UnwindTypeOK, NEW j \in Jobs
    PROVE  /\ job[j] = NoJob \/ job[j] \in JobRecords
           /\ Live(j) => job[j] \in JobRecords
           /\ job[j] \in JobRecords => Live(j)
  BY DEF UnwindTypeOK, Live, NoJob, JobRecords

\* A task that works on changes its own locals and nobody else's, stays alive and
\* stays with its tenant (run).
LEMMA WorkStepOwn ==
    ASSUME UnwindTypeOK, NEW j \in Jobs, WorkStep(j)
    PROVE  /\ job' = [job EXCEPT ![j] = job'[j]]
           /\ job[j] \in JobRecords /\ job'[j] \in JobRecords
           /\ job'[j].cust = job[j].cust
<1>1. job[j].at # "idle"
  BY DEF WorkStep, Begin, RoundEnd, Publish, Round, Recheck, Cancel, Verdict, List, ListFails
<1>2. job[j] \in JobRecords
  BY <1>1, LiveJob DEF Live
<1>3. DOMAIN job = Jobs
  BY DEF UnwindTypeOK
<1> DEFINE J == job[j]
<1>4. /\ J.cust \in Customers /\ J.rounds \in 0..MaxRounds /\ J.clean \in BOOLEAN
      /\ J.todo \in SUBSET Supported /\ J.cur \in SUBSET Supported /\ J.gated \in BOOLEAN
      /\ J.seen \in [Venues -> {"unknown", "clean", "dirty"}] /\ J.verdict \in FinalPhases
  BY <1>2 DEF JobRecords
<1>5. job' = [job EXCEPT ![j] = job'[j]]
  BY <1>3 DEF WorkStep, Begin, RoundEnd, Publish, Round, Recheck, Cancel, Verdict, List, ListFails
<1> DEFINE Own == job'[j] \in JobRecords /\ job'[j].cust = J.cust
<1>6. ASSUME NEW ok \in BOOLEAN, Begin(j, ok) \/ RoundEnd(j, ok) \/ Publish(j, ok) PROVE Own
  <2>1. CASE Begin(j, ok)
    BY <1>2, <1>3, <2>1 DEF Begin, JobRecords
  <2>2. CASE RoundEnd(j, ok)
    BY <1>2, <1>3, <2>2 DEF RoundEnd, JobRecords, FinalPhases
  <2>3. CASE Publish(j, ok)
    BY <1>2, <1>3, <2>3 DEF Publish, JobRecords
  <2> QED
    BY <1>6, <2>1, <2>2, <2>3
<1>7. ASSUME Round(j) PROVE Own
  <2>1. J.rounds # MaxRounds => J.rounds + 1 \in 0..MaxRounds
    BY <1>4, ReconcileAssumption
  <2>2. PICK n \in 0..MaxRounds :
           \/ job'[j] = [J EXCEPT !.at = "verdict"]
           \/ job'[j] = [J EXCEPT !.rounds = n, !.verdict = "Terminated", !.at = "verdict"]
           \/ job'[j] = [J EXCEPT !.rounds = n, !.clean = TRUE, !.todo = Supported, !.at = "list"]
    BY <1>3, <1>4, <1>7, <2>1 DEF Round
  <2>3. CASE job'[j] = [J EXCEPT !.at = "verdict"]
    BY <1>2, <2>3 DEF JobRecords
  <2>4. CASE job'[j] = [J EXCEPT !.rounds = n, !.verdict = "Terminated", !.at = "verdict"]
    BY <1>2, <2>4 DEF JobRecords, FinalPhases
  <2>5. CASE job'[j] = [J EXCEPT !.rounds = n, !.clean = TRUE, !.todo = Supported, !.at = "list"]
    BY <1>2, <2>5 DEF JobRecords
  <2> QED
    BY <2>2, <2>3, <2>4, <2>5
<1>8. ASSUME Recheck(j) PROVE Own
  BY <1>2, <1>3, <1>8 DEF Recheck, JobRecords, FinalPhases
<1>9. ASSUME Verdict(j) PROVE Own
  BY <1>2, <1>3, <1>9 DEF Verdict, JobRecords, FinalPhases
<1>10. ASSUME Cancel(j) PROVE Own
  <2> DEFINE v == CHOOSE w \in J.cur : TRUE
  <2>1. PICK g \in {J.gated, TRUE} :
           job' = [job EXCEPT ![j].todo = @ \ {v}, ![j].cur = {}, ![j].gated = g, ![j].at = "list"]
    BY <1>10 DEF Cancel
  <2> HIDE DEF v
  <2> QED
    BY <1>2, <1>3, <1>4, <2>1 DEF JobRecords
<1>11. ASSUME NEW v \in Venues, List(j, v) PROVE Own
  BY <1>2, <1>3, <1>11 DEF List, JobRecords
<1>12. ASSUME NEW v \in Venues, ListFails(j, v) PROVE Own
  BY <1>2, <1>3, <1>12 DEF ListFails, JobRecords
<1>13. Own
  BY <1>6, <1>7, <1>8, <1>9, <1>10, <1>11, <1>12 DEF WorkStep
<1> QED
  BY <1>2, <1>5, <1>13

\* Where each step takes the task, and what it remembers of the venues (run).
LEMMA WorkStepLocals ==
    ASSUME UnwindTypeOK, NEW j \in Jobs, WorkStep(j)
    PROVE  /\ (\E ok \in BOOLEAN : Begin(j, ok)) =>
                 job'[j].at \in {"leaving", "round"} /\ job'[j].seen = job[j].seen
           /\ (\E ok \in BOOLEAN : RoundEnd(j, ok)) =>
                 job'[j].at \in {"verdict", "round"} /\ job'[j].seen = job[j].seen
           /\ (\E ok \in BOOLEAN : Publish(j, ok)) =>
                 job'[j].at = "leaving" /\ job'[j].seen = job[j].seen
           /\ Round(j) =>
                 job'[j].at \in {"verdict", "list"} /\ job'[j].seen = job[j].seen
           /\ Recheck(j) =>
                 /\ \/ job'[j].at = "verdict"
                    \/ job'[j].at = "cancel" /\ StateOf(job[j].cust) # Active
                 /\ job'[j].seen = job[j].seen
           /\ Cancel(j) => job'[j].at = "list" /\ job'[j].seen = job[j].seen
           /\ Verdict(j) =>
                 /\ job'[j].at = "publish" /\ job'[j].seen = job[j].seen
                 /\ job'[j].verdict = "Done" =>
                       Supported = Venues /\ \A v \in Venues : job[j].seen[v] = "clean"
           /\ \A v \in Venues : List(j, v) =>
                 /\ job'[j].at \in {"list", "recheck"}
                 /\ job'[j].seen = [job[j].seen EXCEPT ![v] =
                                      IF Resting(job[j].cust, v) = {} THEN "clean" ELSE "dirty"]
           /\ \A v \in Venues : ListFails(j, v) =>
                 job'[j].at = "list" /\ job'[j].seen = [job[j].seen EXCEPT ![v] = "unknown"]
<1> DEFINE J == job[j]
<1>1. J \in JobRecords /\ DOMAIN job = Jobs
  BY WorkStepOwn DEF UnwindTypeOK
<1>2. ASSUME NEW ok \in BOOLEAN, Begin(j, ok)
      PROVE  job'[j].at \in {"leaving", "round"} /\ job'[j].seen = J.seen
  BY <1>1, <1>2 DEF Begin, JobRecords
<1>3. ASSUME NEW ok \in BOOLEAN, RoundEnd(j, ok)
      PROVE  job'[j].at \in {"verdict", "round"} /\ job'[j].seen = J.seen
  BY <1>1, <1>3 DEF RoundEnd, JobRecords
<1>4. ASSUME NEW ok \in BOOLEAN, Publish(j, ok)
      PROVE  job'[j].at = "leaving" /\ job'[j].seen = J.seen
  BY <1>1, <1>4 DEF Publish, JobRecords
<1>5. ASSUME Round(j) PROVE job'[j].at \in {"verdict", "list"} /\ job'[j].seen = J.seen
  BY <1>1, <1>5 DEF Round, JobRecords
<1>6. ASSUME Recheck(j)
      PROVE  /\ \/ job'[j].at = "verdict"
                \/ job'[j].at = "cancel" /\ StateOf(J.cust) # Active
             /\ job'[j].seen = J.seen
  <2>1. CASE StateOf(J.cust) = Active
    <3>1. job'[j] = [J EXCEPT !.verdict = "Terminated", !.at = "verdict"]
      BY <1>1, <1>6, <2>1 DEF Recheck
    <3>2. job'[j].at = "verdict" /\ job'[j].seen = J.seen
      BY <1>1, <3>1 DEF JobRecords
    <3> QED
      BY <3>2
  <2>2. CASE StateOf(J.cust) # Active
    <3>1. job'[j] = [J EXCEPT !.at = "cancel"]
      BY <1>1, <1>6, <2>2 DEF Recheck
    <3> QED
      BY <1>1, <2>2, <3>1 DEF JobRecords
  <2> QED
    BY <2>1, <2>2
<1>7. ASSUME Cancel(j) PROVE job'[j].at = "list" /\ job'[j].seen = J.seen
  <2> DEFINE v == CHOOSE w \in J.cur : TRUE
  <2>1. PICK g \in {J.gated, TRUE} :
           job' = [job EXCEPT ![j].todo = @ \ {v}, ![j].cur = {}, ![j].gated = g, ![j].at = "list"]
    BY <1>7 DEF Cancel
  <2> HIDE DEF v
  <2> QED
    BY <1>1, <2>1 DEF JobRecords
<1>8. ASSUME Verdict(j)
      PROVE  /\ job'[j].at = "publish" /\ job'[j].seen = J.seen
             /\ job'[j].verdict = "Done" =>
                   Supported = Venues /\ \A v \in Venues : J.seen[v] = "clean"
  BY <1>1, <1>8 DEF Verdict, JobRecords
<1>9. ASSUME NEW v \in Venues, List(j, v)
      PROVE  /\ job'[j].at \in {"list", "recheck"}
             /\ job'[j].seen = [J.seen EXCEPT ![v] =
                                  IF Resting(J.cust, v) = {} THEN "clean" ELSE "dirty"]
  BY <1>1, <1>9 DEF List, JobRecords
<1>10. ASSUME NEW v \in Venues, ListFails(j, v)
       PROVE  job'[j].at = "list" /\ job'[j].seen = [J.seen EXCEPT ![v] = "unknown"]
  BY <1>1, <1>10 DEF ListFails, JobRecords
<1> QED
  BY <1>2, <1>3, <1>4, <1>5, <1>6, <1>7, <1>8, <1>9, <1>10

\* What the steps of a live task leave alone (run).
LEMMA WorkStepQuiet ==
    ASSUME UnwindTypeOK, NEW j \in Jobs, WorkStep(j)
    PROVE  /\ UNCHANGED <<proc, press, claims, turned, spent>>
           /\ order' \in [Orders -> {"idle", "admitted", "resting", "closed"}]
           /\ unseen' \subseteq unseen
           /\ after' \in [Customers -> Nat]
<1>1. CASE Cancel(j)
  <2>1. job[j].cust \in Customers
    BY WorkStepOwn DEF JobRecords
  <2>2. after' \in [Customers -> Nat]
    <3>1. after' = [after EXCEPT ![job[j].cust] = @ + 1] \/ after' = after
      BY <1>1 DEF Cancel
    <3> QED
      BY <2>1, <3>1 DEF UnwindTypeOK
  <2>3. order' \in [Orders -> {"idle", "admitted", "resting", "closed"}]
    BY <1>1 DEF Cancel, UnwindTypeOK
  <2> QED
    BY <1>1, <2>2, <2>3 DEF Cancel, Quiet, storeVars
<1>2. CASE ~Cancel(j)
  BY <1>2 DEF WorkStep, Begin, RoundEnd, Publish, Round, Recheck, Verdict, List, ListFails,
              Recorded, JobUpdate, Quiet, storeVars, UnwindTypeOK
<1> QED
  BY <1>1, <1>2

\* The steps of Next, one by one, with the tasks' steps in two groups.
LEMMA NextSteps ==
    ASSUME Next
    PROVE  \/ \E p \in Pressers, c \in Customers, to \in TenantStates, by \in Actors,
                reason \in BOOLEAN, ok \in BOOLEAN : Press(p, c, to, by, reason, ok)
           \/ \E p \in Pressers : KickDue(p) \/ KickClaim(p)
           \/ \E j \in Jobs : WorkStep(j) \/ Leave(j) \/ Panic(j)
           \/ \E o \in Orders : Admit(o) \/ Place(o) \/ Close(o)
           \/ Crash \/ Load \/ Resume
           \/ \E c \in Customers, ok \in BOOLEAN : CloseOrphan(c, ok)
  BY DEF Next, PressStep, TaskStep, WorkStep, Restart

\* The unwind keeps its types.
LEMMA UnwindTypes == Spec => []UnwindTypeOK
<1>1. Init => UnwindTypeOK
  BY ReconcileAssumption DEF Init, UnwindTypeOK, PressRecords
<1>2. UnwindTypeOK /\ [Next]_vars => UnwindTypeOK'
  <2> SUFFICES ASSUME UnwindTypeOK, [Next]_vars PROVE UnwindTypeOK'
    OBVIOUS
  <2>1. ASSUME NEW p \in Pressers, NEW c \in Customers, NEW to \in TenantStates,
               NEW by \in Actors, NEW reason \in BOOLEAN, NEW ok \in BOOLEAN,
               Press(p, c, to, by, reason, ok)
        PROVE  UnwindTypeOK'
    BY <2>1, ReconcileAssumption DEF Press, UnwindTypeOK, PressRecords
  <2>2. ASSUME NEW p \in Pressers, KickDue(p) PROVE UnwindTypeOK'
    BY <2>2 DEF KickDue, UnwindTypeOK, PressRecords, IdlePress
  <2>3. ASSUME NEW p \in Pressers, KickClaim(p) PROVE UnwindTypeOK'
    <3>1. press[p].cust \in Customers
      BY <2>3 DEF KickClaim, UnwindTypeOK, PressRecords, IdlePress
    <3>2. FreshJob(press[p].cust) \in JobRecords
      BY <3>1, FreshJobType
    <3> QED
      BY <2>3, <3>1, <3>2 DEF KickClaim, UnwindTypeOK, PressRecords
  <2>4. ASSUME NEW j \in Jobs, WorkStep(j) PROVE UnwindTypeOK'
    BY <2>4, WorkStepOwn, WorkStepQuiet DEF UnwindTypeOK
  <2>5. ASSUME NEW j \in Jobs, Leave(j) \/ Panic(j) PROVE UnwindTypeOK'
    BY <2>5, ReconcileAssumption DEF Leave, Panic, UnwindTypeOK
  <2>6. ASSUME NEW o \in Orders, Admit(o) \/ Place(o) \/ Close(o) PROVE UnwindTypeOK'
    BY <2>6 DEF Admit, Place, Close, UnwindTypeOK
  <2>7. CASE Crash
    BY <2>7, ReconcileAssumption DEF Crash, UnwindTypeOK, PressRecords
  <2>8. CASE Resume
    <3> DEFINE due == {c \in Customers : JobDue(tenants[c])}
    <3>1. PICK slot \in [due -> Jobs] :
             /\ claims' = due
             /\ job' = [j \in Jobs |->
                           IF \E c \in due : slot[c] = j
                           THEN FreshJob(CHOOSE c \in due : slot[c] = j) ELSE NoJob]
      BY <2>8 DEF Resume
    <3>2. \A j \in Jobs : job'[j] \in {NoJob} \cup JobRecords
      BY <3>1, FreshJobType
    <3>3. job' \in [Jobs -> {NoJob} \cup JobRecords]
      BY <3>1, <3>2
    <3> QED
      BY <2>8, <3>1, <3>3 DEF Resume, UnwindTypeOK
  <2>9. CASE Load \/ UNCHANGED vars \/ \E c \in Customers, ok \in BOOLEAN : CloseOrphan(c, ok)
    BY <2>9 DEF Load, CloseOrphan, vars, ownVars, UnwindTypeOK
  <2> QED
    BY <2>1, <2>2, <2>3, <2>4, <2>5, <2>6, <2>7, <2>8, <2>9, NextSteps
<1> QED
  BY <1>1, <1>2, PTL DEF Spec

\* The store below an unwind step takes a step of its own, or none.
LEMMA StoreBelow ==
    ASSUME UnwindTypeOK, [Next]_vars
    PROVE  [StoreNext]_storeVars
<1>1. ASSUME NEW p \in Pressers, NEW c \in Customers, NEW to \in TenantStates,
             NEW by \in Actors, NEW reason \in BOOLEAN, NEW ok \in BOOLEAN,
             Press(p, c, to, by, reason, ok)
      PROVE  StoreNext
  BY <1>1 DEF Press, StoreNext
<1>2. ASSUME NEW j \in Jobs, WorkStep(j) PROVE [StoreNext]_storeVars
  <2>1. job[j].cust \in Customers /\ job[j].verdict \in FinalPhases
    BY <1>2, WorkStepOwn DEF JobRecords
  <2>2. ASSUME NEW ok \in BOOLEAN, Begin(j, ok) \/ RoundEnd(j, ok) \/ Publish(j, ok)
        PROVE  StoreNext
    <3>1. "Failed" \in FinalPhases
      BY DEF FinalPhases
    <3>2. PICK ph \in {"Running", tenants[job[j].cust].phase} \cup FinalPhases :
             JobUpdate(job[j].cust, ph, ok)
      BY <2>1, <2>2, <3>1 DEF Begin, RoundEnd, Publish, Recorded
    <3> QED
      BY <2>1, <3>2 DEF StoreNext
  <2> QED
    BY <1>2, <2>2 DEF WorkStep, Round, Recheck, Cancel, Verdict, List, ListFails, Quiet
<1>3. ASSUME NEW c \in Customers, NEW ok \in BOOLEAN, CloseOrphan(c, ok) PROVE StoreNext
  BY <1>3 DEF CloseOrphan, StoreNext
<1>4. CASE Crash \/ Load \/ Resume
  BY <1>4 DEF Crash, Load, Resume, StoreNext
<1>5. CASE UNCHANGED vars \/ (\E p \in Pressers : KickDue(p) \/ KickClaim(p))
            \/ (\E j \in Jobs : Leave(j) \/ Panic(j))
            \/ \E o \in Orders : Admit(o) \/ Place(o) \/ Close(o)
  BY <1>5 DEF vars, KickDue, KickClaim, Leave, Panic, Admit, Place, Close
<1> QED
  BY <1>1, <1>2, <1>3, <1>4, <1>5, NextSteps

\* The unwind implements the store: every one of its steps, of a press, a task, an
\* order or a restart, changes the store the way the store's own specification
\* allows, so what is proved of the store holds of the composition (reconcile.rs).
THEOREM UnwindImplementsStore == Spec => ImplementsStore
<1>1. Init => StoreInit
  BY DEF Init
<1> QED
  BY <1>1, UnwindTypes, StoreBelow, PTL DEF Spec, StoreSpec, ImplementsStore

\* The types of the composition.
THEOREM UnwindTypeCorrect == Spec => []TypeOK
<1>1. UnwindTypeOK /\ StoreTypeOK => TypeOK
  BY DEF UnwindTypeOK, TypeOK
<1> QED
  BY <1>1, UnwindTypes, UnwindImplementsStore, StoreTypeCorrect, PTL DEF ImplementsStore

\* The durable flag is truthful, and nobody but an operator releases a tenant, also
\* with the unwind at work next to the presses (DurableTheorem, ReleaseTheorem).
THEOREM UnwindKeepsStorePromises == Spec => []DurableMeansOnDisk /\ OnlyOperatorReleases
  BY UnwindImplementsStore, DurableTheorem, ReleaseTheorem DEF ImplementsStore

-----------------------------------------------------------------------------
(* One task per tenant.                                                     *)

\* A slot is in use exactly when it holds a task's locals.
LEMMA JobShape ==
    ASSUME NEW r \in {NoJob} \cup JobRecords
    PROVE  (r.at # "idle" <=> r \in JobRecords) /\ (r \in JobRecords <=> r # NoJob)
  BY DEF NoJob, JobRecords

\* The tasks after resume_all: one fresh task for every candidate, each in a slot
\* of its own, and nothing else.
LEMMA ResumeTasks ==
    ASSUME UnwindTypeOK, Resume
    PROVE  /\ \A c \in Customers : c \in claims' <=> JobDue(tenants[c])
           /\ \A c \in claims' : \E j \in Jobs : job'[j] = FreshJob(c)
           /\ \A j \in Jobs : job'[j] = NoJob \/ \E c \in claims' : job'[j] = FreshJob(c)
           /\ \A j, k \in Jobs, c \in claims' :
                 job'[j] = FreshJob(c) /\ job'[k] = FreshJob(c) => j = k
           /\ claims' \subseteq Customers
<1> DEFINE due == {c \in Customers : JobDue(tenants[c])}
<1>1. PICK slot \in [due -> Jobs] :
         /\ \A c, d \in due : c # d => slot[c] # slot[d]
         /\ claims' = due
         /\ job' = [j \in Jobs |->
                       IF \E c \in due : slot[c] = j
                       THEN FreshJob(CHOOSE c \in due : slot[c] = j) ELSE NoJob]
  BY DEF Resume
<1> HIDE DEF due
<1>2. ASSUME NEW c \in due PROVE job'[slot[c]] = FreshJob(c)
  <2>1. \A d \in due : slot[d] = slot[c] => d = c
    BY <1>1
  <2>2. (CHOOSE d \in due : slot[d] = slot[c]) = c
    BY <2>1
  <2> QED
    BY <1>1, <2>2
<1>3. ASSUME NEW j \in Jobs PROVE job'[j] = NoJob \/ \E c \in due : slot[c] = j
  BY <1>1
<1>4. ASSUME NEW c, NEW d, FreshJob(c) = FreshJob(d) PROVE c = d
  BY <1>4 DEF FreshJob
<1>5. ASSUME NEW c PROVE FreshJob(c) # NoJob
  BY DEF FreshJob, NoJob
<1>6. ASSUME NEW j \in Jobs, NEW c \in due, job'[j] = FreshJob(c) PROVE j = slot[c]
  BY <1>2, <1>3, <1>4, <1>5, <1>6
<1>7. \A c \in Customers : c \in claims' <=> JobDue(tenants[c])
  BY <1>1 DEF due
<1>8. claims' \subseteq Customers
  BY <1>1 DEF due
<1> QED
  BY <1>1, <1>2, <1>3, <1>6, <1>7, <1>8

\* Every step keeps the claims and the tasks together (kick, ClaimGuard).
LEMMA ClaimsStep ==
    ASSUME UnwindTypeOK, UnwindTypeOK', ClaimsHeld, [Next]_vars
    PROVE  ClaimsHeld'
<1>1. ASSUME NEW p \in Pressers, NEW c \in Customers, NEW to \in TenantStates,
             NEW by \in Actors, NEW reason \in BOOLEAN, NEW ok \in BOOLEAN,
             Press(p, c, to, by, reason, ok)
      PROVE  ClaimsHeld'
  BY <1>1 DEF Press, Transition, ClaimsHeld, Live
<1>2. ASSUME NEW p \in Pressers, KickDue(p) PROVE ClaimsHeld'
  BY <1>2 DEF KickDue, ClaimsHeld, Live, storeVars, IdlePress
<1>3. ASSUME NEW p \in Pressers, KickClaim(p) PROVE ClaimsHeld'
  <2>1. proc = "up" /\ proc' = proc
    BY <1>3 DEF KickClaim, ClaimsHeld, storeVars, IdlePress
  <2> DEFINE c == press[p].cust
  <2>2. CASE c \in claims
    BY <1>3, <2>1, <2>2 DEF KickClaim, ClaimsHeld, Live
  <2>3. CASE c \notin claims
    <3>1. PICK j \in Jobs : ~Live(j) /\ job' = [job EXCEPT ![j] = FreshJob(c)]
      BY <1>3, <2>3 DEF KickClaim
    <3>2. claims' = claims \cup {c}
      BY <1>3, <2>3 DEF KickClaim
    <3>3. FreshJob(c).cust = c /\ FreshJob(c).at # "idle"
      BY DEF FreshJob
    <3>4. job'[j] = FreshJob(c) /\ \A k \in Jobs : k # j => job'[k] = job[k]
      BY <3>1 DEF UnwindTypeOK
    <3> QED
      BY <2>1, <2>3, <3>1, <3>2, <3>3, <3>4 DEF ClaimsHeld, Live
  <2> QED
    BY <2>2, <2>3
<1>4. ASSUME NEW j \in Jobs, WorkStep(j) PROVE ClaimsHeld'
  <2>1. job[j] # NoJob /\ job[j].at # "idle" /\ job'[j].at # "idle"
    BY <1>4, WorkStepOwn, JobShape
  <2>2. proc = "up"
    BY <2>1 DEF ClaimsHeld
  <2>3. job'[j].cust = job[j].cust /\ \A k \in Jobs : k # j => job'[k] = job[k]
    BY <1>4, WorkStepOwn DEF UnwindTypeOK
  <2>4. claims' = claims /\ proc' = proc
    BY <1>4, WorkStepQuiet
  <2> QED
    BY <2>1, <2>2, <2>3, <2>4 DEF ClaimsHeld, Live
<1>5. ASSUME NEW j \in Jobs, Leave(j) \/ Panic(j) PROVE ClaimsHeld'
  <2>1. Live(j) /\ job[j] # NoJob
    BY <1>5 DEF Leave, Panic, Live, NoJob
  <2>2. proc = "up" /\ proc' = proc /\ claims' = claims \ {job[j].cust}
    BY <1>5, <2>1 DEF Leave, Panic, ClaimsHeld, storeVars
  <2>3. job'[j].at = "idle" /\ \A k \in Jobs : k # j => job'[k] = job[k]
    BY <1>5 DEF Leave, Panic, NoJob, UnwindTypeOK
  <2> QED
    BY <2>1, <2>2, <2>3 DEF ClaimsHeld, Live
<1>6. CASE Crash
  BY <1>6 DEF Crash, ClaimsHeld, Live, NoJob
<1>7. CASE Resume
  <2>1. ASSUME NEW c PROVE FreshJob(c).cust = c /\ FreshJob(c).at # "idle"
    BY DEF FreshJob
  <2>2. NoJob.at = "idle"
    BY DEF NoJob
  <2>3. ASSUME NEW j \in Jobs, Live(j)'
        PROVE  job'[j].cust \in claims' /\ job'[j] = FreshJob(job'[j].cust)
    BY <1>7, <2>1, <2>2, <2>3, ResumeTasks DEF Live
  <2>4. ASSUME NEW c \in claims' PROVE \E j \in Jobs : Live(j)' /\ job'[j].cust = c
    BY <1>7, <2>1, ResumeTasks DEF Live
  <2>5. ASSUME NEW j \in Jobs, NEW k \in Jobs, Live(j)', Live(k)', job'[j].cust = job'[k].cust
        PROVE  j = k
    BY <1>7, <2>3, <2>5, ResumeTasks
  <2>6. proc' = "up"
    BY <1>7 DEF Resume, Serve
  <2> QED
    BY <2>3, <2>4, <2>5, <2>6 DEF ClaimsHeld, Live
<1>8. CASE Load \/ UNCHANGED vars \/ (\E c \in Customers, ok \in BOOLEAN : CloseOrphan(c, ok))
            \/ \E o \in Orders : Admit(o) \/ Place(o) \/ Close(o)
  BY <1>8 DEF Load, Boot, CloseOrphan, ResumeOrphan, vars, ownVars, storeVars, Admit, Place, Close,
              ClaimsHeld, Live
<1> QED
  BY <1>1, <1>2, <1>3, <1>4, <1>5, <1>6, <1>7, <1>8, NextSteps

\* Claims and tasks agree in every reachable state.
LEMMA ClaimsTheorem == Spec => []ClaimsHeld
<1>1. Init => ClaimsHeld
  BY DEF Init, StoreInit, ClaimsHeld, Live, NoJob
<1>2. UnwindTypeOK /\ UnwindTypeOK' /\ ClaimsHeld /\ [Next]_vars => ClaimsHeld'
  BY ClaimsStep
<1> QED
  BY <1>1, <1>2, UnwindTypes, PTL DEF Spec

\* A tenant's claim is held exactly while one task of that tenant is alive, and
\* never by two, whatever presses, panics and restarts do (kick, ClaimGuard).
THEOREM OneJobTheorem == Spec => []OneJobPerTenant
<1>1. ClaimsHeld => OneJobPerTenant
  BY DEF ClaimsHeld, OneJobPerTenant
<1> QED
  BY <1>1, ClaimsTheorem, PTL

-----------------------------------------------------------------------------
(* Records and statuses.                                                    *)

\* The record after a status write: the new phase, the rest as it was
\* (update_reconcile).
LEMMA StatusWrite ==
    ASSUME StoreTypeOK, NEW c \in Customers, NEW ph, NEW ok \in BOOLEAN,
           UpdateReconcile(c, ph, ok)
    PROVE  /\ tenants'[c].phase = ph /\ tenants'[c].state = tenants[c].state
           /\ tenants'[c].by = tenants[c].by
           /\ \A d \in Customers : d # c => tenants'[d] = tenants[d]
<1>1. tenants[c] \in Records /\ tenants[c] # NoRecord
  BY DEF StoreTypeOK, UpdateReconcile
<1>2. tenants'[c] = [tenants[c] EXCEPT !.phase = ph]
  BY <1>1 DEF StoreTypeOK, UpdateReconcile, WithPhase
<1>3. \A d \in Customers : d # c => tenants'[d] = tenants[d]
  BY DEF StoreTypeOK, UpdateReconcile
<1> QED
  BY <1>1, <1>2, <1>3 DEF Records

\* Records are never deleted while the process lives.
LEMMA RecordsStay ==
    ASSUME StoreTypeOK, StoreTypeOK', [StoreNext]_storeVars, proc # "down",
           NEW d \in Customers, tenants[d] # NoRecord
    PROVE  tenants'[d] # NoRecord
<1>1. ASSUME NEW c \in Customers, NEW to \in TenantStates, NEW by \in Actors,
             NEW reason \in BOOLEAN, NEW ok \in BOOLEAN, Transition(c, to, by, reason, ok)
      PROVE  tenants'[d] # NoRecord
  BY <1>1 DEF Transition, StoreTypeOK, Moved, NoRecord, Actors
<1>2. ASSUME NEW c \in Customers, NEW ok \in BOOLEAN, NEW ph, UpdateReconcile(c, ph, ok),
             ph # "None" \/ ph = tenants[c].phase
      PROVE  tenants'[d] # NoRecord
  <2>1. CASE c = d
    <3>1. tenants[d] \in Records /\ tenants'[d] \in Records
      BY DEF StoreTypeOK
    <3>2. CASE ph # "None"
      BY <1>2, <2>1, <3>2, StatusWrite DEF NoRecord
    <3>3. CASE ph = tenants[c].phase
      BY <1>2, <2>1, <3>1, <3>3, StatusWrite DEF NoRecord, Records
    <3> QED
      BY <1>2, <3>2, <3>3
  <2> QED
    BY <1>2, <2>1, StatusWrite
<1>3. ASSUME NEW c \in Customers, NEW ok \in BOOLEAN,
             NEW ph \in {"Running", tenants[c].phase} \cup FinalPhases, JobUpdate(c, ph, ok)
      PROVE  tenants'[d] # NoRecord
  BY <1>2, <1>3 DEF JobUpdate, FinalPhases
<1>4. ASSUME NEW c \in Customers, NEW ok \in BOOLEAN, ResumeOrphan(c, ok)
      PROVE  tenants'[d] # NoRecord
  BY <1>2, <1>4 DEF ResumeOrphan
<1>5. CASE StoreCrash \/ Boot \/ Serve \/ UNCHANGED storeVars
  BY <1>5 DEF StoreCrash, Boot, Serve, storeVars
<1> QED
  BY <1>1, <1>3, <1>4, <1>5 DEF StoreNext

\* A task's step writes at most the status of its own tenant, and the task leaves
\* only behind a status that is not Running (run, kick).
LEMMA WorkStepRecord ==
    ASSUME TypeOK, UnwindTypeOK, NEW j \in Jobs, WorkStep(j)
    PROVE  /\ \A d \in Customers : d # job[j].cust => tenants'[d] = tenants[d]
           /\ \A d \in Customers : StateOf(d)' = StateOf(d)
           /\ job'[j].at = "leaving" => tenants'[job[j].cust].phase # "Running"
<1> DEFINE c == job[j].cust
<1>1. /\ c \in Customers /\ job[j].verdict \in FinalPhases /\ StoreTypeOK
      /\ DOMAIN job = Jobs /\ job[j] \in JobRecords
  BY WorkStepOwn DEF JobRecords, TypeOK
<1>2. ASSUME NEW ok \in BOOLEAN, NEW ph, Recorded(c, ph, ok)
      PROVE  /\ tenants'[c].phase = ph
             /\ \A d \in Customers : d # c => tenants'[d] = tenants[d]
             /\ \A d \in Customers : StateOf(d)' = StateOf(d)
  <2>1. UpdateReconcile(c, ph, ok)
    BY <1>2 DEF Recorded, JobUpdate
  <2> QED
    BY <1>1, <2>1, StatusWrite DEF StateOf
<1>3. ASSUME NEW ok \in BOOLEAN, Begin(j, ok)
      PROVE  /\ \A d \in Customers : d # c => tenants'[d] = tenants[d]
             /\ \A d \in Customers : StateOf(d)' = StateOf(d)
             /\ job'[j].at = "leaving" => tenants'[c].phase # "Running"
  <2>1. CASE Recorded(c, "Failed", ok)
    BY <1>2, <2>1
  <2>2. CASE Recorded(c, "Running", ok) /\ job' = [job EXCEPT ![j].at = "round"]
    BY <1>1, <1>2, <2>2 DEF JobRecords
  <2> QED
    BY <1>3, <2>1, <2>2 DEF Begin
<1>4. ASSUME NEW ok \in BOOLEAN, RoundEnd(j, ok)
      PROVE  /\ \A d \in Customers : d # c => tenants'[d] = tenants[d]
             /\ \A d \in Customers : StateOf(d)' = StateOf(d)
             /\ job'[j].at # "leaving"
  <2>1. job'[j].at # "leaving"
    BY <1>1, <1>4 DEF RoundEnd, JobRecords
  <2> QED
    BY <1>2, <1>4, <2>1 DEF RoundEnd
<1>5. ASSUME NEW ok \in BOOLEAN, Publish(j, ok)
      PROVE  /\ \A d \in Customers : d # c => tenants'[d] = tenants[d]
             /\ \A d \in Customers : StateOf(d)' = StateOf(d)
             /\ tenants'[c].phase # "Running"
  BY <1>1, <1>2, <1>5 DEF Publish, FinalPhases
<1>6. CASE Round(j) \/ Recheck(j) \/ Cancel(j) \/ Verdict(j)
            \/ \E v \in Venues : List(j, v) \/ ListFails(j, v)
  <2>1. tenants' = tenants
    BY <1>6 DEF Round, Recheck, Cancel, Verdict, List, ListFails, Quiet, storeVars
  <2>2. job'[j].at # "leaving"
    BY <1>6, WorkStepLocals
  <2> QED
    BY <2>1, <2>2 DEF StateOf
<1> QED
  BY <1>3, <1>4, <1>5, <1>6 DEF WorkStep

\* Every step keeps a record under each kick and each task.
LEMMA RecordsStep ==
    ASSUME TypeOK, TypeOK', ClaimsHeld, ClaimsHeld', RecordsExist, [Next]_vars
    PROVE  RecordsExist'
<1>1. UnwindTypeOK /\ UnwindTypeOK' /\ StoreTypeOK /\ StoreTypeOK'
  BY DEF TypeOK, UnwindTypeOK
<1>2. ASSUME NEW c \in Customers, proc # "down", tenants[c] # NoRecord
      PROVE  tenants'[c] # NoRecord
  BY <1>1, <1>2, StoreBelow, RecordsStay
<1>3. \A p \in Pressers : press[p].at # "idle" => press[p].cust \in Customers
  BY <1>1 DEF UnwindTypeOK, PressRecords, IdlePress
<1>4. \A j \in Jobs : Live(j) => job[j].cust \in Customers
  BY <1>1, LiveJob DEF JobRecords
<1>5. ASSUME NEW p \in Pressers, NEW c \in Customers, NEW to \in TenantStates,
             NEW by \in Actors, NEW reason \in BOOLEAN, NEW ok \in BOOLEAN,
             Press(p, c, to, by, reason, ok)
      PROVE  RecordsExist'
  <2>1. tenants'[c] # NoRecord
    BY <1>1, <1>5 DEF Press, Transition, StoreTypeOK, Moved, NoRecord, Actors
  <2>2. proc # "down" /\ job' = job
    BY <1>5 DEF Press, Transition
  <2>3. press'[p].cust = c /\ \A q \in Pressers : q # p => press'[q] = press[q]
    BY <1>1, <1>5 DEF Press, UnwindTypeOK
  <2> QED
    BY <1>2, <1>3, <1>4, <2>1, <2>2, <2>3 DEF RecordsExist, Live
<1>6. ASSUME NEW p \in Pressers, KickDue(p) PROVE RecordsExist'
  <2>1. \A q \in Pressers : press'[q].at # "idle" => press[q].at # "idle" /\ press'[q].cust = press[q].cust
    BY <1>1, <1>6 DEF KickDue, UnwindTypeOK, PressRecords, IdlePress
  <2> QED
    BY <1>6, <2>1 DEF KickDue, RecordsExist, Live, storeVars
<1>7. ASSUME NEW p \in Pressers, KickClaim(p) PROVE RecordsExist'
  <2>1. \A q \in Pressers : press'[q] = press[q] \/ press'[q].at = "idle"
    BY <1>1, <1>7 DEF KickClaim, UnwindTypeOK, IdlePress
  <2>2. \A j \in Jobs : job'[j] = job[j] \/ job'[j] = FreshJob(press[p].cust)
    BY <1>1, <1>7 DEF KickClaim, UnwindTypeOK
  <2>3. FreshJob(press[p].cust).cust = press[p].cust /\ press[p].at # "idle"
    BY <1>7 DEF FreshJob, KickClaim
  <2>4. tenants' = tenants
    BY <1>7 DEF KickClaim, storeVars
  <2> QED
    BY <2>1, <2>2, <2>3, <2>4 DEF RecordsExist, Live
<1>8. ASSUME NEW j \in Jobs, WorkStep(j) PROVE RecordsExist'
  <2>1. job[j] \in JobRecords /\ job'[j].cust = job[j].cust /\ Live(j)
    BY <1>1, <1>8, WorkStepOwn, LiveJob
  <2>2. proc # "down" /\ press' = press
    BY <1>1, <1>8, <2>1, WorkStepQuiet DEF ClaimsHeld, Live, NoJob
  <2>3. \A k \in Jobs : k # j => job'[k] = job[k]
    BY <1>1, <1>8, WorkStepOwn DEF UnwindTypeOK
  <2> QED
    BY <1>2, <1>3, <1>4, <2>1, <2>2, <2>3 DEF RecordsExist, Live
<1>9. ASSUME NEW j \in Jobs, Leave(j) \/ Panic(j) PROVE RecordsExist'
  <2>1. \A k \in Jobs : job'[k] = job[k] \/ job'[k].at = "idle"
    BY <1>1, <1>9 DEF Leave, Panic, NoJob, UnwindTypeOK
  <2>2. tenants' = tenants /\ press' = press
    BY <1>9 DEF Leave, Panic, storeVars
  <2> QED
    BY <2>1, <2>2 DEF RecordsExist, Live
<1>10. CASE Crash
  BY <1>10 DEF Crash, RecordsExist, Live, NoJob, IdlePress
<1>11. CASE Resume
  <2>1. \A j \in Jobs : Live(j)' => JobDue(tenants[job'[j].cust])
    <3>1. NoJob.at = "idle" /\ \A c : FreshJob(c).cust = c
      BY DEF NoJob, FreshJob
    <3> QED
      BY <1>1, <1>11, <3>1, ResumeTasks DEF Live
  <2>2. tenants' = tenants /\ press' = press
    BY <1>11 DEF Resume, Serve
  <2> QED
    BY <2>1, <2>2 DEF RecordsExist, Live, JobDue, NoRecord
<1>12. CASE Load
  BY <1>12 DEF Load, Boot, ownVars, ClaimsHeld, RecordsExist, Live, NoJob, IdlePress
<1>13. ASSUME NEW c \in Customers, NEW ok \in BOOLEAN, CloseOrphan(c, ok) PROVE RecordsExist'
  BY <1>13 DEF CloseOrphan, ResumeOrphan, ownVars, ClaimsHeld, RecordsExist, Live, NoJob, IdlePress
<1>14. CASE UNCHANGED vars \/ \E o \in Orders : Admit(o) \/ Place(o) \/ Close(o)
  BY <1>14 DEF vars, ownVars, storeVars, Admit, Place, Close, RecordsExist, Live
<1> QED
  BY <1>5, <1>6, <1>7, <1>8, <1>9, <1>10, <1>11, <1>12, <1>13, <1>14, NextSteps

\* Every step keeps a task behind a status that reads Running.
LEMMA StatusStep ==
    ASSUME TypeOK, TypeOK', ClaimsHeld, ClaimsHeld', LeavingHasReported, RunningHasJob, [Next]_vars
    PROVE  LeavingHasReported' /\ RunningHasJob'
<1>1. UnwindTypeOK /\ UnwindTypeOK' /\ StoreTypeOK /\ StoreTypeOK'
  BY DEF TypeOK, UnwindTypeOK
<1>2. \A j \in Jobs : Live(j) => job[j].cust \in Customers
  BY <1>1, LiveJob DEF JobRecords
<1>3. ASSUME NEW p \in Pressers, NEW c \in Customers, NEW to \in TenantStates,
             NEW by \in Actors, NEW reason \in BOOLEAN, NEW ok \in BOOLEAN,
             Press(p, c, to, by, reason, ok)
      PROVE  LeavingHasReported' /\ RunningHasJob'
  <2>1. proc = "up" /\ job' = job /\ spent'.panics = spent.panics
    BY <1>1, <1>3 DEF Press, Transition, UnwindTypeOK
  <2>2. tenants'[c].phase = PhaseAfter(tenants[c].phase, to)
    BY <1>1, <1>3 DEF Press, Transition, Moved, StoreTypeOK
  <2>3. \A d \in Customers : tenants'[d].phase = "Running" => tenants[d].phase = "Running"
    BY <1>1, <1>3, <2>2 DEF Press, Transition, StoreTypeOK, PhaseAfter
  <2> QED
    BY <1>2, <2>1, <2>3 DEF LeavingHasReported, RunningHasJob, Live
<1>4. ASSUME NEW p \in Pressers, KickDue(p) PROVE LeavingHasReported' /\ RunningHasJob'
  BY <1>4 DEF KickDue, LeavingHasReported, RunningHasJob, Live, storeVars
<1>5. ASSUME NEW p \in Pressers, KickClaim(p) PROVE LeavingHasReported' /\ RunningHasJob'
  <2>1. \A j \in Jobs : job'[j] = job[j] \/ (job'[j] = FreshJob(press[p].cust) /\ ~Live(j))
    BY <1>1, <1>5 DEF KickClaim, UnwindTypeOK
  <2>2. FreshJob(press[p].cust).at = "spawned"
    BY DEF FreshJob
  <2>3. tenants' = tenants /\ proc' = proc /\ spent' = spent
    BY <1>5 DEF KickClaim, storeVars
  <2> QED
    BY <2>1, <2>2, <2>3 DEF LeavingHasReported, RunningHasJob, Live
<1>6. ASSUME NEW j \in Jobs, WorkStep(j) PROVE LeavingHasReported' /\ RunningHasJob'
  <2>1. Live(j) /\ Live(j)' /\ job'[j].cust = job[j].cust /\ job[j].cust \in Customers
    <3>1. job[j] \in JobRecords /\ job'[j] \in JobRecords /\ job'[j].cust = job[j].cust
      BY <1>1, <1>6, WorkStepOwn
    <3> QED
      BY <3>1 DEF Live, JobRecords
  <2>2. \A k \in Jobs : k # j => job'[k] = job[k]
    BY <1>1, <1>6, WorkStepOwn DEF UnwindTypeOK
  <2>3. proc' = proc /\ spent' = spent
    BY <1>1, <1>6, WorkStepQuiet
  <2>4. /\ \A d \in Customers : d # job[j].cust => tenants'[d] = tenants[d]
        /\ job'[j].at = "leaving" => tenants'[job[j].cust].phase # "Running"
    BY <1>1, <1>6, WorkStepRecord
  <2>5. LeavingHasReported'
    <3> SUFFICES ASSUME NEW k \in Jobs, job'[k].at = "leaving", k # j
                 PROVE  tenants'[job'[k].cust].phase # "Running"
      BY <2>1, <2>4 DEF LeavingHasReported
    <3>1. job[k].at = "leaving" /\ Live(k) /\ job'[k].cust = job[k].cust
      BY <2>2 DEF Live
    <3>2. job[k].cust # job[j].cust /\ job[k].cust \in Customers
      BY <1>2, <2>1, <3>1 DEF ClaimsHeld
    <3> QED
      BY <2>4, <3>1, <3>2 DEF LeavingHasReported
  <2>6. RunningHasJob'
    BY <2>1, <2>2, <2>3, <2>4 DEF RunningHasJob, Live
  <2> QED
    BY <2>5, <2>6
<1>7. ASSUME NEW j \in Jobs, Leave(j) PROVE LeavingHasReported' /\ RunningHasJob'
  <2>1. job'[j].at = "idle" /\ \A k \in Jobs : k # j => job'[k] = job[k]
    BY <1>1, <1>7 DEF Leave, NoJob, UnwindTypeOK
  <2>2. tenants' = tenants /\ proc' = proc /\ spent' = spent
    BY <1>7 DEF Leave, storeVars
  <2>3. tenants[job[j].cust].phase # "Running"
    BY <1>7 DEF Leave, LeavingHasReported
  <2> QED
    BY <2>1, <2>2, <2>3 DEF LeavingHasReported, RunningHasJob, Live
<1>8. ASSUME NEW j \in Jobs, Panic(j) PROVE LeavingHasReported' /\ RunningHasJob'
  <2>1. job'[j].at = "idle" /\ \A k \in Jobs : k # j => job'[k] = job[k]
    BY <1>1, <1>8 DEF Panic, NoJob, UnwindTypeOK
  <2>2. tenants' = tenants /\ spent'.panics # 0
    BY <1>1, <1>8, ReconcileAssumption DEF Panic, storeVars, UnwindTypeOK
  <2> QED
    BY <2>1, <2>2 DEF LeavingHasReported, RunningHasJob
<1>9. CASE Crash
  BY <1>9 DEF Crash, StoreCrash, LeavingHasReported, RunningHasJob, NoJob
<1>10. CASE Resume
  <2>1. ASSUME NEW c \in Customers, tenants[c].phase = "Running"
        PROVE  \E j \in Jobs : Live(j)' /\ job'[j].cust = c
    <3>1. JobDue(tenants[c])
      BY <1>10, <2>1 DEF Resume, Serve, Orphaned, StateOf, JobDue, IsFinal, FinalPhases
    <3>2. PICK j \in Jobs : job'[j] = FreshJob(c)
      BY <1>1, <1>10, <3>1, ResumeTasks
    <3> QED
      BY <3>2 DEF Live, FreshJob
  <2>2. tenants' = tenants
    BY <1>10 DEF Resume, Serve
  <2>3. NoJob.at # "leaving" /\ \A c : FreshJob(c).at # "leaving"
    BY DEF NoJob, FreshJob
  <2>4. \A j \in Jobs : job'[j].at # "leaving"
    BY <1>1, <1>10, <2>3, ResumeTasks
  <2> QED
    BY <2>1, <2>2, <2>4 DEF LeavingHasReported, RunningHasJob
<1>11. CASE Load
  BY <1>11 DEF Load, Boot, ownVars, ClaimsHeld, LeavingHasReported, RunningHasJob, NoJob
<1>12. ASSUME NEW c \in Customers, NEW ok \in BOOLEAN, CloseOrphan(c, ok)
       PROVE  LeavingHasReported' /\ RunningHasJob'
  BY <1>12 DEF CloseOrphan, ResumeOrphan, ownVars, ClaimsHeld, LeavingHasReported, RunningHasJob, NoJob
<1>13. CASE UNCHANGED vars \/ \E o \in Orders : Admit(o) \/ Place(o) \/ Close(o)
  BY <1>13 DEF vars, ownVars, storeVars, Admit, Place, Close, LeavingHasReported, RunningHasJob, Live
<1> QED
  BY <1>3, <1>4, <1>5, <1>6, <1>7, <1>8, <1>9, <1>10, <1>11, <1>12, <1>13, NextSteps

\* A task's tenant has a record, so none of the task's status writes is lost to the
\* early return of update_reconcile; the same holds for a kick under way.
THEOREM RecordsTheorem == Spec => []RecordsExist
<1>1. Init => RecordsExist
  BY DEF Init, RecordsExist, Live, NoJob, IdlePress
<1>2. TypeOK /\ TypeOK' /\ ClaimsHeld /\ ClaimsHeld' /\ RecordsExist /\ [Next]_vars => RecordsExist'
  BY RecordsStep
<1> QED
  BY <1>1, <1>2, UnwindTypeCorrect, ClaimsTheorem, PTL DEF Spec

\* A status that reads Running has a task behind it unless a task panicked: a
\* restart resumes the job or closes it (resume_all, kick).
THEOREM RunningTheorem == Spec => []RunningHasJob
<1>1. Init => LeavingHasReported /\ RunningHasJob
  BY DEF Init, StoreInit, LeavingHasReported, RunningHasJob, NoJob
<1>2. TypeOK /\ TypeOK' /\ ClaimsHeld /\ ClaimsHeld' /\ LeavingHasReported /\ RunningHasJob
        /\ [Next]_vars => LeavingHasReported' /\ RunningHasJob'
  BY StatusStep
<1> QED
  BY <1>1, <1>2, UnwindTypeCorrect, ClaimsTheorem, PTL DEF Spec

-----------------------------------------------------------------------------
(* A release stops the cancels.                                             *)

\* Every step keeps the count of batches sent after a release at one or less.
LEMMA BatchStep ==
    ASSUME TypeOK, TypeOK', ClaimsHeld, NoSecondBatch, ReleaseStopsUnwind, [Next]_vars
    PROVE  NoSecondBatch' /\ ReleaseStopsUnwind'
<1>1. UnwindTypeOK /\ UnwindTypeOK' /\ StoreTypeOK /\ StoreTypeOK'
  BY DEF TypeOK, UnwindTypeOK
<1>2. after \in [Customers -> Nat] /\ after' \in [Customers -> Nat]
  BY <1>1 DEF UnwindTypeOK
<1>3. ASSUME NEW p \in Pressers, NEW c \in Customers, NEW to \in TenantStates,
             NEW by \in Actors, NEW reason \in BOOLEAN, NEW ok \in BOOLEAN,
             Press(p, c, to, by, reason, ok)
      PROVE  NoSecondBatch' /\ ReleaseStopsUnwind'
  <2>1. after'[c] = 0 /\ \A d \in Customers : d # c => after'[d] = after[d]
    BY <1>2, <1>3 DEF Press
  <2>2. \A d \in Customers : d # c => StateOf(d)' = StateOf(d)
    BY <1>1, <1>3 DEF Press, Transition, StoreTypeOK, StateOf
  <2>3. job' = job
    BY <1>3 DEF Press
  <2> QED
    BY <2>1, <2>2, <2>3 DEF NoSecondBatch, ReleaseStopsUnwind
<1>4. ASSUME \A j \in Jobs : job'[j].at = "cancel" => job'[j] = job[j],
             tenants' = tenants, after' = after
      PROVE  NoSecondBatch' /\ ReleaseStopsUnwind'
  BY <1>4 DEF NoSecondBatch, ReleaseStopsUnwind, StateOf
<1>5. ASSUME NEW p \in Pressers, KickDue(p) \/ KickClaim(p)
      PROVE  NoSecondBatch' /\ ReleaseStopsUnwind'
  <2>1. FreshJob(press[p].cust).at # "cancel"
    BY DEF FreshJob
  <2>2. \A j \in Jobs : job'[j] = job[j] \/ job'[j] = FreshJob(press[p].cust)
    BY <1>1, <1>5 DEF KickDue, KickClaim, UnwindTypeOK
  <2>3. tenants' = tenants /\ after' = after
    BY <1>5 DEF KickDue, KickClaim, storeVars
  <2> QED
    BY <1>4, <2>1, <2>2, <2>3
<1>6. ASSUME NEW j \in Jobs, Cancel(j) PROVE NoSecondBatch' /\ ReleaseStopsUnwind'
  <2> DEFINE c == job[j].cust
  <2>1. WorkStep(j) /\ job[j].at = "cancel"
    BY <1>6 DEF WorkStep, Cancel
  <2>2. Live(j) /\ c \in Customers /\ job'[j].at = "list" /\ \A k \in Jobs : k # j => job'[k] = job[k]
    BY <1>1, <1>6, <2>1, WorkStepOwn, WorkStepLocals DEF JobRecords, Live, UnwindTypeOK
  <2>3. tenants' = tenants
    BY <1>6 DEF Cancel, Quiet, storeVars
  <2>4. CASE StateOf(c) = Active
    <3>1. after[c] = 0
      BY <1>2, <2>1, <2>2, <2>4 DEF NoSecondBatch
    <3>2. after' = [after EXCEPT ![c] = @ + 1]
      BY <1>6, <2>4 DEF Cancel
    <3>3. after'[c] = 1 /\ \A d \in Customers : d # c => after'[d] = after[d]
      BY <1>2, <2>2, <3>1, <3>2
    <3>4. \A k \in Jobs : job'[k].at = "cancel" => job'[k] = job[k] /\ job[k].cust # c
      BY <2>2 DEF ClaimsHeld, Live
    <3> QED
      BY <2>2, <2>3, <3>3, <3>4 DEF NoSecondBatch, ReleaseStopsUnwind, StateOf
  <2>5. CASE StateOf(c) # Active
    <3>1. after' = after
      BY <1>6, <2>5 DEF Cancel
    <3> QED
      BY <1>4, <2>2, <2>3, <3>1
  <2> QED
    BY <2>4, <2>5
<1>7. ASSUME NEW j \in Jobs, WorkStep(j), ~Cancel(j) PROVE NoSecondBatch' /\ ReleaseStopsUnwind'
  <2>1. after' = after
    BY <1>7 DEF WorkStep, Begin, RoundEnd, Publish, Recorded, Round, Recheck, Verdict, List, ListFails
  <2>2. \A d \in Customers : StateOf(d)' = StateOf(d)
    BY <1>1, <1>7, WorkStepRecord
  <2>3. job'[j].at = "cancel" => StateOf(job[j].cust) # Active
    BY <1>1, <1>7, WorkStepLocals DEF WorkStep
  <2>4. job'[j].cust = job[j].cust /\ \A k \in Jobs : k # j => job'[k] = job[k]
    BY <1>1, <1>7, WorkStepOwn DEF UnwindTypeOK
  <2> QED
    BY <2>1, <2>2, <2>3, <2>4 DEF NoSecondBatch, ReleaseStopsUnwind
<1>8. ASSUME NEW j \in Jobs, Leave(j) \/ Panic(j) PROVE NoSecondBatch' /\ ReleaseStopsUnwind'
  <2>1. \A k \in Jobs : job'[k].at = "cancel" => job'[k] = job[k]
    BY <1>1, <1>8 DEF Leave, Panic, NoJob, UnwindTypeOK
  <2> QED
    BY <1>4, <1>8, <2>1 DEF Leave, Panic, storeVars
<1>9. CASE Crash
  BY <1>9 DEF Crash, NoSecondBatch, ReleaseStopsUnwind, NoJob
<1>10. CASE Resume
  <2>1. NoJob.at # "cancel" /\ \A c : FreshJob(c).at # "cancel"
    BY DEF NoJob, FreshJob
  <2> QED
    BY <1>1, <1>4, <1>10, <2>1, ResumeTasks DEF Resume, Serve
<1>11. CASE Load \/ \E c \in Customers, ok \in BOOLEAN : CloseOrphan(c, ok)
  BY <1>11 DEF Load, Boot, CloseOrphan, ResumeOrphan, ownVars, ClaimsHeld, NoSecondBatch,
               ReleaseStopsUnwind, NoJob
<1>12. CASE UNCHANGED vars \/ \E o \in Orders : Admit(o) \/ Place(o) \/ Close(o)
  BY <1>12 DEF vars, ownVars, storeVars, Admit, Place, Close, NoSecondBatch, ReleaseStopsUnwind, StateOf
<1> QED
  BY <1>3, <1>5, <1>6, <1>7, <1>8, <1>9, <1>10, <1>11, <1>12, NextSteps

\* After a release at most the one batch of cancels that was past its second look
\* at the tenant state still goes out, however presses, tasks and restarts
\* interleave (run).
THEOREM ReleaseStopsTheorem == Spec => []ReleaseStopsUnwind
<1>1. Init => NoSecondBatch /\ ReleaseStopsUnwind
  BY DEF Init, NoSecondBatch, ReleaseStopsUnwind
<1>2. TypeOK /\ TypeOK' /\ ClaimsHeld /\ NoSecondBatch /\ ReleaseStopsUnwind /\ [Next]_vars
        => NoSecondBatch' /\ ReleaseStopsUnwind'
  BY BatchStep
<1> QED
  BY <1>1, <1>2, UnwindTypeCorrect, ClaimsTheorem, PTL DEF Spec

-----------------------------------------------------------------------------
(* Done is truthful.                                                        *)

\* Every step keeps a clean listing truthful.
LEMMA CleanStep ==
    ASSUME TypeOK, TypeOK', ClaimsHeld, CleanMeansUnseen, [Next]_vars
    PROVE  CleanMeansUnseen'
<1>1. UnwindTypeOK /\ UnwindTypeOK'
  BY DEF TypeOK, UnwindTypeOK
<1>2. ASSUME \A j \in Jobs : Live(j)' => job'[j] = job[j] \/ \E c : job'[j] = FreshJob(c),
             order' = order, unseen' = unseen
      PROVE  CleanMeansUnseen'
  <2>1. \A c : \A v \in Venues : FreshJob(c).seen[v] # "clean"
    BY DEF FreshJob
  <2> QED
    BY <1>2, <2>1 DEF CleanMeansUnseen, Live, Resting
<1>3. ASSUME NEW j \in Jobs, WorkStep(j) PROVE CleanMeansUnseen'
  <2>1. Live(j) /\ job'[j].cust = job[j].cust /\ \A k \in Jobs : k # j => job'[k] = job[k]
    <3>1. Live(j)
      BY <1>1, <1>3, WorkStepOwn, LiveJob
    <3> QED
      BY <1>1, <1>3, <3>1, WorkStepOwn DEF UnwindTypeOK
  <2>2. \A k \in Jobs : k # j /\ Live(k) => job[k].cust # job[j].cust
    BY <2>1 DEF ClaimsHeld
  <2>3. job[j].seen \in [Venues -> {"unknown", "clean", "dirty"}]
    BY <1>1, <1>3, WorkStepOwn DEF JobRecords
  <2>4. ASSUME job'[j].seen = job[j].seen, order' = order, unseen' = unseen PROVE CleanMeansUnseen'
    BY <2>1, <2>4 DEF CleanMeansUnseen, Live, Resting
  <2>5. CASE Cancel(j)
    <3>1. job'[j].seen = job[j].seen
      BY <1>1, <1>3, <2>5, WorkStepLocals
    <3>2. PICK gone \in SUBSET Orders :
             /\ order' = [o \in Orders |-> IF o \in gone THEN "closed" ELSE order[o]]
             /\ unseen' = unseen \ gone
      BY <2>5 DEF Cancel, Resting
    <3>3. \A c, v : Resting(c, v)' = Resting(c, v) \ gone
      BY <3>2 DEF Resting
    <3> QED
      BY <2>1, <3>1, <3>2, <3>3 DEF CleanMeansUnseen, Live
  <2>6. ASSUME NEW v \in Venues, List(j, v) PROVE CleanMeansUnseen'
    <3> DEFINE found == Resting(job[j].cust, v)
    <3>1. job'[j].seen = [job[j].seen EXCEPT ![v] = IF found = {} THEN "clean" ELSE "dirty"]
      BY <1>1, <1>3, <2>6, WorkStepLocals
    <3>2. unseen' = unseen \ found /\ order' = order
      BY <2>6 DEF List
    <3>3. \A c, w : Resting(c, w)' = Resting(c, w)
      BY <3>2 DEF Resting
    <3>4. \A c, w : c # job[j].cust \/ w # v => Resting(c, w) \cap found = {}
      BY DEF Resting
    <3>5. ASSUME NEW w \in Venues, job'[j].seen[w] = "clean"
          PROVE  Resting(job[j].cust, w) \subseteq unseen'
      <4>1. CASE w = v
        <5>1. found = {}
          BY <2>3, <3>1, <3>5, <4>1
        <5> QED
          BY <4>1, <5>1
      <4>2. CASE w # v
        <5>1. job[j].seen[w] = "clean"
          BY <2>3, <3>1, <3>5, <4>2
        <5>2. Resting(job[j].cust, w) \subseteq unseen
          BY <2>1, <5>1 DEF CleanMeansUnseen
        <5> QED
          BY <3>2, <3>4, <4>2, <5>2
      <4> QED
        BY <4>1, <4>2
    <3>6. ASSUME NEW k \in Jobs, k # j, Live(k)', NEW w \in Venues, job'[k].seen[w] = "clean"
          PROVE  Resting(job'[k].cust, w) \subseteq unseen'
      <4>1. Live(k) /\ job'[k] = job[k]
        BY <2>1, <3>6 DEF Live
      <4>2. Resting(job[k].cust, w) \subseteq unseen
        BY <3>6, <4>1 DEF CleanMeansUnseen
      <4>3. Resting(job[k].cust, w) \cap found = {}
        BY <2>2, <3>4, <3>6, <4>1
      <4> QED
        BY <3>2, <4>1, <4>2, <4>3
    <3> QED
      BY <2>1, <3>3, <3>5, <3>6 DEF CleanMeansUnseen
  <2>7. ASSUME NEW v \in Venues, ListFails(j, v) PROVE CleanMeansUnseen'
    <3>1. job'[j].seen = [job[j].seen EXCEPT ![v] = "unknown"]
      BY <1>1, <1>3, <2>7, WorkStepLocals
    <3>2. \A w \in Venues : job'[j].seen[w] = "clean" => job[j].seen[w] = "clean"
      BY <2>3, <3>1
    <3>3. unseen' = unseen /\ order' = order
      BY <2>7 DEF ListFails
    <3> QED
      BY <2>1, <3>2, <3>3 DEF CleanMeansUnseen, Live, Resting
  <2>8. CASE (\E ok \in BOOLEAN : Begin(j, ok) \/ RoundEnd(j, ok) \/ Publish(j, ok))
              \/ Round(j) \/ Recheck(j) \/ Verdict(j)
    <3>1. job'[j].seen = job[j].seen
      BY <1>1, <1>3, <2>8, WorkStepLocals
    <3>2. order' = order /\ unseen' = unseen
      BY <2>8 DEF Begin, RoundEnd, Publish, Recorded, Round, Recheck, Verdict
    <3> QED
      BY <2>4, <3>1, <3>2
  <2> QED
    BY <1>3, <2>5, <2>6, <2>7, <2>8 DEF WorkStep
<1>4. ASSUME NEW o \in Orders, Admit(o) \/ Place(o) \/ Close(o) PROVE CleanMeansUnseen'
  <2>1. job' = job
    BY <1>4 DEF Admit, Place, Close
  <2>2. \A c, v : Resting(c, v)' \ unseen' \subseteq Resting(c, v) \ unseen
    BY <1>1, <1>4 DEF Admit, Place, Close, Resting, UnwindTypeOK
  <2> QED
    BY <2>1, <2>2 DEF CleanMeansUnseen, Live
<1>5. ASSUME NEW p \in Pressers, KickDue(p) \/ KickClaim(p) PROVE CleanMeansUnseen'
  <2>1. \A j \in Jobs : job'[j] = job[j] \/ job'[j] = FreshJob(press[p].cust)
    BY <1>1, <1>5 DEF KickDue, KickClaim, UnwindTypeOK
  <2> QED
    BY <1>2, <1>5, <2>1 DEF KickDue, KickClaim
<1>6. ASSUME NEW j \in Jobs, Leave(j) \/ Panic(j) PROVE CleanMeansUnseen'
  <2>1. \A k \in Jobs : job'[k].at = "idle" \/ job'[k] = job[k]
    BY <1>1, <1>6 DEF Leave, Panic, NoJob, UnwindTypeOK
  <2> QED
    BY <1>2, <1>6, <2>1 DEF Leave, Panic, Live
<1>7. CASE Crash
  BY <1>7 DEF Crash, CleanMeansUnseen, Live, NoJob
<1>8. CASE Resume
  <2>1. \A j \in Jobs : job'[j] = NoJob \/ \E c : job'[j] = FreshJob(c)
    BY <1>1, <1>8, ResumeTasks
  <2> QED
    BY <1>2, <1>8, <2>1 DEF Resume, Live, NoJob
<1>9. CASE \/ Load \/ UNCHANGED vars
           \/ \E c \in Customers, ok \in BOOLEAN : CloseOrphan(c, ok)
           \/ \E p \in Pressers, c \in Customers, to \in TenantStates, by \in Actors,
                reason \in BOOLEAN, ok \in BOOLEAN : Press(p, c, to, by, reason, ok)
  BY <1>2, <1>9 DEF Load, CloseOrphan, Press, vars, ownVars
<1> QED
  BY <1>3, <1>4, <1>5, <1>6, <1>7, <1>8, <1>9, NextSteps

\* Every step keeps Done behind clean listings of every venue.
LEMMA DoneStep ==
    ASSUME UnwindTypeOK, DoneMeansClean, [Next]_vars
    PROVE  DoneMeansClean'
<1>1. ASSUME \A j \in Jobs : job'[j].at = "publish" => job'[j] = job[j]
      PROVE  DoneMeansClean'
  BY <1>1 DEF DoneMeansClean
<1>2. NoJob.at # "publish" /\ \A c : FreshJob(c).at # "publish"
  BY DEF NoJob, FreshJob
<1>3. ASSUME NEW j \in Jobs, WorkStep(j) PROVE DoneMeansClean'
  <2>1. \A k \in Jobs : k # j => job'[k] = job[k]
    BY <1>3, WorkStepOwn DEF UnwindTypeOK
  <2>2. CASE Verdict(j)
    <3>1. /\ job'[j].seen = job[j].seen
          /\ job'[j].verdict = "Done" =>
                Supported = Venues /\ \A v \in Venues : job[j].seen[v] = "clean"
      BY <1>3, <2>2, WorkStepLocals
    <3> QED
      BY <2>1, <3>1 DEF DoneMeansClean
  <2>3. CASE ~Verdict(j)
    <3>1. job'[j].at # "publish"
      BY <1>3, <2>3, WorkStepLocals DEF WorkStep
    <3> QED
      BY <1>1, <2>1, <3>1
  <2> QED
    BY <2>2, <2>3
<1>4. ASSUME NEW p \in Pressers, KickDue(p) \/ KickClaim(p) PROVE DoneMeansClean'
  <2>1. \A j \in Jobs : job'[j] = job[j] \/ job'[j] = FreshJob(press[p].cust)
    BY <1>4 DEF KickDue, KickClaim, UnwindTypeOK
  <2> QED
    BY <1>1, <1>2, <2>1
<1>5. ASSUME NEW j \in Jobs, Leave(j) \/ Panic(j) PROVE DoneMeansClean'
  <2>1. \A k \in Jobs : job'[k] = NoJob \/ job'[k] = job[k]
    BY <1>5 DEF Leave, Panic, UnwindTypeOK
  <2> QED
    BY <1>1, <1>2, <2>1
<1>6. CASE Crash
  BY <1>1, <1>2, <1>6 DEF Crash
<1>7. CASE Resume
  BY <1>1, <1>2, <1>7, ResumeTasks
<1>8. CASE \/ Load \/ UNCHANGED vars \/ \E o \in Orders : Admit(o) \/ Place(o) \/ Close(o)
           \/ \E c \in Customers, ok \in BOOLEAN : CloseOrphan(c, ok)
           \/ \E p \in Pressers, c \in Customers, to \in TenantStates, by \in Actors,
                reason \in BOOLEAN, ok \in BOOLEAN : Press(p, c, to, by, reason, ok)
  BY <1>1, <1>8 DEF Load, CloseOrphan, Press, Admit, Place, Close, vars, ownVars
<1> QED
  BY <1>3, <1>4, <1>5, <1>6, <1>7, <1>8, NextSteps

\* A task that is about to report Done can unwind every venue of the tenant, and
\* what still rests came to rest after the venue's last listing (run).
THEOREM DoneTheorem == Spec => []DoneIsTruthful
<1>1. Init => CleanMeansUnseen /\ DoneMeansClean
  BY DEF Init, CleanMeansUnseen, DoneMeansClean, Live, NoJob
<1>2. TypeOK /\ TypeOK' /\ ClaimsHeld /\ CleanMeansUnseen /\ [Next]_vars => CleanMeansUnseen'
  BY CleanStep
<1>3. UnwindTypeOK /\ DoneMeansClean /\ [Next]_vars => DoneMeansClean'
  BY DoneStep
<1>4. CleanMeansUnseen /\ DoneMeansClean => DoneIsTruthful
  BY DEF CleanMeansUnseen, DoneMeansClean, DoneIsTruthful, Live
<1> QED
  BY <1>1, <1>2, <1>3, <1>4, UnwindTypes, UnwindTypeCorrect, ClaimsTheorem, PTL DEF Spec

=============================================================================
