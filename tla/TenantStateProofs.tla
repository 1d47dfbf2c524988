------------------------- MODULE TenantStateProofs -------------------------
(***************************************************************************)
(* Proofs about the tenant-state store, for every set of customers.         *)
(***************************************************************************)
EXTENDS TenantState, TLAPS

\* Moving a record, and setting its phase, give records (transition,
\* update_reconcile).
LEMMA RecordTypes ==
    ASSUME NEW rec \in Records, NEW to \in TenantStates, NEW by \in Actors, NEW ph \in Phases
    PROVE  Moved(rec, to, by) \in Records /\ WithPhase(rec, ph) \in Records
<1>1. PhaseAfter(rec.phase, to) \in Phases
  BY DEF PhaseAfter, Records, Phases
<1>2. Moved(rec, to, by) \in Records
  BY <1>1 DEF Moved, Records
<1>3. WithPhase(rec, ph) \in Records
  BY DEF WithPhase, Records
<1>4. QED
  BY <1>2, <1>3

\* Every reachable state of the store is well typed.
THEOREM StoreTypeCorrect == StoreSpec => []StoreTypeOK
<1>1. StoreInit => StoreTypeOK
  <2>1. FirstRecords \subseteq Records
    BY DEF FirstRecords, NoRecord, Records, Phases, FinalPhases, TenantStates, Actors,
           Active, CancelOnly, Halted
  <2>2. QED
    BY <2>1 DEF StoreInit, StoreTypeOK
<1>2. StoreTypeOK /\ [StoreNext]_storeVars => StoreTypeOK'
  <2> SUFFICES ASSUME StoreTypeOK, [StoreNext]_storeVars PROVE StoreTypeOK'
    OBVIOUS
  <2>1. ASSUME NEW c \in Customers, NEW ok \in BOOLEAN, NEW to \in TenantStates,
               NEW by \in Actors, NEW reason \in BOOLEAN, Transition(c, to, by, reason, ok)
        PROVE  StoreTypeOK'
    <3>1. tenants[c] \in Records /\ "Pending" \in Phases
      BY DEF StoreTypeOK, Phases
    <3>2. Moved(tenants[c], to, by) \in Records
      BY <3>1, RecordTypes
    <3>3. tenants' \in [Customers -> Records]
      BY <2>1, <3>2 DEF Transition, StoreTypeOK
    <3>4. QED
      BY <2>1, <3>3 DEF Transition, Persist, StoreTypeOK
  <2>2. ASSUME NEW c \in Customers, NEW ok \in BOOLEAN, NEW ph \in Phases,
               UpdateReconcile(c, ph, ok)
        PROVE  /\ tenants' \in [Customers -> Records] /\ disk' \in [Customers -> Records]
               /\ durable' \in BOOLEAN
    <3>1. tenants[c] \in Records /\ Active \in TenantStates /\ "Client" \in Actors
      BY DEF StoreTypeOK, TenantStates, Actors
    <3>2. WithPhase(tenants[c], ph) \in Records
      BY <3>1, RecordTypes
    <3>3. tenants' \in [Customers -> Records]
      BY <2>2, <3>2 DEF UpdateReconcile, StoreTypeOK
    <3>4. QED
      BY <2>2, <3>3 DEF UpdateReconcile, Persist, StoreTypeOK
  <2>3. ASSUME NEW c \in Customers, NEW ok \in BOOLEAN,
               NEW ph \in {"Running", tenants[c].phase} \cup FinalPhases, JobUpdate(c, ph, ok)
        PROVE  StoreTypeOK'
    <3>1. ph \in Phases
      BY DEF StoreTypeOK, Records, Phases
    <3>2. QED
      BY <2>2, <2>3, <3>1 DEF JobUpdate, StoreTypeOK
  <2>4. ASSUME NEW c \in Customers, NEW ok \in BOOLEAN, ResumeOrphan(c, ok)
        PROVE  StoreTypeOK'
    <3>1. "Terminated" \in Phases
      BY DEF Phases, FinalPhases
    <3>2. QED
      BY <2>2, <2>4, <3>1 DEF ResumeOrphan, StoreTypeOK
  <2>5. CASE StoreCrash \/ Boot \/ Serve \/ UNCHANGED storeVars
    BY <2>5 DEF StoreCrash, Boot, Serve, storeVars, StoreTypeOK
  <2>6. QED
    BY <2>1, <2>3, <2>4, <2>5 DEF StoreNext
<1>3. QED
  BY <1>1, <1>2, PTL DEF StoreSpec

\* The durable flag is truthful in every reachable state: while it is set, a
\* restart loads exactly the records the gateway enforces (persist_locked).
THEOREM DurableTheorem == StoreSpec => []DurableMeansOnDisk
<1>1. StoreInit => DurableMeansOnDisk
  BY DEF StoreInit, DurableMeansOnDisk
<1>2. DurableMeansOnDisk /\ [StoreNext]_storeVars => DurableMeansOnDisk'
  BY DEF DurableMeansOnDisk, StoreNext, storeVars, Transition, JobUpdate, ResumeOrphan,
         UpdateReconcile, Persist, StoreCrash, Boot, Serve
<1>3. QED
  BY <1>1, <1>2, PTL DEF StoreSpec

\* No press of a client or of automation, no unwind step and no restart of a
\* durable store lowers a tenant's level; only an operator does (transition).
THEOREM ReleaseTheorem == StoreSpec => OnlyOperatorReleases
<1> DEFINE Rule == \A c \in Customers :
              Severity(StateOf(c)') < Severity(StateOf(c)) =>
                  tenants'[c].by = "Operator" \/ ~durable
<1>1. StoreTypeOK /\ DurableMeansOnDisk /\ [StoreNext]_storeVars => Rule
  <2> SUFFICES ASSUME StoreTypeOK, DurableMeansOnDisk, [StoreNext]_storeVars, durable,
                      NEW c \in Customers, Severity(StateOf(c)') < Severity(StateOf(c))
               PROVE  tenants'[c].by = "Operator"
    OBVIOUS
  <2>1. \A x \in TenantStates : Severity(x) \in Nat
    BY DEF Severity
  <2>2. StateOf(c) \in TenantStates
    BY DEF StateOf, StoreTypeOK, Records
  <2>3. StateOf(c)' # StateOf(c)
    BY <2>1, <2>2
  <2>4. ASSUME NEW d \in Customers, NEW ok \in BOOLEAN, NEW to \in TenantStates,
               NEW by \in Actors, NEW reason \in BOOLEAN, Transition(d, to, by, reason, ok)
        PROVE  tenants'[c].by = "Operator"
    <3>1. c = d
      BY <2>3, <2>4 DEF Transition, StateOf, StoreTypeOK
    <3>2. tenants'[c] = Moved(tenants[c], to, by)
      BY <2>4, <3>1 DEF Transition, StoreTypeOK
    <3>3. StateOf(c)' = to /\ tenants'[c].by = by
      BY <3>2 DEF StateOf, Moved
    <3>4. QED
      BY <2>4, <3>1, <3>3 DEF Transition, Changes, Refused
  <2>5. ASSUME NEW d \in Customers, NEW ok \in BOOLEAN, NEW ph, UpdateReconcile(d, ph, ok)
        PROVE  StateOf(c)' = StateOf(c)
    <3>1. tenants[d] \in Records
      BY DEF StoreTypeOK
    <3>2. WithPhase(tenants[d], ph).state = tenants[d].state
      BY <3>1 DEF WithPhase, Records
    <3>3. QED
      BY <2>5, <3>2 DEF UpdateReconcile, StateOf, StoreTypeOK
  <2>6. ~(StoreCrash \/ Boot \/ Serve \/ UNCHANGED storeVars)
    BY <2>3 DEF StoreCrash, Boot, Serve, storeVars, StateOf, DurableMeansOnDisk
  <2>7. QED
    BY <2>3, <2>4, <2>5, <2>6 DEF StoreNext, JobUpdate, ResumeOrphan
<1>2. QED
  BY <1>1, StoreTypeCorrect, DurableTheorem, PTL DEF StoreSpec, OnlyOperatorReleases

=============================================================================
