---------------------------- MODULE TenantState ----------------------------
(***************************************************************************)
(* The gateway's tenant-state store (tenant_state.rs): one record per       *)
(* customer in memory, written through to a JSON file while the write lock  *)
(* is held.  A failed write leaves the new record in memory and marks the   *)
(* store non-durable.  The unwind job is the store's environment here: it   *)
(* may set any running or final phase at any time; Reconcile models it.     *)
(***************************************************************************)
EXTENDS TenantRules

CONSTANT Customers

VARIABLES
    tenants,   \* the in-memory map `inner`; NoRecord where it has no entry
    disk,      \* the map in the state file
    durable,   \* the `durable` flag: the last write-through succeeded
    proc       \* "down", "resuming" (between load and serving), "up"

storeVars == <<tenants, disk, durable, proc>>

(***************************************************************************)
(* The file of the first start: absent, or written by an earlier version    *)
(* whose records carry no job status.                                       *)
(***************************************************************************)
FirstRecords ==
    {NoRecord} \cup [state : {CancelOnly, Halted}, by : {"Operator"}, phase : {"None"}]

StoreInit ==
    /\ disk \in [Customers -> FirstRecords]
    /\ tenants = disk
    /\ durable = TRUE
    /\ proc = "down"

StateOf(c) == tenants[c].state

\* Mutated form of Persist: a failed write goes unreported.
PersistSilently(ok) ==
    /\ disk' = IF ok THEN tenants' ELSE disk
    /\ UNCHANGED durable

\* persist_locked: memory is already updated; a failed write keeps the old file.
Persist(ok) ==
    /\ disk' = IF ok THEN tenants' ELSE disk
    /\ durable' = ok

Transition(c, to, by, reason, ok) ==
    /\ proc = "up"
    /\ Changes(StateOf(c), to, by, reason)
    /\ tenants' = [tenants EXCEPT ![c] = Moved(@, to, by)]
    /\ Persist(ok)
    /\ UNCHANGED proc

\* update_reconcile: returns early, without a write, when there is no record.
UpdateReconcile(c, phase, ok) ==
    /\ tenants[c] # NoRecord
    /\ tenants' = [tenants EXCEPT ![c] = WithPhase(@, phase)]
    /\ Persist(ok)

\* The job's own updates; a round's progress is written with the phase it has.
JobUpdate(c, phase, ok) ==
    /\ proc # "down"
    /\ UpdateReconcile(c, phase, ok)
    /\ UNCHANGED proc

StoreCrash ==
    /\ proc # "down"
    /\ proc' = "down"
    /\ UNCHANGED <<tenants, disk, durable>>

\* load, then boot_probe: the file that was read is written back, and a write
\* that fails fails the boot (the process stays down).
Boot ==
    /\ proc = "down"
    /\ tenants' = disk
    /\ durable' = TRUE
    /\ proc' = "resuming"
    /\ UNCHANGED disk

\* resume_all, first loop: an ACTIVE tenant whose job is not final.
Orphaned(c) == StateOf(c) = Active /\ tenants[c].phase \in {"Pending", "Running"}

ResumeOrphan(c, ok) ==
    /\ proc = "resuming"
    /\ Orphaned(c)
    /\ UpdateReconcile(c, "Terminated", ok)
    /\ UNCHANGED proc

\* The orphans are closed and the due jobs kicked before a request is served.
Serve ==
    /\ proc = "resuming"
    /\ \A c \in Customers : ~Orphaned(c)
    /\ proc' = "up"
    /\ UNCHANGED <<tenants, disk, durable>>

StoreNext ==
    \/ \E c \in Customers, ok \in BOOLEAN :
        \/ \E to \in TenantStates, by \in Actors, reason \in BOOLEAN :
              Transition(c, to, by, reason, ok)
        \/ \E phase \in {"Running", tenants[c].phase} \cup FinalPhases :
              JobUpdate(c, phase, ok)
        \/ ResumeOrphan(c, ok)
    \/ StoreCrash
    \/ Boot
    \/ Serve

StoreSpec == StoreInit /\ [][StoreNext]_storeVars

-----------------------------------------------------------------------------

\* Every variable of the store holds a value of its type.
StoreTypeOK ==
    /\ tenants \in [Customers -> Records]
    /\ disk \in [Customers -> Records]
    /\ durable \in BOOLEAN
    /\ proc \in {"down", "resuming", "up"}

\* The flag the healthcheck reads is truthful: while `durable` is true a restart
\* would load exactly the states the gateway enforces now (persist_locked,
\* boot_probe), whatever writes failed before for this or another tenant.
DurableMeansOnDisk == durable => disk = tenants

\* The level of no tenant is ever lowered, by a press, by the unwind job or by a
\* restart, except by an operator, or by a restart while the store had already
\* reported that memory is ahead of the disk (transition, load, resume_all).
OnlyOperatorReleases ==
    [][\A c \in Customers :
          Severity(StateOf(c)') < Severity(StateOf(c)) =>
              tenants'[c].by = "Operator" \/ ~durable]_storeVars

=============================================================================
