---------------------------- MODULE Pcr0Registry ----------------------------
(***************************************************************************)
(* The on-chain register of enclave measurements                            *)
(* (UsenamiAttestationRegistry.sol): each owner's history of records, and   *)
(* the index that says which owner's measurement is active.  A transaction  *)
(* that reverts changes nothing.                                            *)
(***************************************************************************)
EXTENDS Naturals, Sequences

CONSTANTS
    Owners,
    Pcr0s,        \* measurements of 48 bytes
    Nobody,       \* address(0)
    MaxRecords    \* bound: records of one owner

ASSUME RegisterAssumption == Nobody \notin Owners /\ MaxRecords \in Nat

VARIABLES
    records,      \* records[o]: [pcr0, active], oldest first
    activeOwner   \* activePCR0OwnerByHash

registerVars == <<records, activeOwner>>

RegisterInit ==
    /\ records = [o \in Owners |-> <<>>]
    /\ activeOwner = [m \in Pcr0s |-> Nobody]

\* The owner's history once its newest record is no longer active.
Retired(history) ==
    IF history = <<>> THEN <<>> ELSE [history EXCEPT ![Len(history)].active = FALSE]

\* The measurements an owner's registration takes out of the index.
Released(history) ==
    {history[i].pcr0 : i \in {j \in DOMAIN history : j = Len(history) /\ history[j].active}}

\* Mutated form of RegisterPCR0: the previous measurement stays in the index.
RegisterKeepingIndex(o, m) ==
    /\ activeOwner[m] = Nobody
    /\ Len(records[o]) < MaxRecords
    /\ records' = [records EXCEPT ![o] = Append(Retired(@), [pcr0 |-> m, active |-> TRUE])]
    /\ activeOwner' = [activeOwner EXCEPT ![m] = o]

\* registerPCR0: the owner's previous measurement is deprecated.
RegisterPCR0(o, m) ==
    /\ activeOwner[m] = Nobody
    /\ Len(records[o]) < MaxRecords
    /\ records' = [records EXCEPT ![o] = Append(Retired(@), [pcr0 |-> m, active |-> TRUE])]
    /\ activeOwner' = [x \in Pcr0s |->
          IF x = m THEN o
          ELSE IF x \in Released(records[o]) THEN Nobody ELSE activeOwner[x]]

\* The newest active record of m, where deprecatePCR0's walk stops.
NewestActive(history, m) ==
    CHOOSE i \in DOMAIN history :
        /\ history[i].pcr0 = m /\ history[i].active
        /\ \A j \in DOMAIN history : history[j].pcr0 = m /\ history[j].active => j <= i

\* deprecatePCR0
DeprecatePCR0(o, m) ==
    /\ activeOwner[m] = o
    /\ records' = [records EXCEPT ![o][NewestActive(records[o], m)].active = FALSE]
    /\ activeOwner' = [activeOwner EXCEPT ![m] = Nobody]

RegisterNext == \E o \in Owners, m \in Pcr0s : RegisterPCR0(o, m) \/ DeprecatePCR0(o, m)

RegisterSpec == RegisterInit /\ [][RegisterNext]_registerVars

-----------------------------------------------------------------------------
(* The two questions a verifier can ask agree (isPCR0Active, getActivePCR0):*)
(* an owner has at most one active record, its newest, and exactly that     *)
(* record's measurement is under its name in the index, whatever owners     *)
(* register, rotate, deprecate and register again.                          *)
IndexAgrees ==
    \A o \in Owners :
        /\ \A i \in DOMAIN records[o] :
              records[o][i].active <=>
                  i = Len(records[o]) /\ activeOwner[records[o][i].pcr0] = o
        /\ \A m \in Pcr0s :
              activeOwner[m] = o => records[o] # <<>> /\ records[o][Len(records[o])].pcr0 = m

=============================================================================
