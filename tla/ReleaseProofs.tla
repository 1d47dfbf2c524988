--------------------------- MODULE ReleaseProofs ----------------------------
(***************************************************************************)
(* What the release tools, the gateway's start and the contract guarantee   *)
(* for any number of commands, files, builds, policies, owners and          *)
(* measurements.                                                            *)
(***************************************************************************)
EXTENDS Release, SequenceTheorems, TLAPS

-----------------------------------------------------------------------------
(* The contract: IndexAgrees is inductive by itself once the types of its   *)
(* two mappings are known.                                                  *)

Record == [pcr0 : Pcr0s, active : BOOLEAN]

\* The two mappings hold what the contract stores in them.
RegisterTyped ==
    /\ records \in [Owners -> Seq(Record)]
    /\ activeOwner \in [Pcr0s -> Owners \union {Nobody}]

RegisterInv == RegisterTyped /\ IndexAgrees

\* Retiring the newest record keeps the history's length and measurements.
LEMMA RetiredHistory ==
    ASSUME NEW h \in Seq(Record)
    PROVE  /\ Retired(h) \in Seq(Record)
           /\ Len(Retired(h)) = Len(h)
           /\ \A i \in 1..Len(h) :
                 /\ Retired(h)[i].pcr0 = h[i].pcr0
                 /\ Retired(h)[i].active <=> h[i].active /\ i # Len(h)
<1>1. CASE h = <<>>
  BY <1>1 DEF Retired
<1>2. CASE h # <<>>
  <2> DEFINE n == Len(h)
  <2>1. n \in 1..Len(h) /\ h \in [1..n -> Record]
    BY <1>2
  <2>2. Retired(h) = [h EXCEPT ![n] = [h[n] EXCEPT !.active = FALSE]]
    BY <1>2, <2>1 DEF Retired
  <2>3. h[n] \in Record /\ [h[n] EXCEPT !.active = FALSE] \in Record
    BY <2>1 DEF Record
  <2>4. Retired(h) \in [1..n -> Record]
    BY <2>1, <2>2, <2>3
  <2>5. Retired(h) \in Seq(Record) /\ Len(Retired(h)) = n
    BY <2>1, <2>4
  <2>6. ASSUME NEW i \in 1..n
        PROVE  /\ Retired(h)[i].pcr0 = h[i].pcr0
               /\ Retired(h)[i].active <=> h[i].active /\ i # n
    BY <2>1, <2>2, <2>3 DEF Record
  <2> QED
    BY <2>5, <2>6
<1> QED
  BY <1>1, <1>2

\* The records of an owner are of measurements.
LEMMA RecordedPcr0s ==
    ASSUME RegisterTyped, NEW p \in Owners
    PROVE  \A i \in DOMAIN records[p] : records[p][i].pcr0 \in Pcr0s
<1>1. records[p] \in Seq(Record)
  BY DEF RegisterTyped
<1>2. \A i \in DOMAIN records[p] : records[p][i] \in Record
  BY <1>1
<1> QED
  BY <1>2 DEF Record

\* What a step uses of IndexAgrees: the measurement an owner gives up is its
\* own, and deprecatePCR0's walk stops at the newest record.
LEMMA NewestIsActive ==
    ASSUME RegisterInv, NEW o \in Owners, NEW m \in Pcr0s, activeOwner[m] = o
    PROVE  LET h == records[o] IN
           /\ h \in Seq(Record) /\ h # <<>> /\ Len(h) \in 1..Len(h)
           /\ h[Len(h)].pcr0 = m /\ h[Len(h)].active
           /\ \A i \in 1..Len(h) : h[i].active => i = Len(h)
           /\ NewestActive(h, m) = Len(h)
<1> DEFINE h == records[o]
<1>1. h \in Seq(Record)
  BY DEF RegisterInv, RegisterTyped
<1>2. h # <<>> /\ h[Len(h)].pcr0 = m
  BY DEF RegisterInv, IndexAgrees
<1>3. Len(h) \in 1..Len(h) /\ DOMAIN h = 1..Len(h)
  BY <1>1, <1>2
<1>4. h[Len(h)].active /\ \A i \in 1..Len(h) : h[i].active => i = Len(h)
  BY <1>2, <1>3 DEF RegisterInv, IndexAgrees
<1>5. \A i \in DOMAIN h : (h[i].pcr0 = m /\ h[i].active) <=> i = Len(h)
  BY <1>2, <1>3, <1>4
<1>6. NewestActive(h, m) = Len(h)
  BY <1>3, <1>5 DEF NewestActive
<1> QED
  BY <1>1, <1>2, <1>3, <1>4, <1>6

LEMMA RegisterStep ==
    ASSUME RegisterInv, NEW o \in Owners, NEW m \in Pcr0s, RegisterPCR0(o, m)
    PROVE  RegisterInv'
<1> DEFINE h == records[o]
           n == Len(h)
           r == [pcr0 |-> m, active |-> TRUE]
           after == Append(Retired(h), r)
<1>1. h \in Seq(Record) /\ n \in Nat /\ r \in Record
  <2>1. h \in Seq(Record)
    BY DEF RegisterInv, RegisterTyped
  <2> QED
    BY <2>1 DEF Record
<1>2. Retired(h) \in Seq(Record) /\ Len(Retired(h)) = n
  BY <1>1, RetiredHistory
<1>3. /\ after \in Seq(Record) /\ Len(after) = n + 1
      /\ after[n + 1] = r
      /\ \A i \in 1..n : after[i] = Retired(h)[i]
  BY <1>1, <1>2
<1>4. \A i \in 1..n : ~after[i].active
  <2>1. \A i \in 1..n : h[i].active => i = n
    BY <1>1 DEF RegisterInv, IndexAgrees
  <2> QED
    BY <1>1, <1>3, <2>1, RetiredHistory
<1>5. records' = [records EXCEPT ![o] = after]
  BY DEF RegisterPCR0
<1>6. RegisterTyped'
  <2>1. records' \in [Owners -> Seq(Record)]
    BY <1>3, <1>5 DEF RegisterInv, RegisterTyped
  <2>2. activeOwner' \in [Pcr0s -> Owners \union {Nobody}]
    BY DEF RegisterPCR0, RegisterInv, RegisterTyped
  <2> QED
    BY <2>1, <2>2 DEF RegisterTyped
<1>7. \A x \in Released(h) : activeOwner[x] = o
  BY <1>1 DEF Released, RegisterInv, IndexAgrees
<1>8. ASSUME NEW x \in Pcr0s, activeOwner[x] = o
      PROVE  x \in Released(h)
  BY <1>8, <1>1, NewestIsActive DEF Released
<1>9. \A x \in Pcr0s : activeOwner'[x] =
         IF x = m THEN o ELSE IF x \in Released(h) THEN Nobody ELSE activeOwner[x]
  BY DEF RegisterPCR0
<1>10. activeOwner[m] = Nobody /\ Nobody \notin Owners
  BY RegisterAssumption DEF RegisterPCR0
<1>11. \A x \in Pcr0s : activeOwner'[x] = o <=> x = m
  BY <1>8, <1>9, <1>10
<1>12. ASSUME NEW p \in Owners \ {o}, NEW x \in Pcr0s
       PROVE  activeOwner'[x] = p <=> activeOwner[x] = p
  BY <1>7, <1>9, <1>10
<1>13. records'[o] = after /\ \A p \in Owners \ {o} : records'[p] = records[p]
  BY <1>5 DEF RegisterInv, RegisterTyped
<1>14. IndexAgrees'
  <2> SUFFICES ASSUME NEW p \in Owners
               PROVE  /\ \A i \in DOMAIN records'[p] :
                            records'[p][i].active <=>
                               i = Len(records'[p]) /\ activeOwner'[records'[p][i].pcr0] = p
                      /\ \A x \in Pcr0s :
                            activeOwner'[x] = p =>
                               records'[p] # <<>> /\ records'[p][Len(records'[p])].pcr0 = x
    BY DEF IndexAgrees
  <2>1. CASE p = o
    <3>1. \A i \in 1..(n + 1) :
             after[i].active <=> i = n + 1 /\ activeOwner'[after[i].pcr0] = o
      BY <1>1, <1>3, <1>4, <1>11
    <3>2. DOMAIN after = 1..(n + 1) /\ after # <<>>
      BY <1>1, <1>3
    <3> QED
      BY <2>1, <1>3, <1>11, <1>13, <3>1, <3>2
  <2>2. CASE p # o
    <3>1. \A i \in DOMAIN records[p] : records[p][i].pcr0 \in Pcr0s
      BY RecordedPcr0s DEF RegisterInv
    <3> QED
      BY <2>2, <1>12, <1>13, <3>1 DEF RegisterInv, IndexAgrees
  <2> QED
    BY <2>1, <2>2
<1> QED
  BY <1>6, <1>14 DEF RegisterInv

LEMMA DeprecateStep ==
    ASSUME RegisterInv, NEW o \in Owners, NEW m \in Pcr0s, DeprecatePCR0(o, m)
    PROVE  RegisterInv'
<1> DEFINE h == records[o]
           n == Len(h)
<1>1. activeOwner[m] = o /\ Nobody \notin Owners
  BY RegisterAssumption DEF DeprecatePCR0
<1>2. /\ h \in Seq(Record) /\ h # <<>> /\ n \in 1..n /\ n \in Nat
      /\ h[n].pcr0 = m
      /\ \A i \in 1..n : h[i].active => i = n
      /\ NewestActive(h, m) = n
  BY <1>1, NewestIsActive
<1>3. /\ Retired(h) \in Seq(Record) /\ Len(Retired(h)) = n
      /\ \A i \in 1..n : Retired(h)[i].pcr0 = h[i].pcr0 /\ ~Retired(h)[i].active
  BY <1>2, RetiredHistory
<1>4. records' = [records EXCEPT ![o] = Retired(h)]
  BY <1>2 DEF DeprecatePCR0, Retired
<1>5. records'[o] = Retired(h) /\ \A p \in Owners \ {o} : records'[p] = records[p]
  BY <1>4 DEF RegisterInv, RegisterTyped
<1>6. activeOwner' = [activeOwner EXCEPT ![m] = Nobody]
  BY DEF DeprecatePCR0
<1>7. RegisterTyped'
  BY <1>3, <1>4, <1>6 DEF RegisterInv, RegisterTyped
<1>8. \A x \in Pcr0s : activeOwner'[x] = IF x = m THEN Nobody ELSE activeOwner[x]
  BY <1>6 DEF RegisterInv, RegisterTyped
<1>9. IndexAgrees'
  <2> SUFFICES ASSUME NEW p \in Owners
               PROVE  /\ \A i \in DOMAIN records'[p] :
                            records'[p][i].active <=>
                               i = Len(records'[p]) /\ activeOwner'[records'[p][i].pcr0] = p
                      /\ \A x \in Pcr0s :
                            activeOwner'[x] = p =>
                               records'[p] # <<>> /\ records'[p][Len(records'[p])].pcr0 = x
    BY DEF IndexAgrees
  <2>1. CASE p = o
    <3>1. \A x \in Pcr0s : activeOwner'[x] # o
      <4>1. \A x \in Pcr0s : activeOwner[x] = o => x = m
        BY <1>2, NewestIsActive
      <4> QED
        BY <1>1, <1>8, <4>1
    <3>2. \A i \in 1..n : ~Retired(h)[i].active /\ (i = n => Retired(h)[i].pcr0 \in Pcr0s)
      BY <1>2, <1>3
    <3>3. DOMAIN Retired(h) = 1..n
      BY <1>3
    <3> QED
      BY <2>1, <1>3, <1>5, <3>1, <3>2, <3>3
  <2>2. CASE p # o
    <3>1. \A x \in Pcr0s : activeOwner'[x] = p <=> activeOwner[x] = p
      BY <2>2, <1>1, <1>8
    <3>2. \A i \in DOMAIN records[p] : records[p][i].pcr0 \in Pcr0s
      BY RecordedPcr0s DEF RegisterInv
    <3> QED
      BY <2>2, <1>5, <3>1, <3>2 DEF RegisterInv, IndexAgrees
  <2> QED
    BY <2>1, <2>2
<1> QED
  BY <1>7, <1>9 DEF RegisterInv

(***************************************************************************)
(* isPCR0Active and getActivePCR0 give one answer, whatever owners register,*)
(* rotate, deprecate and register again (registerPCR0, deprecatePCR0).      *)
(***************************************************************************)
THEOREM RegisterAgrees == RegisterSpec => []IndexAgrees
<1>1. RegisterInit => RegisterInv
  BY RegisterAssumption DEF RegisterInit, RegisterInv, RegisterTyped, IndexAgrees
<1>2. RegisterInv /\ [RegisterNext]_registerVars => RegisterInv'
  <2> SUFFICES ASSUME RegisterInv, [RegisterNext]_registerVars
               PROVE  RegisterInv'
    OBVIOUS
  <2>1. CASE RegisterNext
    BY <2>1, RegisterStep, DeprecateStep DEF RegisterNext
  <2>2. CASE UNCHANGED registerVars
    BY <2>2 DEF registerVars, RegisterInv, RegisterTyped, IndexAgrees
  <2> QED
    BY <2>1, <2>2
<1> QED
  BY <1>1, <1>2, PTL DEF RegisterSpec, RegisterInv


(***************************************************************************)
(* The contract is one of the parts the operators work: its answers agree   *)
(* whatever the tools, the gateway and the enclave do in between.           *)
(***************************************************************************)
THEOREM ReleaseImplementsRegister == Spec => RegisterSpec
<1>1. Init => RegisterInit
  BY DEF Init
<1>2. [Next]_vars => [RegisterNext]_registerVars
  <2> SUFFICES ASSUME [Next]_vars PROVE [RegisterNext]_registerVars
    OBVIOUS
  <2>1. CASE Tool
    BY <2>1 DEF Tool
  <2>2. CASE Factory
    BY <2>2 DEF Factory
  <2>3. CASE Install
    BY <2>3 DEF Install
  <2>4. CASE Gateway
    BY <2>4 DEF Gateway
  <2>5. CASE OnChain
    BY <2>5 DEF OnChain
  <2>6. CASE UNCHANGED vars
    BY <2>6 DEF vars
  <2> QED
    BY <2>1, <2>2, <2>3, <2>4, <2>5, <2>6 DEF Next
<1> QED
  BY <1>1, <1>2, PTL DEF Spec, RegisterSpec

\* History and index agree also where owners, operators and gateways act side by
\* side (registerPCR0, deprecatePCR0).
THEOREM IndexTheorem == Spec => []IndexAgrees
  BY ReleaseImplementsRegister, RegisterAgrees, PTL

-----------------------------------------------------------------------------
(* Sealed keys.  What is known of a blob from its birth in the enclave to   *)
(* the printed address: it is sealed to the identity it was asked for, and  *)
(* the build that minted it found its policy good enough to load.           *)

\* The build i minted b under this identity.
MintedBy(i, b, home) ==
    LET v == home[2]  p == b.policy IN
    /\ v \in Mintable
    /\ p \in shelf
    /\ p.intent = None
    /\ Strict(i.strict, v) => AuthoritySigned(i, p, home[1], v) /\ BindingCap(p, v)

SealedFor(b, key, home, i) ==
    /\ b # None
    /\ b.form = "envelope" /\ b.key = key
    /\ b.ctx = home /\ b.aad = home /\ CleanContext(home)
    /\ \/ home = DataHome /\ b.policy = DataPolicy
       \/ home \in Homes /\ MintedBy(i, b, home)

\* A policy carries the authority's signature only if every build enforces it.
ShelfOK ==
    shelf \subseteq Policies /\ \A p \in shelf : p.authority # None => Enforceable(p)

Requests ==
    [kind : {"data"}, creds : Credentials, home : {DataHome}, policy : {None}, out : Places]
    \union [kind : {"agent"}, creds : Credentials, home : AgentHomes, policy : shelf, out : Places]

\* A command's answer is sealed for its request, and once written it is what
\* the file holds.
CommandOK(w) ==
    LET c == command[w] IN
    \/ c = NoCommand
    \/ c.at = "sent" /\ c \in [at : {"sent"}, request : Requests, key : Nat]
    \/ /\ c.at \in {"answered", "written"}
       /\ DOMAIN c = {"at", "request", "key", "blob", "image"}
       /\ c.request \in Requests /\ c.image \in Images
       /\ SealedFor(c.blob, c.key, c.request.home, c.image)
       /\ c.at = "written" => disk[c.request.out] = c.blob

AnnouncedOK(a) ==
    /\ a.file \in Places /\ a.image \in Images
    /\ SealedFor(disk[a.file], a.key, a.home, a.image)

SealedInv ==
    /\ ShelfOK
    /\ asked \in Nat /\ image \in Images \union {None}
    /\ DOMAIN command = Commands /\ DOMAIN disk = Places
    /\ \A w \in Commands : CommandOK(w)
    /\ \A a \in announced : AnnouncedOK(a)

LEMMA SealedInit == Init => SealedInv
<1> SUFFICES ASSUME Init PROVE SealedInv
  OBVIOUS
<1>1. ShelfOK
  BY DraftsAssumption DEF Init, ToolInit, ShelfOK, Policies
<1> QED
  BY <1>1 DEF Init, FactoryInit, SealedInv, CommandOK

\* What the authority signs is sane, so that every build enforces it.
LEMMA ShelfStep ==
    ASSUME ShelfOK, ToolNext
    PROVE  ShelfOK' /\ shelf \subseteq shelf'
<1>1. CASE shelf' = shelf
  BY <1>1 DEF ShelfOK, Policies
<1>2. CASE \E p \in shelf, h \in ClientHomes : PolicySign(p, h)
  <2>1. PICK p \in shelf, h \in ClientHomes : PolicySign(p, h)
    BY <1>2
  <2> DEFINE q == [p EXCEPT !.authority = h]
  <2>2. shelf' = shelf \union {q} /\ p.authority = None /\ Sane(p)
    BY <2>1 DEF PolicySign
  <2>3. DOMAIN p = PolicyFields
    BY DraftsAssumption DEF ShelfOK, Policies
  <2>4. p \in Drafts
    <3>1. \A d \in Drafts, x \in ClientHomes : [d EXCEPT !.authority = x].authority = x
      BY DraftsAssumption DEF PolicyFields
    <3>2. \A x \in ClientHomes : x # None
      BY DraftsAssumption
    <3>3. p \in Policies
      BY DEF ShelfOK
    <3>4. ASSUME p \notin Drafts PROVE FALSE
      <4>1. PICK d \in Drafts, x \in ClientHomes : p = [d EXCEPT !.authority = x]
        BY <3>3, <3>4 DEF Policies
      <4>2. p.authority = x
        BY <3>1, <4>1
      <4> QED
        BY <2>2, <3>2, <4>2
    <3> QED
      BY <3>4
  <2>5. q.flaws = p.flaws
    BY <2>3 DEF PolicyFields
  <2>6. Enforceable(q)
    <3>1. "label" \notin p.flaws /\ "rate" \notin p.flaws
      BY <2>2 DEF Sane, ListsSane, RateUnset
    <3> QED
      BY <2>5, <3>1 DEF Enforceable
  <2>7. q \in Policies
    BY <2>4 DEF Policies
  <2>8. Policies' = Policies
    BY DEF Policies
  <2> QED
    BY <2>2, <2>6, <2>7, <2>8 DEF ShelfOK, Enforceable
<1> QED
  BY <1>1, <1>2 DEF ToolNext, WrapFlat, WrapEnvelope, KmsEncrypt, Seal


\* A command of the parent or the tool that leaves files and commands alone.
LEMMA QuietSealed ==
    ASSUME SealedInv, ShelfOK', shelf \subseteq shelf',
           UNCHANGED <<asked, command, disk, announced>>, image' \in Images \union {None}
    PROVE  SealedInv'
<1>1. ASSUME NEW w \in Commands PROVE CommandOK(w)'
  <2>1. CommandOK(w) /\ command' = command /\ disk' = disk
    BY DEF SealedInv
  <2>2. Requests \subseteq Requests'
    BY DEF Requests
  <2>3. CASE command[w] = NoCommand
    BY <2>1, <2>3 DEF CommandOK
  <2>4. CASE command[w].at = "sent" /\ command[w] \in [at : {"sent"}, request : Requests, key : Nat]
    <3>1. command[w] \in [at : {"sent"}, request : Requests', key : Nat]
      BY <2>2, <2>4
    <3> QED
      BY <2>1, <2>4, <3>1 DEF CommandOK
  <2>5. CASE /\ command[w].at \in {"answered", "written"}
             /\ DOMAIN command[w] = {"at", "request", "key", "blob", "image"}
             /\ command[w].request \in Requests /\ command[w].image \in Images
             /\ SealedFor(command[w].blob, command[w].key, command[w].request.home, command[w].image)
             /\ command[w].at = "written" => disk[command[w].request.out] = command[w].blob
    <3>1. SealedFor(command[w].blob, command[w].key, command[w].request.home, command[w].image)'
      BY <2>1, <2>5 DEF SealedFor, MintedBy, CleanContext
    <3> QED
      BY <2>1, <2>2, <2>5, <3>1 DEF CommandOK
  <2> QED
    BY <2>1, <2>3, <2>4, <2>5 DEF CommandOK
<1>2. ASSUME NEW a \in announced' PROVE AnnouncedOK(a)'
  BY DEF SealedInv, AnnouncedOK, SealedFor, MintedBy, CleanContext
<1> QED
  BY <1>1, <1>2 DEF SealedInv


\* A command that a step leaves alone, with its file.
LEMMA OtherCommand ==
    ASSUME SealedInv, shelf' = shelf, NEW u \in Commands, command'[u] = command[u],
           command[u].at = "written" =>
               disk'[command[u].request.out] = disk[command[u].request.out]
    PROVE  CommandOK(u)'
<1>1. CommandOK(u)
  BY DEF SealedInv
<1>2. Requests' = Requests
  BY DEF Requests
<1>3. SealedFor(command[u].blob, command[u].key, command[u].request.home, command[u].image) =>
      SealedFor(command[u].blob, command[u].key, command[u].request.home, command[u].image)'
  BY DEF SealedFor, MintedBy, CleanContext
<1> QED
  BY <1>1, <1>2, <1>3 DEF CommandOK

\* A printed address whose file a step leaves alone.
LEMMA OtherAnnounced ==
    ASSUME SealedInv, shelf' = shelf, NEW a \in announced, disk'[a.file] = disk[a.file]
    PROVE  AnnouncedOK(a)'
BY DEF SealedInv, AnnouncedOK, SealedFor, MintedBy, CleanContext

\* The parts of the invariant that only the shelf decides.
LEMMA SameShelf ==
    ASSUME SealedInv, shelf' = shelf
    PROVE  ShelfOK' /\ Requests' = Requests
BY DEF SealedInv, ShelfOK, Policies, Requests

\* A command that ends.
LEMMA QuitSealed ==
    ASSUME SealedInv, shelf' = shelf, NEW w \in Commands, Quit(w),
           UNCHANGED <<image, asked, announced, disk>>
    PROVE  SealedInv'
<1>1. ASSUME NEW u \in Commands PROVE CommandOK(u)'
  <2>1. CASE u = w
    BY <2>1 DEF Quit, CommandOK, SealedInv
  <2>2. CASE u # w
    BY <2>2, OtherCommand DEF Quit, SealedInv
  <2> QED
    BY <2>1, <2>2
<1>2. \A a \in announced' : AnnouncedOK(a)'
  BY OtherAnnounced
<1> QED
  BY <1>1, <1>2, SameShelf DEF SealedInv, Quit

LEMMA AskSealed ==
    ASSUME SealedInv, shelf' = shelf, NEW w \in Commands, NEW r \in Requests, Ask(w, r)
    PROVE  SealedInv'
<1>1. ASSUME NEW u \in Commands PROVE CommandOK(u)'
  <2>1. CASE u = w
    <3>1. command'[w] = [at |-> "sent", request |-> r, key |-> asked + 1]
      BY DEF Ask, SealedInv
    <3>2. command'[w] \in [at : {"sent"}, request : Requests', key : Nat]
      BY <3>1, SameShelf DEF SealedInv
    <3> QED
      BY <2>1, <3>1, <3>2 DEF CommandOK
  <2>2. CASE u # w
    BY <2>2, OtherCommand DEF Ask, SealedInv
  <2> QED
    BY <2>1, <2>2
<1>2. \A a \in announced' : AnnouncedOK(a)'
  BY OtherAnnounced DEF Ask
<1> QED
  BY <1>1, <1>2, SameShelf DEF SealedInv, Ask

\* What the enclave seals is no missing file, and is sealed for the request.
LEMMA BornSealed ==
    ASSUME SealedInv, NEW r \in Requests, NEW key \in Nat, image \in Images,
           CleanContext(r.home), r.kind = "agent" => Mints(r)
    PROVE  SealedFor(Born(key, r), key, r.home, image)
<1>1. CASE r.kind = "data"
  <2>1. r.home = DataHome
    BY <1>1 DEF Requests
  <2>2. Born(key, r) = [key |-> key, form |-> "envelope", ctx |-> DataHome, aad |-> DataHome,
                        policy |-> DataPolicy, size |-> "small"]
    BY <1>1 DEF Born, DataBlob, Sealed, DataPolicy
  <2>3. DataHome \in Homes /\ "small" \in Sizes
    BY DEF Homes, Sizes
  <2>4. Born(key, r) # None
    BY <2>2, <2>3, NoneAssumption
  <2> QED
    BY <2>1, <2>2, <2>4 DEF SealedFor
<1>2. CASE r.kind = "agent"
  <2>1. r.home \in AgentHomes /\ r.policy \in shelf
    BY <1>2 DEF Requests
  <2>2. r.home \in Homes /\ r.policy \in Policies
    BY <2>1 DEF SealedInv, ShelfOK, Homes
  <2>3. r.policy.size \in Sizes
    BY <2>2, DraftsAssumption DEF Policies, PolicyFields
  <2>4. Born(key, r) = [key |-> key, form |-> "envelope", ctx |-> r.home, aad |-> r.home,
                        policy |-> r.policy, size |-> r.policy.size]
    BY <1>2 DEF Born, AgentBlob, Sealed
  <2>5. Born(key, r) # None
    BY <2>2, <2>3, <2>4, NoneAssumption
  <2>6. MintedBy(image, Born(key, r), r.home)
    BY <1>2, <2>1, <2>4 DEF Mints, MintedBy, Mintable, MoneyVenues, HlVenues
  <2> QED
    BY <2>2, <2>4, <2>5, <2>6 DEF SealedFor
<1> QED
  BY <1>1, <1>2 DEF Requests


LEMMA AnswerSealed ==
    ASSUME SealedInv, shelf' = shelf, NEW w \in Commands, Answer(w)
    PROVE  SealedInv'
<1> DEFINE r == command[w].request
<1>1. /\ command[w].at = "sent" /\ image \in Images
      /\ UNCHANGED <<image, asked, disk, announced>>
  BY DEF Answer, Holding, SealedInv
<1>2. r \in Requests /\ command[w].key \in Nat
  BY <1>1 DEF SealedInv, CommandOK, NoCommand
<1>3. PICK outcome \in WrapOutcomes(r.creds, r.home) :
          IF (r.kind = "agent" => Mints(r)) /\ outcome = "wrapped"
          THEN command' = [command EXCEPT ![w] =
                  [at |-> "answered", request |-> r, key |-> command[w].key,
                   blob |-> Born(command[w].key, r), image |-> image]]
          ELSE Quit(w)
  BY DEF Answer
<1>4. CASE ~((r.kind = "agent" => Mints(r)) /\ outcome = "wrapped")
  BY <1>1, <1>3, <1>4, QuitSealed
<1>5. CASE (r.kind = "agent" => Mints(r)) /\ outcome = "wrapped"
  <2>1. command' = [command EXCEPT ![w] =
                  [at |-> "answered", request |-> r, key |-> command[w].key,
                   blob |-> Born(command[w].key, r), image |-> image]]
    BY <1>3, <1>5
  <2>2. command'[w] = [at |-> "answered", request |-> r, key |-> command[w].key,
                       blob |-> Born(command[w].key, r), image |-> image]
    BY <2>1 DEF SealedInv
  <2>3. CleanContext(r.home)
    BY <1>3, <1>5 DEF WrapOutcomes
  <2>4. SealedFor(Born(command[w].key, r), command[w].key, r.home, image)
    BY <1>1, <1>2, <1>5, <2>3, BornSealed
  <2>5. ASSUME NEW u \in Commands PROVE CommandOK(u)'
    <3>1. CASE u = w
      <4>1. SealedFor(command[w].blob, command[w].key, command[w].request.home, command[w].image)'
        BY <2>2, <2>4 DEF SealedFor, MintedBy, CleanContext
      <4>2. command'[w].request \in Requests' /\ command'[w].image \in Images
        BY <1>1, <1>2, <2>2, SameShelf
      <4> QED
        BY <3>1, <2>2, <4>1, <4>2 DEF CommandOK
    <3>2. CASE u # w
      BY <3>2, <1>1, <2>1, OtherCommand DEF SealedInv
    <3> QED
      BY <3>1, <3>2
  <2>6. \A a \in announced' : AnnouncedOK(a)'
    BY <1>1, OtherAnnounced
  <2> QED
    BY <1>1, <2>1, <2>5, <2>6, SameShelf DEF SealedInv
<1> QED
  BY <1>4, <1>5

\* A new file is written where there was none: no address that was printed, and
\* none that is about to be, has its key there.
LEMMA NewFile ==
    ASSUME SealedInv, shelf' = shelf, NEW out \in Places, disk[out] = None,
           \A p \in Places \ {out} : disk'[p] = disk[p]
    PROVE  /\ \A a \in announced : AnnouncedOK(a)'
           /\ \A u \in Commands : command[u].at = "written" =>
                 disk'[command[u].request.out] = disk[command[u].request.out]
<1>1. ASSUME NEW a \in announced PROVE AnnouncedOK(a)'
  <2>1. a.file # out /\ a.file \in Places
    BY DEF SealedInv, AnnouncedOK, SealedFor
  <2> QED
    BY <2>1, OtherAnnounced
<1>2. ASSUME NEW u \in Commands, command[u].at = "written"
      PROVE  disk'[command[u].request.out] = disk[command[u].request.out]
  <2>1. command[u].request.out \in Places
    BY <1>2 DEF SealedInv, CommandOK, NoCommand, Requests
  <2>2. disk[command[u].request.out] # None
    BY <1>2 DEF SealedInv, CommandOK, NoCommand, SealedFor
  <2> QED
    BY <2>1, <2>2
<1> QED
  BY <1>1, <1>2

LEMMA WriteNewSealed ==
    ASSUME SealedInv, shelf' = shelf, NEW w \in Commands, WriteNew(w)
    PROVE  SealedInv'
<1> DEFINE out == command[w].request.out
<1>1. command[w].at = "answered" /\ UNCHANGED <<image, asked, announced>>
  BY DEF WriteNew, Holding
<1>2. CommandOK(w)
  BY DEF SealedInv
<1>3. out \in Places
  BY <1>1, <1>2 DEF CommandOK, NoCommand, Requests
<1>4. CASE disk[out] # None
  BY <1>1, <1>4, QuitSealed DEF WriteNew
<1>5. CASE disk[out] = None
  <2>1. /\ disk' = [disk EXCEPT ![out] = command[w].blob]
        /\ command' = [command EXCEPT ![w].at = "written"]
    BY <1>5 DEF WriteNew
  <2>2. disk'[out] = command[w].blob /\ \A p \in Places \ {out} : disk'[p] = disk[p]
    BY <1>3, <2>1 DEF SealedInv
  <2>3. ASSUME NEW u \in Commands PROVE CommandOK(u)'
    <3>1. CASE u = w
      <4>1. command'[w] = [command[w] EXCEPT !.at = "written"]
        BY <2>1 DEF SealedInv
      <4>2. /\ DOMAIN command[w] = {"at", "request", "key", "blob", "image"}
            /\ command[w].request \in Requests /\ command[w].image \in Images
            /\ SealedFor(command[w].blob, command[w].key, command[w].request.home, command[w].image)
        BY <1>1, <1>2 DEF CommandOK, NoCommand
      <4>3. /\ DOMAIN command'[w] = {"at", "request", "key", "blob", "image"}
            /\ command'[w].at = "written"
            /\ command'[w].request = command[w].request /\ command'[w].image = command[w].image
            /\ command'[w].blob = command[w].blob /\ command'[w].key = command[w].key
        BY <4>1, <4>2
      <4>4. SealedFor(command[w].blob, command[w].key, command[w].request.home, command[w].image)'
        BY <4>2, <4>3 DEF SealedFor, MintedBy, CleanContext
      <4> QED
        BY <3>1, <2>2, <4>2, <4>3, <4>4, SameShelf DEF CommandOK
    <3>2. CASE u # w
      <4>1. command'[u] = command[u]
        BY <3>2, <2>1 DEF SealedInv
      <4> QED
        BY <4>1, <1>3, <1>5, <2>2, NewFile, OtherCommand
    <3> QED
      BY <3>1, <3>2
  <2>4. \A a \in announced' : AnnouncedOK(a)'
    BY <1>1, <1>3, <1>5, <2>2, NewFile
  <2>5. DOMAIN command' = Commands /\ DOMAIN disk' = Places
    BY <2>1 DEF SealedInv
  <2> QED
    BY <1>1, <2>3, <2>4, <2>5, SameShelf DEF SealedInv
<1> QED
  BY <1>4, <1>5


LEMMA WriteTornSealed ==
    ASSUME SealedInv, shelf' = shelf, NEW w \in Commands, WriteTorn(w)
    PROVE  SealedInv'
<1> DEFINE out == command[w].request.out
<1>1. /\ command[w].at = "answered" /\ disk[out] = None /\ Quit(w)
      /\ UNCHANGED <<image, asked, announced>>
  BY DEF WriteTorn, Holding
<1>2. out \in Places
  BY <1>1 DEF SealedInv, CommandOK, NoCommand, Requests
<1>3. DOMAIN disk' = Places /\ \A p \in Places \ {out} : disk'[p] = disk[p]
  BY <1>2 DEF WriteTorn, SealedInv
<1>4. ASSUME NEW u \in Commands PROVE CommandOK(u)'
  <2>1. CASE u = w
    BY <1>1, <2>1 DEF Quit, CommandOK, SealedInv
  <2>2. CASE u # w
    <3>1. command'[u] = command[u]
      BY <1>1, <2>2 DEF Quit, SealedInv
    <3> QED
      BY <3>1, <1>1, <1>2, <1>3, NewFile, OtherCommand
  <2> QED
    BY <2>1, <2>2
<1>5. \A a \in announced' : AnnouncedOK(a)'
  BY <1>1, <1>2, <1>3, NewFile
<1> QED
  BY <1>1, <1>3, <1>4, <1>5, SameShelf DEF SealedInv, Quit

LEMMA AnnounceSealed ==
    ASSUME SealedInv, shelf' = shelf, NEW w \in Commands, Announce(w)
    PROVE  SealedInv'
<1> DEFINE new == [key |-> command[w].key, file |-> command[w].request.out,
                   home |-> command[w].request.home, image |-> command[w].image]
<1>1. /\ command[w].at = "written" /\ Quit(w) /\ announced' = announced \union {new}
      /\ UNCHANGED <<image, asked, disk>>
  BY DEF Announce, Holding
<1>2. /\ command[w].request \in Requests /\ command[w].image \in Images
      /\ SealedFor(command[w].blob, command[w].key, command[w].request.home, command[w].image)
      /\ disk[command[w].request.out] = command[w].blob
  BY <1>1 DEF SealedInv, CommandOK, NoCommand
<1>3. command[w].request.out \in Places
  BY <1>2 DEF Requests
<1>4. ASSUME NEW a \in announced' PROVE AnnouncedOK(a)'
  <2>1. CASE a \in announced
    BY <1>1, <2>1, OtherAnnounced
  <2>2. CASE a = new
    <3>1. /\ a.file = command[w].request.out /\ a.key = command[w].key
          /\ a.home = command[w].request.home /\ a.image = command[w].image
      BY <2>2
    <3>2. SealedFor(disk[a.file], a.key, a.home, a.image)
      BY <1>2, <3>1
    <3>3. SealedFor(disk[a.file], a.key, a.home, a.image)'
      BY <1>1, <3>2 DEF SealedFor, MintedBy, CleanContext
    <3> QED
      BY <1>2, <1>3, <3>1, <3>3 DEF AnnouncedOK
  <2> QED
    BY <1>1, <2>1, <2>2
<1>5. ASSUME NEW u \in Commands PROVE CommandOK(u)'
  <2>1. CASE u = w
    BY <1>1, <2>1 DEF Quit, CommandOK, SealedInv
  <2>2. CASE u # w
    BY <1>1, <2>2, OtherCommand DEF Quit, SealedInv
  <2> QED
    BY <2>1, <2>2
<1> QED
  BY <1>1, <1>4, <1>5, SameShelf DEF SealedInv, Quit

\* The operator replaces or removes a file that no command is about to announce,
\* and gives up the addresses that were printed with it.
LEMMA HandledSealed ==
    ASSUME SealedInv, shelf' = shelf, NEW p \in Places, NEW b, Unattended(p),
           disk' = [disk EXCEPT ![p] = b], LeaveAlone(p), UNCHANGED <<image, asked, command>>
    PROVE  SealedInv'
<1>1. DOMAIN disk' = Places /\ \A q \in Places \ {p} : disk'[q] = disk[q]
  BY DEF SealedInv
<1>2. ASSUME NEW u \in Commands PROVE CommandOK(u)'
  <2>1. command[u].at = "written" =>
            disk'[command[u].request.out] = disk[command[u].request.out]
    <3>1. SUFFICES ASSUME command[u].at = "written"
                   PROVE  command[u].request.out \in Places \ {p}
      BY <1>1
    <3> QED
      BY <3>1 DEF SealedInv, CommandOK, NoCommand, Requests, Unattended, Holding
  <2> QED
    BY <2>1, OtherCommand
<1>3. ASSUME NEW a \in announced' PROVE AnnouncedOK(a)'
  <2>1. a \in announced /\ a.file \in Places \ {p}
    BY DEF LeaveAlone, SealedInv, AnnouncedOK
  <2> QED
    BY <1>1, <2>1, OtherAnnounced
<1> QED
  BY <1>1, <1>2, <1>3, SameShelf DEF SealedInv


LEMMA FactorySealed ==
    ASSUME SealedInv, shelf' = shelf, FactoryNext
    PROVE  SealedInv'
<1>1. CASE \E w \in Commands, creds \in Credentials, out \in Outputs[DataHome] :
              Ask(w, DataRequest(creds, out))
  <2>1. PICK w \in Commands, creds \in Credentials, out \in Outputs[DataHome] :
              Ask(w, DataRequest(creds, out))
    BY <1>1
  <2>2. out \in Places
    BY FactoryAssumption DEF Homes
  <2>3. DataRequest(creds, out) \in Requests
    BY <2>2 DEF DataRequest, Requests
  <2> QED
    BY <2>1, <2>3, AskSealed
<1>2. CASE \E w \in Commands, creds \in Credentials, home \in AgentHomes, p \in shelf :
              \E out \in Outputs[home] : Ask(w, AgentRequest(creds, home, p, out))
  <2>1. PICK w \in Commands, creds \in Credentials, home \in AgentHomes, p \in shelf :
              \E out \in Outputs[home] : Ask(w, AgentRequest(creds, home, p, out))
    BY <1>2
  <2>2. PICK out \in Outputs[home] : Ask(w, AgentRequest(creds, home, p, out))
    BY <2>1
  <2>3. out \in Places
    BY FactoryAssumption DEF Homes
  <2>4. AgentRequest(creds, home, p, out) \in Requests
    BY <2>3 DEF AgentRequest, Requests
  <2> QED
    BY <2>2, <2>4, AskSealed
<1>3. CASE \E w \in Commands : Answer(w) \/ WriteNew(w) \/ WriteTorn(w) \/ Announce(w) \/ Killed(w)
  BY <1>3, AnswerSealed, WriteNewSealed, WriteTornSealed, AnnounceSealed, QuitSealed DEF Killed
<1>4. CASE \E p \in Places : RemoveFile(p)
  BY <1>4, HandledSealed DEF RemoveFile
<1>5. CASE EnclaveStops \/ \E i \in Images : EnclaveStarts(i)
  BY <1>5, QuietSealed, SameShelf DEF EnclaveStops, EnclaveStarts
<1> QED
  BY <1>1, <1>2, <1>3, <1>4, <1>5 DEF FactoryNext

LEMMA SealedStep == SealedInv /\ [Next]_vars => SealedInv'
<1> SUFFICES ASSUME SealedInv, [Next]_vars PROVE SealedInv'
  OBVIOUS
<1>1. CASE Tool
  <2>1. ToolNext /\ UNCHANGED factoryVars
    BY <1>1 DEF Tool
  <2>2. ShelfOK' /\ shelf \subseteq shelf'
    BY <2>1, ShelfStep DEF SealedInv
  <2>3. UNCHANGED <<image, asked, command, disk, announced>> /\ image \in Images \union {None}
    BY <2>1 DEF factoryVars, SealedInv
  <2> QED
    BY <2>2, <2>3, QuietSealed
<1>2. CASE Factory
  BY <1>2, FactorySealed DEF Factory, toolVars
<1>3. CASE Install
  <2>1. PICK p \in Places : Place(p)
    BY <1>3 DEF Install
  <2>2. PICK b : b = bench.blob
    OBVIOUS
  <2> QED
    BY <2>1, <2>2, HandledSealed DEF Place
<1>4. CASE Gateway \/ OnChain \/ UNCHANGED vars
  <2>1. UNCHANGED <<toolVars, factoryVars>>
    BY <1>4 DEF Gateway, OnChain, vars
  <2>2. UNCHANGED <<image, asked, command, disk, announced>> /\ shelf' = shelf
    BY <2>1 DEF factoryVars, toolVars
  <2> QED
    BY <2>2, QuietSealed, SameShelf DEF SealedInv
<1> QED
  BY <1>1, <1>2, <1>3, <1>4 DEF Next

LEMMA SealedTheorem == Spec => []SealedInv
BY SealedInit, SealedStep, PTL DEF Spec

(***************************************************************************)
(* The key of a printed address is in the named file, for any number of     *)
(* commands that run side by side, fail half way or are killed              *)
(* (write_new_private_file).                                                *)
(***************************************************************************)
THEOREM AnnouncedTheorem == Spec => []AnnouncedIsSealed
<1>1. SealedInv => AnnouncedIsSealed
  BY DEF SealedInv, AnnouncedOK, SealedFor, AnnouncedIsSealed
<1> QED
  BY <1>1, SealedTheorem, PTL

(***************************************************************************)
(* What one build minted and the parent announced, every build with the     *)
(* same rules loads (handle_provision_agent_key, load_and_parse_blob).      *)
(***************************************************************************)
THEOREM SealedKeysTheorem == Spec => []SealedKeysLoad
<1>1. ASSUME SealedInv PROVE SealedKeysLoad
  <2> SUFFICES ASSUME NEW a \in announced, NEW i \in Images,
                      i.allowed, a.home = DataHome \/ SameRules(i, a.image),
                      FitsEnclave(disk[a.file]),
                      \/ Strict(i.strict, a.home[2])
                      \/ Enforceable(disk[a.file].policy) /\ TofuSound(disk[a.file].policy)
               PROVE  Loads(i, disk[a.file], a.home)
    BY DEF SealedKeysLoad
  <2> DEFINE b == disk[a.file]
             v == a.home[2]
  <2>1. SealedFor(b, a.key, a.home, a.image)
    BY <1>1 DEF SealedInv, AnnouncedOK
  <2>2. Opens(i, b, a.home)
    BY <2>1 DEF SealedFor, Opens, Unwraps, Decrypts
  <2>3. CASE a.home = DataHome /\ b.policy = DataPolicy
    <3>1. v = "data-signing"
      BY <2>3 DEF DataHome
    <3>2. v \notin MoneyVenues
      BY <3>1 DEF MoneyVenues, HlVenues
    <3>3. /\ b.policy # None /\ b.policy.intent = None
          /\ Enforceable(b.policy) /\ TofuSound(b.policy)
      BY <2>3, NoneAssumption DEF DataPolicy, Enforceable, TofuSound
    <3> QED
      BY <2>2, <3>2, <3>3 DEF Loads
  <2>4. CASE a.home \in Homes /\ MintedBy(a.image, b, a.home)
    <3>1. v # "data-signing"
      BY <2>4 DEF MintedBy, Mintable
    <3>2. SameRules(i, a.image)
      BY <3>1 DEF DataHome
    <3>3. b.policy # None /\ b.policy.intent = None /\ b.policy \in shelf
      BY <1>1, <2>4, FactoryAssumption DEF MintedBy, SealedInv, ShelfOK
    <3>4. Strict(i.strict, v) =>
             AuthoritySigned(i, b.policy, a.home[1], v) /\ BindingCap(b.policy, v)
      BY <2>4, <3>2 DEF MintedBy, SameRules, AuthoritySigned
    <3>5. Strict(i.strict, v) => Enforceable(b.policy)
      <4>1. <<a.home[1], v>> # None
        BY <2>4, FactoryAssumption
      <4> QED
        BY <1>1, <3>3, <3>4, <4>1 DEF AuthoritySigned, SealedInv, ShelfOK
    <3>6. v \in MoneyVenues
      BY <2>4 DEF MintedBy, Mintable, MoneyVenues, HlVenues
    <3> QED
      BY <2>2, <3>3, <3>4, <3>5, <3>6 DEF Loads
  <2> QED
    BY <2>1, <2>3, <2>4 DEF SealedFor
<1> QED
  BY <1>1, SealedTheorem, PTL


-----------------------------------------------------------------------------
(* The gateway's start.                                                     *)

\* The running gateway keeps what it was started with.
ServingInv ==
    /\ gw = Down \/ DOMAIN gw = {"up", "blobs", "env", "health"}
    /\ ServesPublishedKey

LEMMA ServingStep == ServingInv /\ [Next]_vars => ServingInv'
<1> SUFFICES ASSUME ServingInv, [Next]_vars PROVE ServingInv'
  OBVIOUS
<1> USE DEF ServingInv, ServesPublishedKey
<1>1. CASE Gateway
  <2>1. config' = config
    BY <1>1 DEF Gateway, BootNext, Boot, Probe, GatewayStops, SetAddress, SetPubkey
  <2>2. CASE Boot
    <3>1. PICK outcome \in ProbeOutcomes(LoadAllBlobs, env.address) \ {"failed"} :
              gw' = [up |-> TRUE, blobs |-> LoadAllBlobs, env |-> env,
                     health |-> [enabled |-> outcome = "passed" /\ config.interval,
                                 ok |-> outcome = "passed"]]
      BY <2>2 DEF Boot
    <3>2. config.token => /\ DataHome \in DOMAIN LoadAllBlobs
                          /\ LoadAllBlobs[DataHome].key = env.address
      BY <3>1 DEF ProbeOutcomes
    <3>3. /\ DOMAIN gw' = {"up", "blobs", "env", "health"}
          /\ gw'.blobs = LoadAllBlobs /\ gw'.env = env
      BY <3>1
    <3> QED
      BY <2>1, <3>2, <3>3
  <2>3. CASE Probe
    <3>1. gw.up
      BY <2>3 DEF Probe
    <3>2. DOMAIN gw = {"up", "blobs", "env", "health"}
      BY <3>1 DEF Down
    <3>3. PICK health : gw' = [gw EXCEPT !.health = health]
      BY <2>3 DEF Probe
    <3>4. /\ DOMAIN gw' = {"up", "blobs", "env", "health"}
          /\ gw'.blobs = gw.blobs /\ gw'.env = gw.env
      BY <3>2, <3>3
    <3> QED
      BY <2>1, <3>1, <3>4
  <2>4. CASE GatewayStops
    BY <2>4 DEF GatewayStops, Down
  <2>5. CASE \E a \in announced : SetAddress(a.key) \/ SetPubkey(a.key)
    BY <2>5 DEF SetAddress, SetPubkey
  <2> QED
    BY <1>1, <2>2, <2>3, <2>4, <2>5 DEF Gateway, BootNext
<1>2. CASE Tool \/ Factory \/ Install \/ OnChain \/ UNCHANGED vars
  <2>1. gw' = gw /\ config' = config
    BY <1>2 DEF Tool, Factory, Install, OnChain, vars, bootVars
  <2> QED
    BY <2>1
<1> QED
  BY <1>1, <1>2 DEF Next

(***************************************************************************)
(* The key a gateway signs data with is the one whose address it publishes, *)
(* although key files, environment and enclave change under it              *)
(* (data_signing_self_test).                                                *)
(***************************************************************************)
THEOREM ServingTheorem == Spec => []ServesPublishedKey
<1>1. Init => ServingInv
  BY DEF Init, BootInit, Down, ServingInv, ServesPublishedKey
<1> QED
  BY <1>1, ServingStep, PTL DEF Spec, ServingInv

=============================================================================
