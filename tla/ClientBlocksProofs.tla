------------------------- MODULE ClientBlocksProofs -------------------------
(***************************************************************************)
(* Proofs about ClientBlocks for any clients and any number of analyzers   *)
(* and updates.                                                            *)
(***************************************************************************)
EXTENDS ClientBlocks, TLAPS

\* What holds of the blocked clients wherever they are kept.
Sound(b) ==
  /\ b \in Blocks
  /\ b.auto \cap b.manual = {}
  /\ \A c \in Clients : b.count[c] <= 1
  /\ b.auto \cup b.manual \subseteq Listed(b)

LEMMA SoundCopies ==
  TypeOK /\ BlockedOnce /\ InfoOfBlocked => Sound(mem) /\ Sound(disk) /\ Sound(page)
BY DEF TypeOK, BlockedOnce, InfoOfBlocked, Sound

LEMMA NoBlocksSound == Sound(NoBlocks) /\ Listed(NoBlocks) = {}
BY DEF Sound, NoBlocks, Listed, Blocks

\* blockClientAuto appends a client that is not listed.
LEMMA AutoSound ==
  ASSUME NEW b, Sound(b), NEW c \in Clients, c \notin Listed(b),
         NEW n, n = [count |-> [b.count EXCEPT ![c] = @ + 1],
                     auto |-> b.auto \cup {c}, manual |-> b.manual \ {c}]
  PROVE  /\ Sound(n)
         /\ Listed(n) = Listed(b) \cup {c} /\ n.auto = b.auto \cup {c}
<1>1. b.count \in [Clients -> Nat] /\ b.auto \subseteq Clients /\ b.manual \subseteq Clients
  BY DEF Sound, Blocks
<1>2. b.count[c] = 0
  BY <1>1 DEF Listed
<1>3. /\ n.count \in [Clients -> Nat] /\ n.count[c] = 1
      /\ \A d \in Clients \ {c} : n.count[d] = b.count[d]
  BY <1>1, <1>2
<1>4. Listed(n) = Listed(b) \cup {c}
  BY <1>3 DEF Listed
<1>5. n.auto = b.auto \cup {c} /\ n.manual = b.manual \ {c} /\ n \in Blocks
  BY <1>1, <1>3 DEF Blocks
<1>6. \A d \in Clients : n.count[d] <= 1
  BY <1>3 DEF Sound
<1> HIDE DEF Blocks
<1>7. n.auto \cap n.manual = {} /\ n.auto \cup n.manual \subseteq Listed(n)
  BY <1>4, <1>5 DEF Sound
<1> QED
  BY <1>4, <1>5, <1>6, <1>7 DEF Sound

\* handleClientBlock appends a client that is not there yet.
LEMMA BlockSound ==
  ASSUME NEW b, Sound(b), NEW c \in Clients,
         NEW n, n = [count |-> [b.count EXCEPT ![c] = IF @ = 0 THEN 1 ELSE @],
                     auto |-> b.auto \ {c}, manual |-> b.manual \cup {c}]
  PROVE  /\ Sound(n)
         /\ Listed(n) = Listed(b) \cup {c} /\ n.auto = b.auto \ {c}
<1>1. b.count \in [Clients -> Nat] /\ b.auto \subseteq Clients /\ b.manual \subseteq Clients
  BY DEF Sound, Blocks
<1>2. /\ n.count \in [Clients -> Nat] /\ n.count[c] = 1
      /\ \A d \in Clients \ {c} : n.count[d] = b.count[d]
  BY <1>1 DEF Sound
<1>3. Listed(n) = Listed(b) \cup {c}
  BY <1>2 DEF Listed
<1> QED
  BY <1>1, <1>2, <1>3 DEF Sound, Blocks

LEMMA UnblockSound ==
  ASSUME NEW b, Sound(b), NEW c \in Clients
  PROVE  /\ Sound(Without(b, c))
         /\ Listed(Without(b, c)) = Listed(b) \ {c}
         /\ Without(b, c).auto \subseteq b.auto
<1> DEFINE n == Without(b, c)
<1>1. b.count \in [Clients -> Nat] /\ b.auto \subseteq Clients /\ b.manual \subseteq Clients
  BY DEF Sound, Blocks
<1>2. /\ n.count \in [Clients -> Nat] /\ n.count[c] = 0
      /\ \A d \in Clients \ {c} : n.count[d] = b.count[d]
  BY <1>1 DEF Without
<1>3. Listed(n) = Listed(b) \ {c}
  BY <1>2 DEF Listed
<1> QED
  BY <1>1, <1>2, <1>3 DEF Sound, Blocks, Without

\* unblock_all_clients with only_auto takes the automatic blocks away.
LEMMA UnblockAutoSound ==
  ASSUME NEW b, Sound(b),
         NEW n, n = [b EXCEPT !.count = [c \in Clients |->
                                           IF c \in b.auto \cap Listed(b)
                                           THEN b.count[c] - 1 ELSE b.count[c]],
                              !.auto = b.auto \ Listed(b)]
  PROVE  Sound(n) /\ Listed(n) = Listed(b) \ b.auto /\ n.auto = {}
<1>1. /\ b \in Blocks
      /\ b.count \in [Clients -> Nat] /\ b.auto \subseteq Clients /\ b.manual \subseteq Clients
  BY DEF Sound, Blocks
<1>2. \A c \in Clients : IF c \in b.auto \cap Listed(b) THEN b.count[c] = 1
                                                      ELSE c \notin b.auto
  BY <1>1 DEF Sound, Listed
<1>3. /\ n.count = [c \in Clients |-> IF c \in b.auto \cap Listed(b)
                                     THEN b.count[c] - 1 ELSE b.count[c]]
      /\ n.auto = b.auto \ Listed(b) /\ n.manual = b.manual
      /\ n = [count |-> n.count, auto |-> n.auto, manual |-> n.manual]
  BY <1>1 DEF Sound, Blocks
<1>4. /\ n.count = [c \in Clients |-> IF c \in b.auto THEN 0 ELSE b.count[c]]
      /\ n.auto = {} /\ n.manual = b.manual
  BY <1>1, <1>2, <1>3
<1>5. n.count \in [Clients -> Nat]
  BY <1>1, <1>4
<1>6. n \in Blocks
  BY <1>1, <1>3, <1>4, <1>5 DEF Blocks
<1>7. Listed(n) = Listed(b) \ b.auto
  BY <1>1, <1>4 DEF Listed
<1>8. \A c \in Clients : n.count[c] <= 1
  BY <1>1, <1>4 DEF Sound
<1>9. n.manual \subseteq Listed(b) \ b.auto
  BY <1>4 DEF Sound
<1> QED
  BY <1>4, <1>6, <1>7, <1>8, <1>9 DEF Sound

LEMMA RetrofitSound ==
  ASSUME NEW b, Sound(b)
  PROVE  /\ Sound(Retrofitted(b))
         /\ Listed(Retrofitted(b)) = Listed(b) /\ Retrofitted(b).auto = b.auto
<1> DEFINE n == Retrofitted(b)
<1>1. /\ n.count = b.count /\ n.auto = b.auto
      /\ n.manual = b.manual \cup (Listed(b) \ b.auto)
      /\ n \in Blocks
  BY DEF Retrofitted, Sound, Blocks, Listed
<1>2. Listed(n) = Listed(b)
  BY <1>1 DEF Listed
<1>3. n.auto \cap n.manual = {} /\ n.auto \cup n.manual \subseteq Listed(n)
  <2> HIDE DEF n
  <2> QED
    BY <1>1, <1>2 DEF Sound
<1>4. \A c \in Clients : n.count[c] <= 1
  <2> HIDE DEF n
  <2> QED
    BY <1>1 DEF Sound
<1> QED
  BY <1>1, <1>2, <1>3, <1>4 DEF Sound

LEMMA PostedSound == Sound(mem) /\ Sound(page) => Sound(Posted)
<1> SUFFICES ASSUME Sound(mem), Sound(page) PROVE Sound(Posted)
  OBVIOUS
<1>1. /\ Posted.count = (IF Listed(page) = {} THEN mem.count ELSE page.count)
      /\ Posted.auto = page.auto /\ Posted.manual = page.manual
      /\ Posted \in Blocks
  BY DEF Posted, Sound, Blocks
<1>2. Listed(page) # {} => Listed(Posted) = Listed(page)
  BY <1>1 DEF Listed
<1> QED
  BY <1>1, <1>2 DEF Sound

LEMMA InitIInv == Init => IInv
<1> SUFFICES ASSUME Init PROVE IInv
  OBVIOUS
<1>1. PICK c \in Clients : mem \in {NoBlocks, [NoBlocks EXCEPT !.count[c] = 1]}
  BY DEF Init
<1>2. /\ mem.count \in [Clients -> Nat] /\ \A d \in Clients : mem.count[d] <= 1
      /\ mem.auto = {} /\ mem.manual = {} /\ mem \in Blocks
  BY <1>1 DEF NoBlocks, Blocks
<1>3. outdated \in BOOLEAN /\ disk = mem /\ page = mem
  BY Zenon DEF Init
<1>4. TypeOK
  BY <1>2, <1>3, BlocksAssumption DEF Init, TypeOK, Off, Listed
<1> QED
  BY <1>2, <1>3, <1>4
  DEF Init, IInv, BlockedOnce, InfoOfBlocked, ManualBlockStays, Listed

\* Calling updateCorefile only moves a free element of Updates.
LEMMA CallType ==
  ASSUME TypeOK, CallUpdate
  PROVE  update' \in [Updates -> [pc : {"off", "called", "cloned"},
                                  acl : SUBSET Clients]]
BY DEF TypeOK, CallUpdate, Called, Free, Off

\* What a change of the blocked clients has to show.
LEMMA Kept ==
  ASSUME IInv,
         Sound(mem'), Sound(disk'), Sound(page'),
         blocking' \in [Analyzers -> {{}} \cup {{c} : c \in Clients}],
         update' \in [Updates -> [pc : {"off", "called", "cloned"},
                                  acl : SUBSET Clients]],
         corefile' \subseteq Clients, served' \subseteq Clients,
         acked' \subseteq Clients, outdated' \in BOOLEAN,
         changes' \in 0 .. MaxChanges, stops' \in 0 .. MaxStops,
         ~outdated' => /\ acked' \subseteq Listed(mem') \ mem'.auto
                       /\ acked' \subseteq Listed(disk') \ disk'.auto
  PROVE  IInv'
<1>1. TypeOK'
  BY DEF TypeOK, Sound
<1>2. BlockedOnce' /\ InfoOfBlocked'
  BY DEF BlockedOnce, InfoOfBlocked, Sound
<1>3. ManualBlockStays'
  BY DEF ManualBlockStays
<1> QED
  BY <1>1, <1>2, <1>3 DEF IInv

LEMMA StepIInv == IInv /\ [Next]_vars => IInv'
<1> SUFFICES ASSUME IInv, [Next]_vars PROVE IInv'
  OBVIOUS
<1> DEFINE Upd == [Updates -> [pc : {"off", "called", "cloned"}, acl : SUBSET Clients]]
           Blk == [Analyzers -> {{}} \cup {{c} : c \in Clients}]
           Held(b) == acked \subseteq Listed(b) \ b.auto
<1>1. /\ Sound(mem) /\ Sound(disk) /\ Sound(page)
      /\ blocking \in Blk /\ update \in Upd
      /\ corefile \subseteq Clients /\ served \subseteq Clients
      /\ acked \subseteq Clients /\ outdated \in BOOLEAN
      /\ changes \in 0 .. MaxChanges /\ stops \in 0 .. MaxStops
      /\ ~outdated => Held(mem) /\ Held(disk)
  BY SoundCopies DEF IInv, TypeOK, ManualBlockStays
<1>2. ASSUME UNCHANGED config PROVE
        /\ Sound(mem') /\ Sound(disk') /\ Sound(page')
        /\ acked' \subseteq Clients /\ outdated' \in BOOLEAN
        /\ changes' \in 0 .. MaxChanges
        /\ ~outdated' => /\ acked' \subseteq Listed(mem') \ mem'.auto
                         /\ acked' \subseteq Listed(disk') \ disk'.auto
  BY <1>1, <1>2 DEF config
<1>3. ASSUME Change PROVE changes' \in 0 .. MaxChanges
  BY <1>1, <1>3, BlocksAssumption DEF Change
<1>4. ASSUME CallUpdate PROVE update' \in Upd
  BY <1>4, CallType DEF IInv
<1>5. \A b : Listed(b) \subseteq Clients
  BY DEF Listed
<1> HIDE DEF Held
\* A handler that saves or answers 500.
<1>6. ASSUME Change, Sound(mem'), NEW ok, NEW failing, SavedOrNot(ok, failing),
             UNCHANGED <<page, outdated, blocking, corefile, served, stops>>,
             ok \subseteq Clients, failing \subseteq ok \cap acked,
             ~outdated => ok \subseteq Listed(mem') \ mem'.auto
      PROVE  IInv'
  <2>1. CASE disk' = mem' /\ acked' = ok /\ CallUpdate
    BY <1>1, <1>3, <1>4, <1>6, <2>1, Kept
  <2>2. CASE acked' = failing /\ UNCHANGED <<disk, update>>
    BY <1>1, <1>3, <1>6, <2>2, Kept DEF Held
  <2> QED
    BY <1>6, <2>1, <2>2 DEF SavedOrNot
<1>7. CASE UNCHANGED vars
  BY <1>1, <1>2, <1>7, Kept DEF vars
<1>8. ASSUME NEW u \in Updates, UpdateClones(u) \/ UpdateWrites(u) PROVE IInv'
  <2>1. CASE UpdateClones(u)
    BY <1>1, <1>2, <1>5, <2>1, Kept DEF UpdateClones
  <2>2. CASE UpdateWrites(u)
    BY <1>1, <1>2, <2>2, Kept DEF UpdateWrites, Written, Off
  <2> QED
    BY <1>8, <2>1, <2>2
<1>9. CASE Regenerate
  BY <1>1, <1>2, <1>4, <1>9, Kept DEF Regenerate
<1>10. CASE Reload
  BY <1>1, <1>2, <1>10, Kept DEF Reload
<1>11. ASSUME NEW a \in Analyzers, NEW c \in Clients, Suspect(a, c) PROVE IInv'
  BY <1>1, <1>2, <1>11, Kept DEF Suspect
<1>12. ASSUME NEW a \in Analyzers, NEW c \in Clients, BlockClientAuto(a, c)
       PROVE  IInv'
  <2>1. blocking' \in Blk /\ UNCHANGED <<corefile, served, stops>>
    BY <1>1, <1>12 DEF BlockClientAuto
  <2>2. CASE UNCHANGED <<config, update>>
    BY <1>1, <1>2, <2>1, <2>2, Kept
  <2>3. CASE ~UNCHANGED <<config, update>>
    <3>1. /\ c \notin Listed(mem) /\ Change /\ CallUpdate
          /\ mem' = [count |-> [mem.count EXCEPT ![c] = @ + 1],
                     auto |-> mem.auto \cup {c}, manual |-> mem.manual \ {c}]
          /\ disk' = mem' \/ UNCHANGED disk
          /\ UNCHANGED <<page, acked, outdated>>
      BY <1>12, <2>3 DEF BlockClientAuto, AlreadyBlocked
    <3>2. /\ Sound(mem')
          /\ Listed(mem') = Listed(mem) \cup {c} /\ mem'.auto = mem.auto \cup {c}
      BY <1>1, <3>1, AutoSound
    <3>3. ~outdated => acked \subseteq Listed(mem') \ mem'.auto
      BY <1>1, <3>1, <3>2 DEF Held
    <3> QED
      BY <1>1, <1>3, <1>4, <2>1, <3>1, <3>2, <3>3, Kept DEF Held
  <2> QED
    BY <2>2, <2>3
<1>13. ASSUME NEW c \in Clients, BlockByHand(c) PROVE IInv'
  <2>1. /\ Sound(mem')
        /\ Listed(mem') = Listed(mem) \cup {c} /\ mem'.auto = mem.auto \ {c}
    BY <1>1, <1>13, BlockSound DEF BlockByHand
  <2>2. ~outdated => acked \cup {c} \subseteq Listed(mem') \ mem'.auto
    BY <1>1, <2>1 DEF Held
  <2> QED
    BY <1>1, <1>6, <1>13, <2>1, <2>2 DEF BlockByHand
<1>14. ASSUME NEW c \in Clients, UnblockClient(c) PROVE IInv'
  <2>1. /\ Sound(mem') /\ Listed(mem') = Listed(mem) \ {c}
        /\ mem'.auto \subseteq mem.auto
    BY <1>1, <1>14, UnblockSound DEF UnblockClient
  <2>2. ~outdated => acked \ {c} \subseteq Listed(mem') \ mem'.auto
    BY <1>1, <2>1 DEF Held
  <2> QED
    BY <1>1, <1>6, <1>14, <2>1, <2>2 DEF UnblockClient
<1>15. CASE UnblockAuto
  <2>1. /\ Sound(mem') /\ Listed(mem') = Listed(mem) \ mem.auto /\ mem'.auto = {}
    BY <1>1, <1>15, UnblockAutoSound DEF UnblockAuto
  <2>2. ~outdated => acked \subseteq Listed(mem') \ mem'.auto
    BY <1>1, <2>1 DEF Held
  <2> QED
    BY <1>1, <1>6, <1>15, <2>1, <2>2 DEF UnblockAuto
<1>16. CASE UnblockAll
  BY <1>6, <1>16, NoBlocksSound DEF UnblockAll
<1>17. ASSUME mem' = Retrofitted(mem), disk' \in {mem', disk}
       PROVE  /\ Sound(mem') /\ Sound(disk')
              /\ ~outdated => /\ acked \subseteq Listed(mem') \ mem'.auto
                              /\ acked \subseteq Listed(disk') \ disk'.auto
  BY <1>1, <1>17, RetrofitSound DEF Held
<1>18. CASE LoadPage
  <2>1. /\ mem' = Retrofitted(mem) /\ disk' \in {mem', disk} /\ page' = mem'
        /\ UNCHANGED <<acked, outdated, changes, blocking, update, corefile,
                       served, stops>>
    BY <1>18 DEF LoadPage
  <2> QED
    BY <1>1, <1>17, <2>1, Kept
<1>19. CASE PostPage
  <2>1. Change /\ UNCHANGED <<page, acked, blocking, corefile, served, stops>>
    BY <1>19 DEF PostPage
  <2>2. CASE UNCHANGED <<mem, disk, outdated, update>>
    BY <1>1, <1>3, <2>1, <2>2, Kept DEF Held
  <2>3. CASE ~UNCHANGED <<mem, disk, outdated, update>>
    <3>1. /\ mem' = Posted /\ disk' = mem' /\ CallUpdate
          /\ outdated' = (outdated \/ mem' # mem)
      BY <1>19, <2>3 DEF PostPage
    <3>2. outdated' \in BOOLEAN
      BY <3>1, Zenon
    <3>3. ~outdated' => ~outdated /\ mem' = mem
      BY <1>1, <3>1
    <3> QED
      BY <1>1, <1>3, <1>4, <2>1, <3>1, <3>2, <3>3, PostedSound, Kept DEF Held
  <2> QED
    BY <2>2, <2>3
<1>20. ASSUME Stop(disk) PROVE IInv'
  <2>1. /\ mem' = disk /\ disk' = disk /\ stops' \in 0 .. MaxStops
        /\ UNCHANGED <<page, acked, outdated, changes, corefile, served>>
        /\ blocking' = [a \in Analyzers |-> {}]
    BY <1>1, <1>20, BlocksAssumption DEF Stop
  <2>2. update' \in Upd
    BY <1>20 DEF Stop, Off
  <2> QED
    BY <1>1, <2>1, <2>2, Kept DEF Held
<1>21. CASE ShowBlocked
  <2>1. CASE /\ mem' = Retrofitted(mem) /\ disk' = mem'
             /\ UNCHANGED <<page, acked, outdated, changes,
                            blocking, update, corefile, served, stops>>
    BY <1>1, <1>17, <2>1, Kept
  <2> QED
    BY <1>20, <1>21, <2>1 DEF ShowBlocked
<1>22. CASE SaveOther
  <2>1. /\ disk' = mem
        /\ UNCHANGED <<mem, page, acked, outdated, changes,
                       blocking, update, corefile, served, stops>>
    BY <1>22 DEF SaveOther
  <2> QED
    BY <1>1, <2>1, Kept DEF Held
<1> QED
  BY <1>7, <1>8, <1>9, <1>10, <1>11, <1>12, <1>13, <1>14, <1>15, <1>16, <1>18,
     <1>19, <1>20, <1>21, <1>22 DEF Next, Restart, BlockClient, BlockClientIp

\* The copies of the blocked clients, the updates and the Corefile keep their types.
THEOREM TypeCorrect == Spec => []TypeOK
<1>1. IInv => TypeOK
  BY DEF IInv
<1> QED
  BY <1>1, InitIInv, StepIInv, PTL DEF Spec

\* However many goroutines run blockClientAuto and handlers change the list, a
\* client is in BlockedClients once (abuse.go:239-245).
THEOREM ListedOnce == Spec => []BlockedOnce
<1>1. IInv => BlockedOnce
  BY DEF IInv
<1> QED
  BY <1>1, InitIInv, StepIInv, PTL DEF Spec

\* BlockedClientsInfo speaks of blocked clients only.
THEOREM InfoMatches == Spec => []InfoOfBlocked
<1>1. IInv => InfoOfBlocked
  BY DEF IInv
<1> QED
  BY <1>1, InitIInv, StepIInv, PTL DEF Spec

\* An acknowledged manual block survives automatic blocks, their removal, failed
\* saves, crashes and restarts, until an outdated page is posted.
THEOREM ManualBlocksPersist == Spec => []ManualBlockStays
<1>1. IInv => ManualBlockStays
  BY DEF IInv
<1> QED
  BY <1>1, InitIInv, StepIInv, PTL DEF Spec
=============================================================================
