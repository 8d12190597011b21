------------------------- MODULE CredentialsProofs --------------------------
(***************************************************************************)
(* Proofs about Credentials for any factors, tokens and incidents.         *)
(***************************************************************************)
EXTENDS Credentials, TLAPS

\* Keys a configuration, wherever it is kept, may hold: those generated once.
KeysUsed ==
  /\ mem.keys \cup disk.keys \cup revoked \subseteq used
  /\ \A b \in backup : b.keys \subseteq used

\* A configuration that was not overwritten by an outdated page asks for a second
\* factor only if there is one, and has no masked one.
Usable(c) == c.methods \subseteq Methods /\ (c.mfa => c.methods # {})

AllUsable == overwritten \/ \A c \in {mem, disk} \cup backup : Usable(c)

CInv == TypeOK /\ KeysUsed /\ RevokedForGood /\ PromisedIsKept /\ AllUsable

\* The steps that change memory and perhaps the disk, and nothing else but the
\* ghosts: the new configuration c is saved or is not.
LEMMA ConfStored ==
  ASSUME CInv, NEW c \in Conf, Saved(c) \/ NotSaved(c)
  PROVE  /\ mem' = c /\ disk' \in {disk, c} /\ incidents' \in 0 .. MaxIncidents
         /\ Saved(c) => disk' = c
BY CredentialsAssumption DEF Saved, NotSaved, Incident, CInv, TypeOK

LEMMA ConfFields ==
  ASSUME NEW c \in Conf
  PROVE  /\ c.mfa \in BOOLEAN /\ c.keys \subseteq Keys
         /\ c.methods \subseteq Methods \cup {Masked(m) : m \in Totps}
<1>1. c.mfa \in BOOLEAN
  BY Zenon DEF Conf
<1> QED
  BY <1>1 DEF Conf

\* A new configuration without a key that was not in memory before.
LEMMA NoNewKey ==
  ASSUME CInv, NEW c \in Conf, c.keys \subseteq mem.keys, overwritten \/ promised' \subseteq c.keys,
         promised' \subseteq promised,
         Saved(c) \/ (NotSaved(c) /\ UNCHANGED revoked),
         revoked' \subseteq Keys, revoked' \subseteq revoked \cup (mem.keys \ c.keys),
         used \subseteq used', used' \subseteq Methods \cup Keys,
         overwritten \/ Usable(c),
         inUse' \subseteq Keys, UNCHANGED <<page, backup, overwritten>>
  PROVE  CInv'
<1>1. mem' = c /\ disk' \in {disk, c} /\ incidents' \in 0 .. MaxIncidents
      /\ (Saved(c) => disk' = c)
  BY ConfStored
<1>2. TypeOK'
  BY <1>1 DEF CInv, TypeOK
<1>3. KeysUsed'
  BY <1>1 DEF CInv, KeysUsed
<1>4. RevokedForGood'
  BY <1>1 DEF CInv, RevokedForGood
<1>5. PromisedIsKept'
  BY <1>1 DEF CInv, PromisedIsKept
<1>6. AllUsable'
  BY <1>1 DEF CInv, AllUsable, Usable
<1> QED
  BY <1>2, <1>3, <1>4, <1>5, <1>6 DEF CInv

LEMMA MemConf ==
  ASSUME CInv
  PROVE  /\ mem \in Conf /\ disk \in Conf
         /\ mem.mfa \in BOOLEAN /\ mem.keys \subseteq Keys
         /\ mem.methods \subseteq Methods \cup {Masked(m) : m \in Totps}
         /\ mem = [mfa |-> mem.mfa, methods |-> mem.methods, keys |-> mem.keys]
         /\ overwritten \/ Usable(mem)
<1>1. mem \in Conf /\ disk \in Conf
  BY DEF CInv, TypeOK
<1>2. mem = [mfa |-> mem.mfa, methods |-> mem.methods, keys |-> mem.keys]
  BY <1>1 DEF Conf
<1> QED
  BY <1>1, <1>2, ConfFields DEF CInv, AllUsable

LEMMA FactorsChanged ==
  ASSUME CInv, NEW left, NEW b
  PROVE  /\ [mem EXCEPT !.methods = left, !.mfa = b]
              = [mfa |-> b, methods |-> left, keys |-> mem.keys]
         /\ [mem EXCEPT !.mfa = b, !.methods = left]
              = [mfa |-> b, methods |-> left, keys |-> mem.keys]
<1>1. [mem EXCEPT !.methods = left] = [mfa |-> mem.mfa, methods |-> left, keys |-> mem.keys]
  BY MemConf DEF Conf
<1>2. [[mfa |-> mem.mfa, methods |-> left, keys |-> mem.keys] EXCEPT !.mfa = b]
        = [mfa |-> b, methods |-> left, keys |-> mem.keys]
  OBVIOUS
<1>3. [mem EXCEPT !.methods = left, !.mfa = b] = [[mem EXCEPT !.methods = left] EXCEPT !.mfa = b]
  BY MemConf DEF Conf
<1>4. [mem EXCEPT !.mfa = b, !.methods = left] = [[mem EXCEPT !.methods = left] EXCEPT !.mfa = b]
  BY MemConf DEF Conf
<1> QED
  BY <1>1, <1>2, <1>3, <1>4, Zenon

LEMMA InitCInv == Init => CInv
<1> SUFFICES ASSUME Init PROVE CInv
  OBVIOUS
<1>1. Default \in Conf /\ Default.keys = {} /\ Usable(Default)
  BY DEF Default, Conf, Usable
<1>2. TypeOK
  <2>1. overwritten \in BOOLEAN
    BY Zenon DEF Init
  <2> QED
    BY <1>1, <2>1, CredentialsAssumption DEF Init, TypeOK
<1>3. KeysUsed /\ RevokedForGood /\ PromisedIsKept
  BY <1>1 DEF Init, KeysUsed, RevokedForGood, PromisedIsKept
<1>4. AllUsable
  BY <1>1 DEF Init, AllUsable
<1> QED
  BY <1>2, <1>3, <1>4 DEF CInv

LEMMA SaveAgainStep == CInv /\ SaveAgain => CInv'
BY MemConf, NoNewKey DEF SaveAgain, CInv, TypeOK, PromisedIsKept

LEMMA EnrollStep ==
  ASSUME CInv, NEW m \in Methods, Enroll(m)
  PROVE  CInv'
<1> DEFINE c == [mem EXCEPT !.methods = @ \cup {m}, !.mfa = TRUE]
<1>1. c = [mfa |-> TRUE, methods |-> mem.methods \cup {m}, keys |-> mem.keys]
  BY FactorsChanged, Zenon
<1>2. c \in Conf
  BY <1>1, MemConf DEF Conf
<1>3. c.keys = mem.keys /\ (overwritten \/ Usable(c))
  BY <1>1, MemConf DEF Usable
<1>4. Saved(c) \/ NotSaved(c)
  BY DEF Enroll
<1> HIDE DEF c
<1> QED
  BY <1>2, <1>3, <1>4, NoNewKey DEF Enroll, CInv, TypeOK, PromisedIsKept

LEMMA DeleteMethodStep ==
  ASSUME CInv, NEW m, DeleteMethod(m)
  PROVE  CInv'
<1> DEFINE left == mem.methods \ {m}
           b == MFAWithout(left)
           c == [mem EXCEPT !.methods = left, !.mfa = b]
<1>1. c = [mfa |-> b, methods |-> left, keys |-> mem.keys]
  <2> HIDE DEF left, b
  <2> QED
    BY FactorsChanged, Zenon
<1>2. b \in BOOLEAN
  BY Zenon DEF MFAWithout
<1>3. c \in Conf
  BY <1>1, <1>2, MemConf DEF Conf
<1>4. c.keys = mem.keys /\ (overwritten \/ Usable(c))
  BY <1>1, MemConf DEF Usable, MFAWithout
<1>5. Saved(c) \/ NotSaved(c)
  BY DEF DeleteMethod
<1> HIDE DEF c
<1> QED
  BY <1>3, <1>4, <1>5, NoNewKey DEF DeleteMethod, CInv, TypeOK, PromisedIsKept

LEMMA DisableStep ==
  ASSUME CInv, DisableMFA
  PROVE  CInv'
<1> DEFINE c == [mem EXCEPT !.mfa = FALSE, !.methods = {}]
<1>1. c = [mfa |-> FALSE, methods |-> {}, keys |-> mem.keys]
  <2> DEFINE b == FALSE
             left == {}
  <2>1. [mem EXCEPT !.mfa = b, !.methods = left] = [mfa |-> b, methods |-> left, keys |-> mem.keys]
    <3> HIDE DEF b, left
    <3> QED
      BY FactorsChanged, Zenon
  <2> QED
    BY <2>1
<1>2. c \in Conf /\ c.keys = mem.keys /\ Usable(c)
  BY <1>1, MemConf DEF Conf, Usable
<1>3. Saved(c) \/ NotSaved(c)
  BY DEF DisableMFA
<1> HIDE DEF c
<1> QED
  BY <1>2, <1>3, NoNewKey DEF DisableMFA, CInv, TypeOK, PromisedIsKept

LEMMA CreateKeyStep ==
  ASSUME CInv, NEW k \in Keys, CreateKey(k)
  PROVE  CInv'
<1> DEFINE c == WithKey(k)
<1>1. c = [mfa |-> mem.mfa, methods |-> mem.methods, keys |-> mem.keys \cup {k}]
  BY MemConf DEF WithKey, Conf
<1>2. c \in Conf /\ c.keys = mem.keys \cup {k} /\ (overwritten \/ Usable(c))
  BY <1>1, MemConf DEF Conf, Usable
<1> HIDE DEF c
<1>3. k \notin used /\ used' = used \cup {k}
      /\ UNCHANGED <<page, backup, inUse, revoked, overwritten>>
  BY DEF CreateKey
<1>4. CASE Saved(c) /\ promised' = promised \cup {k}
  <2>1. mem' = c /\ disk' = c /\ incidents' \in 0 .. MaxIncidents
    BY <1>2, <1>4, ConfStored
  <2>2. TypeOK'
    BY <1>2, <1>3, <1>4, <2>1 DEF CInv, TypeOK
  <2>3. KeysUsed' /\ RevokedForGood'
    BY <1>2, <1>3, <2>1 DEF CInv, KeysUsed, RevokedForGood
  <2>4. PromisedIsKept'
    BY <1>2, <1>3, <1>4, <2>1 DEF CInv, PromisedIsKept
  <2>5. AllUsable'
    BY <1>2, <1>3, <2>1 DEF CInv, AllUsable, Usable
  <2> QED
    BY <2>2, <2>3, <2>4, <2>5 DEF CInv
<1>5. CASE NotSaved(c) /\ UNCHANGED promised
  <2>1. mem' = c /\ disk' = disk /\ incidents' \in 0 .. MaxIncidents
    BY <1>2, <1>5, ConfStored DEF NotSaved
  <2>2. TypeOK'
    BY <1>2, <1>3, <1>5, <2>1 DEF CInv, TypeOK
  <2>3. KeysUsed' /\ RevokedForGood'
    BY <1>2, <1>3, <2>1 DEF CInv, KeysUsed, RevokedForGood
  <2>4. PromisedIsKept'
    BY <1>2, <1>3, <1>5, <2>1 DEF CInv, PromisedIsKept
  <2>5. AllUsable'
    BY <1>2, <1>3, <2>1 DEF CInv, AllUsable, Usable
  <2> QED
    BY <2>2, <2>3, <2>4, <2>5 DEF CInv
<1>6. CASE NotSaved(mem) /\ UNCHANGED promised
  BY <1>3, <1>6, MemConf, NoNewKey DEF CInv, TypeOK, PromisedIsKept
<1> QED
  BY <1>4, <1>5, <1>6 DEF CreateKey, AnswersError, c

LEMMA DeleteKeyStep ==
  ASSUME CInv, NEW k \in Keys, DeleteKey(k)
  PROVE  CInv'
<1> DEFINE c == [mem EXCEPT !.keys = @ \ {k}]
<1>1. c = [mfa |-> mem.mfa, methods |-> mem.methods, keys |-> mem.keys \ {k}]
  BY MemConf DEF Conf
<1>2. c \in Conf /\ c.keys = mem.keys \ {k} /\ (overwritten \/ Usable(c))
  BY <1>1, MemConf DEF Conf, Usable
<1>3. \/ Saved(c) /\ revoked' = revoked \cup {k}
      \/ NotSaved(c) /\ UNCHANGED revoked
  BY DEF DeleteKey
<1> HIDE DEF c
<1>4. k \in mem.keys /\ promised' = promised \ {k}
      /\ UNCHANGED <<page, backup, inUse, used, overwritten>>
  BY DEF DeleteKey
<1>5. overwritten \/ promised' \subseteq c.keys
  BY <1>2, <1>4 DEF CInv, PromisedIsKept
<1> QED
  BY <1>2, <1>3, <1>4, <1>5, NoNewKey DEF CInv, TypeOK

LEMMA TouchKeyStep ==
  ASSUME CInv, NEW k \in Keys, TouchKey(k)
  PROVE  CInv'
<1>1. CASE Saved(mem) \/ NotSaved(mem)
  BY <1>1, MemConf, NoNewKey DEF TouchKey, CInv, TypeOK, PromisedIsKept
<1>2. CASE UNCHANGED <<mem, disk, incidents>>
  BY <1>2 DEF TouchKey, CInv, TypeOK, KeysUsed, RevokedForGood, PromisedIsKept, AllUsable
<1> QED
  BY <1>1, <1>2 DEF TouchKey, Touched

-----------------------------------------------------------------------------
(* A settings page                                                         *)

LEMMA SanitizedType ==
  ASSUME NEW c \in Conf
  PROVE  /\ SanitizedCopy(c) \in Conf
         /\ SanitizedCopy(c).mfa = c.mfa /\ SanitizedCopy(c).keys = c.keys
         /\ SanitizedCopy(c).methods = {IF m \in Totps THEN Masked(m) ELSE m : m \in c.methods}
<1> DEFINE ms == {IF m \in Totps THEN Masked(m) ELSE m : m \in c.methods}
<1>1. SanitizedCopy(c) = [mfa |-> c.mfa, methods |-> ms, keys |-> c.keys]
  BY DEF SanitizedCopy, Conf
<1>2. ms \subseteq Methods \cup {Masked(m) : m \in Totps}
  BY ConfFields
<1> QED
  BY <1>1, <1>2, ConfFields DEF Conf

\* A page posted back unchanged restores the factors it was loaded from.
LEMMA RestoredSame ==
  ASSUME CInv, mem.methods \subseteq Methods
  PROVE  Restored(SanitizedCopy(mem).methods) = mem.methods
<1> DEFINE ms == SanitizedCopy(mem).methods
           totps == ms \ Passkeys
           found == {m \in Totps \cap mem.methods : Masked(m) \in totps}
           known == Totps \cap mem.methods
<1>1. ms = {IF m \in Totps THEN Masked(m) ELSE m : m \in mem.methods}
  BY MemConf, SanitizedType
<1>2. /\ Totps \cap Passkeys = {}
      /\ \A m \in Totps : Masked(m) \notin Totps \cup Passkeys
  BY CredentialsAssumption DEF Masked
<1>3. \A m, n \in Totps : Masked(m) = Masked(n) => m = n
  BY DEF Masked
<1> HIDE DEF ms
<1>4. totps = {Masked(m) : m \in known}
  BY <1>1, <1>2 DEF Methods
<1>5. ms \cap Passkeys = mem.methods \cap Passkeys
  BY <1>1, <1>2 DEF Methods
<1>6. found = known
  BY <1>4
<1>7. totps \ {Masked(m) : m \in found} = {}
  BY <1>4, <1>6
<1>8. totps = {} => known = {}
  BY <1>4
<1> HIDE DEF totps, found
<1>9. (IF totps = {} THEN mem.methods \ Passkeys
       ELSE (totps \ {Masked(m) : m \in found}) \cup found) = known
  BY <1>2, <1>6, <1>7, <1>8 DEF Methods
<1>10. (Passkeys \cap IF ms \cap Passkeys = {} THEN mem.methods ELSE ms)
         = Passkeys \cap mem.methods
  BY <1>5
<1>11. Restored(ms) = known \cup (Passkeys \cap mem.methods)
  BY <1>9, <1>10 DEF Restored, totps, found
<1> QED
  BY <1>11 DEF ms, Methods

LEMMA RestoredType ==
  ASSUME CInv, NEW ms, ms \subseteq Methods \cup {Masked(m) : m \in Totps}
  PROVE  Restored(ms) \subseteq Methods \cup {Masked(m) : m \in Totps}
BY MemConf DEF Restored, Methods

LEMMA SaveSettingsStep ==
  ASSUME CInv, SaveSettings
  PROVE  CInv'
<1>1. PICK p \in page, keys \in SUBSET Keys :
        /\ keys = p.keys \/ (p.keys = {} /\ keys = mem.keys)
        /\ LET c == [mfa |-> p.mfa \/ mem.mfa, methods |-> Restored(p.methods), keys |-> keys]
           IN \/ /\ NoHash(keys) = {} /\ Saved(c)
                 /\ overwritten' = (overwritten \/ p # SanitizedCopy(mem))
              \/ NotSaved(mem) /\ UNCHANGED overwritten
  BY DEF SaveSettings
<1>2. UNCHANGED <<page, backup, inUse, used, promised, revoked>>
  BY DEF SaveSettings
<1> DEFINE c == [mfa |-> p.mfa \/ mem.mfa, methods |-> Restored(p.methods), keys |-> keys]
<1>3. CASE NotSaved(mem) /\ UNCHANGED overwritten
  BY <1>2, <1>3, MemConf, NoNewKey DEF CInv, TypeOK, PromisedIsKept
<1>4. CASE /\ NoHash(keys) = {} /\ Saved(c)
           /\ overwritten' = (overwritten \/ p # SanitizedCopy(mem))
  <2>1. p \in Conf
    BY DEF CInv, TypeOK
  <2>2. (p.mfa \/ mem.mfa) \in BOOLEAN /\ overwritten' \in BOOLEAN
    BY <1>4, Zenon
  <2>3. c \in Conf /\ c.keys = keys
    BY <2>1, <2>2, ConfFields, RestoredType DEF Conf
  <2>4. keys \subseteq mem.keys
    BY <1>4 DEF NoHash
  <2>5. ASSUME ~overwritten' PROVE c = mem
    <3>1. ~overwritten /\ p = SanitizedCopy(mem) /\ mem.methods \subseteq Methods
      BY <1>4, <2>5, MemConf DEF Usable
    <3>2. p.mfa = mem.mfa /\ p.keys = mem.keys
      BY <3>1, MemConf, SanitizedType
    <3>3. (p.mfa \/ mem.mfa) = mem.mfa
      BY <3>2, MemConf
    <3>4. Restored(p.methods) = mem.methods
      BY <3>1, RestoredSame
    <3>5. keys = mem.keys
      BY <1>1, <3>2
    <3> QED
      BY <3>3, <3>4, <3>5, MemConf
  <2>6. overwritten => overwritten'
    BY <1>4
  <2> HIDE DEF c
  <2>7. mem' = c /\ disk' = c /\ incidents' \in 0 .. MaxIncidents
    BY <1>4, <2>3, ConfStored
  <2>8. TypeOK'
    BY <1>2, <2>2, <2>3, <2>7 DEF CInv, TypeOK
  <2>9. KeysUsed' /\ RevokedForGood'
    BY <1>2, <2>3, <2>4, <2>7 DEF CInv, KeysUsed, RevokedForGood
  <2>10. PromisedIsKept'
    BY <1>2, <2>5, <2>6, <2>7 DEF CInv, PromisedIsKept
  <2>11. AllUsable'
    BY <1>2, <2>5, <2>6, <2>7, MemConf DEF CInv, AllUsable
  <2> QED
    BY <2>8, <2>9, <2>10, <2>11 DEF CInv
<1> QED
  BY <1>1, <1>3, <1>4

-----------------------------------------------------------------------------

\* Nothing is saved.
LEMMA ReadStep ==
  ASSUME CInv, (\E k \in Keys : FindKey(k)) \/ LoadPage \/ Backup
  PROVE  CInv'
<1>1. UNCHANGED <<mem, disk, used, incidents, promised, revoked, overwritten>>
  BY DEF FindKey, LoadPage, Backup
<1>2. page' \subseteq Conf /\ backup' \subseteq Conf /\ inUse' \subseteq Keys
  BY MemConf, SanitizedType DEF FindKey, LoadPage, Backup, CInv, TypeOK
<1>3. \A b \in backup' : b \in backup \/ b = disk
  BY DEF FindKey, LoadPage, Backup
<1>4. TypeOK'
  BY <1>1, <1>2 DEF CInv, TypeOK
<1>5. KeysUsed' /\ RevokedForGood' /\ PromisedIsKept'
  BY <1>1, <1>3 DEF CInv, KeysUsed, RevokedForGood, PromisedIsKept
<1>6. AllUsable'
  BY <1>1, <1>3 DEF CInv, AllUsable, Usable
<1> QED
  BY <1>4, <1>5, <1>6 DEF CInv

LEMMA IncidentStep ==
  ASSUME CInv, Restore \/ Reset \/ Restart
  PROVE  CInv'
<1>1. incidents' \in 0 .. MaxIncidents
  BY CredentialsAssumption DEF Restore, Reset, Restart, Incident, CInv, TypeOK
<1>2. Default \in Conf /\ Default.keys = {} /\ Usable(Default)
  BY DEF Default, Conf, Usable
<1>3. /\ mem' \in {mem, disk} \cup backup /\ disk' \in {disk, Default} \cup backup
      /\ UNCHANGED <<page, backup, used, overwritten>> /\ inUse' \subseteq Keys
  BY DEF Restore, Reset, Restart, CInv, TypeOK
<1>4. (revoked' = {} /\ promised' = {}) \/ (mem' = disk /\ UNCHANGED <<disk, revoked, promised>>)
  BY DEF Restore, Reset, Restart
<1>5. TypeOK'
  BY <1>1, <1>2, <1>3, <1>4 DEF CInv, TypeOK
<1>6. KeysUsed' /\ RevokedForGood' /\ PromisedIsKept'
  BY <1>2, <1>3, <1>4 DEF CInv, KeysUsed, RevokedForGood, PromisedIsKept
<1>7. AllUsable'
  BY <1>2, <1>3 DEF CInv, AllUsable
<1> QED
  BY <1>5, <1>6, <1>7 DEF CInv

LEMMA NextCInv == CInv /\ [Next]_vars => CInv'
<1> SUFFICES ASSUME CInv, [Next]_vars PROVE CInv'
  OBVIOUS
<1>1. CASE Next
  BY <1>1, SaveAgainStep, EnrollStep, DeleteMethodStep, DisableStep, CreateKeyStep,
    DeleteKeyStep, TouchKeyStep, SaveSettingsStep, ReadStep, IncidentStep DEF Next
<1>2. CASE UNCHANGED vars
  BY <1>2 DEF vars, CInv, TypeOK, KeysUsed, RevokedForGood, PromisedIsKept, AllUsable
<1> QED
  BY <1>1, <1>2

\* The variables stay in their types: no handler invents a factor or a key.
THEOREM TypeCorrect == Spec => []TypeOK
<1>1. CInv => TypeOK
  BY DEF CInv
<1> QED
  BY <1>1, InitCInv, NextCInv, PTL DEF Spec

\* A token whose deletion was saved and answered is gone for good, whatever request,
\* page or restart comes later (handleDeleteToken against authMiddleware and
\* handleConfig).
THEOREM Revoked == Spec => []RevokedForGood
<1>1. CInv => RevokedForGood
  BY DEF CInv
<1> QED
  BY <1>1, InitCInv, NextCInv, PTL DEF Spec

\* A token that was handed out is valid until it is deleted (handleCreateToken).
THEOREM Promised == Spec => []PromisedIsKept
<1>1. CInv => PromisedIsKept
  BY DEF CInv
<1> QED
  BY <1>1, InitCInv, NextCInv, PTL DEF Spec

\* A node that asks for a second factor has one, in memory and on disk
\* (handleMFADelete, saveConfigNoLock, handleConfig with a page that is current).
THEOREM FactorIsUsable == Spec => []FactorUsable
<1>1. CInv => FactorUsable
  BY DEF CInv, AllUsable, Usable, FactorUsable
<1> QED
  BY <1>1, InitCInv, NextCInv, PTL DEF Spec
=============================================================================
