----------------------------- MODULE Credentials -----------------------------
(***************************************************************************)
(* Second factors and API tokens in the configuration: what is registered, *)
(* deleted and saved (admin/api_mfa.go, api_webauthn.go, api_tokens.go,    *)
(* api_mcp_tools_admin.go, api_cluster_worker.go, auth_middleware.go) and  *)
(* the handlers that write the configuration as a whole: handleConfig,     *)
(* handleRestore, handleReset (api_system.go, api_system_backup.go).       *)
(*                                                                         *)
(* Every handler changes the configuration and saves it under configLock,  *)
(* so each is one step.  What they act on is older: a settings page, a     *)
(* backup, a key found before.                                             *)
(*                                                                         *)
(* The node is set up (saveConfigNoLock checks what it saves) and is no    *)
(* replica, whose factors and keys are the primary's.  After a reset it is *)
(* set up again before any of these handlers answers.                      *)
(***************************************************************************)
EXTENDS Naturals, FiniteSets

CONSTANTS
  Totps, Passkeys, \* second factors that may be registered, each once
  Keys,            \* API tokens that may be created, each once
  MaxIncidents     \* bound: failed saves, restores, resets, restarts

ASSUME CredentialsAssumption ==
  /\ MaxIncidents \in Nat
  /\ Totps \cap Passkeys = {}
  /\ \A m \in Totps : <<"masked", m>> \notin Totps \cup Passkeys

VARIABLES
  mem, disk,  \* what config and config.json say of all this
  page,       \* the copies of it that settings pages were loaded with
  backup,     \* those in the backups taken
  inUse,      \* keys authMiddleware has found and will write LastUsed of
  used,       \* factors and keys generated so far: each is new
  incidents,  \* bounded
  promised, revoked, \* ghosts: keys whose creation, deletion was saved and answered
  overwritten \* ghost: a page older than the configuration was saved over it
vars == <<mem, disk, page, backup, inUse, used, incidents, promised, revoked, overwritten>>

Methods == Totps \cup Passkeys
\* A TOTP registration whose secret is replaced by asterisks.
Masked(m) == <<"masked", m>>

Conf == [mfa : BOOLEAN, methods : SUBSET (Methods \cup {Masked(m) : m \in Totps}),
         keys : SUBSET Keys]
Default == [mfa |-> FALSE, methods |-> {}, keys |-> {}]

TypeOK ==
  /\ mem \in Conf /\ disk \in Conf
  /\ page \subseteq Conf /\ backup \subseteq Conf
  /\ inUse \subseteq Keys /\ used \subseteq Methods \cup Keys
  /\ incidents \in 0 .. MaxIncidents
  /\ promised \subseteq Keys /\ revoked \subseteq Keys /\ overwritten \in BOOLEAN

Init ==
  /\ mem = Default /\ disk = Default
  /\ page = {} /\ backup = {} /\ inUse = {} /\ used = {}
  /\ incidents = 0 /\ promised = {} /\ revoked = {} /\ overwritten = FALSE

Incident == incidents < MaxIncidents /\ incidents' = incidents + 1

-----------------------------------------------------------------------------
(* Saving                                                                  *)

\* saveConfigNoLock refuses what would lock everybody out.
Savable(c) == c.mfa => c.methods # {}

Saved(c) == Savable(c) /\ mem' = c /\ disk' = c /\ UNCHANGED incidents
\* It is refused, or the write fails; memory keeps what the handler put there.
NotSaved(c) ==
  /\ mem' = c /\ UNCHANGED disk
  /\ Savable(c) => Incident
  /\ ~Savable(c) => UNCHANGED incidents

\* The handlers that save what they did not change here (a login, a key's name).
SaveAgain ==
  /\ Saved(mem) \/ NotSaved(mem)
  /\ UNCHANGED <<page, backup, inUse, used, promised, revoked, overwritten>>

-----------------------------------------------------------------------------
(* Second factors                                                          *)

\* handleTOTPVerify and handleWebAuthnRegisterFinish.
Enroll(m) ==
  /\ m \notin used /\ used' = used \cup {m}
  /\ LET c == [mem EXCEPT !.methods = @ \cup {m}, !.mfa = TRUE]
     IN Saved(c) \/ NotSaved(c)
  /\ UNCHANGED <<page, backup, inUse, promised, revoked, overwritten>>

KeepsMFA(methods) == mem.mfa                                    \* mutant
MFAWithout(methods) == mem.mfa /\ methods # {}

\* handleMFADelete.
DeleteMethod(m) ==
  /\ m \in mem.methods
  /\ LET left == mem.methods \ {m}
         c == [mem EXCEPT !.methods = left, !.mfa = MFAWithout(left)]
     IN Saved(c) \/ NotSaved(c)
  /\ UNCHANGED <<page, backup, inUse, used, promised, revoked, overwritten>>

DisableMFA ==
  /\ mem.mfa
  /\ LET c == [mem EXCEPT !.mfa = FALSE, !.methods = {}]
     IN Saved(c) \/ NotSaved(c)
  /\ UNCHANGED <<page, backup, inUse, used, promised, revoked, overwritten>>

-----------------------------------------------------------------------------
(* API tokens                                                              *)

WithKey(k) == [mem EXCEPT !.keys = @ \cup {k}]

\* A failed save: handleCreateToken takes the key back, the MCP tool leaves it, and
\* so does handleGetClusterWorkerTemplate, which hands it out all the same.
AnswersAnyway(k) == promised' = promised \cup {k}                 \* mutant
AnswersError(k) == UNCHANGED promised

CreateKey(k) ==
  /\ k \notin used /\ used' = used \cup {k}
  /\ \/ Saved(WithKey(k)) /\ promised' = promised \cup {k}
     \/ (NotSaved(WithKey(k)) \/ NotSaved(mem)) /\ AnswersError(k)
  /\ UNCHANGED <<page, backup, inUse, revoked, overwritten>>

\* handleDeleteToken and delete_api_token.
DeleteKey(k) ==
  /\ k \in mem.keys
  /\ promised' = promised \ {k}
  /\ LET c == [mem EXCEPT !.keys = @ \ {k}]
     IN \/ Saved(c) /\ revoked' = revoked \cup {k}
        \/ NotSaved(c) /\ UNCHANGED revoked
  /\ UNCHANGED <<page, backup, inUse, used, overwritten>>

\* authMiddleware finds the key under the read lock ...
FindKey(k) ==
  /\ k \in mem.keys
  /\ inUse' = inUse \cup {k}
  /\ UNCHANGED <<mem, disk, page, backup, used, incidents, promised, revoked, overwritten>>

PutBack(k) == WithKey(k)                                          \* mutant
Touched(k) == mem

\* ... and writes LastUsed under the write lock, if the key is still there.
TouchKey(k) ==
  /\ k \in inUse /\ inUse' = inUse \ {k}
  /\ \/ Saved(Touched(k)) \/ NotSaved(Touched(k))
     \/ k \notin mem.keys /\ UNCHANGED <<mem, disk, incidents>>
  /\ UNCHANGED <<page, backup, used, promised, revoked, overwritten>>

-----------------------------------------------------------------------------
(* The whole configuration at once                                         *)

SanitizedCopy(c) ==
  [c EXCEPT !.methods = {IF m \in Totps THEN Masked(m) ELSE m : m \in @}]

LoadPage ==
  /\ page' = {SanitizedCopy(mem)}
  /\ UNCHANGED <<mem, disk, backup, inUse, used, incidents, promised, revoked, overwritten>>

\* A masked TOTP secret is looked up by its id and stays masked when there is none;
\* an empty list keeps what there is.
Restored(ms) ==
  LET totps == ms \ Passkeys
      found == {m \in Totps \cap mem.methods : Masked(m) \in totps}
  IN (IF totps = {} THEN mem.methods \ Passkeys ELSE (totps \ {Masked(m) : m \in found}) \cup found)
     \cup (Passkeys \cap IF ms \cap Passkeys = {} THEN mem.methods ELSE ms)

\* A key that cannot be looked up has no hash: saveConfigNoLock refuses it.
HashesFrom(ks) == {}  \* mutant
NoHash(ks) == ks \ mem.keys

\* The page posts all it was loaded with; no key at all may mean those there are.
SaveSettings ==
  /\ \E p \in page, keys \in SUBSET Keys :
       /\ keys = p.keys \/ (p.keys = {} /\ keys = mem.keys)
       /\ LET c == [mfa |-> p.mfa \/ mem.mfa, methods |-> Restored(p.methods), keys |-> keys]
          IN \/ /\ NoHash(keys) = {} /\ Saved(c)
                /\ overwritten' = (overwritten \/ p # SanitizedCopy(mem))
             \/ NotSaved(mem) /\ UNCHANGED overwritten
  /\ UNCHANGED <<page, backup, inUse, used, promised, revoked>>

\* GenerateBackupZIP takes config.json.
Backup ==
  /\ backup' = {disk}
  /\ UNCHANGED <<mem, disk, page, inUse, used, incidents, promised, revoked, overwritten>>

\* applyBackupConfig, category auth.
Restore ==
  /\ Incident
  /\ \E b \in backup :
       /\ mem' = b
       /\ disk' = disk \/ (Savable(b) /\ disk' = b)
  /\ promised' = {} /\ revoked' = {}
  /\ UNCHANGED <<page, backup, inUse, used, overwritten>>

\* handleReset removes the files; memory lives on for a second, and a save in it
\* brings the configuration back.
Reset ==
  /\ Incident
  /\ disk' = Default
  /\ promised' = {} /\ revoked' = {}
  /\ UNCHANGED <<mem, page, backup, inUse, used, overwritten>>

Restart ==
  /\ Incident
  /\ mem' = disk /\ inUse' = {}
  /\ UNCHANGED <<disk, page, backup, used, promised, revoked, overwritten>>

-----------------------------------------------------------------------------

Next ==
  \/ \E m \in Methods : Enroll(m)
  \/ \E m \in Methods \cup {Masked(n) : n \in Totps} : DeleteMethod(m)
  \/ \E k \in Keys : CreateKey(k) \/ DeleteKey(k) \/ FindKey(k) \/ TouchKey(k)
  \/ SaveAgain \/ DisableMFA \/ LoadPage \/ SaveSettings \/ Backup
  \/ Restore \/ Reset \/ Restart

Spec == Init /\ [][Next]_vars

-----------------------------------------------------------------------------
(* Properties                                                              *)

\* While a second factor is asked for there is one that can be given, in memory
\* and after a restart, unless an outdated settings page was saved over the
\* configuration (the handlers of api_mfa.go and api_webauthn.go, handleRestore).
FactorUsable ==
  overwritten \/ \A c \in {mem, disk} : c.mfa => c.methods \cap Methods # {}

\* A deletion that was saved and answered is for good, in memory and on disk: no
\* request that found the key before, no settings page and no restart brings it
\* back, only a restore does.
RevokedForGood == revoked \cap (mem.keys \cup disk.keys) = {}

\* A key whose creation was saved and answered is there, now and after a restart,
\* until it is deleted or the configuration replaced as a whole.
PromisedIsKept == overwritten \/ promised \subseteq mem.keys \cap disk.keys
===============================================================================
