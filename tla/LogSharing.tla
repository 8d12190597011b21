------------------------------ MODULE LogSharing ------------------------------
(***************************************************************************)
(* A replica pushes its query log to the primary (SyncClusterLogs and      *)
(* handleClusterIngestLogs, admin/api_cluster_sync.go), from the database  *)
(* of LogStore.  Every successful pull starts a push as a goroutine of its *)
(* own, so pushes overlap; the position of the last row sent is in memory; *)
(* requests and answers get lost; the primary answers 200 whether or not   *)
(* its database took the rows.                                             *)
(***************************************************************************)
EXTENDS LogStore

CONSTANTS
  Pushers,     \* goroutines running SyncClusterLogs
  Limit        \* rows per push

ASSUME LogSharingAssumption == Limit \in Nat \ {0}

VARIABLES
  position,  \* lastSyncQueryID
  sharing,   \* a replica with a log sharing mode other than local_only
  push,      \* what each pusher is doing
  trusted,   \* the primary knows the replica's token
  reached,   \* queries the primary took and answered 200 for
  acked,     \* ghost: rows of pushes answered 200 since the process started
  disturbed  \* ghost: since the process started, a restore replaced the file, or
             \* the node gave up a name or took one that rows already have
sharingVars == <<position, sharing, push, trusted, reached, acked, disturbed>>
logSharingVars == <<storeVars, sharingVars>>

PushIdle == [pc |-> "idle", as |-> NoName, min |-> 0, rows |-> {}, max |-> 0]

SharingTypeOK ==
  /\ StoreTypeOK
  /\ position \in Nat
  /\ {sharing, trusted, disturbed} \subseteq BOOLEAN
  /\ push \in [Pushers -> [pc : {"idle", "select", "sent", "ok"},
                           as : Names \cup {NoName}, min : Nat, rows : SUBSET Row, max : Nat]]
  /\ reached \subseteq 1 .. Queries
  /\ acked \subseteq Row

SharingInit ==
  /\ StoreInit
  /\ position = 0
  /\ sharing = TRUE /\ trusted = TRUE /\ disturbed = FALSE
  /\ push = [p \in Pushers |-> PushIdle]
  /\ reached = {} /\ acked = {}

-----------------------------------------------------------------------------
(* The replica's side                                                      *)

\* The settings, then lastSyncQueryID are read first, each under its lock.
PushStart(p) ==
  /\ push[p].pc = "idle" /\ sharing
  /\ push' = [push EXCEPT ![p] = [PushIdle EXCEPT !.pc = "select", !.as = name, !.min = position]]
  /\ UNCHANGED <<storeVars, position, sharing, trusted, reached, acked, disturbed>>

\* What other nodes pushed here is not pushed on.
OwnRow(r, n) == r.node \in {NoName, n}

\* What LIMIT leaves of the rows found when they are ordered by id.
AnyBatch(batch, found) ==                                         \* mutant
  batch \subseteq found /\ Cardinality(batch) <= Limit
OnlyIfMoreFollow(batch, found) ==                                 \* mutant
  /\ batch \subseteq found /\ Cardinality(batch) = Limit
  /\ \A r \in batch, s \in found \ batch : r.id < s.id
  /\ batch # found
LowestFirst(batch, found) ==
  /\ batch \subseteq found
  /\ \A r \in batch, s \in found \ batch : r.id < s.id
  /\ \/ Cardinality(batch) = Limit
     \/ batch = found /\ Cardinality(batch) < Limit

\* Nothing new, or db closed: the goroutine returns.
PushSelect(p) ==
  LET found == {r \in disk[handle].rows : r.id > push[p].min /\ OwnRow(r, push[p].as)}
  IN /\ push[p].pc = "select"
     /\ \/ /\ Connects /\ found # {}
           /\ \E batch \in SUBSET found, last \in found :
                /\ LowestFirst(batch, found)
                /\ last \in batch /\ \A r \in batch : r.id <= last.id
                /\ push' = [push EXCEPT ![p].pc = "sent", ![p].rows = batch, ![p].max = last.id]
        \/ /\ ~IsOpen \/ (Connects /\ found = {})
           /\ push' = [push EXCEPT ![p] = PushIdle]
     /\ UNCHANGED <<storeVars, position, sharing, trusted, reached, acked, disturbed>>

\* Where the rows of a request end up at the primary: flushLogs stores them or
\* fails, the answer is 200 either way.
Sent(p) == {r.query : r \in push[p].rows}

\* The connection fails or ten seconds pass: the primary may have got the request
\* or may still get it, and the goroutine returns without an answer.
Lose(p) ==
  /\ push[p].pc \in {"sent", "ok"}
  /\ push' = [push EXCEPT ![p] = PushIdle]
  /\ \/ push[p].pc = "sent" /\ trusted /\ reached' = reached \cup Sent(p)
     \/ UNCHANGED reached
  /\ UNCHANGED <<storeVars, position, sharing, trusted, acked, disturbed>>

Latest(p)   == push[p].max                                        \* mutant
Furthest(p) == IF push[p].max > position THEN push[p].max ELSE position

Answer(p) ==
  /\ push[p].pc = "ok"
  /\ position' = Furthest(p)
  /\ acked' = acked \cup push[p].rows
  /\ push' = [push EXCEPT ![p] = PushIdle]
  /\ UNCHANGED <<storeVars, sharing, trusted, reached, disturbed>>

-----------------------------------------------------------------------------
(* The primary's side                                                      *)

\* A token the primary does not know is answered 403, and the push was in vain.
Ingest(p) ==
  /\ push[p].pc = "sent"
  /\ \/ /\ trusted
        /\ reached' = reached \cup Sent(p)
        /\ push' = [push EXCEPT ![p].pc = "ok"]
     \/ /\ ~trusted
        /\ push' = [push EXCEPT ![p] = PushIdle]
        /\ UNCHANGED reached
  /\ UNCHANGED <<storeVars, position, sharing, trusted, acked, disturbed>>

-----------------------------------------------------------------------------
(* Composition                                                             *)

\* A row flushed under the old name, or about to be, is nobody's to send until the
\* node is called so again, when the position may have passed it.  A tool, or a name
\* of blanks, leaves the node without a name.
Rename(n) ==
  /\ Incident /\ n # name
  /\ name' = n
  /\ disturbed' = (disturbed \/ name # NoName \/ \E r \in disk[path].rows : r.node = n)
  /\ UNCHANGED <<fileVars, backups, asked, flush, restore>>
  /\ UNCHANGED <<position, sharing, push, trusted, reached, acked>>

\* The primary's export or the administrator changes mode or role; the primary
\* drops the replica or takes it in again.
Reconfigure ==
  /\ Incident
  /\ \/ sharing' = ~sharing /\ UNCHANGED trusted
     \/ trusted' = ~trusted /\ UNCHANGED sharing
  /\ UNCHANGED <<fileVars, backups, name, asked, flush, restore>>
  /\ UNCHANGED <<position, push, reached, acked, disturbed>>

Replaces(r) ==
  /\ RestoreReplace(r)
  /\ disturbed' = (disturbed \/ path' # path)
  /\ UNCHANGED <<position, sharing, push, trusted, reached, acked>>

Restart ==
  /\ Reboot
  /\ position' = 0 /\ acked' = {} /\ disturbed' = FALSE
  /\ push' = [p \in Pushers |-> PushIdle]
  /\ UNCHANGED <<sharing, trusted, reached>>

StoreStep ==
  /\ \/ FlushCheck \/ FlushBegin \/ FlushCommit
     \/ ReceiveForeign \/ Purge \/ ClearQueryLogs \/ Backup
     \/ \E r \in Restorers : RestoreApply(r) \/ RestoreClose(r) \/ RestoreInit(r)
  /\ UNCHANGED sharingVars

Push(p) == PushStart(p) \/ PushSelect(p) \/ Lose(p) \/ Ingest(p) \/ Answer(p)

SharingNext ==
  \/ StoreStep
  \/ \E r \in Restorers : Replaces(r)
  \/ \E p \in Pushers : Push(p)
  \/ \E n \in Names \cup {NoName} : Rename(n)
  \/ Reconfigure
  \/ Restart

SharingSpec == SharingInit /\ [][SharingNext]_logSharingVars

\* The ticker keeps pulling and the goroutines run; a request that is sent again
\* and again is taken, and its answer received, some time; restores come to an end.
SharingFairSpec ==
  /\ SharingSpec
  /\ \A p \in Pushers : /\ WF_logSharingVars(PushStart(p)) /\ WF_logSharingVars(PushSelect(p))
                        /\ SF_logSharingVars(Ingest(p)) /\ SF_logSharingVars(Answer(p))
                        /\ WF_logSharingVars(Lose(p))
  /\ WF_logSharingVars(FlushBegin /\ UNCHANGED sharingVars)
  /\ WF_logSharingVars(FlushCommit /\ UNCHANGED sharingVars)
  /\ \A r \in Restorers : /\ WF_logSharingVars(RestoreInit(r) /\ UNCHANGED sharingVars)
                          /\ WF_logSharingVars(Replaces(r))

-----------------------------------------------------------------------------
(* Properties                                                              *)

\* Unless a restore or a new name disturbs it, the position never passes a row of
\* this node that no answered push contained: pushes may overlap, be limited,
\* lost or answered out of order (SyncClusterLogs).
NoneSkipped ==
  disturbed \/ \A r \in disk[path].rows : OwnRow(r, name) /\ r.id <= position => r \in acked

\* A row the primary acknowledged is not sent again by a push that starts later,
\* until the process restarts: an answer that comes late never takes the
\* position back.
NotResent == \A r \in acked : r.id <= position

\* A row of this node that waits to be sent, the two nodes being in a cluster.
Outstanding(q) ==
  /\ sharing /\ trusted /\ ~disturbed
  /\ \E r \in disk[path].rows : r.query = q /\ OwnRow(r, name)
  /\ q \notin reached

\* A row of this node is sent to the primary or deleted, whatever is lost on the
\* way, while the two are in a cluster and the database is the same one.
RowsAreSent == \A q \in 1 .. Queries : Outstanding(q) ~> ~Outstanding(q)
===============================================================================
