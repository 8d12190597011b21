------------------------------- MODULE LogStore -------------------------------
(***************************************************************************)
(* The query database of a node (admin/db.go, admin/api_system_backup.go): *)
(* the flusher inserts batches, maintenance and the administrator delete   *)
(* rows, a backup takes a snapshot and a restore puts one in the place of  *)
(* the database file while the process goes on running.                    *)
(*                                                                         *)
(* Files are numbered as they come to lie at DBPath; a process that holds  *)
(* an old one open writes to a file nobody can open again.  The driver is  *)
(* SQLite.  Queries are numbered by their time.                            *)
(***************************************************************************)
EXTENDS Naturals, FiniteSets

CONSTANTS
  Queries,     \* number of queries this node answers or is told of: 1 .. Queries
  NoName, Names, OtherName, \* ClusterNodeName unset, its values, another node's
  Restorers,   \* concurrent requests of handleRestore
  MaxIncidents \* bound on what rarely happens: restores, restarts, deletions, ...

ASSUME LogStoreAssumption ==
  /\ {Queries, MaxIncidents} \subseteq Nat
  /\ OtherName \notin Names /\ NoName # OtherName

VARIABLES
  disk,      \* the contents of each file that ever was the database
  path,      \* the one at DBPath
  handle,    \* the one the global db has open, NoHandle when it is nil
  backups,   \* snapshots of the database in backups taken
  name,      \* ClusterNodeName
  asked,     \* the last query so far
  flush,     \* flushLogs
  restore,   \* what each restore has done: the steps of handleRestore
  incidents  \* how many there were

fileVars  == <<disk, path, handle>>
storeVars == <<fileVars, backups, name, asked, flush, restore, incidents>>

NoHandle  == 0
FlushIdle == [pc |-> "idle", batch |-> {}, on |-> NoHandle, name |-> NoName]
RestoreIdle == [pc |-> "idle", from |-> {}]

Files   == 1 .. MaxIncidents + 1
Row     == [id : Nat \ {0}, query : 1 .. Queries, node : Names \cup {NoName, OtherName}]
Content == [rows : SUBSET Row, seq : Nat]
Empty   == [rows |-> {}, seq |-> 0]

StoreTypeOK ==
  /\ disk \in [Files -> Content]
  /\ path \in Files /\ handle \in Files \cup {NoHandle}
  /\ backups \subseteq Content
  /\ name \in Names \cup {NoName}
  /\ asked \in 0 .. Queries
  /\ flush \in [pc : {"idle", "begin", "insert"}, batch : SUBSET (1 .. Queries),
                on : Files \cup {NoHandle}, name : Names \cup {NoName}]
  /\ restore \in [Restorers -> [pc : {"idle", "applied", "closed", "replaced"},
                                from : SUBSET Content]]
  /\ incidents \in 0 .. MaxIncidents

\* Rare events share one bound.
Incident == incidents < MaxIncidents /\ incidents' = incidents + 1

StoreInit ==
  /\ disk = [f \in Files |-> Empty]
  /\ path = 1 /\ handle = 1
  /\ backups = {}
  /\ name = NoName
  /\ asked = 0
  /\ flush = FlushIdle
  /\ restore = [r \in Restorers |-> RestoreIdle]
  /\ incidents = 0

-----------------------------------------------------------------------------
(* Inserting and deleting                                                  *)

IsOpen == handle # NoHandle

\* AUTOINCREMENT: an id is never given twice in a file, not even after the rows
\* were deleted.  Rows of one INSERT come in the order of the batch.
Insert(c, qs, node) ==
  [rows |-> c.rows \cup {[id    |-> c.seq + Cardinality({p \in qs : p <= q}),
                          query |-> q, node |-> node] : q \in qs},
   seq  |-> c.seq + Cardinality(qs)]

\* The ticker takes the buffer; with db nil its queries are gone.
FlushCheck ==
  /\ flush.pc = "idle"
  /\ \E n \in asked + 1 .. Queries :
       /\ asked' = n
       /\ flush' = IF IsOpen
                   THEN [FlushIdle EXCEPT !.pc = "begin", !.batch = asked + 1 .. n]
                   ELSE FlushIdle
  /\ UNCHANGED <<fileVars, backups, name, restore, incidents>>

\* db is read again: a restore may have closed it (an error, the batch is gone).
\* If it is already nil the goroutine panics, which Reboot stands for.
FlushBegin ==
  /\ flush.pc = "begin"
  /\ flush' = IF IsOpen
              THEN [flush EXCEPT !.pc = "insert", !.on = handle, !.name = name]
              ELSE FlushIdle
  /\ UNCHANGED <<fileVars, backups, name, asked, restore, incidents>>

\* The statement or the commit may fail.  Closing db leaves a transaction its
\* connection, so it commits to the file it began on.
FlushCommit ==
  /\ flush.pc = "insert"
  /\ \/ disk' = [disk EXCEPT ![flush.on] = Insert(@, flush.batch, flush.name)]
     \/ UNCHANGED disk
  /\ flush' = FlushIdle
  /\ UNCHANGED <<path, handle, backups, name, asked, restore, incidents>>

\* The only connection is the transaction's until it ends.
Connects == IsOpen /\ ~(flush.pc = "insert" /\ flush.on = handle)

\* A row of another node arrives at this node's /api/cluster/logs/ingest.
ReceiveForeign ==
  /\ Connects /\ asked < Queries
  /\ asked' = asked + 1
  /\ disk' = [disk EXCEPT ![handle] = Insert(@, {asked + 1}, OtherName)]
  /\ UNCHANGED <<path, handle, backups, name, flush, restore, incidents>>

\* Rows are deleted; the sequence stays.
Delete(old) ==
  /\ Connects /\ Incident
  /\ old # {}
  /\ disk' = [disk EXCEPT ![handle].rows = @ \ old]
  /\ UNCHANGED <<path, handle, backups, name, asked, flush, restore>>

\* cleanup deletes what is older than the retention, or the oldest above the cap.
Purge ==
  \E q \in 1 .. Queries - 1 : Delete({r \in disk[handle].rows : r.query <= q})

\* The administrator or a tool deletes everything.
ClearQueryLogs == Delete(disk[handle].rows)

-----------------------------------------------------------------------------
(* Backup and restore                                                      *)

\* VACUUM INTO of the open database, or the live file when db is nil.
Snapshot == disk[IF IsOpen THEN handle ELSE path]

Backup ==
  /\ backups = {}
  /\ backups' = {Snapshot}
  /\ UNCHANGED <<fileVars, name, asked, flush, restore, incidents>>

InRestore == {r \in Restorers : restore[r].pc # "idle"}

\* A restore that includes the category data, its configuration applied and saved.
RestoreApply(r) ==
  /\ restore[r].pc = "idle" /\ Incident
  /\ \E b \in backups :
       restore' = [restore EXCEPT ![r] = [pc |-> "applied", from |-> {b}]]
  /\ UNCHANGED <<fileVars, backups, name, asked, flush>>

RestoreClose(r) ==
  /\ restore[r].pc = "applied"
  /\ handle' = NoHandle
  /\ restore' = [restore EXCEPT ![r].pc = "closed"]
  /\ UNCHANGED <<disk, path, backups, name, asked, flush, incidents>>

\* The temporary file takes the name DBPath; without one the file stays.
RestoreReplace(r) ==
  /\ restore[r].pc = "closed"
  /\ \/ /\ path' = path + 1
        /\ \E b \in restore[r].from : disk' = [disk EXCEPT ![path + 1] = b]
     \/ UNCHANGED <<disk, path>>
  /\ restore' = [restore EXCEPT ![r].pc = "replaced"]
  /\ UNCHANGED <<handle, backups, name, asked, flush, incidents>>

OpensIfNil   == IF IsOpen THEN handle ELSE path                   \* mutant
OpenedHandle == path

\* initDB opens what is at DBPath now, whatever the handle was.
RestoreInit(r) ==
  /\ restore[r].pc = "replaced"
  /\ handle' = OpenedHandle
  /\ restore' = [restore EXCEPT ![r] = RestoreIdle]
  /\ UNCHANGED <<disk, path, backups, name, asked, flush, incidents>>

\* The process ends (a crash, or the panic of a flusher that passed its check
\* before a restore closed db) and is started again: queries in memory are gone.
Reboot ==
  /\ Incident
  /\ handle' = path
  /\ flush' = FlushIdle
  /\ restore' = [r \in Restorers |-> RestoreIdle]
  /\ UNCHANGED <<disk, path, backups, name, asked>>

-----------------------------------------------------------------------------
(* Properties                                                              *)

\* While no restore is under way the process writes to the file that the next
\* start will open: closeDB, the rename and initDB leave it so in every order of
\* concurrent restores (handleRestore, initDB).
HandleIsFile == InRestore = {} => handle = path
===============================================================================
