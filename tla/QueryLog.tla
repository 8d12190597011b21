------------------------------- MODULE QueryLog -------------------------------
(***************************************************************************)
(* From a line CoreDNS prints to a row of the table queries                *)
(* (admin/dns.go, admin/dns_parser.go, admin/db.go, admin/main.go):        *)
(*                                                                         *)
(*   stdout -> logQueue -> parsers -> logBuffer -> flusher -> database     *)
(*                                                                         *)
(* and the counters the dashboard shows, which the parsers increment and   *)
(* refreshStats overwrites.  A line stands for a query that parses; what   *)
(* does not parse leaves no trace.  The abuse analyser and the live stream *)
(* are fed by channels that drop when full and are left out.               *)
(***************************************************************************)
EXTENDS Naturals, FiniteSets, Sequences, SequencesExt

CONSTANTS
  Lines,      \* the lines CoreDNS prints
  Name, Type, \* of each line: the domain and the record type asked for
  Local,      \* lines whose client is 127.0.0.1 or ::1
  Health,     \* local lines of the watchdog's own test domains
  Blocked,    \* lines whose domain or client is blocked
  Parsers,    \* the parser goroutines
  QueueCap,   \* capacity of logQueue
  BatchSize,  \* rows per INSERT
  DBFails,    \* may a statement or a transaction fail?
  Shutdown    \* may the process be told to stop?

ASSUME QueryLogAssumption ==
  /\ IsFiniteSet(Lines) /\ IsFiniteSet(Parsers)
  /\ DOMAIN Name = Lines /\ DOMAIN Type = Lines
  /\ Local \subseteq Lines /\ Health \subseteq Local /\ Blocked \subseteq Lines
  /\ \A l \in Lines, h \in Health : l \in Local /\ Name[l] = Name[h] => l \in Health
  /\ QueueCap \in Nat \ {0} /\ BatchSize \in Nat \ {0}
  /\ {DBFails, Shutdown} \subseteq BOOLEAN

VARIABLES
  unread,   \* lines CoreDNS has yet to print
  queue,    \* logQueue
  recent,   \* recentQueries: signatures of the last two seconds
  parser,   \* what each parser is doing, with which line
  total, blocked,  \* stats.TotalQueries and stats.BlockedQueries
  buffer,   \* logBuffer
  batch,    \* what the flusher took, or FlusherIdle
  rows,     \* how many rows of the table a line has
  refresh,  \* refreshStats
  phase,    \* of the process
  dropped, skipped, failed \* ghosts: lines that left the pipeline on the way

parsing  == <<unread, queue, recent, parser, dropped, skipped>>
storing  == <<buffer, batch, rows, failed>>
counting == <<total, blocked, refresh>>
vars == <<parsing, storing, counting, phase>>

Idle        == [pc |-> "idle", line |-> {}]
FlusherIdle == <<>>
RefreshIdle == [pc |-> "idle", total |-> 0, blocked |-> 0]
Signature(l) == <<Name[l], Type[l]>>

Steps == {"dedupe", "total", "blocked", "types", "append"}

TypeOK ==
  /\ unread \subseteq Lines
  /\ queue \in Seq(Lines) /\ Len(queue) <= QueueCap
  /\ recent \subseteq {Signature(l) : l \in Lines}
  /\ \A p \in Parsers : \/ parser[p] = Idle
                        \/ parser[p].pc \in Steps /\ parser[p].line \in Lines
  /\ total \in Nat /\ blocked \in Nat
  /\ buffer \in Seq(Lines) /\ batch \in Seq(Lines)
  /\ rows \in [Lines -> 0 .. 2]
  /\ refresh.pc \in {"idle", "total", "blocked"}
  /\ phase \in {"run", "cancelled", "flushing", "flushed", "closed"}
  /\ dropped \cup skipped \cup failed \subseteq Lines

Init ==
  /\ unread = Lines
  /\ queue = <<>>
  /\ recent = {}
  /\ parser = [p \in Parsers |-> Idle]
  /\ total = 0 /\ blocked = 0
  /\ buffer = <<>>
  /\ batch = FlusherIdle
  /\ rows = [l \in Lines |-> 0]
  /\ refresh = RefreshIdle
  /\ phase = "run"
  /\ dropped = {} /\ skipped = {} /\ failed = {}

Alive      == phase # "closed"
Stopping   == phase # "run"
BufferFree == phase # "flushing"       \* bufferLock
StatsFree  == refresh.pc = "idle"      \* statsLock

-----------------------------------------------------------------------------
(* Reading and parsing                                                     *)

HasRoomForOneMore == Len(queue) <= QueueCap                       \* mutant
HasRoom == Len(queue) < QueueCap

\* The reader of CoreDNS's stdout drops a line rather than wait.
Read(l) ==
  /\ Alive
  /\ l \in unread
  /\ unread' = unread \ {l}
  /\ \/ /\ HasRoom
        /\ queue' = Append(queue, l) /\ UNCHANGED dropped
     \/ /\ ~HasRoom
        /\ dropped' = dropped \cup {l} /\ UNCHANGED queue
  /\ UNCHANGED <<recent, parser, skipped, storing, counting, phase>>

\* Once the context is cancelled a line may still win the select; a parser that
\* returned is one that takes no more steps.
Take(p) ==
  /\ Alive
  /\ parser[p] = Idle
  /\ queue # <<>>
  /\ parser' = [parser EXCEPT ![p] = [pc |-> "dedupe", line |-> Head(queue)]]
  /\ queue' = Tail(queue)
  /\ UNCHANGED <<unread, recent, dropped, skipped, storing, counting, phase>>

At(p, pc) == Alive /\ parser[p].pc = pc

MovesTo(p, pc) == parser' = [parser EXCEPT ![p].pc = pc]

RepeatsType(l) == l \in Local /\ \E s \in recent : s[2] = Type[l]  \* mutant
Repeats(l) == l \in Local /\ Signature(l) \in recent

\* A local line that repeats a recent one is the same query seen again; a line
\* of the watchdog leaves only its signature.
Dedupe(p) ==
  LET l == parser[p].line IN
  /\ At(p, "dedupe")
  /\ IF Repeats(l)
     THEN UNCHANGED recent
     ELSE recent' = recent \cup {Signature(l)}
  /\ IF Repeats(l) \/ l \in Health
     THEN skipped' = skipped \cup {l} /\ parser' = [parser EXCEPT ![p] = Idle]
     ELSE UNCHANGED skipped /\ MovesTo(p, "total")
  /\ UNCHANGED <<unread, queue, dropped, storing, counting, phase>>

\* Two seconds pass since a signature was seen.
Expire(s) ==
  /\ Alive
  /\ s \in recent
  /\ recent' = recent \ {s}
  /\ UNCHANGED <<unread, queue, parser, dropped, skipped, storing, counting, phase>>

CountTotal(p) ==
  /\ At(p, "total")
  /\ total' = total + 1
  /\ MovesTo(p, IF parser[p].line \in Blocked THEN "blocked" ELSE "types")
  /\ UNCHANGED <<unread, queue, recent, dropped, skipped, storing,
                 blocked, refresh, phase>>

CountBlocked(p) ==
  /\ At(p, "blocked")
  /\ blocked' = blocked + 1
  /\ MovesTo(p, "types")
  /\ UNCHANGED <<unread, queue, recent, dropped, skipped, storing,
                 total, refresh, phase>>

\* The maps of query types and countries, under statsLock.
CountTypes(p) ==
  /\ At(p, "types")
  /\ StatsFree
  /\ MovesTo(p, "append")
  /\ UNCHANGED <<unread, queue, recent, dropped, skipped, storing, counting, phase>>

Buffer(p) ==
  /\ At(p, "append")
  /\ BufferFree
  /\ buffer' = Append(buffer, parser[p].line)
  /\ parser' = [parser EXCEPT ![p] = Idle]
  /\ UNCHANGED <<unread, queue, recent, dropped, skipped,
                 batch, rows, failed, counting, phase>>

-----------------------------------------------------------------------------
(* Storing                                                                 *)

\* The INSERT statements a flush of qs is made of.
Chunks(qs) ==
  {{qs[i] : i \in {j \in DOMAIN qs : (j - 1) \div BatchSize = k}} :
     k \in 0 .. Len(qs)}

\* flushLogs: a statement that fails is logged and its rows are lost, a
\* transaction that fails takes them all.
FlushLogs(qs) ==
  \E ok \in IF DBFails THEN SUBSET ToSet(qs) ELSE {ToSet(qs)} :
    /\ \A c \in Chunks(qs) : c \subseteq ok \/ c \cap ok = {}
    /\ rows' = [l \in Lines |-> IF l \in ok THEN rows[l] + 1 ELSE rows[l]]
    /\ failed' = failed \cup (ToSet(qs) \ ok)

FullBatch == Len(buffer) >= BatchSize                             \* mutant
WorthFlushing == buffer # <<>>

KeptBuffer == buffer                                              \* mutant
Emptied == <<>>

\* Every five seconds, until the context's end wins the select.
FlushTick ==
  /\ Alive
  /\ batch = FlusherIdle
  /\ BufferFree
  /\ WorthFlushing
  /\ batch' = buffer
  /\ buffer' = Emptied
  /\ UNCHANGED <<parsing, rows, failed, counting, phase>>

FlushBatch ==
  /\ Alive
  /\ batch # FlusherIdle
  /\ FlushLogs(batch)
  /\ batch' = FlusherIdle
  /\ UNCHANGED <<parsing, buffer, counting, phase>>

-----------------------------------------------------------------------------
(* The statistics                                                          *)

Stored(S) == {l \in S : rows[l] > 0}

\* The minute ticker: Get24hStats counts the rows, then statsLock is taken.
RefreshRead ==
  /\ phase = "run"
  /\ refresh = RefreshIdle
  /\ refresh' = [pc |-> "total", total |-> Cardinality(Stored(Lines)),
                 blocked |-> Cardinality(Stored(Blocked))]
  /\ UNCHANGED <<parsing, storing, total, blocked, phase>>

\* The two stores are atomic, each on its own.
RefreshTotal ==
  /\ Alive
  /\ refresh.pc = "total"
  /\ total' = refresh.total
  /\ refresh' = [refresh EXCEPT !.pc = "blocked"]
  /\ UNCHANGED <<parsing, storing, blocked, phase>>

AddsBlocked == blocked + refresh.blocked                          \* mutant
CountedBlocked == refresh.blocked

RefreshBlocked ==
  /\ Alive
  /\ refresh.pc = "blocked"
  /\ blocked' = CountedBlocked
  /\ refresh' = RefreshIdle
  /\ UNCHANGED <<parsing, storing, total, phase>>

-----------------------------------------------------------------------------
(* Shutting down                                                           *)

Cancel ==
  /\ Shutdown
  /\ phase = "run"
  /\ phase' = "cancelled"
  /\ UNCHANGED <<parsing, storing, counting>>

FinalLock ==
  /\ phase = "cancelled"
  /\ phase' = "flushing"
  /\ UNCHANGED <<parsing, storing, counting>>

\* The buffer is flushed under bufferLock and left as it is.
FinalFlush ==
  /\ phase = "flushing"
  /\ FlushLogs(buffer)
  /\ phase' = "flushed"
  /\ UNCHANGED <<parsing, buffer, batch, counting>>

\* db.Close, and the process ends.
Close ==
  /\ phase = "flushed"
  /\ phase' = "closed"
  /\ UNCHANGED <<parsing, storing, counting>>

-----------------------------------------------------------------------------
ParserStep(p) ==
  \/ Take(p) \/ Dedupe(p) \/ CountTotal(p) \/ CountBlocked(p)
  \/ CountTypes(p) \/ Buffer(p)

Next ==
  \/ \E l \in Lines : Read(l)
  \/ \E p \in Parsers : ParserStep(p)
  \/ \E s \in recent : Expire(s)
  \/ FlushTick \/ FlushBatch
  \/ RefreshRead \/ RefreshTotal \/ RefreshBlocked
  \/ Cancel \/ FinalLock \/ FinalFlush \/ Close

Spec == Init /\ [][Next]_vars

\* Goroutines are scheduled; statsLock and bufferLock are not held forever, and
\* Go's mutexes do not starve a waiter.
Fairness ==
  /\ \A p \in Parsers : /\ WF_vars(Take(p)) /\ WF_vars(Dedupe(p))
                        /\ WF_vars(CountTotal(p)) /\ WF_vars(CountBlocked(p))
                        /\ SF_vars(CountTypes(p)) /\ SF_vars(Buffer(p))
  /\ WF_vars(FlushTick) /\ WF_vars(FlushBatch)
  /\ WF_vars(RefreshTotal) /\ WF_vars(RefreshBlocked)

FairSpec == Spec /\ Fairness
-----------------------------------------------------------------------------
(* Properties                                                              *)

Handled == {parser[p].line : p \in {q \in Parsers : parser[q].pc \in Steps}}
Recorded == {parser[p].line : p \in {q \in Parsers :
               parser[q].pc \in Steps \ {"dedupe"}}}
             \cup ToSet(buffer) \cup ToSet(batch) \cup Stored(Lines) \cup failed

\* How often a line occurs in the pipeline and its exits.
Occurrences(l) ==
  LET In(S) == IF l \in S THEN 1 ELSE 0
      Times(s) == Cardinality({i \in DOMAIN s : s[i] = l})
  IN  In(unread) + In(dropped) + In(skipped) + In(failed)
        + Times(queue) + Times(buffer) + Times(batch) + rows[l]
        + Cardinality({p \in Parsers : parser[p].pc \in Steps
                                         /\ parser[p].line = l})

\* Until the final flush a line is in one place: it is never stored twice and
\* leaves only through a full queue, as a repetition or by a failed statement,
\* however appends, the swap of the buffer and flushes interleave (db.go:549-557).
NoneLostOrDoubled ==
  phase \in {"run", "cancelled", "flushing"} => \A l \in Lines : Occurrences(l) = 1

\* A query is left out of the log as a repetition only if another with its name
\* and type is in it, although four parsers race (dns_parser.go:117-136).
SkippedIsShown ==
  \A l \in skipped \ Health :
    \E m \in Recorded : Name[m] = Name[l] /\ Type[m] = Type[l]

\* The counters are stored one after the other while parsers increment them;
\* between refreshes the blocked queries can exceed the total by no more than
\* one for each parser caught in between (db.go:777-778, dns_parser.go:254-257).
CountersDrift ==
  StatsFree => blocked <= total + Cardinality(Parsers)

\* While the process runs, a line that was queued is stored, left out as a
\* repetition, or lost to a failed statement (dns.go:219-233, db.go:539-560).
QueuedIsStored ==
  \A l \in Lines :
    l \in ToSet(queue) ~> (rows[l] > 0 \/ l \in skipped \cup failed \/ Stopping)

\* README.md:388: shutdown ensures that all buffered logs are flushed.
BufferedIsStored ==
  phase = "closed" =>
    \A l \in ToSet(buffer) \cup ToSet(batch) : rows[l] > 0
=============================================================================
