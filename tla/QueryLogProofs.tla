--------------------------- MODULE QueryLogProofs ---------------------------
(***************************************************************************)
(* Proofs about the query log.  First part: the pipeline from the lines    *)
(* CoreDNS prints to the rows of the table (module QueryLog), for any      *)
(* lines, parsers, capacity of the queue and size of the batches.  Second  *)
(* part: the database under restores, and its rows on their way to the     *)
(* primary (modules LogStore and LogSharing), for any number of queries,   *)
(* names, restores, overlapping pushes and incidents.                      *)
(***************************************************************************)
EXTENDS QueryLog, LogSharing, FiniteSetTheorems, SequenceTheorems, TLAPS

-----------------------------------------------------------------------------
(* Counting                                                                *)

In(S, l) == IF l \in S THEN 1 ELSE 0
Places(s, l) == {i \in DOMAIN s : s[i] = l}
Times(s, l) == Cardinality(Places(s, l))
Holders(pa, l) == {p \in Parsers : pa[p].pc \in Steps /\ pa[p].line = l}
Held(pa, l) == Cardinality(Holders(pa, l))

LEMMA PlacesFinite ==
  ASSUME NEW s \in Seq(Lines), NEW l
  PROVE  IsFiniteSet(Places(s, l)) /\ Times(s, l) \in Nat
<1>1. IsFiniteSet(DOMAIN s)
  BY FS_Interval
<1>2. Places(s, l) \subseteq DOMAIN s
  BY DEF Places
<1> QED
  BY <1>1, <1>2, FS_Subset, FS_CardinalityType DEF Times

LEMMA TimesEmpty == \A l : Times(<<>>, l) = 0
<1> TAKE l
<1>1. Places(<<>>, l) = {}
  BY DEF Places
<1> QED
  BY <1>1, FS_EmptySet DEF Times

LEMMA TimesNone ==
  ASSUME NEW s \in Seq(Lines), NEW l
  PROVE  Times(s, l) = 0 <=> l \notin ToSet(s)
<1>1. Places(s, l) = {} <=> l \notin ToSet(s)
  BY DEF Places, ToSet
<1> QED
  BY <1>1, PlacesFinite, FS_EmptySet DEF Times

LEMMA TimesAppend ==
  ASSUME NEW s \in Seq(Lines), NEW x \in Lines, NEW l
  PROVE  Times(Append(s, x), l) = Times(s, l) + In({x}, l)
<1> DEFINE t == Append(s, x)
           n == Len(s) + 1
<1>1. DOMAIN t = DOMAIN s \cup {n} /\ n \notin DOMAIN s /\ t[n] = x
      /\ \A i \in DOMAIN s : t[i] = s[i]
  OBVIOUS
<1> HIDE DEF t, n
<1>2. CASE x = l
  <2>1. Places(t, l) = Places(s, l) \cup {n} /\ n \notin Places(s, l)
    BY <1>1, <1>2 DEF Places
  <2>2. Cardinality(Places(t, l)) = Cardinality(Places(s, l)) + 1
    BY <2>1, PlacesFinite, FS_AddElement
  <2> QED
    BY <1>2, <2>2 DEF Times, In, t
<1>3. CASE x # l
  <2>1. Places(t, l) = Places(s, l)
    BY <1>1, <1>3 DEF Places
  <2>2. Times(t, l) = Times(s, l) /\ Times(s, l) \in Nat
    BY <2>1, PlacesFinite DEF Times
  <2> QED
    BY <1>3, <2>2 DEF In, t
<1> QED
  BY <1>2, <1>3

LEMMA TimesTail ==
  ASSUME NEW s \in Seq(Lines), s # <<>>, NEW l
  PROVE  /\ Times(s, l) = Times(Tail(s), l) + In({Head(s)}, l)
         /\ Tail(s) \in Seq(Lines) /\ Head(s) \in Lines
<1> DEFINE t == Tail(s)
           rest == Places(s, l) \ {1}
<1>1. t \in Seq(Lines) /\ Head(s) \in Lines /\ Head(s) = s[1] /\ 1 \in DOMAIN s
      /\ DOMAIN s = 1 .. Len(s) /\ DOMAIN t = 1 .. (Len(s) - 1) /\ Len(s) \in Nat
      /\ \A i \in DOMAIN t : t[i] = s[i + 1]
  OBVIOUS
<1> HIDE DEF t
<1> DEFINE f == [i \in Places(t, l) |-> i + 1]
<1>2. f \in Bijection(Places(t, l), rest)
  <2>1. \A i \in Places(t, l) : f[i] \in rest
    BY <1>1 DEF Places
  <2>2. \A i, j \in Places(t, l) : f[i] = f[j] => i = j
    BY <1>1 DEF Places
  <2>3. ASSUME NEW k \in rest PROVE \E i \in Places(t, l) : f[i] = k
    <3>1. k - 1 \in Places(t, l)
      BY <1>1 DEF Places
    <3> QED
      BY <1>1, <3>1 DEF Places
  <2>4. f \in [Places(t, l) -> rest]
    BY <2>1
  <2> HIDE DEF f, rest
  <2>5. f \in Injection(Places(t, l), rest)
    BY <2>2, <2>4 DEF Injection, IsInjective
  <2>6. f \in Surjection(Places(t, l), rest)
    BY <2>3, <2>4, Zenon DEF Surjection
  <2> QED
    BY <2>5, <2>6, Zenon DEF Bijection
<1>3. Cardinality(rest) = Times(t, l)
  BY <1>1, <1>2, PlacesFinite, FS_Bijection DEF ExistsBijection, Times
<1>4. Cardinality(rest) = Times(s, l) - In(Places(s, l), 1)
  <2>1. Cardinality(rest) = IF 1 \in Places(s, l) THEN Times(s, l) - 1 ELSE Times(s, l)
    BY PlacesFinite, FS_RemoveElement DEF Times
  <2> QED
    BY <2>1, PlacesFinite DEF In
<1>5. In(Places(s, l), 1) = In({Head(s)}, l)
  BY <1>1 DEF In, Places
<1> QED
  BY <1>1, <1>3, <1>4, <1>5, PlacesFinite DEF In, t

LEMMA ToSetAppend ==
  ASSUME NEW s \in Seq(Lines), NEW x \in Lines
  PROVE  ToSet(Append(s, x)) = ToSet(s) \cup {x}
<1> DEFINE t == Append(s, x)
           n == Len(s) + 1
<1>1. DOMAIN t = DOMAIN s \cup {n} /\ n \notin DOMAIN s /\ t[n] = x
      /\ \A i \in DOMAIN s : t[i] = s[i]
  OBVIOUS
<1> HIDE DEF t, n
<1>2. ToSet(t) = ToSet(s) \cup {x}
  BY <1>1 DEF ToSet
<1> QED
  BY <1>2 DEF t

LEMMA HeldType ==
  ASSUME NEW pa, NEW l
  PROVE  IsFiniteSet(Holders(pa, l)) /\ Held(pa, l) \in Nat
<1>1. Holders(pa, l) \subseteq Parsers
  BY DEF Holders
<1> QED
  BY <1>1, QueryLogAssumption, FS_Subset, FS_CardinalityType DEF Held

\* What a parser holds changes.
LEMMA HeldStep ==
  ASSUME NEW pa, NEW pb, NEW p \in Parsers, NEW l,
         \A q \in Parsers \ {p} : pb[q] = pa[q]
  PROVE  Held(pb, l) = Held(pa, l) - In(Holders(pa, l), p) + In(Holders(pb, l), p)
<1> DEFINE others == Holders(pa, l) \ {p}
<1>1. others = Holders(pb, l) \ {p}
  BY DEF Holders
<1>2. Cardinality(others) = Held(pa, l) - In(Holders(pa, l), p)
  <2>1. Cardinality(others)
          = IF p \in Holders(pa, l) THEN Held(pa, l) - 1 ELSE Held(pa, l)
    BY HeldType, FS_RemoveElement DEF Held
  <2> QED
    BY <2>1, HeldType DEF In
<1>3. Cardinality(others) = Held(pb, l) - In(Holders(pb, l), p)
  <2>1. Cardinality(Holders(pb, l) \ {p})
          = IF p \in Holders(pb, l) THEN Held(pb, l) - 1 ELSE Held(pb, l)
    BY HeldType, FS_RemoveElement DEF Held
  <2> QED
    BY <1>1, <2>1, HeldType DEF In
<1> QED
  BY <1>2, <1>3, HeldType DEF In

-----------------------------------------------------------------------------
(* Types                                                                   *)

Work == {Idle} \cup [pc : Steps, line : Lines]

\* TypeOK, with what the functions and records are and without the bound of rows,
\* which follows from where the lines are.
Types ==
  /\ unread \subseteq Lines
  /\ queue \in Seq(Lines) /\ Len(queue) <= QueueCap
  /\ recent \subseteq {Signature(l) : l \in Lines}
  /\ parser \in [Parsers -> Work]
  /\ total \in Nat /\ blocked \in Nat
  /\ buffer \in Seq(Lines) /\ batch \in Seq(Lines)
  /\ rows \in [Lines -> Nat]
  /\ refresh \in [pc : {"idle", "total", "blocked"}, total : Nat, blocked : Nat]
  /\ phase \in {"run", "cancelled", "flushing", "flushed", "closed"}
  /\ dropped \cup skipped \cup failed \subseteq Lines

LEMMA InitTypes == Init => Types
<1> SUFFICES ASSUME Init PROVE Types
  OBVIOUS
<1>1. RefreshIdle \in [pc : {"idle", "total", "blocked"}, total : Nat, blocked : Nat]
  BY DEF RefreshIdle
<1> QED
  BY <1>1, QueryLogAssumption DEF Init, Types, FlusherIdle, Work

\* What a parser at work may be.
LEMMA WorkType ==
  ASSUME Types, NEW p \in Parsers
  PROVE  /\ parser[p] \in Work
         /\ parser[p].pc \in Steps => parser[p].line \in Lines /\ parser[p] # Idle
         /\ parser[p] # Idle => parser[p].pc \in Steps
         /\ Idle.pc \notin Steps
BY DEF Types, Work, Idle, Steps

\* A parser at work goes on with its line.
LEMMA MoveType ==
  ASSUME Types, NEW p \in Parsers, parser[p].pc \in Steps, NEW pc \in Steps, MovesTo(p, pc)
  PROVE  /\ parser' \in [Parsers -> Work]
         /\ parser'[p].pc = pc /\ parser'[p].line = parser[p].line
         /\ \A q \in Parsers \ {p} : parser'[q] = parser[q]
<1>1. parser[p] \in [pc : Steps, line : Lines]
  BY WorkType DEF Work
<1>2. parser' = [parser EXCEPT ![p] = [parser[p] EXCEPT !.pc = pc]]
  BY DEF MovesTo, Types
<1>3. [parser[p] EXCEPT !.pc = pc] \in [pc : Steps, line : Lines]
      /\ [parser[p] EXCEPT !.pc = pc].pc = pc
      /\ [parser[p] EXCEPT !.pc = pc].line = parser[p].line
  BY <1>1
<1> QED
  BY <1>2, <1>3 DEF Types, Work

LEMMA FlushTypes ==
  ASSUME Types, NEW qs \in Seq(Lines), FlushLogs(qs)
  PROVE  /\ rows' \in [Lines -> Nat] /\ failed' \subseteq Lines
         /\ failed \subseteq failed' /\ failed' \subseteq failed \cup ToSet(qs)
         /\ \A l \in Lines \ ToSet(qs) : rows'[l] = rows[l]
         /\ \A l \in ToSet(qs) : \/ rows'[l] = rows[l] + 1 /\ (l \in failed' <=> l \in failed)
                                 \/ rows'[l] = rows[l] /\ l \in failed'
<1>1. PICK ok \in SUBSET ToSet(qs) :
        /\ rows' = [l \in Lines |-> IF l \in ok THEN rows[l] + 1 ELSE rows[l]]
        /\ failed' = failed \cup (ToSet(qs) \ ok)
  BY DEF FlushLogs
<1>2. ToSet(qs) \subseteq Lines
  BY DEF ToSet
<1>3. \A l \in Lines : rows[l] \in Nat
  BY DEF Types
<1> QED
  BY <1>1, <1>2, <1>3 DEF Types

LEMMA NextTypes == Types /\ [Next]_vars => Types'
<1> SUFFICES ASSUME Types, [Next]_vars PROVE Types'
  OBVIOUS
<1> USE DEF parsing, storing, counting
<1>1. CASE UNCHANGED vars
  BY <1>1 DEF vars, Types
<1>2. ASSUME NEW l \in Lines, Read(l) PROVE Types'
  <2>1. CASE HasRoom /\ queue' = Append(queue, l)
    <3>1. queue' \in Seq(Lines) /\ Len(queue') = Len(queue) + 1
      BY <2>1 DEF Types
    <3> QED
      BY <1>2, <2>1, <3>1, QueryLogAssumption DEF Read, HasRoom, Types
  <2>2. CASE UNCHANGED queue
    BY <1>2, <2>2 DEF Read, Types
  <2> QED
    BY <1>2, <2>1, <2>2 DEF Read
<1>3. ASSUME NEW p \in Parsers, Take(p) PROVE Types'
  <2>1. Head(queue) \in Lines /\ Tail(queue) \in Seq(Lines) /\ Len(Tail(queue)) <= QueueCap
    BY <1>3, QueryLogAssumption DEF Take, Types
  <2>2. parser' \in [Parsers -> Work]
    BY <1>3, <2>1 DEF Take, Types, Work, Steps
  <2> QED
    BY <1>3, <2>1, <2>2 DEF Take, Types
<1>4. ASSUME NEW p \in Parsers, Dedupe(p) PROVE Types'
  <2>1. parser[p].pc \in Steps /\ parser[p].line \in Lines /\ "total" \in Steps
    BY <1>4, WorkType DEF Dedupe, At, Steps
  <2>2. CASE parser' = [parser EXCEPT ![p] = Idle] /\ skipped' = skipped \cup {parser[p].line}
    <3>1. parser' \in [Parsers -> Work]
      BY <2>2 DEF Types, Work
    <3> QED
      BY <1>4, <2>1, <2>2, <3>1 DEF Dedupe, Types
  <2>3. CASE MovesTo(p, "total") /\ UNCHANGED skipped
    <3>1. parser' \in [Parsers -> Work]
      BY <2>1, <2>3, MoveType
    <3> QED
      BY <1>4, <2>1, <2>3, <3>1 DEF Dedupe, Types
  <2> QED
    BY <1>4, <2>2, <2>3 DEF Dedupe
<1>5. ASSUME NEW p \in Parsers, CountTotal(p) \/ CountBlocked(p) \/ CountTypes(p) PROVE Types'
  <2>1. PICK pc \in {"types", "blocked", "append"} : MovesTo(p, pc)
    BY <1>5 DEF CountTotal, CountBlocked, CountTypes
  <2>2. parser[p].pc \in Steps /\ pc \in Steps
    BY <1>5 DEF CountTotal, CountBlocked, CountTypes, At, Steps
  <2>3. parser' \in [Parsers -> Work]
    BY <2>1, <2>2, MoveType
  <2> QED
    BY <1>5, <2>3 DEF CountTotal, CountBlocked, CountTypes, Types
<1>6. ASSUME NEW p \in Parsers, Buffer(p) PROVE Types'
  <2>1. parser[p].line \in Lines
    BY <1>6, WorkType DEF Buffer, At, Steps
  <2>2. parser' \in [Parsers -> Work] /\ buffer' \in Seq(Lines)
    BY <1>6, <2>1 DEF Buffer, Types, Work
  <2> QED
    BY <1>6, <2>2 DEF Buffer, Types
<1>7. CASE FlushTick
  BY <1>7 DEF FlushTick, Emptied, Types
<1>8. CASE FlushBatch
  <2>1. rows' \in [Lines -> Nat] /\ failed' \subseteq Lines
    BY <1>8, FlushTypes DEF FlushBatch, Types
  <2> QED
    BY <1>8, <2>1 DEF FlushBatch, FlusherIdle, Types
<1>9. CASE FinalFlush
  <2>1. rows' \in [Lines -> Nat] /\ failed' \subseteq Lines
    BY <1>9, FlushTypes DEF FinalFlush, Types
  <2> QED
    BY <1>9, <2>1 DEF FinalFlush, Types
<1>10. CASE RefreshRead
  <2>1. \A S \in SUBSET Lines : Cardinality(Stored(S)) \in Nat
    BY QueryLogAssumption, FS_Subset, FS_CardinalityType DEF Stored
  <2>2. Cardinality(Stored(Lines)) \in Nat /\ Cardinality(Stored(Blocked)) \in Nat
    BY <2>1, QueryLogAssumption
  <2> QED
    BY <1>10, <2>2 DEF RefreshRead, Types
<1>11. CASE RefreshTotal \/ RefreshBlocked
  BY <1>11 DEF RefreshTotal, RefreshBlocked, CountedBlocked, RefreshIdle, Types
<1>12. CASE Cancel \/ FinalLock \/ Close
  BY <1>12 DEF Cancel, FinalLock, Close, Types
<1>13. ASSUME NEW s \in recent, Expire(s) PROVE Types'
  BY <1>13 DEF Expire, Types
<1> QED
  BY <1>1, <1>2, <1>3, <1>4, <1>5, <1>6, <1>7, <1>8, <1>9, <1>10, <1>11, <1>12, <1>13
  DEF Next, ParserStep

-----------------------------------------------------------------------------
(* Where the lines are                                                     *)

\* Until the final flush a line is in one place; that flush doubles those it stores,
\* for it leaves them in the buffer.
Early == phase \in {"run", "cancelled", "flushing"}
Located ==
  \A l \in Lines : IF Early THEN Occurrences(l) = 1 ELSE Occurrences(l) <= 2

LEMMA InType == \A S, l : In(S, l) \in 0 .. 1
BY DEF In

LEMMA OccurrencesSum ==
  \A l : /\ Occurrences(l)
              = In(unread, l) + In(dropped, l) + In(skipped, l) + In(failed, l)
                  + Times(queue, l) + Times(buffer, l) + Times(batch, l) + rows[l]
                  + Held(parser, l)
         /\ Occurrences(l)'
              = In(unread', l) + In(dropped', l) + In(skipped', l) + In(failed', l)
                  + Times(queue', l) + Times(buffer', l) + Times(batch', l) + rows'[l]
                  + Held(parser', l)
BY DEF Occurrences, In, Times, Places, Held, Holders

\* The summands are numbers.
LEMMA Summands ==
  ASSUME Types, NEW l \in Lines
  PROVE  /\ Times(queue, l) \in Nat /\ Times(buffer, l) \in Nat /\ Times(batch, l) \in Nat
         /\ rows[l] \in Nat /\ Held(parser, l) \in Nat
         /\ In(unread, l) \in 0 .. 1 /\ In(dropped, l) \in 0 .. 1
         /\ In(skipped, l) \in 0 .. 1 /\ In(failed, l) \in 0 .. 1
BY PlacesFinite, HeldType, InType DEF Types

LEMMA SummandsAfter ==
  ASSUME Types', NEW l \in Lines
  PROVE  /\ Times(queue', l) \in Nat /\ Times(buffer', l) \in Nat /\ Times(batch', l) \in Nat
         /\ rows'[l] \in Nat /\ Held(parser', l) \in Nat
         /\ In(unread', l) \in 0 .. 1 /\ In(dropped', l) \in 0 .. 1
         /\ In(skipped', l) \in 0 .. 1 /\ In(failed', l) \in 0 .. 1
BY PlacesFinite, HeldType, InType DEF Types

LEMMA InitLocated == Init => Located
<1> SUFFICES ASSUME Init, NEW l \in Lines PROVE Occurrences(l) = 1
  BY DEF Located, Init, Early
<1>1. Holders(parser, l) = {}
  BY DEF Init, Holders, Idle, Steps
<1>2. Held(parser, l) = 0
  BY <1>1, FS_EmptySet DEF Held
<1>3. Times(<<>>, l) = 0
  BY TimesEmpty
<1> QED
  BY <1>2, <1>3, OccurrencesSum DEF Init, FlusherIdle, In

\* A step keeps the place of a line that is in one, and never adds one.
Keeps(l) ==
  /\ Occurrences(l)' <= Occurrences(l)
  /\ Occurrences(l) = 1 => Occurrences(l)' = 1

LEMMA ReadKeeps ==
  ASSUME Types, Types', NEW l \in Lines, NEW k \in Lines, Read(k)
  PROVE  Keeps(l)
<1>1. In(unread, l) = In(unread', l) + In({k}, l)
  BY DEF Read, In
<1>2. /\ skipped' = skipped /\ failed' = failed /\ buffer' = buffer /\ batch' = batch
      /\ rows' = rows /\ parser' = parser
  BY DEF Read, storing
<1> DEFINE rest == In(skipped, l) + In(failed, l) + Times(buffer, l) + Times(batch, l)
                     + rows[l] + Held(parser, l)
<1>3. /\ Occurrences(l) = In(unread, l) + In(dropped, l) + Times(queue, l) + rest
      /\ rest \in Nat
  BY OccurrencesSum, Summands
<1>4. Occurrences(l)' = In(unread', l) + In(dropped', l) + Times(queue', l) + rest
  <2>1. Occurrences(l)' = In(unread', l) + In(dropped', l) + In(skipped, l) + In(failed, l)
                            + Times(queue', l) + Times(buffer, l) + Times(batch, l) + rows[l]
                            + Held(parser, l)
    BY <1>2, OccurrencesSum
  <2> QED
    BY <2>1, Summands, SummandsAfter
<1>5. /\ In(unread', l) \in 0 .. 1 /\ In({k}, l) \in 0 .. 1
      /\ In(dropped, l) \in 0 .. 1 /\ In(dropped', l) \in 0 .. 1
      /\ Times(queue, l) \in Nat
  BY InType, Summands
<1> HIDE DEF rest
<1>6. CASE queue' = Append(queue, k) /\ UNCHANGED dropped
  <2>1. Times(queue', l) = Times(queue, l) + In({k}, l)
    BY <1>6, TimesAppend DEF Types
  <2> QED
    BY <1>1, <1>3, <1>4, <1>5, <1>6, <2>1 DEF Keeps
<1>7. CASE dropped' = dropped \cup {k} /\ UNCHANGED queue
  <2>1. /\ In(dropped', l) <= In(dropped, l) + In({k}, l)
        /\ In(dropped, l) = 0 => In(dropped', l) = In({k}, l)
        /\ In({k}, l) = 0 => In(dropped', l) = In(dropped, l)
    BY <1>7 DEF In
  <2> QED
    BY <1>1, <1>3, <1>4, <1>5, <1>7, <2>1 DEF Keeps
<1> QED
  BY <1>6, <1>7 DEF Read

\* What a parser takes or lets go of.
LEMMA HeldBy ==
  ASSUME Types, Types', NEW p \in Parsers, NEW l, \A q \in Parsers \ {p} : parser'[q] = parser[q]
  PROVE  Held(parser', l) = Held(parser, l) - In(Holders(parser, l), p)
                              + In(Holders(parser', l), p)
BY HeldStep

LEMMA TakeKeeps ==
  ASSUME Types, Types', NEW l \in Lines, NEW p \in Parsers, Take(p)
  PROVE  Keeps(l)
<1>1. parser'[p] = [pc |-> "dedupe", line |-> Head(queue)] /\ parser[p] = Idle
      /\ \A q \in Parsers \ {p} : parser'[q] = parser[q]
  BY DEF Take, Types
<1>2. In(Holders(parser, l), p) = 0 /\ In(Holders(parser', l), p) = In({Head(queue)}, l)
  BY <1>1 DEF In, Holders, Idle, Steps
<1>3. Held(parser', l) = Held(parser, l) + In({Head(queue)}, l)
  BY <1>1, <1>2, HeldBy, HeldType, InType
<1>4. Times(queue, l) = Times(queue', l) + In({Head(queue)}, l)
  BY TimesTail DEF Take, Types
<1>5. UNCHANGED <<unread, dropped, skipped, failed, buffer, batch, rows>>
  BY DEF Take, storing
<1>6. Times(queue', l) \in Nat
  BY PlacesFinite DEF Types
<1> QED
  BY <1>3, <1>4, <1>5, <1>6, OccurrencesSum, Summands, SummandsAfter, InType DEF Keeps

\* The parser goes on with the line it has.
LEMMA MoveKeeps ==
  ASSUME Types, Types', NEW l \in Lines, NEW p \in Parsers, parser[p].pc \in Steps,
         NEW pc \in Steps, MovesTo(p, pc),
         UNCHANGED <<unread, queue, dropped, skipped, failed, buffer, batch, rows>>
  PROVE  Keeps(l)
<1>1. parser'[p].pc = pc /\ parser'[p].line = parser[p].line
      /\ \A q \in Parsers \ {p} : parser'[q] = parser[q]
  BY MoveType
<1>2. In(Holders(parser', l), p) = In(Holders(parser, l), p)
  BY <1>1 DEF In, Holders
<1>3. Held(parser', l) = Held(parser, l)
  <2>1. In(Holders(parser, l), p) \in 0 .. 1 /\ Held(parser, l) \in Nat
    BY InType, HeldType
  <2>2. Held(parser', l) = Held(parser, l) - In(Holders(parser, l), p)
                             + In(Holders(parser', l), p)
    BY <1>1, HeldBy
  <2> QED
    BY <1>2, <2>1, <2>2
<1> QED
  BY <1>3, OccurrencesSum, Summands, SummandsAfter DEF Keeps

\* The parser is done with its line, which may be somewhere else now.
LEMMA LeaveHeld ==
  ASSUME Types, Types', NEW l, NEW p \in Parsers, parser[p].pc \in Steps,
         parser' = [parser EXCEPT ![p] = Idle]
  PROVE  Held(parser, l) = Held(parser', l) + In({parser[p].line}, l)
<1>1. parser'[p] = Idle /\ \A q \in Parsers \ {p} : parser'[q] = parser[q]
  BY DEF Types
<1>2. In(Holders(parser', l), p) = 0 /\ In(Holders(parser, l), p) = In({parser[p].line}, l)
  BY <1>1 DEF In, Holders, Idle, Steps
<1>3. Held(parser, l) \in Nat /\ In({parser[p].line}, l) \in 0 .. 1
  BY HeldType, InType
<1>4. Held(parser', l) = Held(parser, l) - In(Holders(parser, l), p)
                           + In(Holders(parser', l), p)
  BY <1>1, HeldBy
<1> QED
  BY <1>2, <1>3, <1>4

LEMMA DedupeKeeps ==
  ASSUME Types, Types', NEW l \in Lines, NEW p \in Parsers, Dedupe(p)
  PROVE  Keeps(l)
<1>1. parser[p].pc \in Steps /\ "total" \in Steps
  BY DEF Dedupe, At, Steps
<1>2. UNCHANGED <<unread, queue, dropped, failed, buffer, batch, rows>>
  BY DEF Dedupe, storing
<1>3. CASE skipped' = skipped \cup {parser[p].line} /\ parser' = [parser EXCEPT ![p] = Idle]
  <2> DEFINE k == parser[p].line
  <2>1. Held(parser, l) = Held(parser', l) + In({k}, l)
    BY <1>1, <1>3, LeaveHeld
  <2>2. /\ In(skipped', l) <= In(skipped, l) + In({k}, l)
        /\ In(skipped, l) = 0 => In(skipped', l) = In({k}, l)
        /\ In({k}, l) = 0 => In(skipped', l) = In(skipped, l)
    BY <1>3 DEF In
  <2> QED
    BY <1>2, <2>1, <2>2, OccurrencesSum, Summands, SummandsAfter, InType, HeldType DEF Keeps
<1>4. CASE UNCHANGED skipped /\ MovesTo(p, "total")
  BY <1>1, <1>2, <1>4, MoveKeeps
<1> QED
  BY <1>3, <1>4 DEF Dedupe

LEMMA CountKeeps ==
  ASSUME Types, Types', NEW l \in Lines, NEW p \in Parsers,
         CountTotal(p) \/ CountBlocked(p) \/ CountTypes(p)
  PROVE  Keeps(l)
<1>1. PICK pc \in {"types", "blocked", "append"} : MovesTo(p, pc)
  BY DEF CountTotal, CountBlocked, CountTypes
<1>2. parser[p].pc \in Steps /\ pc \in Steps
  BY DEF CountTotal, CountBlocked, CountTypes, At, Steps
<1>3. UNCHANGED <<unread, queue, dropped, skipped, failed, buffer, batch, rows>>
  BY DEF CountTotal, CountBlocked, CountTypes, storing
<1> QED
  BY <1>1, <1>2, <1>3, MoveKeeps

LEMMA BufferKeeps ==
  ASSUME Types, Types', NEW l \in Lines, NEW p \in Parsers, Buffer(p)
  PROVE  Keeps(l)
<1> DEFINE k == parser[p].line
<1>1. parser[p].pc \in Steps /\ k \in Lines /\ parser' = [parser EXCEPT ![p] = Idle]
      /\ buffer' = Append(buffer, k)
  BY WorkType DEF Buffer, At, Steps
<1>2. Held(parser, l) = Held(parser', l) + In({k}, l)
  BY <1>1, LeaveHeld
<1>3. Times(buffer', l) = Times(buffer, l) + In({k}, l)
  BY <1>1, TimesAppend DEF Types
<1>4. UNCHANGED <<unread, queue, dropped, skipped, failed, batch, rows>>
  BY DEF Buffer
<1> QED
  BY <1>2, <1>3, <1>4, OccurrencesSum, Summands, SummandsAfter, InType, HeldType DEF Keeps

LEMMA TickKeeps ==
  ASSUME Types, Types', NEW l \in Lines, FlushTick
  PROVE  Keeps(l)
<1>1. Times(batch, l) = 0 /\ Times(buffer', l) = 0 /\ batch' = buffer
  BY TimesEmpty DEF FlushTick, FlusherIdle, Emptied
<1>2. UNCHANGED <<unread, queue, dropped, skipped, failed, parser, rows>>
  BY DEF FlushTick, parsing
<1> QED
  BY <1>1, <1>2, OccurrencesSum, Summands, SummandsAfter DEF Keeps

\* What flushing does to a line that occurs or does not.
LEMMA FlushSums ==
  ASSUME Types, NEW qs \in Seq(Lines), FlushLogs(qs), NEW l \in Lines
  PROVE  /\ Times(qs, l) = 0 => rows'[l] = rows[l] /\ In(failed', l) = In(failed, l)
         /\ Times(qs, l) # 0 => \/ rows'[l] = rows[l] + 1 /\ In(failed', l) = In(failed, l)
                                \/ rows'[l] = rows[l] /\ In(failed', l) = 1
BY FlushTypes, TimesNone DEF In

LEMMA BatchKeeps ==
  ASSUME Types, Types', NEW l \in Lines, FlushBatch
  PROVE  Keeps(l)
<1>1. UNCHANGED <<unread, queue, dropped, skipped, buffer, parser>>
  BY DEF FlushBatch, parsing
<1>2. Times(batch', l) = 0
  BY TimesEmpty DEF FlushBatch, FlusherIdle
<1>3. FlushLogs(batch) /\ batch \in Seq(Lines)
  BY DEF FlushBatch, Types
<1>4. CASE Times(batch, l) = 0
  <2>1. rows'[l] = rows[l] /\ In(failed', l) = In(failed, l)
    BY <1>3, <1>4, FlushSums
  <2> QED
    BY <1>1, <1>2, <1>4, <2>1, OccurrencesSum, Summands, SummandsAfter DEF Keeps
<1>5. CASE Times(batch, l) # 0
  <2>1. \/ rows'[l] = rows[l] + 1 /\ In(failed', l) = In(failed, l)
        \/ rows'[l] = rows[l] /\ In(failed', l) = 1
    BY <1>3, <1>5, FlushSums
  <2>2. Occurrences(l)' = Occurrences(l) - Times(batch, l) + (rows'[l] - rows[l])
                            + (In(failed', l) - In(failed, l))
    BY <1>1, <1>2, OccurrencesSum, Summands, SummandsAfter
  <2>3. Occurrences(l) \in Nat /\ Occurrences(l) >= Times(batch, l) + In(failed, l)
    BY OccurrencesSum, Summands
  <2>4. Times(batch, l) \in Nat /\ rows[l] \in Nat /\ In(failed, l) \in 0 .. 1
    BY Summands
  <2> QED
    BY <1>5, <2>1, <2>2, <2>3, <2>4 DEF Keeps
<1> QED
  BY <1>4, <1>5

LEMMA FinalFlushDoubles ==
  ASSUME Types, Types', NEW l \in Lines, FinalFlush, Occurrences(l) = 1
  PROVE  Occurrences(l)' <= 2
<1>1. UNCHANGED <<unread, queue, dropped, skipped, buffer, batch, parser>>
  BY DEF FinalFlush, parsing
<1>2. FlushLogs(buffer) /\ buffer \in Seq(Lines)
  BY DEF FinalFlush, Types
<1>3. CASE Times(buffer, l) = 0
  <2>1. rows'[l] = rows[l] /\ In(failed', l) = In(failed, l)
    BY <1>2, <1>3, FlushSums
  <2> QED
    BY <1>1, <2>1, OccurrencesSum, Summands, SummandsAfter
<1>4. CASE Times(buffer, l) # 0
  <2>1. \/ rows'[l] = rows[l] + 1 /\ In(failed', l) = In(failed, l)
        \/ rows'[l] = rows[l] /\ In(failed', l) = 1
    BY <1>2, <1>4, FlushSums
  <2> QED
    BY <1>1, <2>1, OccurrencesSum, Summands, SummandsAfter
<1> QED
  BY <1>3, <1>4

\* The other steps move no line.
LEMMA OthersKeep ==
  ASSUME Types, NEW l \in Lines,
         UNCHANGED <<unread, queue, dropped, skipped, failed, buffer, batch, rows, parser>>
  PROVE  Keeps(l)
BY OccurrencesSum, Summands DEF Keeps

LEMMA NextLocated == Types /\ Located /\ [Next]_vars => Located'
<1> SUFFICES ASSUME Types, Located, [Next]_vars, NEW l \in Lines
             PROVE  /\ Early' => Occurrences(l)' = 1
                    /\ ~Early' => Occurrences(l)' <= 2
  BY DEF Located
<1>1. Types'
  BY NextTypes
<1>2. Occurrences(l) \in Nat /\ Occurrences(l)' \in Nat
  BY <1>1, OccurrencesSum, Summands, SummandsAfter
<1>3. Occurrences(l) <= 2 /\ (Early => Occurrences(l) = 1)
  BY DEF Located
<1>4. ASSUME Keeps(l), Early' => Early
      PROVE  /\ Early' => Occurrences(l)' = 1
             /\ ~Early' => Occurrences(l)' <= 2
  BY <1>2, <1>3, <1>4 DEF Keeps
<1>5. CASE FinalFlush
  <2>1. Early /\ ~Early'
    BY <1>5 DEF FinalFlush, Early
  <2> QED
    BY <1>1, <1>3, <1>5, <2>1, FinalFlushDoubles
<1>6. CASE Cancel \/ FinalLock \/ Close
  <2>1. Early' => Early
    BY <1>6 DEF Cancel, FinalLock, Close, Early
  <2>2. Keeps(l)
    BY <1>6, OthersKeep DEF Cancel, FinalLock, Close, parsing, storing
  <2> QED
    BY <1>4, <2>1, <2>2
<1>7. CASE UNCHANGED vars
  <2>1. Keeps(l)
    BY <1>7, OthersKeep DEF vars, parsing, storing
  <2> QED
    BY <1>4, <1>7, <2>1 DEF vars, Early
<1>8. CASE RefreshRead \/ RefreshTotal \/ RefreshBlocked \/ \E s \in recent : Expire(s)
  <2>1. Keeps(l) /\ phase' = phase
    BY <1>8, OthersKeep DEF RefreshRead, RefreshTotal, RefreshBlocked, Expire, parsing, storing
  <2> QED
    BY <1>4, <2>1 DEF Early
<1>9. CASE FlushTick \/ FlushBatch
  <2>1. Keeps(l) /\ phase' = phase
    BY <1>1, <1>9, TickKeeps, BatchKeeps DEF FlushTick, FlushBatch
  <2> QED
    BY <1>4, <2>1 DEF Early
<1>10. ASSUME NEW k \in Lines, Read(k)
       PROVE  /\ Early' => Occurrences(l)' = 1
              /\ ~Early' => Occurrences(l)' <= 2
  <2>1. Keeps(l) /\ phase' = phase
    BY <1>1, <1>10, ReadKeeps DEF Read
  <2> QED
    BY <1>4, <2>1 DEF Early
<1>11. ASSUME NEW p \in Parsers, ParserStep(p)
       PROVE  /\ Early' => Occurrences(l)' = 1
              /\ ~Early' => Occurrences(l)' <= 2
  <2>1. Keeps(l)
    BY <1>1, <1>11, TakeKeeps, DedupeKeeps, CountKeeps, BufferKeeps DEF ParserStep
  <2>2. phase' = phase
    BY <1>11 DEF ParserStep, Take, Dedupe, CountTotal, CountBlocked, CountTypes, Buffer
  <2> QED
    BY <1>4, <2>1, <2>2 DEF Early
<1> QED
  BY <1>5, <1>6, <1>7, <1>8, <1>9, <1>10, <1>11 DEF Next

\* Whatever the order of appends, swaps of the buffer and flushes, a line is in one
\* place until the process stops: never lost without a trace, never stored twice.
THEOREM InOnePlace == Spec => []NoneLostOrDoubled
<1>1. Located => NoneLostOrDoubled
  BY DEF Located, Early, NoneLostOrDoubled
<1>2. Init => Types /\ Located
  BY InitTypes, InitLocated
<1>3. Types /\ Located /\ [Next]_vars => (Types /\ Located)'
  BY NextTypes, NextLocated
<1> QED
  BY <1>1, <1>2, <1>3, PTL DEF Spec

\* Types, with at most two rows for a line: the second is the one the flusher adds
\* after the final flush left the buffer as it was.
THEOREM TypeCorrect == Spec => []TypeOK
<1>1. ASSUME Types, Located PROVE TypeOK
  <2>1. \A p \in Parsers : \/ parser[p] = Idle
                           \/ parser[p].pc \in Steps /\ parser[p].line \in Lines
    BY <1>1 DEF Types, Work
  <2>2. ASSUME NEW l \in Lines PROVE rows[l] \in 0 .. 2
    <3>1. Occurrences(l) <= 2 /\ rows[l] \in Nat
      BY <1>1 DEF Located, Types
    <3> QED
      BY <1>1, <3>1, OccurrencesSum, Summands
  <2> QED
    BY <1>1, <2>1, <2>2 DEF Types, TypeOK
<1>2. Init => Types /\ Located
  BY InitTypes, InitLocated
<1>3. Types /\ Located /\ [Next]_vars => (Types /\ Located)'
  BY NextTypes, NextLocated
<1> QED
  BY <1>1, <1>2, <1>3, PTL DEF Spec

-----------------------------------------------------------------------------
(* The counters                                                            *)

Pending == {p \in Parsers : parser[p].pc = "blocked"}

\* Each parser between its two counters may still add a blocked query; what a
\* refresh has read is consistent, and total only grows until it is done.
Drift ==
  /\ refresh.pc = "idle" => blocked + Cardinality(Pending) <= total + Cardinality(Parsers)
  /\ refresh.pc = "total" => refresh.blocked <= refresh.total
  /\ refresh.pc = "blocked" => refresh.blocked <= total

LEMMA PendingType ==
  /\ IsFiniteSet(Pending) /\ Cardinality(Pending) \in Nat
  /\ Cardinality(Pending) <= Cardinality(Parsers) /\ Cardinality(Parsers) \in Nat
BY QueryLogAssumption, FS_Subset, FS_CardinalityType DEF Pending

LEMMA PendingTypeAfter ==
  /\ IsFiniteSet(Pending') /\ Cardinality(Pending') \in Nat
  /\ Cardinality(Pending') <= Cardinality(Parsers)
BY QueryLogAssumption, FS_Subset, FS_CardinalityType DEF Pending

\* The steps that count nothing.
LEMMA NotCounting ==
  ASSUME Types, Drift, UNCHANGED counting, Pending' \subseteq Pending
  PROVE  Drift'
<1>1. Cardinality(Pending') <= Cardinality(Pending)
  BY PendingType, FS_Subset
<1> QED
  BY <1>1, PendingType, PendingTypeAfter DEF Drift, counting, Types

LEMMA NextDrift == Types /\ Drift /\ [Next]_vars => Drift'
<1> SUFFICES ASSUME Types, Drift, [Next]_vars PROVE Drift'
  OBVIOUS
<1>0. Types'
  BY NextTypes
<1>1. ASSUME NEW p \in Parsers, CountTotal(p) PROVE Drift'
  <2>1. total' = total + 1 /\ UNCHANGED <<blocked, refresh>>
    BY <1>1 DEF CountTotal
  <2>2. Pending' \subseteq Pending \cup {p}
    BY <1>1 DEF CountTotal, MovesTo, Pending, Types
  <2>3. Cardinality(Pending \cup {p}) <= Cardinality(Pending) + 1 /\ IsFiniteSet(Pending \cup {p})
    <3>1. /\ IsFiniteSet(Pending \cup {p})
          /\ Cardinality(Pending \cup {p})
               = IF p \in Pending THEN Cardinality(Pending) ELSE Cardinality(Pending) + 1
      BY PendingType, FS_AddElement, Zenon
    <3> QED
      BY <3>1, PendingType
  <2>4. Cardinality(Pending') <= Cardinality(Pending \cup {p})
    BY <2>2, <2>3, FS_Subset
  <2>5. Cardinality(Pending \cup {p}) \in Nat
    BY <2>3, FS_CardinalityType
  <2> QED
    BY <2>1, <2>3, <2>4, <2>5, PendingType, PendingTypeAfter DEF Drift, Types
<1>2. ASSUME NEW p \in Parsers, CountBlocked(p) PROVE Drift'
  <2>1. blocked' = blocked + 1 /\ UNCHANGED <<total, refresh>>
    BY <1>2 DEF CountBlocked
  <2>2. p \in Pending
    BY <1>2 DEF CountBlocked, At, Pending
  <2>3. parser'[p].pc = "types" /\ \A q \in Parsers \ {p} : parser'[q] = parser[q]
    BY <1>2, MoveType DEF CountBlocked, At, Steps
  <2>4. Pending' = Pending \ {p}
    BY <2>3 DEF Pending
  <2>5. Cardinality(Pending') = Cardinality(Pending) - 1
    BY <2>2, <2>4, PendingType, FS_RemoveElement
  <2> QED
    BY <2>1, <2>5, PendingType DEF Drift, Types
<1>3. ASSUME NEW p \in Parsers, Take(p) \/ Dedupe(p) \/ CountTypes(p) \/ Buffer(p) PROVE Drift'
  <2>1. UNCHANGED counting
    BY <1>3 DEF Take, Dedupe, CountTypes, Buffer
  <2>2. PICK w : w.pc # "blocked" /\ parser' = [parser EXCEPT ![p] = w]
    <3>1. CASE Take(p)
      BY <3>1 DEF Take
    <3>2. CASE parser' = [parser EXCEPT ![p] = Idle]
      BY <3>2 DEF Idle
    <3>3. ASSUME parser[p].pc \in Steps, NEW pc \in {"total", "append"}, MovesTo(p, pc)
          PROVE  \E w : w.pc # "blocked" /\ parser' = [parser EXCEPT ![p] = w]
      <4>1. parser' = [parser EXCEPT ![p] = [parser[p] EXCEPT !.pc = pc]]
        BY <3>3 DEF MovesTo, Types
      <4>2. [parser[p] EXCEPT !.pc = pc].pc = pc
        BY <3>3, WorkType DEF Work
      <4> QED
        BY <4>1, <4>2
    <3> QED
      BY <1>3, <3>1, <3>2, <3>3 DEF Dedupe, CountTypes, Buffer, At, Steps
  <2>3. Pending' \subseteq Pending
    BY <2>2 DEF Pending, Types
  <2> QED
    BY <2>1, <2>3, NotCounting
<1>4. CASE RefreshRead
  <2>1. Stored(Blocked) \subseteq Stored(Lines) /\ IsFiniteSet(Stored(Lines))
    BY QueryLogAssumption, FS_Subset DEF Stored
  <2>2. Cardinality(Stored(Blocked)) <= Cardinality(Stored(Lines))
    BY <2>1, FS_Subset
  <2> QED
    BY <1>4, <2>2 DEF RefreshRead, Drift
<1>5. CASE RefreshTotal
  BY <1>5 DEF RefreshTotal, Drift, Types
<1>6. CASE RefreshBlocked
  <2>1. /\ blocked' = refresh.blocked /\ total' = total /\ refresh' = RefreshIdle
        /\ refresh.blocked <= total
    BY <1>6 DEF RefreshBlocked, CountedBlocked, Drift
  <2> QED
    BY <2>1, PendingTypeAfter, PendingType DEF Drift, RefreshIdle, Types
<1>7. CASE \/ FlushTick \/ FlushBatch \/ FinalFlush \/ Cancel \/ FinalLock \/ Close
           \/ UNCHANGED vars \/ (\E l \in Lines : Read(l)) \/ (\E s \in recent : Expire(s))
  <2>1. UNCHANGED <<counting, parser>>
    BY <1>7 DEF FlushTick, FlushBatch, FinalFlush, Cancel, FinalLock, Close, vars, Read, Expire,
      parsing
  <2> QED
    BY <2>1, NotCounting DEF Pending
<1> QED
  BY <1>1, <1>2, <1>3, <1>4, <1>5, <1>6, <1>7 DEF Next, ParserStep

\* While no refresh is under way the blocked queries shown exceed the total by no
\* more than one for each parser (refreshStats against the parsers).
THEOREM CountersStayClose == Spec => []CountersDrift
<1>1. Init => Drift
  <2> SUFFICES ASSUME Init PROVE Drift
    OBVIOUS
  <2> QED
    BY PendingType DEF Init, RefreshIdle, Drift
<1>2. Types /\ Drift => CountersDrift
  BY PendingType DEF Types, Drift, CountersDrift, StatsFree
<1> QED
  BY <1>1, <1>2, InitTypes, NextTypes, NextDrift, PTL DEF Spec

-----------------------------------------------------------------------------
(* Repetitions                                                             *)

\* A signature is remembered because of a query that is recorded or one of the
\* watchdog's.
Remembered ==
  \A s \in recent : \/ \E m \in Recorded : Signature(m) = s
                    \/ \E h \in Health : Name[h] = s[1]

\* The lines a parser has let through.
Passed(pa) == {pa[p].line : p \in {q \in Parsers : pa[q].pc \in Steps \ {"dedupe"}}}

LEMMA RecordedIs ==
  /\ Recorded = Passed(parser) \cup ToSet(buffer) \cup ToSet(batch) \cup Stored(Lines) \cup failed
  /\ Recorded' = Passed(parser') \cup ToSet(buffer') \cup ToSet(batch')
                   \cup {l \in Lines : rows'[l] > 0} \cup failed'
BY DEF Recorded, Passed, Stored

\* What is recorded stays so, whatever moves it on.
LEMMA RecordedStays ==
  ASSUME Types, [Next]_vars
  PROVE  Recorded \subseteq Recorded'
<1>1. ASSUME UNCHANGED <<buffer, batch, rows, failed>>, Passed(parser) \subseteq Passed(parser')
      PROVE  Recorded \subseteq Recorded'
  BY <1>1, RecordedIs DEF Stored
<1>2. ASSUME NEW p \in Parsers, Take(p) PROVE Recorded \subseteq Recorded'
  <2>1. parser[p] = Idle /\ \A q \in Parsers \ {p} : parser'[q] = parser[q]
    BY <1>2 DEF Take, Types
  <2>2. Passed(parser) \subseteq Passed(parser')
    BY <2>1 DEF Passed, Idle, Steps
  <2> QED
    BY <1>1, <1>2, <2>2 DEF Take, storing
<1>3. ASSUME NEW p \in Parsers, Dedupe(p) PROVE Recorded \subseteq Recorded'
  <2>1. parser[p].pc = "dedupe" /\ \A q \in Parsers \ {p} : parser'[q] = parser[q]
    BY <1>3 DEF Dedupe, At, MovesTo, Types
  <2>2. Passed(parser) \subseteq Passed(parser')
    BY <2>1 DEF Passed
  <2> QED
    BY <1>1, <1>3, <2>2 DEF Dedupe, storing
<1>4. ASSUME NEW p \in Parsers, CountTotal(p) \/ CountBlocked(p) \/ CountTypes(p)
      PROVE  Recorded \subseteq Recorded'
  <2>1. PICK pc \in {"types", "blocked", "append"} : MovesTo(p, pc)
    BY <1>4 DEF CountTotal, CountBlocked, CountTypes
  <2>2. parser[p].pc \in Steps /\ pc \in Steps \ {"dedupe"}
    BY <1>4 DEF CountTotal, CountBlocked, CountTypes, At, Steps
  <2>3. parser'[p].pc = pc /\ parser'[p].line = parser[p].line
        /\ \A q \in Parsers \ {p} : parser'[q] = parser[q]
    BY <2>1, <2>2, MoveType
  <2>4. Passed(parser) \subseteq Passed(parser')
    BY <2>2, <2>3 DEF Passed
  <2> QED
    BY <1>1, <1>4, <2>4 DEF CountTotal, CountBlocked, CountTypes, storing
<1>5. ASSUME NEW p \in Parsers, Buffer(p) PROVE Recorded \subseteq Recorded'
  <2>1. /\ parser[p].line \in Lines /\ buffer' = Append(buffer, parser[p].line)
        /\ UNCHANGED <<batch, rows, failed>>
        /\ \A q \in Parsers \ {p} : parser'[q] = parser[q]
    BY <1>5, WorkType DEF Buffer, At, Steps, Types
  <2>2. ToSet(buffer') = ToSet(buffer) \cup {parser[p].line}
    BY <2>1, ToSetAppend DEF Types
  <2>3. Passed(parser) \subseteq Passed(parser') \cup {parser[p].line}
    BY <2>1 DEF Passed
  <2>4. Stored(Lines) = {l \in Lines : rows'[l] > 0}
    BY <2>1 DEF Stored
  <2> QED
    BY <2>1, <2>2, <2>3, <2>4, RecordedIs, Zenon
<1>6. CASE FlushTick
  BY <1>6, RecordedIs DEF FlushTick, FlusherIdle, ToSet, Stored, parsing
<1>7. ASSUME NEW qs \in Seq(Lines), FlushLogs(qs)
      PROVE  ToSet(qs) \cup Stored(Lines) \cup failed
               \subseteq {l \in Lines : rows'[l] > 0} \cup failed'
  <2>1. ToSet(qs) \subseteq Lines /\ \A l \in Lines : rows[l] \in Nat
    BY DEF ToSet, Types
  <2> QED
    BY <1>7, <2>1, FlushTypes DEF Stored
<1>8. CASE FlushBatch
  <2>1. FlushLogs(batch) /\ batch \in Seq(Lines) /\ UNCHANGED <<parser, buffer>>
    BY <1>8 DEF FlushBatch, Types, parsing
  <2> QED
    BY <1>7, <2>1, RecordedIs
<1>9. CASE FinalFlush
  <2>1. FlushLogs(buffer) /\ buffer \in Seq(Lines) /\ UNCHANGED <<parser, buffer, batch>>
    BY <1>9 DEF FinalFlush, Types, parsing
  <2> QED
    BY <1>7, <2>1, RecordedIs
<1>10. CASE \/ RefreshRead \/ RefreshTotal \/ RefreshBlocked \/ Cancel \/ FinalLock \/ Close
            \/ UNCHANGED vars \/ (\E l \in Lines : Read(l)) \/ (\E s \in recent : Expire(s))
  <2>1. UNCHANGED <<parser, buffer, batch, rows, failed>>
    BY <1>10 DEF RefreshRead, RefreshTotal, RefreshBlocked, Cancel, FinalLock, Close, vars, Read,
      Expire, parsing, storing
  <2> QED
    BY <2>1, RecordedIs DEF Stored
<1> QED
  BY <1>2, <1>3, <1>4, <1>5, <1>6, <1>8, <1>9, <1>10 DEF Next, ParserStep

LEMMA SignatureIs ==
  \A l, m : Signature(l) = Signature(m) <=> Name[l] = Name[m] /\ Type[l] = Type[m]
BY DEF Signature

LEMMA NextRepetitions ==
  Types /\ Remembered /\ SkippedIsShown /\ [Next]_vars => (Remembered /\ SkippedIsShown)'
<1> SUFFICES ASSUME Types, Remembered, SkippedIsShown, [Next]_vars
             PROVE  Remembered' /\ SkippedIsShown'
  OBVIOUS
<1>1. Recorded \subseteq Recorded'
  BY RecordedStays
<1>2. ASSUME recent' \subseteq recent, UNCHANGED skipped PROVE Remembered' /\ SkippedIsShown'
  BY <1>1, <1>2 DEF Remembered, SkippedIsShown
<1>3. ASSUME NEW p \in Parsers, Dedupe(p) PROVE Remembered' /\ SkippedIsShown'
  <2> DEFINE l == parser[p].line
  <2>1. l \in Lines
    BY <1>3, WorkType DEF Dedupe, At, Steps
  <2>2. CASE Repeats(l)
    <3>1. recent' = recent /\ skipped' = skipped \cup {l}
      BY <1>3, <2>2 DEF Dedupe
    <3>2. ASSUME l \notin Health
          PROVE  \E m \in Recorded : Signature(m) = Signature(l)
      <4>1. l \in Local /\ Signature(l) \in recent
        BY <2>2 DEF Repeats
      <4>2. ASSUME NEW h \in Health PROVE Name[h] # Signature(l)[1]
        BY <2>1, <3>2, <4>1, QueryLogAssumption DEF Signature
      <4> QED
        BY <4>1, <4>2 DEF Remembered
    <3>3. Remembered'
      BY <1>1, <3>1 DEF Remembered
    <3>4. SkippedIsShown'
      BY <1>1, <3>1, <3>2, SignatureIs DEF SkippedIsShown
    <3> QED
      BY <3>3, <3>4
  <2>3. CASE ~Repeats(l)
    <3>1. recent' = recent \cup {Signature(l)}
      BY <1>3, <2>3 DEF Dedupe
    <3>2. CASE l \in Health
      <4>1. skipped' = skipped \cup {l}
        BY <1>3, <3>2 DEF Dedupe
      <4>2. Name[l] = Signature(l)[1]
        BY DEF Signature
      <4>3. Remembered'
        BY <1>1, <3>1, <3>2, <4>2 DEF Remembered
      <4>4. SkippedIsShown'
        BY <1>1, <3>2, <4>1 DEF SkippedIsShown
      <4> QED
        BY <4>3, <4>4
    <3>3. CASE l \notin Health
      <4>1. skipped' = skipped /\ MovesTo(p, "total")
        BY <1>3, <2>3, <3>3 DEF Dedupe
      <4>2. parser'[p].pc = "total" /\ parser'[p].line = l
        BY <1>3, <4>1, MoveType DEF Dedupe, At, Steps
      <4>3. l \in Recorded'
        BY <4>2, RecordedIs DEF Passed, Steps
      <4>4. Remembered'
        BY <1>1, <3>1, <4>3 DEF Remembered
      <4>5. SkippedIsShown'
        BY <1>1, <4>1 DEF SkippedIsShown
      <4> QED
        BY <4>4, <4>5
    <3> QED
      BY <3>2, <3>3
  <2> QED
    BY <2>2, <2>3
<1>4. CASE \E s \in recent : Expire(s)
  BY <1>2, <1>4 DEF Expire
<1>5. CASE \/ RefreshRead \/ RefreshTotal \/ RefreshBlocked \/ Cancel \/ FinalLock \/ Close
           \/ UNCHANGED vars \/ (\E l \in Lines : Read(l))
           \/ FlushTick \/ FlushBatch \/ FinalFlush
           \/ (\E p \in Parsers : Take(p) \/ CountTotal(p) \/ CountBlocked(p) \/ CountTypes(p)
                                    \/ Buffer(p))
  <2>1. UNCHANGED <<recent, skipped>>
    BY <1>5 DEF RefreshRead, RefreshTotal, RefreshBlocked, Cancel, FinalLock, Close, vars, Read,
      FlushTick, FlushBatch, FinalFlush, Take, CountTotal, CountBlocked, CountTypes, Buffer, parsing
  <2> QED
    BY <1>2, <2>1
<1> QED
  BY <1>3, <1>4, <1>5 DEF Next, ParserStep

\* A query is left out as a repetition only if one with its name and type is in the
\* log or on its way there, although the parsers race (dns_parser.go:117-136).
THEOREM RepetitionsShow == Spec => []SkippedIsShown
<1>1. Init => Remembered /\ SkippedIsShown
  BY DEF Init, Remembered, SkippedIsShown
<1> QED
  BY <1>1, InitTypes, NextTypes, NextRepetitions, PTL DEF Spec

-----------------------------------------------------------------------------
(* The query database and its sharing with a primary (module LogSharing)    *)

Nodes == Names \cup {NoName, OtherName}

\* What a content becomes when rows of a node are inserted or some are deleted.
Becomes(c, d, node) ==
  /\ d.seq >= c.seq
  /\ \A r \in d.rows \ c.rows : r.id > c.seq /\ r.id <= d.seq /\ r.node = node

LEMMA InsertIs ==
  ASSUME NEW c \in Content, NEW qs \in SUBSET (1 .. Queries), NEW node \in Nodes
  PROVE  Insert(c, qs, node) \in Content /\ Becomes(c, Insert(c, qs, node), node)
<1> DEFINE d == Insert(c, qs, node)
           upto(q) == {p \in qs : p <= q}
<1>1. Queries \in Nat /\ IsFiniteSet(qs) /\ Cardinality(qs) \in Nat
  <2>1. Queries \in Nat
    BY LogStoreAssumption
  <2>2. IsFiniteSet(1 .. Queries)
    BY <2>1, FS_Interval
  <2> QED
    BY <2>1, <2>2, FS_Subset, FS_CardinalityType
<1>2. ASSUME NEW q \in qs
      PROVE  Cardinality(upto(q)) \in Nat \ {0} /\ Cardinality(upto(q)) <= Cardinality(qs)
  <2>1. upto(q) \subseteq qs /\ q \in upto(q)
    BY <1>1
  <2> HIDE DEF upto
  <2>2. IsFiniteSet(upto(q)) /\ Cardinality(upto(q)) <= Cardinality(qs)
    BY <1>1, <2>1, FS_Subset
  <2>3. Cardinality(upto(q)) \in Nat /\ Cardinality(upto(q)) # 0
    BY <2>1, <2>2, FS_CardinalityType, FS_EmptySet
  <2> QED
    BY <2>2, <2>3
<1>3. c.seq \in Nat /\ c.rows \subseteq Row
  BY DEF Content
<1>4. /\ d.seq = c.seq + Cardinality(qs)
      /\ d.rows = c.rows \cup {[id |-> c.seq + Cardinality(upto(q)), query |-> q, node |-> node]
                                : q \in qs}
      /\ d = [rows |-> d.rows, seq |-> d.seq]
  <2> DEFINE every == c.rows \cup {[id |-> c.seq + Cardinality(upto(q)), query |-> q,
                                   node |-> node] : q \in qs}
             seq == c.seq + Cardinality(qs)
  <2>1. d = [rows |-> every, seq |-> seq]
    BY DEF Insert
  <2> HIDE DEF d, every, seq
  <2>2. d.rows = every /\ d.seq = seq
    BY <2>1
  <2> QED
    BY <2>1, <2>2, Zenon DEF every, seq
<1> HIDE DEF d, upto
<1>5. ASSUME NEW r \in d.rows \ c.rows
      PROVE  r \in Row /\ r.id > c.seq /\ r.id <= d.seq /\ r.node = node
  <2>1. PICK q \in qs :
          r = [id |-> c.seq + Cardinality(upto(q)), query |-> q, node |-> node]
    BY <1>4
  <2>2. c.seq + Cardinality(upto(q)) \in Nat \ {0}
    BY <1>2, <1>3
  <2> QED
    BY <1>1, <1>2, <1>3, <1>4, <2>1, <2>2 DEF Row, Nodes
<1>6. d \in Content
  BY <1>1, <1>3, <1>4, <1>5 DEF Content
<1> QED
  BY <1>1, <1>3, <1>4, <1>5, <1>6 DEF Becomes, d

\* Restores that have yet to replace the file: each is an incident.
Waiting(re) == {r \in Restorers : re[r].pc \in {"applied", "closed"}}

StoreTypes ==
  /\ StoreTypeOK
  /\ IsFiniteSet(Waiting(restore))
  /\ path + Cardinality(Waiting(restore)) <= incidents + 1

PushTypes ==
  /\ position \in Nat
  /\ push \in [Pushers -> [pc : {"idle", "select", "sent", "ok"}, as : Names \cup {NoName},
                           min : Nat, rows : SUBSET Row, max : Nat]]
  /\ reached \subseteq 1 .. Queries
  /\ acked \subseteq Row

Flags == {sharing, trusted, disturbed} \subseteq BOOLEAN

LogTypes == StoreTypes /\ PushTypes

LEMMA LogTypesFlags == LogTypes /\ Flags => SharingTypeOK
BY DEF LogTypes, StoreTypes, PushTypes, Flags, SharingTypeOK

\* Any constants, states and records of the right kind.
LEMMA LogConstants ==
         /\ Queries \in Nat /\ MaxIncidents \in Nat /\ Limit \in Nat \ {0}
         /\ OtherName \notin Names /\ NoName # OtherName
         /\ NoHandle = 0 /\ Files = 1 .. MaxIncidents + 1
         /\ FlushIdle = [pc |-> "idle", batch |-> {}, on |-> 0, name |-> NoName]
         /\ RestoreIdle = [pc |-> "idle", from |-> {}]
         /\ PushIdle = [pc |-> "idle", as |-> NoName, min |-> 0, rows |-> {}, max |-> 0]
         /\ Empty = [rows |-> {}, seq |-> 0] /\ Empty \in Content
BY LogStoreAssumption, LogSharingAssumption DEF NoHandle, Files,
       FlushIdle, RestoreIdle, PushIdle, Empty, Content

\* The statements that write to a file: rows of one node are inserted or some deleted.
LEMMA CommitIs ==
  ASSUME StoreTypes, FlushCommit
  PROVE  /\ disk' \in [Files -> Content]
         /\ \A f \in Files : disk'[f] = disk[f]
                                \/ (f = flush.on /\ Becomes(disk[f], disk'[f], flush.name))
<1> USE LogConstants DEF StoreTypes, StoreTypeOK
<1>1. CASE UNCHANGED disk
  BY <1>1
<1>2. CASE flush.on \notin Files
           /\ disk' = [disk EXCEPT ![flush.on] = Insert(@, flush.batch, flush.name)]
  BY <1>2
<1>3. CASE flush.on \in Files
           /\ disk' = [disk EXCEPT ![flush.on] = Insert(@, flush.batch, flush.name)]
  <2> DEFINE d == Insert(disk[flush.on], flush.batch, flush.name)
  <2>1. /\ disk[flush.on] \in Content /\ flush.batch \in SUBSET (1 .. Queries)
        /\ flush.name \in Nodes
    BY <1>3 DEF Nodes
  <2>2. d \in Content /\ Becomes(disk[flush.on], d, flush.name)
    BY <2>1, InsertIs
  <2>3. disk' = [disk EXCEPT ![flush.on] = d]
    BY <1>3
  <2> HIDE DEF d
  <2> QED
    BY <1>3, <2>2, <2>3
<1> QED
  BY <1>1, <1>2, <1>3 DEF FlushCommit

LEMMA ForeignIs ==
  ASSUME StoreTypes, ReceiveForeign
  PROVE  /\ disk' \in [Files -> Content]
         /\ handle \in Files /\ asked' \in 0 .. Queries
         /\ \A f \in Files : disk'[f] = disk[f]
                                \/ (f = handle /\ Becomes(disk[f], disk'[f], OtherName))
<1> USE LogConstants DEF StoreTypes, StoreTypeOK
<1> DEFINE d == Insert(disk[handle], {asked + 1}, OtherName)
<1>1. handle \in Files /\ disk[handle] \in Content /\ asked' \in 0 .. Queries
  BY DEF ReceiveForeign, Connects, IsOpen
<1>2. {asked + 1} \in SUBSET (1 .. Queries) /\ OtherName \in Nodes
  BY DEF ReceiveForeign, Nodes
<1>3. d \in Content /\ Becomes(disk[handle], d, OtherName)
  BY <1>1, <1>2, InsertIs
<1>4. disk' = [disk EXCEPT ![handle] = d]
  BY DEF ReceiveForeign
<1> HIDE DEF d
<1> QED
  BY <1>1, <1>3, <1>4

\* Deleting is like inserting nothing, for any node.
LEMMA DeleteIs ==
  ASSUME StoreTypes, Purge \/ ClearQueryLogs
  PROVE  /\ disk' \in [Files -> Content]
         /\ \A f \in Files, n \in Nodes : Becomes(disk[f], disk'[f], n)
         /\ incidents < MaxIncidents /\ incidents' = incidents + 1
         /\ UNCHANGED <<path, handle, backups, name, asked, flush, restore>>
<1> USE LogConstants DEF StoreTypes, StoreTypeOK
<1>1. PICK old : Delete(old)
  BY DEF Purge, ClearQueryLogs
<1>2. handle \in Files /\ disk[handle] \in Content
  BY <1>1 DEF Delete, Connects, IsOpen
<1> DEFINE d == [disk[handle] EXCEPT !.rows = @ \ old]
<1>3. disk' = [disk EXCEPT ![handle] = d]
  BY <1>1 DEF Delete
<1>4. d \in Content /\ d.seq = disk[handle].seq /\ d.rows \subseteq disk[handle].rows
  BY <1>2 DEF Content
<1> HIDE DEF d
<1>5. disk' \in [Files -> Content]
  BY <1>2, <1>3, <1>4
<1>6. ASSUME NEW f \in Files
      PROVE  /\ disk[f].seq \in Nat /\ disk'[f].seq = disk[f].seq
             /\ disk'[f].rows \subseteq disk[f].rows
  BY <1>2, <1>3, <1>4 DEF Content
<1> QED
  BY <1>1, <1>5, <1>6 DEF Becomes, Delete, Incident

Flushes == [pc : {"idle", "begin", "insert"}, batch : SUBSET (1 .. Queries),
            on : Files \cup {NoHandle}, name : Names \cup {NoName}]

\* A restore goes on.
RestoreGoes(r, pc, from) ==
  restore' = [s \in Restorers |-> IF s = r THEN [pc |-> pc, from |-> from] ELSE restore[s]]

Restores == [Restorers -> [pc : {"idle", "applied", "closed", "replaced"},
                           from : SUBSET Content]]

LEMMA RestoreTypes ==
  ASSUME restore \in Restores, NEW r \in Restorers, NEW pc \in {"idle", "applied", "closed", "replaced"},
         NEW from \in SUBSET Content, RestoreGoes(r, pc, from)
  PROVE  restore' \in Restores
BY DEF RestoreGoes, Restores

LEMMA RestoreMoves ==
  ASSUME restore \in Restores, NEW r \in Restorers, NEW pc,
         restore' = [restore EXCEPT ![r].pc = pc]
  PROVE  RestoreGoes(r, pc, restore[r].from)
<1>1. restore[r] = [pc |-> restore[r].pc, from |-> restore[r].from]
  BY DEF Restores
<1>2. [restore[r] EXCEPT !.pc = pc] = [pc |-> pc, from |-> restore[r].from]
  BY <1>1
<1> QED
  BY <1>2 DEF Restores, RestoreGoes

\* Of the restores that wait it is one more, one less or the same.
LEMMA WaitingStep ==
  ASSUME StoreTypes, NEW r \in Restorers, NEW pc, NEW from, RestoreGoes(r, pc, from)
  PROVE  /\ IsFiniteSet(Waiting(restore')) /\ Cardinality(Waiting(restore')) \in Nat
         /\ Cardinality(Waiting(restore')) <= Cardinality(Waiting(restore)) + 1
         /\ pc \in {"applied", "closed"} /\ r \in Waiting(restore)
              => Waiting(restore') = Waiting(restore)
         /\ pc \notin {"applied", "closed"} /\ r \in Waiting(restore)
              => Cardinality(Waiting(restore')) = Cardinality(Waiting(restore)) - 1
         /\ pc \notin {"applied", "closed"} /\ r \notin Waiting(restore)
              => Waiting(restore') = Waiting(restore)
<1> DEFINE W == Waiting(restore)
<1>1. IsFiniteSet(W) /\ Cardinality(W) \in Nat
  BY FS_CardinalityType DEF StoreTypes
<1>2. Waiting(restore') = IF pc \in {"applied", "closed"} THEN W \cup {r} ELSE W \ {r}
  BY DEF Waiting, RestoreGoes
<1>3. /\ IsFiniteSet(W \cup {r}) /\ IsFiniteSet(W \ {r})
      /\ Cardinality(W \cup {r}) = IF r \in W THEN Cardinality(W) ELSE Cardinality(W) + 1
      /\ Cardinality(W \ {r}) = IF r \in W THEN Cardinality(W) - 1 ELSE Cardinality(W)
  BY <1>1, FS_AddElement, FS_RemoveElement
<1>4. /\ r \in W => W \cup {r} = W
      /\ r \notin W => W \ {r} = W
  OBVIOUS
<1> HIDE DEF W
<1>5. IsFiniteSet(Waiting(restore')) /\ Cardinality(Waiting(restore')) \in Nat
  BY <1>2, <1>3, FS_CardinalityType
<1>6. Cardinality(Waiting(restore')) <= Cardinality(W) + 1
  BY <1>1, <1>2, <1>3
<1> QED
  BY <1>1, <1>2, <1>3, <1>4, <1>5, <1>6 DEF W

LEMMA StoreStepTypes ==
  ASSUME StoreTypes, StoreStep PROVE StoreTypes'
<1> USE LogConstants DEF StoreTypes, StoreTypeOK
<1>0. Cardinality(Waiting(restore)) \in Nat
  BY FS_CardinalityType
<1>1. CASE FlushCheck
  <2>1. PICK n \in asked + 1 .. Queries :
          /\ asked' = n
          /\ flush' = IF IsOpen
                      THEN [FlushIdle EXCEPT !.pc = "begin", !.batch = asked + 1 .. n]
                      ELSE FlushIdle
    BY <1>1 DEF FlushCheck
  <2>2. asked' \in 0 .. Queries /\ asked + 1 .. n \in SUBSET (1 .. Queries)
    BY <2>1
  <2>3. flush' \in Flushes
    <3> DEFINE taken == asked + 1 .. n
    <3>1. \/ flush' = FlushIdle
          \/ flush' = [FlushIdle EXCEPT !.pc = "begin", !.batch = taken]
      BY <2>1
    <3>2. taken \in SUBSET (1 .. Queries) /\ FlushIdle \in Flushes
      BY <2>2 DEF Flushes, FlushIdle
    <3> HIDE DEF taken
    <3> QED
      BY ONLY <3>1, <3>2 DEF Flushes
  <2> QED
    BY <1>1, <2>2, <2>3 DEF Flushes, FlushCheck, fileVars
<1>2. CASE FlushBegin
  <2>1. flush' \in Flushes
    <3>1. \/ flush' = FlushIdle
          \/ /\ flush' = [flush EXCEPT !.pc = "insert", !.on = handle, !.name = name]
             /\ handle # NoHandle
      BY <1>2 DEF FlushBegin, IsOpen
    <3>2. /\ handle \in Files \cup {NoHandle} /\ name \in Names \cup {NoName}
          /\ flush \in Flushes /\ FlushIdle \in Flushes
      BY DEF Flushes, FlushIdle
    <3> QED
      BY ONLY <3>1, <3>2 DEF Flushes
  <2> QED
    BY <1>2, <2>1 DEF Flushes, FlushBegin, fileVars
<1>3. CASE FlushCommit
  BY <1>3, CommitIs DEF FlushCommit
<1>4. CASE ReceiveForeign
  BY <1>4, ForeignIs DEF ReceiveForeign
<1>5. CASE Purge \/ ClearQueryLogs
  BY <1>0, <1>5, DeleteIs
<1>6. CASE Backup
  BY <1>6 DEF Backup, Snapshot, fileVars, IsOpen
<1>7. ASSUME NEW r \in Restorers, RestoreApply(r) PROVE StoreTypes'
  <2>1. PICK b \in backups : restore' = [restore EXCEPT ![r] = [pc |-> "applied", from |-> {b}]]
    BY <1>7 DEF RestoreApply
  <2>2. RestoreGoes(r, "applied", {b})
    BY <2>1 DEF RestoreGoes
  <2>3. /\ IsFiniteSet(Waiting(restore'))
        /\ Cardinality(Waiting(restore')) \in Nat
        /\ Cardinality(Waiting(restore')) <= Cardinality(Waiting(restore)) + 1
    BY <2>2, WaitingStep
  <2> QED
    BY <1>0, <1>7, <2>2, <2>3, RestoreTypes DEF Restores, RestoreApply, Incident, fileVars
<1>8. ASSUME NEW r \in Restorers, RestoreClose(r) PROVE StoreTypes'
  <2>1. RestoreGoes(r, "closed", restore[r].from) /\ r \in Waiting(restore)
    BY <1>8, RestoreMoves DEF RestoreClose, Waiting, Restores
  <2>2. Waiting(restore') = Waiting(restore)
    BY <2>1, WaitingStep
  <2> QED
    BY <1>8, <2>1, <2>2, RestoreTypes DEF Restores, RestoreClose
<1>9. ASSUME NEW r \in Restorers, RestoreInit(r) PROVE StoreTypes'
  <2>1. RestoreGoes(r, "idle", {}) /\ r \notin Waiting(restore)
    BY <1>9 DEF RestoreInit, Waiting, RestoreGoes
  <2>2. Waiting(restore') = Waiting(restore)
    BY <2>1, WaitingStep
  <2> QED
    BY <1>9, <2>1, <2>2, RestoreTypes DEF Restores, RestoreInit, OpenedHandle
<1> QED
  BY <1>1, <1>2, <1>3, <1>4, <1>5, <1>6, <1>7, <1>8, <1>9 DEF StoreStep

\* A restore that waits has a file of its own to come.
LEMMA WaitingBound ==
  ASSUME StoreTypes, NEW r \in Waiting(restore)
  PROVE  path + 1 \in Files
<1>1. Cardinality(Waiting(restore)) \in Nat /\ Cardinality(Waiting(restore)) # 0
  BY FS_CardinalityType, FS_EmptySet DEF StoreTypes
<1> QED
  BY <1>1, LogConstants DEF StoreTypes, StoreTypeOK

LEMMA ReplacesTypes ==
  ASSUME StoreTypes, NEW r \in Restorers, RestoreReplace(r)
  PROVE  StoreTypes'
<1> USE LogConstants DEF StoreTypes, StoreTypeOK
<1>1. RestoreGoes(r, "replaced", restore[r].from) /\ r \in Waiting(restore)
  BY RestoreMoves DEF RestoreReplace, Waiting, Restores
<1>2. /\ IsFiniteSet(Waiting(restore')) /\ Cardinality(Waiting(restore')) \in Nat
      /\ Cardinality(Waiting(restore)) \in Nat
      /\ Cardinality(Waiting(restore')) = Cardinality(Waiting(restore)) - 1
  BY <1>1, WaitingStep, FS_CardinalityType
<1>3. UNCHANGED <<handle, backups, name, asked, flush, incidents>>
  BY DEF RestoreReplace
<1>4. restore' \in Restores /\ restore[r].from \subseteq Content
  BY <1>1, RestoreTypes DEF Restores
<1>5. CASE UNCHANGED <<disk, path>>
  BY <1>2, <1>3, <1>4, <1>5 DEF Restores
<1>6. ASSUME NEW b \in restore[r].from, path' = path + 1, disk' = [disk EXCEPT ![path + 1] = b]
      PROVE  StoreTypes'
  <2>1. path + 1 \in Files /\ b \in Content /\ path \in Nat
    BY <1>1, <1>2, <1>4, WaitingBound
  <2>2. disk' \in [Files -> Content]
    BY <1>6, <2>1
  <2>3. path' + Cardinality(Waiting(restore')) <= incidents' + 1
    BY <1>2, <1>3, <1>6, <2>1
  <2> QED
    BY <1>2, <1>3, <1>6, <1>4, <2>1, <2>2, <2>3 DEF Restores
<1> QED
  BY <1>5, <1>6 DEF RestoreReplace

LEMMA RestartTypes ==
  ASSUME StoreTypes, Reboot PROVE StoreTypes'
<1> USE LogConstants DEF StoreTypes, StoreTypeOK
<1>1. Cardinality(Waiting(restore)) \in Nat
  BY FS_CardinalityType
<1>2. Waiting(restore') = {} /\ IsFiniteSet({}) /\ Cardinality({}) = 0
  BY FS_EmptySet DEF Reboot, Waiting
<1>3. restore' \in Restores
  BY DEF Reboot, Restores
<1>4. UNCHANGED <<disk, path, backups, name, asked>> /\ handle' = path
      /\ flush' = FlushIdle /\ incidents < MaxIncidents /\ incidents' = incidents + 1
  BY DEF Reboot, Incident
<1> QED
  BY <1>1, <1>2, <1>3, <1>4 DEF Restores

\* The statements and the restores of a node keep the types, and so does the rest.
LEMMA StoreTypesStep ==
  ASSUME StoreTypes, [SharingNext]_logSharingVars PROVE StoreTypes'
<1>1. CASE UNCHANGED logSharingVars
  BY <1>1 DEF logSharingVars, storeVars, fileVars, StoreTypes, StoreTypeOK
<1>2. ASSUME NEW p \in Pushers, Push(p) PROVE StoreTypes'
  <2>1. UNCHANGED storeVars
    BY <1>2 DEF Push, PushStart, PushSelect, Lose, Ingest, Answer
  <2> QED
    BY <2>1 DEF storeVars, fileVars, StoreTypes, StoreTypeOK
<1>3. ASSUME NEW n \in Names \cup {NoName}, Rename(n) PROVE StoreTypes'
  BY <1>3, LogConstants, FS_CardinalityType
  DEF Rename, Incident, fileVars, StoreTypes, StoreTypeOK
<1>4. CASE Reconfigure
  BY <1>4, LogConstants, FS_CardinalityType
  DEF Reconfigure, Incident, fileVars, StoreTypes, StoreTypeOK
<1> QED
  BY <1>1, <1>2, <1>3, <1>4, StoreStepTypes, ReplacesTypes, RestartTypes
  DEF SharingNext, Replaces, Restart

PushRecords == [pc : {"idle", "select", "sent", "ok"}, as : Names \cup {NoName},
                min : Nat, rows : SUBSET Row, max : Nat]

\* What is selected: the lowest rows past the position, with the highest id among them.
Selects(p, part, last) ==
  /\ handle \in Files /\ part \subseteq disk[handle].rows
  /\ \A r \in disk[handle].rows \ part :
       r.id > push[p].min /\ OwnRow(r, push[p].as) => last.id < r.id
  /\ last \in part /\ OwnRow(last, push[p].as)
  /\ \A r \in part : r.id <= last.id /\ OwnRow(r, push[p].as)
  /\ push' = [push EXCEPT ![p].pc = "sent", ![p].rows = part, ![p].max = last.id]

LEMMA SelectIs ==
  ASSUME StoreTypes, NEW p \in Pushers, PushSelect(p)
  PROVE  \/ push' = [push EXCEPT ![p] = PushIdle]
         \/ \E part \in SUBSET disk[handle].rows, last \in disk[handle].rows :
              Selects(p, part, last)
<1> DEFINE found == {r \in disk[handle].rows : r.id > push[p].min /\ OwnRow(r, push[p].as)}
<1>1. CASE /\ Connects /\ found # {}
           /\ \E part \in SUBSET found, last \in found :
                /\ LowestFirst(part, found)
                /\ last \in part /\ \A r \in part : r.id <= last.id
                /\ push' = [push EXCEPT ![p].pc = "sent", ![p].rows = part,
                                        ![p].max = last.id]
  <2>1. PICK part \in SUBSET found, last \in found :
          /\ LowestFirst(part, found)
          /\ last \in part /\ \A r \in part : r.id <= last.id
          /\ push' = [push EXCEPT ![p].pc = "sent", ![p].rows = part, ![p].max = last.id]
    BY <1>1
  <2>2. handle \in Files
    BY <1>1 DEF Connects, IsOpen, StoreTypes, StoreTypeOK
  <2>3. \A r \in found \ part : last.id < r.id
    BY <2>1 DEF LowestFirst
  <2> QED
    BY <2>1, <2>2, <2>3 DEF Selects
<1>2. CASE push' = [push EXCEPT ![p] = PushIdle]
  BY <1>2
<1> QED
  BY <1>1, <1>2 DEF PushSelect

LEMMA PushStepTypes ==
  ASSUME StoreTypes, PushTypes, NEW p \in Pushers, Push(p) PROVE PushTypes'
<1> USE DEF PushTypes
<1>1. PushIdle \in PushRecords
  BY LogConstants DEF PushRecords
<1>2. push \in [Pushers -> PushRecords] /\ name \in Names \cup {NoName}
      /\ \A q \in Pushers : push[q].rows \subseteq Row /\ push[q].max \in Nat
  BY DEF PushRecords, StoreTypes, StoreTypeOK
<1>3. SUFFICES position' \in Nat /\ push' \in [Pushers -> PushRecords]
               /\ reached' \subseteq 1 .. Queries /\ acked' \subseteq Row
  BY DEF PushRecords
<1>4. CASE PushStart(p)
  <2> DEFINE start == [PushIdle EXCEPT !.pc = "select", !.as = name, !.min = position]
  <2>1. start \in PushRecords
    BY <1>1, <1>2 DEF PushRecords
  <2>2. push' = [push EXCEPT ![p] = start]
        /\ UNCHANGED <<position, reached, acked>>
    BY <1>4 DEF PushStart
  <2> HIDE DEF start
  <2> QED
    BY <1>2, <2>1, <2>2
<1>5. CASE PushSelect(p)
  <2>1. UNCHANGED <<position, reached, acked>>
    BY <1>5 DEF PushSelect
  <2>2. ASSUME NEW part \in SUBSET disk[handle].rows, NEW last \in disk[handle].rows,
               Selects(p, part, last)
        PROVE  push' \in [Pushers -> PushRecords]
    <3>1. disk[handle].rows \subseteq Row
      BY <2>2 DEF Selects, StoreTypes, StoreTypeOK, Content
    <3>2. part \subseteq Row /\ last.id \in Nat
      BY <3>1 DEF Row
    <3> QED
      <4> DEFINE chosen == [push[p] EXCEPT !.pc = "sent", !.rows = part, !.max = last.id]
      <4>1. push' = [push EXCEPT ![p] = chosen]
        BY <2>2 DEF Selects
      <4>2. chosen \in PushRecords
        BY <1>2, <3>2 DEF PushRecords
      <4> HIDE DEF chosen
      <4> QED
        BY <1>2, <4>1, <4>2
  <2>3. push' = [push EXCEPT ![p] = PushIdle] => push' \in [Pushers -> PushRecords]
    BY <1>1, <1>2
  <2> QED
    BY <1>5, <2>1, <2>2, <2>3, SelectIs
<1>6. Sent(p) \subseteq 1 .. Queries
  BY <1>2 DEF Sent, Row
<1>7. CASE Lose(p)
  BY <1>1, <1>2, <1>6, <1>7 DEF Lose
<1>8. CASE Ingest(p)
  <2>1. push' = [push EXCEPT ![p].pc = "ok"] \/ push' = [push EXCEPT ![p] = PushIdle]
    BY <1>8 DEF Ingest
  <2>2. push' \in [Pushers -> PushRecords]
    BY <1>1, <1>2, <2>1 DEF PushRecords
  <2> QED
    BY <1>6, <1>8, <2>2 DEF Ingest
<1>9. CASE Answer(p)
  BY <1>1, <1>2, <1>9 DEF Answer, Furthest
<1> QED
  BY <1>4, <1>5, <1>7, <1>8, <1>9 DEF Push

\* What a step of the store, of the settings or a restart does to the pushes.
LEMMA OthersLeavePush ==
  ASSUME [SharingNext]_logSharingVars, ~\E p \in Pushers : Push(p)
  PROVE  \/ UNCHANGED <<position, push, acked, reached>>
         \/ Restart
<1>1. UNCHANGED logSharingVars => UNCHANGED <<position, push, acked, reached>>
  BY DEF logSharingVars, sharingVars
<1>2. StoreStep => UNCHANGED <<position, push, acked, reached>>
  BY DEF StoreStep, sharingVars
<1>3. \A r \in Restorers : Replaces(r) => UNCHANGED <<position, push, acked, reached>>
  BY DEF Replaces
<1>4. \A n : Rename(n) => UNCHANGED <<position, push, acked, reached>>
  BY DEF Rename
<1>5. Reconfigure => UNCHANGED <<position, push, acked, reached>>
  BY DEF Reconfigure
<1> QED
  BY <1>1, <1>2, <1>3, <1>4, <1>5 DEF SharingNext

LEMMA LogTypesStep ==
  ASSUME LogTypes, [SharingNext]_logSharingVars PROVE LogTypes'
<1>1. StoreTypes'
  BY StoreTypesStep DEF LogTypes
<1>2. ASSUME NEW p \in Pushers, Push(p) PROVE PushTypes'
  BY <1>2, PushStepTypes DEF LogTypes
<1>3. CASE UNCHANGED <<position, push, acked, reached>>
  BY <1>1, <1>3 DEF LogTypes, PushTypes
<1>4. CASE Restart
  BY <1>1, <1>4, LogConstants DEF LogTypes, PushTypes, Restart
<1> QED
  BY <1>1, <1>2, <1>3, <1>4, OthersLeavePush DEF LogTypes

LEMMA FlagsStep == Flags /\ [SharingNext]_logSharingVars => Flags'
<1> SUFFICES ASSUME Flags, [SharingNext]_logSharingVars PROVE Flags'
  OBVIOUS
<1> USE DEF Flags
<1>1. UNCHANGED logSharingVars => Flags'
  BY Zenon DEF logSharingVars, sharingVars
<1>2. StoreStep => Flags'
  BY Zenon DEF StoreStep, sharingVars
<1>3. \A r \in Restorers : Replaces(r) => Flags'
  BY Zenon DEF Replaces
<1>4. \A p \in Pushers : Push(p) => Flags'
  BY Zenon DEF Push, PushStart, PushSelect, Lose, Ingest, Answer
<1>5. \A n : Rename(n) => Flags'
  BY Zenon DEF Rename
<1>6. Reconfigure => Flags'
  BY Zenon DEF Reconfigure
<1>7. Restart => Flags'
  BY Zenon DEF Restart
<1> QED
  BY <1>1, <1>2, <1>3, <1>4, <1>5, <1>6, <1>7, Zenon DEF SharingNext

\* The restore that ends last, or the restart, opens the file at DBPath.
LEMMA HandleStep ==
  ASSUME StoreTypes, HandleIsFile, [SharingNext]_logSharingVars
  PROVE  HandleIsFile'
<1> USE LogConstants DEF HandleIsFile, InRestore
<1>1. CASE UNCHANGED <<handle, path, restore>>
  BY <1>1
<1>2. ASSUME NEW r \in Restorers,
             RestoreApply(r) \/ RestoreClose(r) \/ RestoreReplace(r)
      PROVE  HandleIsFile'
  <2>1. restore \in Restores
    BY DEF StoreTypes, StoreTypeOK, Restores
  <2>2. restore'[r].pc # "idle"
    BY <1>2, <2>1 DEF RestoreApply, RestoreClose, RestoreReplace, Restores
  <2> QED
    BY <2>2
<1>3. ASSUME NEW r \in Restorers, RestoreInit(r) PROVE HandleIsFile'
  BY <1>3 DEF RestoreInit, OpenedHandle
<1>4. CASE Restart
  BY <1>4 DEF Restart, Reboot
<1>5. StoreStep =>
        \/ UNCHANGED <<handle, path, restore>>
        \/ \E r \in Restorers : RestoreApply(r) \/ RestoreClose(r) \/ RestoreInit(r)
  BY DEF StoreStep, FlushCheck, FlushBegin, FlushCommit, ReceiveForeign,
         Purge, ClearQueryLogs, Delete, Backup, fileVars
<1>6. \A p \in Pushers : Push(p) => UNCHANGED storeVars
  BY DEF Push, PushStart, PushSelect, Lose, Ingest, Answer
<1>7. (\E n : Rename(n)) \/ Reconfigure => UNCHANGED <<handle, path, restore>>
  BY DEF Rename, Reconfigure, fileVars
<1>8. UNCHANGED logSharingVars \/ UNCHANGED storeVars => UNCHANGED <<handle, path, restore>>
  BY DEF logSharingVars, storeVars, fileVars
<1> QED
  BY <1>1, <1>2, <1>3, <1>4, <1>5, <1>6, <1>7, <1>8 DEF SharingNext, Replaces

\* What was sent, and what was acknowledged, has no higher id than the request's and
\* than the position.
SentUpTo ==
  /\ \A p \in Pushers : push[p].pc \in {"sent", "ok"} =>
       \A r \in push[p].rows : r.id <= push[p].max
  /\ NotResent

LEMMA SentUpToStep ==
  ASSUME LogTypes, SentUpTo, [SharingNext]_logSharingVars PROVE SentUpTo'
<1> USE DEF SentUpTo, NotResent
<1>1. /\ push \in [Pushers -> PushRecords] /\ position \in Nat
      /\ \A p \in Pushers : push[p].rows \subseteq Row /\ push[p].max \in Nat
      /\ \A r \in Row : r.id \in Nat \ {0}
      /\ acked \subseteq Row
      /\ PushIdle \in PushRecords /\ PushIdle.pc = "idle"
  BY LogConstants DEF LogTypes, PushTypes, PushRecords, Row
<1>2. CASE UNCHANGED <<position, push, acked, reached>>
  BY <1>2
<1>3. CASE Restart
  BY <1>1, <1>3 DEF Restart
<1>4. ASSUME NEW p \in Pushers, Push(p) PROVE SentUpTo'
  <2>1. CASE PushStart(p)
    <3>1. UNCHANGED <<position, acked>> /\ \A q \in Pushers \ {p} : push'[q] = push[q]
      BY <1>1, <2>1 DEF PushStart
    <3>2. push'[p].pc = "select"
      BY <1>1, <2>1 DEF PushStart, PushRecords
    <3> QED
      BY <3>1, <3>2
  <2>2. CASE PushSelect(p)
    <3>1. UNCHANGED <<position, acked>>
      BY <2>2 DEF PushSelect
    <3>2. CASE push' = [push EXCEPT ![p] = PushIdle]
      BY <1>1, <3>1, <3>2
    <3>3. ASSUME NEW part, NEW last, Selects(p, part, last) PROVE SentUpTo'
      <4>1. \A q \in Pushers \ {p} : push'[q] = push[q]
        BY <1>1, <3>3 DEF Selects
      <4>2. push'[p].rows = part /\ push'[p].max = last.id
        BY <1>1, <3>3 DEF Selects, PushRecords
      <4> QED
        BY <3>1, <3>3, <4>1, <4>2 DEF Selects
    <3> QED
      BY <2>2, <3>2, <3>3, SelectIs DEF LogTypes
  <2>3. CASE Lose(p)
    BY <1>1, <2>3 DEF Lose
  <2>4. CASE Ingest(p)
    <3>1. UNCHANGED <<position, acked>> /\ push[p].pc = "sent"
          /\ \A q \in Pushers \ {p} : push'[q] = push[q]
      BY <1>1, <2>4 DEF Ingest
    <3>2. \/ push'[p].pc = "idle"
          \/ push'[p].rows = push[p].rows /\ push'[p].max = push[p].max
      <4>1. CASE push' = [push EXCEPT ![p].pc = "ok"]
        BY <1>1, <4>1 DEF PushRecords
      <4>2. CASE push' = [push EXCEPT ![p] = PushIdle]
        <5>1. push'[p] = PushIdle
          BY <1>1, <4>2
        <5> QED
          BY <1>1, <5>1
      <4> QED
        BY <2>4, <4>1, <4>2 DEF Ingest
    <3> QED
      BY <3>1, <3>2
  <2>5. CASE Answer(p)
    <3>1. /\ position' \in Nat /\ position' >= position /\ position' >= push[p].max
          /\ acked' = acked \cup push[p].rows /\ push[p].pc = "ok"
          /\ push' = [push EXCEPT ![p] = PushIdle]
      BY <1>1, <2>5 DEF Answer, Furthest
    <3>2. ASSUME NEW r \in acked' PROVE r.id <= position'
      <4>1. r.id \in Nat /\ push[p].max \in Nat
        BY <1>1, <3>1
      <4>2. r.id <= position \/ r.id <= push[p].max
        BY <3>1
      <4> QED
        BY <1>1, <3>1, <4>1, <4>2
    <3>3. \A q \in Pushers : push'[q].pc = "idle" \/ push'[q] = push[q]
      BY <1>1, <3>1
    <3> QED
      BY <3>2, <3>3
  <2> QED
    BY <1>4, <2>1, <2>2, <2>3, <2>4, <2>5 DEF Push
<1> QED
  BY <1>2, <1>3, <1>4, OthersLeavePush

\* No content has an id above its sequence.
Sequenced(c) == \A r \in c.rows : r.id <= c.seq

AllSequenced ==
  /\ \A f \in Files : Sequenced(disk[f])
  /\ \A b \in backups : Sequenced(b)
  /\ \A r \in Restorers : \A b \in restore[r].from : Sequenced(b)

LEMMA BecomesSequenced ==
  ASSUME NEW c \in Content, NEW d \in Content, NEW n, Becomes(c, d, n), Sequenced(c)
  PROVE  Sequenced(d)
BY DEF Becomes, Sequenced, Content, Row

LEMMA AllSequencedStep ==
  ASSUME StoreTypes, AllSequenced, [SharingNext]_logSharingVars PROVE AllSequenced'
<1> USE DEF AllSequenced
<1>1. /\ disk \in [Files -> Content] /\ restore \in Restores
      /\ handle \in Files \cup {NoHandle} /\ path \in Files
      /\ flush.name \in Nodes /\ OtherName \in Nodes
  BY DEF StoreTypes, StoreTypeOK, Restores, Nodes
<1>2. CASE UNCHANGED <<disk, backups, restore>>
  BY <1>2
<1>3. ASSUME disk' \in [Files -> Content], UNCHANGED <<backups, restore>>,
             \A f \in Files : disk'[f] = disk[f] \/ \E n : Becomes(disk[f], disk'[f], n)
      PROVE  AllSequenced'
  BY <1>1, <1>3, BecomesSequenced
<1>4. CASE FlushCommit
  BY <1>3, <1>4, CommitIs DEF FlushCommit
<1>5. CASE ReceiveForeign
  BY <1>3, <1>5, ForeignIs DEF ReceiveForeign
<1>6. CASE Purge \/ ClearQueryLogs
  BY <1>1, <1>3, <1>6, DeleteIs
<1>7. CASE Backup
  BY <1>1, <1>7 DEF Backup, Snapshot, IsOpen, fileVars
<1>8. ASSUME NEW r \in Restorers, RestoreApply(r) PROVE AllSequenced'
  BY <1>1, <1>8 DEF RestoreApply, fileVars, Restores
<1>9. ASSUME NEW r \in Restorers, RestoreClose(r) \/ RestoreInit(r)
      PROVE  AllSequenced'
  <2>1. \A s \in Restorers : restore'[s].from = restore[s].from \/ restore'[s].from = {}
    BY <1>1, <1>9 DEF RestoreClose, RestoreInit, RestoreIdle, Restores
  <2>2. UNCHANGED <<disk, backups>>
    BY <1>9 DEF RestoreClose, RestoreInit
  <2> QED
    BY <2>1, <2>2
<1>10. ASSUME NEW r \in Restorers, RestoreReplace(r) PROVE AllSequenced'
  <2>1. \A s \in Restorers : restore'[s].from = restore[s].from
    BY <1>1, <1>10 DEF RestoreReplace, Restores
  <2>2. \A f \in Files : disk'[f] = disk[f] \/ disk'[f] \in restore[r].from
    BY <1>1, <1>10 DEF RestoreReplace
  <2>3. UNCHANGED backups
    BY <1>10 DEF RestoreReplace
  <2> QED
    BY <2>1, <2>2, <2>3
<1>11. CASE Restart
  BY <1>11 DEF Restart, Reboot, RestoreIdle
<1>12. FlushCheck \/ FlushBegin \/ (\E n : Rename(n)) \/ Reconfigure
         => UNCHANGED <<disk, backups, restore>>
  BY DEF FlushCheck, FlushBegin, Rename, Reconfigure, fileVars
<1>13. \A p \in Pushers : Push(p) => UNCHANGED storeVars
  BY DEF Push, PushStart, PushSelect, Lose, Ingest, Answer
<1>14. UNCHANGED logSharingVars \/ UNCHANGED storeVars => UNCHANGED <<disk, backups, restore>>
  BY DEF logSharingVars, storeVars, fileVars
<1> QED
  BY <1>2, <1>4, <1>5, <1>6, <1>7, <1>8, <1>9, <1>10, <1>11, <1>12, <1>13, <1>14
  DEF SharingNext, StoreStep, Replaces

\* Until a restore or a new name disturbs it: the process writes to the file at
\* DBPath, the rows of this node up to the position are acknowledged, and those up to
\* the end of a request are in it or acknowledged.  A push that started before the
\* node got its first name finds the rows that bear it after those without a name.
Covered(upto, known) ==
  \A r \in disk[path].rows : OwnRow(r, name) /\ r.id <= upto => r \in known

Unnamed(p) ==
  push[p].pc = "select" /\ push[p].as # name =>
    /\ flush.pc = "insert" /\ flush.name = NoName => \A r \in disk[path].rows : r.node # name
    /\ \A r, s \in disk[path].rows : r.node = NoName /\ s.node = name => r.id < s.id

CalmPush(p) ==
  /\ push[p].pc # "idle" => push[p].as \in {NoName, name} /\ push[p].min <= position
  /\ push[p].pc \in {"sent", "ok"} =>
       push[p].max <= disk[path].seq /\ Covered(push[p].max, acked \cup push[p].rows)
  /\ Unnamed(p)

Calm ==
  /\ handle \in {NoHandle, path}
  /\ position <= disk[path].seq
  /\ Covered(position, acked)
  /\ \A p \in Pushers : CalmPush(p)

CalmUnlessDisturbed == disturbed \/ Calm

LEMMA CalmTypes ==
  ASSUME LogTypes, AllSequenced
  PROVE  /\ path \in Files /\ disk[path] \in Content
         /\ disk[path].seq \in Nat /\ disk[path].rows \subseteq Row
         /\ Sequenced(disk[path])
         /\ \A r \in Row : r.id \in Nat \ {0}
         /\ position \in Nat /\ push \in [Pushers -> PushRecords]
         /\ \A p \in Pushers : push[p].max \in Nat /\ push[p].min \in Nat
         /\ name \in Names \cup {NoName}
         /\ flush.name \in Nodes
BY DEF LogTypes, StoreTypes, StoreTypeOK, PushTypes, PushRecords, AllSequenced,
       Content, Row, Nodes

\* Rows that are inserted have higher ids than those that were selected.
LEMMA CalmWrite ==
  ASSUME LogTypes, AllSequenced, Calm, NEW n \in Nodes,
         disk'[path] \in Content, Becomes(disk[path], disk'[path], n),
         (n = flush.name /\ flush.pc = "insert") \/ n = OtherName,
         flush'.pc = "idle" \/ flush' = flush,
         handle' \in {NoHandle, path}, UNCHANGED <<path, name, position, push, acked>>
  PROVE  Calm'
<1> USE CalmTypes DEF Calm
<1>1. /\ disk'[path].seq \in Nat /\ disk'[path].seq >= disk[path].seq
      /\ \A r \in disk'[path].rows \ disk[path].rows : r.id > disk[path].seq /\ r.node = n
      /\ \A r \in disk'[path].rows : r.id \in Nat
  BY DEF Becomes, Content, Row
<1>2. ASSUME NEW upto \in Nat, upto <= disk[path].seq, NEW known, Covered(upto, known)
      PROVE  \A r \in disk'[path].rows : OwnRow(r, name) /\ r.id <= upto => r \in known
  BY <1>1, <1>2 DEF Covered
<1>3. Covered(position, acked)'
  BY <1>2 DEF Covered
<1>4. ASSUME NEW p \in Pushers PROVE CalmPush(p)'
  <2>1. CalmPush(p)
    OBVIOUS
  <2>2. push[p].pc \in {"sent", "ok"} =>
          push[p].max <= disk'[path].seq /\ Covered(push[p].max, acked \cup push[p].rows)'
    BY <1>1, <1>2, <2>1 DEF CalmPush, Covered
  <2>3. Unnamed(p)'
    <3> SUFFICES ASSUME push[p].pc = "select", push[p].as # name
                 PROVE  /\ flush'.pc = "insert" /\ flush'.name = NoName
                            => \A r \in disk'[path].rows : r.node # name
                        /\ \A r, s \in disk'[path].rows :
                             r.node = NoName /\ s.node = name => r.id < s.id
      BY DEF Unnamed
    <3>1. /\ push[p].as = NoName /\ NoName # name /\ name \in Names /\ name # OtherName
      BY <2>1, LogConstants DEF CalmPush
    <3>2. /\ flush.pc = "insert" /\ flush.name = NoName => \A r \in disk[path].rows : r.node # name
          /\ \A r, s \in disk[path].rows : r.node = NoName /\ s.node = name => r.id < s.id
      BY <2>1 DEF CalmPush, Unnamed
    <3>3. CASE n = OtherName
      BY <1>1, <3>1, <3>2, <3>3, LogConstants DEF Sequenced
    <3>4. CASE n = NoName /\ n = flush.name /\ flush.pc = "insert"
      BY <1>1, <3>1, <3>2, <3>4
    <3>5. CASE n # NoName /\ n = flush.name
      <4>1. ASSUME NEW r \in disk'[path].rows, NEW s \in disk'[path].rows,
                   r.node = NoName, s.node = name
            PROVE  r.id < s.id
        <5>1. r \in disk[path].rows
          BY <1>1, <3>5, <4>1
        <5>2. CASE s \in disk[path].rows
          BY <3>2, <4>1, <5>1, <5>2
        <5>3. CASE s \notin disk[path].rows
          BY <1>1, <4>1, <5>1, <5>3 DEF Sequenced
        <5> QED
          BY <5>2, <5>3
      <4> QED
        BY <3>5, <4>1
    <3> QED
      BY <3>3, <3>4, <3>5
  <2> QED
    BY <2>1, <2>2, <2>3 DEF CalmPush
<1> QED
  BY <1>1, <1>3, <1>4

LEMMA CalmFlush ==
  ASSUME LogTypes, AllSequenced, Calm, FlushCheck \/ FlushBegin
  PROVE  flush'.pc = "insert" => flush'.name = name
<1>1. CASE FlushCheck
  <2>1. flush'.pc \in {"begin", "idle"}
    <3>1. \/ flush' = FlushIdle
          \/ \E n : flush' = [FlushIdle EXCEPT !.pc = "begin", !.batch = asked + 1 .. n]
      BY <1>1 DEF FlushCheck
    <3>2. \A b : [FlushIdle EXCEPT !.pc = "begin", !.batch = b].pc = "begin"
      BY DEF FlushIdle
    <3>3. FlushIdle.pc = "idle"
      BY DEF FlushIdle
    <3> QED
      BY ONLY <3>1, <3>2, <3>3
  <2> QED
    BY <2>1
<1>2. CASE FlushBegin
  <2>1. flush \in Flushes
    BY DEF LogTypes, StoreTypes, StoreTypeOK, Flushes
  <2> QED
    BY <1>2, <2>1 DEF FlushBegin, FlushIdle, Flushes
<1> QED
  BY <1>1, <1>2

\* The store's steps.
LEMMA CalmStore ==
  ASSUME LogTypes, AllSequenced, Calm, StoreStep PROVE Calm'
<1> USE CalmTypes, LogConstants
<1>1. UNCHANGED <<path, name, position, push, acked>>
  BY DEF StoreStep, FlushCheck, FlushBegin, FlushCommit, ReceiveForeign,
         Purge, ClearQueryLogs, Delete, Backup, RestoreApply, RestoreClose,
         RestoreInit, fileVars, sharingVars
<1>2. Becomes(disk[path], disk[path], OtherName) /\ OtherName \in Nodes
  BY DEF Becomes, Nodes
<1>3. CASE FlushCheck \/ FlushBegin
  <2>1. UNCHANGED <<disk, handle>>
    BY <1>3 DEF FlushCheck, FlushBegin, fileVars
  <2>2. flush'.pc = "insert" => flush'.name = name
    BY <1>3, CalmFlush
  <2>3. ASSUME NEW p \in Pushers PROVE CalmPush(p)'
    BY <1>1, <2>1, <2>2 DEF Calm, CalmPush, Unnamed, Covered
  <2> QED
    BY <1>1, <2>1, <2>3 DEF Calm, Covered
<1>4. CASE FlushCommit
  <2>1. /\ UNCHANGED handle /\ flush'.pc = "idle" /\ flush.pc = "insert"
    BY <1>4 DEF FlushCommit, FlushIdle
  <2>2. /\ disk'[path] \in Content
        /\ disk'[path] = disk[path] \/ Becomes(disk[path], disk'[path], flush.name)
    BY <1>4, CommitIs DEF LogTypes
  <2> QED
    BY <1>1, <1>2, <2>1, <2>2, CalmWrite DEF Calm
<1>5. CASE ReceiveForeign
  <2>1. UNCHANGED <<handle, flush>>
    BY <1>5 DEF ReceiveForeign
  <2>2. /\ disk'[path] \in Content
        /\ disk'[path] = disk[path] \/ Becomes(disk[path], disk'[path], OtherName)
    BY <1>5, ForeignIs DEF LogTypes
  <2> QED
    BY <1>1, <1>2, <2>1, <2>2, CalmWrite DEF Calm
<1>6. CASE Purge \/ ClearQueryLogs
  <2>1. /\ disk'[path] \in Content /\ Becomes(disk[path], disk'[path], OtherName)
        /\ UNCHANGED <<handle, flush>>
    BY <1>2, <1>6, DeleteIs DEF LogTypes
  <2> QED
    BY <1>1, <1>2, <2>1, CalmWrite DEF Calm
<1>7. CASE Backup \/ \E r \in Restorers :
               RestoreApply(r) \/ RestoreClose(r) \/ RestoreInit(r)
  <2>1. /\ UNCHANGED <<disk, flush>> /\ handle' \in {handle, NoHandle, path}
    BY <1>7 DEF Backup, RestoreApply, RestoreClose, RestoreInit, OpenedHandle,
                fileVars
  <2> QED
    BY <1>1, <1>2, <2>1, CalmWrite DEF Calm
<1> QED
  BY <1>3, <1>4, <1>5, <1>6, <1>7 DEF StoreStep

\* The first name: no row bears it, so the same rows are this node's.
LEMMA CalmRename ==
  ASSUME LogTypes, AllSequenced, Calm, NEW n \in Names \cup {NoName},
         Rename(n), name = NoName, \A r \in disk[path].rows : r.node # n
  PROVE  Calm'
<1>1. /\ name' = n /\ n # NoName
      /\ UNCHANGED <<disk, path, handle, flush, position, push, acked>>
  BY DEF Rename, fileVars
<1>2. \A r \in disk[path].rows : OwnRow(r, n) => OwnRow(r, name)
  BY DEF OwnRow
<1>3. ASSUME NEW p \in Pushers PROVE CalmPush(p)'
  BY <1>1, <1>2 DEF Calm, CalmPush, Unnamed, Covered
<1> QED
  BY <1>1, <1>2, <1>3 DEF Calm, Covered

\* The pushes.
LEMMA CalmSelect ==
  ASSUME LogTypes, AllSequenced, Calm, NEW p \in Pushers,
         NEW part \in SUBSET disk[handle].rows, NEW last \in disk[handle].rows,
         push[p].pc = "select", Selects(p, part, last),
         UNCHANGED <<disk, path, name, position, acked>>
  PROVE  CalmPush(p)'
<1> USE CalmTypes, LogConstants
<1>1. handle = path /\ CalmPush(p)
  BY DEF Selects, Calm
<1>2. /\ push'[p].pc = "sent" /\ push'[p].as = push[p].as /\ push'[p].min = push[p].min
      /\ push'[p].rows = part /\ push'[p].max = last.id
  BY DEF Selects, PushRecords
<1>3. last.id <= disk[path].seq
  BY <1>1 DEF Selects, Sequenced
<1>4. ASSUME NEW r \in disk[path].rows, OwnRow(r, name), r.id <= last.id, r \notin part
      PROVE  r \in acked
  <2>1. r.id \in Nat /\ last.id \in Nat
    BY <1>1
  <2>2. CASE r.id > push[p].min /\ OwnRow(r, push[p].as)
    BY <1>1, <1>4, <2>1, <2>2 DEF Selects
  <2>3. CASE r.id <= push[p].min
    <3>1. push[p].min <= position /\ push[p].min \in Nat /\ position \in Nat
      BY <1>1 DEF CalmPush
    <3> QED
      BY <1>4, <2>1, <2>3, <3>1 DEF Calm, Covered
  <2>4. CASE ~OwnRow(r, push[p].as)
    <3>1. push[p].as = NoName /\ push[p].as # name /\ r.node = name
      BY <1>1, <1>4, <2>4 DEF CalmPush, OwnRow
    <3>2. last.node = NoName
      BY <3>1 DEF Selects, OwnRow
    <3>3. last.id < r.id
      BY <1>1, <3>1, <3>2 DEF CalmPush, Unnamed, Selects
    <3> QED
      BY <1>4, <2>1, <3>3
  <2> QED
    BY <1>1, <2>1, <2>2, <2>3, <2>4
<1> QED
  BY <1>1, <1>2, <1>3, <1>4 DEF CalmPush, Unnamed, Covered

LEMMA CalmPushes ==
  ASSUME LogTypes, AllSequenced, Calm, NEW p \in Pushers, Push(p)
  PROVE  Calm'
<1> USE CalmTypes, LogConstants
<1>1. UNCHANGED <<disk, path, handle, name, flush>>
  BY DEF Push, PushStart, PushSelect, Lose, Ingest, Answer, storeVars,
         fileVars
<1>2. CASE UNCHANGED <<position, acked>> /\ CalmPush(p)'
           /\ \A q \in Pushers \ {p} : push'[q] = push[q]
  BY <1>1, <1>2 DEF Calm, CalmPush, Unnamed, Covered
<1>3. \A q \in Pushers : push'[q].pc = "idle" => CalmPush(q)'
  BY DEF CalmPush, Unnamed
<1>4. CASE PushStart(p)
  <2>1. /\ push'[p].pc = "select" /\ push'[p].as = name /\ push'[p].min = position
        /\ \A q \in Pushers \ {p} : push'[q] = push[q]
        /\ UNCHANGED <<position, acked>>
    BY <1>4 DEF PushStart
  <2> QED
    BY <1>1, <1>2, <2>1 DEF CalmPush, Unnamed
<1>5. CASE PushSelect(p)
  <2>1. UNCHANGED <<position, acked>> /\ push[p].pc = "select"
    BY <1>5 DEF PushSelect
  <2>2. CASE push' = [push EXCEPT ![p] = PushIdle]
    BY <1>2, <1>3, <2>1, <2>2
  <2>3. ASSUME NEW part \in SUBSET disk[handle].rows, NEW last \in disk[handle].rows,
               Selects(p, part, last)
        PROVE  Calm'
    <3>1. CalmPush(p)'
      BY <1>1, <2>1, <2>3, CalmSelect
    <3>2. \A q \in Pushers \ {p} : push'[q] = push[q]
      BY <2>3 DEF Selects
    <3> QED
      BY <1>2, <2>1, <3>1, <3>2
  <2> QED
    BY <1>5, <2>2, <2>3, SelectIs DEF LogTypes
<1>6. CASE Lose(p)
  <2>1. UNCHANGED <<position, acked>> /\ push' = [push EXCEPT ![p] = PushIdle]
    BY <1>6 DEF Lose
  <2> QED
    BY <1>2, <1>3, <2>1
<1>7. CASE Ingest(p)
  <2>1. UNCHANGED <<position, acked>> /\ push[p].pc = "sent"
        /\ \A q \in Pushers \ {p} : push'[q] = push[q]
    BY <1>7 DEF Ingest
  <2>2. CASE push' = [push EXCEPT ![p] = PushIdle]
    BY <1>2, <1>3, <2>1, <2>2
  <2>3. CASE push' = [push EXCEPT ![p].pc = "ok"]
    <3>1. /\ push'[p].pc = "ok" /\ push'[p].as = push[p].as /\ push'[p].min = push[p].min
          /\ push'[p].rows = push[p].rows /\ push'[p].max = push[p].max
      BY <2>3 DEF PushRecords
    <3>2. CalmPush(p)
      BY DEF Calm
    <3>3. CalmPush(p)'
      BY <1>1, <2>1, <3>1, <3>2 DEF CalmPush, Unnamed, Covered
    <3> QED
      BY <1>2, <2>1, <3>3
  <2> QED
    BY <1>7, <2>2, <2>3 DEF Ingest
<1>8. CASE Answer(p)
  <2>1. /\ position' \in {position, push[p].max} /\ position' >= position
        /\ acked' = acked \cup push[p].rows /\ push[p].pc = "ok"
        /\ push' = [push EXCEPT ![p] = PushIdle]
    BY <1>8 DEF Answer, Furthest
  <2>2. /\ position <= disk[path].seq /\ Covered(position, acked)
        /\ push[p].max <= disk[path].seq /\ Covered(push[p].max, acked \cup push[p].rows)
    BY <2>1 DEF Calm, CalmPush
  <2>3. position' <= disk'[path'].seq /\ Covered(position, acked)'
    BY <1>1, <2>1, <2>2 DEF Covered
  <2>4. ASSUME NEW q \in Pushers PROVE CalmPush(q)'
    <3>1. CASE push'[q].pc = "idle"
      BY <1>3, <3>1
    <3>2. CASE push'[q] = push[q]
      <4>1. CalmPush(q)
        BY DEF Calm
      <4>2. Covered(push[q].max, acked \cup push[q].rows)
              => Covered(push[q].max, acked \cup push[q].rows)'
        BY <1>1, <2>1, <3>2 DEF Covered
      <4>3. push[q].min <= position => push[q].min <= position'
        BY <2>1
      <4> QED
        BY <1>1, <3>2, <4>1, <4>2, <4>3 DEF CalmPush, Unnamed
    <3> QED
      BY <2>1, <3>1, <3>2
  <2> QED
    BY <1>1, <2>3, <2>4 DEF Calm
<1> QED
  BY <1>4, <1>5, <1>6, <1>7, <1>8 DEF Push

LEMMA CalmRestart ==
  ASSUME LogTypes, AllSequenced, Restart PROVE Calm'
<1>1. /\ handle' = path /\ UNCHANGED <<disk, path>> /\ position' = 0
      /\ push' = [p \in Pushers |-> PushIdle]
  BY DEF Restart, Reboot
<1>2. \A p \in Pushers : push'[p].pc = "idle"
  BY <1>1, LogConstants
<1> QED
  BY <1>1, <1>2, CalmTypes DEF Calm, CalmPush, Unnamed, Covered

LEMMA CalmStep ==
  ASSUME LogTypes, AllSequenced, CalmUnlessDisturbed, [SharingNext]_logSharingVars
  PROVE  CalmUnlessDisturbed'
<1> SUFFICES ASSUME ~disturbed' PROVE Calm'
  BY DEF CalmUnlessDisturbed
<1>1. CASE Restart
  BY <1>1, CalmRestart
<1>2. ASSUME UNCHANGED disturbed PROVE Calm
  BY <1>2, Zenon DEF CalmUnlessDisturbed
<1>3. CASE UNCHANGED logSharingVars
  BY <1>2, <1>3
  DEF logSharingVars, storeVars, fileVars, sharingVars, Calm, CalmPush, Unnamed, Covered
<1>4. CASE StoreStep
  BY <1>2, <1>4, CalmStore DEF StoreStep, sharingVars
<1>5. ASSUME NEW r \in Restorers, Replaces(r) PROVE Calm'
  <2>1. ~disturbed /\ path' = path
    BY <1>5, Zenon DEF Replaces
  <2>2. path + 1 # path
    BY DEF LogTypes, StoreTypes, StoreTypeOK, Files
  <2>3. UNCHANGED <<disk, path, handle, name, flush, position, push, acked>>
    BY <1>5, <2>1, <2>2 DEF Replaces, RestoreReplace
  <2>4. Calm
    BY <2>1, Zenon DEF CalmUnlessDisturbed
  <2> QED
    BY <2>3, <2>4 DEF Calm, CalmPush, Unnamed, Covered
<1>6. ASSUME NEW p \in Pushers, Push(p) PROVE Calm'
  <2>1. UNCHANGED disturbed
    BY <1>6 DEF Push, PushStart, PushSelect, Lose, Ingest, Answer
  <2> QED
    BY <1>2, <1>6, <2>1, CalmPushes
<1>7. ASSUME NEW n \in Names \cup {NoName}, Rename(n) PROVE Calm'
  <2>1. ~disturbed /\ name = NoName /\ ~\E r \in disk[path].rows : r.node = n
    BY <1>7, Zenon DEF Rename
  <2>2. Calm
    BY <2>1, Zenon DEF CalmUnlessDisturbed
  <2> QED
    BY <1>7, <2>1, <2>2, CalmRename
<1>8. CASE Reconfigure
  <2>1. UNCHANGED <<disk, path, handle, name, flush, position, push, acked, disturbed>>
    BY <1>8 DEF Reconfigure, fileVars
  <2> QED
    BY <1>2, <2>1 DEF Calm, CalmPush, Unnamed, Covered
<1> QED
  BY <1>1, <1>3, <1>4, <1>5, <1>6, <1>7, <1>8 DEF SharingNext

LEMMA InitLogSharing ==
  ASSUME SharingInit
  PROVE  LogTypes /\ Flags /\ AllSequenced /\ HandleIsFile /\ SentUpTo /\ CalmUnlessDisturbed
<1> USE LogConstants DEF SharingInit, StoreInit
<1>1. Flags
  BY Zenon DEF Flags
<1>2. Waiting(restore) = {} /\ IsFiniteSet({}) /\ Cardinality({}) = 0
  BY FS_EmptySet DEF Waiting
<1>3. StoreTypes
  <2>1. path + Cardinality(Waiting(restore)) <= incidents + 1 /\ IsFiniteSet(Waiting(restore))
    <3>1. path = 1 /\ incidents = 0
      OBVIOUS
    <3> QED
      BY ONLY <1>2, <3>1
  <2>2. StoreTypeOK
    BY DEF StoreTypeOK
  <2> QED
    BY <2>1, <2>2 DEF StoreTypes
<1>4. PushTypes
  BY DEF PushTypes
<1>5. AllSequenced
  BY DEF AllSequenced, Sequenced
<1>6. HandleIsFile /\ SentUpTo
  BY DEF HandleIsFile, SentUpTo, NotResent
<1>7. Calm
  <2>1. \A p \in Pushers : push[p].pc = "idle"
    OBVIOUS
  <2> QED
    BY <2>1 DEF Calm, CalmPush, Unnamed, Covered
<1> QED
  BY <1>1, <1>3, <1>4, <1>5, <1>6, <1>7, Zenon DEF LogTypes, CalmUnlessDisturbed

\* Types, for any number of queries, names, restores, pushes and incidents.
THEOREM SharingTypeCorrect == SharingSpec => []SharingTypeOK
<1> QED
  BY InitLogSharing, LogTypesStep, FlagsStep, LogTypesFlags, PTL DEF SharingSpec

\* However many restores overlap, with each other and with a crash, once none is under
\* way the process writes to the file at DBPath (handleRestore, initDB).
THEOREM WritesToItsFile == SharingSpec => []HandleIsFile
<1>1. LogTypes /\ HandleIsFile /\ [SharingNext]_logSharingVars => HandleIsFile'
  BY HandleStep DEF LogTypes
<1> QED
  BY <1>1, InitLogSharing, LogTypesStep, PTL DEF SharingSpec

\* The position never goes back behind an acknowledged row, in whatever order the
\* answers to overlapping pushes come (SyncClusterLogs).
THEOREM NoneTwice == SharingSpec => []NotResent
<1>1. SentUpTo => NotResent
  BY DEF SentUpTo
<1> QED
  BY <1>1, InitLogSharing, LogTypesStep, SentUpToStep, PTL DEF SharingSpec

\* Nor does it pass a row of this node that no answered push contained, unless a
\* restore or a change of name disturbs it: not when requests are lost or limited, when
\* a flush that began earlier commits later, or when the node gets its first name
\* between two pushes (SyncClusterLogs, flushLogs).
THEOREM NonePassedOver == SharingSpec => []NoneSkipped
<1>1. LogTypes /\ AllSequenced /\ [SharingNext]_logSharingVars => AllSequenced'
  BY AllSequencedStep DEF LogTypes
<1>2. CalmUnlessDisturbed => NoneSkipped
  BY Zenon DEF CalmUnlessDisturbed, Calm, Covered, NoneSkipped
<1> QED
  BY <1>1, <1>2, InitLogSharing, LogTypesStep, CalmStep, PTL DEF SharingSpec
=============================================================================
