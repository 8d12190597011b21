--------------------------- MODULE CorefileProofs ---------------------------
(***************************************************************************)
(* Proofs about the files the program regenerates, and the Corefile first  *)
(* of all.  First part: how a file is replaced (module AtomicFile), for    *)
(* any number of writers: types for every file, and for a locked one the   *)
(* promise of WholeFile.  Second part: what the Corefile and the feed's    *)
(* updater follow (module Updaters), for any upstreams, handlers and       *)
(* settings.                                                               *)
(***************************************************************************)
EXTENDS AtomicFile, Updaters, FiniteSetTheorems, TLAPS

\* Every behaviour of the code starts in the inductive invariant.
LEMMA InitIInv == Init => IInv
<1> SUFFICES ASSUME Init PROVE IInv
  OBVIOUS
<1>1. TypeOK
  <2>1. locked \in BOOLEAN /\ failed \in BOOLEAN /\ crowded \in BOOLEAN
    BY Zenon DEF Init
  <2> QED
    BY <2>1 DEF Init, TypeOK, Contents, Whole, Stages
<1>2. OpenWhileWriting /\ LockInv
  BY DEF Init, OpenWhileWriting, LockInv, Active, Whole
<1> QED
  BY <1>1, <1>2 DEF IInv, TypeInv

\* Types, and that an inode has one name and writers that are still at work.
LEMMA TypeStep ==
  ASSUME TypeInv, [Next]_vars PROVE TypeInv'
<1> USE DEF Contents, Whole, Stages, Goes, TypeInv, TypeOK, OpenWhileWriting
<1>1. CASE UNCHANGED vars
  BY <1>1 DEF vars
<1>2. CASE Crash
  BY <1>2 DEF Crash
<1>3. ASSUME NEW w \in Writers, Step(w) PROVE TypeInv'
  <2> USE AtomicFileAssumption
  <2>1. CASE Open(w)
    <3> DEFINE busy == Cardinality({v \in Writers : Active(v)}) >= 2
    <3>1. crowded' = (crowded \/ busy)
      BY <2>1 DEF Open
    <3>2. crowded' \in BOOLEAN
      <4> HIDE DEF busy
      <4> QED
        BY <3>1, Zenon
    <3>3. tmpOf' = Opened(tmp, tmpOf, w) /\ tmp' = Empty /\ pc[w] = "idle"
          /\ pc' = [pc EXCEPT ![w] = "opened"]
          /\ UNCHANGED <<locked, file, fileOf, failed>>
      BY <2>1 DEF Open
    <3> QED
      BY <3>2, <3>3 DEF Opened
  <2>2. CASE Write(w)
    BY <2>2 DEF Write, WriteInto, Over
  <2>3. CASE WriteFails(w)
    BY <2>3 DEF WriteFails, WriteInto
  <2>4. CASE GiveUp(w)
    BY <2>4 DEF GiveUp
  <2>5. CASE Rename(w)
    BY <2>5 DEF Rename, Renamed
  <2>6. CASE Remove(w)
    BY <2>6 DEF Remove
  <2>7. CASE RenameAgain(w)
    BY <2>7 DEF RenameAgain, Renamed, FallsBackTo
  <2>8. CASE Truncate(w)
    BY <2>8 DEF Truncate, Opened
  <2>9. CASE WriteDirect(w)
    BY <2>9 DEF WriteDirect, WriteInto, Over
  <2>10. CASE RemoveTmp(w)
    BY <2>10 DEF RemoveTmp
  <2> QED
    BY <1>3, <2>1, <2>2, <2>3, <2>4, <2>5, <2>6, <2>7, <2>8, <2>9, <2>10
    DEF Step
<1> QED
  BY <1>1, <1>2, <1>3 DEF Next

\* Under the lock, and where a rename replaces, a write goes from opening to
\* renaming or giving up with nobody in between.
LEMMA LockStep ==
  ASSUME RenameReplaces, IInv, [Next]_vars, locked PROVE LockInv'
<1> USE DEF IInv, TypeInv, LockInv, Whole, Goes, Active
<1>1. pc \in [Writers -> Stages]
  BY DEF TypeOK
<1>2. CASE UNCHANGED vars
  BY <1>2 DEF vars
<1>3. CASE Crash
  BY <1>1, <1>3 DEF Crash, Stages
<1>4. ASSUME NEW w \in Writers, Step(w) PROVE LockInv'
  <2> USE <1>1, AtomicFileAssumption
  <2>1. CASE Open(w)
    BY <2>1 DEF Open, LockFree, Opened
  <2>2. CASE Write(w)
    BY <2>2 DEF Write, WriteInto, Over
  <2>3. CASE WriteFails(w)
    BY <2>3 DEF WriteFails, WriteInto
  <2>4. CASE GiveUp(w)
    BY <2>4 DEF GiveUp
  <2>5. CASE Rename(w)
    <3>1. tmp = w /\ pc[w] = "written"
      BY <2>5 DEF Rename
    <3>2. tmpOf = {}
      BY <3>1 DEF OpenWhileWriting, TypeOK
    <3> QED
      BY <2>5, <3>1, <3>2 DEF Rename, Renamed, CanRename
  <2>6. ~(Remove(w) \/ RenameAgain(w) \/ Truncate(w) \/ WriteDirect(w)
            \/ RemoveTmp(w))
    BY DEF Remove, RenameAgain, Truncate, WriteDirect, RemoveTmp
  <2> QED
    BY <1>4, <2>1, <2>2, <2>3, <2>4, <2>5, <2>6 DEF Step
<1> QED
  BY <1>2, <1>3, <1>4 DEF Next

\* Whether a file is locked does not change.
LEMMA LockedStays == [Next]_vars => locked' = locked
BY DEF Next, Step, Open, Write, WriteFails, GiveUp, Rename, Remove, RenameAgain,
       Truncate, WriteDirect, RemoveTmp, Crash, vars

\* Types hold for every file, whoever writes it (config.go:351-388).
THEOREM TypeCorrect == Spec => []TypeOK
<1>1. Init => TypeInv
  BY InitIInv DEF IInv
<1>2. TypeInv /\ [Next]_vars => TypeInv'
  BY TypeStep
<1>3. TypeInv => TypeOK
  BY DEF TypeInv
<1> QED
  BY <1>1, <1>2, <1>3, PTL DEF Spec

\* A locked file keeps the promise of WholeFile: where a rename replaces, readers
\* see the first contents or those of one write, at every moment and after a crash.
THEOREM ImplementsWholeFile == RenameReplaces => (Spec => WholeFileSpec)
<1> SUFFICES ASSUME RenameReplaces PROVE Spec => WholeFileSpec
  OBVIOUS
<1> DEFINE seen == IF locked THEN file ELSE Old
<1>1. Init => seen = Old
  BY DEF Init
<1>2. IInv /\ [Next]_vars => IInv'
  BY TypeStep, LockStep, LockedStays DEF IInv
<1>3. IInv /\ [Next]_vars => [\E v \in Writers : WholeFile!Replace(v)]_seen
  <2> SUFFICES ASSUME IInv, [Next]_vars, locked, file' # file
               PROVE  file' \in Writers
    BY LockedStays DEF WholeFile!Replace
  <2>1. PICK w \in Writers : Step(w)
    BY DEF Next, Crash, vars
  <2>2. Rename(w)
    <3> USE <2>1 DEF IInv, LockInv
    <3>1. w \notin fileOf /\ pc[w] \in {"idle", "opened", "written", "failing", "ended"}
      OBVIOUS
    <3> QED
      BY <3>1 DEF Step, Open, Write, WriteFails, GiveUp, Remove, RenameAgain,
                  Truncate, WriteDirect, RemoveTmp, WriteInto
  <2> QED
    BY <2>2 DEF Rename, Renamed, CanRename, IInv, LockInv
<1> QED
  BY <1>1, <1>2, <1>3, InitIInv, PTL DEF Spec, WholeFileSpec, WholeFile!Spec

-----------------------------------------------------------------------------
(* Two writers without a lock                                              *)

Busy == {w \in Writers : Active(w)}

\* The temporary file is f's own: it has opened it, or written it.
Fresh(f) ==
  \/ pc[f] = "opened" /\ tmp = Empty /\ tmpOf = {f}
  \/ pc[f] = "written" /\ tmp = f /\ tmpOf = {}

\* Somebody has taken l's temporary file away: what l does from here on leaves it
\* with the contents of l or with those a fresh writer has renamed meanwhile.
Late(l) ==
  /\ l \notin tmpOf
  /\ \/ pc[l] = "opened" /\ fileOf \subseteq {l}
     \/ pc[l] \in {"written", "remove", "retry", "direct"} /\ fileOf = {}
     \/ pc[l] = "truncated" /\ \/ file = Empty /\ fileOf = {l}
                               \/ file \in Whole /\ fileOf = {}
     \/ pc[l] = "cleanup" /\ file \in Whole /\ fileOf = {}

NoTmp    == tmp = Missing /\ tmpOf = {}
FileGood == file \in Whole /\ fileOf = {}

\* Who is at work, and with what.
Quiet         == Busy = {} /\ NoTmp /\ FileGood
OneFresh(f)   == Busy = {f} /\ Fresh(f) /\ FileGood
OneLate(l)    == Busy = {l} /\ Late(l) /\ NoTmp
FreshLate(f, l) == f # l /\ Busy = {f, l} /\ Fresh(f) /\ Late(l)
\* Both have opened one temporary file and neither has renamed it.
Shared(u, v) ==
  /\ u # v /\ Busy = {u, v} /\ FileGood /\ tmp # Missing
  /\ \A w \in {u, v} : pc[w] \in {"opened", "written"}
  /\ tmpOf = {w \in {u, v} : pc[w] = "opened"}

Orderly ==
  \/ Quiet
  \/ \E f \in Writers : OneFresh(f)
  \/ \E l \in Writers : OneLate(l)
  \/ \E f, l \in Writers : FreshLate(f, l)
  \/ \E u, v \in Writers : Shared(u, v)

OrderlyUnless == failed \/ crowded \/ Orderly

LEMMA PcIs ==
  ASSUME TypeOK, NEW w \in Writers, NEW stage, Goes(w, stage)
  PROVE  /\ pc'[w] = stage /\ \A v \in Writers \ {w} : pc'[v] = pc[v]
         /\ Busy' = IF stage \in {"idle", "ended"} THEN Busy \ {w} ELSE Busy \cup {w}
BY DEF TypeOK, Goes, Busy, Active

\* Three writers at once are what crowded says.
LEMMA TwoAtMost ==
  ASSUME NEW w \in Writers, Open(w), ~crowded', NEW u, NEW v, Busy = {u, v}
  PROVE  u = v
<1> SUFFICES ASSUME u # v PROVE FALSE
  OBVIOUS
<1>1. ~(Cardinality(Busy) >= 2)
  BY Zenon DEF Open, Busy
<1>2. IsFiniteSet({u}) /\ Cardinality({u}) = 1
  BY FS_Singleton
<1>3. Cardinality({u} \cup {v}) = 2
  BY <1>2, FS_AddElement
<1>4. {u} \cup {v} = Busy
  OBVIOUS
<1> QED
  BY <1>1, <1>3, <1>4

\* A writer that opens the temporary file shares it with one that has it open, and
\* takes it away from one that has written it.
LEMMA OpenOrderly ==
  ASSUME AtomicFileAssumption, TypeOK, Orderly, NEW w \in Writers, Open(w), ~crowded'
  PROVE  Orderly'
<1> USE DEF FileGood, NoTmp, Opened, AtomicFileAssumption, Whole
<1>1. /\ w \notin Busy /\ pc'[w] = "opened" /\ \A v \in Writers \ {w} : pc'[v] = pc[v]
      /\ Busy' = Busy \cup {w}
  BY PcIs DEF Open, Busy, Active
<1>2. /\ tmp' = Empty /\ tmpOf' = Opened(tmp, tmpOf, w) /\ UNCHANGED <<file, fileOf>>
  BY DEF Open
<1>3. CASE Quiet
  <2>1. OneFresh(w)'
    BY <1>1, <1>2, <1>3 DEF Quiet, OneFresh, Fresh
  <2> QED
    BY <2>1 DEF Orderly
<1>4. ASSUME NEW f \in Writers, OneFresh(f) PROVE Orderly'
  <2>1. f # w
    BY <1>1, <1>4 DEF OneFresh
  <2>2. CASE pc[f] = "opened"
    <3>1. Shared(f, w)'
      BY <1>1, <1>2, <1>4, <2>1, <2>2 DEF OneFresh, Fresh, Shared
    <3> QED
      BY <3>1 DEF Orderly
  <2>3. CASE pc[f] = "written"
    <3>1. FreshLate(w, f)'
      BY <1>1, <1>2, <1>4, <2>1, <2>3 DEF OneFresh, Fresh, Late, FreshLate
    <3> QED
      BY <3>1 DEF Orderly
  <2> QED
    BY <1>4, <2>2, <2>3 DEF OneFresh, Fresh
<1>5. ASSUME NEW l \in Writers, OneLate(l) PROVE Orderly'
  <2>1. FreshLate(w, l)'
    BY <1>1, <1>2, <1>5 DEF OneLate, Fresh, Late, FreshLate
  <2> QED
    BY <2>1 DEF Orderly
<1>6. ASSUME NEW u \in Writers, NEW v \in Writers, FreshLate(u, v) \/ Shared(u, v)
      PROVE  FALSE
  BY <1>6, TwoAtMost DEF FreshLate, Shared
<1> QED
  BY <1>3, <1>4, <1>5, <1>6 DEF Orderly

\* A writer that writes the inode it has open remains what it was.
LEMMA WriteOrderly ==
  ASSUME AtomicFileAssumption, TypeOK, Orderly, NEW w \in Writers, Write(w)
  PROVE  Orderly'
<1> USE DEF FileGood, NoTmp, AtomicFileAssumption, Whole
<1>1. /\ w \in Busy /\ pc[w] = "opened" /\ pc'[w] = "written"
      /\ \A v \in Writers \ {w} : pc'[v] = pc[v]
      /\ Busy' = Busy
  BY PcIs DEF Write, Busy, Active
<1>2. /\ IF w \in tmpOf THEN tmp' \in Over(tmp, w) ELSE UNCHANGED tmp
      /\ IF w \in fileOf THEN file' \in Over(file, w) ELSE UNCHANGED file
      /\ fileOf' = fileOf \ {w} /\ tmpOf' = tmpOf \ {w}
  BY DEF Write, WriteInto
<1>3. ~Quiet
  BY <1>1 DEF Quiet
<1>4. ASSUME NEW f \in Writers, OneFresh(f) PROVE Orderly'
  <2>1. f = w /\ OneFresh(f)'
    BY <1>1, <1>2, <1>4 DEF OneFresh, Fresh, Over
  <2> QED
    BY <2>1 DEF Orderly
<1>5. ASSUME NEW l \in Writers, OneLate(l) PROVE Orderly'
  <2>1. l = w /\ OneLate(l)'
    BY <1>1, <1>2, <1>5 DEF OneLate, Late
  <2> QED
    BY <2>1 DEF Orderly
<1>6. ASSUME NEW f \in Writers, NEW l \in Writers, FreshLate(f, l) PROVE Orderly'
  <2>1. CASE w = f
    <3>1. FreshLate(f, l)'
      BY <1>1, <1>2, <1>6, <2>1 DEF FreshLate, Fresh, Late, Over
    <3> QED
      BY <3>1 DEF Orderly
  <2>2. CASE w = l
    <3>1. FreshLate(f, l)'
      BY <1>1, <1>2, <1>6, <2>2 DEF FreshLate, Fresh, Late
    <3> QED
      BY <3>1 DEF Orderly
  <2> QED
    BY <1>1, <1>6, <2>1, <2>2 DEF FreshLate
<1>7. ASSUME NEW u \in Writers, NEW v \in Writers, Shared(u, v) PROVE Orderly'
  <2>1. tmp' # Missing
    BY <1>2, <1>7 DEF Shared, Over
  <2>2. Shared(u, v)'
    BY <1>1, <1>2, <1>7, <2>1 DEF Shared
  <2> QED
    BY <2>2 DEF Orderly
<1> QED
  BY <1>3, <1>4, <1>5, <1>6, <1>7 DEF Orderly

\* Whoever renames takes what is there, and the other one is late; who finds nothing
\* to rename is late.
LEMMA RenameOrderly ==
  ASSUME AtomicFileAssumption, RenameReplaces, TypeOK, Orderly, NEW w \in Writers,
         Rename(w) \/ RenameAgain(w)
  PROVE  Orderly'
<1> USE DEF FileGood, NoTmp, AtomicFileAssumption, Whole
<1>1. w \in Busy /\ pc[w] \in {"written", "retry"}
  BY DEF Rename, RenameAgain, Busy, Active
<1>2. CASE tmp # Missing
  <2>1. /\ file' = tmp /\ fileOf' = tmpOf /\ tmp' = Missing /\ tmpOf' = {}
        /\ Goes(w, "ended")
    BY <1>2 DEF Rename, RenameAgain, CanRename, Renamed
  <2>2. Busy' = Busy \ {w} /\ \A v \in Writers \ {w} : pc'[v] = pc[v]
    BY <2>1, PcIs
  <2>3. ASSUME NEW f \in Writers, OneFresh(f) PROVE Orderly'
    <3>1. f = w /\ Quiet'
      BY <1>1, <2>1, <2>2, <2>3 DEF OneFresh, Fresh, Quiet
    <3> QED
      BY <3>1 DEF Orderly
  <2>4. ASSUME NEW f \in Writers, NEW l \in Writers, FreshLate(f, l) PROVE Orderly'
    <3>1. CASE w = f
      <4>1. OneLate(l)'
        BY <1>1, <2>1, <2>2, <2>4, <3>1 DEF FreshLate, Fresh, Late, OneLate
      <4> QED
        BY <4>1 DEF Orderly
    <3>2. CASE w = l
      <4>1. OneLate(f)'
        BY <1>1, <2>1, <2>2, <2>4, <3>2 DEF FreshLate, Fresh, Late, OneLate
      <4> QED
        BY <4>1 DEF Orderly
    <3> QED
      BY <1>1, <2>4, <3>1, <3>2 DEF FreshLate
  <2>5. ASSUME NEW u \in Writers, NEW v \in Writers, Shared(u, v), w = u \/ w = v
        PROVE  Orderly'
    <3>1. PICK l \in {u, v} : l # w /\ l \in Writers
      BY <2>5 DEF Shared
    <3>2. OneLate(l)'
      BY <1>1, <2>1, <2>2, <2>5, <3>1 DEF Shared, Late, OneLate
    <3> QED
      BY <3>1, <3>2 DEF Orderly
  <2> QED
    BY <1>1, <1>2, <2>3, <2>4, <2>5 DEF Orderly, Quiet, OneLate, Shared
<1>3. CASE tmp = Missing
  <2>1. /\ UNCHANGED <<file, fileOf, tmp, tmpOf>>
        /\ \/ pc[w] = "written" /\ Goes(w, "remove")
           \/ pc[w] = "retry" /\ Goes(w, "direct")
    BY <1>3 DEF Rename, RenameAgain, CanRename, FallsBackTo
  <2>2. Busy' = Busy /\ pc'[w] \in {"remove", "direct"}
    BY <1>1, <2>1, PcIs
  <2>3. PICK l \in Writers : OneLate(l)
    BY <1>1, <1>3 DEF Orderly, Quiet, OneFresh, FreshLate, Fresh, Shared
  <2>4. l = w /\ OneLate(l)'
    BY <1>1, <2>1, <2>2, <2>3 DEF OneLate, Late
  <2> QED
    BY <2>4 DEF Orderly
<1> QED
  BY <1>2, <1>3

\* The other steps of a late writer, which leave a fresh one alone or make it late.
LEMMA LateOrderly ==
  ASSUME AtomicFileAssumption, TypeOK, Orderly, NEW w \in Writers,
         Remove(w) \/ Truncate(w) \/ WriteDirect(w) \/ RemoveTmp(w)
  PROVE  Orderly'
<1> USE DEF FileGood, NoTmp, AtomicFileAssumption, Whole
<1>1. w \in Busy /\ pc[w] \in {"remove", "direct", "truncated", "cleanup"}
  BY DEF Remove, Truncate, WriteDirect, RemoveTmp, Busy, Active
<1>2. OneLate(w) \/ \E f \in Writers : FreshLate(f, w)
  BY <1>1 DEF Orderly, Quiet, OneFresh, Fresh, OneLate, FreshLate, Shared
<1>3. w \notin tmpOf
  BY <1>2 DEF OneLate, FreshLate, Late
<1>4. CASE RemoveTmp(w)
  <2>1. /\ Busy' = Busy \ {w} /\ \A v \in Writers \ {w} : pc'[v] = pc[v]
        /\ NoTmp' /\ UNCHANGED <<file, fileOf>> /\ FileGood /\ pc[w] = "cleanup"
    BY <1>2, <1>4, PcIs DEF RemoveTmp, OneLate, FreshLate, Late
  <2>2. CASE OneLate(w)
    <3>1. Quiet'
      BY <2>1, <2>2 DEF OneLate, Quiet
    <3> QED
      BY <3>1 DEF Orderly
  <2>3. ASSUME NEW f \in Writers, FreshLate(f, w) PROVE Orderly'
    <3>1. OneLate(f)'
      BY <2>1, <2>3 DEF FreshLate, Fresh, OneLate, Late
    <3> QED
      BY <3>1 DEF Orderly
  <2> QED
    BY <1>2, <2>2, <2>3
<1>5. ASSUME Late(w)', Busy' = Busy, UNCHANGED <<tmp, tmpOf>>,
             \A v \in Writers \ {w} : pc'[v] = pc[v]
      PROVE  Orderly'
  <2>1. CASE OneLate(w)
    <3>1. OneLate(w)'
      BY <1>5, <2>1 DEF OneLate
    <3> QED
      BY <3>1 DEF Orderly
  <2>2. ASSUME NEW f \in Writers, FreshLate(f, w) PROVE Orderly'
    <3>1. FreshLate(f, w)'
      BY <1>5, <2>2 DEF FreshLate, Fresh
    <3> QED
      BY <3>1 DEF Orderly
  <2> QED
    BY <1>2, <2>1, <2>2
<1>6. CASE Remove(w) \/ Truncate(w) \/ WriteDirect(w)
  <2>1. UNCHANGED <<tmp, tmpOf>>
    BY <1>3, <1>6 DEF Remove, Truncate, WriteDirect, WriteInto
  <2>2. Busy' = Busy /\ \A v \in Writers \ {w} : pc'[v] = pc[v]
    BY <1>1, <1>6, PcIs DEF Remove, Truncate, WriteDirect
  <2>3. Late(w)
    BY <1>2 DEF OneLate, FreshLate
  <2>4. CASE Remove(w)
    BY <1>5, <2>1, <2>2, <2>3, <2>4, PcIs DEF Remove, Late
  <2>5. CASE Truncate(w)
    BY <1>5, <2>1, <2>2, <2>3, <2>5, PcIs DEF Truncate, Opened, Late
  <2>6. CASE WriteDirect(w)
    BY <1>5, <2>1, <2>2, <2>3, <2>6, PcIs DEF WriteDirect, WriteInto, Over, Late
  <2> QED
    BY <1>6, <2>4, <2>5, <2>6
<1> QED
  BY <1>4, <1>6

LEMMA OrderlyStep ==
  ASSUME AtomicFileAssumption, RenameReplaces, TypeOK, OrderlyUnless, [Next]_vars
  PROVE  OrderlyUnless'
<1> SUFFICES ASSUME ~failed', ~crowded' PROVE Orderly'
  BY DEF OrderlyUnless
<1>1. CASE UNCHANGED vars
  BY <1>1 DEF vars, OrderlyUnless, Orderly, Quiet, OneFresh, OneLate, FreshLate, Shared, Fresh,
              Late, NoTmp, FileGood, Busy, Active
<1>2. ~Crash
  BY Zenon DEF Crash
<1>3. ASSUME NEW w \in Writers, Step(w) PROVE Orderly'
  <2>1. ~WriteFails(w)
    BY Zenon DEF WriteFails
  <2>2. ~failed
    <3>1. UNCHANGED failed
      BY <1>3, <2>1
      DEF Step, Open, Write, GiveUp, Rename, Remove, RenameAgain, Truncate, WriteDirect, RemoveTmp
    <3> QED
      BY <3>1, Zenon
  <2>3. ~crowded
    BY <1>3, <2>1, Zenon DEF Step, Open, Write, GiveUp, Rename, Remove, RenameAgain, Truncate,
                             WriteDirect, RemoveTmp
  <2>4. Orderly
    BY <2>2, <2>3, Zenon DEF OrderlyUnless
  <2>5. ~GiveUp(w)
    <3> SUFFICES ASSUME GiveUp(w) PROVE FALSE
      OBVIOUS
    <3>1. pc[w] = "failing" /\ w \in Busy
      BY DEF GiveUp, Busy, Active
    <3> QED
      BY <2>4, <3>1 DEF Orderly, Quiet, OneFresh, OneLate, FreshLate, Shared, Fresh, Late
  <2> QED
    BY <1>3, <2>1, <2>4, <2>5, OpenOrderly, WriteOrderly, RenameOrderly, LateOrderly DEF Step
<1> QED
  BY <1>1, <1>2, <1>3 DEF Next

\* Where a rename replaces, two writers at a time leave the contents of one of them,
\* whatever they did to each other's temporary files and however many came one after
\* another: the one whose file was taken away writes again (config.go:375-386).
THEOREM OneOfThem == RenameReplaces => (Spec => []WholeAtRest)
<1> SUFFICES ASSUME RenameReplaces PROVE Spec => []WholeAtRest
  OBVIOUS
<1> USE AtomicFileAssumption
<1>1. Init => TypeInv /\ OrderlyUnless
  <2> SUFFICES ASSUME Init PROVE OrderlyUnless
    BY InitIInv DEF IInv
  <2>1. Quiet
    BY DEF Init, Quiet, NoTmp, FileGood, Busy, Active, Whole
  <2> QED
    BY <2>1, Zenon DEF OrderlyUnless, Orderly
<1>2. TypeInv /\ [Next]_vars => TypeInv'
  BY TypeStep
<1>3. TypeInv /\ OrderlyUnless /\ [Next]_vars => OrderlyUnless'
  BY OrderlyStep DEF TypeInv
<1>4. OrderlyUnless => WholeAtRest
  <2> SUFFICES ASSUME OrderlyUnless, NoneActive, ~failed, ~crowded PROVE file \in Whole
    BY DEF WholeAtRest
  <2>1. Orderly
    BY Zenon DEF OrderlyUnless
  <2>2. Busy = {}
    BY DEF NoneActive, Busy
  <2> QED
    BY <2>1, <2>2 DEF Orderly, Quiet, OneFresh, OneLate, FreshLate, Shared, FileGood
<1> QED
  BY <1>1, <1>2, <1>3, <1>4, PTL DEF Spec

-----------------------------------------------------------------------------
(* What the Corefile and the feed's updater follow (module Updaters)        *)

\* The records of a check and of a handler.
LEMMA WorkerTypes ==
  /\ Idle.pc = "idle"
  /\ Out \in [pc : {"out", "notify", "clone", "write"}, ups : SUBSET Servers]
  /\ Idle \in [pc : {"idle", "probe", "clone", "write"}, ups : SUBSET Servers,
                 smart : BOOLEAN, left : SUBSET Servers, found : SUBSET Servers]
BY DEF Idle, Out

\* Every step of the check, of a handler, of the feed and of the settings keeps the
\* types.
LEMMA UpdatersTypeStep ==
  ASSUME UpdatersTypeOK, [UpdatersNext]_updatersVars PROVE UpdatersTypeOK'
<1> USE WorkerTypes, UpdatersAssumption DEF UpdatersTypeOK
<1>1. CASE UNCHANGED updatersVars
  BY <1>1 DEF updatersVars, settings, checkVars, feedVars
<1>2. CASE CheckStart
  BY <1>2 DEF CheckStart, settings, feedVars
<1>3. ASSUME NEW u \in Servers, Probe(u) PROVE UpdatersTypeOK'
  BY <1>3 DEF Probe, settings, feedVars
<1>4. CASE ReplaceHealthy
  BY <1>4 DEF ReplaceHealthy, AfterCheck, SomethingNew, settings, feedVars
<1>5. ASSUME NEW ups \in SUBSET Servers, WriteCorefile(ups)
      PROVE  /\ corefile' \subseteq Servers \cup Fallback
             /\ lag' \subseteq {"smart was off", "overtaken"}
  BY <1>5 DEF WriteCorefile, Listed
<1>6. CASE CheckClone
  BY <1>6 DEF CheckClone, settings, feedVars
<1>7. CASE CheckWrite
  <2>1. check.ups \in SUBSET Servers
    OBVIOUS
  <2> QED
    BY <1>5, <1>7, <2>1 DEF CheckWrite, WriteCorefile, settings, feedVars
<1>8. ASSUME NEW h \in Handlers, Clone(h) PROVE UpdatersTypeOK'
  BY <1>8 DEF Clone, settings, checkVars, feedVars
<1>9. ASSUME NEW h \in Handlers, WriteOut(h) PROVE UpdatersTypeOK'
  <2>1. writer[h].ups \in SUBSET Servers
    OBVIOUS
  <2> QED
    BY <1>5, <1>9, <2>1 DEF WriteOut, WriteCorefile, settings, feedVars
<1>10. ASSUME NEW h \in Handlers, Notify(h) PROVE UpdatersTypeOK'
  <2>1. signal' \in BOOLEAN /\ untold' \in BOOLEAN
    BY <1>10, Zenon DEF Notify, Buffered
  <2>2. PICK next \in {"clone", "out"} : writer' = [writer EXCEPT ![h].pc = next]
    BY <1>10 DEF Notify
  <2>3. writer' \in [Handlers -> [pc : {"out", "notify", "clone", "write"}, ups : SUBSET Servers]]
    BY <2>2
  <2>4. UNCHANGED <<configured, smart, feed, up, healthy, check, corefile, flips, lag, edits,
                    updater>>
    BY <1>10 DEF Notify, settings, checkVars
  <2> QED
    BY <2>1, <2>3, <2>4
<1>11. CASE UpdaterReads \/ UpdaterSyncs \/ UpdaterIsTold
  <2>1. signal' \in BOOLEAN
    BY <1>11, Zenon DEF UpdaterReads, UpdaterSyncs, UpdaterIsTold
  <2>2. updater' \in [pc : {"read", "wait", "sync"}, view : Feeds]
    <3>1. feed \in Feeds /\ updater \in [pc : {"read", "wait", "sync"}, view : Feeds]
      BY Zenon
    <3>2. \/ updater' = [pc |-> "wait", view |-> feed]
          \/ \E to \in {"read", "wait", "sync"} : updater' = [updater EXCEPT !.pc = to]
      BY <1>11, Zenon DEF UpdaterReads, UpdaterSyncs, UpdaterIsTold
    <3> QED
      BY ONLY <3>1, <3>2
  <2>3. UNCHANGED <<configured, smart, feed, up, healthy, check, corefile, flips, lag, edits,
                    writer, untold>>
    BY <1>11, Zenon
    DEF UpdaterReads, UpdaterSyncs, UpdaterIsTold, settings, checkVars
  <2> QED
    BY <2>1, <2>2, <2>3
<1>12. ASSUME NEW h \in Handlers, NEW ways \in SUBSET {"out", "notify", "clone"},
              Change(h, ways)
       PROVE  /\ edits' \in 0 .. MaxEdits /\ feed' \in Feeds /\ untold' \in BOOLEAN
              /\ writer' \in [Handlers -> [pc : {"out", "notify", "clone", "write"},
                                           ups : SUBSET Servers]]
              /\ UNCHANGED <<checkVars, updater, signal>>
  <2>1. PICK next \in ways :
          /\ writer' = [writer EXCEPT ![h] = [pc |-> next, ups |-> {}]]
          /\ untold' = (untold \/ (next # "notify" /\ feed' # feed))
    BY <1>12 DEF Change
  <2>2. untold' \in BOOLEAN
    BY <2>1, Zenon
  <2>3. edits' \in 0 .. MaxEdits
    <3>1. edits \in 0 .. MaxEdits /\ edits < MaxEdits /\ edits' = edits + 1 /\ MaxEdits \in Nat
      BY <1>12, Zenon DEF Change
    <3> QED
      BY ONLY <3>1
  <2>4. writer' \in [Handlers -> [pc : {"out", "notify", "clone", "write"}, ups : SUBSET Servers]]
    BY <2>1
  <2>5. feed' \in Feeds /\ UNCHANGED <<checkVars, updater, signal>>
    BY <1>12 DEF Change
  <2> QED
    BY <2>2, <2>3, <2>4, <2>5
<1>13. ASSUME NEW h \in Handlers, ChangeSettings(h) \/ ToggleFeed(h) PROVE UpdatersTypeOK'
  <2>1. Change(h, {"notify", "clone", "out"}) \/ Change(h, {"notify", "out"})
    BY <1>13 DEF ChangeSettings, ToggleFeed
  <2> QED
    BY <1>12, <1>13, <2>1 DEF ChangeSettings, ToggleFeed, checkVars
<1>14. ASSUME NEW u \in Servers, Flip(u) PROVE UpdatersTypeOK'
  <2>1. flips' \in 0 .. MaxFlips
    <3>1. flips \in 0 .. MaxFlips /\ flips < MaxFlips /\ flips' = flips + 1 /\ MaxFlips \in Nat
      BY <1>14, Zenon DEF Flip
    <3> QED
      BY ONLY <3>1
  <2>2. up' \subseteq Servers
    BY <1>14 DEF Flip
  <2>3. UNCHANGED <<configured, smart, feed, healthy, check, corefile, lag, edits, writer,
                    updater, signal, untold>>
    BY <1>14, Zenon DEF Flip, settings, feedVars
  <2> QED
    BY <2>1, <2>2, <2>3
<1>15. CASE Restart
  <2>1. edits' \in 0 .. MaxEdits
    <3>1. edits \in 0 .. MaxEdits /\ edits < MaxEdits /\ edits' = edits + 1 /\ MaxEdits \in Nat
      BY <1>15, Zenon DEF Restart
    <3> QED
      BY ONLY <3>1
  <2>2. signal' \in BOOLEAN /\ untold' \in BOOLEAN
    BY <1>15, Zenon DEF Restart
  <2>3. /\ healthy' \subseteq Servers /\ corefile' \subseteq Servers \cup Fallback
        /\ check' = Idle /\ lag' = {}
        /\ writer' \in [Handlers -> [pc : {"out", "notify", "clone", "write"}, ups : SUBSET Servers]]
        /\ updater' \in [pc : {"read", "wait", "sync"}, view : Feeds]
    BY <1>15 DEF Restart
  <2>4. UNCHANGED <<configured, smart, feed, up, flips>>
    BY <1>15, Zenon DEF Restart, settings
  <2> QED
    BY <2>1, <2>2, <2>3, <2>4
<1> QED
  BY <1>1, <1>2, <1>3, <1>4, <1>6, <1>7, <1>8, <1>9, <1>10, <1>11, <1>13, <1>14, <1>15
  DEF UpdatersNext, CheckStep, HandlerStep

LEMMA InitUpdaters == UpdatersInit => UpdatersTypeOK /\ LagsOnlyIf
<1> SUFFICES ASSUME UpdatersInit PROVE UpdatersTypeOK /\ LagsOnlyIf
  OBVIOUS
<1>1. smart \in BOOLEAN /\ signal \in BOOLEAN /\ untold \in BOOLEAN
  BY Zenon DEF UpdatersInit
<1>2. UpdatersTypeOK
  BY <1>1, WorkerTypes, UpdatersAssumption DEF UpdatersInit, UpdatersTypeOK
<1> QED
  BY <1>2 DEF UpdatersInit, LagsOnlyIf, Listed

\* Inductive as it stands: the list of healthy upstreams changes only at the end of a
\* check, which then regenerates the Corefile or has set lag; whoever writes the
\* Corefile with another list than the one there is sets it too.
LEMMA LagStep ==
  ASSUME UpdatersTypeOK, LagsOnlyIf, [UpdatersNext]_updatersVars PROVE LagsOnlyIf'
<1> USE WorkerTypes DEF UpdatersTypeOK, LagsOnlyIf
<1>1. CASE UNCHANGED checkVars
  BY <1>1 DEF checkVars, Listed
<1>2. CASE CheckStart
  BY <1>2 DEF CheckStart, Listed
<1>3. ASSUME NEW u \in Servers, Probe(u) PROVE LagsOnlyIf'
  BY <1>3 DEF Probe, Listed
<1>4. CASE ReplaceHealthy
  BY <1>4 DEF ReplaceHealthy, AfterCheck, SomethingNew, Listed
<1>5. CASE CheckClone
  BY <1>5 DEF CheckClone
<1>6. CASE CheckWrite
  BY <1>6 DEF CheckWrite, WriteCorefile, Listed
<1>7. ASSUME NEW h \in Handlers, WriteOut(h) PROVE LagsOnlyIf'
  BY <1>7 DEF WriteOut, WriteCorefile, Listed
<1>8. ASSUME NEW u \in Servers, Flip(u) PROVE LagsOnlyIf'
  BY <1>8 DEF Flip, Listed
<1>9. CASE Restart
  BY <1>9 DEF Restart, Listed
<1>10. ASSUME NEW h \in Handlers,
              Notify(h) \/ Clone(h) \/ ChangeSettings(h) \/ ToggleFeed(h)
       PROVE  UNCHANGED checkVars
  BY <1>10 DEF Notify, Clone, ChangeSettings, ToggleFeed, Change
<1>11. UpdaterReads \/ UpdaterSyncs \/ UpdaterIsTold => UNCHANGED checkVars
  BY DEF UpdaterReads, UpdaterSyncs, UpdaterIsTold
<1>12. UNCHANGED updatersVars => UNCHANGED checkVars
  BY DEF updatersVars
<1> QED
  BY <1>1, <1>2, <1>3, <1>4, <1>5, <1>6, <1>7, <1>8, <1>9, <1>10, <1>11, <1>12
  DEF UpdatersNext, CheckStep, HandlerStep

\* Types, for any upstreams, handlers and settings.
THEOREM UpdatersTypeCorrect == UpdatersSpec => []UpdatersTypeOK
<1> QED
  BY InitUpdaters, UpdatersTypeStep, PTL DEF UpdatersSpec

\* Between checks the Corefile lists what the last check found unless smart selection
\* was off or an older list was written after a newer one, however many handlers
\* regenerate it at the same time and whatever is restarted (dns_upstream.go,
\* updateCorefile).
THEOREM CorefileFollows == UpdatersSpec => []LagsOnlyIf
<1> QED
  BY InitUpdaters, UpdatersTypeStep, LagStep, PTL DEF UpdatersSpec

\* The setting the updater waits with is the one in force, or it will read it, or a
\* signal is in the channel, or somebody is about to send one; or the setting was
\* changed by somebody who tells nobody.
SignalOnItsWay ==
  \/ updater.view = feed \/ updater.pc = "read" \/ signal
  \/ \E h \in Handlers : writer[h].pc = "notify"
  \/ untold

LEMMA SignalStep ==
  ASSUME UpdatersTypeOK, SignalOnItsWay, [UpdatersNext]_updatersVars PROVE SignalOnItsWay'
<1> USE DEF UpdatersTypeOK, SignalOnItsWay
<1>1. CASE UNCHANGED <<feed, feedVars, writer>>
  BY <1>1 DEF feedVars
<1>2. CASE UpdaterReads
  <2>1. updater' = [pc |-> "wait", view |-> feed] /\ feed' = feed
    BY <1>2, Zenon DEF UpdaterReads, settings
  <2> QED
    BY ONLY <2>1 DEF SignalOnItsWay
<1>3. CASE UpdaterSyncs
  <2>1. /\ updater.pc # "read" /\ updater'.view = updater.view
        /\ UNCHANGED <<feed, writer, signal, untold>>
    BY <1>3 DEF UpdaterSyncs, settings
  <2> QED
    BY <2>1
<1>4. CASE UpdaterIsTold
  <2>1. updater'.pc = "read"
    BY <1>4 DEF UpdaterIsTold
  <2> QED
    BY ONLY <2>1 DEF SignalOnItsWay
<1>5. ASSUME NEW h \in Handlers, Notify(h) PROVE SignalOnItsWay'
  BY <1>5 DEF Notify, Buffered
<1>6. ASSUME NEW h \in Handlers, Clone(h) \/ WriteOut(h) PROVE SignalOnItsWay'
  BY <1>6 DEF Clone, WriteOut, WriteCorefile, settings, feedVars, Out
<1>7. ASSUME NEW h \in Handlers, NEW ways, Change(h, ways) PROVE SignalOnItsWay'
  <2>1. PICK next \in ways :
          /\ writer' = [writer EXCEPT ![h] = [pc |-> next, ups |-> {}]]
          /\ untold' = (untold \/ (next # "notify" /\ feed' # feed))
    BY <1>7 DEF Change
  <2>2. writer[h].pc = "out" /\ UNCHANGED <<updater, signal>>
    BY <1>7 DEF Change
  <2>3. CASE next = "notify"
    BY <2>1, <2>3
  <2>4. CASE next # "notify"
    BY <2>1, <2>2, <2>4
  <2> QED
    BY <2>3, <2>4
<1>8. CASE Restart
  BY <1>8 DEF Restart
<1>9. ASSUME NEW u \in Servers, Probe(u) \/ Flip(u)
      PROVE  UNCHANGED <<feed, feedVars, writer>>
  BY <1>9 DEF Probe, Flip, settings
<1>10. CheckStart \/ ReplaceHealthy \/ CheckClone \/ CheckWrite
        => UNCHANGED <<feed, feedVars, writer>>
  BY DEF CheckStart, ReplaceHealthy, CheckClone, CheckWrite, WriteCorefile, settings
<1>11. UNCHANGED updatersVars => UNCHANGED <<feed, feedVars, writer>>
  BY DEF updatersVars, settings
<1> QED
  BY <1>1, <1>2, <1>3, <1>4, <1>5, <1>6, <1>7, <1>8, <1>9, <1>10, <1>11
  DEF UpdatersNext, CheckStep, HandlerStep, ChangeSettings, ToggleFeed

\* No change of the feed's setting is forgotten: the signal that restartMaliciousUpdater
\* drops finds another one in the channel (malicious.go).
THEOREM SignalNotLost == UpdatersSpec => []SignalOnItsWay
<1>1. UpdatersInit => SignalOnItsWay
  BY DEF UpdatersInit, SignalOnItsWay
<1> QED
  BY <1>1, InitUpdaters, UpdatersTypeStep, SignalStep, PTL DEF UpdatersSpec
=============================================================================
