----------------------------- MODULE AtomicFile -----------------------------
(***************************************************************************)
(* atomicWriteFile (admin/config.go): write filename.tmp, sync it, rename  *)
(* it to filename; when the rename fails, remove filename, rename again,   *)
(* and when that fails too write filename directly.                        *)
(*                                                                         *)
(* All writers of a file share the one temporary name.  The writers of     *)
(* config.json hold configLock; those of the Corefile (dns_corefile.go:159)*)
(* and of the hosts files (config_blocklist.go:195) hold no common lock.   *)
(*                                                                         *)
(* A file is the inode its name refers to.  Writers that opened an inode   *)
(* go on writing it after it was renamed, and one that opens an existing   *)
(* file truncates it.  The kernel does each call at once.                  *)
(***************************************************************************)
EXTENDS Naturals, FiniteSets

CONSTANTS
  Writers,         \* calls of atomicWriteFile; each has contents of its own
  Old,             \* what the file contains at first
  Missing, Empty, Torn, \* no file; a truncated one; parts of several contents
  RenameReplaces,  \* does a rename replace an existing file?
  MayFail          \* may writing or syncing fail?

ASSUME AtomicFileAssumption ==
  /\ Old \notin {Missing, Empty, Torn} /\ Missing \notin {Empty, Torn}
  /\ Empty # Torn
  /\ {Old, Missing, Empty, Torn} \cap Writers = {}
  /\ RenameReplaces \in BOOLEAN /\ MayFail \in BOOLEAN

Whole    == Writers \cup {Old}
Contents == Whole \cup {Missing, Empty, Torn}

VARIABLES
  locked, \* do the writers of this file hold a lock?
  file,   \* the contents under filename
  fileOf, \* the writers that have that inode open
  tmp,    \* the contents under filename.tmp
  tmpOf,  \* the writers that have that inode open
  pc,     \* how far each call has got
  failed, \* ghost: a write has failed or the process has ended in one
  crowded \* ghost: three writers have been at work at once

vars == <<locked, file, fileOf, tmp, tmpOf, pc, failed, crowded>>

Stages == {"idle", "opened", "written", "failing", "remove", "retry",
           "direct", "truncated", "cleanup", "ended"}
Active(w) == pc[w] \notin {"idle", "ended"}

TypeOK ==
  /\ locked \in BOOLEAN
  /\ file \in Contents /\ tmp \in Contents
  /\ fileOf \subseteq Writers /\ tmpOf \subseteq Writers
  /\ tmp = Missing => tmpOf = {}
  /\ fileOf \cap tmpOf = {}
  /\ pc \in [Writers -> Stages]
  /\ failed \in BOOLEAN /\ crowded \in BOOLEAN

Init ==
  /\ locked \in BOOLEAN
  /\ file = Old /\ fileOf = {}
  /\ tmp = Missing /\ tmpOf = {}
  /\ pc = [w \in Writers |-> "idle"]
  /\ failed = FALSE /\ crowded = FALSE

Goes(w, stage) == pc' = [pc EXCEPT ![w] = stage]

\* Who has an inode open once w opened the name it is under.
Opened(contents, who, w) == IF contents = Missing THEN {w} ELSE who \cup {w}

\* w writes from the start of an inode with these contents: a shorter text
\* leaves the end of a longer one.
Over(contents, w) == IF contents \in {Empty, w} THEN {w} ELSE {w, Torn}

\* w writes the inode it has open, under whatever name that is by now, and closes
\* it.
WriteInto(w, tmpAfter, fileAfter) ==
  /\ IF w \in tmpOf THEN tmp' \in tmpAfter ELSE UNCHANGED tmp
  /\ IF w \in fileOf THEN file' \in fileAfter ELSE UNCHANGED file
  /\ fileOf' = fileOf \ {w} /\ tmpOf' = tmpOf \ {w}

LockIgnored == TRUE                                   \* mutant
LockFree == locked => \A w \in Writers : ~Active(w)

\* os.OpenFile with O_CREATE and O_TRUNC.
Open(w) ==
  /\ pc[w] = "idle"
  /\ LockFree
  /\ tmp' = Empty
  /\ tmpOf' = Opened(tmp, tmpOf, w)
  /\ Goes(w, "opened")
  /\ crowded' = (crowded \/ Cardinality({v \in Writers : Active(v)}) >= 2)
  /\ UNCHANGED <<locked, file, fileOf, failed>>

\* Write, Sync and Close.
Write(w) ==
  /\ pc[w] = "opened"
  /\ WriteInto(w, Over(tmp, w), Over(file, w))
  /\ Goes(w, "written")
  /\ UNCHANGED <<locked, failed, crowded>>

\* Writing or syncing the temporary file fails, or the direct write.
WriteFails(w) ==
  /\ MayFail
  /\ pc[w] \in {"opened", "truncated"}
  /\ WriteInto(w, {Torn}, {Torn})
  /\ failed' = TRUE
  /\ Goes(w, "failing")
  /\ UNCHANGED <<locked, crowded>>

\* The temporary file is removed and the error returned.
GiveUp(w) ==
  /\ pc[w] = "failing"
  /\ tmp' = Missing /\ tmpOf' = {}
  /\ Goes(w, "ended")
  /\ UNCHANGED <<locked, file, fileOf, failed, crowded>>

CanRename == tmp # Missing /\ (RenameReplaces \/ file = Missing)

Renamed ==
  /\ file' = tmp /\ fileOf' = tmpOf
  /\ tmp' = Missing /\ tmpOf' = {}

Rename(w) ==
  /\ pc[w] = "written"
  /\ \/ CanRename /\ Renamed /\ Goes(w, "ended")
     \/ ~CanRename /\ Goes(w, "remove") /\ UNCHANGED <<file, fileOf, tmp, tmpOf>>
  /\ UNCHANGED <<locked, failed, crowded>>

Remove(w) ==
  /\ pc[w] = "remove"
  /\ file' = Missing /\ fileOf' = {}
  /\ Goes(w, "retry")
  /\ UNCHANGED <<locked, tmp, tmpOf, failed, crowded>>

GivesUpHere == "ended"                                \* mutant
FallsBackTo == "direct"

RenameAgain(w) ==
  /\ pc[w] = "retry"
  /\ \/ CanRename /\ Renamed /\ Goes(w, "ended")
     \/ /\ ~CanRename /\ Goes(w, FallsBackTo)
        /\ UNCHANGED <<file, fileOf, tmp, tmpOf>>
  /\ UNCHANGED <<locked, failed, crowded>>

\* os.WriteFile truncates filename ...
Truncate(w) ==
  /\ pc[w] = "direct"
  /\ file' = Empty
  /\ fileOf' = Opened(file, fileOf, w)
  /\ Goes(w, "truncated")
  /\ UNCHANGED <<locked, tmp, tmpOf, failed, crowded>>

\* ... and writes it.
WriteDirect(w) ==
  /\ pc[w] = "truncated"
  /\ WriteInto(w, Over(tmp, w), Over(file, w))
  /\ Goes(w, "cleanup")
  /\ UNCHANGED <<locked, failed, crowded>>

RemoveTmp(w) ==
  /\ pc[w] = "cleanup"
  /\ tmp' = Missing /\ tmpOf' = {}
  /\ Goes(w, "ended")
  /\ UNCHANGED <<locked, file, fileOf, failed, crowded>>

\* The process ends in the middle of a write; the names stay as they are.
Crash ==
  /\ \E w \in Writers : Active(w)
  /\ pc' = [w \in Writers |-> IF Active(w) THEN "ended" ELSE pc[w]]
  /\ fileOf' = {} /\ tmpOf' = {}
  /\ failed' = TRUE
  /\ UNCHANGED <<locked, file, tmp, crowded>>

Step(w) ==
  \/ Open(w) \/ Write(w) \/ WriteFails(w) \/ GiveUp(w) \/ Rename(w)
  \/ Remove(w) \/ RenameAgain(w) \/ Truncate(w) \/ WriteDirect(w) \/ RemoveTmp(w)

Next == (\E w \in Writers : Step(w)) \/ Crash

Spec == Init /\ [][Next]_vars
-----------------------------------------------------------------------------
(* Properties                                                              *)

\* Inductive: who has an inode open is between opening and writing it; under the
\* lock there is one such writer, and what it renames is its own contents.
OpenWhileWriting ==
  \A w \in fileOf \cup tmpOf : pc[w] \in {"opened", "truncated"}

LockInv ==
  /\ \A v, w \in Writers : Active(v) /\ Active(w) => v = w
  /\ file \in Whole /\ fileOf = {}
  /\ \A w \in Writers :
       /\ pc[w] \in {"idle", "opened", "written", "failing", "ended"}
       /\ pc[w] = "opened" => w \in tmpOf /\ tmp = Empty
       /\ pc[w] = "written" => tmp = w

TypeInv == TypeOK /\ OpenWhileWriting
IInv    == TypeInv /\ (locked => LockInv)

NoneActive == \A w \in Writers : ~Active(w)

\* Under the lock a reader sees the old contents or all of the new, at every
\* moment and after a crash at any moment (config.go:351-388 under configLock).
WholeFile == INSTANCE WholeFile
  WITH Values <- Writers, contents <- IF locked THEN file ELSE Old
WholeFileSpec == WholeFile!Spec

\* Two writers without a lock can empty, tear and remove the file on the way,
\* but what they leave is the contents of one of them: the one whose temporary
\* file was taken away writes again (config.go:375-386).
WholeAtRest == NoneActive /\ ~failed /\ ~crowded => file \in Whole
=============================================================================
