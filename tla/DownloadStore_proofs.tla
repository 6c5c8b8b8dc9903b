------------------------ MODULE DownloadStore_proofs ------------------------
(***************************************************************************)
(* Proofs about DownloadStore, for every number of pieces, every piece     *)
(* length and every set of application threads.                            *)
(***************************************************************************)
EXTENDS DownloadStore, FiniteSetTheorems, TLAPS

USE DEF Names

-----------------------------------------------------------------------------
(* The bytes of a set of pieces.                                           *)

LEMMA Basics ==
  /\ Last \in Nat /\ Last \in Pieces /\ 0 \in Pieces /\ Pieces \subseteq Nat
  /\ PieceLen \in Nat /\ LastLen \in Nat /\ 1 <= LastLen /\ LastLen <= PieceLen
BY StoreAssumption DEF Last, Pieces

\* A run of pieces, and the next one in it.
LEMMA Runs ==
  ASSUME NEW f \in Pieces, NEW l \in Pieces
  PROVE  /\ f .. l \in SUBSET Pieces
         /\ \A k \in f .. l : f .. (k - 1) \in SUBSET Pieces
         /\ f < l => f + 1 \in Pieces /\ f + 1 <= l
BY Basics DEF Pieces

LEMMA PiecesFinite == IsFiniteSet(Pieces)
BY Basics, FS_Interval DEF Pieces

LEMMA Bounds == MaxFaults \in Nat /\ MaxDeletes \in Nat
BY StoreAssumption

LEMMA SeekTargets == Seeks \subseteq Pieces
BY StoreAssumption DEF Pieces, Last

LEMMA TimesMonotone ==
  ASSUME NEW k \in Nat, NEW m \in Nat, NEW n \in Nat, m <= n
  PROVE  k * m \in Nat /\ k * n \in Nat /\ k * m <= k * n /\ (m < n => k * m + k <= k * n)
<1>1. PICK d \in Nat : n = m + d
  <2>1. n - m \in Nat /\ n = m + (n - m)
    OBVIOUS
  <2> QED
    BY <2>1
<1>2. k * n = k * m + k * d /\ k * m \in Nat /\ k * d \in Nat
  BY <1>1
<1>3. ASSUME m < n PROVE k <= k * d
  <2>1. PICK e \in Nat : d = e + 1
    <3>1. d - 1 \in Nat /\ d = (d - 1) + 1
      BY <1>1, <1>3
    <3> QED
      BY <3>1
  <2>2. k * d = k * e + k /\ k * e \in Nat
    BY <2>1
  <2> QED
    BY <2>2
<1> QED
  BY <1>2, <1>3

\* The full pieces of a set: a finite number, not larger for a smaller set.
LEMMA FullPieces ==
  ASSUME NEW S \in SUBSET Pieces
  PROVE  /\ IsFiniteSet(S) /\ IsFiniteSet(S \ {Last})
         /\ Cardinality(S \ {Last}) \in Nat
         /\ Cardinality(S \ {Last}) <= Cardinality(Pieces \ {Last})
         /\ Cardinality(S \ {Last}) = Cardinality(Pieces \ {Last}) => S \ {Last} = Pieces \ {Last}
<1>1. IsFiniteSet(Pieces \ {Last})
  BY PiecesFinite, FS_RemoveElement
<1>2. S \ {Last} \in SUBSET (Pieces \ {Last})
  OBVIOUS
<1>3. IsFiniteSet(S) /\ IsFiniteSet(S \ {Last})
  BY <1>1, <1>2, PiecesFinite, FS_Subset
<1>4. Cardinality(S \ {Last}) \in Nat
  BY <1>3, FS_CardinalityType
<1> QED
  BY <1>1, <1>2, <1>3, <1>4, FS_Subset

\* The two addends of Bytes(S).
LEMMA BytesParts ==
  ASSUME NEW S \in SUBSET Pieces
  PROVE  /\ PieceLen * Cardinality(S \ {Last}) \in Nat
         /\ Last \in S => Bytes(S) = PieceLen * Cardinality(S \ {Last}) + LastLen
         /\ Last \notin S => Bytes(S) = PieceLen * Cardinality(S \ {Last})
<1>1. Cardinality(S \ {Last}) \in Nat
  BY FullPieces
<1>2. PieceLen * Cardinality(S \ {Last}) \in Nat
  BY <1>1, Basics
<1> QED
  BY <1>2 DEF Bytes

LEMMA BytesType == ASSUME NEW S \in SUBSET Pieces PROVE Bytes(S) \in Nat
<1> DEFINE n == PieceLen * Cardinality(S \ {Last})
<1>1. n \in Nat /\ (Last \in S => Bytes(S) = n + LastLen) /\ (Last \notin S => Bytes(S) = n)
  BY BytesParts
<1> HIDE DEF n
<1> QED
  BY <1>1, Basics

LEMMA BytesEmpty == Bytes({}) = 0
<1>1. {} \ {Last} = {} /\ Cardinality({}) = 0
  BY FS_EmptySet
<1> QED
  BY <1>1, Basics DEF Bytes

\* Adding a piece adds its length.
LEMMA BytesAdd ==
  ASSUME NEW S \in SUBSET Pieces, NEW p \in Pieces, p \notin S
  PROVE  Bytes(S \cup {p}) = Bytes(S) + Len(p)
<1>1. CASE p = Last
  <2>1. (S \cup {p}) \ {Last} = S \ {Last}
    BY <1>1
  <2>2. S \cup {p} \in SUBSET Pieces /\ Last \in S \cup {p} /\ Last \notin S
    BY <1>1
  <2>3. Bytes(S \cup {p}) = Bytes(S) + LastLen
    BY <2>1, <2>2, BytesParts
  <2> QED
    BY <1>1, <2>3 DEF Len
<1>2. CASE p # Last
  <2>1. (S \cup {p}) \ {Last} = (S \ {Last}) \cup {p} /\ p \notin S \ {Last}
    BY <1>2
  <2>2. Cardinality((S \cup {p}) \ {Last}) = Cardinality(S \ {Last}) + 1
    BY <2>1, FullPieces, FS_AddElement
  <2>3. PieceLen * (Cardinality(S \ {Last}) + 1) = PieceLen * Cardinality(S \ {Last}) + PieceLen
    <3>1. Cardinality(S \ {Last}) \in Nat
      BY FullPieces
    <3> QED
      BY <3>1, Basics
  <2>4. Last \in S \cup {p} <=> Last \in S
    BY <1>2
  <2>5. S \cup {p} \in SUBSET Pieces
    OBVIOUS
  <2>6. Bytes(S \cup {p}) = Bytes(S) + PieceLen
    BY <2>2, <2>3, <2>4, <2>5, BytesParts, Basics
  <2> QED
    BY <1>2, <2>6 DEF Len
<1> QED
  BY <1>1, <1>2

LEMMA FileSizeType == FileSize \in Nat /\ FileSize > 0
<1>1. Pieces \in SUBSET Pieces /\ Last \in Pieces
  BY Basics
<1>2. /\ PieceLen * Cardinality(Pieces \ {Last}) \in Nat
      /\ Bytes(Pieces) = PieceLen * Cardinality(Pieces \ {Last}) + LastLen
  BY <1>1, BytesParts
<1> QED
  BY <1>2, Basics DEF FileSize

\* Only the whole file has as many bytes as the file.
LEMMA BytesFull ==
  ASSUME NEW S \in SUBSET Pieces, Bytes(S) >= FileSize
  PROVE  S = Pieces
<1> DEFINE c == Cardinality(S \ {Last})
           d == Cardinality(Pieces \ {Last})
<1>1. c \in Nat /\ d \in Nat /\ c <= d /\ (c = d => S \ {Last} = Pieces \ {Last})
  BY FullPieces
<1>2. FileSize = PieceLen * d + LastLen
  BY Basics DEF FileSize, Bytes
<1>3. Bytes(S) = PieceLen * c + IF Last \in S THEN LastLen ELSE 0
  BY DEF Bytes
<1> HIDE DEF c, d
<1>4. PieceLen * c \in Nat /\ PieceLen * d \in Nat /\ PieceLen * c <= PieceLen * d
        /\ (c < d => PieceLen * c + PieceLen <= PieceLen * d)
  BY <1>1, Basics, TimesMonotone
<1>5. Last \in S
  BY <1>2, <1>3, <1>4, Basics
<1>6. c = d
  BY <1>1, <1>2, <1>3, <1>4, <1>5, Basics
<1> QED
  BY <1>1, <1>5, <1>6, Basics

-----------------------------------------------------------------------------
(* Type correctness.                                                       *)

LEMMA TypeInit == Init => TypeOK
<1> USE DEF TypeOK, demand, disk, record, mem, file, writer, budget
<1> SUFFICES ASSUME Init PROVE TypeOK
  OBVIOUS
<1>1. at \in Pieces /\ upto \in Pieces /\ at <= upto
  BY Basics DEF Init
<1>2. faults \in 0 .. MaxFaults /\ deletes \in 0 .. MaxDeletes
  BY Bounds DEF Init
<1> QED
  BY <1>1, <1>2 DEF Init

\* The type of what the application wants, and the rest of the type.
DemandType == running \in BOOLEAN /\ offline \in BOOLEAN /\ playAt \in Pieces

StoreType ==
  /\ phase \in {"gone", "down", "up", "purgeNew", "purgeLoad", "deleting"}
  /\ onDisk \subseteq Names
  /\ data \in [Names -> SUBSET Pieces]
  /\ memKind \in {"absent", "empty", "full"}
  /\ memBits \subseteq Pieces /\ memLen \in Nat
  /\ sized \in BOOLEAN /\ inited \in BOOLEAN /\ update \in BOOLEAN
  /\ bits \subseteq Pieces /\ downsize \in Nat /\ imgLen \in Nat
  /\ fname \in Names /\ handle \in {"closed", "linked", "orphan"}
  /\ pc \in {"idle", "write", "bit", "len", "trunc", "save", "check", "rename"}
  /\ at \in Pieces /\ upto \in Pieces /\ at <= upto
  /\ api \in [Api -> {"idle", "stat", "clear"}]
  /\ saved \subseteq Pieces
  /\ faults \in 0 .. MaxFaults /\ deletes \in 0 .. MaxDeletes

LEMMA TypeParts == TypeOK <=> DemandType /\ StoreType
BY DEF TypeOK, DemandType, StoreType

LEMMA DemandTypeStep == DemandType /\ [Next]_vars => DemandType'
<1> USE DEF DemandType, demand
<1> SUFFICES ASSUME DemandType, [Next]_vars PROVE DemandType'
  OBVIOUS
<1>1. CASE UNCHANGED vars
  BY <1>1 DEF vars
<1>2. CASE Run
  BY <1>2 DEF Run, RunFinished, RunBadFinal, RunResume, RunBadTemp, RunNothing, PurgeFile
<1>3. ASSUME NEW f \in Pieces, NEW l \in Pieces, Deliver(f, l) PROVE DemandType'
  BY <1>3 DEF Deliver
<1>4. CASE MessageThread
  BY <1>4 DEF MessageThread, WriteFile, WriteFails, SetBitField, SetDownLength, OpenMemFile,
    WriteMemFile, CheckFinish, Rename
<1>5. ASSUME NEW a \in Api, ApiThread(a) PROVE DemandType'
  BY <1>5 DEF ApiThread, ApiCheck, ApiStat, ApiClear
<1>6. CASE DeleteTask \/ RemoveFiles \/ Kill
  BY <1>6, Basics DEF DeleteTask, RemoveFiles, Kill, FreshDemand
<1>7. ASSUME NEW n \in Names, UserDeletes(n) PROVE DemandType'
  BY <1>7 DEF UserDeletes
<1>8. CASE HttpError \/ Application
  BY <1>8, SeekTargets DEF HttpError, Application, RunTask, PauseTask, SetTaskDownload, SetPlayFilePos
<1> QED
  BY <1>1, <1>2, <1>3, <1>4, <1>5, <1>6, <1>7, <1>8 DEF Next

LEMMA StoreTypeStep == StoreType /\ [Next]_vars => StoreType'
<1> USE DEF StoreType, disk, record, mem, file, writer, budget
<1> SUFFICES ASSUME StoreType, [Next]_vars PROVE StoreType'
  OBVIOUS
<1> USE Basics, FileSizeType
<1>1. CASE UNCHANGED vars
  BY <1>1 DEF vars
<1>2. CASE Run
  <2>1. CASE RunFinished
    BY <2>1 DEF RunFinished
  <2>2. CASE RunBadFinal
    BY <2>2 DEF RunBadFinal, Purging, MemRemove, FreshMem, FreshFile
  <2>3. CASE RunResume
    BY <2>3 DEF RunResume, MemInit, FreshFile
  <2>4. CASE RunBadTemp
    BY <2>4 DEF RunBadTemp, Purging, MemRemove, FreshObject, FreshMem, FreshFile
  <2>5. CASE RunNothing
    BY <2>5 DEF RunNothing, MemRemove, FreshObject, FreshMem, FreshFile
  <2>6. CASE PurgeFile
    BY <2>6 DEF PurgeFile, Drop
  <2> QED
    BY <1>2, <2>1, <2>2, <2>3, <2>4, <2>5, <2>6 DEF Run
<1>3. ASSUME NEW f \in Pieces, NEW l \in Pieces, Deliver(f, l) PROVE StoreType'
  BY <1>3 DEF Deliver, MemInit
<1>4. CASE MessageThread
  <2> USE DEF NextPiece
  <2>1. CASE WriteFile
    BY <2>1, Runs DEF WriteFile, WriteTarget, WritePieces
  <2>2. CASE WriteFails
    <3>1. faults' \in 0 .. MaxFaults
      BY <2>2, Bounds DEF WriteFails
    <3>2. onDisk' \in SUBSET Names
      BY <2>2 DEF WriteFails, WriteTarget
    <3>3. data' \in [Names -> SUBSET Pieces]
      BY <2>2, Runs DEF WriteFails, WritePieces
    <3> QED
      BY <2>2, <3>1, <3>2, <3>3 DEF WriteFails
  <2>3. CASE SetBitField
    <3>1. at' \in Pieces /\ at' <= upto' /\ upto' \in Pieces
      BY <2>3, Runs DEF SetBitField
    <3> QED
      BY <2>3, <3>1 DEF SetBitField
  <2>4. CASE SetDownLength
    <3>1. at' \in Pieces /\ at' <= upto' /\ upto' \in Pieces
      BY <2>4, Runs DEF SetDownLength
    <3> QED
      BY <2>4, <3>1 DEF SetDownLength, Len
  <2>5. CASE OpenMemFile
    BY <2>5 DEF OpenMemFile
  <2>6. CASE WriteMemFile
    <3>1. faults' \in 0 .. MaxFaults
      BY <2>6, Bounds DEF WriteMemFile
    <3> QED
      BY <2>6, <3>1 DEF WriteMemFile
  <2>7. CASE CheckFinish
    BY <2>7 DEF CheckFinish, Clamp
  <2>8. CASE Rename
    BY <2>8 DEF Rename
  <2> QED
    BY <1>4, <2>1, <2>2, <2>3, <2>4, <2>5, <2>6, <2>7, <2>8 DEF MessageThread
<1>5. ASSUME NEW a \in Api, ApiThread(a) PROVE StoreType'
  <2>1. CASE ApiCheck(a)
    BY <2>1 DEF ApiCheck, Clamp
  <2>2. CASE ApiStat(a)
    BY <2>2 DEF ApiStat
  <2>3. CASE ApiClear(a)
    BY <2>3 DEF ApiClear
  <2> QED
    BY <1>5, <2>1, <2>2, <2>3 DEF ApiThread
<1>6. CASE DeleteTask
  <2>1. faults' \in 0 .. MaxFaults
    BY <1>6, Bounds DEF DeleteTask
  <2> QED
    BY <1>6, <2>1 DEF DeleteTask, MemRemove, FreshObject, FreshMem, FreshFile
<1>7. CASE RemoveFiles
  <2>1. onDisk' \subseteq Names /\ data' \in [Names -> SUBSET Pieces]
    BY <1>7 DEF RemoveFiles, Drop
  <2>2. UNCHANGED <<memKind, memBits, memLen, sized, inited, bits, downsize, imgLen>>
    BY <1>7 DEF RemoveFiles
  <2>3. UNCHANGED <<fname, handle, update, pc, at, upto, api, saved, faults, deletes>>
    BY <1>7 DEF RemoveFiles
  <2>4. phase' = "gone"
    BY <1>7 DEF RemoveFiles
  <2> QED
    BY <2>1, <2>2, <2>3, <2>4
<1>8. ASSUME NEW n \in Names, UserDeletes(n) PROVE StoreType'
  BY <1>8, Bounds DEF UserDeletes, Drop
<1>9. CASE Kill
  <2>1. faults' \in 0 .. MaxFaults
    BY <1>9, Bounds DEF Kill
  <2> QED
    <3>1. api' \in [Api -> {"idle", "stat", "clear"}]
      BY <1>9 DEF Kill
    <3>2. at' \in Pieces /\ upto' \in Pieces /\ at' <= upto'
      BY <1>9 DEF Kill
    <3> QED
      BY <1>9, <2>1, <3>1, <3>2 DEF Kill, FreshObject, FreshMem, FreshFile
<1>10. CASE HttpError
  BY <1>10, Bounds DEF HttpError
<1>11. CASE Application
  <2>1. AppUnchanged
    BY <1>11 DEF Application, RunTask, PauseTask, SetTaskDownload, SetPlayFilePos
  <2> QED
    BY <2>1 DEF AppUnchanged
<1> QED
  BY <1>1, <1>2, <1>3, <1>4, <1>5, <1>6, <1>7, <1>8, <1>9, <1>10, <1>11 DEF Next

LEMMA TypeStep == TypeOK /\ [Next]_vars => TypeOK'
<1>1. TypeOK' <=> DemandType' /\ StoreType'
  BY DEF TypeOK, DemandType, StoreType
<1> QED
  BY <1>1, TypeParts, DemandTypeStep, StoreTypeStep

\* Every reachable state of the store is of the declared type; in particular
\* the loop over the pieces of a message never leaves the bitfield.
THEOREM TypeCorrect == Spec => []TypeOK
BY TypeInit, TypeStep, PTL DEF Spec

-----------------------------------------------------------------------------
(* The inductive invariant.  Once every piece is in the file a reset of    *)
(* the progress, however it interleaves, can only make the task download   *)
(* again what it has: so each claim about counter, record and threads has  *)
(* the alternative that the file is whole.                                 *)

Whole == Written = Pieces

\* The downloaded file has one name; a final one is whole.
FilesInv ==
  /\ "temp" \notin onDisk \/ "final" \notin onDisk
  /\ \A n \in Names : n \notin onDisk => data[n] = {}
  /\ "final" \in onDisk => data["final"] = Pieces

\* The CQvodFile of a loaded task has the name its file has.
ObjectInv ==
  /\ phase = "up" => (fname = "final" <=> "final" \in onDisk)
  /\ handle # "orphan"
  /\ handle = "linked" => fname \in onDisk

\* A full record is exact and written, or the file is whole.
RecordInv ==
  memKind = "full" => Whole \/ (memBits \subseteq Written /\ memLen = Bytes(memBits))

\* Without a loaded task there is no progress in memory, and no record while
\* files are being removed.
IdleInv ==
  /\ phase # "up" => /\ bits = {} /\ downsize = 0 /\ imgLen = 0
                     /\ fname = "temp" /\ handle = "closed"
  /\ phase \in {"purgeNew", "purgeLoad", "deleting"} => memKind = "absent"

\* The same of the progress in memory.
MemoryInv ==
  phase = "up" => Whole \/ (/\ bits \subseteq Written
                           /\ downsize = Bytes(bits \ Pending) /\ imgLen = downsize)

\* What is being counted is in the file; what is being renamed is whole.
WriterInv ==
  /\ pc # "idle" => phase = "up"
  /\ pc \in {"bit", "len"} => at .. upto \subseteq Written
  /\ pc = "len" => Whole \/ at \in bits
  /\ pc = "rename" => Whole

\* A thread that saw the download finished saw a whole file.
ApiInv == \A a \in Api : api[a] # "idle" => phase = "up" /\ Whole

Core == /\ FilesInv /\ ObjectInv /\ RecordInv /\ IdleInv
        /\ MemoryInv /\ WriterInv /\ ApiInv

IInv == TypeOK /\ (Untouched => Core)
-----------------------------------------------------------------------------
(* One lemma per step: it preserves Core.                                  *)

LEMMA SameDisk ==
  ASSUME UNCHANGED disk
  PROVE  /\ Written' = Written /\ (Whole' <=> Whole) /\ (FilesInv' <=> FilesInv)
         /\ onDisk' = onDisk
BY DEF disk, Written, Whole, FilesInv

LEMMA FullCount == ASSUME NEW S \in SUBSET Pieces, S # Pieces PROVE Bytes(S) < FileSize
BY BytesFull, BytesType, FileSizeType

\* A counter at the full size means a whole file.
LEMMA FinishedIsWhole ==
  ASSUME TypeOK, Core, phase = "up", IsDownFinish
  PROVE  Whole
<1> SUFFICES ASSUME ~Whole PROVE FALSE
  OBVIOUS
<1>1. bits \subseteq Written /\ downsize = Bytes(bits \ Pending)
  BY DEF Core, MemoryInv
<1>2. bits \in SUBSET Pieces /\ bits \ Pending \in SUBSET Pieces /\ Written \in SUBSET Pieces
  BY DEF TypeOK, Written
<1>3. bits \ Pending = Pieces
  BY <1>1, <1>2, BytesFull DEF IsDownFinish
<1> QED
  BY <1>1, <1>2, <1>3 DEF Whole

LEMMA RunStep == ASSUME TypeOK, Core, Run PROVE Core'
<1> USE DEF Core, record, mem, file, writer
<1>1. CASE RunFinished
  <2>1. Whole /\ "final" \in onDisk /\ Written = Pieces
    BY <1>1 DEF RunFinished, IsFileSizeMatching, FilesInv, Whole, Written, TypeOK
  <2>2. Whole' /\ FilesInv' /\ onDisk' = onDisk
    BY <1>1, <2>1, SameDisk DEF RunFinished
  <2> QED
    BY <1>1, <2>1, <2>2
    DEF RunFinished, Starting, ObjectInv, RecordInv, IdleInv, MemoryInv, WriterInv, ApiInv
<1>2. CASE RunBadFinal
  <2>1. (Whole' <=> Whole) /\ FilesInv' /\ onDisk' = onDisk
    BY <1>2, SameDisk DEF RunBadFinal
  <2> QED
    BY <1>2, <2>1 DEF RunBadFinal, Starting, Purging, MemRemove, FreshMem, FreshFile,
      ObjectInv, RecordInv, IdleInv, MemoryInv, WriterInv, ApiInv
<1>3. CASE RunResume
  <2>1. Written' = Written /\ (Whole' <=> Whole) /\ FilesInv' /\ onDisk' = onDisk
    BY <1>3, SameDisk DEF RunResume
  <2>2. pc = "idle" /\ Pending' = {} /\ bits' \ {} = bits' /\ memKind = "full"
    BY <1>3 DEF RunResume, Starting, WriterInv, Pending
  <2>3. MemoryInv'
    BY <1>3, <2>1, <2>2 DEF RunResume, MemInit, MemoryInv, RecordInv
  <2> QED
    BY <1>3, <2>1, <2>3 DEF RunResume, Starting, MemInit, FreshFile,
      ObjectInv, RecordInv, IdleInv, WriterInv, ApiInv
<1>4. CASE RunBadTemp
  <2>1. (Whole' <=> Whole) /\ FilesInv' /\ onDisk' = onDisk
    BY <1>4, SameDisk DEF RunBadTemp
  <2> QED
    BY <1>4, <2>1 DEF RunBadTemp, Starting, Purging, MemRemove, FreshObject, FreshMem, FreshFile,
      ObjectInv, RecordInv, IdleInv, MemoryInv, WriterInv, ApiInv
<1>5. CASE RunNothing
  <2>1. (Whole' <=> Whole) /\ FilesInv' /\ onDisk' = onDisk
    BY <1>5, SameDisk DEF RunNothing
  <2>2. MemoryInv'
    BY <1>5, BytesEmpty DEF RunNothing, FreshObject, FreshMem, MemoryInv
  <2> QED
    BY <1>5, <2>1, <2>2 DEF RunNothing, Starting, MemRemove, FreshObject, FreshMem, FreshFile,
      ObjectInv, RecordInv, IdleInv, WriterInv, ApiInv
<1>6. CASE PurgeFile
  <2>1. onDisk' = {} /\ FilesInv'
    BY <1>6 DEF PurgeFile, Drop, FilesInv, TypeOK
  <2>2. bits = {} /\ downsize = 0 /\ imgLen = 0 /\ fname = "temp" /\ handle = "closed"
        /\ memKind = "absent" /\ phase # "up"
    BY <1>6 DEF PurgeFile, IdleInv
  <2>3. MemoryInv'
    BY <1>6, <2>2, BytesEmpty DEF PurgeFile, MemoryInv
  <2> QED
    BY <1>6, <2>1, <2>2, <2>3 DEF PurgeFile, ObjectInv, RecordInv, IdleInv, WriterInv, ApiInv
<1> QED
  BY <1>1, <1>2, <1>3, <1>4, <1>5, <1>6 DEF Run

LEMMA DeliverStep ==
  ASSUME TypeOK, Core, NEW f \in Pieces, NEW l \in Pieces, Deliver(f, l)
  PROVE  Core'
<1> USE DEF Core, record, mem, file
<1>1. Written' = Written /\ (Whole' <=> Whole) /\ FilesInv' /\ onDisk' = onDisk
  BY SameDisk DEF Deliver
<1>2. pc = "idle" /\ pc' = "write" /\ phase = "up" /\ phase' = "up"
  BY DEF Deliver
<1>3. Pending = {} /\ Pending' = {}
  BY <1>2 DEF Pending
<1>4. MemoryInv' /\ RecordInv'
  <2>1. CASE sized
    BY <1>1, <1>2, <1>3, <2>1 DEF Deliver, MemoryInv, RecordInv
  <2>2. CASE ~sized
    <3>1. CASE memKind = "full"
      BY <1>1, <1>2, <1>3, <2>2, <3>1 DEF Deliver, MemInit, MemoryInv, RecordInv
    <3>2. CASE memKind # "full"
      BY <1>1, <1>2, <1>3, <2>2, <3>2, BytesEmpty DEF Deliver, MemInit, MemoryInv, RecordInv
    <3> QED
      BY <3>1, <3>2
  <2> QED
    BY <2>1, <2>2
<1> QED
  BY <1>1, <1>2, <1>4 DEF Deliver, ObjectInv, IdleInv, WriterInv, ApiInv

\* Writing makes the file larger and moves nothing.
LEMMA WritingGrows ==
  ASSUME TypeOK, Core, phase = "up", NEW S \in SUBSET Pieces,
         onDisk' = WriteTarget, WritePieces(S)
  PROVE  /\ Written' = Written \cup S /\ FilesInv'
         /\ fname \in onDisk' /\ (fname = "final" <=> "final" \in onDisk')
         /\ (Whole => Whole')
<1> USE DEF Core
<1>1. handle # "orphan" /\ data' = [data EXCEPT ![fname] = @ \cup S]
  BY DEF ObjectInv, WritePieces
<1>2. fname \in onDisk' /\ onDisk' \in {onDisk, onDisk \cup {fname}}
  BY DEF ObjectInv, WriteTarget, TypeOK
<1>3. fname = "final" <=> "final" \in onDisk'
  BY <1>2 DEF ObjectInv, TypeOK
<1>4. Written' = Written \cup S
  BY <1>1 DEF Written, TypeOK
<1>5. FilesInv'
  <2>1. "temp" \notin onDisk' \/ "final" \notin onDisk'
    BY <1>2, <1>3 DEF FilesInv, ObjectInv, TypeOK
  <2>2. \A n \in Names : n \notin onDisk' => data'[n] = {}
    BY <1>1, <1>2 DEF FilesInv, TypeOK
  <2>3. "final" \in onDisk' => data'["final"] = Pieces
    BY <1>1, <1>2, <1>3 DEF FilesInv, ObjectInv, TypeOK
  <2> QED
    BY <2>1, <2>2, <2>3 DEF FilesInv
<1>6. Whole => Whole'
  BY <1>4 DEF Whole, TypeOK, Written
<1> QED
  BY <1>2, <1>3, <1>4, <1>5, <1>6

LEMMA WriteFileStep == ASSUME TypeOK, Core, WriteFile PROVE Core'
<1> USE DEF Core, record, mem, writer
<1>1. phase = "up" /\ pc = "write" /\ pc' = "bit" /\ at .. upto \in SUBSET Pieces
  BY Runs DEF WriteFile, WriterInv, TypeOK
<1>2. /\ Written' = Written \cup (at .. upto) /\ FilesInv'
      /\ fname \in onDisk' /\ (fname = "final" <=> "final" \in onDisk')
      /\ (Whole => Whole')
  BY <1>1, WritingGrows DEF WriteFile
<1>3. Pending = {} /\ Pending' = {}
  BY <1>1 DEF Pending
<1>4. MemoryInv' /\ RecordInv'
  BY <1>1, <1>2, <1>3 DEF WriteFile, MemoryInv, RecordInv
<1> QED
  BY <1>1, <1>2, <1>4 DEF WriteFile, ObjectInv, IdleInv, WriterInv, ApiInv

LEMMA WriteFailsStep == ASSUME TypeOK, Core, WriteFails PROVE Core'
<1> USE DEF Core, record, mem
<1>1. phase = "up" /\ phase' = "up" /\ pc = "write" /\ pc' = "idle"
  BY DEF WriteFails, WriterInv
<1>2. /\ Written \subseteq Written' /\ FilesInv'
      /\ (fname = "final" <=> "final" \in onDisk')
      /\ (Whole => Whole')
  <2>1. CASE UNCHANGED disk
    BY <1>1, <2>1, SameDisk DEF ObjectInv
  <2>2. CASE ~(UNCHANGED disk)
    <3>1. PICK k \in at .. upto : onDisk' = WriteTarget /\ WritePieces(at .. (k - 1))
      BY <2>2 DEF WriteFails
    <3>2. at .. (k - 1) \in SUBSET Pieces
      BY Runs DEF TypeOK
    <3> QED
      BY <1>1, <3>1, <3>2, WritingGrows
  <2> QED
    BY <2>1, <2>2
<1>3. Pending = {} /\ Pending' = {}
  BY <1>1 DEF Pending
<1>4. MemoryInv' /\ RecordInv'
  BY <1>1, <1>2, <1>3 DEF WriteFails, MemoryInv, RecordInv
<1> QED
  BY <1>1, <1>2, <1>4 DEF WriteFails, ObjectInv, IdleInv, WriterInv, ApiInv

LEMMA SetBitFieldStep == ASSUME TypeOK, Core, SetBitField PROVE Core'
<1> USE DEF Core, record, file
<1>1. Written' = Written /\ (Whole' <=> Whole) /\ FilesInv' /\ onDisk' = onDisk
  BY SameDisk DEF SetBitField
<1>2. phase = "up" /\ phase' = "up" /\ pc = "bit" /\ Pending = {}
  BY DEF SetBitField, WriterInv, Pending
<1>3. at .. upto \subseteq Written /\ at \in Written
  BY <1>2, Basics DEF WriterInv, TypeOK
<1>4. MemoryInv' /\ WriterInv'
  <2>1. CASE inited /\ at \notin bits
    <3>1. /\ bits' = bits \cup {at} /\ pc' = "len" /\ at' = at /\ upto' = upto
          /\ downsize' = downsize /\ imgLen' = imgLen
      BY <2>1 DEF SetBitField
    <3>2. Pending' = {at} /\ bits' \ Pending' = bits \ Pending
      BY <1>2, <2>1, <3>1 DEF Pending
    <3> QED
      BY <1>1, <1>2, <1>3, <3>1, <3>2 DEF MemoryInv, WriterInv
  <2>2. CASE ~(inited /\ at \notin bits)
    <3>1. bits' = bits /\ NextPiece /\ upto' = upto /\ downsize' = downsize /\ imgLen' = imgLen
      BY <2>2 DEF SetBitField
    <3>2. Pending' = {} /\ pc' \in {"bit", "trunc"} /\ at' .. upto' \subseteq at .. upto
      BY <3>1, Basics DEF NextPiece, Pending, TypeOK
    <3> QED
      BY <1>1, <1>2, <1>3, <3>1, <3>2 DEF MemoryInv, WriterInv
  <2> QED
    BY <2>1, <2>2
<1> QED
  BY <1>1, <1>2, <1>4 DEF SetBitField, ObjectInv, RecordInv, IdleInv, ApiInv

LEMMA SetDownLengthStep == ASSUME TypeOK, Core, SetDownLength PROVE Core'
<1> USE DEF Core, record, file
<1>1. Written' = Written /\ (Whole' <=> Whole) /\ FilesInv' /\ onDisk' = onDisk
  BY SameDisk DEF SetDownLength
<1>2. phase = "up" /\ phase' = "up" /\ pc = "len" /\ Pending = {at}
  BY DEF SetDownLength, WriterInv, Pending
<1>3. /\ bits' = bits /\ downsize' = downsize + Len(at) /\ imgLen' = downsize'
      /\ NextPiece /\ upto' = upto
  BY DEF SetDownLength
<1>4. Pending' = {} /\ pc' \in {"bit", "trunc"} /\ at' .. upto' \subseteq at .. upto
  BY <1>3, Basics DEF NextPiece, Pending, TypeOK
<1>5. WriterInv'
  BY <1>1, <1>2, <1>3, <1>4 DEF WriterInv
<1>6. MemoryInv'
  <2>1. SUFFICES ASSUME ~Whole
                 PROVE  bits \subseteq Written /\ downsize' = Bytes(bits)
    BY <1>1, <1>3, <1>4 DEF MemoryInv
  <2>2. /\ bits \subseteq Written /\ downsize = Bytes(bits \ {at}) /\ at \in bits
    BY <1>2, <2>1 DEF MemoryInv, WriterInv
  <2>3. bits \ {at} \in SUBSET Pieces /\ at \in Pieces /\ (bits \ {at}) \cup {at} = bits
    BY <2>2 DEF TypeOK
  <2>4. Bytes((bits \ {at}) \cup {at}) = Bytes(bits \ {at}) + Len(at)
    BY <2>3, BytesAdd
  <2> QED
    BY <1>3, <2>2, <2>3, <2>4
<1> QED
  BY <1>1, <1>2, <1>5, <1>6 DEF SetDownLength, ObjectInv, RecordInv, IdleInv, ApiInv

LEMMA OpenMemFileStep == ASSUME TypeOK, Core, OpenMemFile PROVE Core'
<1>1. Written' = Written /\ (Whole' <=> Whole) /\ FilesInv' /\ onDisk' = onDisk
  BY SameDisk DEF OpenMemFile, Core
<1>2. phase = "up" /\ pc = "trunc" /\ pc' \in {"save", "check"} /\ Pending = {} /\ Pending' = {}
  BY DEF OpenMemFile, Core, WriterInv, Pending
<1> QED
  BY <1>1, <1>2 DEF OpenMemFile, Core, mem, file,
    ObjectInv, RecordInv, MemoryInv, IdleInv, WriterInv, ApiInv

LEMMA WriteMemFileStep == ASSUME TypeOK, Core, WriteMemFile PROVE Core'
<1> USE DEF Core
<1>1. Written' = Written /\ (Whole' <=> Whole) /\ FilesInv' /\ onDisk' = onDisk
  BY SameDisk DEF WriteMemFile
<1>2. phase = "up" /\ phase' = "up" /\ pc = "save" /\ pc' = "check" /\ Pending = {} /\ Pending' = {}
  BY DEF WriteMemFile, WriterInv, Pending
<1>3. RecordInv'
  BY <1>1, <1>2 DEF WriteMemFile, record, RecordInv, MemoryInv
<1> QED
  BY <1>1, <1>2, <1>3 DEF WriteMemFile, mem, file, ObjectInv, MemoryInv, IdleInv, WriterInv, ApiInv

\* IsDownFinish clamps the counter only beyond the full size.
LEMMA ClampIsHarmless ==
  ASSUME TypeOK, Core, phase = "up"
  PROVE  Whole \/ Clamp = downsize
BY FinishedIsWhole DEF Clamp

LEMMA CheckFinishStep == ASSUME TypeOK, Core, CheckFinish PROVE Core'
<1>1. Written' = Written /\ (Whole' <=> Whole) /\ FilesInv' /\ onDisk' = onDisk
  BY SameDisk DEF CheckFinish, Core
<1>2. phase = "up" /\ pc = "check" /\ pc' \in {"idle", "rename"} /\ Pending = {} /\ Pending' = {}
  BY DEF CheckFinish, Core, WriterInv, Pending
<1>3. (Whole \/ downsize' = downsize) /\ (pc' = "rename" => Whole)
  BY <1>2, ClampIsHarmless, FinishedIsWhole DEF CheckFinish
<1> QED
  BY <1>1, <1>2, <1>3 DEF CheckFinish, Core, record, file,
    ObjectInv, RecordInv, MemoryInv, IdleInv, WriterInv, ApiInv

LEMMA RenameStep == ASSUME TypeOK, Core, Rename PROVE Core'
<1> USE DEF Core, record, mem
<1>1. phase = "up" /\ phase' = "up" /\ pc' = "idle" /\ Whole
  BY DEF Rename, WriterInv
<1>2. CASE fname = "temp" /\ "temp" \in onDisk
  <2>1. data["final"] = {} /\ data["temp"] = Pieces
    BY <1>1, <1>2 DEF FilesInv, ObjectInv, Whole, Written, TypeOK
  <2>2. onDisk' = {"final"} /\ fname' = "final"
        /\ data'["temp"] = {} /\ data'["final"] = Pieces
    BY <1>2, <2>1 DEF Rename, FilesInv, TypeOK
  <2>3. FilesInv' /\ Whole'
    BY <2>2 DEF FilesInv, Whole, Written
  <2> QED
    BY <1>1, <2>2, <2>3 DEF Rename, ObjectInv, RecordInv, MemoryInv, IdleInv, WriterInv, ApiInv
<1>3. CASE ~(fname = "temp" /\ "temp" \in onDisk)
  <2>1. Whole' /\ FilesInv' /\ onDisk' = onDisk /\ fname' = fname
    BY <1>1, <1>3, SameDisk DEF Rename
  <2> QED
    BY <1>1, <2>1 DEF Rename, ObjectInv, RecordInv, MemoryInv, IdleInv, WriterInv, ApiInv
<1> QED
  BY <1>2, <1>3

LEMMA ApiStep == ASSUME TypeOK, Core, NEW a \in Api, ApiThread(a) PROVE Core'
<1> USE DEF Core, record, file, writer
<1>1. Written' = Written /\ (Whole' <=> Whole) /\ FilesInv' /\ onDisk' = onDisk
  BY SameDisk DEF ApiThread, ApiCheck, ApiStat, ApiClear
<1>2. phase = "up" /\ phase' = "up" /\ Whole
  BY FinishedIsWhole DEF ApiThread, ApiCheck, ApiStat, ApiClear, ApiInv
<1> QED
  BY <1>1, <1>2 DEF ApiThread, ApiCheck, ApiStat, ApiClear,
    ObjectInv, RecordInv, MemoryInv, IdleInv, WriterInv, ApiInv

LEMMA DeleteTaskStep == ASSUME TypeOK, Core, DeleteTask PROVE Core'
<1>1. (Whole' <=> Whole) /\ FilesInv' /\ onDisk' = onDisk
  BY SameDisk DEF DeleteTask, Core
<1> QED
  BY <1>1 DEF DeleteTask, Core, writer, MemRemove, FreshObject, FreshMem, FreshFile,
    ObjectInv, RecordInv, MemoryInv, IdleInv, WriterInv, ApiInv

LEMMA RemoveFilesStep == ASSUME TypeOK, Core, RemoveFiles PROVE Core'
<1>1. phase = "deleting" /\ phase' = "gone" /\ memKind = "absent"
  BY DEF RemoveFiles, Core, IdleInv
<1>2. FilesInv'
  BY DEF RemoveFiles, Core, FilesInv, Drop, TypeOK
<1> QED
  BY <1>1, <1>2 DEF RemoveFiles, Core, record, mem, file, writer,
    ObjectInv, RecordInv, MemoryInv, IdleInv, WriterInv, ApiInv

LEMMA KillStep == ASSUME TypeOK, Core, Kill PROVE Core'
<1>1. Written' = Written /\ (Whole' <=> Whole) /\ FilesInv' /\ onDisk' = onDisk
  BY SameDisk DEF Kill, Core
<1>2. phase' \in {"down", "gone"} /\ pc' = "idle" /\ \A a \in Api : api'[a] = "idle"
  BY DEF Kill
<1> QED
  BY <1>1, <1>2 DEF Kill, Core, record, FreshObject, FreshMem, FreshFile,
    ObjectInv, RecordInv, MemoryInv, IdleInv, WriterInv, ApiInv

\* An error of the server and the wishes of the application leave the store alone.
LEMMA WishStep == ASSUME TypeOK, Core, HttpError \/ Application PROVE Core'
<1>1. /\ UNCHANGED <<phase, disk, record, sized, mem, file, api>>
      /\ pc' = pc /\ at' = at /\ upto' = upto
  BY DEF HttpError, Application, AppUnchanged, RunTask, PauseTask, SetTaskDownload, SetPlayFilePos, writer
<1>2. Written' = Written /\ (Whole' <=> Whole) /\ FilesInv' /\ onDisk' = onDisk
  BY <1>1, SameDisk DEF Core
<1>3. Pending' = Pending
  BY <1>1 DEF Pending
<1> QED
  BY <1>1, <1>2, <1>3 DEF Core, record, mem, file,
    ObjectInv, RecordInv, MemoryInv, IdleInv, WriterInv, ApiInv

LEMMA StutterStep == ASSUME TypeOK, Core, UNCHANGED vars PROVE Core'
<1>1. Written' = Written /\ (Whole' <=> Whole) /\ FilesInv' /\ onDisk' = onDisk
  BY SameDisk DEF vars, Core
<1>2. Pending' = Pending
  BY DEF vars, writer, Pending
<1> QED
  BY <1>1, <1>2 DEF vars, Core, record, mem, file, writer,
    ObjectInv, RecordInv, MemoryInv, IdleInv, WriterInv, ApiInv

-----------------------------------------------------------------------------
(* The theorems.                                                           *)

LEMMA UntouchedBefore == TypeOK /\ [Next]_vars /\ Untouched' => Untouched
<1> SUFFICES ASSUME TypeOK, [Next]_vars, Untouched' PROVE Untouched
  OBVIOUS
<1>1. deletes' = deletes \/ deletes' = deletes + 1
  BY DEF Next, vars, budget, Run, RunFinished, RunBadFinal, RunResume, RunBadTemp,
    RunNothing, PurgeFile, Deliver, MessageThread, WriteFile, WriteFails, SetBitField,
    SetDownLength, OpenMemFile, WriteMemFile, CheckFinish, Rename, ApiThread, ApiCheck,
    ApiStat, ApiClear, DeleteTask, RemoveFiles, UserDeletes, Kill,
    HttpError, Application, AppUnchanged, RunTask, PauseTask, SetTaskDownload, SetPlayFilePos
<1> QED
  BY <1>1 DEF Untouched, TypeOK

LEMMA Invariance == Spec => []IInv
<1>1. Init => IInv
  <2> SUFFICES ASSUME Init PROVE IInv
    OBVIOUS
  <2>1. TypeOK
    BY TypeInit
  <2>2. Core
    BY BytesEmpty DEF Init, Core, FilesInv, ObjectInv, RecordInv, IdleInv, MemoryInv, WriterInv, ApiInv
  <2> QED
    BY <2>1, <2>2 DEF IInv
<1>2. IInv /\ [Next]_vars => IInv'
  <2> SUFFICES ASSUME IInv, [Next]_vars PROVE IInv'
    OBVIOUS
  <2>1. TypeOK /\ TypeOK'
    BY TypeStep DEF IInv
  <2>2. ASSUME Untouched' PROVE Core'
    <3>1. Untouched
      BY <2>1, <2>2, UntouchedBefore
    <3>2. TypeOK /\ Core
      BY <2>1, <3>1 DEF IInv
    <3>3. ASSUME NEW n \in Names, UserDeletes(n) PROVE FALSE
      BY <2>1, <2>2, <3>1, <3>3 DEF UserDeletes, Untouched, TypeOK
    <3>4. CASE MessageThread
      BY <3>2, <3>4, WriteFileStep, WriteFailsStep, SetBitFieldStep, SetDownLengthStep,
        OpenMemFileStep, WriteMemFileStep, CheckFinishStep, RenameStep DEF MessageThread
    <3> QED
      BY <3>2, <3>3, <3>4, StutterStep, WishStep, RunStep, DeliverStep, ApiStep, DeleteTaskStep,
        RemoveFilesStep, KillStep DEF Next
  <2> QED
    BY <2>1, <2>2 DEF IInv
<1> QED
  BY <1>1, <1>2, PTL DEF Spec

\* While nobody else deletes its files, a download that counts as finished has
\* every piece in its file, whatever the threads and kills did before.
THEOREM FinishedIsWrittenAlways == Spec => []FinishedIsWritten
<1>1. IInv => FinishedIsWritten
  BY FinishedIsWhole DEF IInv, FinishedIsWritten, Whole
<1> QED
  BY <1>1, Invariance, PTL

\* While nobody else deletes its files, a file with the final name is complete.
THEOREM FinalIsCompleteAlways == Spec => []FinalIsComplete
<1>1. IInv => FinalIsComplete
  BY DEF IInv, Core, FilesInv, FinalIsComplete
<1> QED
  BY <1>1, Invariance, PTL

\* The record on disk never claims a piece the file does not hold, so a start
\* after a kill at any point resumes from the truth.
THEOREM RecordIsTrueAlways == Spec => []RecordIsTrue
<1>1. IInv => RecordIsTrue
  <2> SUFFICES ASSUME IInv, Untouched, memKind = "full"
               PROVE  memBits \subseteq Written /\ (memLen >= FileSize => Written = Pieces)
    BY DEF RecordIsTrue
  <2>1. TypeOK /\ (Whole \/ (memBits \subseteq Written /\ memLen = Bytes(memBits)))
    BY DEF IInv, Core, RecordInv
  <2>2. memBits \in SUBSET Pieces /\ Written \in SUBSET Pieces
    BY <2>1 DEF TypeOK, Written
  <2> QED
    BY <2>1, <2>2, BytesFull DEF Whole
<1> QED
  BY <1>1, Invariance, PTL

\* Until the file is whole the byte counter is exact.
THEOREM CountIsExactAlways == Spec => []CountIsExact
<1>1. IInv => CountIsExact
  BY DEF IInv, Core, MemoryInv, CountIsExact, Whole
<1> QED
  BY <1>1, Invariance, PTL

-----------------------------------------------------------------------------
(* Refinement.                                                             *)

LEMMA AbstractStep ==
  ASSUME IInv, Untouched, Untouched', Next
  PROVE  Abstract!Next \/ UNCHANGED <<Written, "final" \in onDisk>>
<1> DEFINE published == "final" \in onDisk
<1>1. TypeOK /\ Core
  BY DEF IInv
<1>2. CASE UNCHANGED disk
  BY <1>2, SameDisk, <1>1 DEF Core
<1>3. CASE WriteFile \/ WriteFails
  <2> SUFFICES ASSUME ~(UNCHANGED disk) PROVE Abstract!Receive
    BY <1>2 DEF Abstract!Next
  <2>1. PICK S \in SUBSET Pieces : onDisk' = WriteTarget /\ WritePieces(S)
    <3>1. CASE WriteFile
      BY <1>1, <3>1, Runs DEF WriteFile, TypeOK
    <3>2. CASE WriteFails
      <4>1. PICK k \in at .. upto : onDisk' = WriteTarget /\ WritePieces(at .. (k - 1))
        BY <3>2 DEF WriteFails
      <4>2. at .. (k - 1) \in SUBSET Pieces
        BY <1>1, Runs DEF TypeOK
      <4> QED
        BY <4>1, <4>2
    <3> QED
      BY <1>3, <3>1, <3>2
  <2>2. phase = "up"
    BY <1>1, <1>3 DEF WriteFile, WriteFails, Core, WriterInv
  <2>3. Written' = Written \cup S /\ (fname = "final" <=> "final" \in onDisk')
    BY <1>1, <2>1, <2>2, WritingGrows
  <2>4. Written' \in SUBSET Pieces /\ published' = published
    BY <1>1, <2>2, <2>3 DEF Core, ObjectInv, Written, TypeOK
  <2> QED
    BY <2>3, <2>4 DEF Abstract!Receive
<1>4. CASE Rename
  <2> SUFFICES ASSUME ~(UNCHANGED disk) PROVE Abstract!Publish
    BY <1>2 DEF Abstract!Next
  <2>1. Written = Pieces /\ "final" \in onDisk'
    BY <1>1, <1>4 DEF Rename, Core, WriterInv, Whole, disk
  <2>2. Written' = Pieces
    <3>1. Core'
      BY <1>1, <1>4, RenameStep
    <3>2. TypeOK'
      BY <1>1, TypeStep
    <3> QED
      BY <2>1, <3>1, <3>2 DEF Core, FilesInv, Written, TypeOK
  <2> QED
    BY <2>1, <2>2 DEF Abstract!Publish
<1>5. CASE PurgeFile
  <2>1. Written' = {} /\ "final" \notin onDisk'
    BY <1>1, <1>5 DEF PurgeFile, Drop, Core, FilesInv, Written, TypeOK
  <2> QED
    BY <2>1 DEF Abstract!Next, Abstract!Lose
<1>6. CASE RemoveFiles
  <2>1. CASE "final" \in onDisk'
    <3>1. Drop("temp")
      BY <1>6, <2>1 DEF RemoveFiles
    <3> QED
      BY <1>1, <2>1, <3>1 DEF Drop, Core, FilesInv, Written, TypeOK
  <2>2. CASE "final" \notin onDisk'
    <3>1. Written' = {}
      BY <1>1, <1>6, <2>2 DEF RemoveFiles, Drop, Core, FilesInv, Written, TypeOK
    <3> QED
      BY <2>2, <3>1 DEF Abstract!Next, Abstract!Lose
  <2> QED
    BY <2>1, <2>2
<1>7. ASSUME NEW n \in Names, UserDeletes(n) PROVE FALSE
  BY <1>1, <1>7 DEF UserDeletes, Untouched, TypeOK
<1> QED
  BY <1>2, <1>3, <1>4, <1>5, <1>6, <1>7
  DEF Next, Run, RunFinished, RunBadFinal, RunResume, RunBadTemp, RunNothing, Deliver,
    MessageThread, SetBitField, SetDownLength, OpenMemFile, WriteMemFile, CheckFinish,
    ApiThread, ApiCheck, ApiStat, ApiClear, DeleteTask, Kill,
    HttpError, Application, AppUnchanged, RunTask, PauseTask, SetTaskDownload, SetPlayFilePos

\* The store, with its threads, kills and restarts, implements the abstract
\* download of module Download when nobody else deletes its files.
THEOREM Refinement == ASSUME MaxDeletes = 0 PROVE Spec => Implements
<1>1. TypeOK => Untouched
  BY DEF TypeOK, Untouched
<1>2. Init => Abstract!Init
  BY DEF Init, Abstract!Init, Written
<1>3. IInv /\ IInv' /\ [Next]_vars => [Abstract!Next]_<<Written, "final" \in onDisk>>
  <2> SUFFICES ASSUME IInv, IInv', [Next]_vars
               PROVE  [Abstract!Next]_<<Written, "final" \in onDisk>>
    OBVIOUS
  <2>1. Untouched /\ Untouched'
    BY <1>1 DEF IInv, TypeOK, Untouched
  <2>2. CASE UNCHANGED vars
    BY <2>2 DEF vars, disk, Written
  <2> QED
    BY <2>1, <2>2, AbstractStep
<1> QED
  BY <1>2, <1>3, Invariance, PTL DEF Spec, Implements, Abstract!Spec

-----------------------------------------------------------------------------
(* What a restart keeps.  A record holds at least what was saved; when no  *)
(* application thread resets the progress, a record beside a file of the   *)
(* final name has the full count, because the count in the buffer, which   *)
(* is what a record gets, is full from the step before the renaming on.    *)

FullImage == imgLen >= FileSize

SavedInv == memKind = "full" => saved \subseteq memBits

\* The two counts of a loaded task become full together.
CountsInv == phase = "up" => (FullImage <=> downsize >= FileSize)

\* A full record belongs to a task that has its buffer.
BufferInv ==
  /\ phase = "up" /\ memKind = "full" => inited
  /\ pc = "save" => inited /\ memKind # "full"

\* Whoever writes knows the length of the file, and so does the owner of a final file.
SizedInv == phase = "up" /\ (pc # "idle" \/ "final" \in onDisk) => sized

\* From the comparison of the counts to the final name, and from then on.
PublishInv ==
  /\ pc = "check" /\ memKind = "full" => memLen = imgLen
  /\ pc = "rename" => FullImage /\ (memKind = "full" => memLen >= FileSize)
  /\ "final" \in onDisk /\ phase = "up" => FullImage
  /\ "final" \in onDisk /\ memKind = "full" => memLen >= FileSize

Kept == CountsInv /\ BufferInv /\ SizedInv /\ PublishInv

LEMMA SavedStep == SavedInv /\ [Next]_vars => SavedInv'
<1> USE DEF SavedInv, record
<1> SUFFICES ASSUME SavedInv, [Next]_vars PROVE SavedInv'
  OBVIOUS
<1>1. CASE Run
  BY <1>1 DEF Run, RunFinished, RunBadFinal, RunResume, RunBadTemp, RunNothing, PurgeFile,
    MemInit, MemRemove
<1>2. ASSUME NEW f \in Pieces, NEW l \in Pieces, Deliver(f, l) PROVE SavedInv'
  BY <1>2 DEF Deliver, MemInit
<1>3. CASE MessageThread
  BY <1>3 DEF MessageThread, WriteFile, WriteFails, SetBitField, SetDownLength, OpenMemFile,
    WriteMemFile, CheckFinish, Rename
<1>4. ASSUME NEW a \in Api, ApiThread(a) PROVE SavedInv'
  BY <1>4 DEF ApiThread, ApiCheck, ApiStat, ApiClear
<1>5. CASE DeleteTask \/ RemoveFiles \/ Kill
  BY <1>5 DEF DeleteTask, RemoveFiles, Kill, MemRemove
<1>6. ASSUME NEW n \in Names, UserDeletes(n) PROVE SavedInv'
  BY <1>6 DEF UserDeletes
<1>7. CASE UNCHANGED vars
  BY <1>7 DEF vars
<1>8. CASE HttpError \/ Application
  BY <1>8 DEF HttpError, Application, AppUnchanged, RunTask, PauseTask, SetTaskDownload, SetPlayFilePos
<1> QED
  BY <1>1, <1>2, <1>3, <1>4, <1>5, <1>6, <1>7, <1>8 DEF Next

LEMMA KeptRun == ASSUME TypeOK, Core, Kept, Run PROVE Kept'
<1> USE DEF Kept, CountsInv, BufferInv, SizedInv, PublishInv, FullImage, disk, record, mem, writer
<1>0. FileSize \in Nat /\ FileSize > 0 /\ FileSize' = FileSize
  BY FileSizeType DEF FileSize, Bytes, Pieces
<1>1. CASE RunFinished
  BY <1>0, <1>1 DEF RunFinished, Starting, Core, WriterInv
<1>2. CASE RunBadFinal
  BY <1>0, <1>2 DEF RunBadFinal, Purging, Starting, MemRemove, Core, WriterInv
<1>3. CASE RunResume
  BY <1>0, <1>3 DEF RunResume, Starting, MemInit, Core, WriterInv
<1>4. CASE RunBadTemp
  BY <1>0, <1>4 DEF RunBadTemp, Purging, Starting, MemRemove, Core, WriterInv
<1>5. CASE RunNothing
  BY <1>0, <1>5 DEF RunNothing, Starting, MemRemove, FreshObject, FreshMem, Core, WriterInv
<1>6. CASE PurgeFile
  <2>1. onDisk' = {} /\ memKind = "absent" /\ imgLen = 0 /\ downsize = 0 /\ pc = "idle"
    BY <1>6 DEF PurgeFile, Drop, Core, FilesInv, IdleInv, WriterInv, TypeOK
  <2> QED
    BY <1>0, <1>6, <2>1 DEF PurgeFile
<1> QED
  BY <1>1, <1>2, <1>3, <1>4, <1>5, <1>6 DEF Run

LEMMA KeptDeliver ==
  ASSUME TypeOK, Core, Kept, NEW f \in Pieces, NEW l \in Pieces, Deliver(f, l)
  PROVE  Kept'
<1> USE DEF Kept, CountsInv, BufferInv, SizedInv, PublishInv, FullImage, disk, record, mem
<1>0. FileSize' = FileSize
  BY DEF FileSize, Bytes, Pieces
<1>1. CASE sized
  BY <1>0, <1>1 DEF Deliver
<1>2. CASE ~ sized
  BY <1>0, <1>2 DEF Deliver, MemInit
<1> QED
  BY <1>1, <1>2

LEMMA KeptWriter == ASSUME TypeOK, Core, Kept, MessageThread PROVE Kept'
<1> USE DEF Kept, CountsInv, BufferInv, SizedInv, PublishInv, FullImage, disk, record, mem
<1>0. FileSize \in Nat /\ FileSize > 0 /\ FileSize' = FileSize
  BY FileSizeType DEF FileSize, Bytes, Pieces
<1>1. CASE WriteFile \/ WriteFails
  <2>1. phase = "up" /\ ("final" \in onDisk' => "final" \in onDisk)
    BY <1>1 DEF WriteFile, WriteFails, WriteTarget, Core, ObjectInv, WriterInv
  <2> QED
    BY <1>0, <1>1, <2>1 DEF WriteFile, WriteFails
<1>2. CASE SetBitField
  BY <1>0, <1>2 DEF SetBitField, NextPiece
<1>3. CASE SetDownLength
  <2>1. /\ downsize' = downsize + Len(at) /\ imgLen' = downsize' /\ Len(at) \in Nat
        /\ downsize \in Nat /\ imgLen \in Nat
    BY <1>3, Basics DEF SetDownLength, Len, TypeOK
  <2>2. phase = "up" /\ (FullImage => FullImage')
    BY <1>0, <1>3, <2>1 DEF SetDownLength, Core, WriterInv
  <2>3. pc = "len" /\ pc' \in {"bit", "trunc"} /\ phase' = phase /\ inited' = inited /\ sized' = sized
        /\ UNCHANGED <<disk, record>>
    BY <1>3 DEF SetDownLength, NextPiece
  <2> QED
    BY <1>0, <2>1, <2>2, <2>3
<1>4. CASE OpenMemFile
  BY <1>0, <1>4 DEF OpenMemFile, Core, WriterInv
<1>5. CASE WriteMemFile
  BY <1>0, <1>5 DEF WriteMemFile, Core, WriterInv
<1>6. CASE CheckFinish
  <2>1. phase = "up" /\ downsize \in Nat /\ imgLen \in Nat /\ memLen \in Nat
    BY <1>6 DEF CheckFinish, Core, WriterInv, TypeOK
  <2>2. (downsize' >= FileSize <=> downsize >= FileSize) /\ (pc' = "rename" => downsize >= FileSize)
    BY <1>0, <1>6, <2>1 DEF CheckFinish, Clamp, IsDownFinish
  <2> QED
    BY <1>0, <1>6, <2>1, <2>2 DEF CheckFinish
<1>7. CASE Rename
  <2>1. phase = "up" /\ FullImage /\ (memKind = "full" => memLen >= FileSize)
    BY <1>7 DEF Rename, Core, WriterInv
  <2> QED
    BY <1>0, <1>7, <2>1 DEF Rename
<1> QED
  BY <1>1, <1>2, <1>3, <1>4, <1>5, <1>6, <1>7 DEF MessageThread

LEMMA KeptOther ==
  ASSUME TypeOK, Core, Kept,
         DeleteTask \/ RemoveFiles \/ Kill \/ HttpError \/ Application \/ UNCHANGED vars
  PROVE  Kept'
<1> USE DEF Kept, CountsInv, BufferInv, SizedInv, PublishInv, FullImage, disk, record, mem, writer
<1>0. FileSize \in Nat /\ FileSize' = FileSize
  BY FileSizeType DEF FileSize, Bytes, Pieces
<1>1. CASE DeleteTask
  BY <1>0, <1>1 DEF DeleteTask, MemRemove
<1>2. CASE RemoveFiles
  BY <1>0, <1>2 DEF RemoveFiles, Drop, Core, IdleInv, WriterInv
<1>3. CASE Kill
  BY <1>0, <1>3 DEF Kill
<1>4. CASE UNCHANGED vars
  BY <1>0, <1>4 DEF vars
<1>5. CASE HttpError \/ Application
  BY <1>0, <1>5 DEF HttpError, Application, AppUnchanged, RunTask, PauseTask, SetTaskDownload, SetPlayFilePos
<1> QED
  BY <1>1, <1>2, <1>3, <1>4, <1>5

-----------------------------------------------------------------------------
(* The two theorems about a restart.                                       *)

\* What each way to start makes of the record.
LEMMA StartKeeps ==
  ASSUME TypeOK, Core, SavedInv, [Next]_vars, phase = "down", phase' # "down", memKind = "full",
         "final" \in onDisk => memLen >= FileSize
  PROVE  saved \subseteq bits'
<1>1. Run
  BY DEF Next, vars, Deliver, MessageThread, WriteFile, WriteFails, SetBitField, SetDownLength,
    OpenMemFile, WriteMemFile, CheckFinish, Rename, ApiThread, ApiCheck, ApiStat, ApiClear,
    DeleteTask, RemoveFiles, UserDeletes, Kill, Core, WriterInv,
    HttpError, Application, AppUnchanged, RunTask, PauseTask, SetTaskDownload, SetPlayFilePos
<1>2. saved \subseteq memBits
  BY DEF SavedInv
<1>3. CASE RunFinished
  BY <1>2, <1>3 DEF RunFinished
<1>4. CASE RunBadFinal
  <2>1. IsFileSizeMatching
    BY <1>4, Basics DEF RunBadFinal, IsFileSizeMatching, Core, FilesInv
  <2> QED
    BY <1>4, <2>1 DEF RunBadFinal
<1>5. CASE RunResume
  BY <1>2, <1>5 DEF RunResume, MemInit
<1>6. CASE RunBadTemp
  BY <1>6 DEF RunBadTemp
<1>7. CASE RunNothing
  <2>1. Written = {}
    BY <1>7 DEF RunNothing, Core, FilesInv, Written
  <2>2. memBits = {}
    BY <2>1, Basics DEF Core, RecordInv, Whole
  <2> QED
    BY <1>2, <2>2
<1>8. CASE PurgeFile
  BY <1>8 DEF PurgeFile
<1> QED
  BY <1>1, <1>3, <1>4, <1>5, <1>6, <1>7, <1>8 DEF Run

LEMMA SavedInvariance == Spec => []SavedInv
<1>1. Init => SavedInv
  BY DEF Init, SavedInv
<1> QED
  BY <1>1, SavedStep, PTL DEF Spec

\* With any application threads, and killed anywhere: a start that finds a readable record
\* has all that was saved, unless it finds the final file beside a record that a reset
\* left with less than the full count.
THEOREM ResumeKeepsUnreset ==
  Spec => [][(/\ phase = "down" /\ phase' # "down" /\ Untouched /\ memKind = "full"
              /\ "final" \in onDisk => memLen >= FileSize)
               => saved \subseteq bits']_vars
<1>1. IInv /\ SavedInv /\ [Next]_vars =>
        [(/\ phase = "down" /\ phase' # "down" /\ Untouched /\ memKind = "full"
          /\ "final" \in onDisk => memLen >= FileSize)
           => saved \subseteq bits']_vars
  BY StartKeeps DEF IInv
<1> QED
  BY <1>1, Invariance, SavedInvariance, PTL DEF Spec

\* Without application threads that reset it, a download killed anywhere starts with all
\* that was saved whenever the record is readable.
THEOREM ResumeKeepsSavedAlways == ASSUME Api = {} PROVE Spec => ResumeKeepsSaved
<1> DEFINE KInv == Untouched => Kept
<1>1. Init => KInv
  BY FileSizeType DEF Init, Kept, CountsInv, BufferInv, SizedInv, PublishInv
<1>2. IInv /\ KInv /\ [Next]_vars => KInv'
  <2> SUFFICES ASSUME IInv, KInv, [Next]_vars, Untouched' PROVE Kept'
    OBVIOUS
  <2>1. Untouched /\ TypeOK /\ Core /\ Kept
    BY UntouchedBefore DEF IInv
  <2>2. ASSUME NEW n \in Names, UserDeletes(n) PROVE FALSE
    BY <2>1, <2>2 DEF UserDeletes, Untouched, TypeOK
  <2> HIDE DEF KInv
  <2> QED
    BY <2>1, <2>2, KeptRun, KeptDeliver, KeptWriter, KeptOther DEF Next
<1>3. IInv /\ KInv /\ SavedInv /\ [Next]_vars =>
        [(phase = "down" /\ phase' # "down" /\ Untouched /\ memKind = "full")
           => saved \subseteq bits']_vars
  BY StartKeeps DEF IInv, Kept, PublishInv
<1> HIDE DEF KInv
<1> QED
  BY <1>1, <1>2, <1>3, Invariance, SavedInvariance, PTL DEF Spec, ResumeKeepsSaved

=============================================================================
