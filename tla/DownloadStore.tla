---------------------------- MODULE DownloadStore ----------------------------
(***************************************************************************)
(* The store of one progressive download: the piece bitfield and byte      *)
(* counter of CMem, the ".mem" record they are saved in, and the data file *)
(* of CQvodFile, which is called "<name>.!mv" until the download is        *)
(* complete and "<name>" afterwards.                                       *)
(*                                                                         *)
(* One thread, the message thread (CMsgPool::Routine), writes what the     *)
(* HTTP agent received, in CDownLoadTask::WriteHttpData.  The threads of   *)
(* Api are application threads inside RunTask or TaskIsFinished: both call *)
(* TaskIsFinish(hash, true), which resets the progress when the finished   *)
(* file is not found under its final name.  The process may be killed      *)
(* between any two steps; the next start runs CDownLoadTask::run.          *)
(***************************************************************************)
EXTENDS Integers, FiniteSets

CONSTANTS
  PieceNum,    \* m_piecenum
  PieceLen,    \* m_piecesize
  LastLen,     \* bytes of the last piece
  Api,         \* application threads that call TaskIsFinish(hash, true)
  Seeks,       \* pieces that the play position is set to
  MaxFaults,   \* bound: process kills, failed writes, errors of the server, task deletions
  MaxDeletes   \* bound: files deleted behind the library's back

ASSUME StoreAssumption ==
  /\ PieceNum \in Nat \ {0}
  /\ LastLen \in Nat \ {0} /\ PieceLen \in Nat /\ LastLen <= PieceLen
  /\ Seeks \subseteq 0 .. (PieceNum - 1)
  /\ MaxFaults \in Nat /\ MaxDeletes \in Nat

Last == PieceNum - 1
Pieces == 0 .. Last
Len(p) == IF p = Last THEN LastLen ELSE PieceLen

\* The bytes of a set of pieces; every piece but the last has PieceLen bytes.
Bytes(S) == PieceLen * Cardinality(S \ {Last}) + IF Last \in S THEN LastLen ELSE 0
FileSize == Bytes(Pieces)

Names == {"temp", "final"}     \* "<name>.!mv" and "<name>"

VARIABLES
  phase,     \* where the task is in its life
  running,   \* m_Para.status is RUNNING, not PAUSE
  offline,   \* m_Para.bCopyFullFile: the application wants the whole file
  playAt,    \* piece of m_iPlayPos
  onDisk,    \* names under which a data file exists
  data,      \* pieces really present in the file of each name
  memKind,   \* the .mem file: "absent", "empty" (0 bytes) or "full"
  memBits,   \* the bitfield in a full .mem file
  memLen,    \* the byte count in a full .mem file
  sized,     \* the seed knows the file length
  inited,    \* CMem has its buffer (m_pBitField # NULL)
  bits,      \* m_pBitField
  downsize,  \* m_downsize
  imgLen,    \* the byte count in the buffer m_pFileData
  fname,     \* name of the CQvodFile object
  handle,    \* its m_hFile: "closed", "linked", or "orphan" once the file is unlinked
  update,    \* m_bIsUpdate: the file is still to be renamed
  pc,        \* program counter of the message thread in WriteHttpData
  at,        \* index of the piece it is at
  upto,      \* last whole piece of the message
  api,       \* program counter of each application thread in TaskIsFinish
  saved,     \* history: the bitfield of the last record completely written
  faults, deletes

disk   == <<onDisk, data>>
record == <<memKind, memBits, memLen>>
mem    == <<inited, bits, downsize, imgLen>>
file   == <<fname, handle, update>>
writer == <<pc, at, upto>>
budget == <<faults, deletes>>
demand == <<running, offline, playAt>>
vars   == <<phase, demand, disk, record, sized, mem, file, writer, api, saved, budget>>

TypeOK ==
  /\ phase \in {"gone", "down", "up", "purgeNew", "purgeLoad", "deleting"}
  /\ running \in BOOLEAN /\ offline \in BOOLEAN /\ playAt \in Pieces
  /\ onDisk \subseteq Names
  /\ data \in [Names -> SUBSET Pieces]
  /\ memKind \in {"absent", "empty", "full"}
  /\ memBits \subseteq Pieces /\ memLen \in Nat
  /\ sized \in BOOLEAN /\ inited \in BOOLEAN /\ update \in BOOLEAN
  /\ bits \subseteq Pieces /\ downsize \in Nat /\ imgLen \in Nat
  /\ fname \in Names /\ handle \in {"closed", "linked", "orphan"}
  /\ pc \in {"idle", "write", "bit", "len", "trunc", "save", "check", "rename"}
  /\ at \in Pieces /\ upto \in Pieces /\ at <= upto
  /\ api \in [Api -> {"idle", "stat", "clear"}]
  /\ saved \subseteq Pieces
  /\ faults \in 0 .. MaxFaults /\ deletes \in 0 .. MaxDeletes

-----------------------------------------------------------------------------
\* CMem::IsDownFinish: true from the full byte count on; a larger count is
\* clamped on the way (Clamp).  FileSize > 0, so the test for 0 is implied.
IsDownFinish == downsize >= FileSize
Clamp == IF IsDownFinish THEN FileSize ELSE downsize

\* CTask::IsFileSizeMatching: the final file exists with the full length; the
\* file is sparse, so that is when its last piece has been written.
IsFileSizeMatching == "final" \in onDisk /\ Last \in data["final"]

\* What a task object holds before it knows the file length (constructors).
FreshMem  == inited' = FALSE /\ bits' = {} /\ downsize' = 0 /\ imgLen' = 0
FreshFile == fname' = "temp" /\ handle' = "closed" /\ update' = TRUE
FreshObject == sized' = FALSE /\ FreshMem /\ FreshFile

\* Every task is loaded or created paused (CreateYfTask) and at the start of the file.
FreshDemand == running' = FALSE /\ playAt' = 0 /\ UNCHANGED offline

\* CMem::Init on the record found on disk; it creates an empty .mem file.
MemInit ==
  /\ inited' = TRUE
  /\ bits' = IF memKind = "full" THEN memBits ELSE {}
  /\ imgLen' = IF memKind = "full" THEN memLen ELSE 0
  /\ downsize' = imgLen'
  /\ memKind' = IF memKind = "absent" THEN "empty" ELSE memKind
  /\ UNCHANGED <<memBits, memLen>>

\* CMem::Remove, the part on disk.
MemRemove == memKind' = "absent" /\ UNCHANGED <<memBits, memLen>>

Drop(n) == onDisk' = onDisk \ {n} /\ data' = [data EXCEPT ![n] = {}]

Init ==
  /\ phase = "gone"
  /\ running = FALSE /\ offline \in BOOLEAN /\ playAt = 0
  /\ onDisk = {} /\ data = [n \in Names |-> {}]
  /\ memKind = "absent" /\ memBits = {} /\ memLen = 0
  /\ sized = FALSE /\ inited = FALSE /\ bits = {} /\ downsize = 0 /\ imgLen = 0
  /\ fname = "temp" /\ handle = "closed" /\ update = TRUE
  /\ pc = "idle" /\ at = 0 /\ upto = 0
  /\ api = [a \in Api |-> "idle"]
  /\ saved = {} /\ faults = 0 /\ deletes = 0

-----------------------------------------------------------------------------
(* CDownLoadTask::run, for a task of the database at start-up (phase       *)
(* "down", bLoad) and for one the application creates (phase "gone").      *)

Starting == phase \in {"gone", "down"}
Purging == IF phase = "down" THEN "purgeLoad" ELSE "purgeNew"

\* The final file exists and the record says it is complete.
RunFinished ==
  /\ Starting
  /\ memKind = "full" /\ memLen >= FileSize /\ IsFileSizeMatching
  /\ phase' = "up"
  /\ sized' = TRUE /\ inited' = TRUE
  /\ bits' = memBits /\ downsize' = FileSize /\ imgLen' = memLen
  /\ fname' = "final" /\ handle' = "closed" /\ update' = TRUE
  /\ UNCHANGED <<demand, disk, record, writer, api, saved, budget>>

\* The final file exists without such a record: both are removed.  When the
\* record was readable the seed keeps the length it gave, while CMem loses
\* its buffer.
RunBadFinal ==
  /\ Starting /\ "final" \in onDisk
  /\ ~(memKind = "full" /\ memLen >= FileSize /\ IsFileSizeMatching)
  /\ phase' = Purging
  /\ MemRemove /\ FreshMem /\ FreshFile
  /\ sized' = (memKind = "full")
  /\ UNCHANGED <<demand, disk, writer, api, saved, budget>>

\* The partial file and a readable record exist: the download resumes.
RunResume ==
  /\ Starting /\ "final" \notin onDisk /\ "temp" \in onDisk
  /\ memKind = "full"
  /\ phase' = "up"
  /\ sized' = TRUE /\ MemInit /\ FreshFile
  /\ UNCHANGED <<demand, disk, writer, api, saved, budget>>

\* The partial file exists but the .mem file is missing or unreadable.
RunBadTemp ==
  /\ Starting /\ "final" \notin onDisk /\ "temp" \in onDisk
  /\ memKind # "full"
  /\ phase' = Purging
  /\ MemRemove /\ FreshObject
  /\ UNCHANGED <<demand, disk, writer, api, saved, budget>>

\* Neither file exists.  A task of the database is given up unless it is offline.
RunNothing ==
  /\ Starting /\ onDisk = {}
  /\ phase' = IF phase = "down" /\ ~offline THEN "gone" ELSE "up"
  /\ MemRemove /\ FreshObject
  /\ UNCHANGED <<demand, disk, writer, api, saved, budget>>

\* The second removal of RunBadFinal and RunBadTemp.
PurgeFile ==
  /\ phase \in {"purgeNew", "purgeLoad"}
  /\ phase' = IF phase = "purgeLoad" /\ ~offline THEN "gone" ELSE "up"
  /\ Drop(IF "final" \in onDisk THEN "final" ELSE "temp")
  /\ UNCHANGED <<demand, record, sized, mem, file, writer, api, saved, budget>>

-----------------------------------------------------------------------------
(* The message thread: HdHttpAgentRange and WriteHttpData.  A message      *)
(* carries a run of whole pieces (a trailing fragment is dropped by the    *)
(* code).  Before the bitfield exists only the head of the file is asked   *)
(* for.                                                                    *)

Deliver(f, l) ==
  /\ phase = "up" /\ pc = "idle" /\ f <= l
  /\ inited \/ f = 0
  /\ sized' = TRUE
  /\ IF sized THEN UNCHANGED <<record, mem>> ELSE MemInit
  /\ pc' = "write" /\ at' = f /\ upto' = l
  /\ UNCHANGED <<phase, demand, disk, file, api, saved, budget>>

\* The file as Create leaves it: an existing one is opened, else one is made.
\* With an open handle nothing is created.
WriteTarget == IF handle = "closed" THEN onDisk \cup {fname} ELSE onDisk
WritePieces(S) ==
  data' = IF handle = "orphan" THEN data
          ELSE [data EXCEPT ![fname] = @ \cup S]

\* CQvodFile::Write with its fflush: the bytes of the whole run.
WriteFile ==
  /\ pc = "write"
  /\ onDisk' = WriteTarget /\ WritePieces(at .. upto)
  /\ handle' = IF handle = "closed" THEN "linked" ELSE handle
  /\ pc' = "bit"
  /\ UNCHANGED <<phase, demand, record, sized, mem, fname, update, at, upto, api, saved, budget>>

\* Mutation: the result of Write is not looked at.
WriteFailsUnseen ==
  /\ pc = "write" /\ faults < MaxFaults
  /\ onDisk' = WriteTarget /\ handle' = "closed"
  /\ pc' = "bit" /\ faults' = faults + 1
  /\ UNCHANGED <<phase, demand, data, record, sized, mem, fname, update, at, upto, api, saved, deletes>>

\* Create or Write fails, Write after some of the run reached the file; the
\* handle is closed and the message is dropped.  The task is paused when there
\* is no space (-3) and no old task to delete, else it stays as it is.
WriteFails ==
  /\ pc = "write" /\ faults < MaxFaults
  /\ \/ UNCHANGED disk
     \/ /\ onDisk' = WriteTarget
        /\ \E k \in at .. upto : WritePieces(at .. (k - 1))
  /\ handle' = "closed" /\ running' \in {running, FALSE}
  /\ pc' = "idle" /\ faults' = faults + 1
  /\ UNCHANGED <<phase, offline, playAt, record, sized, mem, fname, update, at, upto, api, saved, deletes>>

\* Mutation: the loop runs once too often.
NextPieceOffByOne ==
  IF at <= upto THEN at' = at + 1 /\ pc' = "bit" ELSE at' = at /\ pc' = "trunc"

NextPiece ==
  IF at < upto THEN at' = at + 1 /\ pc' = "bit" ELSE at' = at /\ pc' = "trunc"

\* Mutation: true for a bit that was set already, so its bytes count twice.
SetBitFieldAlways ==
  /\ pc = "bit"
  /\ IF inited
     THEN bits' = bits \cup {at} /\ pc' = "len" /\ at' = at
     ELSE bits' = bits /\ NextPiece
  /\ UNCHANGED <<phase, demand, disk, record, sized, inited, downsize, imgLen, file, upto, api, saved, budget>>

\* CMem::SetBitField(index): true only when the bit was not set.
SetBitField ==
  /\ pc = "bit"
  /\ IF inited /\ at \notin bits
     THEN bits' = bits \cup {at} /\ pc' = "len" /\ at' = at
     ELSE bits' = bits /\ NextPiece
  /\ UNCHANGED <<phase, demand, disk, record, sized, inited, downsize, imgLen, file, upto, api, saved, budget>>

\* Mutation: the buffer is forgotten.
SetDownLengthNotSaved ==
  /\ pc = "len"
  /\ downsize' = downsize + Len(at) /\ imgLen' = imgLen
  /\ NextPiece
  /\ UNCHANGED <<phase, demand, disk, record, sized, inited, bits, file, upto, api, saved, budget>>

\* CMem::SetDownLength, in the counter and in the buffer.
SetDownLength ==
  /\ pc = "len"
  /\ downsize' = downsize + Len(at) /\ imgLen' = downsize'
  /\ NextPiece
  /\ UNCHANGED <<phase, demand, disk, record, sized, inited, bits, file, upto, api, saved, budget>>

\* CMem::WriteMemFile: fopen "wb" truncates the record ...
OpenMemFile ==
  /\ pc = "trunc"
  /\ IF inited THEN memKind' = "empty" /\ pc' = "save"
               ELSE memKind' = memKind /\ pc' = "check"
  /\ UNCHANGED <<phase, demand, disk, memBits, memLen, sized, mem, file, at, upto, api, saved, budget>>

\* ... and fwrite and fclose fill it, or fail unnoticed.
WriteMemFile ==
  /\ pc = "save"
  /\ \/ /\ memKind' = "full" /\ memBits' = bits /\ memLen' = imgLen
        /\ saved' = bits
        /\ UNCHANGED faults
     \/ /\ faults < MaxFaults /\ faults' = faults + 1
        /\ UNCHANGED <<record, saved>>
  /\ pc' = "check"
  /\ UNCHANGED <<phase, demand, disk, sized, mem, file, at, upto, api, deletes>>

\* Mutation: renamed after the first message.
CheckFinishNotAsked ==
  /\ pc = "check"
  /\ downsize' = Clamp
  /\ pc' = IF update THEN "rename" ELSE "idle"
  /\ UNCHANGED <<phase, demand, disk, record, sized, inited, bits, imgLen, file, at, upto, api, saved, budget>>

CheckFinish ==
  /\ pc = "check"
  /\ downsize' = Clamp
  /\ pc' = IF IsDownFinish /\ update THEN "rename" ELSE "idle"
  /\ UNCHANGED <<phase, demand, disk, record, sized, inited, bits, imgLen, file, at, upto, api, saved, budget>>

\* CQvodFile::Rename; m_bIsUpdate is cleared whether it succeeds or not, and
\* the task is paused.
Rename ==
  /\ pc = "rename"
  /\ IF fname = "temp" /\ "temp" \in onDisk
     THEN /\ onDisk' = (onDisk \ {"temp"}) \cup {"final"}
          /\ data' = [data EXCEPT !["final"] = data["temp"], !["temp"] = {}]
          /\ fname' = "final"
     ELSE UNCHANGED <<disk, fname>>
  /\ handle' = "closed" /\ update' = FALSE /\ running' = FALSE
  /\ pc' = "idle"
  /\ UNCHANGED <<phase, offline, playAt, record, sized, mem, at, upto, api, saved, budget>>

\* A message without data whose result is 3, an error of the server: the task is
\* paused.
HttpError ==
  /\ phase = "up" /\ pc = "idle" /\ faults < MaxFaults /\ faults' = faults + 1
  /\ running' = FALSE
  /\ UNCHANGED <<phase, offline, playAt, disk, record, sized, mem, file, writer, api, saved, deletes>>

-----------------------------------------------------------------------------
(* What the application wants: RunTask after it has found the task not     *)
(* finished, PauseTask, SetTaskDownload and the play position.             *)

AppUnchanged == UNCHANGED <<phase, disk, record, sized, mem, file, writer, api, saved, budget>>

RunTask ==
  /\ phase = "up" /\ ~IsDownFinish /\ running' = TRUE
  /\ UNCHANGED <<offline, playAt>> /\ AppUnchanged

PauseTask ==
  /\ phase = "up" /\ running' = FALSE
  /\ UNCHANGED <<offline, playAt>> /\ AppUnchanged

SetTaskDownload(option) ==
  /\ phase = "up" /\ offline' = option
  /\ UNCHANGED <<running, playAt>> /\ AppUnchanged

SetPlayFilePos(p) ==
  /\ phase = "up" /\ playAt' = p
  /\ UNCHANGED <<running, offline>> /\ AppUnchanged

-----------------------------------------------------------------------------
(* Application threads: CDownLoadTask::TaskIsFinish(true).                 *)

ApiCheck(a) ==
  /\ phase = "up" /\ api[a] = "idle" /\ IsDownFinish
  /\ downsize' = Clamp
  /\ api' = [api EXCEPT ![a] = "stat"]
  /\ UNCHANGED <<phase, demand, disk, record, sized, inited, bits, imgLen, file, writer, saved, budget>>

ApiStat(a) ==
  /\ api[a] = "stat"
  /\ api' = [api EXCEPT ![a] = IF IsFileSizeMatching THEN "idle" ELSE "clear"]
  /\ UNCHANGED <<phase, demand, disk, record, sized, mem, file, writer, saved, budget>>

\* CMem::Clear: the bits and the counter, but not the count in the buffer.
\* WriteMemFile holds the same lock from fopen to fclose.
ApiClear(a) ==
  /\ api[a] = "clear" /\ pc # "save"
  /\ bits' = {} /\ downsize' = 0
  /\ api' = [api EXCEPT ![a] = "idle"]
  /\ UNCHANGED <<phase, demand, disk, record, sized, inited, imgLen, file, writer, saved, budget>>

-----------------------------------------------------------------------------
(* Deletion of the task, deletion of a file by somebody else, kill.        *)

\* Mutation: the files go and the record stays.
DeleteTaskKeepsRecord ==
  /\ phase = "up" /\ pc = "idle" /\ \A a \in Api : api[a] = "idle"
  /\ faults < MaxFaults /\ faults' = faults + 1
  /\ phase' = "deleting" /\ FreshObject /\ FreshDemand
  /\ saved' = {}
  /\ UNCHANGED <<record, disk, writer, api, deletes>>

\* ~CDownLoadTask of a stopped task runs when the last thread leaves it: the
\* record goes first, the data files after it.
DeleteTask ==
  /\ phase = "up" /\ pc = "idle" /\ \A a \in Api : api[a] = "idle"
  /\ faults < MaxFaults /\ faults' = faults + 1
  /\ phase' = "deleting"
  /\ MemRemove /\ FreshObject /\ FreshDemand
  /\ saved' = {}
  /\ UNCHANGED <<disk, writer, api, deletes>>

\* RemoveTmpFile: the temp file always, the final one unless it is reserved.
RemoveFiles ==
  /\ phase = "deleting"
  /\ \/ onDisk' = {} /\ data' = [n \in Names |-> {}]
     \/ Drop("temp")
  /\ phase' = "gone"
  /\ UNCHANGED <<demand, record, sized, mem, file, writer, api, saved, budget>>

UserDeletes(n) ==
  /\ n \in onDisk /\ deletes < MaxDeletes
  /\ deletes' = deletes + 1
  /\ Drop(n)
  /\ handle' = IF handle = "linked" /\ fname = n THEN "orphan" ELSE handle
  /\ UNCHANGED <<phase, demand, record, sized, mem, fname, update, writer, api, saved, faults>>

\* A created task enters the database after run; a deleted one may or may not
\* have left it already.
Kill ==
  /\ phase \in {"up", "purgeNew", "purgeLoad", "deleting"}
  /\ faults < MaxFaults /\ faults' = faults + 1
  /\ phase' \in {"down", "gone"}
  /\ phase \in {"up", "purgeLoad"} => phase' = "down"
  /\ phase = "purgeNew" => phase' = "gone"
  /\ FreshObject /\ FreshDemand
  /\ pc' = "idle" /\ at' = 0 /\ upto' = 0
  /\ api' = [a \in Api |-> "idle"]
  /\ UNCHANGED <<disk, record, saved, deletes>>

-----------------------------------------------------------------------------
Run == RunFinished \/ RunBadFinal \/ RunResume \/ RunBadTemp \/ RunNothing \/ PurgeFile
MessageThread ==
  WriteFile \/ WriteFails \/ SetBitField \/ SetDownLength \/ OpenMemFile
            \/ WriteMemFile \/ CheckFinish \/ Rename
ApiThread(a) == ApiCheck(a) \/ ApiStat(a) \/ ApiClear(a)

Application ==
  \/ RunTask \/ PauseTask
  \/ \E option \in BOOLEAN : SetTaskDownload(option)
  \/ \E p \in Seeks : SetPlayFilePos(p)

Next ==
  \/ Run
  \/ \E f, l \in Pieces : Deliver(f, l)
  \/ MessageThread \/ HttpError
  \/ Application
  \/ \E a \in Api : ApiThread(a)
  \/ DeleteTask \/ RemoveFiles
  \/ \E n \in Names : UserDeletes(n)
  \/ Kill

Spec == Init /\ [][Next]_vars

\* The piece asked for next: the first missing one from the play position on; an
\* offline task then goes on from the start of the file, another one asks for
\* nothing.  Before there is a bitfield, it is the head of the file.
First(S) == {p \in S : \A q \in S : p <= q}
Missing == Pieces \ bits
MissingAhead == {p \in Missing : p >= playAt}

\* Mutation: an offline task does not go back to the start of the file.
DownNextHttpPieceAhead == IF ~inited THEN {0} ELSE First(MissingAhead)

DownNextHttpPiece ==
  IF ~inited THEN {0}
  ELSE IF MissingAhead = {} /\ offline THEN First(Missing)
  ELSE First(MissingAhead)

\* The answer to what UpdateDownloadMode asks for, every 3 s, of a task that is
\* running and not finished: it begins with that piece.
Answer ==
  /\ running /\ ~IsDownFinish
  /\ \E f \in DownNextHttpPiece : \E l \in Pieces : Deliver(f, l)

\* The threads and the start-up code go on.  The server answers what it is asked
\* for again and again (strong: messages of earlier requests come in between).
\* Nobody has to run a task, and the application may pause it whenever it likes.
Fairness ==
  /\ WF_vars(Run) /\ WF_vars(RemoveFiles) /\ WF_vars(MessageThread)
  /\ SF_vars(Answer)
  /\ \A a \in Api : WF_vars(ApiStat(a) \/ ApiClear(a))

FairSpec == Spec /\ Fairness

-----------------------------------------------------------------------------
(* Properties.  With files deleted behind its back the library promises    *)
(* nothing about their contents, hence the condition Untouched.            *)

Untouched == deletes = 0
Written == data["temp"] \cup data["final"]

\* A download that counts as finished (TaskIsFinish, the status 3 the player
\* sees) has every piece in its file: whatever the interleaving of the message
\* thread with threads that reset the progress, and across kills at any point.
FinishedIsWritten == Untouched /\ phase = "up" /\ IsDownFinish => Written = Pieces

\* A file that carries the final name is complete, although Rename happens
\* several steps after the count was compared and the progress may have been
\* reset in between.
FinalIsComplete == Untouched /\ "final" \in onDisk => data["final"] = Pieces

\* The saved record never claims what the file does not hold: its bits are in
\* the file, and a full byte count means a full file.  This is what makes the
\* next start safe (file first, memory second, record third).
RecordIsTrue ==
  Untouched /\ memKind = "full" =>
    memBits \subseteq Written /\ (memLen >= FileSize => Written = Pieces)

\* Until the file is complete the counter is exactly the bytes of the pieces
\* marked, but for the one piece between SetBitField and SetDownLength.
Pending == IF pc = "len" THEN {at} ELSE {}
CountIsExact ==
  Untouched /\ phase = "up" /\ Written # Pieces =>
    downsize = Bytes(bits \ Pending) /\ imgLen = downsize

\* A task that nobody and no error pauses or moves any more gets what it is there for,
\* when no thread resets it: the whole file when it is offline, else the file from the
\* play position on; and a task with every piece counts as finished.  Whatever was
\* delivered, failed, paused, sought or killed before.  (To finish pauses the task, so
\* for a whole file this says that none is left running without it.)
Due(p) == IF offline THEN Pieces ELSE p .. Last
RunningFinishes ==
  \A p \in Pieces :
    <>[](phase = "up" /\ running /\ playAt = p)
      => []<>(Due(p) \subseteq bits /\ (bits = Pieces => IsDownFinish))

\* The store implements the abstract download as long as nobody else deletes
\* its files: the pieces it has are those in the file, and the file is published
\* when it has its final name.
Abstract == INSTANCE Download WITH have <- Written, published <- "final" \in onDisk
Implements == Abstract!Spec

\* README.md:3, resuming an interrupted download: whatever a kill interrupts, the next
\* start has all that was saved, but for a kill that left the record truncated.  (With
\* application threads, TaskIsFinish may have reset a complete download.)
ResumeKeepsSaved ==
  [][(phase = "down" /\ phase' # "down" /\ Untouched /\ memKind = "full")
       => saved \subseteq bits']_vars

=============================================================================
