# Models of YFNet

YFNet is a C++ download library for video players: progressive downloads with
resume, HLS playback, caching. This directory holds TLA+ models of its core,
the TLC runs that check them and TLAPS proofs. The code is in `src/Src`.

## The system

| Component | State | Operations | Threads |
|---|---|---|---|
| Download store (`taskmgr/Mem.cpp`, `QvodFile.cpp`, `Task.cpp`, `DownLoadTask.cpp`) | bitfield, byte counter, `.mem` record, data file (`name.!mv`, then `name`) | run, WriteHttpData, TaskIsFinish, delete | message thread writes; API threads query and reset |
| HTTP agent (`httpagent/HttpAgent.cpp`) | requests `m_agentMap`; connections `m_SocketArray`, `m_hashArr`, `pfds` (64) | AddTask, AddM3u8TsTask, DelTask, OnData, OnConnect, OnClose, TerminalSock, ReConnect, deleteUnusedSock | `Routine` polls; others add and delete |
| Message pool (`msgpool/MsgPool.cpp`, `MsgHandle.cpp`) | queues, timers, limits | Routine (agent messages), CommonRoutine (16 ms timers, task pass about every 3 s) | two threads |
| Task manager (`taskmgr/TaskMgr.cpp`, `ServerProduct.cpp`) | tasks, status, playing flag | create, start, pause, delete, CheckTimeStamp | API threads and the pool's |
| HLS task (`taskmgr/M3u8Task.cpp`, `M3u8.cpp`) | piece list, pieces in flight, playing position | WriteM3u8Data, WriteM3u8Ts, DownNextM3u8Ts, UpdateClarityUrl | as above |
| Memory cache (`taskmgr/CacheDataInMem.cpp`) | ts data, size (15 MB) | CacheM3u8Data, ReadM3u8Data, ClearCache | as above |
| Local HTTP server (`httpserver/httpserver.cpp`) | the player's connections, what is pushed on each | ProcessYfHttpReq, OnTimerEvent, InnerRemoveSocket | its own thread |
| API and start-up (`YfNetPlush/`) | none of its own | CreateTask, RunTask, ReadFile, TaskIsFinished, DeleteTask | application threads |

An application thread creates a task and runs it. The task asks the HTTP agent
for a range. `CHttpAgent::Routine` receives it and pushes a message.
`CMsgPool::Routine` takes the message to `CMsgHandle::HdHttpAgentRange`, which
calls `CDownLoadTask::WriteHttpData`; that writes the file, marks the piece,
saves the record, renames a complete file, and the handler asks for the next
piece. `CheckTimeStamp` asks again for a task that stands still.

What makes it hard: the message thread, the timers, the polling thread and any
number of application threads work on the same objects under fine-grained and
overlapping locks; the process may be killed anywhere (mobile); writes fail;
the system or the user deletes files; servers stall, redirect and close.

What makes each part correct:

- store: bits, counter, record and file agree; only a complete file gets its
  final name; a kill loses no more than what was not saved; downloads finish;
- agent: a connection belongs to exactly one request; every request is answered;
  the table keeps to its limit;
- task manager: every pass ends and reaches every task; a task lives as long as
  somebody holds it; map, lists and the limit of downloads agree;
- HLS task: a piece is in flight at most once and none is skipped; what the
  player waits for comes; a switch of clarity is neither lost nor undone;
- cache: the size is the sum of what is kept and stays near the limit;
- all: threads wait for each other in no other way than the two that are known.

The modules and what they share:

| Module | Part | Composes |
|---|---|---|
| `Download` | what a download promises | |
| `DownloadStore` | progressive download on disk | implements `Download` |
| `HttpAgent` | connections and requests | |
| `HlsSchedule` | offline HLS task | task, agent, timer, message thread, application |
| `HlsPlayback` | HLS task that is played | task, cache, agent, server, timer, message thread |
| `HlsSwitch` | playlist and switch of clarity | task, agent, server, timer, message thread, application |
| `TaskTable` | the tasks themselves | task manager, API, message thread |
| `TaskWalk` | the periodic pass | extends `TaskTable` |
| `LockOrder` | the locks of all of them | all threads |

The agent is modelled in full in `HttpAgent`; the HLS modules have as much of it
as their task sees, and each says how much.

`PROJECT.json` lists the components, the hazards at their lines, and for every
definition the lines it models.

## DownloadStore

`DownloadStore.tla` is one progressive download. The memory of the process
(`inited`, `bits`, `downsize`, `imgLen`; `sized`; `fname`, `handle`, `update`)
and the disk (`onDisk`, `data`; `memKind`, `memBits`, `memLen`) are separate
variables, so that `Kill` can drop one and keep the other. `imgLen` is the byte
count inside the record image, which `CMem::Clear` forgets to reset. `running`,
`offline` and `playAt` are what the application wants of the task: only a
running task asks for data, and only from its play position on unless it is
offline (`bCopyFullFile`). A write that fails for lack of space, an error of the server
and the end of the download pause it.

| Code | Actions |
|---|---|
| `CDownLoadTask::run` | `RunFinished`, `RunBadFinal`, `RunResume`, `RunBadTemp`, `RunNothing`; `PurgeFile` is the second removal |
| `HdHttpAgentRange` | `Deliver` (also the first `SetFilesize`); `HttpError`; the pause in `WriteFails` |
| `WriteHttpData` | `WriteFile`/`WriteFails`, `SetBitField`, `SetDownLength` (per piece), `OpenMemFile`, `WriteMemFile`, `CheckFinish`, `Rename` |
| `TaskIsFinish(true)` | `ApiCheck`, `ApiStat`, `ApiClear` |
| `RunTask`, `PauseTask`, `SetTaskDownload`, `SetPlayFilePos` | the actions of these names |
| `UpdateDownloadMode`, `DownNextHttpPiece` | `Answer` with `DownNextHttpPiece` (used by the fairness) |
| destructor of a stopped task | `DeleteTask`, `RemoveFiles` |
| outside | `UserDeletes`, `Kill` |

A step is what happens between two points at which another thread, or a kill,
can be noticed: a lock taken and released, a file-system call. Bytes are
abstracted to pieces with two lengths. The buffered writes of one message are a
single step, as `CQvodFile::Write` flushes; a failed write leaves any prefix of
whole pieces. A partial piece at the end of a message is dropped by the code
and left out, as are `RunTask` of a task that finishes between the query in it and its start, and the limit of
running downloads, which is in `TaskTable`. A message without data does not set
`filesize`, and the handler reads it while the length is unknown (`MsgHandle.cpp:370`); the model has one length
and lets such a message set none. Files written are taken to reach the disk in the order of the
calls: the model has kills of the process, not power failures.

`Download.tla` is what the application is promised: pieces arrive, a complete
file is published, and data is lost only as a whole.

Checked, three pieces with a short last one, two API threads, one fault (kill,
failed write, error of the server or task deletion) and one foreign deletion:

- `store`: `TypeOK`, `FinishedIsWritten`, `FinalIsComplete`, `RecordIsTrue`,
  `CountIsExact`. Three pieces give a first, a middle and a last piece and
  messages of one, two and three; a second fault adds states but no kind of
  state, since a kill leaves only the disk behind. The API threads are
  interchangeable (symmetry).
- `store_live`: `RunningFinishes`, `Implements` and `ResumeKeepsSaved`, two faults, no API thread
  and no foreign deletion (which the abstract download does not know; with API
  threads the refinement is proved, see below). `ResumeKeepsSaved` is what resuming
  means: the start after a kill has every piece that had been saved, unless the kill left
  the record truncated. `RunningFinishes` is about a task that from some time on is running, and at one play
  position: it gets what is due (`Due`), the whole file if it is offline and else the file
  from the position on, and with every piece it counts as finished. Whether
  anybody runs a paused task again is up to the application, and no fairness is assumed of it. Fairness: the
  threads run, and what the code asks for next is answered again and again as long as it
  asks (strong fairness of `Answer`; the pass asks every 3 s while no video of another task is buffering,
  the message thread after each message; other messages come in between). `Answer`
  is enabled only while the task is running and not finished, and begins with the piece of
  `DownNextHttpPiece`.

`Seeks` are the play positions the application may set: the start of the file in `store`, whose
properties do not look at it, and one with a piece before it in `store_live`. Errors of
the server count as faults.

With foreign deletions the library keeps no promise about content, so the safety
properties carry the condition `Untouched`; deletions are in the run all the
same because they open code paths (`Clear`, orphaned handles).

Three things the code does that the conditions of these properties allow for:

- `WriteMemFile` truncates the record before it rewrites it (`Mem.cpp:459`). A kill in between
  leaves an empty record, and the next start throws the download away.
- A query (`TaskIsFinish`) between the last piece and the rename finds no final file
  and resets a complete download (`DownLoadTask.cpp:111`).
- A task created over an unusable final file with a readable record keeps the
  length but loses its bitfield (`DownLoadTask.cpp:496-510`); nothing makes it again, and it never finishes.

### Proofs

`DownloadStore_proofs.tla` proves, for every number and length of pieces,
every set of API threads and any number of faults, from `StoreAssumption` (at least one
piece, the last non-empty and no longer than the others):
`TypeCorrect`, `FinishedIsWrittenAlways`, `FinalIsCompleteAlways`,
`RecordIsTrueAlways`, `CountIsExactAlways` and, for `MaxDeletes = 0`, `Refinement`.

The properties are not inductive: that `IsDownFinish` implies a full file needs
that the counter is the sum of the bits, that the bits are in the file the
object writes to, and what each intermediate step of the message thread has done so
far. `IInv` is `TypeOK` and `Core`, and `Core` has one part per
owner: `FilesInv` and `RecordInv` (disk), `ObjectInv`, `MemoryInv` and `WriterInv` (the
message thread, per program counter), `IdleInv` (nothing is loaded), `ApiInv`.
Each has the alternative that the file is complete (`Written = Pieces`): after
a reset by `Clear`, which can only follow a completed count, the counter may run ahead of
the bits, but every piece is in the file and stays there. One lemma per action
shows that it keeps `IInv` (`Invariance`), a few lemmas on `Bytes` say that it
is monotone and that a full count means all pieces.

Resuming spans a kill. `SavedInv`, that a readable record has the bits of all that was saved, holds with any threads, and from it
`ResumeKeepsUnreset`: the one start that loses what was saved finds the final
file beside a record with less than the full count, which a reset of a complete download leaves.
`ResumeKeepsSavedAlways` (`ResumeKeepsSaved`) is for `Api = {}`, as in the run `store_live`, with any number of pieces,
kills and failed writes. Without resets a file is renamed only after its full count was saved, so a final file has a full
record (`Kept`: the count in memory and in the record image become full together, and who writes knows the length of the file).
The hypothesis is needed: the query in the second item above is what breaks the property. Liveness is TLC's alone.

## HttpAgent

`HttpAgent.tla` is the table of connections and the map of requests. A
`CAgentInfo` is an element of `obj`, apart from its map entry, because
`Routine` keeps a counted reference (`held`) to one whose entry another thread
has removed. Everything `AddRange`, `DelTask` and `TerminalSock` do happens under
`m_agentLock` and is one step; `Routine` takes a step per access it makes to
the shared state (`pc`, and `idx`, the index it read).

| Code | Actions |
|---|---|
| `AddTask`, `AddRange`, `AddM3u8TsTask` | `AddTask`, `AddReused` |
| `DelTask` | `DelTask` |
| `deleteUnusedSock` | `Sweep` |
| `Routine` | `Poll`, then `In`/`Out`/`ConnectFail`; `Term`, `Kill`, `Close` |
| `OnData` | `In`, `Recv`, `Copy`, `Fin`, `Share`, `Reuse`, `DropConnection`, `Push` |
| `OnConnect` | `Out`, `Send`, `Mark` |
| `TerminalSock`, `ReConnect`, `OnClose` | `Terminate` with `Answered`, `Reconnected`, `Appended`, `Closed`, `Released` |

Undefined behaviour ends the behaviour with a mark in `ub`: a write behind the
table (`overflow`), a copy to a buffer that was taken (`null`), index -1 (`index`).
The last does not happen, which is what `ReuseHasSlot` is for; the other two can happen and are listed as hazards, the first
when the table was full.

Abstractions. Time is left open: any request may be overdue whenever `Routine`
looks. Response parsing is a choice between nothing yet, part of the data, all of
it, and an error. Messages are a flag per request (`told`), not a queue, since
the properties do not tell their order. The only change of the table outside
`m_agentLock` is `OnClose(index)` of `Routine`; that it could also run inside the other
threads' locked sections is left out (the two locks, taken in opposite order,
are in `LockOrder`). A range asked for while its agent has it changes nothing and is left
out. Not modelled: the registry of the sub-requests of a task, the
error map, POST (unused), `Stop`.

- `agent`: a range and a whole-file request, three descriptors, three requests,
  one retry, a table of three: `TypeOK`, `SlotsMatch`, `ReuseHasSlot`,
  `AnsweredBeforeDrop`. Two hashes make connections change places in the table; three descriptors
  make one be reused while the others live; three requests allow
  a request to be replaced and the other to be added in between. Descriptors
  are interchangeable. `SlotsMatch` holds as long as the table was never full (`wasFull`):
  a full one refuses to close
  (`HttpAgent.cpp:1343`), and a reconnection then writes behind its end.
  The test that is to prevent an overflow (`HttpAgent.cpp:1342`) keeps a full table full, and
  `ReConnect` has none: on a table of two, two requests and one timeout are enough for it.
- `agent_live`: two whole-file requests on a table of two, with requests
  refused: every request is answered as long as a connection is open (`Routine` may close by an
  index that another thread has changed since; with no connection left nobody sweeps, and the
  request that lost its connection is never answered). Fairness:
  `Routine` goes on, and every request is overdue in the end, as no comparison of
  times stays false for ever (strong, because a sweep needs the loop's start).

### Proofs

`HttpAgent_proofs.tla` proves `TypeCorrect`, `TablesAgree` (`SlotsMatch`), `ReuseFindsSlot`
(`ReuseHasSlot`) and the action property `NoneLost` (`AnsweredBeforeDrop`) for every finite set of tasks,
every set of descriptors, table size and number of retries, from `AgentAssumption`. `IInv` is
`TypeOK`, `Tied` and `Held`. `Tied` relates the map to the table: no object has two entries (`Distinct`), a table
that was never full has a free place (`FullSeen`), `SlotsMatch`, `ReuseHasSlot`, and the next user of a
connection waits for one that is answered (`ReuseAnswered`). `SlotsMatch` alone is not inductive: whether
closing keeps it depends on what `Routine` has in its hand, and that is `Held`, one part per place of
`Routine` (it holds an object, that object had a connection, its answer is not passed on yet). All
deletions and additions change the entries of one hash; such a step is described once (`OneHash`)
and shown to keep every part. A new request always finds an object, by counting
(`NewObjType`): there are two more than there are hashes, and `Routine` holds one at most. `AnsweredWhileBusy` is TLC's alone.

## HlsSchedule

`HlsSchedule.tla` is the offline download of an HLS task: which ts piece is
asked for next, and which are taken to be in flight (`marked` is
`m_tsIndexDownloading`). `CM3u8Task::UpdateDownloadMode` has no lock of its own.
The timer, the message thread and the application threads run it side by side, each with
the index it was given (`ret`); `CheckTimeStamp` holds `m_task_path_lock`, but
the others find the task under `m_task_map_lock`. So each access to shared
state is a step (`pc`).

| Code | Actions |
|---|---|
| `CheckTimeStamp` | `Tick` |
| `UpdateDownloadMode` | `Enter`, `Next1`, `First`, `Info`, `AddMain`, `SetIndex`, `Loop`, `NextSub`, `CheckSub`, `AddSub` |
| `DownNextM3u8Ts` (task) | `DownNextM3u8Ts` in `Next1`, `NextSub` |
| `AddM3u8TsTask` | `AddFound`, `AddNew`, `AddRefused`, `AddUnconnected` |
| `Start`, `Pause`, then `DelTask` | `Start`; `PauseTask`, `Clear`, `DelMain`, `DelSubs` |
| `HdHttpM3u8Ts`, `DownNextM3u8Ts` (handler) | `Handle`, `Write`, `WriteFails`, `Reset`, `Again` |
| the agent (`OnData`, `TerminalSock`) | `Complete`, `Drop`, `Push`; `Fails` |

The agent of this module is what the scheduling sees of `HttpAgent`. A failed,
deleted or replaced request is answered in the step that removes it, under
`m_agentLock`. A complete piece takes three steps: `bshare` is set, whatever
request has that hash then is removed, and the message follows; in between the task
finds no request and may ask again. Abstractions: the task is not played, its playlist is
there, nobody deletes ts files. The scan of `DownNextM3u8Ts` for the first
missing piece is one step, although it takes the lock of the set anew for every
piece. Incomplete data counts as no data, since nothing is written then. The second attempt of
`WriteM3u8Ts` after clearing other tasks' caches is part of `Write` or
`WriteFails`. A stop with deletion of the task is left out.

- `hls`: two pieces, limit 1, an application thread that pauses once and starts
  again: `TypeOK` and `AnswersClearMarks`. Two pieces are the task's own request and
  one request by the hash of a piece. The timer comes only when nothing else
  is going on (`MaxBusy`); what happens while it is inside `UpdateDownloadMode` is
  not limited.
- `hls_live`: three pieces, limit 1, one fault (a refused, failed or erroneous
  request, or a failed write): `MarkLimit`, and `FinishesUnlessStale`: a task
  that keeps running without a stale mark gets every piece. Piece 0 is never marked, so
  three pieces are needed for two that are. Fairness: the timer and the message
  thread run (weak); a request gets data again and again if it is asked again
  and again (strong, as an answer may be overtaken by a replaced request).
  Without the condition it does not finish: the answer may be handled between
  `AddM3u8TsTask` and `SetTsIndexDownloading`; the mark then stays, and with the default limit of
  one no thread asks for anything again.

The deadlock check is off in these runs: a finished or paused task rests.

### Proofs

`HlsSchedule_proofs.tla` proves `TypeCorrect`, `MarkLimitAlways` and
`AnswersClearMarksAlways` for every playlist, limit, bound and finite set of
application threads, from `ScheduleAssumption`. `IInv` is `TypeOK`, finite
`reqs`, `MarkLimit` and `ErrorHandled` (an error in work keeps the message
thread in the pause and the removal of the mark). `MarkLimit` is inductive because it counts marks and threads that
have passed the test together: a thread that passes it saw fewer than `Max`
marks, and one that marks leaves `Adding`. For `AnswersClearMarks`, `NoDataAnswers` shows by counting (an
injection between sets of one size is onto) that every terminated request gets
its message, and one lemma per actor shows that an expected answer stays
expected until the mark is dropped. `FinishesUnlessStale` is TLC's alone.

## HlsPlayback

`HlsPlayback.tla` is an HLS task that is played. Pieces are on disk (`disk`) or, when they
cannot be written, in the memory cache (`cached`, `nCacheSize`; `left` is the data of another task). The server pushes the piece `want` to the player, from disk,
from the request in progress or from the cache, and releases what was read.
How far the pieces reach ahead of the position (`Ahead`) and the room in the cache decide
whether more is asked for.

| Code | Actions |
|---|---|
| `CheckTimeStamp`, `UpdateDownloadMode` | `Tick`; `Enter`, `Wipe`, `Time`, `Add` |
| `SetM3u8PlayingPos`, `SetPlayingTs`, `DownEmergencyData` | `AskNext`, `Seek`; `Clear`, `Emergency`, `EmergencyNext`, `EmergencyAdd` |
| `OnTimerEvent` (server) | `ReadDisk`, `ReadAgent`, `ReadCache` |
| `SetTaskPlaying` | `StopPlay` |
| `HdHttpM3u8Ts` | `Handle` (`Written`, `NotWritten`, `NoneCame`), `Store` |
| the agent | `Complete`, `Fails` |
| the cache, used by another task | `OtherTask` (`OtherStores`, `ClearCacheByHash`) |

`ByteBits` is the width of a byte of the bitfield: `ClearTsData` skips a whole one
from wherever it stands. Left out: AES, the copy of a whole file, a second
connection of the player. The marks of `HlsSchedule` play no part for a task that is not offline.

- `playback`: two pieces of one unit, a cache of two units of which another task has taken
  one, one event (a seek, a stop, a request refused or unanswered, the other task adds or removes data), one other
  thread at work when a thread begins: `TypeOK`; `SizeIsKept`, the counter of the cache is what it
  holds; `CacheLimit`, it exceeds the limit by less than one piece, though
  the size of a piece is not looked at; `ServedUnlessAhead`, a player that
  waits for a piece gets it or goes elsewhere, unless the task is paused or the time ahead, counted from the
  position and not from the piece, is enough. Two pieces are a piece that is played and one that comes
  too early, and fill the cache; failed writes are unlimited. Fairness: the threads run, the server answers.

`HlsPlayback_proofs.tla` proves `TypeCorrect`, `LimitHolds` (`CacheLimit`) and `SizeIsKeptAlways` (`SizeIsKept`) for every number and size of pieces
and every limit, from `PlaybackAssumption`. The last piece is taken while there is any room, and every other operation makes the
counter smaller; the strengthening says that a message thread that is about to store has a piece (`StoresPiece`). What the cache keeps is a sum over the pieces, counted as the size of one finite set (`Units`: a pair of a piece and a number up to its
size for each unit), so that storing, releasing or replacing a piece adds or removes a disjoint part and no
induction over the pieces is needed. `ServedUnlessAhead` is TLC's alone.

## HlsSwitch

`HlsSwitch.tla` is the playlist of a task and the switch to another URL. It keeps
where the playlist on disk came from (`onDisk`) apart from the URL that was asked for (`url`) and the
one in use (`listUrl`). `UpdateClarityUrl` writes the URL and reads the push index;
`ClosePush` resets the push index and reads the URL. Whichever comes second sees the
other, so no switch is lost, without a common lock: `NoSwitchLost`.

| Code | Actions |
|---|---|
| `UpdateClarityUrl`, `UpdateHttpOrgUrl` | `SwitchUrl`, `UpdateClarityUrl` |
| `InnerRemoveSocket`, `ClosePush` | `ClosePush`, `Compare` |
| `UpdateM3u8OrgUrl` | `Compare`, `Del`, `Swap`, then `Mode` |
| `UpdateDownloadMode`, `DownEmergencyData` | `Tick`, `Mode`, `Add`; `AskFor` |
| `HdHttpM3u8`, `SaveM3u8File`, `SetTaskStatus(PAUSE)` | `Handle` (`SaveM3u8File`, `Error`, `NothingToSave`), `Pause` |
| the agent | `Complete`, `Drop`, `Push`, `Fails` |

- `switch`: two URLs, one switch, one fault, one other thread at work when a thread begins: `TypeOK`,
  `NoSwitchLost` and `SwitchedUnlessLate`, in the end the playlist of the new URL is there. A task that is
  paused by an error is excepted, and so is an answer for the old URL that is handled after the
  switch: the handler saves it, as the file is not there, and keeps it (`late`). A request made of the path
  of one playlist and a name of another (`Exists`) is in the model; it fails, and its error pauses the task.
  Left out are the URLs of pieces that a CDN gives for one use (`M3u8Task.cpp:1044-1055`).
  Fairness: the threads run, the server answers, and a push ends (strong, because the player may begin the next at once).

`HlsSwitch_proofs.tla` proves `TypeCorrect` and `SwitchNotLost` (`NoSwitchLost`) for every set of URLs, any
number of switches and faults, from `SwitchAssumption`. `NoSwitchLost` speaks of the places of the threads that will still
compare, so it is nearly inductive; it needs that the polling thread has a request whenever it is not idle
(`Polled`). `SwitchedUnlessLate` is TLC's alone.

## TaskTable and TaskWalk

`TaskTable.tla` has the map and the lists of the task manager, the objects with their
counters (`RefCountedObject`), status, playing flag and database row, and the calls create, delete,
run, pause and play, one step per hold of a lock. `TaskWalk.tla` adds the periodic pass
(`CheckTimeStamp`) and the flag of a buffering video.

| Code | Actions |
|---|---|
| `CreateYfTask` (manager, then product) | `CreateYfTask`, `Insert`, `List`, `Row`, `AddRow` |
| `SetTaskStatus(STOP)`, `DeleteOldTaskExceptHash` | `Begin`, `Unplay`, `Stop`, `Unlist`, `Unmap`; `MayDelete` |
| `RunTask`, `SetTaskStatus` | `RunTask`, `Start`, `Run`; `Begin`, `Pause` |
| `SetTaskPlaying` | `Begin`, `Play`, `Limit` |
| `FindTask` with `duplicate`, `release` | `Find`; `Release`, `Test` |
| `CheckTimeStamp`, `NotifyVideoBuffering` | `CheckTimeStamp` (`Begins`, `Visits`), `NotifyVideoBuffering` |

- `tasks`: three hashes, two of them offline, a limit of one, an application thread and the message thread, no more than three
  objects: `TypeOK`; `HeldAlive`, a task that the map or a thread holds is not deleted; `NoLeak`, a task that nobody holds has
  been; `MappedIsListed`, the pass finds every task that is not just being created or deleted;
  `DownloadLimit`. Three objects for three hashes allow a hash to be deleted and made again. The
  deadlock check is off: the objects may be used up.
- `tasks_buffering` (violated): while a video buffers, the pass stays at the first task that is
  not played, with `m_task_path_lock` held, for as long as the application does not end the
  buffering; the flag is global and outlives the task. Fairness: the pass goes on, calls end.

What the conditions of these properties allow for: `release` reads the counter after the decrement, so two threads may both delete
an object; a task that is deleted between the two steps of its creation stays in its list as
a dangling pointer, and its row stays without a task; with two application threads in `RunTask` the limit
is passed, and two that create the same task leak one of the objects. `StartAllTask`, which does not look at the limit, is left out.

`TaskTable_proofs.tla` proves `TypeCorrect` and `FoundAlive` (`HeldAlive`) for every number of tasks and objects and every finite
set of application threads, from `TaskAssumption`. The strengthening is about the counter: it is at least
the number of threads that hold the object, and one more for the map (`Counted`); an object is in the map under
its own hash only (`OwnHash`), and what is not made nobody knows (`Made`). It is not equal to that number: a thread
that has released and tests the counter a step later no longer counts.

`TaskLimit_proofs.tla` builds on it. `AllListed` (`MappedIsListed`) holds for any threads: a task in the map is in its list, or
a thread is about to put just that object there, or about to take it out of the map (`AllTracked`). `NothingLeaks` (`NoLeak`) and
`LimitKept` (`DownloadLimit`) are proved for one application thread (`OneApp`), any number of tasks and any limit; with two,
both are violated. `NothingLeaks`: what is added to the map replaces nothing (`Fresh`), so the counter is exactly
the number of references (`Exact`), and an object is deleted, or the map or a
thread still knows it (`Reach`). `LimitKept`: what `RunTask` has found out still holds when the task starts (`RunReady`), for the message
thread deletes no offline task (`Roles`, `KeepsMapped`) and only lowers the number of downloads (`Shrinks`).

## LockOrder

`LockOrder.tla` has no data: for each call of each thread, the locks in the order in which the code
takes and releases them, `Holding` one around others. Locks are recursive (`qvod_lock.cpp:183`). A branch that takes no lock
is the same call cut short, so every call takes all of its locks; an outer call that holds a lock is the one
that matters.

Locks under which no other is taken and which only one component uses (those of `CMem`, `CQvodFile`, the list of
files) are left out. `WriteM3u8Ts` is that of an `HLSP2PDOWNTASK`, the type that takes the most locks: the pieces
are locked over `WriteM3u8Data` and `WriteHttpData`, and with the last piece the task is paused and the
playing tasks are counted, so the map is locked under the pieces. `StartAllTask` locks the
pieces of a task under the map.

`App` are the threads of the application, each making any of their calls (`AppCalls`), `Own` those of the library's four threads that run.

- `locks`: the routine that walks the tasks, the message thread, one thread of the application: `TypeOK` and
  `DeadlocksKnown`. Two of these threads do wait for each other for ever in one way, and the property names it (`FinishesAgainstStartAll`):
  the message thread finishes a task, with its pieces locked, and asks for the map (`DownLoadTask.cpp:793`);
  the application is in `StartAllTask` (`TaskMgr.cpp:1319`) with the map locked, has found that task unfinished, and asks for its pieces (`M3u8Task.cpp:1012`).
  It takes a task that was paused when the last piece arrived late. With `NoDeadlock`
  instead, TLC finds just this. `DeadlocksKnown` says that among these threads there is no other way. The deadlock check is off, as the
  threads do stop there.
- `locks_agent` (violated): the polling thread closes a connection with `m_nSockLock` and asks for
  `m_agentLock`; every other thread takes them the other way round. The registry of sub-requests (`m_hashonetaskLock`) has the same
  conflict between the server and the threads that end requests.

`LockOrder_proofs.tla` proves `TypeCorrect` and `DeadlocksKnownAlways` (`DeadlocksKnown`) for any number of application threads, whichever of
the library's run. Every lock has a rank:
`m_task_path_lock` and the server's lock 0, `m_task_map_lock` 1, the lock of the pieces 2, that of the playlist 3, `m_agentLock` 4, all others 5. A call is
`Safe` if it gives back all it takes, and, for an ordered thread (any but the polling thread and the server), takes a lock only above all it
holds, or again, or that of the map under that of the pieces (`Follows`). One lemma per function shows that, from those of the functions it calls, and `Balanced` carries it into the states: what a thread
still has to do leads from the locks it holds to none. When ordered threads wait for each other, the owner of every
lock waited for waits for one that may follow it. Ranks end, so the highest of these locks is that of the pieces, whose owner wants the map, and
the owner of the map wants a lock above it, which is that of the pieces (`OrderedDeadlock`).

## What is proved and what is checked

Proved for all values of the constants: type correctness of every module but `TaskWalk`, and every safety property that a
passing run checks, with the refinement of `DownloadStore`. Some need a hypothesis, which the code does not
guarantee and without which they do not hold: one application thread (`NoLeak`, `DownloadLimit`), none that queries
(`ResumeKeepsSaved`), no foreign deletion (`Implements`). `DeadlocksKnown` needs none; that there is no deadlock at all does not hold.

Model-checked only, because liveness under fairness is out of the prover's reach: `RunningFinishes`, `AnsweredWhileBusy`,
`FinishesUnlessStale`, `ServedUnlessAhead`, `SwitchedUnlessLate`. Each holds under the fairness named with its run. `TaskWalk` has no
safety property of its own. The violated properties are TLC's: `PlayingIsVisited`, and `NoDeadlock` with the polling thread.

## Plan

1. Proofs about `TaskWalk`: its variables, and that the pass keeps the properties of `TaskTable`.
2. `TaskTable` with two application threads and the bulk calls.
3. `HlsSwitch` with the names of the pieces kept over a switch (`m_tsFileNameIndexMapOld`).

## Not modelled

- Statistics, upload and the copy of finished files: independent of downloads, or without a caller.
- The peer protocol: `MsgPool::SendPacket` is a stub, so nothing of it can happen.
- SQLite, OpenSSL, zlib, JSON, XML, AES, STUN, UPnP and the skin headers: third-party code, most of the lines of the repository.
- The parsing of HTTP and of playlists, socket I/O, formatting and logging: no state that another thread sees.
- Queries, and functions of the task manager that only forward to a task.
