----------------------------- MODULE HlsPlayback -----------------------------
(***************************************************************************)
(* The playing of an HLS task that is not an offline task (HLSDOWNTASK,    *)
(* bCopyFullFile = 0): CM3u8Task, CM3u8 and CCacheDataInMem.               *)
(*                                                                         *)
(* The local HTTP server asks for a ts piece for the player (Ask) and      *)
(* pushes it bit by bit (Read).  It keeps on disk only the pieces around   *)
(* the playing position (m_bSpaceMode).  What cannot be written is kept in *)
(* memory, up to a limit, and released when it has been pushed.            *)
(* UpdateDownloadMode, run by the timer, the message thread and the        *)
(* server, asks for the next piece, unless enough is there or the memory   *)
(* is full.  Another thread may come between what a thread finds and what  *)
(* it does about it: those are steps of their own (pc).                    *)
(*                                                                         *)
(* The playlist is there; all pieces last equally long, and m_lMaxCacheTime*)
(* is that of MaxAhead pieces; the application does not report the         *)
(* playing time, so m_iCurPlayIndex is m_iPlayTsIndex, and leaves a paused *)
(* task paused (starting and pausing: HlsSchedule).                        *)
(***************************************************************************)
EXTENDS Integers, Sequences, FiniteSets, FiniteSetsExt

CONSTANTS
  PieceNum,   \* pieces of the playlist
  Size,       \* their sizes, in pushes of the server
  Other,      \* what another task has left in the cache
  MaxCache,   \* MAX_CACHESIZE, in the same unit
  MaxAhead,   \* g_cfg.m_lMaxCacheTime, in pieces
  ByteBits,   \* bits in a byte of m_pBitField
  MaxEvents,  \* bound: seeks and stops of the player, requests refused or unanswered,
              \* changes by another task
  MaxBusy     \* bound: other threads at work when one begins, answers to come when
              \* the timer comes

Pieces == 0 .. PieceNum - 1

ASSUME PlaybackAssumption ==
  /\ PieceNum \in Nat \ {0} /\ ByteBits \in Nat \ {0}
  /\ Size \in [Pieces -> Nat \ {0}]
  /\ MaxCache \in Nat \ {0} /\ Other \in 0 .. MaxCache /\ MaxAhead \in Nat
  /\ MaxEvents \in Nat /\ MaxBusy \in Nat

None == -1    \* as an answer: no data
Refused == -2 \* the server answered with an error
Threads == {"timer", "msg", "http"}

VARIABLES
  running,   \* m_Para.status = RUNNING
  disk,      \* m_pBitField: pieces on disk
  cached,    \* m_m3u8CacheData of the task: length by piece, 0: not there
  left,      \* length of the data of the other task in it
  nCacheSize,
  play,      \* m_iPlayTsIndex
  playing,   \* m_bIsPlaying
  mode,      \* m_iDownloadMode
  req,       \* piece the agent downloads for the task
  msgs,      \* answers on their way to the message thread: pieces, None or Refused
  cur,       \* the piece whose data it holds
  pos,       \* how much of the piece being played the server has pushed
  pc, ret,   \* where each thread is, the index it got
  events

cache == <<cached, left, nCacheSize>>
position == <<play, playing>>
agent == <<req, msgs>>
thread == <<pc, ret>>
vars == <<running, disk, cache, position, mode, agent, cur, pos, thread, events>>

NoCache == [i \in Pieces |-> 0]
Places == {"idle", "clear", "emergency", "emNext", "emAdd",
           "mode", "wipe", "time", "add", "store"}

TypeOK ==
  /\ running \in BOOLEAN /\ disk \subseteq Pieces
  /\ cached \in [Pieces -> Nat] /\ left \in Nat /\ nCacheSize \in Int
  /\ play \in Pieces /\ playing \in BOOLEAN
  /\ mode \in {"cdn", "pause"}
  /\ req \in Pieces \cup {None} /\ msgs \in Seq(Pieces \cup {None, Refused})
  /\ cur \in Pieces \cup {None}
  /\ pos \in Nat
  /\ pc \in [Threads -> Places] /\ ret \in [Threads -> Pieces \cup {None}]
  /\ events \in 0 .. MaxEvents

\* Some pieces are on disk from before; the server has played something else.
Init ==
  /\ running = TRUE /\ disk \in SUBSET Pieces
  /\ cached = NoCache /\ left = Other /\ nCacheSize = left
  /\ play = 0 /\ playing = FALSE /\ mode = "cdn"
  /\ req = None /\ msgs = << >> /\ cur = None
  /\ pos = 0
  /\ pc = [t \in Threads |-> "idle"] /\ ret = [t \in Threads |-> None]
  /\ events = 0

Finished == disk = Pieces
From(t, place) == pc[t] = place
Move(t, place, i) ==
  /\ pc' = [pc EXCEPT ![t] = place]
  /\ ret' = [ret EXCEPT ![t] = i]
Goto(t, place) == Move(t, place, None)
\* At most MaxBusy other threads are at work when a thread begins.
Begins(t) ==
  /\ From(t, "idle")
  /\ Cardinality({u \in Threads : pc[u] # "idle"}) <= MaxBusy

Event == events < MaxEvents /\ events' = events + 1

Present(i) == i \in disk \/ cached[i] > 0
IsOutofMem == nCacheSize >= MaxCache

-----------------------------------------------------------------------------
(* CCacheDataInMem, every operation under its lock.                        *)

ClearCache == cached' = NoCache /\ left' = 0 /\ nCacheSize' = 0

\* Mutation: a piece that is there already is counted again.
CacheM3u8DataTwice(i) ==
  /\ cached' = [cached EXCEPT ![i] = Size[i]]
  /\ nCacheSize' = nCacheSize + Size[i]
  /\ UNCHANGED left

\* CacheM3u8Data, below the limit.
CacheM3u8Data(i) ==
  /\ cached' = [cached EXCEPT ![i] = Size[i]]
  /\ nCacheSize' = nCacheSize + Size[i] - cached[i]
  /\ UNCHANGED left

\* Read to its end, a piece is released.
ReleaseM3u8Data(i) ==
  /\ cached' = [cached EXCEPT ![i] = 0]
  /\ nCacheSize' = nCacheSize - cached[i]
  /\ UNCHANGED left

\* The data of the other task: a piece (or its playlist) comes to it, one is released, or
\* all of it goes with a switch of clarity.  The call in ~CTask is compiled out
\* (QVOD_USE_CACHEMEN), so the data of a deleted task stays.
OtherStores ==
  /\ ~ IsOutofMem
  /\ \E i \in Pieces : left' = left + Size[i] /\ nCacheSize' = nCacheSize + Size[i]
ClearCacheByHash ==
  /\ left' \in 0 .. left - 1 /\ nCacheSize' = nCacheSize - (left - left')
OtherTask ==
  /\ Event /\ UNCHANGED cached
  /\ OtherStores \/ ClearCacheByHash
  /\ UNCHANGED <<running, disk, position, mode, agent, cur, pos, thread>>

-----------------------------------------------------------------------------
(* CM3u8::ClearTsData deletes the pieces first .. last but the one being   *)
(* played.  In a byte without bits it goes on by ByteBits.                 *)

ByteOf(i) == {j \in Pieces : j \div ByteBits = i \div ByteBits}

Swept(have, first, end, playIndex) ==
  LET sweep[i \in Nat, b \in SUBSET Pieces] ==
        IF i > end THEN b
        ELSE IF ByteOf(i) \cap b = {} THEN sweep[i + ByteBits, b]
        ELSE sweep[i + 1, IF i = playIndex THEN b ELSE b \ {i}]
  IN sweep[first, have]

ClearTsData(have, first, last, playIndex) ==
  IF first >= PieceNum THEN have
  ELSE have \cap Swept(have, first, IF last >= PieceNum THEN PieceNum - 1 ELSE last, playIndex)

\* ClearHasPlayingTsData(nIndex): what was played, but the first piece, and what
\* lies behind m_lMaxCacheTime.
ClearHasPlayingTsData(have, n) ==
  LET before == IF n > 1 THEN ClearTsData(have, 1, n - 1, n) ELSE have
      end == IF n + MaxAhead >= PieceNum THEN PieceNum - 1 ELSE n + MaxAhead
  IN ClearTsData(before, end + 1, PieceNum - 1, n)

-----------------------------------------------------------------------------
(* The agent, as far as playing sees it: one request per task.             *)

NoData(i) == IF i = None THEN << >> ELSE <<None>>

\* AddM3u8TsTask: another request of the task is terminated first.
AddM3u8TsTask(t, i, place) ==
  /\ Goto(t, place)
  /\ \/ req = i /\ UNCHANGED <<req, msgs, events>>
     \/ req # i /\ req' = i /\ msgs' = msgs \o NoData(req) /\ UNCHANGED events
     \/ req # i /\ req' = None /\ msgs' = msgs \o NoData(req) /\ Event

\* OnData has the whole piece: the request is removed, its data sent.
Complete ==
  /\ req # None
  /\ msgs' = Append(msgs, req) /\ req' = None
  /\ UNCHANGED <<running, disk, cache, position, mode, cur, pos, thread, events>>

\* TerminalSock: the request ends without data.
Fails ==
  /\ req # None /\ req' = None /\ Event
  /\ \E answer \in {None, Refused} : msgs' = Append(msgs, answer)
  /\ UNCHANGED <<running, disk, cache, position, mode, cur, pos, thread>>

-----------------------------------------------------------------------------
(* UpdateDownloadMode.                                                     *)

\* GetContinueTsTimeByIndex: how many pieces are there without a gap.
Ahead == Max({n \in 0 .. PieceNum - 1 - play : \A i \in play + 1 .. play + n : Present(i)})

\* Mutation: one past the last piece.
MissingPastEnd ==
  {i \in 0 .. PieceNum :
     i >= play /\ i \notin disk /\ (playing /\ i < PieceNum => cached[i] = 0)}

\* The pieces from the playing position on that DownNextM3u8Ts may ask for.
Missing == {i \in Pieces : i >= play /\ i \notin disk /\ (playing => cached[i] = 0)}

DownNextM3u8Ts(t, place, none) ==
  \/ mode' = "cdn" /\ \E i \in Missing : (\A j \in Missing : i <= j) /\ Move(t, place, i)
  \/ (mode' # "cdn" \/ Missing = {}) /\ Goto(t, none)

\* Enough is there, or the agent has a request of the task, or the next is asked for.
ByTime(t) ==
  /\ mode' = IF Ahead <= MaxAhead THEN "cdn" ELSE "pause"
  /\ IF req = None THEN DownNextM3u8Ts(t, "add", "idle") ELSE Goto(t, "idle")

\* Mutation: the cache is not emptied for the piece being played.
DecideKeeps(t) ==
  \/ /\ ~ running \/ Finished
     /\ Goto(t, "idle") /\ UNCHANGED mode
  \/ /\ running /\ ~ Finished /\ playing /\ IsOutofMem
     /\ mode' = "pause" /\ Goto(t, "idle")
  \/ /\ running /\ ~ Finished /\ ~ (playing /\ IsOutofMem)
     /\ ByTime(t)

\* Only a task that is played keeps data in memory.  When that is full without the
\* piece being played, it is emptied.
Decide(t) ==
  \/ /\ ~ running \/ Finished
     /\ Goto(t, "idle") /\ UNCHANGED mode
  \/ /\ running /\ ~ Finished /\ playing /\ IsOutofMem /\ cached[play] > 0
     /\ mode' = "pause" /\ Goto(t, "idle")
  \/ /\ running /\ ~ Finished /\ playing /\ IsOutofMem /\ cached[play] = 0
     /\ Goto(t, "wipe") /\ UNCHANGED mode
  \/ /\ running /\ ~ Finished /\ ~ (playing /\ IsOutofMem)
     /\ ByTime(t)

\* CheckTimeStamp
Tick ==
  /\ Begins("timer") /\ msgs = << >> /\ running /\ Decide("timer")
  /\ UNCHANGED <<running, disk, cache, position, agent, cur, pos, events>>

Enter(t) ==
  /\ From(t, "mode") /\ Decide(t)
  /\ UNCHANGED <<running, disk, cache, position, agent, cur, pos, events>>

Wipe(t) ==
  /\ From(t, "wipe") /\ ClearCache /\ Goto(t, "time")
  /\ UNCHANGED <<running, disk, position, mode, agent, cur, pos, events>>

Time(t) ==
  /\ From(t, "time") /\ ByTime(t)
  /\ UNCHANGED <<running, disk, cache, position, agent, cur, pos, events>>

Add(t) ==
  /\ From(t, "add") /\ AddM3u8TsTask(t, ret[t], "idle")
  /\ UNCHANGED <<running, disk, cache, position, mode, cur, pos>>

UpdateDownloadMode(t) == Enter(t) \/ Wipe(t) \/ Time(t) \/ Add(t)

-----------------------------------------------------------------------------
(* The local HTTP server.                                                  *)

\* The piece the server pushes to the player.
want == IF playing THEN play ELSE None
Pushed == want # None => pos >= Size[want]

\* ProcessYfHttpReq and SetPlayingTs, for piece i.
AskFor(i) ==
  /\ Begins("http") /\ pos' = 0
  /\ playing' = TRUE /\ play' = i
  /\ disk' = ClearHasPlayingTsData(disk, i)
  /\ Goto("http", IF i = play + 1 THEN "mode" ELSE "clear")
  /\ UNCHANGED <<running, cache, mode, agent, cur>>

\* The player begins with the first piece, and goes on to the next ...
AskNext ==
  /\ Pushed /\ want + 1 < PieceNum
  /\ AskFor(want + 1) /\ UNCHANGED events

\* ... or to any other, or asks for one again.
Seek(i) ==
  /\ Event
  /\ AskFor(i)

\* SetM3u8PlayingPos: after a seek the memory is emptied, and the piece is asked
\* for at once (DownEmergencyData).
Clear ==
  /\ From("http", "clear") /\ ClearCache /\ Goto("http", "emergency")
  /\ UNCHANGED <<running, disk, position, mode, agent, cur, pos, events>>

Emergency ==
  /\ From("http", "emergency")
  /\ IF ~ running \/ Finished \/ play \in disk
     THEN Goto("http", "mode") /\ UNCHANGED mode
     ELSE Goto("http", "emNext") /\ mode' = "cdn"
  /\ UNCHANGED <<running, disk, cache, position, agent, cur, pos, events>>

EmergencyNext ==
  /\ From("http", "emNext") /\ UNCHANGED mode /\ DownNextM3u8Ts("http", "emAdd", "mode")
  /\ UNCHANGED <<running, disk, cache, position, agent, cur, pos, events>>

EmergencyAdd ==
  /\ From("http", "emAdd") /\ AddM3u8TsTask("http", ret["http"], "mode")
  /\ UNCHANGED <<running, disk, cache, position, mode, cur, pos>>

\* OnTimerEvent pushes some of the piece, from the disk ...
ReadDisk ==
  /\ want \in disk /\ UNCHANGED cache

\* ... from the request that downloads it, as far as it has come ...
ReadAgent ==
  /\ want \notin disk /\ req = want /\ UNCHANGED cache

\* ... or from memory.
ReadCache ==
  /\ want \notin disk /\ cached[want] > 0
  /\ IF pos + 1 >= cached[want] THEN ReleaseM3u8Data(want) ELSE UNCHANGED cache

Read(source) ==
  /\ From("http", "idle") /\ ~ Pushed /\ source /\ pos' = pos + 1
  /\ UNCHANGED <<running, disk, position, mode, agent, cur, thread, events>>

\* SetTaskPlaying(false): the player stops; with a limit on the downloads the task is paused.
StopPlay ==
  /\ From("http", "idle") /\ playing /\ Event
  /\ playing' = FALSE /\ pos' = 0 /\ running' \in {running, FALSE}
  /\ UNCHANGED <<disk, cache, play, mode, agent, cur, thread>>

Server == Clear \/ Emergency \/ EmergencyNext \/ EmergencyAdd

-----------------------------------------------------------------------------
(* The message thread: HdHttpM3u8Ts.                                       *)

\* DownNextM3u8Ts of the handler asks for more unless there is a request.
Again == IF running /\ ~ Finished /\ req = None THEN "mode" ELSE "idle"

\* SetTaskStatus(PAUSE) ends the request of the task.
Pause == running' = FALSE /\ req' = None /\ msgs' = Tail(msgs) \o NoData(req)
KeepRunning == msgs' = Tail(msgs) /\ UNCHANGED <<running, req>>

\* WriteM3u8Ts: all pieces on disk pause the task.
Written(i) ==
  /\ disk' = disk \cup {i}
  /\ IF disk' = Pieces THEN Pause ELSE KeepRunning
  /\ Goto("msg", Again') /\ UNCHANGED cur

\* What cannot be written goes to memory if the task is played; if it is not, the
\* task is paused when the disk is full.
NotWritten(i) ==
  /\ UNCHANGED disk
  /\ \/ playing /\ KeepRunning /\ Goto("msg", "store") /\ cur' = i
     \/ ~ playing /\ (Pause \/ KeepRunning) /\ Goto("msg", Again') /\ UNCHANGED cur

NoneCame(m) ==
  /\ UNCHANGED <<disk, cur>>
  /\ IF m = Refused THEN Pause ELSE KeepRunning
  /\ Goto("msg", Again')

Handle ==
  /\ Begins("msg") /\ msgs # << >>
  /\ LET m == Head(msgs)
     IN IF m \in Pieces THEN Written(m) \/ NotWritten(m) ELSE NoneCame(m)
  /\ UNCHANGED <<cache, position, mode, pos, events>>

\* Mutation: no limit.
StoreUnlimited ==
  /\ From("msg", "store") /\ CacheM3u8Data(cur) /\ Goto("msg", Again) /\ cur' = None
  /\ UNCHANGED <<running, disk, position, mode, agent, pos, events>>

\* A full memory refuses the piece, and nothing more is asked for.
Store ==
  /\ From("msg", "store") /\ cur' = None
  /\ \/ IsOutofMem /\ Goto("msg", "idle") /\ UNCHANGED cache
     \/ ~ IsOutofMem /\ CacheM3u8Data(cur) /\ Goto("msg", Again)
  /\ UNCHANGED <<running, disk, position, mode, agent, pos, events>>

MsgThread == Handle \/ Store

-----------------------------------------------------------------------------
Reads == Read(ReadDisk) \/ Read(ReadAgent) \/ Read(ReadCache)

Next ==
  \/ Tick \/ MsgThread \/ Server \/ Reads
  \/ AskNext \/ StopPlay
  \/ \E i \in Pieces : Seek(i)
  \/ \E t \in Threads : UpdateDownloadMode(t)
  \/ Complete \/ Fails \/ OtherTask

Spec == Init /\ [][Next]_vars

\* Threads run, the timer comes again and again, servers answer.
FairSpec ==
  /\ Spec
  /\ WF_vars(Tick) /\ WF_vars(MsgThread) /\ WF_vars(Server) /\ WF_vars(Reads)
  /\ \A t \in Threads : WF_vars(UpdateDownloadMode(t))
  /\ WF_vars(Complete)

-----------------------------------------------------------------------------
(* Properties.                                                             *)

\* The counter is what is kept: the data of the other task and every unit of each piece.
Units(held) == UNION {{i} \X (1 .. held[i]) : i \in Pieces}
Kept == left + Cardinality(Units(cached))
SizeIsKept == nCacheSize = Kept

\* However the pieces come, the memory exceeds its limit by less than one piece.
CacheLimit == \E i \in Pieces : nCacheSize <= MaxCache - 1 + Size[i]

\* A player that waits for a piece gets it, also when nothing can be written.
Waiting(i) == want = i /\ ~ Pushed
ServedUnlessAhead ==
  \A i \in Pieces : Waiting(i) ~> (~ Waiting(i) \/ ~ running \/ Ahead > MaxAhead)

=============================================================================
