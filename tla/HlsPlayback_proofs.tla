-------------------------- MODULE HlsPlayback_proofs --------------------------
(***************************************************************************)
(* Proofs about HlsPlayback, for every number and every size of pieces and *)
(* every limit of the memory.                                              *)
(***************************************************************************)
EXTENDS HlsPlayback, FiniteSetTheorems, TLAPS

LEMMA Basics ==
  /\ Pieces \subseteq Nat /\ 0 \in Pieces /\ None \notin Pieces /\ None = -1
  /\ MaxCache \in Nat \ {0} /\ Other \in 0 .. MaxCache
  /\ \A i \in Pieces : Size[i] \in Nat \ {0}
  /\ "timer" \in Threads /\ "msg" \in Threads /\ "http" \in Threads
BY PlaybackAssumption DEF Pieces, None, Threads

-----------------------------------------------------------------------------
(* The inductive invariant.                                                *)

\* The message thread stores a piece that it has.
StoresPiece == pc["msg"] = "store" => cur \in Pieces

IInv == TypeOK /\ StoresPiece /\ CacheLimit

CacheTyped == cached \in [Pieces -> Nat] /\ left \in Nat /\ nCacheSize \in Int
PositionTyped == play \in Pieces /\ playing \in BOOLEAN
AgentTyped == req \in Pieces \cup {None} /\ msgs \in Seq(Pieces \cup {None, Refused})
ThreadTyped == pc \in [Threads -> Places] /\ ret \in [Threads -> Pieces \cup {None}]
RestTyped ==
  running \in BOOLEAN /\ disk \subseteq Pieces /\ mode \in {"cdn", "pause"} /\ pos \in Nat
CurTyped == cur \in Pieces \cup {None}
EventsTyped == events \in 0 .. MaxEvents

LEMMA NextTypeParts ==
  ASSUME CacheTyped', PositionTyped', AgentTyped', ThreadTyped', RestTyped', CurTyped',
         EventsTyped'
  PROVE  TypeOK'
BY DEF TypeOK, CacheTyped, PositionTyped, AgentTyped, ThreadTyped, RestTyped, CurTyped,
       EventsTyped

LEMMA KeepType ==
  ASSUME TypeOK
  PROVE  /\ UNCHANGED cache => CacheTyped'
         /\ UNCHANGED position => PositionTyped'
         /\ UNCHANGED agent => AgentTyped'
         /\ UNCHANGED thread => ThreadTyped'
         /\ UNCHANGED <<running, disk, mode, pos>> => RestTyped'
         /\ UNCHANGED cur => CurTyped'
         /\ UNCHANGED events => EventsTyped'
BY DEF TypeOK, CacheTyped, PositionTyped, AgentTyped, ThreadTyped, RestTyped, CurTyped,
       EventsTyped, cache, position, agent, thread

LEMMA MoveType ==
  ASSUME TypeOK, NEW t \in Threads, NEW place \in Places, NEW i \in Pieces \cup {None},
         Move(t, place, i)
  PROVE  /\ ThreadTyped' /\ pc'[t] = place /\ \A u \in Threads \ {t} : pc'[u] = pc[u]
BY DEF TypeOK, Move, ThreadTyped

LEMMA GotoType ==
  ASSUME TypeOK, NEW t \in Threads, NEW place \in Places, Goto(t, place)
  PROVE  /\ ThreadTyped' /\ pc'[t] = place /\ \A u \in Threads \ {t} : pc'[u] = pc[u]
<1>1. None \in Pieces \cup {None}
  OBVIOUS
<1> QED
  BY <1>1, MoveType DEF Goto

LEMMA EventType == ASSUME TypeOK, Event PROVE EventsTyped'
BY PlaybackAssumption DEF TypeOK, Event, EventsTyped

\* Answers.
LEMMA Appended ==
  ASSUME NEW S, NEW s \in Seq(S)
  PROVE  /\ s \o << >> \in Seq(S)
         /\ \A x \in S : s \o <<x>> \in Seq(S) /\ Append(s, x) \in Seq(S)
<1>1. << >> \in Seq(S)
  OBVIOUS
<1>2. \A x \in S : <<x>> \in Seq(S)
  OBVIOUS
<1>3. \A x \in S : Append(s, x) \in Seq(S)
  OBVIOUS
<1> QED
  BY <1>1, <1>2, <1>3

LEMMA NoDataType ==
  ASSUME NEW s \in Seq(Pieces \cup {None, Refused}), NEW i
  PROVE  s \o NoData(i) \in Seq(Pieces \cup {None, Refused})
<1>1. NoData(i) = << >> \/ NoData(i) = <<None>>
  BY DEF NoData
<1> QED
  BY <1>1, Appended

\* A thread moves, but not to store a piece.
Steps(t) ==
  /\ ThreadTyped' /\ pc'[t] # "store"
  /\ \A u \in Threads \ {t} : pc'[u] = pc[u]

LEMMA StoresKept ==
  ASSUME StoresPiece, UNCHANGED cur, NEW t \in Threads, Steps(t)
  PROVE  StoresPiece'
BY Basics DEF StoresPiece, Steps

LEMMA StoresThread ==
  ASSUME StoresPiece, UNCHANGED <<cur, thread>>
  PROVE  StoresPiece'
BY DEF StoresPiece, thread

LEMMA LimitKept ==
  ASSUME TypeOK, CacheLimit, nCacheSize' \in Int, nCacheSize' <= nCacheSize
  PROVE  CacheLimit'
<1>1. PICK i \in Pieces : nCacheSize <= MaxCache - 1 + Size[i]
  BY DEF CacheLimit
<1>2. nCacheSize' <= MaxCache - 1 + Size[i]
  BY <1>1, Basics DEF TypeOK
<1> QED
  BY <1>2 DEF CacheLimit

LEMMA CacheKept ==
  ASSUME TypeOK, CacheLimit, UNCHANGED cache
  PROVE  CacheTyped' /\ CacheLimit'
<1>1. nCacheSize' \in Int /\ nCacheSize' <= nCacheSize
  BY DEF TypeOK, cache
<1> QED
  BY <1>1, LimitKept, KeepType

-----------------------------------------------------------------------------
(* The operations of the cache.                                            *)

LEMMA ClearType == ASSUME ClearCache PROVE CacheTyped' /\ CacheLimit'
<1>1. cached' = NoCache /\ left' = 0 /\ nCacheSize' = 0
  BY DEF ClearCache
<1>2. nCacheSize' <= MaxCache - 1 + Size[0]
  BY <1>1, Basics
<1> QED
  BY <1>1, <1>2, Basics DEF CacheTyped, NoCache, CacheLimit

LEMMA ReleaseType ==
  ASSUME TypeOK, CacheLimit, NEW i \in Pieces, ReleaseM3u8Data(i)
  PROVE  CacheTyped' /\ CacheLimit'
<1>1. cached[i] \in Nat /\ nCacheSize \in Int
  BY DEF TypeOK
<1>2. nCacheSize' \in Int /\ nCacheSize' <= nCacheSize
  BY <1>1 DEF ReleaseM3u8Data
<1>3. CacheTyped'
  BY <1>2 DEF TypeOK, ReleaseM3u8Data, CacheTyped
<1> QED
  BY <1>2, <1>3, LimitKept

\* Below the limit a piece is added: the limit is exceeded by less than this piece.
LEMMA StoreType ==
  ASSUME TypeOK, NEW i \in Pieces, ~ IsOutofMem, CacheM3u8Data(i)
  PROVE  CacheTyped' /\ CacheLimit'
<1>1. cached[i] \in Nat /\ nCacheSize \in Int /\ Size[i] \in Nat /\ MaxCache \in Nat
  BY Basics DEF TypeOK
<1>2. nCacheSize < MaxCache
  BY <1>1 DEF IsOutofMem
<1>3. nCacheSize' = nCacheSize + Size[i] - cached[i]
  BY DEF CacheM3u8Data
<1>4. nCacheSize' <= MaxCache - 1 + Size[i] /\ nCacheSize' \in Int
  BY <1>1, <1>2, <1>3
<1>5. CacheTyped'
  BY <1>1, <1>4 DEF TypeOK, CacheM3u8Data, CacheTyped
<1> QED
  BY <1>4, <1>5 DEF CacheLimit

-----------------------------------------------------------------------------
(* UpdateDownloadMode.                                                     *)

LEMMA DownNextType ==
  ASSUME TypeOK, NEW t \in Threads, NEW place \in Places \ {"store"},
         NEW none \in Places \ {"store"}, DownNextM3u8Ts(t, place, none)
  PROVE  Steps(t)
<1>1. CASE \E i \in Missing : Move(t, place, i)
  <2>1. PICK i \in Missing : Move(t, place, i)
    BY <1>1
  <2>2. i \in Pieces \cup {None}
    BY DEF Missing
  <2> QED
    BY <2>1, <2>2, MoveType DEF Steps
<1>2. CASE Goto(t, none)
  BY <1>2, GotoType DEF Steps
<1> QED
  BY <1>1, <1>2 DEF DownNextM3u8Ts

LEMMA PlacesHold ==
  {"idle", "clear", "emergency", "emNext", "emAdd", "mode", "wipe", "time", "add"}
    \subseteq Places \ {"store"}
BY DEF Places

LEMMA ByTimeType ==
  ASSUME TypeOK, NEW t \in Threads, ByTime(t)
  PROVE  Steps(t) /\ mode' \in {"cdn", "pause"}
<1>1. mode' \in {"cdn", "pause"}
  BY DEF ByTime
<1>2. CASE DownNextM3u8Ts(t, "add", "idle")
  BY <1>1, <1>2, DownNextType, PlacesHold
<1>3. CASE Goto(t, "idle")
  BY <1>1, <1>3, GotoType, PlacesHold DEF Steps
<1> QED
  BY <1>2, <1>3 DEF ByTime

LEMMA DecideType ==
  ASSUME TypeOK, NEW t \in Threads, Decide(t)
  PROVE  Steps(t) /\ mode' \in {"cdn", "pause"}
<1>1. mode \in {"cdn", "pause"}
  BY DEF TypeOK
<1>2. CASE (Goto(t, "idle") \/ Goto(t, "wipe")) /\ (UNCHANGED mode \/ mode' = "pause")
  BY <1>1, <1>2, GotoType, PlacesHold DEF Steps
<1>3. CASE ByTime(t)
  BY <1>3, ByTimeType
<1> QED
  BY <1>2, <1>3 DEF Decide

LEMMA AddType ==
  ASSUME TypeOK, NEW t \in Threads, NEW i \in Pieces \cup {None},
         NEW place \in Places \ {"store"}, AddM3u8TsTask(t, i, place)
  PROVE  Steps(t) /\ AgentTyped' /\ EventsTyped'
<1>1. Steps(t)
  BY GotoType DEF AddM3u8TsTask, Steps
<1>2. req \in Pieces \cup {None} /\ msgs \in Seq(Pieces \cup {None, Refused})
  BY DEF TypeOK
<1>3. msgs \o NoData(req) \in Seq(Pieces \cup {None, Refused})
  BY <1>2, NoDataType
<1>4. AgentTyped'
  BY <1>2, <1>3 DEF AddM3u8TsTask, AgentTyped
<1>5. EventsTyped'
  BY EventType, KeepType DEF AddM3u8TsTask
<1> QED
  BY <1>1, <1>4, <1>5

-----------------------------------------------------------------------------
(* The steps.  What a step leaves alone stays typed.                       *)

\* A step in which only a thread moves and the mode may change.
LEMMA ModeStep ==
  ASSUME IInv, NEW t \in Threads, Steps(t), mode' \in {"cdn", "pause"},
         UNCHANGED <<running, disk, cache, position, agent, cur, pos, events>>
  PROVE  IInv'
<1>1. CacheTyped' /\ CacheLimit'
  BY CacheKept DEF IInv
<1>2. PositionTyped' /\ AgentTyped' /\ CurTyped' /\ EventsTyped'
  BY KeepType DEF IInv
<1>3. RestTyped'
  BY DEF IInv, TypeOK, RestTyped
<1>4. StoresPiece' /\ ThreadTyped'
  BY StoresKept DEF IInv, Steps
<1> QED
  BY <1>1, <1>2, <1>3, <1>4, NextTypeParts DEF IInv

\* A step in which a thread moves and adds a request.
LEMMA AddStep ==
  ASSUME IInv, NEW t \in Threads, NEW place \in Places \ {"store"},
         AddM3u8TsTask(t, ret[t], place),
         UNCHANGED <<running, disk, cache, position, mode, cur, pos>>
  PROVE  IInv'
<1>1. ret[t] \in Pieces \cup {None}
  BY DEF IInv, TypeOK
<1>2. Steps(t) /\ AgentTyped' /\ EventsTyped'
  BY <1>1, AddType DEF IInv
<1>3. CacheTyped' /\ CacheLimit' /\ StoresPiece' /\ ThreadTyped'
  BY <1>2, CacheKept, StoresKept DEF IInv, Steps
<1>4. PositionTyped' /\ CurTyped' /\ RestTyped'
  BY KeepType DEF IInv
<1> QED
  BY <1>2, <1>3, <1>4, NextTypeParts DEF IInv

\* A step in which a thread moves and the cache is emptied.
LEMMA ClearStep ==
  ASSUME IInv, NEW t \in Threads, Steps(t), ClearCache,
         UNCHANGED <<running, disk, position, mode, agent, cur, pos, events>>
  PROVE  IInv'
<1>1. CacheTyped' /\ CacheLimit' /\ StoresPiece' /\ ThreadTyped'
  BY ClearType, StoresKept DEF IInv, Steps
<1>2. PositionTyped' /\ AgentTyped' /\ CurTyped' /\ RestTyped' /\ EventsTyped'
  BY KeepType DEF IInv
<1> QED
  BY <1>1, <1>2, NextTypeParts DEF IInv

LEMMA UpdateStep ==
  ASSUME IInv, NEW t \in Threads, UpdateDownloadMode(t)
  PROVE  IInv'
<1>1. CASE Enter(t)
  BY <1>1, DecideType, ModeStep DEF IInv, Enter
<1>2. CASE Wipe(t)
  <2>1. Steps(t)
    BY <1>2, GotoType, PlacesHold DEF IInv, Wipe, Steps
  <2> QED
    BY <1>2, <2>1, ClearStep DEF Wipe
<1>3. CASE Time(t)
  BY <1>3, ByTimeType, ModeStep DEF IInv, Time
<1>4. CASE Add(t)
  <2>1. "idle" \in Places \ {"store"}
    BY PlacesHold
  <2> QED
    BY <1>4, <2>1, AddStep DEF Add
<1> QED
  BY <1>1, <1>2, <1>3, <1>4 DEF UpdateDownloadMode

LEMMA TickStep == ASSUME IInv, Tick PROVE IInv'
<1>1. Decide("timer") /\ UNCHANGED <<running, disk, cache, position, agent, cur, pos, events>>
  BY DEF Tick
<1>2. Steps("timer") /\ mode' \in {"cdn", "pause"}
  BY <1>1, DecideType, Basics DEF IInv
<1> QED
  BY <1>1, <1>2, ModeStep, Basics

-----------------------------------------------------------------------------
(* The local HTTP server.                                                  *)

LEMMA ClearTsSubset ==
  ASSUME NEW have, NEW first, NEW last, NEW i
  PROVE  ClearTsData(have, first, last, i) \subseteq have
BY DEF ClearTsData

LEMMA ClearPlayingSubset ==
  ASSUME NEW have, NEW i
  PROVE  ClearHasPlayingTsData(have, i) \subseteq have
<1> DEFINE before == IF i > 1 THEN ClearTsData(have, 1, i - 1, i) ELSE have
           end == IF i + MaxAhead >= PieceNum THEN PieceNum - 1 ELSE i + MaxAhead
<1>1. before \subseteq have
  BY ClearTsSubset
<1>2. ClearTsData(before, end + 1, PieceNum - 1, i) \subseteq before
  BY ClearTsSubset
<1>3. ClearHasPlayingTsData(have, i) = ClearTsData(before, end + 1, PieceNum - 1, i)
  BY DEF ClearHasPlayingTsData
<1> HIDE DEF before, end
<1> QED
  BY <1>1, <1>2, <1>3

LEMMA AskStep ==
  ASSUME IInv, NEW i \in Pieces, AskFor(i), EventsTyped'
  PROVE  IInv'
<1>1. /\ pos' = 0 /\ playing' = TRUE /\ play' = i /\ disk' = ClearHasPlayingTsData(disk, i)
      /\ UNCHANGED <<running, cache, mode, agent, cur>>
  BY DEF AskFor
<1>2. Goto("http", "mode") \/ Goto("http", "clear")
  BY DEF AskFor
<1>3. Steps("http")
  BY <1>2, GotoType, PlacesHold, Basics DEF IInv, Steps
<1>4. disk' \subseteq Pieces
  <2>1. ClearHasPlayingTsData(disk, i) \subseteq disk
    BY ClearPlayingSubset
  <2> QED
    BY <1>1, <2>1 DEF IInv, TypeOK
<1>5. RestTyped' /\ PositionTyped'
  BY <1>1, <1>4 DEF IInv, TypeOK, RestTyped, PositionTyped
<1>6. AgentTyped' /\ CurTyped' /\ CacheTyped' /\ CacheLimit'
  BY <1>1, KeepType, CacheKept DEF IInv
<1>7. StoresPiece' /\ ThreadTyped'
  BY <1>1, <1>3, StoresKept, Basics DEF IInv, Steps
<1> QED
  BY <1>5, <1>6, <1>7, NextTypeParts DEF IInv

LEMMA PlayerStep ==
  ASSUME IInv, AskNext \/ \E i \in Pieces : Seek(i)
  PROVE  IInv'
<1>1. CASE AskNext
  <2>1. want \in Pieces \cup {None} /\ want + 1 < PieceNum
    BY <1>1 DEF IInv, TypeOK, AskNext, want
  <2>2. want + 1 \in Pieces
    BY <2>1, PlaybackAssumption DEF Pieces, None
  <2>3. AskFor(want + 1) /\ UNCHANGED events
    BY <1>1 DEF AskNext
  <2>4. EventsTyped'
    BY <2>3, KeepType DEF IInv
  <2> QED
    BY <2>2, <2>3, <2>4, AskStep
<1>2. ASSUME NEW i \in Pieces, Seek(i) PROVE IInv'
  <2>1. EventsTyped' /\ AskFor(i)
    BY <1>2, EventType DEF IInv, Seek
  <2> QED
    BY <2>1, AskStep
<1> QED
  BY <1>1, <1>2

LEMMA ServerStep == ASSUME IInv, Server PROVE IInv'
<1>1. CASE Clear
  <2>1. Goto("http", "emergency")
    BY <1>1 DEF Clear
  <2>2. Steps("http")
    BY <2>1, GotoType, PlacesHold, Basics DEF IInv, Steps
  <2> QED
    BY <1>1, <2>2, ClearStep, Basics DEF Clear
<1>2. CASE Emergency
  <2>1. Goto("http", "mode") \/ Goto("http", "emNext")
    BY <1>2 DEF Emergency
  <2>2. Steps("http")
    BY <2>1, GotoType, PlacesHold, Basics DEF IInv, Steps
  <2>3. mode' \in {"cdn", "pause"}
    BY <1>2 DEF IInv, TypeOK, Emergency
  <2> QED
    BY <1>2, <2>2, <2>3, ModeStep, Basics DEF Emergency
<1>3. CASE EmergencyNext
  <2>1. Steps("http")
    BY <1>3, DownNextType, PlacesHold, Basics DEF IInv, EmergencyNext
  <2>2. mode' \in {"cdn", "pause"}
    BY <1>3 DEF IInv, TypeOK, EmergencyNext
  <2> QED
    BY <1>3, <2>1, <2>2, ModeStep, Basics DEF EmergencyNext
<1>4. CASE EmergencyAdd
  <2>1. "mode" \in Places \ {"store"}
    BY PlacesHold
  <2> QED
    BY <1>4, <2>1, AddStep, Basics DEF EmergencyAdd
<1> QED
  BY <1>1, <1>2, <1>3, <1>4 DEF Server

\* What is read may be released.
LEMMA ReadStep == ASSUME IInv, Reads PROVE IInv'
<1>1. UNCHANGED <<running, disk, position, mode, agent, cur, thread, events>> /\ pos' = pos + 1
  BY DEF Reads, Read
<1>2. UNCHANGED cache \/ (ReleaseM3u8Data(want) /\ ~ Pushed)
  BY DEF Reads, Read, ReadDisk, ReadAgent, ReadCache
<1>3. CacheTyped' /\ CacheLimit'
  <2>1. CASE UNCHANGED cache
    BY <2>1, CacheKept DEF IInv
  <2>2. CASE ReleaseM3u8Data(want) /\ ~ Pushed
    <3>1. want \in Pieces
      BY <2>2 DEF IInv, TypeOK, Pushed, want
    <3> QED
      BY <2>2, <3>1, ReleaseType DEF IInv
  <2> QED
    BY <1>2, <2>1, <2>2
<1>4. PositionTyped' /\ AgentTyped' /\ CurTyped' /\ ThreadTyped' /\ EventsTyped'
  BY <1>1, KeepType DEF IInv
<1>5. RestTyped'
  BY <1>1 DEF IInv, TypeOK, RestTyped
<1>6. StoresPiece'
  BY <1>1, StoresThread DEF IInv
<1> QED
  BY <1>3, <1>4, <1>5, <1>6, NextTypeParts DEF IInv

LEMMA StopStep == ASSUME IInv, StopPlay PROVE IInv'
<1>1. /\ playing' = FALSE /\ pos' = 0 /\ running' \in {running, FALSE} /\ Event
      /\ UNCHANGED <<disk, cache, play, mode, agent, cur, thread>>
  BY DEF StopPlay
<1>2. CacheTyped' /\ CacheLimit' /\ AgentTyped' /\ CurTyped' /\ ThreadTyped' /\ EventsTyped'
  BY <1>1, KeepType, CacheKept, EventType DEF IInv
<1>3. RestTyped' /\ PositionTyped'
  BY <1>1 DEF IInv, TypeOK, RestTyped, PositionTyped
<1>4. StoresPiece'
  BY <1>1, StoresThread DEF IInv
<1> QED
  BY <1>2, <1>3, <1>4, NextTypeParts DEF IInv

\* The other task adds below the limit, or takes away what is its own.
LEMMA OtherStep == ASSUME IInv, OtherTask PROVE IInv'
<1>1. /\ Event /\ UNCHANGED <<cached, running, disk, position, mode, agent, cur, pos, thread>>
      /\ OtherStores \/ ClearCacheByHash
  BY DEF OtherTask
<1>2. left \in Nat /\ nCacheSize \in Int /\ cached' \in [Pieces -> Nat] /\ CacheLimit /\ TypeOK
  BY <1>1 DEF IInv, TypeOK
<1>3. CacheTyped' /\ CacheLimit'
  <2>1. CASE OtherStores
    <3>1. PICK i \in Pieces : left' = left + Size[i] /\ nCacheSize' = nCacheSize + Size[i]
      BY <2>1 DEF OtherStores
    <3>2. Size[i] \in Nat /\ nCacheSize < MaxCache /\ MaxCache \in Nat
      BY <2>1, <1>2, Basics DEF OtherStores, IsOutofMem
    <3>3. left' \in Nat /\ nCacheSize' \in Int /\ nCacheSize' <= MaxCache - 1 + Size[i]
      BY <3>1, <3>2, <1>2
    <3> QED
      BY <3>3, <1>2 DEF CacheTyped, CacheLimit
  <2>2. CASE ClearCacheByHash
    <3>1. PICK k \in 0 .. left - 1 : left' = k
      BY <2>2 DEF ClearCacheByHash
    <3>2. nCacheSize' = nCacheSize - (left - k)
      BY <2>2, <3>1 DEF ClearCacheByHash
    <3>3. k \in Nat /\ nCacheSize' \in Int /\ nCacheSize' <= nCacheSize
      BY <3>1, <3>2, <1>2
    <3> QED
      BY <3>1, <3>3, <1>2, LimitKept DEF CacheTyped
  <2> QED
    BY <1>1, <2>1, <2>2
<1>4. PositionTyped' /\ AgentTyped' /\ CurTyped' /\ ThreadTyped' /\ EventsTyped'
  BY <1>1, KeepType, EventType DEF IInv
<1>5. RestTyped'
  BY <1>1 DEF IInv, TypeOK, RestTyped
<1>6. StoresPiece'
  BY <1>1, StoresThread DEF IInv
<1> QED
  BY <1>3, <1>4, <1>5, <1>6, NextTypeParts DEF IInv

-----------------------------------------------------------------------------
(* The agent and the message thread.                                       *)

LEMMA AgentStep ==
  ASSUME IInv, Complete \/ Fails
  PROVE  IInv'
<1>1. UNCHANGED <<running, disk, cache, position, mode, cur, pos, thread>>
  BY DEF Complete, Fails
<1>2. req \in Pieces \cup {None, Refused} /\ msgs \in Seq(Pieces \cup {None, Refused})
  BY DEF IInv, TypeOK
<1>3. \A x \in Pieces \cup {None, Refused} : Append(msgs, x) \in Seq(Pieces \cup {None, Refused})
  BY <1>2, Appended
<1>4. AgentTyped'
  BY <1>2, <1>3 DEF Complete, Fails, AgentTyped
<1>5. EventsTyped'
  BY KeepType, EventType DEF IInv, Complete, Fails
<1>6. CacheTyped' /\ CacheLimit' /\ PositionTyped' /\ CurTyped' /\ ThreadTyped' /\ RestTyped'
  BY <1>1, KeepType, CacheKept DEF IInv
<1>7. StoresPiece'
  BY <1>1, StoresThread DEF IInv
<1> QED
  BY <1>4, <1>5, <1>6, <1>7, NextTypeParts DEF IInv

LEMMA AgainPlace == Again \in {"mode", "idle"} /\ Again' \in {"mode", "idle"}
BY DEF Again

\* An answer is taken, and the request may be ended.
LEMMA TakenType ==
  ASSUME IInv, msgs # << >>, Pause \/ KeepRunning
  PROVE  AgentTyped' /\ running' \in BOOLEAN
<1>1. Tail(msgs) \in Seq(Pieces \cup {None, Refused}) /\ req \in Pieces \cup {None}
  BY DEF IInv, TypeOK
<1>2. Tail(msgs) \o NoData(req) \in Seq(Pieces \cup {None, Refused})
  BY <1>1, NoDataType
<1> QED
  BY <1>1, <1>2 DEF IInv, TypeOK, Pause, KeepRunning, AgentTyped

LEMMA HandleStep == ASSUME IInv, Handle PROVE IInv'
<1> DEFINE m == Head(msgs)
<1>1. msgs # << >> /\ UNCHANGED <<cache, position, mode, pos, events>>
  BY DEF Handle
<1>2. (m \in Pieces /\ (Written(m) \/ NotWritten(m))) \/ NoneCame(m)
  BY DEF Handle
<1> HIDE DEF m
<1>3. Pause \/ KeepRunning
  BY <1>2 DEF Written, NotWritten, NoneCame
<1>4. disk' \subseteq Pieces
  BY <1>2 DEF IInv, TypeOK, Written, NotWritten, NoneCame
<1>5. \/ Goto("msg", Again') /\ UNCHANGED cur
      \/ Goto("msg", "store") /\ cur' \in Pieces
  BY <1>2 DEF Written, NotWritten, NoneCame
<1>6. StoresPiece' /\ ThreadTyped' /\ CurTyped'
  <2>1. CASE Goto("msg", Again') /\ UNCHANGED cur
    <3>1. PICK place \in {"mode", "idle"} : Goto("msg", place)
      BY <2>1, AgainPlace
    <3>2. Steps("msg")
      BY <3>1, GotoType, PlacesHold, Basics DEF IInv, Steps
    <3> QED
      BY <2>1, <3>2, StoresKept, KeepType, Basics DEF IInv, Steps
  <2>2. CASE Goto("msg", "store") /\ cur' \in Pieces
    <3>1. "store" \in Places
      BY DEF Places
    <3>2. ThreadTyped'
      BY <2>2, <3>1, GotoType, Basics DEF IInv
    <3> QED
      BY <2>2, <3>2 DEF StoresPiece, CurTyped
  <2> QED
    BY <1>5, <2>1, <2>2
<1>7. AgentTyped' /\ running' \in BOOLEAN
  BY <1>1, <1>3, TakenType
<1>8. RestTyped'
  BY <1>1, <1>4, <1>7 DEF IInv, TypeOK, RestTyped
<1>9. CacheTyped' /\ CacheLimit' /\ PositionTyped' /\ EventsTyped'
  BY <1>1, KeepType, CacheKept DEF IInv
<1> QED
  BY <1>6, <1>7, <1>8, <1>9, NextTypeParts DEF IInv

LEMMA StoreStep == ASSUME IInv, Store PROVE IInv'
<1>1. UNCHANGED <<running, disk, position, mode, agent, pos, events>> /\ cur' = None
  BY DEF Store
<1>2. cur \in Pieces
  BY DEF IInv, StoresPiece, Store, From
<1>3. CacheTyped' /\ CacheLimit'
  BY <1>2, CacheKept, StoreType DEF IInv, Store
<1>4. Goto("msg", "idle") \/ Goto("msg", Again)
  BY DEF Store
<1>5. PICK place \in {"mode", "idle"} : Goto("msg", place)
  BY <1>4, AgainPlace
<1>6. Steps("msg")
  BY <1>5, GotoType, PlacesHold, Basics DEF IInv, Steps
<1>7. StoresPiece' /\ ThreadTyped' /\ CurTyped'
  BY <1>1, <1>6 DEF StoresPiece, Steps, CurTyped
<1>8. PositionTyped' /\ AgentTyped' /\ RestTyped' /\ EventsTyped'
  BY <1>1, KeepType DEF IInv
<1> QED
  BY <1>3, <1>7, <1>8, NextTypeParts DEF IInv

-----------------------------------------------------------------------------
(* The theorems.                                                           *)

LEMMA InitOK == Init => IInv
<1> SUFFICES ASSUME Init PROVE IInv
  OBVIOUS
<1>1. << >> \in Seq(Pieces \cup {None, Refused})
  OBVIOUS
<1>2. cached \in [Pieces -> Nat] /\ left \in Nat /\ nCacheSize \in Int /\ nCacheSize = Other
  BY Basics DEF Init, NoCache
<1>3. pc \in [Threads -> Places] /\ ret \in [Threads -> Pieces \cup {None}]
  BY DEF Init, Places
<1>4. TypeOK
  <2>1. play \in Pieces /\ events \in 0 .. MaxEvents /\ pos \in Nat
    BY Basics, PlaybackAssumption DEF Init
  <2>2. msgs \in Seq(Pieces \cup {None, Refused})
    BY <1>1 DEF Init
  <2>3. /\ running \in BOOLEAN /\ disk \subseteq Pieces /\ playing \in BOOLEAN
        /\ mode \in {"cdn", "pause"} /\ req \in Pieces \cup {None} /\ cur \in Pieces \cup {None}
    BY DEF Init
  <2> QED
    BY <1>2, <1>3, <2>1, <2>2, <2>3 DEF TypeOK
<1>5. StoresPiece
  BY Basics DEF Init, StoresPiece
<1>6. CacheLimit
  <2>1. nCacheSize <= MaxCache - 1 + Size[0]
    BY <1>2, Basics
  <2> QED
    BY <2>1, Basics DEF CacheLimit
<1> QED
  BY <1>4, <1>5, <1>6 DEF IInv

LEMMA Inductive == ASSUME IInv, [Next]_vars PROVE IInv'
<1>1. CASE Tick \/ MsgThread \/ Server \/ Reads
  BY <1>1, TickStep, HandleStep, StoreStep, ServerStep, ReadStep DEF MsgThread
<1>2. CASE AskNext \/ StopPlay \/ \E i \in Pieces : Seek(i)
  BY <1>2, PlayerStep, StopStep
<1>3. CASE \E t \in Threads : UpdateDownloadMode(t)
  BY <1>3, UpdateStep
<1>4. CASE Complete \/ Fails \/ OtherTask
  BY <1>4, AgentStep, OtherStep
<1>5. CASE UNCHANGED vars
  BY <1>5 DEF vars, cache, position, agent, thread, IInv, TypeOK, StoresPiece, CacheLimit
<1> QED
  BY <1>1, <1>2, <1>3, <1>4, <1>5 DEF Next

\* The inductive invariant holds in every state.
THEOREM Invariance == Spec => []IInv
<1>1. Init => IInv
  BY InitOK
<1>2. IInv /\ [Next]_vars => IInv'
  BY Inductive
<1> QED
  BY <1>1, <1>2, PTL DEF Spec

\* The pieces, the cache and the threads are what they are declared to be.
THEOREM TypeCorrect == Spec => []TypeOK
<1>1. IInv => TypeOK
  BY DEF IInv
<1> QED
  BY <1>1, Invariance, PTL

\* CCacheDataInMem::CacheM3u8Data: however the pieces come and whatever their sizes, the
\* memory that is taken exceeds the limit by less than one piece.
THEOREM LimitHolds == Spec => []CacheLimit
<1>1. IInv => CacheLimit
  BY DEF IInv
<1> QED
  BY <1>1, Invariance, PTL

-----------------------------------------------------------------------------
(* The counter of the cache.                                               *)

UnitsOf(held, i) == {i} \X (1 .. held[i])

LEMMA PieceUnits ==
  ASSUME NEW held \in [Pieces -> Nat], NEW i \in Pieces
  PROVE  IsFiniteSet(UnitsOf(held, i)) /\ Cardinality(UnitsOf(held, i)) = held[i]
<1>1. IsFiniteSet({i}) /\ Cardinality({i}) = 1
  BY FS_Singleton
<1>2. IsFiniteSet(1 .. held[i]) /\ Cardinality(1 .. held[i]) = held[i]
  <2>1. 1 \in Int /\ held[i] \in Int /\ held[i] \in Nat
    OBVIOUS
  <2>2. /\ IsFiniteSet(1 .. held[i])
        /\ Cardinality(1 .. held[i]) = IF 1 > held[i] THEN 0 ELSE held[i] - 1 + 1
    BY <2>1, FS_Interval
  <2> QED
    BY <2>1, <2>2
<1>3. /\ IsFiniteSet({i} \X (1 .. held[i]))
      /\ Cardinality({i} \X (1 .. held[i])) = Cardinality({i}) * Cardinality(1 .. held[i])
  BY <1>1, <1>2, FS_Product
<1>4. held[i] \in Nat
  OBVIOUS
<1> QED
  BY <1>1, <1>2, <1>3, <1>4 DEF UnitsOf

LEMMA PiecesFinite == IsFiniteSet(Pieces)
BY PlaybackAssumption, FS_Interval DEF Pieces

LEMMA UnitsFinite ==
  ASSUME NEW held \in [Pieces -> Nat]
  PROVE  IsFiniteSet(Units(held)) /\ Cardinality(Units(held)) \in Nat
<1> DEFINE each == [i \in Pieces |-> UnitsOf(held, i)]
           all == {UnitsOf(held, i) : i \in Pieces}
<1>1. each \in Surjection(Pieces, all)
  BY DEF Surjection
<1>2. IsFiniteSet(all)
  BY <1>1, PiecesFinite, FS_Surjection
<1>3. \A T \in all : IsFiniteSet(T)
  BY PieceUnits
<1>4. Units(held) = UNION all
  BY DEF Units, UnitsOf
<1> HIDE DEF all
<1>5. IsFiniteSet(Units(held))
  BY <1>2, <1>3, <1>4, FS_UNION
<1> QED
  BY <1>5, FS_CardinalityType

\* The units of the other pieces.
UnitsBut(held, i) == Units(held) \ ({i} \X Nat)

\* A piece apart from the others.
LEMMA UnitsSplit ==
  ASSUME NEW held \in [Pieces -> Nat], NEW i \in Pieces
  PROVE  /\ Cardinality(UnitsBut(held, i)) \in Nat
         /\ Cardinality(Units(held)) = Cardinality(UnitsBut(held, i)) + held[i]
<1>1. \A u : u \in Units(held) <=> \E j \in Pieces : u \in {j} \X (1 .. held[j])
  BY DEF Units
<1>2. Units(held) = UnitsBut(held, i) \cup UnitsOf(held, i)
  <2>1. ASSUME NEW u \in Units(held), u \in {i} \X Nat PROVE u \in UnitsOf(held, i)
    <3>1. PICK j \in Pieces : u \in {j} \X (1 .. held[j])
      BY <1>1
    <3>2. j = i
      BY <2>1, <3>1
    <3> QED
      BY <3>1, <3>2 DEF UnitsOf
  <2>2. UnitsOf(held, i) \subseteq Units(held)
    BY <1>1 DEF UnitsOf
  <2> QED
    BY <2>1, <2>2 DEF UnitsBut
<1>3. UnitsBut(held, i) \cap UnitsOf(held, i) = {}
  <2>1. UnitsOf(held, i) \subseteq {i} \X Nat
    BY DEF UnitsOf
  <2> QED
    BY <2>1 DEF UnitsBut
<1>4. IsFiniteSet(UnitsBut(held, i)) /\ Cardinality(UnitsBut(held, i)) \in Nat
  <2>1. UnitsBut(held, i) \in SUBSET Units(held)
    BY DEF UnitsBut
  <2>2. IsFiniteSet(UnitsBut(held, i))
    BY <2>1, UnitsFinite, FS_Subset
  <2> QED
    BY <2>2, FS_CardinalityType
<1>5. IsFiniteSet(UnitsOf(held, i)) /\ Cardinality(UnitsOf(held, i)) = held[i] /\ held[i] \in Nat
  BY PieceUnits
<1>6. Cardinality(UnitsBut(held, i) \cup UnitsOf(held, i)) =
        Cardinality(UnitsBut(held, i)) + Cardinality(UnitsOf(held, i))
          - Cardinality(UnitsBut(held, i) \cap UnitsOf(held, i))
  BY <1>4, <1>5, FS_Union
<1>7. Cardinality(UnitsBut(held, i) \cap UnitsOf(held, i)) = 0
  BY <1>3, FS_EmptySet
<1> QED
  BY <1>2, <1>4, <1>5, <1>6, <1>7

\* One piece changes.
LEMMA UnitsChange ==
  ASSUME NEW held \in [Pieces -> Nat], NEW i \in Pieces, NEW n \in Nat
  PROVE  Cardinality(Units([held EXCEPT ![i] = n])) = Cardinality(Units(held)) + n - held[i]
<1> DEFINE next == [held EXCEPT ![i] = n]
<1>1. next \in [Pieces -> Nat] /\ next[i] = n /\ \A j \in Pieces \ {i} : next[j] = held[j]
  OBVIOUS
<1> HIDE DEF next
<1>2. UnitsBut(next, i) = UnitsBut(held, i)
  <2>1. ASSUME NEW f \in [Pieces -> Nat]
        PROVE  \A u : u \in UnitsBut(f, i) <=> \E j \in Pieces \ {i} : u \in {j} \X (1 .. f[j])
    <3>1. \A u : u \in Units(f) <=> \E j \in Pieces : u \in {j} \X (1 .. f[j])
      BY DEF Units
    <3>2. ASSUME NEW u, NEW j \in Pieces, u \in {j} \X (1 .. f[j])
          PROVE  u \in {i} \X Nat <=> j = i
      BY <3>2
    <3> QED
      BY <3>1, <3>2 DEF UnitsBut
  <2>2. \A u : u \in UnitsBut(next, i) <=> u \in UnitsBut(held, i)
    BY <1>1, <2>1
  <2> QED
    BY <2>2
<1>3. /\ Cardinality(Units(next)) = Cardinality(UnitsBut(held, i)) + n
      /\ Cardinality(Units(held)) = Cardinality(UnitsBut(held, i)) + held[i]
      /\ Cardinality(UnitsBut(held, i)) \in Nat /\ held[i] \in Nat
  BY <1>1, <1>2, UnitsSplit
<1> QED
  BY <1>3 DEF next

LEMMA NoUnits == Cardinality(Units(NoCache)) = 0
<1>1. \A i \in Pieces : {i} \X (1 .. NoCache[i]) = {}
  BY DEF NoCache
<1>2. Units(NoCache) = {}
  BY <1>1 DEF Units
<1> QED
  BY <1>2, FS_EmptySet

\* The steps that change the cache.
LEMMA SizeStep == ASSUME IInv, SizeIsKept, [Next]_vars PROVE SizeIsKept'
<1>1. /\ cached \in [Pieces -> Nat] /\ left \in Nat /\ nCacheSize \in Int
      /\ nCacheSize = left + Cardinality(Units(cached)) /\ Cardinality(Units(cached)) \in Nat
  BY UnitsFinite DEF IInv, TypeOK, SizeIsKept, Kept
<1>2. CASE UNCHANGED cache
  BY <1>1, <1>2 DEF SizeIsKept, Kept, cache
<1>3. CASE ClearCache
  BY <1>3, NoUnits DEF ClearCache, SizeIsKept, Kept
<1>4. ASSUME NEW i \in Pieces, ReleaseM3u8Data(i) PROVE SizeIsKept'
  <2>1. /\ cached' = [cached EXCEPT ![i] = 0] /\ nCacheSize' = nCacheSize - cached[i] /\ left' = left
        /\ cached[i] \in Nat
    BY <1>1, <1>4 DEF ReleaseM3u8Data
  <2>2. Cardinality(Units(cached')) = Cardinality(Units(cached)) + 0 - cached[i]
    BY <1>1, <2>1, UnitsChange
  <2>3. nCacheSize' = left' + Cardinality(Units(cached'))
    BY <1>1, <2>1, <2>2
  <2> QED
    BY <2>3 DEF SizeIsKept, Kept, Units
<1>5. ASSUME NEW i \in Pieces, CacheM3u8Data(i) PROVE SizeIsKept'
  <2>1. /\ cached' = [cached EXCEPT ![i] = Size[i]] /\ left' = left
        /\ nCacheSize' = nCacheSize + Size[i] - cached[i]
        /\ cached[i] \in Nat /\ Size[i] \in Nat
    BY <1>1, <1>5, Basics DEF CacheM3u8Data
  <2>2. Cardinality(Units(cached')) = Cardinality(Units(cached)) + Size[i] - cached[i]
    BY <1>1, <2>1, UnitsChange
  <2>3. nCacheSize' = left' + Cardinality(Units(cached'))
    BY <1>1, <2>1, <2>2
  <2> QED
    BY <2>3 DEF SizeIsKept, Kept, Units
<1>6. CASE OtherTask
  <2>1. cached' = cached /\ nCacheSize' - left' = nCacheSize - left /\ left' \in Nat /\ nCacheSize' \in Int
    <3>1. CASE OtherStores
      <4>1. PICK i \in Pieces : left' = left + Size[i] /\ nCacheSize' = nCacheSize + Size[i]
        BY <3>1 DEF OtherStores
      <4> QED
        BY <1>1, <1>6, <4>1, Basics DEF OtherTask
    <3>2. CASE ClearCacheByHash
      BY <1>1, <1>6, <3>2 DEF OtherTask, ClearCacheByHash
    <3> QED
      BY <1>6, <3>1, <3>2 DEF OtherTask
  <2> QED
    BY <1>1, <2>1 DEF SizeIsKept, Kept
<1>7. CASE Reads
  <2>1. UNCHANGED cache \/ (ReleaseM3u8Data(want) /\ ~ Pushed)
    BY <1>7 DEF Reads, Read, ReadDisk, ReadAgent, ReadCache
  <2>2. ASSUME ~ Pushed PROVE want \in Pieces
    BY <2>2 DEF IInv, TypeOK, Pushed, want
  <2> QED
    BY <1>2, <1>4, <2>1, <2>2
<1>8. CASE Store
  <2>1. cur \in Pieces /\ (UNCHANGED cache \/ CacheM3u8Data(cur))
    BY <1>8 DEF IInv, StoresPiece, Store, From
  <2> QED
    BY <1>2, <1>5, <2>1
<1>9. CASE Server \/ \E t \in Threads : UpdateDownloadMode(t)
  <2>1. UNCHANGED cache \/ ClearCache
    BY <1>9 DEF Server, Clear, Emergency, EmergencyNext, EmergencyAdd, UpdateDownloadMode,
      Enter, Wipe, Time, Add
  <2> QED
    BY <1>2, <1>3, <2>1
<1>10. CASE Tick \/ Handle \/ AskNext \/ StopPlay \/ (\E i \in Pieces : Seek(i)) \/ Complete \/ Fails
            \/ UNCHANGED vars
  <2>1. UNCHANGED cache
    BY <1>10 DEF Tick, Handle, AskNext, Seek, AskFor, StopPlay, Complete, Fails, vars
  <2> QED
    BY <1>2, <2>1
<1> QED
  BY <1>6, <1>7, <1>8, <1>9, <1>10 DEF Next, MsgThread

\* CCacheDataInMem counts what it keeps: whatever is stored again, read to its end, taken by
\* the other task or thrown away with the rest, the counter stays exact.
THEOREM SizeIsKeptAlways == Spec => []SizeIsKept
<1>1. Init => SizeIsKept
  BY NoUnits, Basics DEF Init, SizeIsKept, Kept
<1>2. IInv /\ SizeIsKept /\ [Next]_vars => SizeIsKept'
  BY SizeStep
<1> QED
  BY <1>1, <1>2, Invariance, PTL DEF Spec

=============================================================================
