------------------------------ MODULE LockOrder ------------------------------
(***************************************************************************)
(* The locks of the task manager, the HLS task and the HTTP agent (CLock,  *)
(* which its owner may take again), in the order in which the functions    *)
(* take them.  A function is the sequence of its lock operations on its    *)
(* longest way; what it does in between is left out.                       *)
(***************************************************************************)
EXTENDS Naturals, Sequences, FiniteSets

CONSTANTS
  App,  \* threads of the application
  Own   \* those of the library's threads that run

ASSUME LockAssumption ==
  /\ Own \subseteq {"polling", "server", "routine", "msg"}
  /\ App \cap {"polling", "server", "routine", "msg", "none"} = {}

Thread == App \cup Own

Lock ==
  {"path", "map", "keyurl",                                  \* CTaskMgr
   "piece", "m3u8", "tsIndex", "cache",                      \* CM3u8Task, CM3u8, CCacheDataInMem
   "agent", "sock", "file", "msgQueue", "error", "oneTask",  \* CHttpAgent
   "db", "http"}                                             \* CDbTaskConfig, CHttpServer

\* CAutoLock: the lock is held while the body runs.
Holding(l, body) == <<[op |-> "lock", lock |-> l]>> \o body \o <<[op |-> "unlock", lock |-> l]>>
Brief(l) == Holding(l, << >>)

-----------------------------------------------------------------------------
(* CHttpAgent.                                                             *)

GetAgentInfo == Brief("agent")
OnClose == Holding("sock", GetAgentInfo)
ReConnect == GetAgentInfo \o Brief("sock")
AddOneTaskHash == Brief("oneTask")
DelOneTaskHash == Brief("oneTask")
FindOneTaskHash == Holding("oneTask", GetAgentInfo)
AddM3u8DownError == Brief("error")

TerminalSock ==
  Holding("agent", GetAgentInfo \o OnClose \o ReConnect \o Brief("file") \o AddM3u8DownError
                     \o DelOneTaskHash \o Brief("msgQueue"))

deleteUnusedSock == Holding("agent", TerminalSock)
OnConnect == GetAgentInfo \o Brief("sock")
OnData == GetAgentInfo \o Brief("file") \o TerminalSock \o DelOneTaskHash \o Brief("msgQueue")

AddM3u8TsTask ==
  Holding("agent", GetAgentInfo \o TerminalSock \o AddOneTaskHash \o Brief("sock"))
DelOneTaskSock == Brief("oneTask") \o Holding("agent", TerminalSock)
ReadM3u8TsOfAgent == GetAgentInfo \o FindOneTaskHash \o GetAgentInfo \o Brief("file")

-----------------------------------------------------------------------------
(* CTaskMgr: the task of a hash, and the calls that look at every task.    *)

FindTask == Brief("map")
TaskIsFinish == Brief("m3u8")
GetDownloadingTasks == Holding("map", TaskIsFinish)
GetDownloadingAndPlayingTaskNum == Holding("map", TaskIsFinish)

-----------------------------------------------------------------------------
(* CM3u8Task, CTask.                                                       *)

CheckM3u8Ts == Brief("cache")
GetContinueTsTimeByIndex == Holding("m3u8", CheckM3u8Ts)
DownNextM3u8Ts == Holding("piece", Brief("m3u8") \o Brief("tsIndex") \o CheckM3u8Ts)
UpdateDownloadMode ==
  TaskIsFinish \o CheckM3u8Ts \o GetContinueTsTimeByIndex \o DownNextM3u8Ts
    \o GetAgentInfo \o AddM3u8TsTask \o Brief("tsIndex")
Start == Brief("db") \o UpdateDownloadMode
Pause == Brief("db") \o Brief("tsIndex")
PauseTask == FindTask \o Pause \o DelOneTaskSock

\* A download that has its last piece is paused and the playing tasks are counted, for
\* an HLSP2PDOWNTASK under the lock of the pieces.
WriteHttpData == PauseTask \o GetDownloadingAndPlayingTaskNum
WriteM3u8Data == Holding("piece", Brief("m3u8") \o WriteHttpData)
WriteM3u8Ts ==
  Brief("tsIndex") \o Brief("m3u8") \o Holding("piece", Brief("m3u8") \o WriteM3u8Data)
UpdateM3u8OrgUrl ==
  TaskIsFinish \o DelOneTaskSock \o Holding("piece", Brief("m3u8")) \o Brief("cache")
    \o UpdateDownloadMode

-----------------------------------------------------------------------------
(* The other calls of CTaskMgr, and the calls of each thread.              *)

CheckTimeStamp == Holding("path", UpdateDownloadMode)
StartAllTask == Holding("map", Start)
PauseAllTask == Holding("map", Pause) \o DelOneTaskSock

\* Mutation: the lock of the key URLs is held until the task is in the map.
CreateYfTaskNested ==
  FindTask \o Holding("keyurl", Brief("map")) \o Brief("path") \o FindTask \o Brief("db")

CreateYfTask ==
  FindTask \o Brief("keyurl") \o Brief("map") \o Brief("path") \o Brief("keyurl")
    \o FindTask \o Brief("db")

DelOneTask == Brief("path") \o Holding("map", Brief("keyurl"))
SetTaskPlaying == FindTask \o GetDownloadingTasks \o Pause \o GetDownloadingAndPlayingTaskNum
StopTask == FindTask \o SetTaskPlaying \o Brief("db") \o DelOneTask \o DelOneTaskSock

OnTimerEvent == Holding("http", FindTask \o Brief("m3u8") \o ReadM3u8TsOfAgent \o Brief("cache"))

OwnCalls ==
  [polling |-> {deleteUnusedSock, OnConnect, OnData, TerminalSock \o OnClose},
   server |-> {OnTimerEvent},
   routine |-> {CheckTimeStamp},
   msg |-> {FindTask \o WriteM3u8Ts \o Brief("cache") \o FindTask \o UpdateDownloadMode,
            StopTask, PauseTask}]
AppCalls == {CreateYfTask, StartAllTask, FindTask \o Start, StopTask, PauseTask, PauseAllTask,
             UpdateM3u8OrgUrl}
Calls(t) == IF t \in App THEN AppCalls ELSE OwnCalls[t]

-----------------------------------------------------------------------------
VARIABLES
  rest,  \* what each thread still has to do
  owner, \* the thread that holds a lock, "none"
  depth  \* how many times it has taken it

vars == <<rest, owner, depth>>

TypeOK ==
  /\ rest \in [Thread -> Seq([op : {"lock", "unlock"}, lock : Lock])]
  /\ owner \in [Lock -> Thread \cup {"none"}] /\ depth \in [Lock -> Nat]
  /\ \A l \in Lock : owner[l] = "none" <=> depth[l] = 0

Init ==
  /\ rest = [t \in Thread |-> << >>]
  /\ owner = [l \in Lock |-> "none"] /\ depth = [l \in Lock |-> 0]

Calling(t) ==
  /\ rest[t] = << >>
  /\ \E call \in Calls(t) : rest' = [rest EXCEPT ![t] = call]
  /\ UNCHANGED <<owner, depth>>

Wants(t, op, l) == rest[t] # << >> /\ Head(rest[t]) = [op |-> op, lock |-> l]

LockTaken(t, l) ==
  /\ Wants(t, "lock", l) /\ owner[l] \in {t, "none"}
  /\ owner' = [owner EXCEPT ![l] = t] /\ depth' = [depth EXCEPT ![l] = @ + 1]
  /\ rest' = [rest EXCEPT ![t] = Tail(@)]

\* Mutation: unlocked at once, however often the owner has taken it.
UnlockedAtOnce(t, l) ==
  /\ Wants(t, "unlock", l)
  /\ owner' = [owner EXCEPT ![l] = "none"] /\ depth' = [depth EXCEPT ![l] = @ - 1]
  /\ rest' = [rest EXCEPT ![t] = Tail(@)]

Unlocked(t, l) ==
  /\ Wants(t, "unlock", l)
  /\ owner' = [owner EXCEPT ![l] = IF depth[l] = 1 THEN "none" ELSE @]
  /\ depth' = [depth EXCEPT ![l] = @ - 1]
  /\ rest' = [rest EXCEPT ![t] = Tail(@)]

Next == \E t \in Thread : Calling(t) \/ \E l \in Lock : LockTaken(t, l) \/ Unlocked(t, l)

Spec == Init /\ [][Next]_vars

-----------------------------------------------------------------------------
\* No threads wait for each other: the code block of DelOneTaskSock is there to prevent
\* it (HttpAgent.cpp:2995).
WaitsFor(t, u) == t # u /\ \E l \in Lock : Wants(t, "lock", l) /\ owner[l] = u
Deadlocked(S) == S # {} /\ \A t \in S : \E u \in S : WaitsFor(t, u)
NoDeadlock == \A S \in SUBSET Thread : ~ Deadlocked(S)

\* Threads wait for each other only in the two ways the code has: the polling or the
\* server thread is among them, which take the locks of the agent from the other side; or
\* one finishes a task (lock of the pieces, then of the map; DownLoadTask.cpp:793) while
\* another starts all tasks (of the map, then of the pieces; TaskMgr.cpp:1319).
FinishesAgainstStartAll(t, u) ==
  /\ owner["piece"] = t /\ Wants(t, "lock", "map")
  /\ owner["map"] = u /\ Wants(u, "lock", "piece")

DeadlocksKnown ==
  \A S \in SUBSET Thread : Deadlocked(S) =>
    \/ S \cap {"polling", "server"} # {}
    \/ \E t, u \in S : FinishesAgainstStartAll(t, u)

=============================================================================
