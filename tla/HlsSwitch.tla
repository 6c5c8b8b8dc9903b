------------------------------ MODULE HlsSwitch ------------------------------
(***************************************************************************)
(* The playlist of an HLS task that is not an offline task, and the switch *)
(* to the URL of another clarity.                                          *)
(*                                                                         *)
(* The application switches (UpdateClarityUrl, UpdateHttpOrgUrl).  While   *)
(* the local HTTP server pushes something to the player, the switch of the *)
(* clarity waits for the end of the push (ClosePush).  The switch removes  *)
(* the task's request and the playlist file; UpdateDownloadMode, run by    *)
(* the timer, the message thread, the server and the application, asks for *)
(* a playlist that is not there, and the message thread saves the answer.  *)
(* None of them holds a lock from beginning to end: one step per access to *)
(* shared state (pc).                                                      *)
(*                                                                         *)
(* Of the ts pieces there is only that they are asked for: the task never  *)
(* has them all.  What the mode and the time ahead have to say is          *)
(* HlsPlayback; here UpdateDownloadMode decides in one step and asks in    *)
(* another.  The downloads are not limited (the default), so nobody but    *)
(* the message thread pauses the task.  The application switches from one  *)
(* thread, so the URL it hands on is m_Para.strHttpOrgUrl.                 *)
(***************************************************************************)
EXTENDS Integers, Sequences, FiniteSets

CONSTANTS
  Url,          \* URLs of the playlist, one per clarity
  FirstUrl,     \* that of the task that was created
  MaxSwitches,  \* bound: switches
  MaxFaults,    \* bound: requests refused or failed, playlists that cannot be saved
  MaxQueue,     \* bound: answers to come when a thread begins
  MaxBusy       \* bound: other threads at work when one begins

None == "none"
Threads == {"app", "http", "timer", "msg"}

ASSUME SwitchAssumption ==
  /\ FirstUrl \in Url /\ None \notin Url
  /\ MaxSwitches \in Nat /\ MaxFaults \in Nat /\ MaxQueue \in Nat /\ MaxBusy \in Nat

VARIABLES
  url,      \* m_Para.strHttpOrgUrl
  listUrl,  \* m_m3u8->m_strM3u8Url
  onDisk,   \* the playlist file: the URL it came from
  late,     \* history: it came from another URL than listUrl when it was saved
  pushing,  \* m_iPushTsIndex # -2
  running,  \* m_Para.status = RUNNING
  req,      \* the task's request in the agent
  bshare,   \* its answer is under way
  done,     \* where the polling thread is with a complete request, and with which
  msgs,     \* answers on their way to the message thread
  pc, ask,  \* where each thread is, the request it is about to make
  switches, faults

list == <<url, listUrl, onDisk, late>>
agent == <<req, bshare, done, msgs>>
thread == <<pc, ask>>
bounds == <<switches, faults>>
vars == <<list, pushing, running, agent, thread, bounds>>

\* A ts piece is named in the playlist (names); its path is that of listUrl (url).
NoReq == [kind |-> None, url |-> None, names |-> None]
Request == [kind : {"m3u8", "ts"}, url : Url, names : Url \cup {None}]
\* The answer for a piece does not tell the URL apart.
Answer == [kind : {"m3u8", "ts"}, url : Url \cup {None}, result : {"complete", "no data", "error"}]
AnswerTo(r, result) ==
  [kind |-> r.kind, url |-> IF r.kind = "ts" THEN None ELSE r.url, result |-> result]
Places == {"idle", "decide", "compare", "del", "swap", "mode", "add", "pause", "del1"}

TypeOK ==
  /\ url \in Url /\ listUrl \in Url /\ onDisk \in Url \cup {None} /\ late \in BOOLEAN
  /\ pushing \in BOOLEAN /\ running \in BOOLEAN
  /\ req \in Request \cup {NoReq} /\ bshare \in BOOLEAN /\ (bshare => req # NoReq)
  /\ done.at \in {"idle", "drop", "push"} /\ done.req \in Request \cup {NoReq}
  /\ msgs \in Seq(Answer)
  /\ pc \in [Threads -> Places] /\ ask \in [Threads -> Request \cup {NoReq}]
  /\ \A t \in Threads : ask[t] # NoReq <=> pc[t] = "add"
  /\ switches \in 0 .. MaxSwitches /\ faults \in 0 .. MaxFaults

\* The playlist is not there yet.
Init ==
  /\ url = FirstUrl /\ listUrl = url /\ onDisk = None /\ late = FALSE
  /\ pushing = FALSE /\ running = TRUE
  /\ req = NoReq /\ bshare = FALSE /\ done = [at |-> "idle", req |-> NoReq] /\ msgs = << >>
  /\ pc = [t \in Threads |-> "idle"] /\ ask = [t \in Threads |-> NoReq]
  /\ switches = 0 /\ faults = 0

From(t, place) == pc[t] = place
Move(t, place, r) ==
  /\ pc' = [pc EXCEPT ![t] = place]
  /\ ask' = [ask EXCEPT ![t] = r]
Goto(t, place) == Move(t, place, NoReq)
\* At most MaxBusy other threads are at work when a thread begins, and at most MaxQueue
\* answers are to come, unless it begins to handle them or to close a push.
Free(t) == From(t, "idle") /\ Cardinality({u \in Threads : pc[u] # "idle"}) <= MaxBusy
Begins(t) == Free(t) /\ Len(msgs) <= MaxQueue

Fault == faults < MaxFaults /\ faults' = faults + 1 /\ UNCHANGED switches

-----------------------------------------------------------------------------
(* The agent, as far as the task sees it.                                  *)

\* A request that is terminated is answered, unless its answer is under way.
Terminated ==
  IF req = NoReq \/ bshare THEN << >> ELSE <<AnswerTo(req, "no data")>>

\* Mutation: the answer is still under way.
DelTaskKeepsShare == req' = NoReq /\ msgs' = msgs \o Terminated /\ UNCHANGED <<bshare, done>>

\* DelOneTask
DelTask == req' = NoReq /\ bshare' = FALSE /\ msgs' = msgs \o Terminated /\ UNCHANGED done

\* AddM3u8TsTask: another request of the task is terminated first.
AddM3u8TsTask(t, r, place) ==
  /\ Goto(t, place)
  /\ \/ req = r /\ UNCHANGED <<agent, bounds>>
     \/ /\ req # r /\ req' = r /\ bshare' = FALSE /\ msgs' = msgs \o Terminated
        /\ UNCHANGED <<done, bounds>>
     \/ req # r /\ DelTask /\ Fault

\* A playlist put together with the path of another one names pieces that are not there.
Exists(r) == r.kind = "m3u8" \/ r.names = r.url

\* OnData has everything: the answer is under way, ...
Complete ==
  /\ req # NoReq /\ ~ bshare /\ done.at = "idle" /\ Exists(req)
  /\ bshare' = TRUE /\ done' = [at |-> "drop", req |-> req]
  /\ UNCHANGED <<list, pushing, running, req, msgs, thread, bounds>>

\* ... the request of that task is terminated, whichever it is by now, ...
Drop ==
  /\ done.at = "drop"
  /\ done' = [done EXCEPT !.at = "push"]
  /\ req' = NoReq /\ bshare' = FALSE /\ msgs' = msgs \o Terminated
  /\ UNCHANGED <<list, pushing, running, thread, bounds>>

\* ... and the answer is sent.
Push ==
  /\ done.at = "push"
  /\ msgs' = Append(msgs, AnswerTo(done.req, "complete"))
  /\ done' = [at |-> "idle", req |-> NoReq]
  /\ UNCHANGED <<list, pushing, running, req, bshare, thread, bounds>>

\* TerminalSock: no data, or an error.
Fails ==
  /\ req # NoReq /\ ~ bshare
  /\ IF Exists(req) THEN Fault ELSE UNCHANGED bounds
  /\ \E result \in {"no data", "error"} : msgs' = Append(msgs, AnswerTo(req, result))
  /\ req' = NoReq
  /\ UNCHANGED <<list, pushing, running, bshare, done, thread>>

\* The server does not know the piece.
NotFound == ~ Exists(req) /\ Fails

Polling == Complete \/ Drop \/ Push \/ NotFound

-----------------------------------------------------------------------------
(* UpdateDownloadMode.                                                     *)

\* DownNextM3u8Ts: the playlist, if it is not there, or a piece, if one is missing.
DownNextM3u8Ts(t) ==
  \/ onDisk = None /\ Move(t, "add", [kind |-> "m3u8", url |-> url, names |-> None])
  \/ onDisk # None /\ Move(t, "add", [kind |-> "ts", url |-> listUrl, names |-> onDisk])

\* Nothing is asked for while there is a request, or when enough is there.
Decide(t) ==
  /\ \/ running /\ req = NoReq /\ DownNextM3u8Ts(t)
     \/ ~ (running /\ req = NoReq /\ onDisk = None) /\ Goto(t, "idle")
  /\ UNCHANGED <<list, pushing, running, agent, bounds>>

\* CheckTimeStamp
Tick == Begins("timer") /\ running /\ Decide("timer")

Mode(t) == From(t, "mode") /\ Decide(t)

Add(t) ==
  /\ From(t, "add") /\ AddM3u8TsTask(t, ask[t], "idle")
  /\ UNCHANGED <<list, pushing, running>>

UpdateDownloadMode(t) == Mode(t) \/ Add(t)

-----------------------------------------------------------------------------
(* The switch.                                                             *)

\* UpdateClarityUrl sets the URL, then looks whether something is pushed to a player;
\* UpdateHttpOrgUrl goes on at once.
SwitchUrl(u) ==
  /\ Begins("app") /\ u # url /\ switches < MaxSwitches
  /\ url' = u /\ switches' = switches + 1
  /\ \E place \in {"decide", "compare"} : Goto("app", place)
  /\ UNCHANGED <<listUrl, onDisk, late, pushing, running, agent, faults>>

UpdateClarityUrl ==
  /\ From("app", "decide")
  /\ \/ pushing /\ Goto("app", "idle")
     \/ Goto("app", "compare")
  /\ UNCHANGED <<list, pushing, running, agent, bounds>>

\* Mutation: the URL is left alone, as it is on OS X.
ClosePushOnly ==
  /\ Free("http") /\ pushing
  /\ pushing' = FALSE
  /\ UNCHANGED <<list, running, agent, thread, bounds>>

\* RemoveSocket: the push ends ...
ClosePush ==
  /\ Free("http") /\ pushing
  /\ pushing' = FALSE /\ Goto("http", "compare")
  /\ UNCHANGED <<list, running, agent, bounds>>

\* ... and what has waited for it is done.
Compare(t) ==
  /\ From(t, "compare") /\ Goto(t, IF url = listUrl THEN "idle" ELSE "del")
  /\ UNCHANGED <<list, pushing, running, agent, bounds>>

Del(t) ==
  /\ From(t, "del") /\ DelTask /\ Goto(t, "swap")
  /\ UNCHANGED <<list, pushing, running, bounds>>

\* Mutation: the playlist stays.
SwapKeeps(t) ==
  /\ From(t, "swap") /\ listUrl' = url /\ Goto(t, "mode")
  /\ UNCHANGED <<url, onDisk, late, pushing, running, agent, bounds>>

\* CM3u8::UpdateM3u8OrgUrl
Swap(t) ==
  /\ From(t, "swap") /\ listUrl' = url /\ onDisk' = None /\ late' = FALSE
  /\ Goto(t, "mode")
  /\ UNCHANGED <<url, pushing, running, agent, bounds>>

UpdateM3u8OrgUrl(t) == Compare(t) \/ Del(t) \/ Swap(t)

\* RunTask: the application starts a paused task again.
RunTask ==
  /\ Begins("app") /\ ~ running
  /\ running' = TRUE /\ Goto("app", "mode")
  /\ UNCHANGED <<list, pushing, agent, bounds>>

-----------------------------------------------------------------------------
(* The player, through the local HTTP server.                              *)

\* ProcessYfHttpReq: the playlist or a piece is pushed.  After a seek, or a new start,
\* it is asked for at once, whatever the request is (DownEmergencyData); Tick stands for
\* the UpdateDownloadMode that follows.
AskFor ==
  /\ Begins("http")
  /\ pushing' = TRUE
  /\ \/ running /\ DownNextM3u8Ts("http")
     \/ Goto("http", "idle")
  /\ UNCHANGED <<list, running, agent, bounds>>

-----------------------------------------------------------------------------
(* The message thread: HdHttpM3u8, HdHttpM3u8Ts.                           *)

\* DownNextM3u8Ts of the handler asks for more unless there is a request.
Again == IF running /\ req = NoReq THEN "mode" ELSE "idle"

\* A playlist that is not there is saved; if that fails, it is removed.
SaveM3u8File(m) ==
  /\ m.kind = "m3u8" /\ m.result = "complete"
  /\ \/ onDisk = None /\ onDisk' = m.url /\ late' = (m.url # listUrl) /\ UNCHANGED bounds
     \/ onDisk = None /\ UNCHANGED <<onDisk, late>> /\ Fault
     \/ onDisk # None /\ UNCHANGED <<onDisk, late, bounds>>
  /\ Goto("msg", Again)

\* An error pauses the task, that of a playlist only if its URL is the present one.
Error(m) ==
  /\ m.result = "error"
  /\ Goto("msg", IF m.kind = "ts" \/ m.url = url THEN "pause" ELSE Again)
  /\ UNCHANGED <<onDisk, late, bounds>>

NothingToSave(m) ==
  /\ m.result = "no data" \/ (m.kind = "ts" /\ m.result = "complete")
  /\ Goto("msg", Again)
  /\ UNCHANGED <<onDisk, late, bounds>>

Handle ==
  /\ Free("msg") /\ msgs # << >>
  /\ msgs' = Tail(msgs)
  /\ LET m == Head(msgs) IN SaveM3u8File(m) \/ Error(m) \/ NothingToSave(m)
  /\ UNCHANGED <<url, listUrl, pushing, running, req, bshare, done>>

\* SetTaskStatus(PAUSE): the status, then the request.
Pause ==
  /\ \/ From("msg", "pause") /\ running' = FALSE /\ Goto("msg", "del1") /\ UNCHANGED agent
     \/ From("msg", "del1") /\ DelTask /\ Goto("msg", Again) /\ UNCHANGED running
  /\ UNCHANGED <<list, pushing, bounds>>

MsgThread == Handle \/ Pause

-----------------------------------------------------------------------------
Works(t) == UpdateM3u8OrgUrl(t) \/ UpdateDownloadMode(t)

Next ==
  \/ \E u \in Url : SwitchUrl(u)
  \/ UpdateClarityUrl \/ RunTask
  \/ AskFor \/ ClosePush
  \/ Tick \/ MsgThread
  \/ \E t \in Threads : Works(t)
  \/ Polling \/ Fails

Spec == Init /\ [][Next]_vars

\* Threads run, the timer comes again and again, servers answer, pushes end (a push may
\* be followed by another before its end is seen, hence SF).
FairSpec ==
  /\ Spec
  /\ WF_vars(Polling) /\ SF_vars(ClosePush)
  /\ WF_vars(Tick \/ Works("timer")) /\ WF_vars(MsgThread \/ Works("msg"))
  /\ WF_vars(UpdateClarityUrl \/ Works("app")) /\ WF_vars(Works("http"))

-----------------------------------------------------------------------------
(* Properties.                                                             *)

\* A switch that was asked for is under way, or waits for a push that will end: asking
\* for it again would do nothing.
UnderWay(t) == pc[t] \in {"decide", "compare", "del", "swap"}
NoSwitchLost == url = listUrl \/ pushing \/ \E t \in Threads : UnderWay(t)

\* After the last switch the playlist of its URL comes and stays, unless the answer for
\* an earlier URL came after the switch, or the task is paused.
SwitchedUnlessLate == <>[](onDisk = url) \/ <>[]late \/ []<>(~ running)

=============================================================================
