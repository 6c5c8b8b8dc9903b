--------------------------- MODULE HlsSwitch_proofs ---------------------------
(***************************************************************************)
(* Proofs about HlsSwitch, for every set of URLs and every bound.          *)
(***************************************************************************)
EXTENDS HlsSwitch, TLAPS

(* What AnswerTo and Terminated make of a request.                         *)

LEMMA NoReqIsNone == NoReq \notin Request
BY DEF NoReq, Request, None

LEMMA AnswerType ==
  ASSUME NEW r \in Request, NEW result \in {"complete", "no data", "error"}
  PROVE  AnswerTo(r, result) \in Answer
<1>1. r.kind \in {"m3u8", "ts"} /\ r.url \in Url
  BY DEF Request
<1>2. (IF r.kind = "ts" THEN None ELSE r.url) \in Url \cup {None}
  BY <1>1
<1> QED
  BY <1>1, <1>2 DEF AnswerTo, Answer

-----------------------------------------------------------------------------
(* The inductive invariant.                                                *)

\* The polling thread has something to answer until it is idle again.
Polled ==
  /\ done \in [at : {"idle", "drop", "push"}, req : Request \cup {NoReq}]
  /\ done.at # "idle" => done.req # NoReq

IInv == TypeOK /\ Polled /\ NoSwitchLost

LEMMA Appended ==
  ASSUME NEW S, NEW s \in Seq(S)
  PROVE  /\ << >> \in Seq(S) /\ s \o << >> \in Seq(S)
         /\ \A x \in S : s \o <<x>> \in Seq(S) /\ Append(s, x) \in Seq(S)
<1>1. << >> \in Seq(S)
  OBVIOUS
<1>2. \A x \in S : <<x>> \in Seq(S)
  OBVIOUS
<1>3. \A x \in S : Append(s, x) \in Seq(S)
  OBVIOUS
<1> QED
  BY <1>1, <1>2, <1>3

LEMMA TerminatedType ==
  ASSUME TypeOK
  PROVE  msgs \o Terminated \in Seq(Answer)
<1>1. msgs \in Seq(Answer) /\ req \in Request \cup {NoReq}
  BY DEF TypeOK
<1>2. CASE req = NoReq \/ bshare
  <2>1. Terminated = << >>
    BY <1>2 DEF Terminated
  <2> QED
    BY <1>1, <2>1, Appended
<1>3. CASE ~ (req = NoReq \/ bshare)
  <2>1. AnswerTo(req, "no data") \in Answer
    BY <1>1, <1>3, AnswerType
  <2>2. Terminated = <<AnswerTo(req, "no data")>>
    BY <1>3 DEF Terminated
  <2> QED
    BY <1>1, <2>1, <2>2, Appended
<1> QED
  BY <1>2, <1>3

\* One thread moves, the others stay where they are.
ThreadsTyped ==
  /\ pc \in [Threads -> Places] /\ ask \in [Threads -> Request \cup {NoReq}]
  /\ \A t \in Threads : ask[t] # NoReq <=> pc[t] = "add"

LEMMA MoveType ==
  ASSUME TypeOK, NEW t \in Threads, NEW place \in Places, NEW r \in Request \cup {NoReq},
         r # NoReq <=> place = "add", Move(t, place, r)
  PROVE  /\ ThreadsTyped'
         /\ pc'[t] = place /\ \A u \in Threads \ {t} : pc'[u] = pc[u]
BY DEF TypeOK, ThreadsTyped, Move

LEMMA GotoType ==
  ASSUME TypeOK, NEW t \in Threads, NEW place \in Places \ {"add"}, Goto(t, place)
  PROVE  /\ ThreadsTyped'
         /\ pc'[t] = place /\ \A u \in Threads \ {t} : pc'[u] = pc[u]
<1>1. NoReq \in Request \cup {NoReq}
  OBVIOUS
<1>2. place \in Places /\ (NoReq # NoReq <=> place = "add")
  OBVIOUS
<1>3. Move(t, place, NoReq)
  BY DEF Goto
<1> QED
  BY <1>1, <1>2, <1>3, MoveType

\* A switch survives the step of a thread that has none under way.
LEMMA SwitchKept ==
  ASSUME NoSwitchLost, NEW t \in Threads, ~ UnderWay(t),
         \A u \in Threads \ {t} : pc'[u] = pc[u],
         UNCHANGED <<url, listUrl>>, pushing => pushing'
  PROVE  NoSwitchLost'
BY DEF NoSwitchLost, UnderWay

\* A thread that goes on with the switch keeps it under way.
LEMMA SwitchGoesOn ==
  ASSUME NEW t \in Threads, pc'[t] \in {"decide", "compare", "del", "swap"}
  PROVE  NoSwitchLost'
BY DEF NoSwitchLost, UnderWay

-----------------------------------------------------------------------------
(* What the parts of a step leave typed.                                   *)

ListTyped == url \in Url /\ listUrl \in Url /\ onDisk \in Url \cup {None} /\ late \in BOOLEAN
AgentTyped ==
  /\ req \in Request \cup {NoReq} /\ bshare \in BOOLEAN /\ (bshare => req # NoReq)
  /\ done.at \in {"idle", "drop", "push"} /\ done.req \in Request \cup {NoReq}
  /\ msgs \in Seq(Answer)
BoundsTyped == switches \in 0 .. MaxSwitches /\ faults \in 0 .. MaxFaults

LEMMA TypeParts ==
  TypeOK <=> /\ ListTyped /\ pushing \in BOOLEAN /\ running \in BOOLEAN
             /\ AgentTyped /\ ThreadsTyped /\ BoundsTyped
BY DEF TypeOK, ListTyped, AgentTyped, ThreadsTyped, BoundsTyped

LEMMA NextTypeParts ==
  ASSUME ListTyped', pushing' \in BOOLEAN, running' \in BOOLEAN,
         AgentTyped', ThreadsTyped', BoundsTyped'
  PROVE  TypeOK'
BY DEF TypeOK, ListTyped, AgentTyped, ThreadsTyped, BoundsTyped

LEMMA KeepType ==
  ASSUME TypeOK
  PROVE  /\ UNCHANGED list => ListTyped'
         /\ UNCHANGED agent => AgentTyped'
         /\ UNCHANGED bounds => BoundsTyped'
         /\ UNCHANGED thread => ThreadsTyped'
         /\ UNCHANGED pushing => pushing' \in BOOLEAN
         /\ UNCHANGED running => running' \in BOOLEAN
BY DEF TypeOK, ListTyped, AgentTyped, ThreadsTyped, BoundsTyped, list, agent, bounds, thread

LEMMA KeepPolled == ASSUME Polled, UNCHANGED done PROVE Polled'
BY DEF Polled

LEMMA FaultType == ASSUME TypeOK, Fault PROVE BoundsTyped'
BY SwitchAssumption DEF TypeOK, BoundsTyped, Fault

LEMMA DelTaskType ==
  ASSUME TypeOK, Polled, DelTask
  PROVE  AgentTyped' /\ Polled'
<1>1. msgs' \in Seq(Answer)
  BY TerminatedType DEF DelTask
<1>2. req' = NoReq /\ bshare' = FALSE /\ UNCHANGED done
  BY DEF DelTask
<1> QED
  BY <1>1, <1>2, KeepPolled DEF TypeOK, AgentTyped

LEMMA AddType ==
  ASSUME TypeOK, Polled, NEW t \in Threads, NEW r \in Request,
         AddM3u8TsTask(t, r, "idle")
  PROVE  AgentTyped' /\ Polled' /\ BoundsTyped' /\ Goto(t, "idle")
<1>1. Goto(t, "idle")
  BY DEF AddM3u8TsTask
<1>2. CASE UNCHANGED <<agent, bounds>>
  BY <1>1, <1>2, KeepType, KeepPolled DEF agent
<1>3. CASE /\ req' = r /\ bshare' = FALSE /\ msgs' = msgs \o Terminated
           /\ UNCHANGED <<done, bounds>>
  <2>1. msgs' \in Seq(Answer)
    BY <1>3, TerminatedType
  <2>2. AgentTyped'
    BY <1>3, <2>1 DEF TypeOK, AgentTyped
  <2> QED
    BY <1>1, <1>3, <2>2, KeepType, KeepPolled
<1>4. CASE DelTask /\ Fault
  BY <1>1, <1>4, DelTaskType, FaultType
<1> QED
  BY <1>2, <1>3, <1>4 DEF AddM3u8TsTask

LEMMA DownNextType ==
  ASSUME TypeOK, NEW t \in Threads, DownNextM3u8Ts(t)
  PROVE  ThreadsTyped' /\ \A u \in Threads \ {t} : pc'[u] = pc[u]
<1>1. "add" \in Places
  BY DEF Places
<1>2. CASE Move(t, "add", [kind |-> "m3u8", url |-> url, names |-> None])
  <2> DEFINE r == [kind |-> "m3u8", url |-> url, names |-> None]
  <2>1. r \in Request
    BY DEF TypeOK, Request
  <2>2. r # NoReq
    BY <2>1, NoReqIsNone
  <2> HIDE DEF r
  <2>3. Move(t, "add", r)
    BY <1>2 DEF r
  <2> QED
    BY <1>1, <2>1, <2>2, <2>3, MoveType
<1>3. CASE onDisk # None /\ Move(t, "add", [kind |-> "ts", url |-> listUrl, names |-> onDisk])
  <2> DEFINE r == [kind |-> "ts", url |-> listUrl, names |-> onDisk]
  <2>1. r \in Request
    BY <1>3 DEF TypeOK, Request
  <2>2. r # NoReq
    BY <2>1, NoReqIsNone
  <2> HIDE DEF r
  <2>3. Move(t, "add", r)
    BY <1>3 DEF r
  <2> QED
    BY <1>1, <2>1, <2>2, <2>3, MoveType
<1> QED
  BY <1>2, <1>3 DEF DownNextM3u8Ts

LEMMA DecideType ==
  ASSUME TypeOK, NEW t \in Threads, Decide(t)
  PROVE  /\ ThreadsTyped' /\ \A u \in Threads \ {t} : pc'[u] = pc[u]
         /\ UNCHANGED <<list, pushing, running, agent, bounds>>
<1>1. "idle" \in Places \ {"add"}
  BY DEF Places
<1>2. CASE DownNextM3u8Ts(t)
  BY <1>2, DownNextType DEF Decide
<1>3. CASE Goto(t, "idle")
  BY <1>1, <1>3, GotoType DEF Decide
<1> QED
  BY <1>2, <1>3 DEF Decide

-----------------------------------------------------------------------------
(* The steps.                                                              *)

LEMMA PlacesHold ==
  {"idle", "compare", "decide", "del", "swap", "mode", "pause", "del1"} \subseteq Places \ {"add"}
BY DEF Places

LEMMA ThreadsHold == "app" \in Threads /\ "http" \in Threads /\ "timer" \in Threads /\ "msg" \in Threads
BY DEF Threads

LEMMA InitOK == Init => IInv
<1> SUFFICES ASSUME Init PROVE IInv
  OBVIOUS
<1>1. ThreadsTyped
  BY DEF Init, ThreadsTyped, Places
<1>2. AgentTyped /\ Polled
  <2>1. << >> \in Seq(Answer)
    OBVIOUS
  <2> QED
    BY <2>1 DEF Init, AgentTyped, Polled
<1>3. BoundsTyped
  BY SwitchAssumption DEF Init, BoundsTyped
<1>4. ListTyped /\ pushing \in BOOLEAN /\ running \in BOOLEAN
  BY SwitchAssumption DEF Init, ListTyped
<1>5. NoSwitchLost
  BY DEF Init, NoSwitchLost
<1> QED
  BY <1>1, <1>2, <1>3, <1>4, <1>5, TypeParts DEF IInv

LEMMA SwitchStep ==
  ASSUME IInv, NEW u \in Url, SwitchUrl(u)
  PROVE  IInv'
<1>1. PICK place \in {"decide", "compare"} : Goto("app", place)
  BY DEF SwitchUrl
<1>2. ThreadsTyped' /\ pc'["app"] = place
  BY <1>1, GotoType, PlacesHold, ThreadsHold DEF IInv
<1>3. AgentTyped' /\ Polled' /\ pushing' \in BOOLEAN /\ running' \in BOOLEAN
  BY KeepType, KeepPolled DEF IInv, SwitchUrl, agent
<1>4. ListTyped' /\ BoundsTyped'
  BY SwitchAssumption DEF IInv, TypeOK, SwitchUrl, ListTyped, BoundsTyped
<1>5. NoSwitchLost'
  BY <1>2, SwitchGoesOn, ThreadsHold
<1> QED
  BY <1>2, <1>3, <1>4, <1>5, NextTypeParts DEF IInv

LEMMA ClarityStep == ASSUME IInv, UpdateClarityUrl PROVE IInv'
<1>1. /\ ListTyped' /\ AgentTyped' /\ Polled' /\ BoundsTyped'
      /\ pushing' \in BOOLEAN /\ running' \in BOOLEAN
  BY KeepType, KeepPolled DEF IInv, UpdateClarityUrl, agent
<1>2. CASE pushing /\ Goto("app", "idle")
  <2>1. ThreadsTyped'
    BY <1>2, GotoType, PlacesHold, ThreadsHold DEF IInv
  <2>2. NoSwitchLost'
    BY <1>2 DEF UpdateClarityUrl, NoSwitchLost
  <2> QED
    BY <1>1, <2>1, <2>2, NextTypeParts DEF IInv
<1>3. CASE Goto("app", "compare")
  <2>1. ThreadsTyped' /\ pc'["app"] = "compare"
    BY <1>3, GotoType, PlacesHold, ThreadsHold DEF IInv
  <2>2. NoSwitchLost'
    BY <2>1, SwitchGoesOn, ThreadsHold
  <2> QED
    BY <1>1, <2>1, <2>2, NextTypeParts DEF IInv
<1> QED
  BY <1>2, <1>3 DEF UpdateClarityUrl

LEMMA ClosePushStep == ASSUME IInv, ClosePush PROVE IInv'
<1>1. ListTyped' /\ AgentTyped' /\ Polled' /\ BoundsTyped' /\ running' \in BOOLEAN
  BY KeepType, KeepPolled DEF IInv, ClosePush, agent
<1>2. ThreadsTyped' /\ pc'["http"] = "compare" /\ pushing' \in BOOLEAN
  BY GotoType, PlacesHold, ThreadsHold DEF IInv, ClosePush
<1>3. NoSwitchLost'
  BY <1>2, SwitchGoesOn, ThreadsHold
<1> QED
  BY <1>1, <1>2, <1>3, NextTypeParts DEF IInv

\* The switch ends where the two URLs are the same.
LEMMA CompareStep == ASSUME IInv, NEW t \in Threads, Compare(t) PROVE IInv'
<1>1. /\ ListTyped' /\ AgentTyped' /\ Polled' /\ BoundsTyped'
      /\ pushing' \in BOOLEAN /\ running' \in BOOLEAN
  BY KeepType, KeepPolled DEF IInv, Compare, agent
<1>2. CASE url = listUrl
  <2>1. Goto(t, "idle")
    BY <1>2 DEF Compare
  <2>2. ThreadsTyped'
    BY <2>1, GotoType, PlacesHold DEF IInv
  <2>3. NoSwitchLost'
    BY <1>2 DEF Compare, list, NoSwitchLost
  <2> QED
    BY <1>1, <2>2, <2>3, NextTypeParts DEF IInv
<1>3. CASE url # listUrl
  <2>1. Goto(t, "del")
    BY <1>3 DEF Compare
  <2>2. ThreadsTyped' /\ pc'[t] = "del"
    BY <2>1, GotoType, PlacesHold DEF IInv
  <2>3. NoSwitchLost'
    BY <2>2, SwitchGoesOn
  <2> QED
    BY <1>1, <2>2, <2>3, NextTypeParts DEF IInv
<1> QED
  BY <1>2, <1>3

LEMMA DelStep == ASSUME IInv, NEW t \in Threads, Del(t) PROVE IInv'
<1>1. ListTyped' /\ BoundsTyped' /\ pushing' \in BOOLEAN /\ running' \in BOOLEAN
  BY KeepType DEF IInv, Del
<1>2. AgentTyped' /\ Polled'
  BY DelTaskType DEF IInv, Del
<1>3. ThreadsTyped' /\ pc'[t] = "swap"
  BY GotoType, PlacesHold DEF IInv, Del
<1>4. NoSwitchLost'
  BY <1>3, SwitchGoesOn
<1> QED
  BY <1>1, <1>2, <1>3, <1>4, NextTypeParts DEF IInv

LEMMA SwapStep == ASSUME IInv, NEW t \in Threads, Swap(t) PROVE IInv'
<1>1. AgentTyped' /\ Polled' /\ BoundsTyped' /\ pushing' \in BOOLEAN /\ running' \in BOOLEAN
  BY KeepType, KeepPolled DEF IInv, Swap, agent
<1>2. ListTyped'
  BY DEF IInv, TypeOK, Swap, ListTyped
<1>3. ThreadsTyped'
  BY GotoType, PlacesHold DEF IInv, Swap
<1>4. NoSwitchLost'
  BY DEF Swap, NoSwitchLost
<1> QED
  BY <1>1, <1>2, <1>3, <1>4, NextTypeParts DEF IInv

\* UpdateDownloadMode, and the timer that calls it.
LEMMA DecideStep ==
  ASSUME IInv, NEW t \in Threads, pc[t] \in {"idle", "mode"}, Decide(t)
  PROVE  IInv'
<1>1. ThreadsTyped' /\ \A u \in Threads \ {t} : pc'[u] = pc[u]
  BY DecideType DEF IInv
<1>2. UNCHANGED <<list, pushing, running, agent, bounds>>
  BY DEF Decide
<1>3. /\ ListTyped' /\ AgentTyped' /\ Polled' /\ BoundsTyped'
      /\ pushing' \in BOOLEAN /\ running' \in BOOLEAN
  BY <1>2, KeepType, KeepPolled DEF IInv, agent
<1>4. NoSwitchLost'
  BY <1>1, <1>2, SwitchKept DEF IInv, list, UnderWay
<1> QED
  BY <1>1, <1>3, <1>4, NextTypeParts DEF IInv

LEMMA AddStep == ASSUME IInv, NEW t \in Threads, Add(t) PROVE IInv'
<1>1. pc[t] = "add" /\ AddM3u8TsTask(t, ask[t], "idle") /\ UNCHANGED <<list, pushing, running>>
  BY DEF Add, From
<1>2. ask[t] \in Request
  BY <1>1 DEF IInv, TypeOK
<1>3. AgentTyped' /\ Polled' /\ BoundsTyped' /\ Goto(t, "idle")
  BY <1>1, <1>2, AddType DEF IInv
<1>4. ThreadsTyped' /\ \A u \in Threads \ {t} : pc'[u] = pc[u]
  BY <1>3, GotoType, PlacesHold DEF IInv
<1>5. ListTyped' /\ pushing' \in BOOLEAN /\ running' \in BOOLEAN
  BY <1>1, KeepType DEF IInv
<1>6. NoSwitchLost'
  BY <1>1, <1>4, SwitchKept DEF IInv, list, UnderWay
<1> QED
  BY <1>3, <1>4, <1>5, <1>6, NextTypeParts DEF IInv

LEMMA RunTaskStep == ASSUME IInv, RunTask PROVE IInv'
<1>1. ListTyped' /\ AgentTyped' /\ Polled' /\ BoundsTyped' /\ pushing' \in BOOLEAN
  BY KeepType, KeepPolled DEF IInv, RunTask, agent
<1>2. running' \in BOOLEAN /\ pc["app"] = "idle"
  BY DEF RunTask, Begins, Free, From
<1>3. ThreadsTyped' /\ \A u \in Threads \ {"app"} : pc'[u] = pc[u]
  BY GotoType, PlacesHold, ThreadsHold DEF IInv, RunTask
<1>4. UNCHANGED <<url, listUrl, pushing>>
  BY DEF RunTask, list
<1>5. NoSwitchLost'
  BY <1>2, <1>3, <1>4, SwitchKept, ThreadsHold DEF IInv, UnderWay
<1> QED
  BY <1>1, <1>2, <1>3, <1>5, NextTypeParts DEF IInv

\* While something is pushed no switch is lost.
LEMMA AskForStep == ASSUME IInv, AskFor PROVE IInv'
<1>1. ListTyped' /\ AgentTyped' /\ Polled' /\ BoundsTyped' /\ running' \in BOOLEAN
  BY KeepType, KeepPolled DEF IInv, AskFor, agent
<1>2. pushing' \in BOOLEAN /\ NoSwitchLost'
  BY DEF AskFor, NoSwitchLost
<1>3. CASE DownNextM3u8Ts("http")
  <2>1. ThreadsTyped'
    BY <1>3, DownNextType, ThreadsHold DEF IInv
  <2> QED
    BY <1>1, <1>2, <2>1, NextTypeParts DEF IInv
<1>4. CASE Goto("http", "idle")
  <2>1. ThreadsTyped'
    BY <1>4, GotoType, PlacesHold, ThreadsHold DEF IInv
  <2> QED
    BY <1>1, <1>2, <2>1, NextTypeParts DEF IInv
<1> QED
  BY <1>3, <1>4 DEF AskFor

-----------------------------------------------------------------------------
(* The message thread.                                                     *)

LEMMA AgainPlace == Again \in Places \ {"add"}
BY PlacesHold DEF Again

LEMMA HandledType ==
  ASSUME TypeOK, NEW m \in Answer, SaveM3u8File(m) \/ Error(m) \/ NothingToSave(m)
  PROVE  /\ onDisk' \in Url \cup {None} /\ (UNCHANGED late \/ late' \in BOOLEAN) /\ BoundsTyped'
         /\ \E place \in Places \ {"add"} : Goto("msg", place)
<1>1. CASE SaveM3u8File(m)
  <2>1. onDisk' \in Url \cup {None} /\ (UNCHANGED late \/ late' \in BOOLEAN)
    BY <1>1 DEF SaveM3u8File, TypeOK, Answer
  <2>2. BoundsTyped'
    BY <1>1, FaultType, KeepType DEF SaveM3u8File
  <2>3. Goto("msg", Again)
    BY <1>1 DEF SaveM3u8File
  <2> QED
    BY <2>1, <2>2, <2>3, AgainPlace
<1>2. CASE Error(m)
  <2>1. onDisk' \in Url \cup {None} /\ UNCHANGED late
    BY <1>2 DEF Error, TypeOK
  <2>2. BoundsTyped'
    BY <1>2, KeepType DEF Error
  <2>3. Goto("msg", "pause") \/ Goto("msg", Again)
    BY <1>2 DEF Error
  <2> QED
    BY <2>1, <2>2, <2>3, AgainPlace, PlacesHold
<1>3. CASE NothingToSave(m)
  <2>1. onDisk' \in Url \cup {None} /\ UNCHANGED late
    BY <1>3 DEF NothingToSave, TypeOK
  <2>2. BoundsTyped'
    BY <1>3, KeepType DEF NothingToSave
  <2>3. Goto("msg", Again)
    BY <1>3 DEF NothingToSave
  <2> QED
    BY <2>1, <2>2, <2>3, AgainPlace
<1> QED
  BY <1>1, <1>2, <1>3

LEMMA HandleStep == ASSUME IInv, Handle PROVE IInv'
<1> DEFINE m == Head(msgs)
<1>1. msgs \in Seq(Answer) /\ msgs # << >>
  BY DEF IInv, TypeOK, Handle
<1>2. m \in Answer /\ Tail(msgs) \in Seq(Answer)
  BY <1>1
<1>3. SaveM3u8File(m) \/ Error(m) \/ NothingToSave(m)
  BY DEF Handle
<1> HIDE DEF m
<1>4. /\ onDisk' \in Url \cup {None} /\ (UNCHANGED late \/ late' \in BOOLEAN) /\ BoundsTyped'
      /\ \E place \in Places \ {"add"} : Goto("msg", place)
  BY <1>2, <1>3, HandledType DEF IInv
<1>5. ThreadsTyped' /\ \A u \in Threads \ {"msg"} : pc'[u] = pc[u]
  BY <1>4, GotoType, ThreadsHold DEF IInv
<1>6. msgs' = Tail(msgs) /\ UNCHANGED <<url, listUrl, pushing, running, req, bshare, done>>
  BY DEF Handle
<1>7. AgentTyped' /\ Polled'
  BY <1>2, <1>6, KeepPolled DEF IInv, TypeOK, AgentTyped
<1>8. ListTyped' /\ pushing' \in BOOLEAN /\ running' \in BOOLEAN
  BY <1>4, <1>6 DEF IInv, TypeOK, ListTyped
<1>9. pc["msg"] = "idle"
  BY DEF Handle, Free, From
<1>10. NoSwitchLost'
  BY <1>5, <1>6, <1>9, SwitchKept, ThreadsHold DEF IInv, UnderWay
<1> QED
  BY <1>4, <1>5, <1>7, <1>8, <1>10, NextTypeParts DEF IInv

LEMMA PauseStep == ASSUME IInv, Pause PROVE IInv'
<1>1. UNCHANGED <<list, pushing, bounds>>
  BY DEF Pause
<1>2. ListTyped' /\ BoundsTyped' /\ pushing' \in BOOLEAN
  BY <1>1, KeepType DEF IInv
<1>3. AgentTyped' /\ Polled' /\ running' \in BOOLEAN
  <2>1. CASE UNCHANGED agent /\ running' = FALSE
    BY <2>1, KeepType, KeepPolled DEF IInv, agent
  <2>2. CASE DelTask /\ UNCHANGED running
    BY <2>2, DelTaskType, KeepType DEF IInv
  <2> QED
    BY <2>1, <2>2 DEF Pause
<1>4. pc["msg"] \in {"pause", "del1"} /\ (Goto("msg", "del1") \/ Goto("msg", Again))
  BY DEF Pause, From
<1>5. ThreadsTyped' /\ \A u \in Threads \ {"msg"} : pc'[u] = pc[u]
  BY <1>4, GotoType, AgainPlace, PlacesHold, ThreadsHold DEF IInv
<1>6. NoSwitchLost'
  BY <1>1, <1>4, <1>5, SwitchKept, ThreadsHold DEF IInv, UnderWay, list
<1> QED
  BY <1>2, <1>3, <1>5, <1>6, NextTypeParts DEF IInv

-----------------------------------------------------------------------------
(* The agent.                                                              *)

\* Its steps leave the URLs, the push and the threads alone.
LEMMA AgentStep ==
  ASSUME IInv, UNCHANGED <<list, pushing, running, thread>>, AgentTyped', Polled', BoundsTyped'
  PROVE  IInv'
<1>1. ListTyped' /\ ThreadsTyped' /\ pushing' \in BOOLEAN /\ running' \in BOOLEAN
  BY KeepType DEF IInv
<1>2. NoSwitchLost'
  BY DEF IInv, NoSwitchLost, UnderWay, list, thread
<1> QED
  BY <1>1, <1>2, NextTypeParts DEF IInv

LEMMA CompleteStep == ASSUME IInv, Complete PROVE IInv'
<1>1. /\ req # NoReq /\ req \in Request /\ msgs \in Seq(Answer) /\ UNCHANGED <<req, msgs>>
      /\ bshare' = TRUE /\ done' = [at |-> "drop", req |-> req]
  BY DEF IInv, Complete, TypeOK
<1>2. AgentTyped'
  BY <1>1 DEF AgentTyped
<1>3. Polled'
  BY <1>1 DEF Polled
<1>4. BoundsTyped'
  BY KeepType DEF IInv, Complete
<1> QED
  BY <1>2, <1>3, <1>4, AgentStep DEF Complete

LEMMA DropStep == ASSUME IInv, Drop PROVE IInv'
<1>1. msgs' \in Seq(Answer)
  BY TerminatedType DEF IInv, Drop
<1>2. AgentTyped' /\ Polled'
  BY <1>1 DEF IInv, Drop, TypeOK, AgentTyped, Polled
<1>3. BoundsTyped'
  BY KeepType DEF IInv, Drop
<1> QED
  BY <1>2, <1>3, AgentStep DEF Drop

LEMMA PushStep == ASSUME IInv, Push PROVE IInv'
<1>1. done.req \in Request
  BY DEF IInv, Push, Polled
<1>2. AnswerTo(done.req, "complete") \in Answer
  BY <1>1, AnswerType
<1>3. msgs' \in Seq(Answer)
  BY <1>2 DEF IInv, Push, TypeOK
<1>4. AgentTyped' /\ Polled'
  BY <1>3 DEF IInv, Push, TypeOK, AgentTyped, Polled
<1>5. BoundsTyped'
  BY KeepType DEF IInv, Push
<1> QED
  BY <1>4, <1>5, AgentStep DEF Push

LEMMA FailsStep == ASSUME IInv, Fails PROVE IInv'
<1>1. req \in Request
  BY DEF IInv, Fails, TypeOK
<1>2. PICK result \in {"no data", "error"} : msgs' = Append(msgs, AnswerTo(req, result))
  BY DEF Fails
<1>3. AnswerTo(req, result) \in Answer
  BY <1>1, AnswerType
<1>4. msgs' \in Seq(Answer)
  <2>1. msgs \in Seq(Answer)
    BY DEF IInv, TypeOK
  <2>2. \A x \in Answer : Append(msgs, x) \in Seq(Answer)
    BY <2>1, Appended
  <2> QED
    BY <1>2, <1>3, <2>2
<1>5. AgentTyped' /\ Polled'
  BY <1>4 DEF IInv, Fails, TypeOK, AgentTyped, Polled
<1>6. BoundsTyped'
  BY FaultType, KeepType DEF IInv, Fails
<1> QED
  BY <1>5, <1>6, AgentStep DEF Fails

-----------------------------------------------------------------------------
(* The theorems.                                                           *)

LEMMA Inductive == ASSUME IInv, [Next]_vars PROVE IInv'
<1>1. ASSUME NEW u \in Url, SwitchUrl(u) PROVE IInv'
  BY <1>1, SwitchStep
<1>2. CASE UpdateClarityUrl \/ RunTask \/ AskFor \/ ClosePush
  BY <1>2, ClarityStep, RunTaskStep, AskForStep, ClosePushStep
<1>3. CASE Tick
  <2>1. Decide("timer") /\ pc["timer"] = "idle"
    BY <1>3 DEF Tick, Begins, Free, From
  <2> QED
    BY <2>1, DecideStep, ThreadsHold
<1>4. CASE MsgThread
  BY <1>4, HandleStep, PauseStep DEF MsgThread
<1>5. ASSUME NEW t \in Threads, Works(t) PROVE IInv'
  <2>1. CASE UpdateM3u8OrgUrl(t)
    BY <2>1, CompareStep, DelStep, SwapStep DEF UpdateM3u8OrgUrl
  <2>2. CASE Mode(t)
    BY <2>2, DecideStep DEF Mode, From
  <2>3. CASE Add(t)
    BY <2>3, AddStep
  <2> QED
    BY <1>5, <2>1, <2>2, <2>3 DEF Works, UpdateDownloadMode
<1>6. CASE Polling \/ Fails
  BY <1>6, CompleteStep, DropStep, PushStep, FailsStep DEF Polling, NotFound
<1>7. CASE UNCHANGED vars
  <2>1. UNCHANGED <<list, pushing, running, agent, thread, bounds>>
    BY <1>7 DEF vars
  <2>2. AgentTyped' /\ Polled' /\ BoundsTyped'
    BY <2>1, KeepType, KeepPolled DEF IInv, agent
  <2> QED
    BY <2>1, <2>2, AgentStep
<1> QED
  BY <1>1, <1>2, <1>3, <1>4, <1>5, <1>6, <1>7 DEF Next

\* The inductive invariant holds in every state of a switch.
THEOREM Invariance == Spec => []IInv
<1>1. Init => IInv
  BY InitOK
<1>2. IInv /\ [Next]_vars => IInv'
  BY Inductive
<1> QED
  BY <1>1, <1>2, PTL DEF Spec

\* The playlist, the request, the answers and the threads are what they are declared to be;
\* in particular an answer is under way only while there is a request (bshare).
THEOREM TypeCorrect == Spec => []TypeOK
<1>1. IInv => TypeOK
  BY DEF IInv
<1> QED
  BY <1>1, Invariance, PTL

\* CM3u8Task::UpdateClarityUrl, CM3u8Task::ClosePush: a switch of the clarity that waits
\* for the end of a push, or is under way in any thread, is never forgotten.
THEOREM SwitchNotLost == Spec => []NoSwitchLost
<1>1. IInv => NoSwitchLost
  BY DEF IInv
<1> QED
  BY <1>1, Invariance, PTL

=============================================================================
