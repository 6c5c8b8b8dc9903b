------------------------- MODULE HlsSchedule_proofs -------------------------
(***************************************************************************)
(* Proofs about HlsSchedule, for every number of pieces, every limit and   *)
(* every finite set of application threads.                                *)
(***************************************************************************)
EXTENDS HlsSchedule, FiniteSetTheorems, TLAPS

LEMMA Basics ==
  /\ Pieces \subseteq Nat /\ IsFiniteSet(Pieces) /\ None \notin Pieces /\ 0 \in Pieces
  /\ None = -1
  /\ IsFiniteSet(Threads) /\ Cardinality(Threads) \in Nat \ {0}
  /\ "tick" \in Threads /\ "msg" \in Threads /\ Api \subseteq Threads /\ "msg" \notin Api
  /\ Max \in Nat \ {0}
<1>1. Pieces \subseteq Nat /\ None \notin Pieces /\ 0 \in Pieces /\ None = -1
  BY ScheduleAssumption DEF Pieces, None
<1>2. IsFiniteSet(Pieces)
  BY ScheduleAssumption, FS_Interval DEF Pieces
<1>3. IsFiniteSet(Threads)
  <2>1. IsFiniteSet(Api \cup {"tick"})
    BY ScheduleAssumption, FS_AddElement
  <2>2. IsFiniteSet((Api \cup {"tick"}) \cup {"msg"})
    BY <2>1, FS_AddElement
  <2>3. Threads = (Api \cup {"tick"}) \cup {"msg"}
    BY DEF Threads
  <2> QED
    BY <2>2, <2>3
<1>4. Cardinality(Threads) \in Nat \ {0}
  <2>1. Threads # {}
    BY DEF Threads
  <2> QED
    BY <1>3, <2>1, FS_CardinalityType, FS_EmptySet
<1> QED
  BY <1>1, <1>2, <1>3, <1>4, ScheduleAssumption DEF Threads

-----------------------------------------------------------------------------
(* The messages without data for a set of requests.                        *)

LEMMA NoDataAnswers ==
  ASSUME NEW S \in SUBSET Request, IsFiniteSet(S), NEW m \in NoData(S)
  PROVE  /\ m \in Seq(Answer)
         /\ \A r \in S : \E k \in 1 .. Len(m) : m[k].piece = r.piece
<1> DEFINE n == Cardinality(S)
<1>1. n \in Nat
  BY FS_CardinalityType
<1>2. PICK s \in Orders(S) :
        m = [k \in DOMAIN s |-> [piece |-> s[k].piece, kind |-> "none"]]
  BY DEF NoData
<1>3. s \in [1 .. n -> S] /\ \A i, j \in 1 .. n : s[i] = s[j] => i = j
  BY <1>2 DEF Orders
<1>4. m = [k \in 1 .. n |-> [piece |-> s[k].piece, kind |-> "none"]]
  BY <1>2, <1>3
<1>5. \A k \in 1 .. n : [piece |-> s[k].piece, kind |-> "none"] \in Answer
  BY <1>3 DEF Request, Answer
<1>6. m \in Seq(Answer) /\ Len(m) = n
  BY <1>1, <1>4, <1>5
<1>7. s \in Injection(1 .. n, S)
  BY <1>3 DEF Injection, IsInjective
<1>8. s \in Surjection(1 .. n, S)
  <2>1. IsFiniteSet(1 .. n) /\ Cardinality(1 .. n) = n
    BY <1>1, FS_Interval
  <2> QED
    BY <1>7, <2>1, FS_Injection
<1>9. ASSUME NEW r \in S PROVE \E k \in 1 .. n : m[k].piece = r.piece
  <2>1. PICK k \in 1 .. n : s[k] = r
    BY <1>8 DEF Surjection
  <2> QED
    BY <1>4, <2>1
<1> QED
  BY <1>6, <1>9

-----------------------------------------------------------------------------
(* The inductive invariant.                                                *)

\* An error that is being handled keeps the message thread in the pause and
\* in the removal of the mark.
ErrorHandled == cur.kind = "error" => pc["msg"] \in Pausing \cup {"reset"}

IInv == TypeOK /\ IsFiniteSet(reqs) /\ ErrorHandled /\ MarkLimit

LEMMA MoveType ==
  ASSUME TypeOK, NEW t \in Threads, NEW place \in Places, NEW i \in Pieces \cup {None},
         Move(t, place, i)
  PROVE  /\ pc' \in [Threads -> Places] /\ ret' \in [Threads -> Pieces \cup {None}]
         /\ pc'[t] = place /\ \A u \in Threads \ {t} : pc'[u] = pc[u]
BY DEF TypeOK, Move

LEMMA GotoType ==
  ASSUME TypeOK, NEW t \in Threads, NEW place \in Places, Goto(t, place)
  PROVE  /\ pc' \in [Threads -> Places] /\ ret' \in [Threads -> Pieces \cup {None}]
         /\ pc'[t] = place /\ \A u \in Threads \ {t} : pc'[u] = pc[u]
<1>1. ret[t] \in Pieces \cup {None}
  BY DEF TypeOK
<1> QED
  BY <1>1, MoveType DEF Goto

\* Requests and messages after some requests were terminated.
LEMMA NoDataTyped ==
  ASSUME TypeOK, IsFiniteSet(reqs), NEW S \in SUBSET reqs, NEW m \in NoData(S \cap Waiting)
  PROVE  /\ m \in Seq(Answer) /\ msgs \o m \in Seq(Answer)
         /\ reqs \ S \in SUBSET Request /\ IsFiniteSet(reqs \ S)
         /\ \A r \in S \cap Waiting : \E k \in 1 .. Len(m) : m[k].piece = r.piece
<1>1. S \cap Waiting \in SUBSET Request /\ IsFiniteSet(S \cap Waiting)
  BY FS_Subset DEF TypeOK, Waiting
<1>2. IsFiniteSet(reqs \ S)
  BY FS_Subset
<1>3. /\ m \in Seq(Answer)
      /\ \A r \in S \cap Waiting : \E k \in 1 .. Len(m) : m[k].piece = r.piece
  BY <1>1, NoDataAnswers
<1>4. msgs \o m \in Seq(Answer) /\ reqs \ S \in SUBSET Request
  BY <1>3 DEF TypeOK
<1> QED
  BY <1>2, <1>3, <1>4

LEMMA FaultType == ASSUME TypeOK, Fault PROVE faults' \in 0 .. MaxFaults
BY ScheduleAssumption DEF TypeOK, Fault

\* AddM3u8TsTask.
LEMMA AddType ==
  ASSUME TypeOK, IsFiniteSet(reqs), NEW t \in Threads, NEW main \in BOOLEAN,
         NEW i \in Pieces \cup {None}, NEW old \in SUBSET reqs, NEW place \in Places,
         AddM3u8TsTask(t, main, i, old, place)
  PROVE  /\ reqs' \in SUBSET Request /\ IsFiniteSet(reqs') /\ msgs' \in Seq(Answer)
         /\ faults' \in 0 .. MaxFaults
         /\ Goto(t, place) \/ Goto(t, "idle")
<1>1. CASE AddFound(t, i, old, place)
  BY <1>1 DEF AddFound, TypeOK
<1>2. CASE AddNew(t, main, i, old, place)
  <2>1. PICK m \in NoData(old \cap Waiting) : msgs' = msgs \o m
    BY <1>2 DEF AddNew
  <2>2. NewReq(main, i) \in Request
    BY <1>2 DEF AddNew, NewReq, Request
  <2> QED
    BY <1>2, <2>1, <2>2, NoDataTyped, FS_AddElement DEF AddNew, TypeOK
<1>3. CASE AddRefused(t, i, old)
  <2>1. PICK m \in NoData(old \cap Waiting) : msgs' = msgs \o m
    BY <1>3 DEF AddRefused, Terminate
  <2>2. faults' \in 0 .. MaxFaults
    BY <1>3, FaultType DEF AddRefused, TypeOK
  <2>3. reqs \ old \in SUBSET Request /\ IsFiniteSet(reqs \ old) /\ msgs \o m \in Seq(Answer)
    BY <2>1, NoDataTyped
  <2> QED
    BY <1>3, <2>1, <2>2, <2>3 DEF AddRefused, Terminate
<1>4. CASE AddUnconnected(t, i, old)
  <2>1. PICK m \in NoData(old \cap Waiting) :
          msgs' = Append(msgs \o m, [piece |-> i, kind |-> "none"])
    BY <1>4 DEF AddUnconnected
  <2>2. [piece |-> i, kind |-> "none"] \in Answer
    BY <1>4 DEF AddUnconnected, Answer
  <2>3. reqs \ old \in SUBSET Request /\ IsFiniteSet(reqs \ old) /\ msgs \o m \in Seq(Answer)
    BY <2>1, NoDataTyped
  <2>4. msgs' \in Seq(Answer)
    BY <2>1, <2>2, <2>3
  <2>5. faults' \in 0 .. MaxFaults
    BY <1>4, FaultType DEF AddUnconnected
  <2> QED
    BY <1>4, <2>3, <2>4, <2>5 DEF AddUnconnected
<1> QED
  BY <1>1, <1>2, <1>3, <1>4 DEF AddM3u8TsTask

-----------------------------------------------------------------------------
(* Every step keeps the types.                                             *)

LEMMA InitInv == Init => IInv
<1> SUFFICES ASSUME Init PROVE IInv
  OBVIOUS
<1>1. TypeOK
  BY Basics, ScheduleAssumption
  DEF Init, TypeOK, NoAnswer, Answer, NotClosing, Closing, Places, Counted, Pausing
<1>2. IsFiniteSet(reqs) /\ ErrorHandled
  BY FS_EmptySet DEF Init, ErrorHandled, NoAnswer
<1>3. MarkLimit
  <2>1. Adding = {} /\ marked = {}
    BY DEF Init, Adding, Counted
  <2> QED
    BY <2>1, Basics, FS_EmptySet DEF MarkLimit
<1> QED
  BY <1>1, <1>2, <1>3 DEF IInv

Typed == TypeOK /\ IsFiniteSet(reqs)

LEMMA UpdateTyped ==
  ASSUME TypeOK, IsFiniteSet(reqs), NEW t \in Threads, UpdateDownloadMode(t)
  PROVE  Typed'
<1> USE DEF Typed, task
<1>0. ret[t] \in Pieces \cup {None} /\ ret[t] \in Int
  <2>1. ret[t] \in Pieces \cup {None}
    BY DEF TypeOK
  <2>2. Pieces \cup {None} \subseteq Int
    BY Basics
  <2> QED
    BY <2>1, <2>2
<1>1. CASE Enter(t)
  <2>1. "next" \in Places /\ "idle" \in Places
    BY DEF Places
  <2> QED
    BY <1>1, <2>1, GotoType DEF Enter, TypeOK
<1>2. ASSUME NEW place \in Places, NEW none \in Places, DownNextM3u8Ts(t, place, none)
      PROVE  Typed'
  <2>1. Missing \subseteq Pieces
    BY DEF Missing
  <2>2. pc' \in [Threads -> Places] /\ ret' \in [Threads -> Pieces \cup {None}]
    <3>1. CASE Move(t, none, None)
      BY <3>1, MoveType
    <3>2. CASE \E i \in Missing : Move(t, place, i)
      BY <3>2, <2>1, MoveType
    <3> QED
      BY <1>2, <3>1, <3>2 DEF DownNextM3u8Ts
  <2> QED
    BY <1>2, <2>2 DEF DownNextM3u8Ts, TypeOK
<1>3. CASE Next1(t) \/ NextSub(t)
  <2>1. "first" \in Places /\ "checkSub" \in Places /\ "idle" \in Places
    BY DEF Places, Counted
  <2> QED
    BY <1>2, <1>3, <2>1 DEF Next1, NextSub
<1>4. CASE First(t) \/ Info(t) \/ Loop(t) \/ CheckSub(t)
  <2>1. {"info", "loop", "addMain", "nextSub", "idle", "addSub"} \subseteq Places
    BY DEF Places, Counted
  <2>2. PICK place \in Places : Goto(t, place)
    BY <1>4, <2>1 DEF First, Info, Loop, CheckSub
  <2> QED
    BY <1>4, <2>2, GotoType DEF First, Info, Loop, CheckSub, TypeOK
<1>5. CASE AddMain(t) \/ AddSub(t)
  <2>1. PICK place \in {"setMain", "setSub"}, main \in BOOLEAN, old \in SUBSET reqs :
          AddM3u8TsTask(t, main, ret[t], old, place)
    BY <1>5 DEF AddMain, AddSub, OfHash, MainReqs, SubReqs
  <2>2. place \in Places /\ "idle" \in Places
    BY DEF Places, Counted
  <2>3. /\ reqs' \in SUBSET Request /\ IsFiniteSet(reqs') /\ msgs' \in Seq(Answer)
        /\ faults' \in 0 .. MaxFaults
        /\ Goto(t, place) \/ Goto(t, "idle")
    BY <1>0, <2>1, <2>2, AddType
  <2>4. pc' \in [Threads -> Places] /\ ret' \in [Threads -> Pieces \cup {None}]
    BY <2>2, <2>3, GotoType
  <2> QED
    BY <1>5, <2>3, <2>4 DEF AddMain, AddSub, TypeOK
<1>6. CASE SetIndex(t)
  <2>1. "loop" \in Places
    BY DEF Places
  <2>2. marked' \in SUBSET (Pieces \ {0})
    BY <1>0, <1>6, Basics DEF SetIndex, Marked, TypeOK
  <2> QED
    BY <1>6, <2>1, <2>2, GotoType DEF SetIndex, TypeOK
<1> QED
  BY <1>1, <1>3, <1>4, <1>5, <1>6 DEF UpdateDownloadMode

LEMMA StatusTyped ==
  ASSUME TypeOK, IsFiniteSet(reqs), NEW t \in Threads,
         Pause(t) \/ (t \in Api /\ (Start(t) \/ PauseTask(t)))
  PROVE  Typed'
<1> USE DEF Typed, task
<1>0. {"enter", "clear", "delMain", "delSubs", "idle", "reset", "again"} \subseteq Places
  BY DEF Places, Pausing
<1>1. PICK place \in Places : Goto(t, place)
  BY <1>0 DEF Pause, Clear, DelMain, DelSubs, Start, PauseTask
<1>2. pc' \in [Threads -> Places] /\ ret' \in [Threads -> Pieces \cup {None}]
  BY <1>1, GotoType
<1>3. CASE Start(t)
  BY <1>2, <1>3 DEF Start, TypeOK
<1>4. CASE PauseTask(t)
  BY <1>2, <1>4, ScheduleAssumption DEF PauseTask, TypeOK
<1>5. CASE Clear(t)
  BY <1>2, <1>5 DEF Clear, TypeOK
<1>6. CASE DelMain(t) \/ DelSubs(t)
  <2>1. PICK S \in SUBSET reqs : Terminate(S)
    BY <1>6 DEF DelMain, DelSubs, MainReqs, SubReqs
  <2>2. PICK m \in NoData(S \cap Waiting) : msgs' = msgs \o m
    BY <2>1 DEF Terminate
  <2>3. msgs' \in Seq(Answer) /\ reqs' \in SUBSET Request /\ IsFiniteSet(reqs')
    BY <2>1, <2>2, NoDataTyped DEF Terminate
  <2> QED
    BY <1>2, <1>6, <2>3 DEF DelMain, DelSubs, TypeOK
<1> QED
  BY <1>3, <1>4, <1>5, <1>6 DEF Pause

LEMMA MsgTyped ==
  ASSUME TypeOK, IsFiniteSet(reqs), Tick \/ MsgThread
  PROVE  Typed'
<1> USE DEF Typed, task
<1>0. {"next", "clear", "write", "again", "idle"} \subseteq Places
  BY DEF Places, Pausing
<1>1. ASSUME NEW t \in Threads, NEW place \in {"next", "clear", "write", "again", "idle"},
             Goto(t, place)
      PROVE  pc' \in [Threads -> Places] /\ ret' \in [Threads -> Pieces \cup {None}]
  BY <1>0, <1>1, GotoType
<1>2. "tick" \in Threads /\ "msg" \in Threads
  BY Basics
<1>3. NoAnswer \in Answer
  BY Basics DEF NoAnswer, Answer
<1>4. cur.piece \in Pieces
  BY DEF TypeOK, Answer
<1>5. CASE Tick
  BY <1>1, <1>2, <1>5 DEF Tick, TypeOK
<1>6. CASE Handle
  <2>1. Head(msgs) \in Answer /\ Tail(msgs) \in Seq(Answer)
    BY <1>6 DEF Handle, TypeOK
  <2>2. cur' \in Answer /\ msgs' \in Seq(Answer)
    BY <1>6, <2>1 DEF Handle
  <2>3. cur'.kind \in {"data", "none", "error"}
    BY <2>2 DEF Answer
  <2>4. /\ \E place \in {"clear", "write", "again"} : Goto("msg", place)
        /\ marked' = marked \/ marked' = Unmarked(cur'.piece)
        /\ status' = status \/ status' = "pause"
    BY <1>6, <2>3 DEF Handle
  <2> QED
    BY <1>1, <1>2, <1>6, <2>2, <2>4 DEF Handle, Unmarked, TypeOK
<1>7. CASE Write
  BY <1>1, <1>2, <1>4, <1>7 DEF Write, TypeOK
<1>8. CASE WriteFails
  BY <1>1, <1>2, <1>8, FaultType DEF WriteFails, TypeOK
<1>9. CASE Reset
  BY <1>1, <1>2, <1>3, <1>9 DEF Reset, Unmarked, TypeOK
<1>10. CASE Again
  BY <1>1, <1>2, <1>3, <1>10 DEF Again, TypeOK
<1> QED
  BY <1>5, <1>6, <1>7, <1>8, <1>9, <1>10 DEF MsgThread

\* The steps of the agent's thread.
AgentStep == \/ Drop \/ Push
             \/ \E r \in reqs : Complete(r) \/ \E k \in {"none", "error"} : Fails(r, k)

LEMMA AgentTyped ==
  ASSUME TypeOK, IsFiniteSet(reqs), AgentStep
  PROVE  Typed'
<1> USE DEF Typed, task
<1>1. CASE Drop
  <2>1. OfHash(out.main, out.piece) \in SUBSET reqs
    BY DEF OfHash, MainReqs, SubReqs
  <2>2. PICK m \in NoData(OfHash(out.main, out.piece) \cap Waiting) : msgs' = msgs \o m
    BY <1>1 DEF Drop, Terminate
  <2>3. msgs' \in Seq(Answer) /\ reqs' \in SUBSET Request /\ IsFiniteSet(reqs')
    BY <1>1, <2>1, <2>2, NoDataTyped DEF Drop, Terminate
  <2>4. out' \in Closing
    BY <1>1 DEF Drop, TypeOK, Closing
  <2> QED
    BY <1>1, <2>3, <2>4 DEF Drop, TypeOK
<1>2. CASE Push
  <2>1. [piece |-> out.piece, kind |-> "data"] \in Answer /\ NotClosing \in Closing
    BY Basics DEF TypeOK, Closing, NotClosing, Answer
  <2> QED
    BY <1>2, <2>1 DEF Push, TypeOK
<1>3. ASSUME NEW r \in reqs, Complete(r) PROVE Typed'
  <2>1. /\ [r EXCEPT !.told = TRUE] \in Request
        /\ [at |-> "drop", main |-> r.main, piece |-> r.piece] \in Closing
    BY DEF TypeOK, Request, Closing
  <2>2. reqs' \in SUBSET Request /\ IsFiniteSet(reqs')
    BY <1>3, <2>1, FS_RemoveElement, FS_AddElement DEF Complete, TypeOK
  <2> QED
    BY <1>3, <2>1, <2>2 DEF Complete, TypeOK
<1>4. ASSUME NEW r \in reqs, NEW k \in {"none", "error"}, Fails(r, k) PROVE Typed'
  <2>1. [piece |-> r.piece, kind |-> k] \in Answer
    BY DEF TypeOK, Request, Answer
  <2>2. reqs' \in SUBSET Request /\ IsFiniteSet(reqs')
    BY <1>4, FS_RemoveElement DEF Fails, TypeOK
  <2>3. faults' \in 0 .. MaxFaults /\ msgs' \in Seq(Answer)
    BY <1>4, <2>1, FaultType DEF Fails, TypeOK
  <2> QED
    BY <1>4, <2>2, <2>3 DEF Fails, TypeOK
<1> QED
  BY <1>1, <1>2, <1>3, <1>4 DEF AgentStep

LEMMA StepTyped ==
  ASSUME TypeOK, IsFiniteSet(reqs), [Next]_vars
  PROVE  TypeOK' /\ IsFiniteSet(reqs')
<1>1. CASE UNCHANGED vars
  BY <1>1 DEF vars, task, TypeOK
<1>2. CASE Next
  BY <1>2, Basics, UpdateTyped, StatusTyped, MsgTyped, AgentTyped DEF Next, AgentStep, Typed
<1> QED
  BY <1>1, <1>2

-----------------------------------------------------------------------------
(* Where threads go, and what becomes of the error in work.                *)

\* A step of thread t moves no other thread.
Moves(t) == /\ pc[t] \in Places /\ pc'[t] \in Places
            /\ \A u \in Threads \ {t} : pc'[u] = pc[u]

LEMMA GotoMoves ==
  ASSUME TypeOK, TypeOK', NEW t \in Threads, NEW place, NEW i, Move(t, place, i)
  PROVE  Moves(t) /\ pc'[t] = place
BY DEF TypeOK, Move, Moves

\* What a step of UpdateDownloadMode, of Start or PauseTask, or of Pause does
\* to the marks and to the place of its thread.
LEMMA UpdateEffect ==
  ASSUME TypeOK, TypeOK', NEW t \in Threads, UpdateDownloadMode(t)
  PROVE  /\ Moves(t) /\ pc[t] \notin Pausing \cup {"reset"} /\ cur' = cur
         /\ \/ marked' \subseteq marked /\ (pc'[t] \in Counted => pc[t] \in Counted)
            \/ marked' = marked /\ Cardinality(marked) < Max
            \/ /\ SetIndex(t) /\ pc[t] \in Counted /\ pc'[t] \notin Counted
<1> USE DEF Goto, task
<1> DEFINE Effect == \/ marked' \subseteq marked /\ (pc'[t] \in Counted => pc[t] \in Counted)
                     \/ marked' = marked /\ Cardinality(marked) < Max
                     \/ SetIndex(t) /\ pc[t] \in Counted /\ pc'[t] \notin Counted
           Kept == pc[t] \notin Pausing \cup {"reset"} /\ cur' = cur
<1>1. CASE Enter(t)
  BY <1>1, GotoMoves DEF Enter, From, Counted, Pausing
<1>2. CASE Next1(t)
  BY <1>2, GotoMoves DEF Next1, DownNextM3u8Ts, From, Counted, Pausing
<1>3. CASE First(t)
  BY <1>3, GotoMoves DEF First, From, Counted, Pausing
<1>4. CASE Info(t)
  BY <1>4, GotoMoves DEF Info, From, Counted, Pausing
<1>5. CASE AddMain(t)
  BY <1>5, GotoMoves
  DEF AddMain, AddM3u8TsTask, AddFound, AddNew, AddRefused, AddUnconnected, From, Counted, Pausing
<1>6. CASE SetIndex(t)
  BY <1>6, GotoMoves DEF SetIndex, Counted, Pausing
<1>7. CASE Loop(t)
  BY <1>7, GotoMoves DEF Loop, From, Counted, Pausing
<1>8. CASE NextSub(t)
  BY <1>8, GotoMoves DEF NextSub, DownNextM3u8Ts, From, Counted, Pausing
<1>9. CASE CheckSub(t)
  BY <1>9, GotoMoves DEF CheckSub, From, Counted, Pausing
<1>10. CASE AddSub(t)
  BY <1>10, GotoMoves
  DEF AddSub, AddM3u8TsTask, AddFound, AddNew, AddRefused, AddUnconnected, From, Counted, Pausing
<1> QED
  BY <1>1, <1>2, <1>3, <1>4, <1>5, <1>6, <1>7, <1>8, <1>9, <1>10 DEF UpdateDownloadMode

LEMMA StatusEffect ==
  ASSUME TypeOK, TypeOK', NEW t \in Threads,
         Pause(t) \/ (t \in Api /\ (Start(t) \/ PauseTask(t)))
  PROVE  /\ Moves(t) /\ cur' = cur /\ marked' \subseteq marked /\ pc'[t] \notin Counted
         /\ t = "msg" => ErrorHandled'
<1> USE DEF Goto, task
<1>1. CASE t \in Api /\ (Start(t) \/ PauseTask(t))
  BY <1>1, GotoMoves, Basics DEF Start, PauseTask, From, Counted
<1>2. CASE Clear(t)
  BY <1>2, GotoMoves DEF Clear, From, Counted, Pausing, ErrorHandled
<1>3. CASE DelMain(t)
  BY <1>3, GotoMoves DEF DelMain, From, Counted, Pausing, ErrorHandled
<1>4. CASE DelSubs(t)
  BY <1>4, GotoMoves DEF DelSubs, From, Counted, Pausing, ErrorHandled
<1> QED
  BY <1>1, <1>2, <1>3, <1>4 DEF Pause

LEMMA MsgEffect ==
  ASSUME TypeOK, TypeOK', ErrorHandled, MsgThread
  PROVE  /\ Moves("msg") /\ marked' \subseteq marked /\ pc'["msg"] \notin Counted
         /\ ErrorHandled'
<1> USE DEF Goto, task
<1>0. "msg" \in Threads
  BY Basics
<1>1. CASE Handle
  <2>1. PICK place \in {"clear", "write", "again"} :
          /\ Goto("msg", place) /\ (cur'.kind = "error" => place = "clear")
          /\ marked' = marked \/ marked' = Unmarked(cur'.piece)
    BY <1>1 DEF Handle
  <2>2. Moves("msg") /\ pc'["msg"] = place
    BY <1>0, <2>1, GotoMoves
  <2> QED
    BY <2>1, <2>2 DEF Unmarked, Counted, Pausing, ErrorHandled
<1>2. CASE Write
  BY <1>0, <1>2, GotoMoves DEF Write, From, Counted, Pausing, ErrorHandled
<1>3. CASE WriteFails
  BY <1>0, <1>3, GotoMoves DEF WriteFails, From, Counted, Pausing, ErrorHandled
<1>4. CASE Reset
  BY <1>0, <1>4, GotoMoves DEF Reset, From, Counted, ErrorHandled, NoAnswer, Unmarked
<1>5. CASE Again
  BY <1>0, <1>5, GotoMoves DEF Again, From, Counted, ErrorHandled, NoAnswer
<1> QED
  BY <1>1, <1>2, <1>3, <1>4, <1>5 DEF MsgThread

-----------------------------------------------------------------------------
(* The limit: a thread that passes it saw fewer marks than Max, and every   *)
(* other thread can add one mark before it looks again.                     *)

LEMMA AddingFinite ==
  ASSUME TypeOK
  PROVE  /\ IsFiniteSet(marked) /\ Cardinality(marked) \in Nat
         /\ Adding \subseteq Threads /\ IsFiniteSet(Adding)
         /\ Cardinality(Adding) \in Nat /\ Cardinality(Adding) <= Cardinality(Threads)
<1>1. marked \subseteq Pieces /\ Adding \subseteq Threads
  BY DEF TypeOK, Adding
<1> QED
  BY <1>1, Basics, FS_Subset, FS_CardinalityType

LEMMA LimitKept ==
  ASSUME TypeOK, TypeOK', MarkLimit, marked' \subseteq marked, Adding' \subseteq Adding
  PROVE  MarkLimit'
<1>1. /\ Cardinality(marked') \in Nat /\ Cardinality(marked) \in Nat
      /\ Cardinality(Adding') \in Nat /\ Cardinality(Adding) \in Nat
      /\ IsFiniteSet(marked) /\ IsFiniteSet(Adding)
  <2>1. IsFiniteSet(marked) /\ IsFiniteSet(Adding)
    BY AddingFinite
  <2>2. IsFiniteSet(marked') /\ IsFiniteSet(Adding')
    BY <2>1, FS_Subset
  <2> QED
    BY <2>1, <2>2, FS_CardinalityType
<1>2. Cardinality(marked') <= Cardinality(marked) /\ Cardinality(Adding') <= Cardinality(Adding)
  BY <1>1, FS_Subset
<1>3. Cardinality(Threads) \in Nat /\ Max \in Nat
  BY Basics
<1> QED
  BY <1>1, <1>2, <1>3 DEF MarkLimit

LEMMA LimitPassed ==
  ASSUME TypeOK, TypeOK', marked' = marked, Cardinality(marked) < Max
  PROVE  MarkLimit'
<1>1. Adding' \subseteq Threads
  BY DEF Adding
<1>2. Cardinality(Adding') \in Nat /\ Cardinality(Adding') <= Cardinality(Threads)
  BY <1>1, Basics, FS_Subset, FS_CardinalityType
<1>3. Cardinality(marked) \in Nat /\ Cardinality(Threads) \in Nat /\ Max \in Nat
  BY AddingFinite, Basics
<1> QED
  BY <1>2, <1>3 DEF MarkLimit

LEMMA LimitUsed ==
  ASSUME TypeOK, TypeOK', MarkLimit, NEW t \in Threads, Moves(t), SetIndex(t),
         pc[t] \in Counted, pc'[t] \notin Counted
  PROVE  MarkLimit'
<1>1. t \in Adding /\ Adding' = Adding \ {t}
  BY DEF Adding, Moves
<1>2. Cardinality(Adding') = Cardinality(Adding) - 1
  BY <1>1, AddingFinite, FS_RemoveElement
<1>3. Cardinality(marked') <= Cardinality(marked) + 1 /\ Cardinality(marked') \in Nat
  <2>1. marked' = marked \/ marked' = marked \cup {ret[t]}
    BY DEF SetIndex, Marked
  <2>2. IsFiniteSet(marked) /\ Cardinality(marked) \in Nat
    BY AddingFinite
  <2>3. Cardinality(marked \cup {ret[t]}) \in {Cardinality(marked), Cardinality(marked) + 1}
    BY <2>2, FS_AddElement
  <2> QED
    BY <2>1, <2>2, <2>3
<1>4. /\ Cardinality(marked) \in Nat /\ Cardinality(Adding) \in Nat
      /\ Cardinality(Threads) \in Nat /\ Max \in Nat
  BY AddingFinite, Basics
<1> QED
  BY <1>2, <1>3, <1>4 DEF MarkLimit

LEMMA UpdateInv ==
  ASSUME IInv, TypeOK', NEW t \in Threads, UpdateDownloadMode(t)
  PROVE  ErrorHandled' /\ MarkLimit'
<1> USE DEF IInv
<1>1. /\ Moves(t) /\ pc[t] \notin Pausing \cup {"reset"} /\ cur' = cur
      /\ \/ marked' \subseteq marked /\ (pc'[t] \in Counted => pc[t] \in Counted)
         \/ marked' = marked /\ Cardinality(marked) < Max
         \/ /\ SetIndex(t) /\ pc[t] \in Counted /\ pc'[t] \notin Counted
  BY UpdateEffect
<1>2. ErrorHandled'
  BY <1>1, Basics DEF ErrorHandled, Moves
<1>3. MarkLimit'
  <2>1. CASE marked' \subseteq marked /\ (pc'[t] \in Counted => pc[t] \in Counted)
    <3>1. Adding' \subseteq Adding
      BY <1>1, <2>1 DEF Adding, Moves
    <3> QED
      BY <2>1, <3>1, LimitKept
  <2> QED
    BY <1>1, <2>1, LimitPassed, LimitUsed
<1> QED
  BY <1>2, <1>3

LEMMA StatusInv ==
  ASSUME IInv, TypeOK', NEW t \in Threads,
         Pause(t) \/ (t \in Api /\ (Start(t) \/ PauseTask(t)))
  PROVE  ErrorHandled' /\ MarkLimit'
<1> USE DEF IInv
<1>1. /\ Moves(t) /\ cur' = cur /\ marked' \subseteq marked /\ pc'[t] \notin Counted
      /\ t = "msg" => ErrorHandled'
  BY StatusEffect
<1>2. ErrorHandled'
  BY <1>1, Basics DEF ErrorHandled, Moves
<1>3. Adding' \subseteq Adding
  BY <1>1 DEF Adding, Moves
<1> QED
  BY <1>1, <1>2, <1>3, LimitKept

LEMMA OtherInv ==
  ASSUME IInv, TypeOK',
         MsgThread \/ Tick \/ AgentStep
  PROVE  ErrorHandled' /\ MarkLimit'
<1> USE DEF IInv
<1>1. CASE MsgThread
  <2>1. Moves("msg") /\ marked' \subseteq marked /\ pc'["msg"] \notin Counted /\ ErrorHandled'
    BY <1>1, MsgEffect
  <2>2. Adding' \subseteq Adding
    BY <2>1 DEF Adding, Moves
  <2> QED
    BY <2>1, <2>2, LimitKept
<1>2. CASE Tick
  <2>1. Moves("tick") /\ pc'["tick"] = "next"
    BY <1>2, Basics, GotoMoves DEF Tick, Goto
  <2>2. ErrorHandled'
    BY <1>2, <2>1, Basics DEF Tick, ErrorHandled, Moves
  <2>3. Adding' \subseteq Adding
    BY <2>1 DEF Adding, Moves, Counted
  <2> QED
    BY <1>2, <2>2, <2>3, LimitKept DEF Tick
<1>3. CASE AgentStep
  <2>1. UNCHANGED <<marked, cur, pc>>
    BY <1>3 DEF AgentStep, Drop, Push, Complete, Fails
  <2> QED
    BY <2>1, LimitKept DEF ErrorHandled, Adding
<1> QED
  BY <1>1, <1>2, <1>3

LEMMA StepInv == IInv /\ [Next]_vars => IInv'
<1> SUFFICES ASSUME IInv, [Next]_vars PROVE IInv'
  OBVIOUS
<1>1. TypeOK' /\ IsFiniteSet(reqs')
  BY StepTyped DEF IInv
<1>2. CASE UNCHANGED vars
  BY <1>1, <1>2, LimitKept DEF vars, task, IInv, ErrorHandled, Adding
<1>3. CASE Next
  <2>1. ErrorHandled' /\ MarkLimit'
    BY <1>1, <1>3, Basics, UpdateInv, StatusInv, OtherInv DEF Next, AgentStep
  <2> QED
    BY <1>1, <2>1 DEF IInv
<1> QED
  BY <1>2, <1>3

\* The threads, the requests and the answers keep their types, whatever is
\* asked, refused, lost, paused or started in whatever order.
THEOREM TypeCorrect == Spec => []TypeOK
<1>1. Spec => []IInv
  BY InitInv, StepInv, PTL DEF Spec
<1>2. IInv => TypeOK
  BY DEF IInv
<1> QED
  BY <1>1, <1>2, PTL

\* However the timer, the message thread and the application threads
\* interleave, the marks exceed m_uConcurrentNum by no more than the threads
\* that run UpdateDownloadMode at once, but for one.
THEOREM MarkLimitAlways == Spec => []MarkLimit
<1>1. Spec => []IInv
  BY InitInv, StepInv, PTL DEF Spec
<1>2. IInv => MarkLimit
  BY DEF IInv
<1> QED
  BY <1>1, <1>2, PTL

-----------------------------------------------------------------------------
(* Who waits for a piece goes on waiting until its mark is dropped.         *)

\* Requests of S end without data; msgs grows by their messages, perhaps by
\* one more.
LEMMA TerminatedAnswers ==
  ASSUME TypeOK, IsFiniteSet(reqs), NEW S \in SUBSET reqs, NEW m \in NoData(S \cap Waiting),
         reqs \ S \subseteq reqs', cur' = cur, NEW x \in Answer,
         out.at # "idle" => out'.at # "idle" /\ out'.piece = out.piece,
         msgs' = msgs \o m \/ msgs' = Append(msgs \o m, x),
         NEW i, Expected(i)
  PROVE  Expected(i)'
<1>1. /\ m \in Seq(Answer) /\ msgs \o m \in Seq(Answer)
      /\ \A r \in S \cap Waiting : \E k \in 1 .. Len(m) : m[k].piece = r.piece
  BY NoDataTyped
<1>2. msgs \in Seq(Answer)
  BY DEF TypeOK
<1>3. /\ \A k \in 1 .. Len(msgs) : k \in DOMAIN msgs' /\ msgs'[k] = msgs[k]
      /\ \A k \in 1 .. Len(m) :
           Len(msgs) + k \in DOMAIN msgs' /\ msgs'[Len(msgs) + k] = m[k]
  <2>1. CASE msgs' = msgs \o m
    BY <1>1, <1>2, <2>1
  <2>2. CASE msgs' = Append(msgs \o m, x)
    BY <1>1, <1>2, <2>2
  <2> QED
    BY <2>1, <2>2
<1>4. CASE \E r \in Waiting : r.piece = i
  <2>1. PICK r \in Waiting : r.piece = i
    BY <1>4
  <2>2. CASE r \in S
    <3>1. PICK k \in 1 .. Len(m) : m[k].piece = i
      BY <1>1, <2>1, <2>2
    <3> QED
      BY <1>3, <3>1 DEF Expected
  <2>3. CASE r \notin S
    BY <2>1, <2>3 DEF Expected, Waiting
  <2> QED
    BY <2>2, <2>3
<1>5. CASE \E k \in DOMAIN msgs : msgs[k].piece = i
  BY <1>2, <1>3, <1>5 DEF Expected
<1>6. CASE (cur.kind = "error" /\ cur.piece = i) \/ (out.at # "idle" /\ out.piece = i)
  BY <1>6 DEF Expected
<1> QED
  BY <1>4, <1>5, <1>6 DEF Expected

LEMMA AddAnswers ==
  ASSUME TypeOK, IsFiniteSet(reqs), NEW t, NEW main, NEW j \in Pieces \cup {None},
         NEW old \in SUBSET reqs, NEW place, AddM3u8TsTask(t, main, j, old, place),
         UNCHANGED <<out, cur>>, NEW i, Expected(i)
  PROVE  Expected(i)'
<1>1. CASE AddFound(t, j, old, place)
  BY <1>1 DEF AddFound, Expected, Waiting
<1>2. CASE AddNew(t, main, j, old, place)
  <2>1. PICK m \in NoData(old \cap Waiting) : msgs' = msgs \o m
    BY <1>2 DEF AddNew
  <2> QED
    BY <1>2, <2>1, TerminatedAnswers, Basics DEF AddNew, TypeOK
<1>3. CASE AddRefused(t, j, old)
  <2>1. PICK m \in NoData(old \cap Waiting) : msgs' = msgs \o m
    BY <1>3 DEF AddRefused, Terminate
  <2> QED
    BY <1>3, <2>1, TerminatedAnswers DEF AddRefused, Terminate, TypeOK
<1>4. CASE AddUnconnected(t, j, old)
  <2>1. PICK m \in NoData(old \cap Waiting) :
          msgs' = Append(msgs \o m, [piece |-> j, kind |-> "none"])
    BY <1>4 DEF AddUnconnected
  <2>2. [piece |-> j, kind |-> "none"] \in Answer
    BY <1>4 DEF AddUnconnected, Answer
  <2> QED
    BY <1>4, <2>1, <2>2, TerminatedAnswers DEF AddUnconnected
<1> QED
  BY <1>1, <1>2, <1>3, <1>4 DEF AddM3u8TsTask

LEMMA UpdateAnswers ==
  ASSUME TypeOK, IsFiniteSet(reqs), NEW t \in Threads, UpdateDownloadMode(t) \/ Pause(t),
         NEW i, Expected(i)
  PROVE  Expected(i)'
<1> USE DEF task
<1>1. CASE AddMain(t) \/ AddSub(t)
  <2>1. ret[t] \in Pieces \cup {None}
    BY DEF TypeOK
  <2>2. \A main \in BOOLEAN : OfHash(main, ret[t]) \in SUBSET reqs
    BY DEF OfHash, MainReqs, SubReqs
  <2> QED
    BY <1>1, <2>1, <2>2, AddAnswers DEF AddMain, AddSub
<1>2. CASE DelMain(t) \/ DelSubs(t)
  <2>1. PICK S \in SUBSET reqs : Terminate(S)
    BY <1>2 DEF DelMain, DelSubs, MainReqs, SubReqs
  <2>2. PICK m \in NoData(S \cap Waiting) : msgs' = msgs \o m
    BY <2>1 DEF Terminate
  <2>3. reqs \ S \subseteq reqs' /\ UNCHANGED <<out, cur>> /\ cur \in Answer
    BY <1>2, <2>1 DEF Terminate, DelMain, DelSubs, TypeOK
  <2> QED
    BY <2>2, <2>3, TerminatedAnswers
<1>3. CASE \/ Enter(t) \/ Next1(t) \/ First(t) \/ Info(t) \/ SetIndex(t) \/ Loop(t)
           \/ NextSub(t) \/ CheckSub(t) \/ Clear(t)
  <2>1. UNCHANGED <<reqs, out, msgs, cur>>
    BY <1>3 DEF Enter, Next1, First, Info, SetIndex, Loop, NextSub, CheckSub, Clear,
                DownNextM3u8Ts
  <2> QED
    BY <2>1 DEF Expected, Waiting
<1> QED
  BY <1>1, <1>2, <1>3 DEF UpdateDownloadMode, Pause

LEMMA MsgAnswers ==
  ASSUME TypeOK, ErrorHandled, MsgThread, NEW i \in marked', Expected(i)
  PROVE  Expected(i)'
<1>1. CASE Handle
  <2>1. cur.kind # "error"
    BY <1>1 DEF Handle, From, ErrorHandled, Pausing
  <2>2. /\ msgs \in Seq(Answer) /\ msgs # << >> /\ msgs' = Tail(msgs) /\ cur' = Head(msgs)
        /\ UNCHANGED <<reqs, out>>
    BY <1>1 DEF Handle, TypeOK
  <2>3. CASE \E k \in DOMAIN msgs : msgs[k].piece = i
    <3>1. PICK k \in 1 .. Len(msgs) : msgs[k].piece = i
      BY <2>2, <2>3
    <3>2. CASE k = 1
      <4>1. cur'.piece = i
        BY <2>2, <3>1, <3>2
      <4>2. cur'.kind = "error"
        BY <1>1, <4>1 DEF Handle, Unmarked
      <4> QED
        BY <4>1, <4>2 DEF Expected
    <3>3. CASE k # 1
      <4>1. k - 1 \in DOMAIN msgs' /\ msgs'[k - 1] = msgs[k]
        BY <2>2, <3>1, <3>3
      <4> QED
        BY <3>1, <4>1 DEF Expected
    <3> QED
      BY <3>2, <3>3
  <2> QED
    BY <2>1, <2>2, <2>3 DEF Expected, Waiting
<1>2. CASE Write \/ WriteFails
  BY <1>2 DEF Write, WriteFails, Expected, Waiting
<1>3. CASE Reset
  BY <1>3 DEF Reset, Unmarked, Expected, Waiting
<1>4. CASE Again
  <2>1. cur.kind # "error"
    BY <1>4 DEF Again, From, ErrorHandled, Pausing
  <2> QED
    BY <1>4, <2>1 DEF Again, Expected, Waiting
<1> QED
  BY <1>1, <1>2, <1>3, <1>4 DEF MsgThread

LEMMA AgentAnswers ==
  ASSUME TypeOK, IsFiniteSet(reqs), AgentStep, NEW i, Expected(i)
  PROVE  Expected(i)'
<1>1. CASE Drop
  <2>1. OfHash(out.main, out.piece) \in SUBSET reqs /\ cur \in Answer
    BY DEF OfHash, MainReqs, SubReqs, TypeOK
  <2>2. PICK m \in NoData(OfHash(out.main, out.piece) \cap Waiting) : msgs' = msgs \o m
    BY <1>1 DEF Drop, Terminate
  <2>3. out'.at # "idle" /\ out'.piece = out.piece /\ cur' = cur
    BY <1>1 DEF Drop, TypeOK, Closing
  <2>4. reqs \ OfHash(out.main, out.piece) \subseteq reqs'
    BY <1>1 DEF Drop, Terminate
  <2> QED
    BY <2>1, <2>2, <2>3, <2>4, TerminatedAnswers
<1>2. ASSUME NEW x \in Answer, msgs' = Append(msgs, x)
      PROVE  /\ \A n \in DOMAIN msgs : n \in DOMAIN msgs' /\ msgs'[n] = msgs[n]
             /\ Len(msgs) + 1 \in DOMAIN msgs' /\ msgs'[Len(msgs) + 1] = x
  <2>1. msgs \in Seq(Answer)
    BY DEF TypeOK
  <2> QED
    BY <1>2, <2>1
<1>3. CASE Push
  <2>1. [piece |-> out.piece, kind |-> "data"] \in Answer
    BY DEF TypeOK, Closing, Answer
  <2>2. /\ \A n \in DOMAIN msgs : n \in DOMAIN msgs' /\ msgs'[n] = msgs[n]
        /\ Len(msgs) + 1 \in DOMAIN msgs' /\ msgs'[Len(msgs) + 1].piece = out.piece
    BY <1>2, <1>3, <2>1 DEF Push
  <2> QED
    BY <1>3, <2>2 DEF Push, Expected, Waiting
<1>4. ASSUME NEW r \in reqs, Complete(r) PROVE Expected(i)'
  <2>1. out' = [at |-> "drop", main |-> r.main, piece |-> r.piece] /\ out.at = "idle"
    BY <1>4 DEF Complete
  <2>2. Waiting \ {r} \subseteq Waiting' /\ UNCHANGED <<msgs, cur>>
    BY <1>4 DEF Complete, Waiting
  <2> QED
    BY <2>1, <2>2 DEF Expected
<1>5. ASSUME NEW r \in reqs, NEW k \in {"none", "error"}, Fails(r, k) PROVE Expected(i)'
  <2>1. [piece |-> r.piece, kind |-> k] \in Answer
    BY DEF TypeOK, Request, Answer
  <2>2. /\ \A n \in DOMAIN msgs : n \in DOMAIN msgs' /\ msgs'[n] = msgs[n]
        /\ Len(msgs) + 1 \in DOMAIN msgs' /\ msgs'[Len(msgs) + 1].piece = r.piece
    BY <1>2, <1>5, <2>1 DEF Fails
  <2>3. Waiting \ {r} \subseteq Waiting' /\ UNCHANGED <<out, cur>>
    BY <1>5 DEF Fails, Waiting
  <2> QED
    BY <2>2, <2>3 DEF Expected
<1> QED
  BY <1>1, <1>3, <1>4, <1>5 DEF AgentStep

LEMMA StaleStep ==
  ASSUME IInv, TypeOK', [Next]_vars, NEW i \in Stale' \ Stale
  PROVE  \E t \in Threads : pc[t] \in {"setMain", "setSub"} /\ ret[t] = i /\ pc'[t] = "loop"
<1> USE DEF IInv, task
<1>1. i \in marked' /\ ~ Expected(i)'
  BY DEF Stale
<1>2. CASE i \in marked
  <2>1. Expected(i)
    BY <1>2 DEF Stale
  <2>2. ~ UNCHANGED vars
    BY <1>1, <2>1 DEF vars, Expected, Waiting
  <2>3. Next
    BY <2>2
  <2>4. CASE \E t \in Threads : UpdateDownloadMode(t) \/ Pause(t)
    BY <1>1, <2>1, <2>4, UpdateAnswers
  <2>5. CASE MsgThread
    BY <1>1, <2>1, <2>5, MsgAnswers
  <2>6. CASE AgentStep
    BY <1>1, <2>1, <2>6, AgentAnswers
  <2>7. CASE Tick \/ \E t \in Api : Start(t) \/ PauseTask(t)
    BY <1>1, <2>1, <2>7 DEF Tick, Start, PauseTask, Expected, Waiting
  <2> QED
    BY <2>3, <2>4, <2>5, <2>6, <2>7 DEF Next, AgentStep
<1>3. CASE i \notin marked
  <2>1. PICK t \in Threads : UpdateDownloadMode(t) /\ ~ (marked' \subseteq marked)
    <3>1. ~ (marked' \subseteq marked)
      BY <1>1, <1>3
    <3>2. CASE MsgThread
      BY <3>1, <3>2, MsgEffect
    <3>3. CASE \E t \in Threads :
                 Pause(t) \/ (t \in Api /\ (Start(t) \/ PauseTask(t)))
      BY <3>1, <3>3, StatusEffect
    <3>4. CASE UNCHANGED vars \/ Tick \/ AgentStep
      BY <3>1, <3>4 DEF vars, Tick, AgentStep, Drop, Push, Complete, Fails
    <3> QED
      BY <3>1, <3>2, <3>3, <3>4, Basics DEF Next, AgentStep
  <2>2. SetIndex(t)
    BY <2>1, UpdateEffect
  <2>3. pc'[t] = "loop"
    BY <2>2, GotoMoves DEF SetIndex, Goto
  <2> QED
    BY <1>1, <1>3, <2>2, <2>3 DEF SetIndex, Marked
<1> QED
  BY <1>2, <1>3

\* However a request ends, its mark is dropped with its answer; only a thread
\* that sets a mark after the answer was handled leaves one that stays.
THEOREM AnswersClearMarksAlways == Spec => AnswersClearMarks
<1>1. IInv /\ IInv' /\ [Next]_vars =>
        [\A i \in Stale' \ Stale :
           \E t \in Threads :
             pc[t] \in {"setMain", "setSub"} /\ ret[t] = i /\ pc'[t] = "loop"]_vars
  BY StaleStep DEF IInv
<1>2. Spec => []IInv
  BY InitInv, StepInv, PTL DEF Spec
<1> QED
  BY <1>1, <1>2, PTL DEF Spec, AnswersClearMarks

=============================================================================
