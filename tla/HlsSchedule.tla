----------------------------- MODULE HlsSchedule -----------------------------
(***************************************************************************)
(* The offline download of an HLS task (HLSDOWNTASK, bCopyFullFile, not    *)
(* played): CM3u8Task::UpdateDownloadMode chooses the ts pieces to ask for *)
(* and keeps in m_tsIndexDownloading the indices it takes to be in flight. *)
(*                                                                         *)
(* It is run without a common lock by the timer thread (CheckTimeStamp),   *)
(* by the message thread after each answer, and by the application threads *)
(* that start the task.  A thread keeps the index that DownNextM3u8Ts      *)
(* returned (ret) while the others go on; each of its accesses to shared   *)
(* state is a step.  The task asks with its own hash first (main) and with *)
(* the hash of the piece's URL for the rest.                               *)
(*                                                                         *)
(* The playlist is there and no file is deleted by others.                 *)
(***************************************************************************)
EXTENDS Integers, Sequences, FiniteSets

CONSTANTS
  PieceNum,   \* pieces of the playlist
  Max,        \* g_cfg.m_uConcurrentNum
  Api,        \* application threads
  MaxPauses,  \* bound: pauses asked for
  MaxFaults,  \* bound: requests refused or unanswered, failed writes
  MaxBusy     \* bound: answers to come and threads at work when the timer comes

ASSUME ScheduleAssumption ==
  /\ PieceNum \in Nat \ {0} /\ Max \in Nat \ {0}
  /\ MaxPauses \in Nat /\ MaxFaults \in Nat /\ MaxBusy \in Nat
  /\ IsFiniteSet(Api) /\ Api \cap {"tick", "msg"} = {}

Pieces == 0 .. PieceNum - 1
None == -1                          \* what DownNextM3u8Ts returns for no piece
Threads == Api \cup {"tick", "msg"}

VARIABLES
  status,  \* m_Para.status
  have,    \* m_pBitField: pieces on disk
  marked,  \* m_tsIndexDownloading
  fresh,   \* m_bResetIndex
  reqs,    \* requests the agent has; told: its data is complete (bshare)
  out,     \* the complete request that the agent's thread is closing
  msgs,    \* answers on their way to the message thread
  cur,     \* the answer it works on
  pc, ret, \* where each thread is; the index it got
  pauses, faults

task == <<status, have, fresh>>
vars == <<task, marked, reqs, out, msgs, cur, pc, ret, pauses, faults>>

Request == [main : BOOLEAN, piece : Pieces, told : BOOLEAN]
Answer == [piece : Pieces, kind : {"data", "none", "error"}]
NoAnswer == [piece |-> 0, kind |-> "none"]
Closing == [at : {"idle", "drop", "push"}, main : BOOLEAN, piece : Pieces]
NotClosing == [at |-> "idle", main |-> TRUE, piece |-> 0]

\* Where a thread is between reading the number of pieces in flight and
\* adding to them.
Counted == {"info", "addMain", "setMain", "nextSub", "checkSub", "addSub", "setSub"}
Pausing == {"clear", "delMain", "delSubs"}
Places == Counted \cup Pausing \cup {"idle", "enter", "next", "first", "loop", "write",
                                     "reset", "again"}

TypeOK ==
  /\ status \in {"run", "pause"} /\ fresh \in BOOLEAN
  /\ have \subseteq Pieces /\ marked \subseteq Pieces \ {0}
  /\ reqs \subseteq Request /\ out \in Closing
  /\ msgs \in Seq(Answer) /\ cur \in Answer
  /\ pc \in [Threads -> Places]
  /\ ret \in [Threads -> Pieces \cup {None}]
  /\ pauses \in 0 .. MaxPauses /\ faults \in 0 .. MaxFaults

Init ==
  /\ status = "run" /\ have = {} /\ marked = {} /\ fresh = TRUE
  /\ reqs = {} /\ out = NotClosing /\ msgs = << >> /\ cur = NoAnswer
  /\ pc = [t \in Threads |-> "idle"] /\ ret = [t \in Threads |-> None]
  /\ pauses = 0 /\ faults = 0

Finished == have = Pieces
\* A thread that leaves forgets its index.
Move(t, place, i) ==
  /\ pc' = [pc EXCEPT ![t] = place]
  /\ ret' = [ret EXCEPT ![t] = IF place = "idle" THEN None ELSE i]
Goto(t, place) == Move(t, place, ret[t])
From(t, place) == pc[t] = place
Fault == faults < MaxFaults /\ faults' = faults + 1

-----------------------------------------------------------------------------
(* The agent, as far as the scheduling sees it.                            *)

MainReqs == {r \in reqs : r.main}
SubReqs == {r \in reqs : ~ r.main}
Waiting == {r \in reqs : ~ r.told}
OfHash(main, i) == IF main THEN MainReqs ELSE {r \in SubReqs : r.piece = i}
NewReq(main, i) == [main |-> main, piece |-> i, told |-> FALSE]

\* TerminalSock: what is not answered is answered without data.
Orders(S) == {s \in [1 .. Cardinality(S) -> S] : \A i, j \in DOMAIN s : s[i] = s[j] => i = j}
NoData(S) == {[k \in DOMAIN s |-> [piece |-> s[k].piece, kind |-> "none"]] : s \in Orders(S)}

Terminate(S) ==
  /\ reqs' = reqs \ S
  /\ \E m \in NoData(S \cap Waiting) : msgs' = msgs \o m

\* AddM3u8TsTask; old is the request of the same hash, if there is one.  It
\* returns 1 as well when it has that request already.
AddFound(t, i, old, place) ==
  /\ \E r \in old : r.piece = i
  /\ Goto(t, place) /\ UNCHANGED <<reqs, msgs, faults>>

AddNew(t, main, i, old, place) ==
  /\ i # None /\ \A r \in old : r.piece # i
  /\ Goto(t, place) /\ UNCHANGED faults
  /\ reqs' = (reqs \ old) \cup {NewReq(main, i)}
  /\ \E m \in NoData(old \cap Waiting) : msgs' = msgs \o m

\* No URL, or the table of connections is full.
AddRefused(t, i, old) ==
  /\ \A r \in old : r.piece # i
  /\ Goto(t, "idle") /\ Terminate(old)
  /\ IF i = None THEN UNCHANGED faults ELSE Fault

\* connect fails: the new request is answered and removed at once.
AddUnconnected(t, i, old) ==
  /\ i # None /\ \A r \in old : r.piece # i
  /\ Goto(t, "idle") /\ Fault
  /\ reqs' = reqs \ old
  /\ \E m \in NoData(old \cap Waiting) :
       msgs' = Append(msgs \o m, [piece |-> i, kind |-> "none"])

AddM3u8TsTask(t, main, i, old, place) ==
  \/ AddFound(t, i, old, place)
  \/ AddNew(t, main, i, old, place)
  \/ AddRefused(t, i, old)
  \/ AddUnconnected(t, i, old)

\* OnData has the whole piece.  It closes whatever request has the hash now,
\* and then sends its message.
Complete(r) ==
  /\ out.at = "idle" /\ ~ r.told
  /\ reqs' = (reqs \ {r}) \cup {[r EXCEPT !.told = TRUE]}
  /\ out' = [at |-> "drop", main |-> r.main, piece |-> r.piece]
  /\ UNCHANGED <<task, marked, msgs, cur, pc, ret, pauses, faults>>

Drop ==
  /\ out.at = "drop" /\ out' = [out EXCEPT !.at = "push"]
  /\ Terminate(OfHash(out.main, out.piece))
  /\ UNCHANGED <<task, marked, cur, pc, ret, pauses, faults>>

Push ==
  /\ out.at = "push" /\ out' = NotClosing
  /\ msgs' = Append(msgs, [piece |-> out.piece, kind |-> "data"])
  /\ UNCHANGED <<task, marked, reqs, cur, pc, ret, pauses, faults>>

\* TerminalSock by the agent's thread: no or incomplete data, or an error.
Fails(r, kind) ==
  /\ out.at = "idle" /\ Fault
  /\ reqs' = reqs \ {r} /\ msgs' = Append(msgs, [piece |-> r.piece, kind |-> kind])
  /\ UNCHANGED <<task, marked, out, cur, pc, ret, pauses>>

-----------------------------------------------------------------------------
(* UpdateDownloadMode.                                                     *)

\* Mutation: the first piece is marked too.
MarkedAlways(i) == marked \cup {i}

\* SetTsIndexDownloading, for an index > 0 only, and ReSetTsIndexDownloading.
Marked(i) == IF i > 0 THEN marked \cup {i} ELSE marked

\* Mutation: the mark is kept.
UnmarkedNever(i) == marked

Unmarked(i) == marked \ {i}

MayUpdate == status = "run" /\ ~ Finished

\* Answers to come, and other threads at work.
Busy == Len(msgs) + (IF out.at = "idle" THEN 0 ELSE 1)
          + Cardinality({t \in Threads : pc[t] # "idle"})

\* CheckTimeStamp
Tick ==
  /\ From("tick", "idle") /\ MayUpdate /\ Goto("tick", "next")
  /\ Busy <= MaxBusy
  /\ UNCHANGED <<task, marked, reqs, out, msgs, cur, pauses, faults>>

\* The call in CTask::Start.
Enter(t) ==
  /\ From(t, "enter") /\ Goto(t, IF MayUpdate THEN "next" ELSE "idle")
  /\ UNCHANGED <<task, marked, reqs, out, msgs, cur, pauses, faults>>

\* Mutation: the scan starts behind the first piece.
MissingButFirst == Pieces \ (have \cup marked \cup {0})

\* Neither present nor in flight.
Missing == Pieces \ (have \cup marked)

\* The first missing piece.  The first time all are present it forgets what is
\* in flight.
DownNextM3u8Ts(t, place, none) ==
  /\ marked' = IF Finished /\ fresh THEN {} ELSE marked
  /\ fresh' = (fresh /\ ~ Finished)
  /\ \/ (Finished \/ Missing = {}) /\ Move(t, none, None)
     \/ ~ Finished /\ \E i \in Missing : (\A j \in Missing : i <= j) /\ Move(t, place, i)
  /\ UNCHANGED <<status, have, reqs, out, msgs, cur, pauses, faults>>

Next1(t) == From(t, "next") /\ DownNextM3u8Ts(t, "first", "first")

First(t) ==
  /\ From(t, "first")
  /\ Goto(t, IF Cardinality(marked) < Max THEN "info" ELSE "loop")
  /\ UNCHANGED <<task, marked, reqs, out, msgs, cur, pauses, faults>>

Info(t) ==
  /\ From(t, "info") /\ Goto(t, IF MainReqs = {} THEN "addMain" ELSE "loop")
  /\ UNCHANGED <<task, marked, reqs, out, msgs, cur, pauses, faults>>

AddMain(t) ==
  /\ From(t, "addMain")
  /\ AddM3u8TsTask(t, TRUE, ret[t], OfHash(TRUE, ret[t]), "setMain")
  /\ UNCHANGED <<task, marked, out, cur, pauses>>

SetIndex(t) ==
  /\ pc[t] \in {"setMain", "setSub"}
  /\ marked' = Marked(ret[t]) /\ Goto(t, "loop")
  /\ UNCHANGED <<task, reqs, out, msgs, cur, pauses, faults>>

\* Mutation: the limit is not looked at again.
LoopUnlimited(t) ==
  /\ From(t, "loop")
  /\ Goto(t, IF ret[t] > 0 THEN "nextSub" ELSE "idle")
  /\ UNCHANGED <<task, marked, reqs, out, msgs, cur, pauses, faults>>

Loop(t) ==
  /\ From(t, "loop")
  /\ Goto(t, IF ret[t] > 0 /\ Cardinality(marked) < Max THEN "nextSub" ELSE "idle")
  /\ UNCHANGED <<task, marked, reqs, out, msgs, cur, pauses, faults>>

NextSub(t) == From(t, "nextSub") /\ DownNextM3u8Ts(t, "checkSub", "idle")

CheckSub(t) ==
  /\ From(t, "checkSub") /\ Goto(t, IF ret[t] \in marked THEN "idle" ELSE "addSub")
  /\ UNCHANGED <<task, marked, reqs, out, msgs, cur, pauses, faults>>

AddSub(t) ==
  /\ From(t, "addSub")
  /\ AddM3u8TsTask(t, FALSE, ret[t], OfHash(FALSE, ret[t]), "setSub")
  /\ UNCHANGED <<task, marked, out, cur, pauses>>

UpdateDownloadMode(t) ==
  \/ Enter(t) \/ Next1(t) \/ First(t) \/ Info(t) \/ AddMain(t) \/ SetIndex(t)
  \/ Loop(t) \/ NextSub(t) \/ CheckSub(t) \/ AddSub(t)

-----------------------------------------------------------------------------
(* Status changes: CM3u8Task::Pause, then the requests are deleted.        *)

Start(t) ==
  /\ From(t, "idle") /\ status # "run" /\ ~ Finished
  /\ status' = "run" /\ Goto(t, "enter")
  /\ UNCHANGED <<have, fresh, marked, reqs, out, msgs, cur, pauses, faults>>

PauseTask(t) ==
  /\ From(t, "idle") /\ pauses < MaxPauses /\ pauses' = pauses + 1
  /\ status' = "pause" /\ Goto(t, "clear")
  /\ UNCHANGED <<have, fresh, marked, reqs, out, msgs, cur, faults>>

Clear(t) ==
  /\ From(t, "clear") /\ marked' = {} /\ Goto(t, "delMain")
  /\ UNCHANGED <<task, reqs, out, msgs, cur, pauses, faults>>

DelMain(t) ==
  /\ From(t, "delMain") /\ Terminate(MainReqs) /\ Goto(t, "delSubs")
  /\ UNCHANGED <<task, marked, out, cur, pauses, faults>>

DelSubs(t) ==
  /\ From(t, "delSubs") /\ Terminate(SubReqs)
  /\ Goto(t, IF t # "msg" THEN "idle" ELSE IF cur.kind = "error" THEN "reset" ELSE "again")
  /\ UNCHANGED <<task, marked, out, cur, pauses, faults>>

Pause(t) == Clear(t) \/ DelMain(t) \/ DelSubs(t)

-----------------------------------------------------------------------------
(* The message thread: HdHttpM3u8Ts.                                       *)

\* WriteM3u8Ts and NotifyDownM3u8Ts drop the mark first; an error pauses the
\* task before that.
Handle ==
  /\ From("msg", "idle") /\ msgs # << >>
  /\ cur' = Head(msgs) /\ msgs' = Tail(msgs)
  /\ \/ cur'.kind = "error" /\ status' = "pause" /\ Goto("msg", "clear") /\ UNCHANGED marked
     \/ cur'.kind = "data" /\ Goto("msg", "write")
        /\ marked' = Unmarked(cur'.piece) /\ UNCHANGED status
     \/ cur'.kind = "none" /\ Goto("msg", "again")
        /\ marked' = Unmarked(cur'.piece) /\ UNCHANGED status
  /\ UNCHANGED <<have, fresh, reqs, out, pauses, faults>>

\* CM3u8::WriteTs; the last piece pauses the task.
Write ==
  /\ From("msg", "write") /\ have' = have \cup {cur.piece}
  /\ IF have' = Pieces THEN status' = "pause" /\ Goto("msg", "clear")
                       ELSE UNCHANGED status /\ Goto("msg", "again")
  /\ UNCHANGED <<fresh, marked, reqs, out, msgs, cur, pauses, faults>>

WriteFails ==
  /\ From("msg", "write") /\ Fault
  /\ status' = "pause" /\ Goto("msg", "clear")
  /\ UNCHANGED <<have, fresh, marked, reqs, out, msgs, cur, pauses>>

Reset ==
  /\ From("msg", "reset") /\ marked' = Unmarked(cur.piece) /\ Goto("msg", "again")
  /\ cur' = NoAnswer
  /\ UNCHANGED <<task, reqs, out, msgs, pauses, faults>>

\* CMsgHandle::DownNextM3u8Ts
Again ==
  /\ From("msg", "again") /\ cur' = NoAnswer
  /\ Goto("msg", IF MayUpdate /\ MainReqs = {} THEN "next" ELSE "idle")
  /\ UNCHANGED <<task, marked, reqs, out, msgs, pauses, faults>>

MsgThread == Handle \/ Write \/ WriteFails \/ Reset \/ Again

-----------------------------------------------------------------------------
Next ==
  \/ Tick \/ MsgThread
  \/ \E t \in Threads : UpdateDownloadMode(t) \/ Pause(t)
  \/ \E t \in Api : Start(t) \/ PauseTask(t)
  \/ Drop \/ Push
  \/ \E r \in reqs : Complete(r) \/ \E k \in {"none", "error"} : Fails(r, k)

Spec == Init /\ [][Next]_vars

\* Threads run, the timer comes again and again, and servers asked again and
\* again deliver some piece in the end (strong, as another thread may replace
\* the request before they do).
FairSpec ==
  /\ Spec
  /\ WF_vars(Tick) /\ WF_vars(MsgThread)
  /\ \A t \in Threads : WF_vars(UpdateDownloadMode(t)) /\ WF_vars(Pause(t))
  /\ WF_vars(Drop \/ Push)
  /\ SF_vars(\E r \in reqs : Complete(r))

-----------------------------------------------------------------------------
(* Properties.                                                             *)

\* However the threads interleave, the marks and the threads about to add one
\* exceed the limit by no more than the other threads, each of which has read
\* the size once (UpdateDownloadMode reads it without a lock, and again for
\* every piece).
Adding == {t \in Threads : pc[t] \in Counted}
MarkLimit == Cardinality(marked) + Cardinality(Adding) <= Max + Cardinality(Threads) - 1

\* The answers to come for a piece.
Expected(i) ==
  \/ \E r \in Waiting : r.piece = i
  \/ out.at # "idle" /\ out.piece = i
  \/ \E k \in DOMAIN msgs : msgs[k].piece = i
  \/ cur.kind = "error" /\ cur.piece = i

\* Marks that nothing will remove: no request, no answer.
Stale == {i \in marked : ~ Expected(i)}

\* However a request ends (data, error, refusal, termination), its mark goes
\* with its answer.  Only a thread that sets a mark late leaves a stale one.
AnswersClearMarks ==
  [][\A i \in Stale' \ Stale :
        \E t \in Threads : pc[t] \in {"setMain", "setSub"} /\ ret[t] = i /\ pc'[t] = "loop"]_vars

\* Pieces are not skipped and no thread waits for ever: a task that keeps
\* running, without a stale mark, finishes.
FinishesUnlessStale == []<>(status # "run" \/ Stale # {}) \/ <>Finished

=============================================================================
