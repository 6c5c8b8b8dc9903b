------------------------------ MODULE HttpAgent ------------------------------
(***************************************************************************)
(* CHttpAgent: the agents (requests in progress, m_agentMap) and the table *)
(* of their connections (m_SocketArray, m_hashArr, pfds).                  *)
(*                                                                         *)
(* One thread, Routine, polls the table, receives and times out.  Other    *)
(* threads add and delete requests (AddTask, AddM3u8TsTask, DelTask) under *)
(* m_agentLock, which TerminalSock takes too: each of these is one step.   *)
(* Routine works without that lock between its own calls, keeps a counted  *)
(* reference to the agent it works for, and knows its connection only by   *)
(* its index, so every access it makes to shared state is a step.          *)
(*                                                                         *)
(* The time is left open: any agent may be found overdue at any sweep.     *)
(***************************************************************************)
EXTENDS Integers, FiniteSets

CONSTANTS
  Hash,        \* tasks and sub-requests
  Type,        \* what each hash asks for: "range", "start" or "whole" (m3u8, ts)
  Fd,          \* descriptors the system hands out
  MaxSock,     \* slots of the table, 64
  MaxRetry,    \* reconnections of one request, 5
  MaxRequests, \* bound: requests made
  NoHash, NoFd \* no hash; an invalid descriptor

ASSUME AgentAssumption ==
  /\ IsFiniteSet(Hash) /\ Type \in [Hash -> {"range", "start", "whole"}]
  /\ MaxSock \in Nat \ {0} /\ MaxRetry \in Nat /\ MaxRequests \in Nat
  /\ NoHash \notin Hash /\ NoFd \notin Fd

Obj == 0 .. Cardinality(Hash) + 1    \* CAgentInfo objects: one may outlive its entry
NoObj == -1

VARIABLES
  obj,     \* the CAgentInfo objects
  agent,   \* m_agentMap
  slot,    \* m_SocketArray, m_hashArr and pfds by index
  n,       \* m_nSocket
  flag,    \* m_IfSockConnected
  pc,      \* where Routine is
  idx,     \* the index it works on
  held,    \* the agent OnData and OnConnect hold
  mine,    \* the hash they hold, or the one about to be terminated
  ub,      \* the undefined behaviour the program has run into
  wasFull, \* history: the table has been full
  requests

table  == <<slot, n>>
thread == <<pc, idx, held, mine>>
vars   == <<obj, agent, table, flag, thread, ub, wasFull, requests>>

Agents == {h \in Hash : agent[h] # NoObj}
Live == 1 .. n
NoSlot == [hash |-> NoHash, fd |-> NoFd, ev |-> {}]
Free(t) == Fd \ {t.slot[i].fd : i \in 1 .. MaxSock}

TypeOK ==
  /\ obj \in [Obj -> [buf : BOOLEAN, down : {"none", "part", "all"},
                      share : BOOLEAN, reuse : BOOLEAN, err : BOOLEAN,
                      times : 0 .. MaxRetry, fd : Fd \cup {NoFd},
                      told : BOOLEAN]]
  /\ agent \in [Hash -> Obj \cup {NoObj}]
  /\ slot \in [1 .. MaxSock -> [hash : Hash \cup {NoHash}, fd : Fd \cup {NoFd},
                                ev : SUBSET {"in", "out"}]]
  /\ n \in 0 .. MaxSock
  /\ flag \in [1 .. MaxSock -> BOOLEAN]
  /\ pc \in {"poll", "in", "recv", "copy", "fin", "share", "reuse", "drop", "push",
             "out", "send", "mark", "fail", "err", "term", "kill", "killOnly",
             "close"}
  /\ idx \in 1 .. MaxSock /\ held \in Obj \cup {NoObj} /\ mine \in Hash \cup {NoHash}
  /\ ub \in {"none", "overflow", "null", "index"}
  /\ wasFull \in BOOLEAN /\ requests \in 0 .. MaxRequests

Fresh == [buf |-> FALSE, down |-> "none", share |-> FALSE, reuse |-> FALSE,
          err |-> FALSE, times |-> 0, fd |-> NoFd, told |-> FALSE]

Init ==
  /\ obj = [o \in Obj |-> Fresh] /\ agent = [h \in Hash |-> NoObj]
  /\ slot = [i \in 1 .. MaxSock |-> NoSlot] /\ n = 0
  /\ flag = [i \in 1 .. MaxSock |-> FALSE]
  /\ pc = "poll" /\ idx = 1 /\ held = NoObj /\ mine = NoHash
  /\ ub = "none" /\ wasFull = FALSE /\ requests = 0

-----------------------------------------------------------------------------
(* The table.  OnClose(i) refuses to work on a full one.  It moves the     *)
(* last connection into the gap; a last one that is closed stays behind    *)
(* the end, with its hash.                                                 *)

Table == [slot |-> slot, n |-> n]
Become(t) == slot' = t.slot /\ n' = t.n /\ wasFull' = (wasFull \/ t.n = MaxSock)

\* Mutation: the last connection is not moved into the gap.
ClosedLeavesGap(t, i) ==
  IF i > t.n \/ t.n >= MaxSock THEN t
  ELSE [n |-> t.n - 1, slot |-> [t.slot EXCEPT ![i] = NoSlot]]

Closed(t, i) ==
  IF i > t.n \/ t.n >= MaxSock THEN t
  ELSE [n |-> t.n - 1,
        slot |-> IF i = t.n
                 THEN [t.slot EXCEPT ![i] = [NoSlot EXCEPT !.hash = t.slot[i].hash]]
                 ELSE [t.slot EXCEPT ![i] = t.slot[t.n], ![t.n] = NoSlot]]

IndexOf(t, h) == {i \in 1 .. t.n : t.slot[i].hash = h}
First(S) == CHOOSE i \in S : \A j \in S : i <= j

\* OnClose(hash)
ClosedHash(t, h) ==
  IF IndexOf(t, h) = {} THEN t ELSE Closed(t, First(IndexOf(t, h)))

Appended(t, h, f) ==
  [n |-> t.n + 1,
   slot |-> [t.slot EXCEPT ![t.n + 1] = [hash |-> h, fd |-> f, ev |-> @.ev \cup {"out"}]]]

-----------------------------------------------------------------------------
(* TerminalSock(hash, initiative).                                         *)

\* Mutation: no message without data.
AnsweredWithData(o) ==
  IF o.share THEN o
  ELSE [o EXCEPT !.share = TRUE, !.told = @ \/ o.buf, !.buf = FALSE]

\* The message: pushed unless the request was answered, with the data if any.
Answered(o) ==
  IF o.share THEN o
  ELSE [o EXCEPT !.share = TRUE, !.told = TRUE, !.buf = FALSE]

\* Its entry goes; the object too, unless Routine holds it.
Released(a, o) == IF a = held THEN o ELSE [Fresh EXCEPT !.told = o.told]

\* Mutation: one retry too many.
RetriesOnceMore(o) == o.times <= MaxRetry /\ ~o.err /\ o.down = "none"

Retries(o) == o.times < MaxRetry /\ ~o.err /\ o.down = "none"

\* Mutation: the retry is not counted.
ReconnectedUncounted(o, f) == [o EXCEPT !.share = FALSE, !.reuse = FALSE, !.fd = f]

\* ReConnect
Reconnected(o, f) ==
  [o EXCEPT !.share = FALSE, !.reuse = FALSE, !.times = @ + 1, !.fd = f]

\* The connection goes.  A request without data, not terminated on purpose, is
\* sent again on a new connection; else, or when there is none, it is answered
\* and its entry removed.  On a full table the new connection is written behind
\* the end of the arrays.
Terminate(h, initiative) ==
  LET a == agent[h]
      t == ClosedHash(Table, h)
      retry == ~initiative /\ Retries(obj[a])
  IN \/ /\ retry /\ t.n < MaxSock
        /\ \E f \in Free(t) :
             /\ Become(Appended(t, h, f))
             /\ obj' = [obj EXCEPT ![a] = Reconnected(@, f)]
        /\ UNCHANGED <<agent, ub>>
     \/ /\ retry /\ t.n = MaxSock
        /\ ub' = "overflow"
        /\ UNCHANGED <<obj, agent, table, wasFull>>
     \/ /\ Become(t)
        /\ obj' = [obj EXCEPT ![a] = Released(a, Answered([obj[a] EXCEPT !.share = ~retry /\ @]))]
        /\ agent' = [agent EXCEPT ![h] = NoObj]
        /\ UNCHANGED ub

-----------------------------------------------------------------------------
(* Other threads, under m_agentLock.  A request for the range its agent    *)
(* already has changes nothing and is left out.                            *)

Unused == Obj \ ({agent[h] : h \in Hash} \cup {held})
NewObj == CHOOSE o \in Unused : \A p \in Unused : o <= p
Requested == requests < MaxRequests /\ requests' = requests + 1

\* AddRange on an agent whose range is finished: the connection is used again
\* (OnConnect sends the request).  Only for another URL, see the README.
AddReused(h) ==
  /\ h \in Agents /\ Type[h] # "whole" /\ obj[agent[h]].reuse
  /\ Requested
  /\ IF IndexOf(Table, h) = {}
     THEN ub' = "index" /\ UNCHANGED <<obj, slot, flag>>
     ELSE LET i == First(IndexOf(Table, h))
          IN /\ obj' = [obj EXCEPT ![agent[h]] =
                          [@ EXCEPT !.down = "none", !.share = FALSE, !.reuse = FALSE,
                                    !.times = 0, !.told = FALSE]]
             /\ flag' = [flag EXCEPT ![i] = TRUE]
             /\ slot' = [slot EXCEPT ![i].ev = {"in"}]
             /\ UNCHANGED ub
  /\ UNCHANGED <<agent, n, thread, wasFull>>

\* AddRange, AddM3u8TsTask: what the hash had is terminated, then a connection
\* is opened (connect may fail at once), or refused when the table is full.
AddTask(h) ==
  /\ Requested
  /\ LET old == h \in Agents
         t == IF old THEN ClosedHash(Table, h) ELSE Table
         left == IF old THEN [obj EXCEPT ![agent[h]] = Released(agent[h], Answered(@))] ELSE obj
     IN \/ /\ t.n >= MaxSock
           /\ Become(t) /\ obj' = left /\ agent' = [agent EXCEPT ![h] = NoObj]
        \/ /\ t.n < MaxSock
           /\ \E f \in Free(t) :
                LET o == [Fresh EXCEPT !.fd = f]
                IN \/ /\ Become(Appended(t, h, f))
                      /\ obj' = [left EXCEPT ![NewObj] = o]
                      /\ agent' = [agent EXCEPT ![h] = NewObj]
                   \/ /\ Become(ClosedHash(Appended(t, h, f), h))
                      /\ obj' = [left EXCEPT ![NewObj] = Released(NewObj, Answered(o))]
                      /\ agent' = [agent EXCEPT ![h] = NoObj]
  /\ UNCHANGED <<flag, thread, ub>>

DelTask(h) ==
  /\ h \in Agents
  /\ Terminate(h, TRUE)
  /\ UNCHANGED <<flag, thread, requests>>

-----------------------------------------------------------------------------
(* Routine.                                                                *)

Go(p) == pc' = p /\ UNCHANGED <<idx, held, mine>>
Done == pc' = "poll" /\ idx' = 1 /\ held' = NoObj /\ mine' = NoHash
Quiet == UNCHANGED <<obj, agent, table, flag, ub, wasFull, requests>>

\* deleteUnusedSock, for one overdue agent; not called while there are no
\* connections.
Sweep(h) ==
  /\ pc = "poll" /\ n >= 1 /\ h \in Agents
  /\ Terminate(h, FALSE)
  /\ UNCHANGED <<flag, thread, requests>>

\* An event of a connection in the table.
Poll(i) ==
  /\ pc = "poll" /\ i \in Live
  /\ pc' \in IF "in" \in slot[i].ev THEN {"in"}
             ELSE IF "out" \in slot[i].ev THEN {"out", "fail", "err"} ELSE {"err"}
  /\ idx' = i
  /\ UNCHANGED <<held, mine>> /\ Quiet

\* POLLIN: the flag, then OnData looks the agent up ...
In ==
  /\ pc = "in"
  /\ IF flag[idx] /\ slot[idx].hash \in Agents
     THEN pc' = "recv" /\ mine' = slot[idx].hash /\ held' = agent[mine'] /\ UNCHANGED idx
     ELSE Go("term")
  /\ Quiet

\* ... checks that the connection is still that agent's (HasHttpSock), receives,
\* and allocates the buffer with the first data.  A redirection, a wrong answer
\* or a closed connection end it, an HTTP error for good.
Recv ==
  /\ pc = "recv"
  /\ \/ /\ slot[idx].fd # obj[held].fd
        /\ Go("term") /\ UNCHANGED obj
     \/ /\ slot[idx].fd = obj[held].fd
        /\ \/ Done /\ UNCHANGED obj
           \/ /\ Go("term")
              /\ \E e \in BOOLEAN : obj' = [obj EXCEPT ![held].err = @ \/ e]
           \/ Go("copy") /\ obj' = [obj EXCEPT ![held].buf = TRUE]
  /\ UNCHANGED <<agent, table, flag, ub, wasFull, requests>>

\* The data is copied, under m_fileLock again.
Copy ==
  /\ pc = "copy"
  /\ IF ~obj[held].buf
     THEN ub' = "null" /\ UNCHANGED obj /\ Go("copy")
     ELSE /\ \/ obj' = [obj EXCEPT ![held].down = "all"] /\ Go("fin")
             \/ /\ obj[held].down # "all"
                /\ obj' = [obj EXCEPT ![held].down = "part"] /\ Done
          /\ UNCHANGED ub
  /\ UNCHANGED <<agent, table, flag, wasFull, requests>>

\* The download is complete: unless it was answered ...
Fin ==
  /\ pc = "fin"
  /\ IF obj[held].share THEN Done ELSE Go("share")
  /\ Quiet

Pushed(o) == [o EXCEPT !.told = TRUE, !.buf = FALSE]

\* ... it is marked answered, and the message of a range is pushed.
Share ==
  /\ pc = "share"
  /\ obj' = [obj EXCEPT ![held] =
               IF Type[mine] = "whole" THEN [@ EXCEPT !.share = TRUE]
               ELSE Pushed([@ EXCEPT !.share = TRUE])]
  /\ Go(IF Type[mine] = "range" THEN "reuse" ELSE "drop")
  /\ UNCHANGED <<agent, table, flag, ub, wasFull, requests>>

Reuse ==
  /\ pc = "reuse"
  /\ obj' = [obj EXCEPT ![held].reuse = TRUE] /\ Done
  /\ UNCHANGED <<agent, table, flag, ub, wasFull, requests>>

\* The connection of the other types is closed; the message of a whole file is
\* pushed after that.
DropConnection ==
  /\ pc = "drop"
  /\ IF mine \in Agents THEN Terminate(mine, TRUE)
     ELSE UNCHANGED <<obj, agent, table, wasFull, ub>>
  /\ IF Type[mine] = "whole" THEN Go("push") ELSE Done
  /\ UNCHANGED <<flag, requests>>

Push ==
  /\ pc = "push"
  /\ obj' = [obj EXCEPT ![held] = Pushed(@)] /\ Done
  /\ UNCHANGED <<agent, table, flag, ub, wasFull, requests>>

\* POLLOUT: OnConnect looks the agent up by the hash of the connection ...
Out ==
  /\ pc = "out"
  /\ IF slot[idx].fd = NoFd THEN Done
     ELSE IF slot[idx].hash \in Agents
     THEN pc' = "send" /\ mine' = slot[idx].hash /\ held' = agent[mine'] /\ UNCHANGED idx
     ELSE Go("term")
  /\ Quiet

\* ... sends the request (or cannot yet) ...
Send ==
  /\ pc = "send"
  /\ \/ slot[idx].fd # obj[held].fd /\ Go("term") /\ UNCHANGED obj
     \/ slot[idx].fd = obj[held].fd /\ Done /\ UNCHANGED obj
     \/ /\ slot[idx].fd = obj[held].fd
        /\ obj' = [obj EXCEPT ![held].reuse = FALSE] /\ Go("mark")
  /\ UNCHANGED <<agent, table, flag, ub, wasFull, requests>>

\* ... and waits for the answer; a failed send ends the connection.
Mark ==
  /\ pc = "mark"
  /\ flag' = [flag EXCEPT ![idx] = TRUE]
  /\ slot' = [slot EXCEPT ![idx].ev = {"in"}]
  /\ Done \/ Go("term")
  /\ UNCHANGED <<obj, agent, n, ub, wasFull, requests>>

\* OnConnectFail, whose result counts only after POLLERR.
ConnectFail ==
  /\ pc \in {"fail", "err"}
  /\ IF slot[idx].hash \in Agents
     THEN pc' = "killOnly" /\ mine' = slot[idx].hash /\ UNCHANGED <<idx, held>>
     ELSE IF pc = "err" THEN Go("close") ELSE Done
  /\ Quiet

\* TerminalSock(index) reads the hash of the connection ...
Term ==
  /\ pc = "term"
  /\ pc' = "kill" /\ mine' = slot[idx].hash /\ UNCHANGED <<idx, held>>
  /\ Quiet

\* ... and terminates its agent; without one the connection is closed.
Kill ==
  /\ pc \in {"kill", "killOnly"}
  /\ IF mine \in Agents THEN Terminate(mine, FALSE) /\ Done
     ELSE /\ UNCHANGED <<obj, agent, table, wasFull, ub>>
          /\ IF pc = "kill" THEN Go("close") ELSE Done
  /\ UNCHANGED <<flag, requests>>

\* Mutation: the closed connection still counts as one to use again.
CloseKeepsReuse ==
  /\ pc = "close"
  /\ Become(Closed(Table, idx))
  /\ Done
  /\ UNCHANGED <<obj, agent, flag, ub, requests>>

\* OnClose(index), whatever is there now.
Close ==
  /\ pc = "close"
  /\ Become(Closed(Table, idx))
  /\ obj' = IF idx <= n /\ n < MaxSock /\ slot[idx].hash \in Agents
            THEN [obj EXCEPT ![agent[slot[idx].hash]].reuse = FALSE] ELSE obj
  /\ Done
  /\ UNCHANGED <<agent, flag, ub, requests>>

\* Nothing to do, or nothing left to say about the program.
Idle == (ub # "none" \/ (pc = "poll" /\ n = 0)) /\ UNCHANGED vars

-----------------------------------------------------------------------------
Working ==
  \/ In \/ Recv \/ Copy \/ Fin \/ Share \/ Reuse \/ DropConnection \/ Push
  \/ Out \/ Send \/ Mark \/ ConnectFail \/ Term \/ Kill \/ Close
Routine == (\E h \in Hash : Sweep(h)) \/ (\E i \in 1 .. MaxSock : Poll(i)) \/ Working
Others == \E h \in Hash : AddReused(h) \/ AddTask(h) \/ DelTask(h)

Next == (ub = "none" /\ (Routine \/ Others)) \/ Idle

Spec == Init /\ [][Next]_vars

\* Routine goes on, and every agent is overdue in the end: a connection is given
\* 5 s to open, a download a maximal time, an idle connection 10 s.
Fairness ==
  /\ WF_vars(ub = "none" /\ Working)
  /\ \A h \in Hash : SF_vars(ub = "none" /\ Sweep(h))
FairSpec == Spec /\ Fairness

-----------------------------------------------------------------------------
(* Properties.                                                             *)

\* The two tables agree, although they are under two locks and Routine closes by
\* index: as long as the table was never full every connection belongs to a
\* request in progress, the one that waits for it, and to one only.
SlotsMatch ==
  ~wasFull => \A i \in Live :
    /\ slot[i].hash \in Agents
    /\ slot[i].fd = obj[agent[slot[i].hash]].fd
    /\ \A j \in Live : slot[i].hash = slot[j].hash => i = j

\* A connection kept for the next range exists, and its request was answered:
\* AddRange finds the index it sends on.
ReuseHasSlot ==
  \A h \in Agents : obj[agent[h]].reuse => IndexOf(Table, h) # {} /\ obj[agent[h]].told

\* No request disappears silently: when its entry goes, or is replaced, a message
\* was pushed or Routine is about to push it.
Promised(o) == obj[o].told \/ (held = o /\ pc \in {"drop", "push"})
AnsweredBeforeDrop ==
  [][\A h \in Hash, o \in Obj : agent[h] = o /\ agent'[h] # o => Promised(o)']_vars

\* Every request is answered in the end while there is any connection.
Unanswered(h) == h \in Agents /\ ~obj[agent[h]].share
AnsweredWhileBusy ==
  \A h \in Hash : Unanswered(h) ~> (~Unanswered(h) \/ n = 0 \/ ub # "none")

=============================================================================
