------------------------------- MODULE TaskWalk -------------------------------
(***************************************************************************)
(* The routine thread next to the calls of TaskTable: CheckTimeStamp walks *)
(* over the lists of tasks, round after round, and holds their lock from   *)
(* the first task to the last.  Nothing is downloaded for a task that is   *)
(* not visited.                                                            *)
(***************************************************************************)
EXTENDS TaskTable, SequencesExt

VARIABLES
  buffering, \* g_cfg.m_bVideoBuffering
  todo       \* the tasks that the walk still has to visit, << >>: no walk

walk == <<buffering, todo>>
allVars == <<vars, walk>>

WalkInit == Init /\ buffering = FALSE /\ todo = << >>

NotifyVideoBuffering ==
  /\ buffering' = ~ buffering
  /\ UNCHANGED <<vars, todo>>

Begins ==
  /\ todo = << >> /\ todo' = FlattenSeq([x \in Hash |-> path[x]])
  /\ UNCHANGED <<vars, buffering>>

\* While a player buffers, a task that is not played is left out, but not passed over.
Visits ==
  /\ todo # << >>
  /\ todo' = IF buffering /\ ~ playing[Head(todo)] THEN todo ELSE Tail(todo)
  /\ UNCHANGED <<vars, buffering>>

CheckTimeStamp == Begins \/ Visits

\* Lists change under the lock that the walk holds.
WorksNextToWalk(t) ==
  /\ pc[t] \in {"list", "unlist"} => todo = << >>
  /\ Works(t) /\ UNCHANGED walk

CallsNextToWalk(t) == UNCHANGED walk /\ \E x \in Hash : Calls(t, x)

WalkNext ==
  \/ \E t \in Threads : CallsNextToWalk(t) \/ WorksNextToWalk(t)
  \/ NotifyVideoBuffering
  \/ CheckTimeStamp

\* The routine thread goes on, and so does every call that has begun.  The walk does not
\* miss for ever that the buffering ends.
WalkSpec ==
  /\ WalkInit /\ [][WalkNext]_allVars
  /\ SF_allVars(CheckTimeStamp) /\ \A t \in Threads : WF_allVars(WorksNextToWalk(t))

-----------------------------------------------------------------------------
\* A task that is played is visited by the walk again and again: the others are ignored
\* while a player buffers, "this time" (TaskMgr.cpp:1387).
Visited(x) == todo # << >> /\ Head(todo) = taskMap[x] /\ Visits
PlayingIsVisited ==
  \A x \in Hash :
    <>[](x \in Mapped /\ playing[taskMap[x]]) => []<><<Visited(x)>>_allVars

=============================================================================
