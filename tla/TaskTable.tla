------------------------------ MODULE TaskTable ------------------------------
(***************************************************************************)
(* The task manager: CTaskMgr's map and lists of tasks, the life of a      *)
(* CTask (RefCountedObject), its status, and the calls that change them:   *)
(* create, delete, run, pause, play.  The application's threads make the   *)
(* calls; the message thread pauses tasks and deletes old ones to make     *)
(* room.                                                                   *)
(*                                                                         *)
(* The map and the lists have a lock each: one step per hold of a lock,    *)
(* and per use of a task between two of them.  Each task has a directory,  *)
(* thus a list, of its own.  Tasks that are finished play no part here.    *)
(***************************************************************************)
EXTENDS Integers, Sequences, FiniteSets

CONSTANTS
  MaxHash,   \* tasks the application knows
  Offline,   \* those that are offline tasks (bCopyFullFile)
  App,       \* threads of the application
  MaxDown,   \* g_cfg.m_uMaxDownTaskCount
  MaxObject  \* bound: objects made in a run of the program

Hash == 1 .. MaxHash
Object == 1 .. MaxObject

ASSUME TaskAssumption ==
  /\ MaxHash \in Nat /\ MaxDown \in Nat /\ MaxObject \in Nat /\ MaxHash <= MaxObject
  /\ Offline \subseteq Hash /\ IsFiniteSet(App) /\ "msg" \notin App

None == 0
Threads == App \cup {"msg"}

VARIABLES
  taskMap,   \* m_task_map: the object of a hash
  path,      \* m_task_path: the list of a hash's directory
  hashOf,    \* CTask: its hash, None: not made yet
  status,    \* m_Para.status
  playing,   \* m_bIsPlaying
  counter,   \* _counter
  deleted,   \* times the object has been deleted
  rows,      \* hashes in the database
  pc, call,  \* where each thread is, the hash it was called for
  ref,       \* the object it found or made
  checked    \* the object whose counter it has decremented

table == <<taskMap, path>>
task == <<hashOf, status, playing, counter, deleted>>
thread == <<pc, call, ref, checked>>
vars == <<table, task, rows, thread>>

Places == {"idle", "insert", "list", "row", "addrow", "unplay", "stop", "unlist", "unmap",
           "test1", "pause", "start", "run", "play", "stopplay", "limit", "release", "test"}

TypeOK ==
  /\ taskMap \in [Hash -> Object \cup {None}] /\ path \in [Hash -> Seq(Object)]
  /\ hashOf \in [Object -> Hash \cup {None}]
  /\ status \in [Object -> {"pause", "running", "stop"}] /\ playing \in [Object -> BOOLEAN]
  /\ counter \in [Object -> Int] /\ deleted \in [Object -> Nat]
  /\ rows \subseteq Hash
  /\ pc \in [Threads -> Places] /\ call \in [Threads -> Hash \cup {None}]
  /\ ref \in [Threads -> Object \cup {None}] /\ checked \in [Threads -> Object \cup {None}]
  /\ \A t \in Threads :
       /\ call[t] = None <=> pc[t] = "idle"
       /\ ref[t] = None <=> pc[t] \in {"idle", "row", "start", "test"}
       /\ checked[t] = None <=> pc[t] \notin {"test", "test1"}

\* LoadTask has loaded some of the tasks, all paused.
Init ==
  /\ \E loaded \in SUBSET Hash :
       /\ taskMap = [x \in Hash |-> IF x \in loaded THEN x ELSE None]
       /\ path = [x \in Hash |-> IF x \in loaded THEN <<x>> ELSE << >>]
       /\ hashOf = [o \in Object |-> IF o \in loaded THEN o ELSE None]
       /\ counter = [o \in Object |-> IF o \in loaded THEN 1 ELSE 0]
       /\ rows = loaded
  /\ status = [o \in Object |-> "pause"] /\ playing = [o \in Object |-> FALSE]
  /\ deleted = [o \in Object |-> 0]
  /\ pc = [t \in Threads |-> "idle"] /\ call = [t \in Threads |-> None]
  /\ ref = [t \in Threads |-> None] /\ checked = [t \in Threads |-> None]

From(t, place) == pc[t] = place
Goto(t, place) == pc' = [pc EXCEPT ![t] = place]
Mapped == {x \in Hash : taskMap[x] # None}

\* GetDownloadingTasks
Downloading == {x \in Offline \cap Mapped : status[taskMap[x]] = "running"}

-----------------------------------------------------------------------------
(* References.                                                             *)

\* Mutation: the object is taken from the map without a reference.
FindUncounted(t, x, place) ==
  /\ ref' = [ref EXCEPT ![t] = taskMap[x]] /\ UNCHANGED counter
  /\ Goto(t, place)

\* FindTask under the lock of the map, with duplicate.
Find(t, x, place) ==
  /\ ref' = [ref EXCEPT ![t] = taskMap[x]]
  /\ counter' = [counter EXCEPT ![taskMap[x]] = @ + 1]
  /\ Goto(t, place)

\* A call begins: the task is looked up.
Begin(t, x, place) ==
  /\ From(t, "idle") /\ x \in Mapped
  /\ call' = [call EXCEPT ![t] = x] /\ Find(t, x, place)
  /\ UNCHANGED <<table, hashOf, status, playing, deleted, rows, checked>>

\* release: the counter is decremented ...
Release(t) ==
  /\ From(t, "release")
  /\ counter' = [counter EXCEPT ![ref[t]] = @ - 1]
  /\ checked' = [checked EXCEPT ![t] = ref[t]] /\ ref' = [ref EXCEPT ![t] = None]
  /\ Goto(t, "test")
  /\ UNCHANGED <<table, hashOf, status, playing, deleted, rows, call>>

\* ... and then read.  In a deleted object it may be anything.
DeleteIfZero(o) ==
  \/ counter[o] = 0 /\ deleted' = [deleted EXCEPT ![o] = @ + 1]
  \/ (counter[o] # 0 \/ deleted[o] > 0) /\ UNCHANGED deleted

Test(t) ==
  /\ \/ From(t, "test") /\ Goto(t, "idle") /\ call' = [call EXCEPT ![t] = None]
     \/ From(t, "test1") /\ Goto(t, "release") /\ UNCHANGED call
  /\ DeleteIfZero(checked[t]) /\ checked' = [checked EXCEPT ![t] = None]
  /\ UNCHANGED <<table, hashOf, status, playing, counter, rows, ref>>

-----------------------------------------------------------------------------
(* CreateYfTask.                                                           *)

Unused == {o \in Object : hashOf[o] = None /\ \A p \in Object : hashOf[p] = None => o <= p}

\* No task has the hash: one is made, with a counter of one.
CreateYfTask(t, x) ==
  /\ From(t, "idle") /\ x \notin Mapped /\ t \in App
  /\ \E o \in Unused :
       /\ hashOf' = [hashOf EXCEPT ![o] = x] /\ counter' = [counter EXCEPT ![o] = 1]
       /\ ref' = [ref EXCEPT ![t] = o]
  /\ call' = [call EXCEPT ![t] = x] /\ Goto(t, "insert")
  /\ UNCHANGED <<table, status, playing, deleted, rows, checked>>

Insert(t) ==
  /\ From(t, "insert") /\ Goto(t, "list")
  /\ taskMap' = [taskMap EXCEPT ![call[t]] = ref[t]]
  /\ UNCHANGED <<path, task, rows, call, ref, checked>>

\* Mutation: a list that is not empty is taken to hold the task already.
ListOnce(t) ==
  /\ From(t, "list") /\ Goto(t, "row")
  /\ path' = IF path[call[t]] = << >> THEN [path EXCEPT ![call[t]] = <<ref[t]>>] ELSE path
  /\ ref' = [ref EXCEPT ![t] = None]
  /\ UNCHANGED <<taskMap, task, rows, call, checked>>

List(t) ==
  /\ From(t, "list") /\ Goto(t, "row")
  /\ path' = [path EXCEPT ![call[t]] = Append(@, ref[t])]
  /\ ref' = [ref EXCEPT ![t] = None]
  /\ UNCHANGED <<taskMap, task, rows, call, checked>>

\* CServerProduct::CreateYfTask looks the new task up and saves it.
Row(t) ==
  /\ From(t, "row")
  /\ \/ call[t] \in Mapped /\ Find(t, call[t], "addrow") /\ UNCHANGED call
     \/ /\ call[t] \notin Mapped /\ Goto(t, "idle") /\ call' = [call EXCEPT ![t] = None]
        /\ UNCHANGED <<ref, counter>>
  /\ UNCHANGED <<table, hashOf, status, playing, deleted, rows, checked>>

AddRow(t) ==
  /\ From(t, "addrow") /\ Goto(t, "release")
  /\ rows' = rows \cup {call[t]}
  /\ UNCHANGED <<table, task, call, ref, checked>>

Create(t) == Insert(t) \/ List(t) \/ Row(t) \/ AddRow(t)

-----------------------------------------------------------------------------
(* Delete: SetTaskStatus(STOP).                                            *)

\* The message thread deletes the oldest cached task that is not played
\* (DeleteOldTaskExceptHash).
MayDelete(t, x) == t \in App \/ (x \in (rows \cap Mapped) \ Offline /\ ~ playing[taskMap[x]])

\* SetTaskPlaying(false), for the task that now has the hash: no offline task is left
\* running over the limit.
PausesAtStop(x) == x \notin Offline \/ Cardinality(Downloading) > MaxDown

Unplay(t) ==
  /\ From(t, "unplay") /\ Goto(t, "stop")
  /\ LET x == call[t]
         o == taskMap[x]
     IN IF o = None THEN UNCHANGED <<status, playing>>
        ELSE /\ playing' = [playing EXCEPT ![o] = FALSE]
             /\ status' = IF PausesAtStop(x) THEN [status EXCEPT ![o] = "pause"] ELSE status
  /\ UNCHANGED <<table, hashOf, counter, deleted, rows, call, ref, checked>>

Stop(t) ==
  /\ From(t, "stop") /\ Goto(t, "unlist")
  /\ status' = [status EXCEPT ![ref[t]] = "stop"]
  /\ rows' = IF status[ref[t]] = "stop" THEN rows ELSE rows \ {call[t]}
  /\ UNCHANGED <<table, hashOf, playing, counter, deleted, call, ref, checked>>

\* DelOneTask takes the first task of the hash off the list, DelTask releases the map's.
Unlist(t) ==
  /\ From(t, "unlist") /\ Goto(t, "unmap")
  /\ path' = [path EXCEPT ![call[t]] = IF @ = << >> THEN @ ELSE Tail(@)]
  /\ UNCHANGED <<taskMap, task, rows, call, ref, checked>>

\* Mutation: the map's reference is not released.
UnmapKeeps(t) ==
  /\ From(t, "unmap") /\ Goto(t, "release")
  /\ taskMap' = [taskMap EXCEPT ![call[t]] = None]
  /\ UNCHANGED <<path, task, rows, call, ref, checked>>

Unmap(t) ==
  /\ From(t, "unmap")
  /\ LET o == taskMap[call[t]]
     IN IF o = None THEN Goto(t, "release") /\ UNCHANGED <<taskMap, counter, checked>>
        ELSE /\ taskMap' = [taskMap EXCEPT ![call[t]] = None]
             /\ counter' = [counter EXCEPT ![o] = @ - 1]
             /\ checked' = [checked EXCEPT ![t] = o] /\ Goto(t, "test1")
  /\ UNCHANGED <<path, hashOf, status, playing, deleted, rows, call, ref>>

Delete(t) == Unplay(t) \/ Stop(t) \/ Unlist(t) \/ Unmap(t)

-----------------------------------------------------------------------------
(* Pause, run, play.                                                       *)

Pause(t) ==
  /\ From(t, "pause") /\ Goto(t, "release")
  /\ status' = [status EXCEPT ![ref[t]] = "pause"]
  /\ UNCHANGED <<table, hashOf, playing, counter, deleted, rows, call, ref, checked>>

\* Mutation: one too many.
MayRunOneMore(x) ==
  \/ playing[taskMap[x]]
  \/ status[taskMap[x]] = "running"
  \/ Cardinality(Downloading) <= MaxDown

\* RunTask: the offline tasks that download are counted, but for a task that is
\* played or runs already.
MayRun(x) ==
  \/ playing[taskMap[x]]
  \/ status[taskMap[x]] = "running"
  \/ Cardinality(Downloading) < MaxDown

RunTask(t, x) ==
  /\ From(t, "idle") /\ x \in Mapped /\ MayRun(x)
  /\ call' = [call EXCEPT ![t] = x] /\ Goto(t, "start")
  /\ UNCHANGED <<table, task, rows, ref, checked>>

\* Mutation: without a look at what FindTask returned.
StartUnchecked(t) ==
  /\ From(t, "start") /\ Find(t, call[t], "run")
  /\ UNCHANGED <<table, hashOf, status, playing, deleted, rows, call, checked>>

\* SetTaskStatus(RUNNING)
Start(t) ==
  /\ From(t, "start")
  /\ \/ call[t] \in Mapped /\ Find(t, call[t], "run") /\ UNCHANGED call
     \/ /\ call[t] \notin Mapped /\ Goto(t, "idle") /\ call' = [call EXCEPT ![t] = None]
        /\ UNCHANGED <<ref, counter>>
  /\ UNCHANGED <<table, hashOf, status, playing, deleted, rows, checked>>

Run(t) ==
  /\ From(t, "run") /\ Goto(t, "release")
  /\ status' = [status EXCEPT ![ref[t]] = "running"]
  /\ UNCHANGED <<table, hashOf, playing, counter, deleted, rows, call, ref, checked>>

\* SetTaskPlaying
Play(t) ==
  /\ \/ From(t, "play") /\ Goto(t, "release") /\ playing' = [playing EXCEPT ![ref[t]] = TRUE]
     \/ From(t, "stopplay") /\ Goto(t, "limit") /\ playing' = [playing EXCEPT ![ref[t]] = FALSE]
  /\ UNCHANGED <<table, hashOf, status, counter, deleted, rows, call, ref, checked>>

Limit(t) ==
  /\ From(t, "limit") /\ Goto(t, "release")
  /\ status' = IF PausesAtStop(call[t]) THEN [status EXCEPT ![ref[t]] = "pause"] ELSE status
  /\ UNCHANGED <<table, hashOf, playing, counter, deleted, rows, call, ref, checked>>

-----------------------------------------------------------------------------
Calls(t, x) ==
  \/ CreateYfTask(t, x)
  \/ MayDelete(t, x) /\ Begin(t, x, "unplay")
  \/ Begin(t, x, "pause")
  \/ t \in App /\ \/ RunTask(t, x)
                  \/ Begin(t, x, "play")
                  \/ Begin(t, x, "stopplay")

Works(t) ==
  \/ Create(t) \/ Delete(t) \/ Pause(t) \/ Start(t) \/ Run(t) \/ Play(t) \/ Limit(t)
  \/ Release(t) \/ Test(t)

Next ==
  \/ \E t \in Threads, x \in Hash : Calls(t, x)
  \/ \E t \in Threads : Works(t)

Spec == Init /\ [][Next]_vars

-----------------------------------------------------------------------------
(* Properties.                                                             *)

\* A task in the map, or one that a thread has found there or just made, is not deleted
\* (who puts it in its list holds a bare pointer).
Holds(t, o) == ref[t] = o /\ pc[t] # "list"
HeldAlive ==
  \A o \in Object :
    (\E x \in Hash : taskMap[x] = o) \/ (\E t \in Threads : Holds(t, o)) => deleted[o] = 0

\* A deleted task that nobody holds is freed.
Forgotten(o) ==
  /\ hashOf[o] # None /\ taskMap[hashOf[o]] # o
  /\ \A t \in Threads : ref[t] # o /\ checked[t] # o
NoLeak == \A o \in Object : Forgotten(o) => deleted[o] > 0

\* A task that nobody creates or deletes is in its list: the walk finds it.
Changing(x) == \E t \in Threads : call[t] = x /\ pc[t] \in {"list", "unmap"}
MappedIsListed ==
  \A x \in Mapped : Changing(x) \/ \E i \in 1 .. Len(path[x]) : path[x][i] = taskMap[x]

\* README.md:231: at most MaxDown offline tasks download that are not played, but for
\* one whose playing just ends.
DownloadLimit ==
  Cardinality({x \in Downloading :
                 /\ ~ playing[taskMap[x]]
                 /\ \A t \in Threads : ~ (From(t, "limit") /\ call[t] = x)}) <= MaxDown

=============================================================================
