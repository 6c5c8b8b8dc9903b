--------------------------- MODULE TaskLimit_proofs ---------------------------
(***************************************************************************)
(* More proofs about TaskTable: every task in the map is in its list, for  *)
(* any threads; with one application thread no task is left behind when    *)
(* nobody holds it, and the limit on the downloads is kept.                *)
(***************************************************************************)
EXTENDS TaskTable_proofs

\* A step of one thread leaves the places and hands of the others alone.
LEMMA StepOthers ==
  ASSUME TypeOK, NEW t \in Threads, NEW x \in Hash, Calls(t, x) \/ Works(t)
  PROVE  Others(t)
<1>1. /\ pc \in [Threads -> Places] /\ call \in [Threads -> Hash \cup {None}]
      /\ ref \in [Threads -> Object \cup {None}] /\ checked \in [Threads -> Object \cup {None}]
  BY DEF TypeOK
<1>2. CASE Calls(t, x)
  BY <1>1, <1>2 DEF Calls, CreateYfTask, Begin, Find, Goto, RunTask, Others
<1>3. CASE Create(t)
  BY <1>1, <1>3 DEF Create, Insert, List, Row, AddRow, Find, Goto, Others
<1>4. CASE Delete(t)
  BY <1>1, <1>4 DEF Delete, Unplay, Stop, Unlist, Unmap, Goto, Others
<1>5. CASE Pause(t) \/ Start(t) \/ Run(t) \/ Play(t) \/ Limit(t)
  BY <1>1, <1>5 DEF Pause, Start, Run, Play, Limit, Find, Goto, Others
<1>6. CASE Release(t) \/ Test(t)
  BY <1>1, <1>6 DEF Release, Test, Goto, Others
<1> QED
  BY <1>2, <1>3, <1>4, <1>5, <1>6 DEF Works

\* Only four steps change the map or a list.
LEMMA StepTable ==
  ASSUME NEW t \in Threads, NEW x \in Hash, Calls(t, x) \/ Works(t)
  PROVE  \/ Insert(t) \/ List(t) \/ Unlist(t) \/ Unmap(t)
         \/ UNCHANGED table /\ pc[t] \notin {"insert", "list", "unlist", "unmap"}
<1>1. CASE Calls(t, x)
  BY <1>1 DEF Calls, CreateYfTask, Begin, RunTask, From
<1>2. CASE Row(t) \/ AddRow(t) \/ Unplay(t) \/ Stop(t)
  BY <1>2 DEF Row, AddRow, Unplay, Stop, From
<1>3. CASE Pause(t) \/ Start(t) \/ Run(t) \/ Play(t) \/ Limit(t) \/ Release(t) \/ Test(t)
  BY <1>3 DEF Pause, Start, Run, Play, Limit, Release, Test, From
<1> QED
  BY <1>1, <1>2, <1>3 DEF Works, Create, Delete

\* A thread that works does so for a task.
LEMMA WorksOnHash ==
  ASSUME TypeOK, NEW t \in Threads, Works(t)
  PROVE  Hash # {}
<1> SUFFICES ASSUME Hash = {} PROVE FALSE
  OBVIOUS
<1>1. pc[t] = "idle"
  BY DEF TypeOK
<1>2. ~ (Create(t) \/ Delete(t) \/ Pause(t) \/ Start(t))
  BY <1>1 DEF Create, Insert, List, Row, AddRow, Delete, Unplay, Stop, Unlist, Unmap, Pause, Start,
             From
<1>3. ~ (Run(t) \/ Play(t) \/ Limit(t) \/ Release(t) \/ Test(t))
  BY <1>1 DEF Run, Play, Limit, Release, Test, From
<1> QED
  BY <1>2, <1>3 DEF Works

-----------------------------------------------------------------------------
(* A task in the map is in its list, or the thread is known that will put  *)
(* it there, or one that will take it out of the map.                      *)

InList(x, o) == \E i \in 1 .. Len(path[x]) : path[x][i] = o
ToUnmap(x) == \E t \in Threads : call[t] = x /\ pc[t] = "unmap"
ToList(x, o) == \E t \in Threads : call[t] = x /\ pc[t] = "list" /\ ref[t] = o
Tracked(x) == InList(x, taskMap[x]) \/ ToUnmap(x) \/ ToList(x, taskMap[x])
AllTracked == \A x \in Mapped : Tracked(x)

\* What the other threads are about to do they still are.
LEMMA ToDoKept ==
  ASSUME NEW t \in Threads, Others(t), NEW x \in Hash, NEW o,
         pc[t] \in {"unmap", "list"} => call[t] # x
  PROVE  (ToUnmap(x) => ToUnmap(x)') /\ (ToList(x, o) => ToList(x, o)')
<1>1. ASSUME NEW u \in Threads, call[u] = x, pc[u] \in {"unmap", "list"}
      PROVE  u # t /\ call'[u] = x /\ pc'[u] = pc[u] /\ ref'[u] = ref[u]
  BY <1>1 DEF Others
<1> QED
  BY <1>1 DEF ToUnmap, ToList

LEMMA TrackedQuiet ==
  ASSUME AllTracked, NEW t \in Threads, Others(t), UNCHANGED table,
         pc[t] \notin {"insert", "list", "unlist", "unmap"}
  PROVE  AllTracked'
<1> SUFFICES ASSUME NEW x \in Mapped' PROVE Tracked(x)'
  BY DEF AllTracked
<1>1. x \in Mapped /\ UNCHANGED <<taskMap, path>> /\ x \in Hash
  BY DEF Mapped, table
<1>2. Tracked(x)
  BY <1>1 DEF AllTracked
<1>3. (ToUnmap(x) => ToUnmap(x)') /\ (ToList(x, taskMap[x]) => ToList(x, taskMap[x])')
  <2>1. /\ ToUnmap(x) => ToUnmap(x)'
        /\ \A o : ToList(x, o) => ToList(x, o)'
    BY <1>1, ToDoKept
  <2> QED
    BY <1>1, <2>1 DEF ToList
<1> QED
  BY <1>1, <1>2, <1>3 DEF Tracked, InList

LEMMA TrackedInsert ==
  ASSUME AllTracked, TypeOK, NEW t \in Threads, Others(t), Insert(t)
  PROVE  AllTracked'
<1> SUFFICES ASSUME NEW x \in Mapped' PROVE Tracked(x)'
  BY DEF AllTracked
<1>1. /\ pc[t] = "insert" /\ pc'[t] = "list" /\ call'[t] = call[t] /\ ref'[t] = ref[t]
      /\ taskMap' = [taskMap EXCEPT ![call[t]] = ref[t]] /\ UNCHANGED path
      /\ x \in Hash /\ taskMap \in [Hash -> Object \cup {None}]
  BY DEF Insert, From, Goto, TypeOK, Mapped
<1>2. CASE x = call[t]
  BY <1>1, <1>2 DEF Tracked, ToList
<1>3. CASE x # call[t]
  <2>1. taskMap'[x] = taskMap[x] /\ x \in Mapped /\ Tracked(x)
    BY <1>1, <1>3 DEF Mapped, AllTracked
  <2>2. ToUnmap(x) => ToUnmap(x)'
    BY <1>1, ToDoKept
  <2>3. ToList(x, taskMap[x]) => ToList(x, taskMap[x])'
    <3>1. \A o : ToList(x, o) => ToList(x, o)'
      BY <1>1, ToDoKept
    <3> QED
      BY <2>1, <3>1 DEF ToList
  <2> QED
    BY <1>1, <2>1, <2>2, <2>3 DEF Tracked, InList
<1> QED
  BY <1>2, <1>3

LEMMA AppendedIn ==
  ASSUME NEW s \in Seq(Object), NEW o \in Object, NEW a, a = Append(s, o)
  PROVE  /\ \A p : (\E i \in 1 .. Len(s) : s[i] = p) => \E i \in 1 .. Len(a) : a[i] = p
         /\ \E i \in 1 .. Len(a) : a[i] = o
<1>1. Len(s) \in Nat /\ Len(a) = Len(s) + 1 /\ a[Len(s) + 1] = o
  OBVIOUS
<1>2. \A i \in 1 .. Len(s) : a[i] = s[i] /\ i \in 1 .. Len(a)
  OBVIOUS
<1>3. Len(s) + 1 \in 1 .. Len(a)
  BY <1>1
<1> QED
  BY <1>1, <1>2, <1>3

LEMMA TrackedList ==
  ASSUME AllTracked, TypeOK, NEW t \in Threads, Others(t), List(t)
  PROVE  AllTracked'
<1> SUFFICES ASSUME NEW x \in Mapped' PROVE Tracked(x)'
  BY DEF AllTracked
<1>1. /\ pc[t] = "list" /\ path' = [path EXCEPT ![call[t]] = Append(@, ref[t])]
      /\ UNCHANGED taskMap /\ x \in Hash /\ x \in Mapped /\ Tracked(x)
  BY DEF List, From, Mapped, AllTracked
<1>2. call[t] \in Hash /\ ref[t] \in Object /\ path \in [Hash -> Seq(Object)]
  BY <1>1, HasType DEF TypeOK
<1>3. CASE x = call[t]
  <2>1. path[x] \in Seq(Object) /\ path'[x] = Append(path[x], ref[t])
    BY <1>1, <1>2, <1>3
  <2>2. /\ \A p : (\E i \in 1 .. Len(path[x]) : path[x][i] = p)
                   => \E i \in 1 .. Len(path'[x]) : path'[x][i] = p
        /\ \E i \in 1 .. Len(path'[x]) : path'[x][i] = ref[t]
    <3> DEFINE b == path[x]
               a == path'[x]
               o == ref[t]
    <3>1. b \in Seq(Object) /\ a = Append(b, o) /\ o \in Object
      BY <1>2, <2>1
    <3> HIDE DEF a, b, o
    <3>2. /\ \A p : (\E i \in 1 .. Len(b) : b[i] = p) => \E i \in 1 .. Len(a) : a[i] = p
          /\ \E i \in 1 .. Len(a) : a[i] = o
      BY <3>1, AppendedIn
    <3> QED
      BY <3>2 DEF a, b, o
  <2>3. ToList(x, taskMap[x]) => InList(x, taskMap[x])' \/ ToList(x, taskMap[x])'
    <3> SUFFICES ASSUME NEW u \in Threads, call[u] = x, pc[u] = "list", ref[u] = taskMap[x]
                 PROVE  InList(x, taskMap[x])' \/ ToList(x, taskMap[x])'
      BY DEF ToList
    <3>1. CASE u = t
      BY <1>1, <2>2, <3>1 DEF InList
    <3>2. CASE u # t
      BY <1>1, <3>2 DEF Others, ToList
    <3> QED
      BY <3>1, <3>2
  <2>4. ToUnmap(x) => ToUnmap(x)'
    BY <1>1 DEF ToUnmap, Others
  <2>5. InList(x, taskMap[x]) => InList(x, taskMap[x])'
    BY <1>1, <2>2 DEF InList
  <2> QED
    BY <1>1, <2>3, <2>4, <2>5 DEF Tracked
<1>4. CASE x # call[t]
  <2>1. path'[x] = path[x]
    BY <1>1, <1>2, <1>4
  <2>2. ToUnmap(x) => ToUnmap(x)'
    BY <1>1, <1>4, ToDoKept
  <2>3. \A o : ToList(x, o) => ToList(x, o)'
    BY <1>1, <1>4, ToDoKept
  <2>4. ToList(x, taskMap[x]) => ToList(x, taskMap[x])'
    BY <1>1, <2>3 DEF ToList
  <2> QED
    BY <1>1, <2>1, <2>2, <2>4 DEF Tracked, InList
<1> QED
  BY <1>3, <1>4

\* Whoever takes a task off its list takes it out of the map next.
LEMMA TrackedUnlist ==
  ASSUME AllTracked, TypeOK, NEW t \in Threads, Others(t), Unlist(t)
  PROVE  AllTracked'
<1> SUFFICES ASSUME NEW x \in Mapped' PROVE Tracked(x)'
  BY DEF AllTracked
<1>1. /\ pc[t] = "unlist" /\ pc'[t] = "unmap" /\ UNCHANGED <<taskMap, call>>
      /\ path' = [path EXCEPT ![call[t]] = IF @ = << >> THEN @ ELSE Tail(@)]
      /\ x \in Hash /\ x \in Mapped /\ Tracked(x)
      /\ pc \in [Threads -> Places] /\ path \in [Hash -> Seq(Object)]
  BY DEF Unlist, From, Goto, Mapped, AllTracked, TypeOK
<1>2. CASE x = call[t]
  BY <1>1, <1>2 DEF Tracked, ToUnmap
<1>3. CASE x # call[t]
  <2>1. path'[x] = path[x]
    BY <1>1, <1>3
  <2>2. ToUnmap(x) => ToUnmap(x)'
    BY <1>1, ToDoKept
  <2>3. \A o : ToList(x, o) => ToList(x, o)'
    BY <1>1, ToDoKept
  <2>4. ToList(x, taskMap[x]) => ToList(x, taskMap[x])'
    BY <1>1, <2>3 DEF ToList
  <2> QED
    BY <1>1, <2>1, <2>2, <2>4 DEF Tracked, InList
<1> QED
  BY <1>2, <1>3

LEMMA TrackedUnmap ==
  ASSUME AllTracked, TypeOK, NEW t \in Threads, Others(t), Unmap(t)
  PROVE  AllTracked'
<1> SUFFICES ASSUME NEW x \in Mapped' PROVE Tracked(x)'
  BY DEF AllTracked
<1>1. /\ pc[t] = "unmap" /\ UNCHANGED path /\ x \in Hash
      /\ taskMap' \in {taskMap, [taskMap EXCEPT ![call[t]] = None]}
      /\ taskMap[call[t]] = None => UNCHANGED taskMap
      /\ taskMap[call[t]] # None => taskMap' = [taskMap EXCEPT ![call[t]] = None]
      /\ call[t] \in Hash /\ taskMap \in [Hash -> Object \cup {None}]
  BY HasType DEF Unmap, From, Mapped, TypeOK
<1>2. x # call[t] /\ taskMap'[x] = taskMap[x] /\ x \in Mapped
  BY <1>1 DEF Mapped
<1>3. Tracked(x)
  BY <1>2 DEF AllTracked
<1>4. ToUnmap(x) => ToUnmap(x)'
  BY <1>1, <1>2, ToDoKept
<1>5. \A o : ToList(x, o) => ToList(x, o)'
  BY <1>1, <1>2, ToDoKept
<1>6. ToList(x, taskMap[x]) => ToList(x, taskMap[x])'
  BY <1>2, <1>5 DEF ToList
<1> QED
  BY <1>1, <1>2, <1>3, <1>4, <1>6 DEF Tracked, InList

LEMMA TrackedStep == ASSUME AllTracked, IInv, [Next]_vars PROVE AllTracked'
<1>1. ASSUME NEW t \in Threads, NEW x \in Hash, Calls(t, x) \/ Works(t) PROVE AllTracked'
  <2>1. Others(t)
    BY <1>1, StepOthers DEF IInv
  <2>2. \/ Insert(t) \/ List(t) \/ Unlist(t) \/ Unmap(t)
        \/ UNCHANGED table /\ pc[t] \notin {"insert", "list", "unlist", "unmap"}
    BY <1>1, StepTable
  <2> QED
    BY <2>1, <2>2, TrackedQuiet, TrackedInsert, TrackedList, TrackedUnlist, TrackedUnmap
       DEF IInv
<1>2. CASE UNCHANGED vars
  BY <1>2 DEF vars, table, thread, AllTracked, Tracked, InList, ToUnmap, ToList, Mapped
<1>3. CASE \E t \in Threads : Works(t)
  <2>1. PICK t \in Threads : Works(t)
    BY <1>3
  <2>2. Hash # {}
    BY <2>1, WorksOnHash DEF IInv
  <2> QED
    BY <1>1, <2>1, <2>2
<1> QED
  BY <1>1, <1>2, <1>3 DEF Next

LEMMA TrackedInit == Init => AllTracked
<1> SUFFICES ASSUME Init, NEW x \in Mapped PROVE Tracked(x)
  BY DEF AllTracked
<1>1. PICK loaded \in SUBSET Hash :
        /\ taskMap = [y \in Hash |-> IF y \in loaded THEN y ELSE None]
        /\ path = [y \in Hash |-> IF y \in loaded THEN <<y>> ELSE << >>]
  BY DEF Init
<1>2. x \in loaded /\ taskMap[x] = x /\ path[x] = <<x>>
  BY <1>1, Basics DEF Mapped
<1>3. 1 \in 1 .. Len(path[x]) /\ path[x][1] = taskMap[x]
  BY <1>2
<1> QED
  BY <1>3 DEF Tracked, InList

\* CTaskMgr::CreateYfTask, DelOneTask, DelTask: a task in the map that no thread is just
\* adding or removing is in its list, so that the periodic pass finds it.
THEOREM AllListed == Spec => []MappedIsListed
<1>1. Init => AllTracked
  BY TrackedInit
<1>2. AllTracked /\ IInv /\ [Next]_vars => AllTracked'
  BY TrackedStep
<1>3. AllTracked => MappedIsListed
  BY DEF AllTracked, Tracked, InList, ToUnmap, ToList, MappedIsListed, Changing
<1> QED
  BY <1>1, <1>2, <1>3, Invariance, PTL DEF Spec

-----------------------------------------------------------------------------
(* One application thread.  Nothing is added to the map behind its back,   *)
(* and the message thread deletes no offline task.                         *)

OneApp == \A a, b \in App : a = b

OnlyApp == {"insert", "list", "row", "addrow", "start", "run", "play", "stopplay", "limit"}
Deleting == {"unplay", "stop", "unlist", "unmap"}

Roles ==
  \A t \in Threads : /\ pc[t] \in OnlyApp => t \in App
                     /\ pc[t] \in Deleting => t \in App \/ call[t] \notin Offline

LEMMA RolesStep ==
  ASSUME Roles, TypeOK, NEW t \in Threads, NEW x \in Hash, Calls(t, x) \/ Works(t)
  PROVE  Roles'
<1>1. Others(t) /\ pc \in [Threads -> Places] /\ call \in [Threads -> Hash \cup {None}]
  BY StepOthers DEF TypeOK
<1>2. /\ pc'[t] \in OnlyApp => t \in App
      /\ pc'[t] \in Deleting => t \in App \/ call'[t] \notin Offline
  <2>1. CASE Calls(t, x)
    BY <1>1, <2>1 DEF Calls, CreateYfTask, Begin, Find, MayDelete, RunTask, Goto, OnlyApp, Deleting
  <2>2. CASE Create(t)
    BY <1>1, <2>2 DEF Roles, Create, Insert, List, Row, AddRow, Find, From, Goto, OnlyApp, Deleting
  <2>3. CASE Delete(t)
    BY <1>1, <2>3 DEF Roles, Delete, Unplay, Stop, Unlist, Unmap, From, Goto, OnlyApp, Deleting
  <2>4. CASE Pause(t) \/ Start(t) \/ Run(t) \/ Play(t) \/ Limit(t)
    BY <1>1, <2>4
       DEF Roles, Pause, Start, Run, Play, Limit, Find, From, Goto, OnlyApp, Deleting
  <2>5. CASE Release(t) \/ Test(t)
    BY <1>1, <2>5 DEF Release, Test, From, Goto, OnlyApp, Deleting
  <2> QED
    BY <2>1, <2>2, <2>3, <2>4, <2>5 DEF Works
<1>3. \A u \in Threads \ {t} : /\ pc'[u] \in OnlyApp => u \in App
                               /\ pc'[u] \in Deleting => u \in App \/ call'[u] \notin Offline
  BY <1>1 DEF Roles, Others
<1> QED
  BY <1>2, <1>3 DEF Roles

\* What a step does to the hands of its thread, to the map and to the objects made.
Found(t, x) ==
  /\ x \in Mapped /\ ref[t] = None /\ ref'[t] = taskMap[x] /\ call'[t] = x /\ checked[t] = None
  /\ counter' = [counter EXCEPT ![taskMap[x]] = @ + 1] /\ pc[t] # "list"
  /\ pc'[t] \notin {"insert", "list"}
  /\ UNCHANGED <<taskMap, hashOf, status, playing, deleted>> /\ checked'[t] = None
Quietly(t) ==
  /\ UNCHANGED <<taskMap, hashOf, counter>>
  /\ \/ ref'[t] = ref[t] /\ (ref[t] # None => call'[t] = call[t] /\ pc[t] # "list")
     \/ pc[t] = "list" /\ ref'[t] = None
  /\ pc'[t] \notin {"insert", "list"}

LEMMA StepKinds ==
  ASSUME IInv, NEW t \in Threads, NEW x \in Hash, Calls(t, x) \/ Works(t)
  PROVE  \/ CreateYfTask(t, x) \/ Insert(t) \/ Unmap(t) \/ Release(t) \/ Test(t)
         \/ \E y \in Hash : Found(t, y)
         \/ Quietly(t) /\ UNCHANGED <<deleted, checked>>
<1>1. /\ pc \in [Threads -> Places] /\ call \in [Threads -> Hash \cup {None}]
      /\ ref \in [Threads -> Object \cup {None}] /\ checked \in [Threads -> Object \cup {None}]
  BY DEF IInv, TypeOK
<1>2. ASSUME NEW place \in {"unplay", "pause", "play", "stopplay"}, Begin(t, x, place)
      PROVE  Found(t, x)
  BY <1>1, <1>2, HasType DEF IInv, Begin, Find, Found, From, Goto, table
<1>3. CASE RunTask(t, x)
  BY <1>1, <1>3, HasType DEF IInv, RunTask, Quietly, From, Goto, table, task
<1>4. CASE Calls(t, x)
  BY <1>2, <1>3, <1>4 DEF Calls
<1>5. CASE Row(t) \/ Start(t)
  <2>1. pc[t] \in {"row", "start"} /\ call[t] \in Hash /\ ref[t] = None /\ checked[t] = None
    BY <1>5, HasType DEF IInv, Row, Start, From
  <2>2. CASE call[t] \in Mapped
    <3>1. Found(t, call[t])
      BY <1>1, <1>5, <2>1, <2>2 DEF Row, Start, Find, Found, Goto, table
    <3> QED
      BY <2>1, <3>1
  <2>3. CASE call[t] \notin Mapped
    BY <1>1, <1>5, <2>1, <2>3 DEF Row, Start, Quietly, Goto, table
  <2> QED
    BY <2>2, <2>3
<1>6. CASE List(t)
  BY <1>1, <1>6 DEF List, Quietly, From, Goto, task
<1>7. CASE AddRow(t) \/ Unplay(t) \/ Stop(t) \/ Unlist(t)
  BY <1>1, <1>7 DEF AddRow, Unplay, Stop, Unlist, Quietly, From, Goto, table, task
<1>8. CASE Pause(t) \/ Run(t) \/ Play(t) \/ Limit(t)
  BY <1>1, <1>8 DEF Pause, Run, Play, Limit, Quietly, From, Goto, table
<1> QED
  BY <1>4, <1>5, <1>6, <1>7, <1>8 DEF Works, Create, Delete

\* A thread that adds a task finds none in the map.
Fresh == \A t \in Threads : pc[t] = "insert" => call[t] \notin Mapped

LEMMA FreshStep ==
  ASSUME OneApp, Roles, Fresh, IInv, NEW t \in Threads, NEW x \in Hash, Calls(t, x) \/ Works(t)
  PROVE  Fresh'
<1> SUFFICES ASSUME NEW u \in Threads, pc'[u] = "insert" PROVE call'[u] \notin Mapped'
  BY DEF Fresh
<1>1. Others(t) /\ TypeOK /\ pc \in [Threads -> Places] /\ call \in [Threads -> Hash \cup {None}]
  BY StepOthers DEF IInv, TypeOK
<1>2. CASE CreateYfTask(t, x)
  BY <1>1, <1>2 DEF CreateYfTask, From, Goto, Fresh, Others, Mapped, table
<1>3. CASE Insert(t)
  <2>1. t \in App /\ pc[t] = "insert" /\ pc'[t] = "list"
    BY <1>1, <1>3 DEF Insert, From, Goto, Roles, OnlyApp
  <2>2. u # t /\ pc[u] = "insert"
    BY <1>1, <2>1 DEF Others
  <2>3. u \in App
    BY <2>2 DEF Roles, OnlyApp
  <2> QED
    BY <2>1, <2>2, <2>3 DEF OneApp
<1>4. CASE ~ CreateYfTask(t, x) /\ ~ Insert(t)
  <2>1. /\ pc'[t] # "insert" /\ \A y \in Hash : taskMap'[y] \in {taskMap[y], None}
    <3>1. CASE Unmap(t)
      BY <1>1, <3>1 DEF Unmap, From, Goto, TypeOK
    <3>2. CASE Release(t) \/ Test(t)
      BY <1>1, <3>2 DEF Release, Test, Goto, table
    <3>3. CASE (\E y \in Hash : Found(t, y)) \/ Quietly(t)
      BY <3>3 DEF Found, Quietly
    <3> QED
      BY <1>4, <3>1, <3>2, <3>3, StepKinds
  <2> QED
    BY <1>1, <2>1 DEF Fresh, Others, Mapped
<1> QED
  BY <1>2, <1>3, <1>4

-----------------------------------------------------------------------------
(* The counter is exactly the number of references.                        *)

Num(b) == IF b THEN 1 ELSE 0
Refs(o) == Cardinality(Holders(ref, pc, o)) + Num(InMap(o))
Exact == \A o \in Object : counter[o] = Refs(o)

LEMMA ExactChange ==
  ASSUME Exact, NEW t \in Threads, Others(t), NEW o \in Object,
         counter'[o] = counter[o] + (Num(Holds(t, o)') - Num(Holds(t, o)))
                                  + (Num(InMap(o)') - Num(InMap(o)))
  PROVE  counter'[o] = Refs(o)'
<1> DEFINE m == Cardinality(Holders(ref, pc, o))
           n == Cardinality(Holders(ref', pc', o))
<1>1. /\ t \in Holders(ref, pc, o) <=> Holds(t, o)
      /\ t \in Holders(ref', pc', o) <=> Holds(t, o)'
  BY DEF Holders, Holds
<1>2. m \in Nat /\ n \in Nat
  BY HoldersFinite
<1>3. n = m + (Num(Holds(t, o)') - Num(Holds(t, o)))
  <2>1. /\ (Holds(t, o) <=> Holds(t, o)') => n = m
        /\ ~ Holds(t, o) /\ Holds(t, o)' => n = m + 1
        /\ Holds(t, o) /\ ~ Holds(t, o)' => n = m - 1
    BY <1>1, HoldersStep DEF Others
  <2> HIDE DEF m, n
  <2> QED
    BY <1>2, <2>1 DEF Num
<1>4. counter[o] = m + Num(InMap(o))
  BY DEF Exact, Refs
<1>5. Refs(o)' = n + Num(InMap(o)')
  BY DEF Refs, Num
<1>6. /\ Num(InMap(o)) \in Nat /\ Num(InMap(o)') \in Nat
      /\ Num(Holds(t, o)) \in Nat /\ Num(Holds(t, o)') \in Nat
  BY DEF Num
<1> HIDE DEF m, n
<1> QED
  BY <1>2, <1>3, <1>4, <1>5, <1>6

LEMMA ExactFound ==
  ASSUME Exact, IInv, NEW t \in Threads, Others(t), NEW x \in Hash, Found(t, x)
  PROVE  Exact'
<1> SUFFICES ASSUME NEW o \in Object PROVE counter'[o] = Refs(o)'
  BY DEF Exact
<1>1. /\ ref[t] = None /\ ref'[t] = taskMap[x] /\ pc'[t] # "list" /\ UNCHANGED taskMap
      /\ counter' = [counter EXCEPT ![taskMap[x]] = @ + 1] /\ counter \in [Object -> Int]
  BY DEF Found, IInv, TypeOK
<1>2. ~ Holds(t, o) /\ (Holds(t, o)' <=> o = taskMap[x]) /\ (InMap(o)' <=> InMap(o))
  BY <1>1, Basics DEF Holds, InMap
<1>3. counter'[o] = counter[o] + (Num(Holds(t, o)') - Num(Holds(t, o)))
                               + (Num(InMap(o)') - Num(InMap(o)))
  BY <1>1, <1>2 DEF Num
<1> QED
  BY <1>3, ExactChange

LEMMA ExactQuietly ==
  ASSUME Exact, IInv, NEW t \in Threads, Others(t), Quietly(t)
  PROVE  Exact'
<1> SUFFICES ASSUME NEW o \in Object PROVE counter'[o] = Refs(o)'
  BY DEF Exact
<1>1. /\ UNCHANGED <<taskMap, counter>> /\ counter[o] \in Int
      /\ (Holds(t, o)' <=> Holds(t, o)) /\ (InMap(o)' <=> InMap(o))
  BY Basics DEF Quietly, Holds, InMap, IInv, TypeOK
<1>2. counter'[o] = counter[o] + (Num(Holds(t, o)') - Num(Holds(t, o)))
                               + (Num(InMap(o)') - Num(InMap(o)))
  BY <1>1 DEF Num
<1> QED
  BY <1>2, ExactChange

LEMMA ExactRelease ==
  ASSUME Exact, IInv, NEW t \in Threads, Others(t), Release(t) \/ Test(t)
  PROVE  Exact'
<1> SUFFICES ASSUME NEW o \in Object PROVE counter'[o] = Refs(o)'
  BY DEF Exact
<1>1. UNCHANGED taskMap /\ counter \in [Object -> Int] /\ (InMap(o)' <=> InMap(o))
  BY DEF Release, Test, table, InMap, IInv, TypeOK
<1>2. CASE Release(t)
  <2>1. /\ pc[t] = "release" /\ ref'[t] = None /\ counter' = [counter EXCEPT ![ref[t]] = @ - 1]
    BY <1>2 DEF Release, From, IInv, TypeOK
  <2>2. (Holds(t, o) <=> o = ref[t]) /\ ~ Holds(t, o)'
    BY <2>1, Basics DEF Holds
  <2>3. counter'[o] = counter[o] + (Num(Holds(t, o)') - Num(Holds(t, o)))
                                 + (Num(InMap(o)') - Num(InMap(o)))
    BY <1>1, <2>1, <2>2 DEF Num
  <2> QED
    BY <2>3, ExactChange
<1>3. CASE Test(t)
  <2>1. /\ UNCHANGED <<counter, ref>> /\ pc[t] # "list" /\ pc'[t] # "list"
    BY <1>3 DEF Test, From, Goto, IInv, TypeOK
  <2>2. Holds(t, o)' <=> Holds(t, o)
    BY <2>1 DEF Holds
  <2>3. counter'[o] = counter[o] + (Num(Holds(t, o)') - Num(Holds(t, o)))
                                 + (Num(InMap(o)') - Num(InMap(o)))
    BY <1>1, <2>1, <2>2 DEF Num
  <2> QED
    BY <2>3, ExactChange
<1> QED
  BY <1>2, <1>3

LEMMA ExactCreate ==
  ASSUME Exact, IInv, NEW t \in Threads, Others(t), NEW x \in Hash, CreateYfTask(t, x)
  PROVE  Exact'
<1> SUFFICES ASSUME NEW o \in Object PROVE counter'[o] = Refs(o)'
  BY DEF Exact
<1>1. PICK p \in Unused : /\ counter' = [counter EXCEPT ![p] = 1]
                          /\ ref' = [ref EXCEPT ![t] = p]
  BY DEF CreateYfTask
<1>2. /\ p \in Object /\ hashOf[p] = None /\ ref[t] = None /\ ref'[t] = p /\ pc'[t] # "list"
      /\ UNCHANGED taskMap /\ counter \in [Object -> Int]
  BY <1>1, HasType DEF Unused, CreateYfTask, From, Goto, IInv, TypeOK, table
\* Nobody knows it.
<1>3. counter[p] = 0
  <2>1. ~ InMap(p)
    BY <1>2, Basics DEF IInv, OwnHash, InMap, Mapped
  <2>2. \A u \in Threads : ref[u] # p
    BY <1>2, Basics DEF IInv, Made
  <2>3. Holders(ref, pc, p) = {}
    BY <2>2 DEF Holders
  <2>4. Cardinality(Holders(ref, pc, p)) = 0
    BY <2>3, FS_EmptySet
  <2> QED
    BY <1>2, <2>1, <2>4 DEF Exact, Refs, Num
<1>4. ~ Holds(t, o) /\ (Holds(t, o)' <=> o = p) /\ (InMap(o)' <=> InMap(o))
  BY <1>2, Basics DEF Holds, InMap
<1>5. counter'[o] = counter[o] + (Num(Holds(t, o)') - Num(Holds(t, o)))
                               + (Num(InMap(o)') - Num(InMap(o)))
  BY <1>1, <1>2, <1>3, <1>4 DEF Num
<1> QED
  BY <1>5, ExactChange

\* The reference becomes the map's, which had none for this hash.
LEMMA ExactInsert ==
  ASSUME Exact, IInv, Fresh, NEW t \in Threads, Others(t), Insert(t)
  PROVE  Exact'
<1> SUFFICES ASSUME NEW o \in Object PROVE counter'[o] = Refs(o)'
  BY DEF Exact
<1> DEFINE p == ref[t]
           x == call[t]
<1>1. /\ pc[t] = "insert" /\ pc'[t] = "list" /\ taskMap' = [taskMap EXCEPT ![x] = p]
      /\ UNCHANGED <<counter, hashOf>> /\ counter \in [Object -> Int]
      /\ x \in Hash /\ p \in Object /\ taskMap \in [Hash -> Object \cup {None}]
  BY HasType DEF Insert, From, Goto, IInv, TypeOK, task
<1>2. taskMap[x] = None /\ hashOf[p] = x
  BY <1>1 DEF Fresh, Mapped, IInv, OwnHash
<1>3. ~ InMap(p)
  <2>1. \A y \in Hash : taskMap[y] = p => y = x
    BY <1>1, <1>2, Basics DEF IInv, OwnHash, Mapped
  <2> QED
    BY <1>1, <1>2, <2>1, Basics DEF InMap
<1>4. InMap(o)' <=> InMap(o) \/ o = p
  <2>1. \A y \in Hash : taskMap'[y] = IF y = x THEN p ELSE taskMap[y]
    BY <1>1
  <2>2. o # None
    BY Basics
  <2> HIDE DEF p, x
  <2> QED
    BY <1>1, <1>2, <2>1, <2>2 DEF InMap
<1>5. (Holds(t, o) <=> o = p) /\ ~ Holds(t, o)'
  BY <1>1 DEF Holds
<1>6. counter'[o] = counter[o] + (Num(Holds(t, o)') - Num(Holds(t, o)))
                               + (Num(InMap(o)') - Num(InMap(o)))
  BY <1>1, <1>3, <1>4, <1>5 DEF Num
<1> QED
  BY <1>6, ExactChange

\* The map gives its reference up.
LEMMA OutOfMap ==
  ASSUME IInv, NEW x \in Hash, NEW p \in Object, p = taskMap[x],
         taskMap' = [taskMap EXCEPT ![x] = None], NEW o \in Object
  PROVE  InMap(p) /\ ~ InMap(p)' /\ (o # p => (InMap(o)' <=> InMap(o)))
<1>1. taskMap \in [Hash -> Object \cup {None}] /\ o # None /\ p # None
  BY Basics DEF IInv, TypeOK
<1>2. \A y \in Hash : taskMap'[y] = IF y = x THEN None ELSE taskMap[y]
  BY <1>1
<1>3. \A y \in Hash : taskMap[y] = p => y = x
  BY <1>1 DEF IInv, OwnHash, Mapped
<1> QED
  BY <1>1, <1>2, <1>3 DEF InMap

LEMMA ExactUnmap ==
  ASSUME Exact, IInv, NEW t \in Threads, Others(t), Unmap(t)
  PROVE  Exact'
<1> SUFFICES ASSUME NEW o \in Object PROVE counter'[o] = Refs(o)'
  BY DEF Exact
<1>1. /\ pc[t] = "unmap" /\ pc'[t] # "list" /\ UNCHANGED ref /\ call[t] \in Hash
      /\ counter \in [Object -> Int] /\ taskMap[call[t]] \in Object \cup {None}
  BY HasType DEF Unmap, From, Goto, IInv, TypeOK
<1>2. Holds(t, o)' <=> Holds(t, o)
  BY <1>1 DEF Holds
<1>3. CASE taskMap[call[t]] = None
  <2>1. UNCHANGED <<taskMap, counter>> /\ (InMap(o)' <=> InMap(o))
    BY <1>3 DEF Unmap, InMap
  <2>2. counter'[o] = counter[o] + (Num(Holds(t, o)') - Num(Holds(t, o)))
                                 + (Num(InMap(o)') - Num(InMap(o)))
    BY <1>1, <1>2, <2>1 DEF Num
  <2> QED
    BY <2>2, ExactChange
<1>4. ASSUME NEW p \in Object, p = taskMap[call[t]] PROVE counter'[o] = Refs(o)'
  <2>1. /\ taskMap' = [taskMap EXCEPT ![call[t]] = None]
        /\ counter' = [counter EXCEPT ![p] = @ - 1]
    BY <1>4, Basics DEF Unmap
  <2>2. InMap(p) /\ ~ InMap(p)' /\ (o # p => (InMap(o)' <=> InMap(o)))
    BY <1>1, <1>4, <2>1, OutOfMap
  <2>3. counter'[o] = counter[o] + (Num(InMap(o)') - Num(InMap(o)))
    <3>1. CASE o = p
      <4>1. Num(InMap(o)) = 1 /\ Num(InMap(o)') = 0
        BY <2>2, <3>1 DEF Num
      <4>2. counter'[o] = counter[o] - 1 /\ counter[o] \in Int
        BY <1>1, <2>1, <3>1
      <4> QED
        BY <4>1, <4>2
    <3>2. CASE o # p
      <4>1. Num(InMap(o)') = Num(InMap(o)) /\ Num(InMap(o)) \in Int
        BY <2>2, <3>2 DEF Num
      <4>2. counter'[o] = counter[o] /\ counter[o] \in Int
        BY <1>1, <2>1, <3>2
      <4> QED
        BY <4>1, <4>2
    <3> QED
      BY <3>1, <3>2
  <2>4. Num(Holds(t, o)') - Num(Holds(t, o)) = 0 /\ counter[o] \in Int
    BY <1>1, <1>2 DEF Num
  <2>5. counter'[o] = counter[o] + (Num(Holds(t, o)') - Num(Holds(t, o)))
                                 + (Num(InMap(o)') - Num(InMap(o)))
    BY <2>3, <2>4
  <2> QED
    BY <2>5, ExactChange
<1> QED
  BY <1>1, <1>3, <1>4

LEMMA ExactStep ==
  ASSUME Exact, IInv, Fresh, NEW t \in Threads, NEW x \in Hash, Calls(t, x) \/ Works(t)
  PROVE  Exact'
<1>1. Others(t)
  BY StepOthers DEF IInv
<1> QED
  BY <1>1, StepKinds, ExactCreate, ExactInsert, ExactUnmap, ExactRelease, ExactFound, ExactQuietly

-----------------------------------------------------------------------------
(* Every task that was made is known to somebody until it is deleted.      *)

Tests(o) == \E t \in Threads : checked[t] = o
Known(o) == InMap(o) \/ (\E t \in Threads : Holds(t, o)) \/ Tests(o)
Reach == \A o \in Object : hashOf[o] # None => deleted[o] > 0 \/ Known(o)

\* A counter that is not 0 counts somebody.
LEMMA CountsSomebody ==
  ASSUME Exact, NEW o \in Object, counter[o] # 0
  PROVE  InMap(o) \/ \E t \in Threads : Holds(t, o)
<1> SUFFICES ASSUME ~ InMap(o), \A t \in Threads : ~ Holds(t, o) PROVE FALSE
  OBVIOUS
<1>1. Holders(ref, pc, o) = {}
  BY DEF Holders, Holds
<1>2. Cardinality(Holders(ref, pc, o)) = 0
  BY <1>1, FS_EmptySet
<1> QED
  BY <1>2 DEF Exact, Refs, Num

\* What the other threads know they still know.
LEMMA KnownByOthers ==
  ASSUME NEW t \in Threads, Others(t), NEW o \in Object, Known(o)
  PROVE  InMap(o) \/ Holds(t, o) \/ checked[t] = o \/ Known(o)'
<1>1. ASSUME NEW u \in Threads, u # t, Holds(u, o) \/ checked[u] = o PROVE Known(o)'
  BY <1>1 DEF Others, Known, Holds, Tests
<1> QED
  BY <1>1 DEF Known, Tests

LEMMA ReachStep ==
  ASSUME Reach, Exact, Fresh, IInv, NEW t \in Threads, NEW x \in Hash, Calls(t, x) \/ Works(t)
  PROVE  Reach'
<1> SUFFICES ASSUME NEW o \in Object, hashOf'[o] # None, ~ (deleted'[o] > 0) PROVE Known(o)'
  BY DEF Reach
<1>1. Others(t) /\ TypeOK
  BY StepOthers DEF IInv
<1>2. CASE CreateYfTask(t, x)
  <2>1. PICK p \in Unused : /\ hashOf' = [hashOf EXCEPT ![p] = x]
                            /\ ref' = [ref EXCEPT ![t] = p]
    BY <1>2 DEF CreateYfTask
  <2>2. /\ ref'[t] = p /\ pc'[t] = "insert" /\ pc[t] = "idle" /\ ref[t] = None /\ checked[t] = None
        /\ UNCHANGED <<taskMap, deleted>> /\ (o # p => hashOf'[o] = hashOf[o])
    BY <1>1, <1>2, <2>1, HasType DEF CreateYfTask, From, Goto, TypeOK, table
  <2>3. CASE o = p
    BY <2>2, <2>3 DEF Known, Holds
  <2>4. CASE o # p
    <3>1. Known(o)
      BY <2>2, <2>4 DEF Reach
    <3>2. InMap(o) => InMap(o)'
      BY <2>2 DEF InMap
    <3> QED
      BY <1>1, <2>2, <3>1, <3>2, KnownByOthers, Basics DEF Known, Holds
  <2> QED
    BY <2>3, <2>4
<1>3. CASE Test(t)
  <2>1. /\ UNCHANGED <<taskMap, hashOf, counter, ref>> /\ DeleteIfZero(checked[t])
        /\ pc[t] # "list" /\ pc'[t] # "list" /\ checked[t] \in Object
    BY <1>1, <1>3, HasType DEF Test, From, Goto, TypeOK, table
  <2>2. (InMap(o) => InMap(o)') /\ (Holds(t, o) => Holds(t, o)')
    BY <2>1 DEF InMap, Holds
  <2>3. ~ (deleted[o] > 0)
    <3>1. deleted[o] \in Nat /\ deleted \in [Object -> Nat]
      BY <1>1 DEF TypeOK
    <3>2. deleted' = [deleted EXCEPT ![checked[t]] = @ + 1] => deleted'[o] >= deleted[o]
      BY <3>1
    <3>3. UNCHANGED deleted \/ deleted' = [deleted EXCEPT ![checked[t]] = @ + 1]
      BY <2>1 DEF DeleteIfZero
    <3> QED
      BY <3>1, <3>2, <3>3
  <2>4. Known(o)
    BY <2>1, <2>3 DEF Reach
  <2>5. CASE checked[t] = o
    <3>1. counter[o] # 0
      BY <1>1, <2>1, <2>3, <2>5 DEF DeleteIfZero, TypeOK
    <3>2. InMap(o) \/ \E u \in Threads : Holds(u, o)
      BY <3>1, CountsSomebody
    <3>3. ASSUME NEW u \in Threads, Holds(u, o) PROVE Holds(u, o)'
      <4>1. CASE u = t
        BY <2>2, <3>3, <4>1
      <4>2. CASE u # t
        BY <1>1, <3>3, <4>2 DEF Others, Holds
      <4> QED
        BY <4>1, <4>2
    <3> QED
      BY <2>2, <3>2, <3>3 DEF Known
  <2>6. CASE checked[t] # o
    BY <1>1, <2>2, <2>4, <2>6, KnownByOthers DEF Known
  <2> QED
    BY <2>5, <2>6
<1>4. CASE Release(t)
  <2>1. /\ pc[t] = "release" /\ checked'[t] = ref[t] /\ checked[t] = None
        /\ UNCHANGED <<taskMap, hashOf, deleted>>
    BY <1>1, <1>4, HasType DEF Release, From, TypeOK, table
  <2>2. Known(o)
    BY <2>1 DEF Reach
  <2>3. (InMap(o) => InMap(o)') /\ (Holds(t, o) => Tests(o)')
    BY <2>1 DEF InMap, Holds, Tests
  <2> QED
    BY <1>1, <2>1, <2>2, <2>3, KnownByOthers, Basics DEF Known
<1>5. CASE Insert(t)
  <2>1. /\ pc[t] = "insert" /\ call[t] \in Hash /\ taskMap' = [taskMap EXCEPT ![call[t]] = ref[t]]
        /\ UNCHANGED <<hashOf, deleted>> /\ checked[t] = None /\ taskMap[call[t]] = None
    BY <1>1, <1>5, HasType DEF Insert, From, TypeOK, task, Fresh, Mapped
  <2>2. Known(o)
    BY <2>1 DEF Reach
  <2>3. /\ InMap(o) => InMap(o)'
        /\ Holds(t, o) => InMap(o)'
    BY <1>1, <2>1, Basics DEF InMap, Holds, TypeOK
  <2> QED
    BY <1>1, <2>1, <2>2, <2>3, KnownByOthers, Basics DEF Known
<1>6. CASE Unmap(t)
  <2>1. /\ pc[t] = "unmap" /\ call[t] \in Hash /\ UNCHANGED <<ref, hashOf, deleted>>
        /\ checked[t] = None /\ pc'[t] # "list"
    BY <1>1, <1>6, HasType DEF Unmap, From, Goto, TypeOK
  <2>2. Known(o) /\ (Holds(t, o) => Holds(t, o)')
    BY <2>1 DEF Reach, Holds
  <2>3. InMap(o) => InMap(o)' \/ Tests(o)'
    <3>1. CASE taskMap[call[t]] = None
      BY <1>6, <3>1 DEF Unmap, InMap
    <3>2. CASE taskMap[call[t]] # None
      <4>1. /\ taskMap' = [taskMap EXCEPT ![call[t]] = None] /\ checked'[t] = taskMap[call[t]]
        BY <1>1, <1>6, <3>2 DEF Unmap, TypeOK
      <4> QED
        BY <1>1, <2>1, <4>1 DEF InMap, Tests, TypeOK
    <3> QED
      BY <3>1, <3>2
  <2> QED
    BY <1>1, <2>1, <2>2, <2>3, KnownByOthers, Basics DEF Known
<1>7. CASE \E y \in Hash : Found(t, y)
  <2>1. /\ UNCHANGED <<taskMap, hashOf, deleted>> /\ ref[t] = None /\ checked[t] = None
    BY <1>7 DEF Found
  <2>2. Known(o) /\ ~ Holds(t, o) /\ (InMap(o) => InMap(o)')
    BY <2>1, Basics DEF Reach, Holds, InMap
  <2> QED
    BY <1>1, <2>1, <2>2, KnownByOthers, Basics DEF Known
<1>8. CASE Quietly(t) /\ UNCHANGED <<deleted, checked>>
  <2>1. /\ UNCHANGED <<taskMap, hashOf, deleted, checked>> /\ pc'[t] # "list"
        /\ Holds(t, o) => Holds(t, o)'
    BY <1>8, Basics DEF Quietly, Holds
  <2>2. Known(o) /\ (InMap(o) => InMap(o)') /\ (checked[t] = o => Tests(o)')
    BY <2>1 DEF Reach, InMap, Tests
  <2> QED
    BY <1>1, <2>1, <2>2, KnownByOthers DEF Known
<1> QED
  BY <1>2, <1>3, <1>4, <1>5, <1>6, <1>7, <1>8, StepKinds

-----------------------------------------------------------------------------
\* Nobody is left without a name, so long as one thread adds the tasks.
LInv == IInv /\ Roles /\ Fresh /\ Exact /\ Reach

LEMMA LInit == Init => LInv
<1> SUFFICES ASSUME Init PROVE LInv
  OBVIOUS
<1>1. PICK loaded \in SUBSET Hash :
        /\ taskMap = [x \in Hash |-> IF x \in loaded THEN x ELSE None]
        /\ hashOf = [o \in Object |-> IF o \in loaded THEN o ELSE None]
        /\ counter = [o \in Object |-> IF o \in loaded THEN 1 ELSE 0]
  BY DEF Init
<1>2. /\ \A t \in Threads : pc[t] = "idle" /\ ref[t] = None
  BY DEF Init
<1>3. \A o \in Object : InMap(o) <=> o \in loaded
  BY <1>1, Basics DEF InMap
<1>4. Roles /\ Fresh
  BY <1>2 DEF Roles, Fresh, OnlyApp, Deleting
<1>5. Exact
  <2> SUFFICES ASSUME NEW o \in Object PROVE counter[o] = Refs(o)
    BY DEF Exact
  <2>1. Holders(ref, pc, o) = {}
    BY <1>2, Basics DEF Holders
  <2>2. Cardinality(Holders(ref, pc, o)) = 0
    BY <2>1, FS_EmptySet
  <2>3. counter[o] = Num(InMap(o))
    BY <1>1, <1>3 DEF Num
  <2> QED
    BY <2>2, <2>3 DEF Refs, Num
<1>6. Reach
  BY <1>1, <1>3 DEF Reach, Known
<1> QED
  BY <1>4, <1>5, <1>6, InitOK DEF LInv

LEMMA LStep == ASSUME OneApp, LInv, [Next]_vars PROVE LInv'
<1>1. IInv'
  BY Inductive DEF LInv
<1>2. ASSUME NEW t \in Threads, NEW x \in Hash, Calls(t, x) \/ Works(t) PROVE LInv'
  <2>1. Roles' /\ Fresh'
    BY <1>2, RolesStep, FreshStep DEF LInv, IInv
  <2>2. Exact' /\ Reach'
    BY <1>2, ExactStep, ReachStep DEF LInv
  <2> QED
    BY <1>1, <2>1, <2>2 DEF LInv
<1>3. CASE UNCHANGED vars
  <2>1. UNCHANGED <<taskMap, hashOf, counter, deleted, pc, call, ref, checked>>
    BY <1>3 DEF vars, table, task, thread
  <2>2. Roles' /\ Fresh'
    BY <2>1 DEF LInv, Roles, Fresh, Mapped
  <2>3. \A o \in Object : (InMap(o)' <=> InMap(o)) /\ Holders(ref', pc', o) = Holders(ref, pc, o)
    BY <2>1 DEF InMap, Holders
  <2>4. Exact'
    BY <2>1, <2>3 DEF LInv, Exact, Refs, Num
  <2>5. Reach'
    BY <2>1, <2>3 DEF LInv, Reach, Known, Holds, Tests
  <2> QED
    BY <1>1, <2>2, <2>4, <2>5 DEF LInv
<1>4. CASE \E t \in Threads : Works(t)
  <2>1. PICK t \in Threads : Works(t)
    BY <1>4
  <2>2. Hash # {}
    BY <2>1, WorksOnHash DEF LInv, IInv
  <2> QED
    BY <1>2, <2>1, <2>2
<1> QED
  BY <1>2, <1>3, <1>4 DEF Next

\* RefCountedObject::release, CTaskMgr::DelTask: with one thread that adds tasks, an object
\* that is out of the map and that no thread has in its hands has been freed.
THEOREM NothingLeaks == ASSUME OneApp PROVE Spec => []NoLeak
<1>1. Init => LInv
  BY LInit
<1>2. LInv /\ [Next]_vars => LInv'
  BY LStep
<1>3. LInv => NoLeak
  <2> SUFFICES ASSUME LInv, NEW o \in Object, Forgotten(o) PROVE deleted[o] > 0
    BY DEF NoLeak
  <2>1. /\ hashOf[o] # None /\ taskMap[hashOf[o]] # o
        /\ \A t \in Threads : ref[t] # o /\ checked[t] # o
    BY DEF Forgotten
  <2>2. ~ InMap(o)
    BY <2>1, Basics DEF LInv, IInv, OwnHash, InMap, Mapped
  <2>3. ~ Known(o)
    BY <2>1, <2>2 DEF Known, Holds, Tests
  <2> QED
    BY <2>1, <2>3 DEF LInv, Reach
<1> QED
  BY <1>1, <1>2, <1>3, PTL DEF Spec

-----------------------------------------------------------------------------
(* The limit.  Loading is the set that it bounds.                          *)

AtLimit(x) == \E t \in Threads : pc[t] = "limit" /\ call[t] = x
Loading == {x \in Downloading : ~ playing[taskMap[x]] /\ ~ AtLimit(x)}

\* What a thread has in its hands has the hash that it was called for.
RefOwn == \A t \in Threads : ref[t] # None => hashOf[ref[t]] = call[t]
\* A task that is not made, or not yet in the map, does not run.
NewIdle ==
  /\ \A o \in Object : hashOf[o] = None => status[o] # "running"
  /\ \A t \in Threads : pc[t] = "insert" => status[ref[t]] # "running"
\* The message thread takes no offline task out of the map.
KeepsMapped ==
  \A t \in Threads :
    pc[t] \in {"stopplay", "limit"} /\ call[t] \in Offline => taskMap[call[t]] = ref[t]
\* What RunTask has found out still holds.
RunReady ==
  \A t \in Threads : pc[t] \in {"start", "run"} =>
    \/ call[t] \notin Offline
    \/ call[t] \in Mapped /\ playing[taskMap[call[t]]]
    \/ Cardinality(Loading \cup {call[t]}) <= MaxDown
DInv == LInv /\ RefOwn /\ NewIdle /\ KeepsMapped /\ RunReady /\ Cardinality(Loading) <= MaxDown

LEMMA DownloadingFinite ==
  /\ Downloading \subseteq Hash /\ Loading \subseteq Downloading
  /\ \A T \in SUBSET Hash : IsFiniteSet(T) /\ Cardinality(T) \in Nat
  /\ \A T \in SUBSET Hash, U \in SUBSET Hash :
       T \subseteq U => Cardinality(T) <= Cardinality(U)
<1>1. IsFiniteSet(Hash)
  BY TaskAssumption, FS_Interval DEF Hash
<1>2. \A T \in SUBSET Hash : IsFiniteSet(T) /\ Cardinality(T) \in Nat
  BY <1>1, FS_Subset, FS_CardinalityType
<1>3. ASSUME NEW T \in SUBSET Hash, NEW U \in SUBSET Hash, T \subseteq U
      PROVE  Cardinality(T) <= Cardinality(U)
  <2>1. IsFiniteSet(U) /\ T \in SUBSET U
    BY <1>2, <1>3
  <2> QED
    BY <2>1, FS_Subset
<1>4. Downloading \subseteq Hash /\ Loading \subseteq Downloading
  BY DEF Downloading, Loading, Mapped
<1> QED
  BY <1>2, <1>3, <1>4

LEMMA StatusKept ==
  ASSUME TypeOK, NEW t \in Threads, NEW x \in Hash, Calls(t, x) \/ Works(t), ~ Run(t),
         NEW o \in Object, status'[o] = "running"
  PROVE  status[o] = "running"
<1>1. status \in [Object -> {"pause", "running", "stop"}]
  BY DEF TypeOK
<1>2. CASE Calls(t, x)
  BY <1>2 DEF Calls, CreateYfTask, Begin, RunTask, task
<1>3. CASE Create(t) \/ Start(t) \/ Play(t) \/ Release(t) \/ Test(t) \/ Unlist(t) \/ Unmap(t)
  BY <1>3 DEF Create, Insert, List, Row, AddRow, Start, Play, Release, Test, Unlist, Unmap, task
<1>4. CASE Unplay(t)
  BY <1>1, <1>4 DEF Unplay
<1>5. CASE Stop(t) \/ Pause(t) \/ Limit(t)
  BY <1>1, <1>5 DEF Stop, Pause, Limit
<1> QED
  BY <1>2, <1>3, <1>4, <1>5 DEF Works, Delete

LEMMA PlayingKept ==
  ASSUME TypeOK, NEW t \in Threads, NEW x \in Hash, Calls(t, x) \/ Works(t),
         NEW o \in Object, playing[o], ~ playing'[o]
  PROVE  \/ Unplay(t) /\ o = taskMap[call[t]]
         \/ Play(t) /\ pc[t] = "stopplay" /\ pc'[t] = "limit" /\ o = ref[t]
<1>1. playing \in [Object -> BOOLEAN] /\ pc \in [Threads -> Places]
  BY DEF TypeOK
<1>2. CASE Calls(t, x)
  BY <1>2 DEF Calls, CreateYfTask, Begin, RunTask, task
<1>3. CASE Create(t) \/ Start(t) \/ Release(t) \/ Test(t) \/ Unlist(t) \/ Unmap(t)
  BY <1>3 DEF Create, Insert, List, Row, AddRow, Start, Release, Test, Unlist, Unmap, task
<1>4. CASE Stop(t) \/ Pause(t) \/ Run(t) \/ Limit(t)
  BY <1>4 DEF Stop, Pause, Run, Limit
<1>5. CASE Unplay(t)
  BY <1>1, <1>5 DEF Unplay
<1>6. CASE Play(t)
  BY <1>1, <1>6 DEF Play, From, Goto
<1> QED
  BY <1>2, <1>3, <1>4, <1>5, <1>6 DEF Works, Delete

LEMMA AtLimitKept ==
  ASSUME TypeOK, NEW t \in Threads, NEW x \in Hash, Calls(t, x) \/ Works(t), ~ Limit(t),
         NEW y \in Hash, AtLimit(y)
  PROVE  AtLimit(y)'
<1>1. Others(t)
  BY StepOthers
<1>2. pc[t] # "limit"
  <2>1. CASE Calls(t, x)
    BY <2>1 DEF Calls, CreateYfTask, Begin, RunTask, From
  <2>2. CASE Create(t) \/ Delete(t)
    BY <2>2 DEF Create, Insert, List, Row, AddRow, Delete, Unplay, Stop, Unlist, Unmap, From
  <2>3. CASE Pause(t) \/ Start(t) \/ Run(t) \/ Play(t) \/ Release(t) \/ Test(t)
    BY <2>3 DEF Pause, Start, Run, Play, Release, Test, From
  <2> QED
    BY <2>1, <2>2, <2>3 DEF Works
<1> QED
  BY <1>1, <1>2 DEF Others, AtLimit

\* A task is in the map after a step that was not before: the one just added.
LEMMA MapKept ==
  ASSUME TypeOK, NEW t \in Threads, NEW x \in Hash, Calls(t, x) \/ Works(t),
         NEW y \in Hash, taskMap'[y] # None, taskMap'[y] # taskMap[y]
  PROVE  Insert(t) /\ y = call[t] /\ taskMap'[y] = ref[t]
<1>1. taskMap \in [Hash -> Object \cup {None}]
  BY DEF TypeOK
<1>2. ~ UNCHANGED table
  BY DEF table
<1>3. CASE List(t) \/ Unlist(t)
  BY <1>3 DEF List, Unlist
<1>4. CASE Unmap(t)
  BY <1>1, <1>4 DEF Unmap
<1>5. CASE Insert(t)
  BY <1>1, <1>5 DEF Insert
<1> QED
  BY <1>2, <1>3, <1>4, <1>5, StepTable

\* The steps that may add no download to those that count.
LEMMA Shrinks ==
  ASSUME DInv, NEW t \in Threads, NEW x \in Hash, Calls(t, x) \/ Works(t), ~ Run(t), ~ Limit(t),
         Unplay(t) => call[t] \notin Offline
  PROVE  Loading' \subseteq Loading
<1> SUFFICES ASSUME NEW y \in Loading' PROVE y \in Loading
  OBVIOUS
<1>1. /\ y \in Hash /\ y \in Offline /\ taskMap'[y] # None /\ status'[taskMap'[y]] = "running"
      /\ ~ playing'[taskMap'[y]] /\ ~ AtLimit(y)'
  BY DEF Loading, Downloading, Mapped
<1>2. TypeOK /\ IInv /\ IInv'
  <2>1. Next
    BY DEF Next
  <2> QED
    BY <2>1, Inductive DEF DInv, LInv, IInv
<1>3. taskMap'[y] \in Object
  BY <1>1, <1>2 DEF IInv, TypeOK
<1>4. status[taskMap'[y]] = "running"
  BY <1>2, <1>1, <1>3, StatusKept
<1>5. taskMap'[y] = taskMap[y]
  <2> SUFFICES ASSUME taskMap'[y] # taskMap[y] PROVE FALSE
    OBVIOUS
  <2>1. Insert(t) /\ taskMap'[y] = ref[t]
    BY <1>1, <1>2, MapKept
  <2>2. pc[t] = "insert"
    BY <2>1 DEF Insert, From
  <2> QED
    BY <1>4, <2>1, <2>2 DEF DInv, NewIdle
<1>6. y \in Mapped /\ hashOf[taskMap[y]] = y
  BY <1>1, <1>2, <1>5 DEF Mapped, IInv, OwnHash
<1>7. ~ AtLimit(y)
  BY <1>1, <1>2, AtLimitKept
<1>8. ~ playing[taskMap[y]]
  <2> SUFFICES ASSUME playing[taskMap[y]] PROVE FALSE
    OBVIOUS
  <2>1. \/ Unplay(t) /\ taskMap[y] = taskMap[call[t]]
        \/ Play(t) /\ pc[t] = "stopplay" /\ pc'[t] = "limit" /\ taskMap[y] = ref[t]
    BY <1>1, <1>2, <1>3, <1>5, PlayingKept
  <2>2. CASE Unplay(t) /\ taskMap[y] = taskMap[call[t]]
    <3>1. call[t] \in Hash
      BY <1>2, <2>2, HasType DEF Unplay, From
    <3>2. hashOf[taskMap[call[t]]] = call[t]
      BY <1>2, <1>6, <2>2, <3>1 DEF IInv, OwnHash, Mapped
    <3> QED
      BY <1>1, <1>6, <2>2, <3>2
  <2>3. CASE Play(t) /\ pc[t] = "stopplay" /\ pc'[t] = "limit" /\ taskMap[y] = ref[t]
    <3>1. call'[t] = call[t] /\ ref[t] # None
      BY <1>6, <2>3 DEF Play, Mapped
    <3>2. call[t] = y
      BY <1>6, <2>3, <3>1 DEF DInv, RefOwn
    <3> QED
      BY <1>1, <2>3, <3>1, <3>2 DEF AtLimit
  <2> QED
    BY <2>1, <2>2, <2>3
<1> QED
  BY <1>1, <1>4, <1>5, <1>6, <1>7, <1>8 DEF Loading, Downloading

\* Whoever does what only the application does is the one thread of it.
LEMMA OneOnly ==
  ASSUME OneApp, Roles, NEW t \in Threads, NEW u \in Threads, pc[t] \in OnlyApp, pc[u] \in OnlyApp
  PROVE  t = u
BY DEF OneApp, Roles

LEMMA RefOwnStep ==
  ASSUME DInv, NEW t \in Threads, NEW x \in Hash, Calls(t, x) \/ Works(t)
  PROVE  RefOwn'
<1>1. Others(t) /\ TypeOK /\ IInv
  BY StepOthers DEF DInv, LInv, IInv
<1>2. CASE CreateYfTask(t, x)
  <2>1. PICK p \in Unused : /\ hashOf' = [hashOf EXCEPT ![p] = x]
                            /\ ref' = [ref EXCEPT ![t] = p]
    BY <1>2 DEF CreateYfTask
  <2>2. p \in Object /\ hashOf[p] = None /\ call'[t] = x /\ ref'[t] = p /\ hashOf'[p] = x
    BY <1>1, <1>2, <2>1 DEF CreateYfTask, Unused, TypeOK
  <2>3. \A u \in Threads \ {t} : ref[u] # None => hashOf'[ref[u]] = call[u]
    BY <1>1, <2>1, <2>2, Basics DEF DInv, RefOwn, IInv, Made, TypeOK
  <2> QED
    BY <1>1, <2>2, <2>3 DEF RefOwn, Others
<1>3. CASE Insert(t) \/ Unmap(t) \/ Release(t) \/ Test(t)
  <2>1. UNCHANGED hashOf
    BY <1>3 DEF Insert, Unmap, Release, Test, task
  <2>2. ref'[t] # None => ref'[t] = ref[t] /\ call'[t] = call[t]
    BY <1>1, <1>3, HasType DEF Insert, Unmap, Release, Test, From, TypeOK
  <2> QED
    BY <1>1, <2>1, <2>2 DEF DInv, RefOwn, Others
<1>4. CASE \E y \in Hash : Found(t, y)
  <2>1. PICK y \in Hash : Found(t, y)
    BY <1>4
  <2>2. UNCHANGED hashOf /\ ref'[t] = taskMap[y] /\ call'[t] = y /\ hashOf[taskMap[y]] = y
    BY <1>1, <2>1 DEF Found, IInv, OwnHash
  <2> QED
    BY <1>1, <2>2 DEF DInv, RefOwn, Others
<1>5. CASE Quietly(t)
  <2>1. UNCHANGED hashOf /\ (ref'[t] # None => ref'[t] = ref[t] /\ call'[t] = call[t])
    BY <1>5 DEF Quietly
  <2> QED
    BY <1>1, <2>1 DEF DInv, RefOwn, Others
<1> QED
  BY <1>1, <1>2, <1>3, <1>4, <1>5, StepKinds

LEMMA NewIdleStep ==
  ASSUME OneApp, DInv, NEW t \in Threads, NEW x \in Hash, Calls(t, x) \/ Works(t)
  PROVE  NewIdle'
<1>1. Others(t) /\ TypeOK /\ IInv /\ Roles
  BY StepOthers DEF DInv, LInv, IInv
<1>2. CASE CreateYfTask(t, x)
  <2>1. PICK p \in Unused : /\ hashOf' = [hashOf EXCEPT ![p] = x]
                            /\ ref' = [ref EXCEPT ![t] = p]
    BY <1>2 DEF CreateYfTask
  <2>2. /\ p \in Object /\ hashOf[p] = None /\ ref'[t] = p /\ t \in App /\ UNCHANGED status
        /\ \A o \in Object : hashOf'[o] = None => hashOf[o] = None
    BY <1>1, <1>2, <2>1, Basics DEF CreateYfTask, Unused, TypeOK
  <2>3. \A u \in Threads \ {t} : pc[u] = "insert" => u = t
    BY <1>1, <2>2 DEF Roles, OnlyApp, OneApp
  <2> QED
    BY <1>1, <2>2, <2>3 DEF DInv, NewIdle, Others
<1>3. CASE Run(t)
  <2>1. /\ pc[t] = "run" /\ pc'[t] = "release" /\ status' = [status EXCEPT ![ref[t]] = "running"]
        /\ UNCHANGED <<hashOf, ref>> /\ ref[t] \in Object
    BY <1>1, <1>3, HasType DEF Run, From, Goto, TypeOK
  <2>2. \A u \in Threads : pc'[u] # "insert"
    BY <1>1, <2>1, OneOnly DEF OnlyApp, Others
  <2>3. \A o \in Object : hashOf[o] = None => status'[o] # "running"
    BY <1>1, <2>1, Basics DEF DInv, NewIdle, IInv, Made, TypeOK
  <2> QED
    BY <2>1, <2>2, <2>3 DEF NewIdle
<1>4. CASE ~ CreateYfTask(t, x) /\ ~ Run(t)
  <2>1. \A o \in Object : status'[o] = "running" => status[o] = "running"
    BY <1>1, <1>4, StatusKept
  <2>2. UNCHANGED hashOf /\ pc'[t] # "insert"
    <3>1. CASE Insert(t) \/ Unmap(t) \/ Release(t) \/ Test(t)
      BY <1>1, <3>1 DEF Insert, Unmap, Release, Test, From, Goto, task, TypeOK
    <3>2. CASE (\E y \in Hash : Found(t, y)) \/ Quietly(t)
      BY <3>2 DEF Found, Quietly
    <3> QED
      BY <1>1, <1>4, <3>1, <3>2, StepKinds
  <2>3. ASSUME NEW u \in Threads, pc'[u] = "insert" PROVE status'[ref'[u]] # "running"
    <3>1. u # t /\ pc[u] = "insert" /\ ref'[u] = ref[u] /\ ref[u] \in Object
      BY <1>1, <2>2, <2>3, HasType DEF Others
    <3> QED
      BY <2>1, <3>1 DEF DInv, NewIdle
  <2> QED
    BY <2>1, <2>2, <2>3 DEF DInv, NewIdle
<1> QED
  BY <1>2, <1>3, <1>4

LEMMA KeepsMappedStep ==
  ASSUME OneApp, DInv, NEW t \in Threads, NEW x \in Hash, Calls(t, x) \/ Works(t)
  PROVE  KeepsMapped'
<1>1. Others(t) /\ TypeOK /\ IInv /\ Roles
  BY StepOthers DEF DInv, LInv, IInv
<1>2. pc \in [Threads -> Places] /\ call \in [Threads -> Hash \cup {None}]
      /\ ref \in [Threads -> Object \cup {None}] /\ taskMap \in [Hash -> Object \cup {None}]
  BY <1>1 DEF TypeOK
<1> SUFFICES ASSUME NEW u \in Threads, pc'[u] \in {"stopplay", "limit"}, call'[u] \in Offline
             PROVE  taskMap'[call'[u]] = ref'[u]
  BY DEF KeepsMapped
<1>3. CASE u = t
  <2>1. CASE Begin(t, x, "stopplay")
    BY <1>2, <1>3, <2>1 DEF Begin, Find, table
  <2>2. CASE Play(t)
    BY <1>2, <1>3, <2>2 DEF Play, From, Goto, table, DInv, KeepsMapped
  <2>3. CASE ~ Begin(t, x, "stopplay") /\ ~ Play(t)
    <3>1. CASE Calls(t, x)
      BY <1>2, <1>3, <2>3, <3>1 DEF Calls, CreateYfTask, Begin, RunTask, Find, Goto
    <3>2. CASE Create(t) \/ Delete(t)
      BY <1>2, <1>3, <3>2
         DEF Create, Insert, List, Row, AddRow, Delete, Unplay, Stop, Unlist, Unmap, Find, Goto
    <3>3. CASE Pause(t) \/ Start(t) \/ Run(t) \/ Limit(t) \/ Release(t) \/ Test(t)
      BY <1>2, <1>3, <3>3 DEF Pause, Start, Run, Limit, Release, Test, Find, Goto
    <3> QED
      BY <2>3, <3>1, <3>2, <3>3 DEF Works
  <2> QED
    BY <2>1, <2>2, <2>3
<1>4. CASE u # t
  <2>1. /\ pc'[u] = pc[u] /\ call'[u] = call[u] /\ ref'[u] = ref[u] /\ call[u] \in Hash
        /\ taskMap[call[u]] = ref[u] /\ u \in App
    BY <1>1, <1>4, HasType DEF Others, DInv, KeepsMapped, Roles, OnlyApp
  <2>2. t \notin App
    BY <1>4, <2>1 DEF OneApp
  <2>3. CASE Unmap(t)
    <3>1. call[t] # call[u] /\ call[t] \in Hash
      BY <1>1, <2>1, <2>2, <2>3, HasType DEF Unmap, From, Roles, Deleting
    <3> QED
      BY <1>2, <2>1, <2>3, <3>1 DEF Unmap
  <2>4. CASE Insert(t)
    BY <1>1, <2>2, <2>4 DEF Insert, From, Roles, OnlyApp
  <2>5. CASE ~ Unmap(t) /\ ~ Insert(t)
    <3>1. UNCHANGED taskMap
      BY <2>5, StepTable DEF table, List, Unlist
    <3> QED
      BY <2>1, <3>1
  <2> QED
    BY <2>3, <2>4, <2>5
<1> QED
  BY <1>3, <1>4

LEMMA RunReadyStep ==
  ASSUME OneApp, DInv, NEW t \in Threads, NEW x \in Hash, Calls(t, x) \/ Works(t)
  PROVE  RunReady'
<1>1. Others(t) /\ TypeOK /\ IInv /\ Roles
  BY StepOthers DEF DInv, LInv, IInv
<1>2. pc \in [Threads -> Places] /\ call \in [Threads -> Hash \cup {None}]
  BY <1>1 DEF TypeOK
<1> SUFFICES ASSUME NEW u \in Threads, pc'[u] \in {"start", "run"}, call'[u] \in Offline
             PROVE  \/ call'[u] \in Mapped' /\ playing'[taskMap'[call'[u]]]
                    \/ Cardinality(Loading' \cup {call'[u]}) <= MaxDown
  BY DEF RunReady
<1>3. ASSUME NEW T \in SUBSET Hash, Loading' \cup {call'[u]} \subseteq T, Cardinality(T) <= MaxDown
      PROVE  Cardinality(Loading' \cup {call'[u]}) <= MaxDown
  <2>1. Loading' \cup {call'[u]} \in SUBSET Hash
    BY <1>3
  <2>2. /\ Cardinality(Loading' \cup {call'[u]}) <= Cardinality(T)
        /\ Cardinality(Loading' \cup {call'[u]}) \in Nat /\ Cardinality(T) \in Nat
    BY <1>3, <2>1, DownloadingFinite
  <2> QED
    BY <1>3, <2>2, TaskAssumption
<1>4. CASE u = t /\ RunTask(t, x) /\ t \in App
  <2>1. /\ x \in Mapped /\ MayRun(x) /\ call'[t] = x /\ pc[t] = "idle"
        /\ UNCHANGED <<taskMap, playing>>
    BY <1>2, <1>4 DEF RunTask, From, table, task
  <2>2. Loading' \subseteq Loading
    BY <1>4, <2>1, Shrinks DEF Run, Limit, Unplay, From
  <2>3. ~ AtLimit(x)
    BY <1>1, <1>4, <2>1 DEF AtLimit, Roles, OnlyApp, OneApp
  <2>4. CASE playing[taskMap[x]]
    BY <1>4, <2>1, <2>4 DEF Mapped
  <2>5. CASE ~ playing[taskMap[x]] /\ status[taskMap[x]] = "running"
    <3>1. x \in Loading
      BY <1>4, <2>1, <2>3, <2>5 DEF Loading, Downloading
    <3> QED
      BY <1>3, <1>4, <2>1, <2>2, <3>1, DownloadingFinite DEF DInv
  <2>6. CASE Cardinality(Downloading) < MaxDown
    <3>1. /\ Downloading \cup {x} \in SUBSET Hash /\ IsFiniteSet(Downloading)
          /\ Cardinality(Downloading) \in Nat
      BY DownloadingFinite
    <3>2. Cardinality(Downloading \cup {x}) <= MaxDown
      <4>1. Cardinality(Downloading \cup {x})
              \in {Cardinality(Downloading), Cardinality(Downloading) + 1}
        BY <3>1, FS_AddElement
      <4> HIDE DEF Downloading
      <4> QED
        BY <2>6, <3>1, <4>1, TaskAssumption
    <3> QED
      BY <1>3, <1>4, <2>1, <2>2, <3>1, <3>2, DownloadingFinite
  <2> QED
    BY <2>1, <2>4, <2>5, <2>6 DEF MayRun
<1>5. CASE u = t /\ Start(t)
  <2>1. /\ pc[t] = "start" /\ call'[t] = call[t] /\ UNCHANGED <<taskMap, playing>>
        /\ call[t] \in Hash
    BY <1>1, <1>2, <1>5, HasType DEF Start, From, Goto, table
  <2>2. Loading' \subseteq Loading
    BY <1>5, <2>1, Shrinks DEF Run, Limit, Unplay, From
  <2>3. \/ call[t] \in Mapped /\ playing[taskMap[call[t]]]
        \/ Cardinality(Loading \cup {call[t]}) <= MaxDown
    BY <1>5, <2>1 DEF DInv, RunReady
  <2>4. Loading \cup {call[t]} \in SUBSET Hash
    BY <2>1, DownloadingFinite
  <2> QED
    BY <1>3, <1>5, <2>1, <2>2, <2>3, <2>4 DEF Mapped
<1>6. CASE u = t /\ ~ (RunTask(t, x) /\ t \in App) /\ ~ Start(t)
  <2>1. CASE Calls(t, x)
    BY <1>2, <1>6, <2>1 DEF Calls, CreateYfTask, Begin, Find, Goto
  <2>2. CASE Create(t) \/ Delete(t)
    BY <1>2, <1>6, <2>2
       DEF Create, Insert, List, Row, AddRow, Delete, Unplay, Stop, Unlist, Unmap, Find, Goto
  <2>3. CASE Pause(t) \/ Run(t) \/ Play(t) \/ Limit(t) \/ Release(t) \/ Test(t)
    BY <1>2, <1>6, <2>3 DEF Pause, Run, Play, Limit, Release, Test, Goto
  <2> QED
    BY <1>6, <2>1, <2>2, <2>3 DEF Works
<1>7. CASE u # t
  <2>1. pc'[u] = pc[u] /\ call'[u] = call[u] /\ call[u] \in Hash /\ u \in App
    BY <1>1, <1>7, HasType DEF Others, Roles, OnlyApp
  <2>2. t \notin App
    BY <1>7, <2>1 DEF OneApp
  <2>3. pc[t] \notin OnlyApp /\ (pc[t] \in Deleting => call[t] \notin Offline)
    BY <1>1, <2>2 DEF Roles
  <2>4. Loading' \subseteq Loading
    BY <2>3, Shrinks DEF Run, Limit, Unplay, From, OnlyApp, Deleting
  <2>5. CASE Cardinality(Loading \cup {call[u]}) <= MaxDown
    BY <1>3, <2>1, <2>4, <2>5, DownloadingFinite
  <2>6. CASE call[u] \in Mapped /\ playing[taskMap[call[u]]]
    <3>1. /\ taskMap[call[u]] \in Object /\ taskMap[call[u]] # None
          /\ hashOf[taskMap[call[u]]] = call[u] /\ taskMap \in [Hash -> Object \cup {None}]
      BY <1>1, <2>1, <2>6 DEF IInv, TypeOK, OwnHash, Mapped
    <3>2. taskMap'[call[u]] = taskMap[call[u]]
      <4>1. CASE Unmap(t)
        <5>1. call[t] # call[u] /\ call[t] \in Hash
          BY <1>1, <2>1, <2>3, <4>1, HasType DEF Unmap, From, Deleting
        <5> QED
          BY <2>1, <3>1, <4>1, <5>1 DEF Unmap
      <4>2. CASE ~ Unmap(t)
        <5>1. ~ Insert(t)
          BY <2>3 DEF Insert, From, OnlyApp
        <5> QED
          BY <4>2, <5>1, StepTable DEF table, List, Unlist
      <4> QED
        BY <4>1, <4>2
    <3>3. playing'[taskMap[call[u]]]
      <4> SUFFICES ASSUME ~ playing'[taskMap[call[u]]] PROVE FALSE
        OBVIOUS
      <4>1. \/ Unplay(t) /\ taskMap[call[u]] = taskMap[call[t]]
            \/ Play(t) /\ pc[t] = "stopplay"
        BY <1>1, <2>6, <3>1, PlayingKept
      <4>2. pc[t] = "unplay" /\ taskMap[call[u]] = taskMap[call[t]]
        BY <2>3, <4>1 DEF Unplay, From, OnlyApp
      <4>3. call[t] \in Hash /\ call[t] \notin Offline
        BY <1>1, <2>3, <4>2, HasType DEF Deleting
      <4>4. hashOf[taskMap[call[t]]] = call[t]
        BY <1>1, <3>1, <4>2, <4>3 DEF IInv, OwnHash, Mapped
      <4> QED
        BY <2>1, <3>1, <4>2, <4>3, <4>4
    <3> QED
      BY <2>1, <3>1, <3>2, <3>3 DEF Mapped
  <2> QED
    BY <2>1, <2>5, <2>6 DEF DInv, RunReady
<1> QED
  BY <1>4, <1>5, <1>6, <1>7

LEMMA LimitStep ==
  ASSUME DInv, NEW t \in Threads, NEW x \in Hash, Calls(t, x) \/ Works(t)
  PROVE  Cardinality(Loading)' <= MaxDown
<1>1. Others(t) /\ TypeOK /\ IInv
  BY StepOthers DEF DInv, LInv, IInv
<1>2. ASSUME NEW T \in SUBSET Hash, Loading' \subseteq T, Cardinality(T) <= MaxDown
      PROVE  Cardinality(Loading') <= MaxDown
  <2>1. Loading' \in SUBSET Hash
    BY <1>2
  <2>2. /\ Cardinality(Loading') <= Cardinality(T)
        /\ Cardinality(Loading') \in Nat /\ Cardinality(T) \in Nat
    BY <1>2, <2>1, DownloadingFinite
  <2> QED
    BY <1>2, <2>2, TaskAssumption
<1>3. Loading' \subseteq Loading => Cardinality(Loading') <= MaxDown
  BY <1>2, DownloadingFinite DEF DInv
<1>4. \A y \in Loading' : /\ y \in Hash /\ y \in Offline /\ taskMap'[y] # None
                          /\ status'[taskMap'[y]] = "running" /\ ~ playing'[taskMap'[y]]
                          /\ ~ AtLimit(y)'
  BY DEF Loading, Downloading, Mapped
<1>5. CASE Run(t)
  <2>1. /\ pc[t] = "run" /\ status' = [status EXCEPT ![ref[t]] = "running"] /\ ref[t] \in Object
        /\ UNCHANGED <<taskMap, hashOf, playing>> /\ call[t] \in Hash /\ hashOf[ref[t]] = call[t]
        /\ status \in [Object -> {"pause", "running", "stop"}]
    BY <1>1, <1>5, HasType, Basics DEF Run, From, table, DInv, RefOwn, TypeOK
  <2>2. ASSUME NEW y \in Loading', y # call[t] PROVE y \in Loading
    <3>1. y \in Mapped /\ hashOf[taskMap[y]] = y
      BY <1>1, <1>4, <2>1, <2>2 DEF Mapped, IInv, OwnHash
    <3>2. status[taskMap[y]] = "running"
      BY <1>4, <2>1, <2>2, <3>1
    <3>3. ~ Limit(t)
      BY <2>1 DEF Limit, From
    <3>4. ~ AtLimit(y)
      BY <1>1, <1>4, <2>2, <3>3, AtLimitKept
    <3> QED
      BY <1>4, <2>1, <2>2, <3>1, <3>2, <3>4 DEF Loading, Downloading
  <2>3. CASE call[t] \notin Offline \/ (call[t] \in Mapped /\ playing[taskMap[call[t]]])
    <3>1. call[t] \notin Loading'
      BY <1>4, <2>1, <2>3
    <3> QED
      BY <1>3, <2>2, <3>1
  <2>4. CASE Cardinality(Loading \cup {call[t]}) <= MaxDown
    <3>1. Loading' \subseteq Loading \cup {call[t]}
      BY <2>2
    <3>2. Loading \cup {call[t]} \in SUBSET Hash
      BY <2>1, DownloadingFinite
    <3> QED
      BY <1>2, <2>4, <3>1, <3>2
  <2> QED
    BY <2>1, <2>3, <2>4 DEF DInv, RunReady
<1>6. CASE Limit(t)
  <2>1. /\ pc[t] = "limit" /\ UNCHANGED <<taskMap, hashOf, playing, call>> /\ call[t] \in Hash
        /\ status' = IF PausesAtStop(call[t]) THEN [status EXCEPT ![ref[t]] = "pause"] ELSE status
        /\ status \in [Object -> {"pause", "running", "stop"}] /\ ref[t] \in Object
    BY <1>1, <1>6, HasType DEF Limit, From, table, TypeOK
  <2>2. CASE ~ PausesAtStop(call[t])
    <3>1. Downloading' = Downloading
      BY <2>1, <2>2 DEF Downloading, Mapped
    <3>2. Loading' \subseteq Downloading' /\ Cardinality(Downloading) <= MaxDown
      BY <2>2, DownloadingFinite, TaskAssumption DEF Loading, PausesAtStop
    <3> QED
      BY <1>2, <3>1, <3>2, DownloadingFinite
  <2>3. CASE PausesAtStop(call[t])
    <3>1. ASSUME NEW y \in Loading' PROVE y \in Loading
      <4>1. y \in Mapped /\ taskMap[y] \in Object /\ status[taskMap[y]] = "running"
        BY <1>1, <1>4, <2>1, <2>3, <3>1 DEF Mapped, TypeOK
      <4>2. y # call[t]
        BY <1>4, <2>1, <2>3, <3>1 DEF DInv, KeepsMapped
      <4>3. ~ AtLimit(y)
        BY <1>1, <1>4, <3>1, <4>2 DEF AtLimit, Others
      <4> QED
        BY <1>4, <2>1, <3>1, <4>1, <4>3 DEF Loading, Downloading
    <3> QED
      BY <1>3, <3>1
  <2> QED
    BY <2>2, <2>3
<1>7. CASE Unplay(t) /\ call[t] \in Offline
  <2>1. pc[t] = "unplay" /\ UNCHANGED <<taskMap, hashOf>> /\ call[t] \in Hash
    BY <1>1, <1>7, HasType DEF Unplay, From, table
  <2>2. ~ Limit(t) /\ ~ Run(t)
    BY <2>1 DEF Limit, Run, From
  <2>3. CASE UNCHANGED status /\ Cardinality(Downloading) <= MaxDown
    <3>1. Downloading' = Downloading
      BY <2>1, <2>3 DEF Downloading, Mapped
    <3>2. Loading' \subseteq Downloading'
      BY DEF Loading
    <3> QED
      BY <1>2, <2>3, <3>1, <3>2, DownloadingFinite
  <2>4. CASE UNCHANGED <<status, playing>>
    <3>1. ASSUME NEW y \in Loading' PROVE y \in Loading
      <4>1. ~ AtLimit(y)
        BY <1>1, <1>4, <2>2, <3>1, AtLimitKept
      <4> QED
        BY <1>4, <2>1, <2>4, <3>1, <4>1 DEF Loading, Downloading, Mapped
    <3> QED
      BY <1>3, <3>1
  <2>5. CASE /\ taskMap[call[t]] # None
             /\ status' = [status EXCEPT ![taskMap[call[t]]] = "pause"]
             /\ playing' = [playing EXCEPT ![taskMap[call[t]]] = FALSE]
    <3>1. /\ status \in [Object -> {"pause", "running", "stop"}] /\ playing \in [Object -> BOOLEAN]
          /\ taskMap[call[t]] \in Object
      BY <1>1, <2>1, <2>5 DEF TypeOK
    <3>2. ASSUME NEW y \in Loading' PROVE y \in Loading
      <4>1. y \in Mapped /\ taskMap[y] # taskMap[call[t]]
        BY <1>4, <2>1, <2>5, <3>1, <3>2 DEF Mapped
      <4>2. taskMap[y] \in Object
        BY <1>1, <4>1 DEF Mapped, TypeOK
      <4>3. ~ AtLimit(y)
        BY <1>1, <1>4, <2>2, <3>2, AtLimitKept
      <4>4. status[taskMap[y]] = "running" /\ ~ playing[taskMap[y]]
        BY <1>4, <2>1, <2>5, <3>1, <3>2, <4>1, <4>2
      <4> QED
        BY <1>4, <3>2, <4>1, <4>3, <4>4 DEF Loading, Downloading
    <3> QED
      BY <1>3, <3>2
  <2>6. Cardinality(Downloading) \in Nat
    BY DownloadingFinite
  <2> QED
    BY <1>7, <2>3, <2>4, <2>5, <2>6, TaskAssumption DEF Unplay, PausesAtStop
<1>8. CASE ~ Run(t) /\ ~ Limit(t) /\ (Unplay(t) => call[t] \notin Offline)
  BY <1>3, <1>8, Shrinks
<1> QED
  BY <1>5, <1>6, <1>7, <1>8

-----------------------------------------------------------------------------
LEMMA DInit == Init => DInv
<1> SUFFICES ASSUME Init PROVE DInv
  OBVIOUS
<1>1. /\ status = [o \in Object |-> "pause"]
      /\ \A t \in Threads : pc[t] = "idle" /\ ref[t] = None
  BY DEF Init
<1>2. \A x \in Mapped : status[taskMap[x]] # "running"
  BY <1>1, LInit DEF LInv, IInv, TypeOK, Mapped
<1>3. Loading = {}
  BY <1>2 DEF Loading, Downloading
<1>4. Cardinality(Loading) <= MaxDown
  BY <1>3, FS_EmptySet, TaskAssumption
<1>5. RefOwn /\ NewIdle /\ KeepsMapped /\ RunReady
  BY <1>1 DEF RefOwn, NewIdle, KeepsMapped, RunReady
<1> QED
  BY <1>4, <1>5, LInit DEF DInv

LEMMA DStep == ASSUME OneApp, DInv, [Next]_vars PROVE DInv'
<1>1. LInv'
  BY LStep DEF DInv
<1>2. ASSUME NEW t \in Threads, NEW x \in Hash, Calls(t, x) \/ Works(t) PROVE DInv'
  <2>1. RefOwn' /\ NewIdle'
    BY <1>2, RefOwnStep, NewIdleStep
  <2>2. KeepsMapped' /\ RunReady'
    BY <1>2, KeepsMappedStep, RunReadyStep
  <2>3. Cardinality(Loading)' <= MaxDown
    BY <1>2, LimitStep
  <2> QED
    BY <1>1, <2>1, <2>2, <2>3 DEF DInv
<1>3. CASE UNCHANGED vars
  <2>1. UNCHANGED <<taskMap, hashOf, status, playing, pc, call, ref>>
    BY <1>3 DEF vars, table, task, thread
  <2>2. RefOwn' /\ NewIdle' /\ KeepsMapped'
    BY <2>1 DEF DInv, RefOwn, NewIdle, KeepsMapped
  <2>3. Mapped' = Mapped /\ Loading' = Loading
    BY <2>1 DEF Mapped, Loading, Downloading, AtLimit
  <2> QED
    BY <1>1, <2>1, <2>2, <2>3 DEF DInv, RunReady
<1>4. CASE \E t \in Threads : Works(t)
  <2>1. PICK t \in Threads : Works(t)
    BY <1>4
  <2>2. Hash # {}
    BY <2>1, WorksOnHash DEF DInv, LInv, IInv
  <2> QED
    BY <1>2, <2>1, <2>2
<1> QED
  BY <1>2, <1>3, <1>4 DEF Next

\* CTaskMgr::RunTask, SetTaskPlaying, GetDownloadingTasks: with one application thread at
\* most MaxDown offline tasks download that are not played, whatever the message thread
\* pauses and deletes meanwhile.
THEOREM LimitKept == ASSUME OneApp PROVE Spec => []DownloadLimit
<1>1. Init => DInv
  BY DInit
<1>2. DInv /\ [Next]_vars => DInv'
  BY DStep
<1>3. DInv => DownloadLimit
  <2>1. Loading = {x \in Downloading :
                     /\ ~ playing[taskMap[x]]
                     /\ \A t \in Threads : ~ (From(t, "limit") /\ call[t] = x)}
    BY DEF Loading, AtLimit, From
  <2> QED
    BY <2>1 DEF DInv, DownloadLimit
<1> QED
  BY <1>1, <1>2, <1>3, PTL DEF Spec

=============================================================================
