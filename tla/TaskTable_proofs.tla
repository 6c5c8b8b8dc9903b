--------------------------- MODULE TaskTable_proofs ---------------------------
(***************************************************************************)
(* Proofs about TaskTable, for every number of tasks and objects and every *)
(* finite set of application threads: a task that somebody may use is not  *)
(* deleted.                                                                *)
(***************************************************************************)
EXTENDS TaskTable, FiniteSetTheorems, TLAPS

LEMMA Basics ==
  /\ Hash \subseteq Nat /\ None \notin Hash /\ Object \subseteq Nat /\ None \notin Object
  /\ IsFiniteSet(Threads) /\ App \subseteq Threads
<1>1. IsFiniteSet(App \cup {"msg"})
  BY TaskAssumption, FS_AddElement
<1>2. Threads = App \cup {"msg"}
  BY DEF Threads
<1>3. /\ Hash \subseteq Nat /\ None \notin Hash /\ Object \subseteq Nat /\ None \notin Object
  BY TaskAssumption DEF Hash, Object, None
<1> QED
  BY <1>1, <1>2, <1>3

-----------------------------------------------------------------------------
(* The threads that hold an object: they found it in the map or made it,   *)
(* and have not given it away (to the map, at "list") or released it.      *)

Holders(r, p, o) == {t \in Threads : r[t] = o /\ p[t] # "list"}

LEMMA HoldersFinite ==
  ASSUME NEW r, NEW p, NEW o
  PROVE  IsFiniteSet(Holders(r, p, o)) /\ Cardinality(Holders(r, p, o)) \in Nat
<1>1. Holders(r, p, o) \subseteq Threads
  BY DEF Holders
<1> QED
  BY <1>1, Basics, FS_Subset, FS_CardinalityType

\* One thread changes: the number of holders of an object changes by this thread only.
LEMMA HoldersStep ==
  ASSUME NEW r, NEW p, NEW s, NEW q, NEW o, NEW t \in Threads,
         \A u \in Threads \ {t} : s[u] = r[u] /\ q[u] = p[u]
  PROVE  LET was == t \in Holders(r, p, o)
             is == t \in Holders(s, q, o)
             n == Cardinality(Holders(r, p, o))
         IN /\ (was <=> is) => Cardinality(Holders(s, q, o)) = n
            /\ (~ was /\ is) => Cardinality(Holders(s, q, o)) = n + 1
            /\ (was /\ ~ is) => Cardinality(Holders(s, q, o)) = n - 1
<1> DEFINE H == Holders(r, p, o)
           K == Holders(s, q, o)
<1>1. IsFiniteSet(H) /\ IsFiniteSet(K)
  BY HoldersFinite
<1>2. \A u \in Threads \ {t} : u \in H <=> u \in K
  BY DEF Holders
<1>3. H \subseteq Threads /\ K \subseteq Threads
  BY DEF Holders
<1> HIDE DEF H, K
<1>4. CASE t \in H <=> t \in K
  <2>1. H = K
    BY <1>2, <1>3, <1>4
  <2> QED
    BY <1>4, <2>1 DEF H, K
<1>5. CASE t \notin H /\ t \in K
  <2>1. K = H \cup {t}
    BY <1>2, <1>3, <1>5
  <2>2. Cardinality(H \cup {t}) = Cardinality(H) + 1
    BY <1>1, <1>5, FS_AddElement
  <2> QED
    BY <1>5, <2>1, <2>2 DEF H, K
<1>6. CASE t \in H /\ t \notin K
  <2>1. K = H \ {t}
    BY <1>2, <1>3, <1>6
  <2>2. Cardinality(H \ {t}) = Cardinality(H) - 1
    BY <1>1, <1>6, FS_RemoveElement
  <2> QED
    BY <1>6, <2>1, <2>2 DEF H, K
<1> QED
  BY <1>4, <1>5, <1>6

-----------------------------------------------------------------------------
(* The inductive invariant.                                                *)

InMap(o) == \E x \in Hash : taskMap[x] = o

\* An object is in the map under its own hash only.
OwnHash ==
  /\ \A x \in Mapped : hashOf[taskMap[x]] = x
  /\ \A t \in Threads : pc[t] = "insert" => hashOf[ref[t]] = call[t]

\* What is not made yet nobody knows, and it has not been deleted.
Made ==
  /\ \A t \in Threads : /\ ref[t] # None => hashOf[ref[t]] # None
                        /\ checked[t] # None => hashOf[checked[t]] # None
  /\ \A o \in Object : hashOf[o] = None => deleted[o] = 0

\* The counter is not less than the references: the map's and those of the threads.
Counted ==
  \A o \in Object :
    LET n == Cardinality(Holders(ref, pc, o))
    IN counter[o] >= n /\ (InMap(o) => counter[o] >= n + 1)

IInv == TypeOK /\ OwnHash /\ Made /\ Counted /\ HeldAlive

TableTyped == taskMap \in [Hash -> Object \cup {None}] /\ path \in [Hash -> Seq(Object)]
TaskTyped ==
  /\ hashOf \in [Object -> Hash \cup {None}]
  /\ status \in [Object -> {"pause", "running", "stop"}] /\ playing \in [Object -> BOOLEAN]
  /\ counter \in [Object -> Int] /\ deleted \in [Object -> Nat]
ThreadsTyped ==
  /\ pc \in [Threads -> Places] /\ call \in [Threads -> Hash \cup {None}]
  /\ ref \in [Threads -> Object \cup {None}] /\ checked \in [Threads -> Object \cup {None}]
  /\ \A t \in Threads :
       /\ call[t] = None <=> pc[t] = "idle"
       /\ ref[t] = None <=> pc[t] \in {"idle", "row", "start", "test"}
       /\ checked[t] = None <=> pc[t] \notin {"test", "test1"}

LEMMA TypeParts == TypeOK <=> TableTyped /\ TaskTyped /\ rows \subseteq Hash /\ ThreadsTyped
BY DEF TypeOK, TableTyped, TaskTyped, ThreadsTyped

LEMMA NextTypeParts ==
  ASSUME TableTyped', TaskTyped', (rows \subseteq Hash)', ThreadsTyped'
  PROVE  TypeOK'
BY DEF TypeOK, TableTyped, TaskTyped, ThreadsTyped

LEMMA KeepType ==
  ASSUME TypeOK
  PROVE  /\ UNCHANGED table => TableTyped'
         /\ UNCHANGED task => TaskTyped'
         /\ UNCHANGED rows => (rows \subseteq Hash)'
         /\ UNCHANGED thread => ThreadsTyped'
BY DEF TypeOK, TableTyped, TaskTyped, ThreadsTyped, table, task, thread

\* One thread moves to a place where it has what belongs there.
Moves(t, place, x, o, k) ==
  /\ pc' = [pc EXCEPT ![t] = place] /\ call' = [call EXCEPT ![t] = x]
  /\ ref' = [ref EXCEPT ![t] = o] /\ checked' = [checked EXCEPT ![t] = k]

Fits(place, x, o, k) ==
  /\ place \in Places /\ x \in Hash \cup {None} /\ o \in Object \cup {None}
  /\ k \in Object \cup {None}
  /\ x = None <=> place = "idle"
  /\ o = None <=> place \in {"idle", "row", "start", "test"}
  /\ k = None <=> place \notin {"test", "test1"}

LEMMA MovesType ==
  ASSUME TypeOK, NEW t \in Threads, NEW place, NEW x, NEW o, NEW k,
         Fits(place, x, o, k), Moves(t, place, x, o, k)
  PROVE  /\ ThreadsTyped'
         /\ pc'[t] = place /\ call'[t] = x /\ ref'[t] = o /\ checked'[t] = k
         /\ \A u \in Threads \ {t} : /\ pc'[u] = pc[u] /\ call'[u] = call[u]
                                     /\ ref'[u] = ref[u] /\ checked'[u] = checked[u]
BY DEF TypeOK, ThreadsTyped, Moves, Fits

\* What a thread has.
LEMMA HasType ==
  ASSUME TypeOK, NEW t \in Threads
  PROVE  /\ pc[t] # "idle" => call[t] \in Hash
         /\ pc[t] \notin {"idle", "row", "start", "test"} => ref[t] \in Object
         /\ pc[t] \in {"test", "test1"} => checked[t] \in Object
         /\ pc[t] \in {"idle", "row", "start", "test"} => ref[t] = None
         /\ pc[t] \notin {"test", "test1"} => checked[t] = None
         /\ pc[t] = "idle" => call[t] = None
         /\ call = [call EXCEPT ![t] = call[t]] /\ ref = [ref EXCEPT ![t] = ref[t]]
         /\ checked = [checked EXCEPT ![t] = checked[t]]
BY DEF TypeOK

-----------------------------------------------------------------------------
(* What a step of one thread does to each part of the invariant.           *)

Others(t) ==
  \A u \in Threads \ {t} : /\ pc'[u] = pc[u] /\ call'[u] = call[u]
                          /\ ref'[u] = ref[u] /\ checked'[u] = checked[u]

LEMMA OwnHashKept ==
  ASSUME OwnHash, TypeOK, UNCHANGED hashOf, NEW t \in Threads, Others(t), pc'[t] # "insert",
         \A x \in Hash : taskMap'[x] \in {taskMap[x], None}
  PROVE  OwnHash'
BY DEF OwnHash, Others, Mapped

LEMMA MadeKept ==
  ASSUME Made, UNCHANGED <<hashOf, deleted>>, NEW t \in Threads, Others(t),
         ref'[t] # None => hashOf[ref'[t]] # None,
         checked'[t] # None => hashOf[checked'[t]] # None
  PROVE  Made'
BY DEF Made, Others

LEMMA HeldIsCounted ==
  ASSUME NEW o \in Object, NEW t \in Threads, Holds(t, o)
  PROVE  Cardinality(Holders(ref, pc, o)) >= 1
<1> DEFINE H == Holders(ref, pc, o)
<1>1. t \in H
  BY DEF Holders, Holds
<1>2. IsFiniteSet(H) /\ Cardinality(H) \in Nat
  BY HoldersFinite
<1>3. Cardinality(H) # 0
  BY <1>1, <1>2, FS_EmptySet
<1> QED
  BY <1>2, <1>3

\* Who holds what stays the same.
LEMMA CountedKept ==
  ASSUME TypeOK, Counted, NEW t \in Threads, Others(t), UNCHANGED counter,
         \A x \in Hash : taskMap'[x] \in {taskMap[x], None},
         \A o \in Object : ref[t] = o /\ pc[t] # "list" <=> ref'[t] = o /\ pc'[t] # "list"
  PROVE  Counted'
<1> SUFFICES ASSUME NEW o \in Object
             PROVE  LET n == Cardinality(Holders(ref', pc', o))
                    IN counter'[o] >= n /\ (InMap(o)' => counter'[o] >= n + 1)
  BY DEF Counted
<1>1. t \in Holders(ref, pc, o) <=> t \in Holders(ref', pc', o)
  BY DEF Holders
<1>2. Cardinality(Holders(ref', pc', o)) = Cardinality(Holders(ref, pc, o))
  BY <1>1, HoldersStep DEF Others
<1>3. InMap(o)' => InMap(o)
  BY Basics DEF InMap
<1> QED
  BY <1>2, <1>3 DEF Counted

LEMMA HeldAliveKept ==
  ASSUME TypeOK, HeldAlive, NEW t \in Threads, Others(t), UNCHANGED deleted,
         \A x \in Hash : taskMap'[x] \in {taskMap[x], None},
         \A o \in Object :
           ref'[t] = o /\ pc'[t] # "list" => InMap(o) \/ (ref[t] = o /\ pc[t] # "list")
  PROVE  HeldAlive'
<1> SUFFICES ASSUME NEW o \in Object, InMap(o)' \/ \E u \in Threads : Holds(u, o)'
             PROVE  deleted'[o] = 0
  BY DEF HeldAlive, InMap
<1>1. InMap(o) \/ \E u \in Threads : Holds(u, o)
  <2>1. InMap(o)' => InMap(o)
    BY Basics DEF InMap
  <2>2. Holds(t, o)' => InMap(o) \/ Holds(t, o)
    BY DEF Holds
  <2>3. \A u \in Threads \ {t} : Holds(u, o)' => Holds(u, o)
    BY DEF Holds, Others
  <2> QED
    BY <2>1, <2>2, <2>3
<1> QED
  BY <1>1 DEF HeldAlive, InMap

\* A step that leaves the map, the counters and what each thread holds alone.
LEMMA QuietStep ==
  ASSUME IInv, NEW t \in Threads, Others(t), UNCHANGED <<taskMap, hashOf, counter, deleted>>,
         ref'[t] \in {ref[t], None}, checked'[t] \in {checked[t], None}, pc'[t] # "insert",
         \A o \in Object : ref[t] = o /\ pc[t] # "list" <=> ref'[t] = o /\ pc'[t] # "list"
  PROVE  OwnHash' /\ Made' /\ Counted' /\ HeldAlive'
<1>1. OwnHash'
  BY OwnHashKept DEF IInv
<1>2. Made'
  <2>1. /\ ref'[t] # None => hashOf[ref'[t]] # None
        /\ checked'[t] # None => hashOf[checked'[t]] # None
    BY DEF IInv, Made
  <2> QED
    BY <2>1, MadeKept DEF IInv
<1>3. Counted'
  BY CountedKept DEF IInv
<1>4. HeldAlive'
  BY HeldAliveKept DEF IInv
<1> QED
  BY <1>1, <1>2, <1>3, <1>4

\* FindTask: one more holder, one more on the counter.
LEMMA FindStep ==
  ASSUME IInv, NEW t \in Threads, Others(t), UNCHANGED <<taskMap, hashOf, deleted>>,
         NEW x \in Mapped, ref[t] = None, ref'[t] = taskMap[x], checked'[t] = None,
         counter' = [counter EXCEPT ![taskMap[x]] = @ + 1], pc'[t] \notin {"insert", "list"}
  PROVE  OwnHash' /\ Made' /\ Counted' /\ HeldAlive'
<1> DEFINE p == taskMap[x]
<1>1. p \in Object /\ hashOf[p] = x /\ x # None /\ InMap(p) /\ x \in Hash
  BY Basics DEF IInv, TypeOK, OwnHash, Mapped, InMap
<1>2. OwnHash'
  BY OwnHashKept DEF IInv
<1>3. Made'
  BY <1>1, MadeKept DEF IInv
<1>4. HeldAlive'
  BY <1>1, HeldAliveKept DEF IInv
<1>5. ASSUME NEW o \in Object
      PROVE  LET n == Cardinality(Holders(ref', pc', o))
             IN counter'[o] >= n /\ (InMap(o)' => counter'[o] >= n + 1)
  <2> DEFINE m == Cardinality(Holders(ref, pc, o))
             n == Cardinality(Holders(ref', pc', o))
  <2>1. t \notin Holders(ref, pc, o)
    BY Basics DEF Holders
  <2>2. t \in Holders(ref', pc', o) <=> o = p
    BY DEF Holders
  <2>3. (o = p => n = m + 1) /\ (o # p => n = m)
    BY <2>1, <2>2, HoldersStep DEF Others
  <2>4. InMap(o)' <=> InMap(o)
    BY DEF InMap
  <2>5. counter[o] \in Int /\ counter'[o] = IF o = p THEN counter[o] + 1 ELSE counter[o]
    BY DEF IInv, TypeOK
  <2>6. m \in Nat /\ n \in Nat
    BY HoldersFinite
  <2>7. counter[o] >= m /\ (InMap(o) => counter[o] >= m + 1)
    BY DEF IInv, Counted
  <2> HIDE DEF m, n, p
  <2>8. counter'[o] >= n /\ (InMap(o)' => counter'[o] >= n + 1)
    BY <2>3, <2>4, <2>5, <2>6, <2>7
  <2> QED
    BY <2>8 DEF n
<1>6. Counted'
  BY <1>5 DEF Counted
<1> QED
  BY <1>2, <1>3, <1>4, <1>6

\* release: one holder less, one less on the counter.
LEMMA ReleaseStep ==
  ASSUME IInv, NEW t \in Threads, Release(t)
  PROVE  IInv'
<1> DEFINE p == ref[t]
<1>1. pc[t] = "release" /\ p \in Object /\ call[t] \in Hash /\ hashOf[p] # None
  BY HasType, Basics DEF IInv, Made, Release, From
<1>2. Moves(t, "test", call[t], None, p)
  BY HasType DEF IInv, Release, Goto, Moves
<1>3. Fits("test", call[t], None, p)
  BY <1>1, Basics DEF Fits, Places
<1>4. /\ ThreadsTyped' /\ Others(t)
      /\ pc'[t] = "test" /\ ref'[t] = None /\ checked'[t] = p
  BY <1>2, <1>3, MovesType DEF IInv, Others
<1>5. counter' = [counter EXCEPT ![p] = @ - 1] /\ UNCHANGED <<table, hashOf, status, playing, deleted, rows>>
  BY DEF Release
<1>6. TypeOK'
  <2>1. TaskTyped'
    BY <1>1, <1>5 DEF IInv, TypeOK, TaskTyped
  <2> QED
    BY <1>4, <1>5, <2>1, KeepType, NextTypeParts DEF IInv
<1>7. OwnHash'
  BY <1>4, <1>5, OwnHashKept DEF IInv, table
<1>8. Made'
  BY <1>1, <1>4, <1>5, MadeKept DEF IInv
<1>9. HeldAlive'
  BY <1>4, <1>5, Basics, HeldAliveKept DEF IInv, table
<1>10. ASSUME NEW o \in Object
       PROVE  LET n == Cardinality(Holders(ref', pc', o))
              IN counter'[o] >= n /\ (InMap(o)' => counter'[o] >= n + 1)
  <2> DEFINE m == Cardinality(Holders(ref, pc, o))
             n == Cardinality(Holders(ref', pc', o))
  <2>1. t \in Holders(ref, pc, o) <=> o = p
    BY <1>1 DEF Holders
  <2>2. t \notin Holders(ref', pc', o)
    BY <1>4, Basics DEF Holders
  <2>3. (o = p => n = m - 1) /\ (o # p => n = m)
    BY <1>4, <2>1, <2>2, HoldersStep DEF Others
  <2>4. InMap(o)' <=> InMap(o)
    BY <1>5 DEF InMap, table
  <2>5. counter[o] \in Int /\ counter'[o] = IF o = p THEN counter[o] - 1 ELSE counter[o]
    BY <1>5 DEF IInv, TypeOK
  <2>6. m \in Nat /\ n \in Nat
    BY HoldersFinite
  <2>7. counter[o] >= m /\ (InMap(o) => counter[o] >= m + 1)
    BY DEF IInv, Counted
  <2> HIDE DEF m, n, p
  <2>8. counter'[o] >= n /\ (InMap(o)' => counter'[o] >= n + 1)
    BY <2>3, <2>4, <2>5, <2>6, <2>7
  <2> QED
    BY <2>8 DEF n
<1>11. Counted'
  BY <1>10 DEF Counted
<1> QED
  BY <1>6, <1>7, <1>8, <1>9, <1>11 DEF IInv

\* The object is deleted only if nobody holds it: the counter is 0.
LEMMA DeleteStep ==
  ASSUME IInv, NEW p \in Object, hashOf[p] # None, DeleteIfZero(p)
  PROVE  /\ deleted' \in [Object -> Nat]
         /\ \A o \in Object : InMap(o) \/ (\E u \in Threads : Holds(u, o)) => deleted'[o] = 0
         /\ \A o \in Object : hashOf[o] = None => deleted'[o] = 0
<1>1. deleted' \in [Object -> Nat]
  BY DEF IInv, TypeOK, DeleteIfZero
<1>2. \A o \in Object \ {p} : deleted'[o] = deleted[o]
  BY DEF IInv, TypeOK, DeleteIfZero
<1>3. InMap(p) \/ (\E u \in Threads : Holds(u, p)) => counter[p] # 0
  <2>1. counter[p] \in Int /\ Cardinality(Holders(ref, pc, p)) \in Nat
    BY HoldersFinite DEF IInv, TypeOK
  <2>2. counter[p] >= Cardinality(Holders(ref, pc, p))
    BY DEF IInv, Counted
  <2>3. InMap(p) => counter[p] >= Cardinality(Holders(ref, pc, p)) + 1
    BY DEF IInv, Counted
  <2>4. (\E u \in Threads : Holds(u, p)) => Cardinality(Holders(ref, pc, p)) >= 1
    BY HeldIsCounted
  <2> QED
    BY <2>1, <2>2, <2>3, <2>4
<1>4. counter[p] # 0 => UNCHANGED deleted
  BY DEF DeleteIfZero
<1>5. ASSUME NEW o \in Object, InMap(o) \/ \E u \in Threads : Holds(u, o)
      PROVE  deleted'[o] = 0
  <2>1. deleted[o] = 0
    BY <1>5 DEF IInv, HeldAlive, InMap
  <2>2. CASE o = p
    BY <1>3, <1>4, <1>5, <2>1, <2>2
  <2>3. CASE o # p
    BY <1>2, <2>1, <2>3
  <2> QED
    BY <2>2, <2>3
<1>6. \A o \in Object : hashOf[o] = None => deleted'[o] = 0
  BY <1>2 DEF IInv, Made
<1> QED
  BY <1>1, <1>5, <1>6

LEMMA TestStep ==
  ASSUME IInv, NEW t \in Threads, Test(t)
  PROVE  IInv'
<1> DEFINE p == checked[t]
<1>1. pc[t] \in {"test", "test1"} /\ p \in Object /\ hashOf[p] # None /\ call[t] \in Hash
  BY HasType, Basics DEF IInv, Made, Test, From
<1>2. DeleteIfZero(p) /\ UNCHANGED <<table, hashOf, status, playing, counter, rows, ref>>
      /\ checked' = [checked EXCEPT ![t] = None]
  BY DEF Test
<1>3. /\ ThreadsTyped' /\ Others(t) /\ ref'[t] = ref[t] /\ checked'[t] = None
      /\ pc'[t] \in {"idle", "release"} /\ pc[t] # "list"
  <2>1. CASE pc[t] = "test"
    <3>1. ref[t] = None /\ Moves(t, "idle", None, None, None)
      BY <1>2, <2>1, HasType DEF IInv, Test, From, Goto, Moves
    <3>2. Fits("idle", None, None, None)
      BY DEF Fits, Places
    <3> QED
      BY <2>1, <3>1, <3>2, MovesType DEF IInv, Others
  <2>2. CASE pc[t] = "test1"
    <3>1. ref[t] \in Object /\ Moves(t, "release", call[t], ref[t], None)
      BY <1>2, <2>2, HasType DEF IInv, Test, From, Goto, Moves
    <3>2. Fits("release", call[t], ref[t], None)
      BY <1>1, <3>1, Basics DEF Fits, Places
    <3> QED
      BY <2>2, <3>1, <3>2, MovesType DEF IInv, Others
  <2> QED
    BY <1>1, <2>1, <2>2
<1>4. /\ deleted' \in [Object -> Nat]
      /\ \A o \in Object : InMap(o) \/ (\E u \in Threads : Holds(u, o)) => deleted'[o] = 0
      /\ \A o \in Object : hashOf[o] = None => deleted'[o] = 0
  BY <1>1, <1>2, DeleteStep
<1>5. TypeOK'
  <2>1. TaskTyped'
    BY <1>2, <1>4 DEF IInv, TypeOK, TaskTyped
  <2> QED
    BY <1>2, <1>3, <2>1, KeepType, NextTypeParts DEF IInv
<1>6. OwnHash'
  BY <1>2, <1>3, OwnHashKept DEF IInv, table
<1>7. Made'
  BY <1>2, <1>3, <1>4 DEF IInv, Made, Others
<1>8. Counted'
  BY <1>2, <1>3, CountedKept DEF IInv, table
<1>9. HeldAlive'
  <2>1. \A o \in Object, u \in Threads : Holds(u, o)' => Holds(u, o)
    BY <1>2, <1>3 DEF Holds, Others
  <2> QED
    BY <1>2, <1>4, <2>1 DEF HeldAlive, InMap, table
<1> QED
  BY <1>5, <1>6, <1>7, <1>8, <1>9 DEF IInv

-----------------------------------------------------------------------------
(* Calls that look the task up.                                            *)

LEMMA CounterType ==
  ASSUME TypeOK, NEW x \in Mapped, counter' = [counter EXCEPT ![taskMap[x]] = @ + 1],
         UNCHANGED <<hashOf, status, playing, deleted>>
  PROVE  TaskTyped'
BY DEF TypeOK, TaskTyped, Mapped

LEMMA FoundStep ==
  ASSUME IInv, NEW t \in Threads, NEW x \in Mapped, NEW place \in {"unplay", "pause", "play", "stopplay", "addrow", "run"},
         Find(t, x, place), ref[t] = None, call' = [call EXCEPT ![t] = x],
         UNCHANGED <<table, hashOf, status, playing, deleted, rows, checked>>,
         pc[t] \notin {"test", "test1"}
  PROVE  IInv'
<1>1. taskMap[x] \in Object /\ x \in Hash
  BY DEF IInv, TypeOK, Mapped
<1>2. Moves(t, place, x, taskMap[x], None)
  BY HasType DEF IInv, Find, Goto, Moves
<1>3. Fits(place, x, taskMap[x], None)
  BY <1>1, Basics DEF Fits, Places
<1>4. /\ ThreadsTyped' /\ Others(t)
      /\ pc'[t] = place /\ ref'[t] = taskMap[x] /\ checked'[t] = None
  BY <1>2, <1>3, MovesType DEF IInv, Others
<1>5. counter' = [counter EXCEPT ![taskMap[x]] = @ + 1]
  BY DEF Find
<1>6. TypeOK'
  BY <1>4, <1>5, CounterType, KeepType, NextTypeParts DEF IInv
<1>7. OwnHash' /\ Made' /\ Counted' /\ HeldAlive'
  BY <1>4, <1>5, FindStep DEF table
<1> QED
  BY <1>6, <1>7 DEF IInv

\* A quiet step, typed.
Quiet(t, place, x, o) ==
  /\ place \notin {"insert", "list"} /\ Fits(place, x, o, None)
  /\ pc' = [pc EXCEPT ![t] = place] /\ call' = [call EXCEPT ![t] = x]
  /\ ref' = [ref EXCEPT ![t] = o] /\ UNCHANGED checked
  /\ pc[t] \notin {"test", "test1"}
  /\ o = IF pc[t] = "list" THEN None ELSE ref[t]
  /\ UNCHANGED <<taskMap, hashOf, counter, deleted>>
  /\ path' \in [Hash -> Seq(Object)] /\ status' \in [Object -> {"pause", "running", "stop"}]
  /\ playing' \in [Object -> BOOLEAN] /\ rows' \subseteq Hash

LEMMA QuietTyped ==
  ASSUME IInv, NEW t \in Threads, NEW place, NEW x, NEW o, Quiet(t, place, x, o)
  PROVE  IInv'
<1>1. Moves(t, place, x, o, None) /\ Fits(place, x, o, None)
  BY HasType DEF IInv, Moves, Quiet
<1>2. /\ ThreadsTyped' /\ Others(t) /\ pc'[t] = place /\ ref'[t] = o /\ checked'[t] = None
  BY <1>1, MovesType DEF IInv, Others
<1>3. TableTyped' /\ TaskTyped' /\ (rows \subseteq Hash)'
  BY DEF IInv, TypeOK, TableTyped, TaskTyped, Quiet
<1>4. TypeOK'
  BY <1>2, <1>3, NextTypeParts
<1>5. place \notin {"insert", "list"} /\ o = IF pc[t] = "list" THEN None ELSE ref[t]
  BY DEF Quiet
<1>6. \A p \in Object : ref[t] = p /\ pc[t] # "list" <=> ref'[t] = p /\ pc'[t] # "list"
  BY <1>2, <1>5, Basics
<1>7. UNCHANGED <<taskMap, hashOf, counter, deleted>>
  BY DEF Quiet
<1>8. ref'[t] \in {ref[t], None} /\ checked'[t] \in {checked[t], None} /\ pc'[t] # "insert"
  BY <1>2, <1>5
<1>9. OwnHash' /\ Made' /\ Counted' /\ HeldAlive'
  BY <1>2, <1>6, <1>7, <1>8, QuietStep
<1> QED
  BY <1>4, <1>9 DEF IInv

-----------------------------------------------------------------------------
(* CreateYfTask.                                                           *)

LEMMA CreateYfTaskStep ==
  ASSUME IInv, NEW t \in Threads, NEW x \in Hash, CreateYfTask(t, x)
  PROVE  IInv'
<1>1. PICK p \in Unused : /\ hashOf' = [hashOf EXCEPT ![p] = x]
                          /\ counter' = [counter EXCEPT ![p] = 1]
                          /\ ref' = [ref EXCEPT ![t] = p]
  BY DEF CreateYfTask
<1>2. p \in Object /\ hashOf[p] = None
  BY DEF Unused
<1>3. /\ pc[t] = "idle" /\ call' = [call EXCEPT ![t] = x] /\ pc' = [pc EXCEPT ![t] = "insert"]
      /\ UNCHANGED <<table, status, playing, deleted, rows, checked>>
  BY DEF CreateYfTask, From, Goto
<1>4. Moves(t, "insert", x, p, None)
  BY <1>1, <1>3, HasType DEF IInv, Moves
<1>5. Fits("insert", x, p, None)
  BY <1>2, Basics DEF Fits, Places
<1>6. /\ ThreadsTyped' /\ Others(t) /\ pc'[t] = "insert" /\ call'[t] = x
      /\ ref'[t] = p /\ checked'[t] = None
  BY <1>4, <1>5, MovesType DEF IInv, Others
<1>7. TypeOK'
  <2>1. TaskTyped'
    BY <1>1, <1>2, <1>3 DEF IInv, TypeOK, TaskTyped
  <2> QED
    BY <1>3, <1>6, <2>1, KeepType, NextTypeParts DEF IInv
<1>8. \A o \in Object : hashOf'[o] = IF o = p THEN x ELSE hashOf[o]
  BY <1>1 DEF IInv, TypeOK
\* Nobody knows it yet.
<1>9. /\ \A y \in Mapped : taskMap[y] # p
      /\ \A u \in Threads : ref[u] # p /\ checked[u] # p
      /\ deleted[p] = 0
  BY <1>2, Basics DEF IInv, OwnHash, Made, Mapped
<1>10. ~ InMap(p)
  BY <1>2, <1>9, Basics DEF InMap, Mapped
<1>11. OwnHash'
  <2>1. \A y \in Mapped' : hashOf'[taskMap'[y]] = y
    BY <1>3, <1>8, <1>9 DEF IInv, TypeOK, OwnHash, Mapped, table
  <2>2. \A u \in Threads \ {t} : pc'[u] = "insert" => hashOf'[ref'[u]] = call'[u]
    <3> SUFFICES ASSUME NEW u \in Threads \ {t}, pc'[u] = "insert"
                 PROVE  hashOf'[ref'[u]] = call'[u]
      OBVIOUS
    <3>1. pc[u] = "insert" /\ ref'[u] = ref[u] /\ call'[u] = call[u]
      BY <1>6 DEF Others
    <3>2. ref[u] \in Object /\ ref[u] # p
      BY <1>9, <3>1, HasType DEF IInv
    <3> QED
      BY <1>8, <3>1, <3>2 DEF IInv, OwnHash
  <2>3. hashOf'[ref'[t]] = call'[t]
    BY <1>2, <1>6, <1>8
  <2> QED
    BY <2>1, <2>2, <2>3 DEF OwnHash
<1>12. Made'
  <2>1. \A o \in Object : hashOf[o] # None => hashOf'[o] # None
    BY <1>8, Basics
  <2>2. \A u \in Threads : ref'[u] # None => hashOf'[ref'[u]] # None
    <3>1. x # None /\ hashOf'[p] = x
      BY <1>2, <1>8, Basics
    <3>2. ASSUME NEW u \in Threads \ {t}, ref'[u] # None PROVE hashOf'[ref'[u]] # None
      <4>1. ref'[u] = ref[u]
        BY <1>6 DEF Others
      <4>2. ref[u] \in Object /\ hashOf[ref[u]] # None
        BY <3>2, <4>1 DEF IInv, TypeOK, Made
      <4> QED
        BY <2>1, <4>1, <4>2
    <3> QED
      BY <1>6, <3>1, <3>2
  <2>3. \A u \in Threads : checked'[u] # None => hashOf'[checked'[u]] # None
    BY <1>6, <2>1 DEF IInv, TypeOK, Made, Others
  <2>4. \A o \in Object : hashOf'[o] = None => deleted'[o] = 0
    BY <1>3, <1>8, <1>9 DEF IInv, Made
  <2> QED
    BY <2>2, <2>3, <2>4 DEF Made
<1>13. HeldAlive'
  <2>1. \A o \in Object : InMap(o)' => InMap(o)
    BY <1>3 DEF InMap, table
  <2>2. \A o \in Object, u \in Threads : Holds(u, o)' => o = p \/ Holds(u, o)
    BY <1>6 DEF Holds, Others
  <2> QED
    BY <1>3, <1>9, <2>1, <2>2 DEF IInv, HeldAlive, InMap
<1>14. ASSUME NEW o \in Object
       PROVE  LET n == Cardinality(Holders(ref', pc', o))
              IN counter'[o] >= n /\ (InMap(o)' => counter'[o] >= n + 1)
  <2> DEFINE m == Cardinality(Holders(ref, pc, o))
             n == Cardinality(Holders(ref', pc', o))
  <2>1. t \notin Holders(ref, pc, o)
    BY <1>3, Basics, HasType DEF IInv, Holders
  <2>2. t \in Holders(ref', pc', o) <=> o = p
    BY <1>6 DEF Holders
  <2>3. (o = p => n = m + 1) /\ (o # p => n = m)
    BY <1>6, <2>1, <2>2, HoldersStep DEF Others
  <2>4. InMap(o)' <=> InMap(o)
    BY <1>3 DEF InMap, table
  <2>5. counter[o] \in Int /\ counter'[o] = IF o = p THEN 1 ELSE counter[o]
    BY <1>1 DEF IInv, TypeOK
  <2>6. m \in Nat /\ n \in Nat
    BY HoldersFinite
  <2>7. counter[o] >= m /\ (InMap(o) => counter[o] >= m + 1)
    BY DEF IInv, Counted
  <2>8. o = p => m = 0
    <3>1. Holders(ref, pc, p) = {}
      BY <1>9 DEF Holders
    <3> QED
      BY <3>1, FS_EmptySet
  <2> HIDE DEF m, n
  <2>9. counter'[o] >= n /\ (InMap(o)' => counter'[o] >= n + 1)
    BY <1>10, <2>3, <2>4, <2>5, <2>6, <2>7, <2>8
  <2> QED
    BY <2>9 DEF n
<1>15. Counted'
  BY <1>14 DEF Counted
<1> QED
  BY <1>7, <1>11, <1>12, <1>13, <1>15 DEF IInv

\* The reference of the thread becomes that of the map.
LEMMA InsertStep == ASSUME IInv, NEW t \in Threads, Insert(t) PROVE IInv'
<1> DEFINE p == ref[t]
           x == call[t]
<1>1. /\ pc[t] = "insert" /\ pc' = [pc EXCEPT ![t] = "list"] /\ taskMap' = [taskMap EXCEPT ![x] = p]
      /\ UNCHANGED <<path, task, rows, call, ref, checked>>
  BY DEF Insert, From, Goto
<1>2. p \in Object /\ x \in Hash /\ checked[t] = None /\ hashOf[p] = x
  BY <1>1, HasType DEF IInv, OwnHash
<1> HIDE DEF p, x
<1>3. Moves(t, "list", x, p, None)
  BY <1>1, <1>2, HasType DEF IInv, Moves, p, x
<1>4. Fits("list", x, p, None)
  BY <1>2, Basics DEF Fits, Places
<1>5. /\ ThreadsTyped' /\ Others(t) /\ pc'[t] = "list" /\ call'[t] = x
      /\ ref'[t] = p /\ checked'[t] = None
  BY <1>3, <1>4, MovesType DEF IInv, Others
<1>6. TypeOK'
  <2>1. TableTyped'
    BY <1>1, <1>2 DEF IInv, TypeOK, TableTyped
  <2> QED
    BY <1>1, <1>5, <2>1, KeepType, NextTypeParts DEF IInv
<1>7. \A y \in Hash : taskMap'[y] = IF y = x THEN p ELSE taskMap[y]
  BY <1>1 DEF IInv, TypeOK
<1>8. UNCHANGED <<hashOf, counter, deleted>>
  BY <1>1 DEF task
<1>9. Holds(t, p)
  BY <1>1 DEF Holds, p
<1>10. \A o \in Object : InMap(o)' => InMap(o) \/ o = p
  BY <1>7 DEF InMap
<1>11. OwnHash'
  <2>1. \A y \in Mapped' : hashOf'[taskMap'[y]] = y
    <3> SUFFICES ASSUME NEW y \in Mapped' PROVE hashOf'[taskMap'[y]] = y
      OBVIOUS
    <3>1. y \in Hash /\ taskMap'[y] # None
      BY DEF Mapped
    <3>2. CASE y = x
      BY <1>2, <1>7, <1>8, <3>1, <3>2
    <3>3. CASE y # x
      BY <1>7, <1>8, <3>1, <3>3 DEF IInv, OwnHash, Mapped
    <3> QED
      BY <3>2, <3>3
  <2>2. \A u \in Threads : pc'[u] = "insert" => hashOf'[ref'[u]] = call'[u]
    BY <1>5, <1>8 DEF IInv, OwnHash, Others
  <2> QED
    BY <2>1, <2>2 DEF OwnHash
<1>12. Made'
  BY <1>1, <1>5, <1>8, MadeKept DEF IInv, Made, p
<1>13. HeldAlive'
  <2>1. \A o \in Object, u \in Threads : Holds(u, o)' => Holds(u, o)
    BY <1>5 DEF Holds, Others
  <2> QED
    BY <1>8, <1>9, <1>10, <2>1 DEF IInv, HeldAlive, InMap
<1>14. ASSUME NEW o \in Object
       PROVE  LET n == Cardinality(Holders(ref', pc', o))
              IN counter'[o] >= n /\ (InMap(o)' => counter'[o] >= n + 1)
  <2> DEFINE m == Cardinality(Holders(ref, pc, o))
             n == Cardinality(Holders(ref', pc', o))
  <2>1. t \in Holders(ref, pc, o) <=> o = p
    BY <1>1 DEF Holders, p
  <2>2. t \notin Holders(ref', pc', o)
    BY <1>5 DEF Holders
  <2>3. (o = p => n = m - 1) /\ (o # p => n = m)
    BY <1>5, <2>1, <2>2, HoldersStep DEF Others
  <2>4. InMap(o)' => InMap(o) \/ o = p
    BY <1>10
  <2>5. counter[o] \in Int /\ counter'[o] = counter[o]
    BY <1>8 DEF IInv, TypeOK
  <2>6. m \in Nat /\ n \in Nat
    BY HoldersFinite
  <2>7. counter[o] >= m /\ (InMap(o) => counter[o] >= m + 1)
    BY DEF IInv, Counted
  <2> HIDE DEF m, n
  <2>8. counter'[o] >= n /\ (InMap(o)' => counter'[o] >= n + 1)
    BY <2>3, <2>4, <2>5, <2>6, <2>7
  <2> QED
    BY <2>8 DEF n
<1>15. Counted'
  BY <1>14 DEF Counted
<1> QED
  BY <1>6, <1>11, <1>12, <1>13, <1>15 DEF IInv

\* The map has nothing to give up.
LEMMA UnmapNothing ==
  ASSUME IInv, NEW t \in Threads, Unmap(t), taskMap[call[t]] = None
  PROVE  IInv'
<1>1. /\ pc[t] = "unmap" /\ UNCHANGED <<path, hashOf, status, playing, deleted, rows, call, ref>>
      /\ pc' = [pc EXCEPT ![t] = "release"] /\ UNCHANGED <<taskMap, counter, checked>>
  BY DEF Unmap, From, Goto
<1>2. call[t] \in Hash /\ ref[t] \in Object
  BY <1>1, HasType DEF IInv
<1>3. Fits("release", call[t], ref[t], None)
  BY <1>2, Basics DEF Fits, Places
<1>4. call' = [call EXCEPT ![t] = call[t]] /\ ref' = [ref EXCEPT ![t] = ref[t]]
  BY <1>1, HasType DEF IInv
<1>5. /\ path' \in [Hash -> Seq(Object)] /\ status' \in [Object -> {"pause", "running", "stop"}]
      /\ playing' \in [Object -> BOOLEAN] /\ rows' \subseteq Hash
  BY <1>1 DEF IInv, TypeOK
<1>6. Quiet(t, "release", call[t], ref[t])
  BY <1>1, <1>3, <1>4, <1>5 DEF Quiet
<1> QED
  BY <1>6, QuietTyped

\* The map gives its reference up.
LEMMA UnmapFound ==
  ASSUME IInv, NEW t \in Threads, Unmap(t), NEW x \in Hash, x = call[t],
         NEW p \in Object, p = taskMap[x]
  PROVE  IInv'
<1>1. /\ pc[t] = "unmap" /\ UNCHANGED <<path, hashOf, status, playing, deleted, rows, call, ref>>
  BY DEF Unmap, From
<1>2. ref[t] \in Object /\ checked[t] = None /\ p # None /\ x \in Mapped
  BY <1>1, HasType, Basics DEF IInv, Mapped
<1>3. /\ taskMap' = [taskMap EXCEPT ![x] = None] /\ counter' = [counter EXCEPT ![p] = @ - 1]
      /\ checked' = [checked EXCEPT ![t] = p] /\ pc' = [pc EXCEPT ![t] = "test1"]
  BY <1>2 DEF Unmap, Goto
<1>4. p \in Object /\ hashOf[p] = x /\ hashOf[p] # None
  BY <1>2, Basics DEF IInv, TypeOK, OwnHash, Mapped
<1>5. Moves(t, "test1", x, ref[t], p)
  BY <1>1, <1>3, HasType DEF IInv, Moves
<1>6. Fits("test1", x, ref[t], p)
  BY <1>2, <1>4, Basics DEF Fits, Places
<1>7. /\ ThreadsTyped' /\ Others(t) /\ pc'[t] = "test1" /\ ref'[t] = ref[t] /\ checked'[t] = p
  BY <1>5, <1>6, MovesType DEF IInv, Others
<1>8. TypeOK'
  <2>1. TableTyped' /\ TaskTyped'
    BY <1>1, <1>2, <1>3, <1>4 DEF IInv, TypeOK, TableTyped, TaskTyped
  <2> QED
    BY <1>1, <1>7, <2>1, KeepType, NextTypeParts DEF IInv
<1>9. \A y \in Hash : taskMap'[y] = IF y = x THEN None ELSE taskMap[y]
  BY <1>3 DEF IInv, TypeOK
<1>10. OwnHash'
  BY <1>1, <1>7, <1>9, OwnHashKept DEF IInv
<1>11. Made'
  BY <1>1, <1>4, <1>7, MadeKept DEF IInv, Made
<1>12. HeldAlive'
  BY <1>1, <1>7, <1>9, HeldAliveKept DEF IInv
<1>13. InMap(p) /\ ~ InMap(p)'
  BY <1>2, <1>4, <1>9, Basics DEF IInv, OwnHash, InMap, Mapped
<1>14. ASSUME NEW o \in Object
       PROVE  LET n == Cardinality(Holders(ref', pc', o))
              IN counter'[o] >= n /\ (InMap(o)' => counter'[o] >= n + 1)
  <2> DEFINE m == Cardinality(Holders(ref, pc, o))
             n == Cardinality(Holders(ref', pc', o))
  <2>1. t \in Holders(ref, pc, o) <=> t \in Holders(ref', pc', o)
    BY <1>1, <1>7 DEF Holders
  <2>2. n = m
    BY <1>7, <2>1, HoldersStep DEF Others
  <2>3. InMap(o)' => InMap(o) /\ o # p
    BY <1>9, <1>13, Basics DEF InMap
  <2>4. counter[o] \in Int /\ counter'[o] = IF o = p THEN counter[o] - 1 ELSE counter[o]
    BY <1>3 DEF IInv, TypeOK
  <2>5. m \in Nat
    BY HoldersFinite
  <2>6. counter[o] >= m /\ (InMap(o) => counter[o] >= m + 1)
    BY DEF IInv, Counted
  <2> HIDE DEF m, n
  <2>7. counter'[o] >= n /\ (InMap(o)' => counter'[o] >= n + 1)
    BY <1>13, <2>2, <2>3, <2>4, <2>5, <2>6
  <2> QED
    BY <2>7 DEF n
<1>15. Counted'
  BY <1>14 DEF Counted
<1> QED
  BY <1>8, <1>10, <1>11, <1>12, <1>15 DEF IInv

LEMMA UnmapStep == ASSUME IInv, NEW t \in Threads, Unmap(t) PROVE IInv'
<1>1. call[t] \in Hash
  BY HasType DEF IInv, Unmap, From
<1>2. taskMap[call[t]] \in Object \cup {None}
  BY <1>1 DEF IInv, TypeOK
<1> QED
  BY <1>1, <1>2, UnmapNothing, UnmapFound

-----------------------------------------------------------------------------
(* The steps on a task that the thread holds.                              *)

Holding == {"addrow", "unplay", "stop", "unlist", "unmap", "pause", "run", "play", "stopplay",
            "limit", "release"}

\* A thread that holds a task goes on.
LEMMA GoesOn ==
  ASSUME IInv, NEW t \in Threads, pc[t] \in Holding, NEW place \in Holding, Goto(t, place),
         UNCHANGED <<taskMap, hashOf, counter, deleted, call, ref, checked>>,
         path' \in [Hash -> Seq(Object)], status' \in [Object -> {"pause", "running", "stop"}],
         playing' \in [Object -> BOOLEAN], rows' \subseteq Hash
  PROVE  IInv'
<1>1. /\ pc[t] \notin {"idle", "row", "start", "test", "test1", "list"}
      /\ place \notin {"idle", "row", "start", "test", "test1", "list", "insert"}
  BY DEF Holding
<1>2. call[t] \in Hash /\ ref[t] \in Object
  BY <1>1, HasType DEF IInv
<1>3. place \in Places
  BY DEF Holding, Places
<1>4. Fits(place, call[t], ref[t], None)
  BY <1>1, <1>2, <1>3, Basics DEF Fits
<1>5. call' = [call EXCEPT ![t] = call[t]] /\ ref' = [ref EXCEPT ![t] = ref[t]]
  BY HasType DEF IInv
<1>6. Quiet(t, place, call[t], ref[t])
  BY <1>1, <1>4, <1>5 DEF Quiet, Goto
<1> QED
  BY <1>6, QuietTyped

\* The status of a task, its playing flag, the rows and the list may change.
LEMMA Values ==
  ASSUME IInv
  PROVE  /\ path \in [Hash -> Seq(Object)] /\ status \in [Object -> {"pause", "running", "stop"}]
         /\ playing \in [Object -> BOOLEAN] /\ rows \subseteq Hash
         /\ \A o \in Object, v \in {"pause", "running", "stop"} :
              [status EXCEPT ![o] = v] \in [Object -> {"pause", "running", "stop"}]
         /\ \A o \in Object, v \in BOOLEAN : [playing EXCEPT ![o] = v] \in [Object -> BOOLEAN]
BY DEF IInv, TypeOK

LEMMA HeldStep ==
  ASSUME IInv, NEW t \in Threads,
         AddRow(t) \/ Pause(t) \/ Run(t) \/ Play(t) \/ Limit(t) \/ Stop(t)
  PROVE  IInv'
<1>1. pc[t] \in Holding /\ call[t] \in Hash /\ ref[t] \in Object
  BY HasType DEF IInv, AddRow, Pause, Run, Play, Limit, Stop, From, Holding
<1>2. (rows \cup {call[t]}) \subseteq Hash /\ (rows \ {call[t]}) \subseteq Hash
  BY <1>1, Values
<1>3. UNCHANGED <<taskMap, hashOf, counter, deleted, call, ref, checked>>
  BY DEF AddRow, Pause, Run, Play, Limit, Stop, table, task
<1>4. /\ path' \in [Hash -> Seq(Object)] /\ status' \in [Object -> {"pause", "running", "stop"}]
      /\ playing' \in [Object -> BOOLEAN] /\ rows' \subseteq Hash
  <2>1. CASE AddRow(t)
    BY <1>2, <2>1, Values DEF AddRow, table, task
  <2>2. CASE Pause(t) \/ Run(t) \/ Limit(t)
    BY <1>1, <2>2, Values DEF Pause, Run, Limit, table
  <2>3. CASE Play(t)
    BY <1>1, <2>3, Values DEF Play, table
  <2>4. CASE Stop(t)
    BY <1>1, <1>2, <2>4, Values DEF Stop, table
  <2> QED
    BY <2>1, <2>2, <2>3, <2>4
<1>5. \E place \in Holding : Goto(t, place)
  BY DEF AddRow, Pause, Run, Play, Limit, Stop, Holding
<1> QED
  BY <1>1, <1>3, <1>4, <1>5, GoesOn

LEMMA UnplayStep == ASSUME IInv, NEW t \in Threads, Unplay(t) PROVE IInv'
<1>1. pc[t] \in Holding /\ call[t] \in Hash /\ "stop" \in Holding
  BY HasType DEF IInv, Unplay, From, Holding
<1>2. taskMap[call[t]] \in Object \cup {None}
  BY <1>1 DEF IInv, TypeOK
<1>3. Goto(t, "stop") /\ UNCHANGED <<table, hashOf, counter, deleted, rows, call, ref, checked>>
  BY DEF Unplay
<1>4. status' \in [Object -> {"pause", "running", "stop"}] /\ playing' \in [Object -> BOOLEAN]
  <2>1. CASE taskMap[call[t]] = None
    BY <2>1, Values DEF Unplay
  <2>2. CASE taskMap[call[t]] # None
    BY <1>2, <2>2, Values DEF Unplay
  <2> QED
    BY <2>1, <2>2
<1>5. path' \in [Hash -> Seq(Object)] /\ rows' \subseteq Hash /\ UNCHANGED taskMap
  BY <1>3, Values DEF table
<1> QED
  BY <1>1, <1>3, <1>4, <1>5, GoesOn

LEMMA UnlistStep == ASSUME IInv, NEW t \in Threads, Unlist(t) PROVE IInv'
<1>1. pc[t] \in Holding /\ call[t] \in Hash /\ "unmap" \in Holding
  BY HasType DEF IInv, Unlist, From, Holding
<1>2. Goto(t, "unmap") /\ UNCHANGED <<taskMap, task, rows, call, ref, checked>>
  BY DEF Unlist
<1>3. path' \in [Hash -> Seq(Object)]
  <2>1. \A s \in Seq(Object) : s # << >> => Tail(s) \in Seq(Object)
    OBVIOUS
  <2>2. path[call[t]] \in Seq(Object)
    BY <1>1, Values
  <2>3. (IF path[call[t]] = << >> THEN path[call[t]] ELSE Tail(path[call[t]])) \in Seq(Object)
    BY <2>1, <2>2
  <2> QED
    BY <1>1, <2>3, Values DEF Unlist
<1>4. /\ status' \in [Object -> {"pause", "running", "stop"}] /\ playing' \in [Object -> BOOLEAN]
      /\ rows' \subseteq Hash /\ UNCHANGED <<hashOf, counter, deleted>>
  BY <1>2, Values DEF task
<1> QED
  BY <1>1, <1>2, <1>3, <1>4, GoesOn

-----------------------------------------------------------------------------
(* The other steps.                                                        *)

\* The list gets a bare pointer.
LEMMA ListStep == ASSUME IInv, NEW t \in Threads, List(t) PROVE IInv'
<1>1. /\ pc[t] = "list" /\ Goto(t, "row") /\ path' = [path EXCEPT ![call[t]] = Append(@, ref[t])]
      /\ ref' = [ref EXCEPT ![t] = None] /\ UNCHANGED <<taskMap, task, rows, call, checked>>
  BY DEF List, From
<1>2. call[t] \in Hash /\ ref[t] \in Object
  BY <1>1, HasType DEF IInv
<1>3. path' \in [Hash -> Seq(Object)]
  <2>1. \A s \in Seq(Object), o \in Object : Append(s, o) \in Seq(Object)
    OBVIOUS
  <2>2. path[call[t]] \in Seq(Object)
    BY <1>2, Values
  <2>3. Append(path[call[t]], ref[t]) \in Seq(Object)
    BY <1>2, <2>1, <2>2
  <2> QED
    BY <1>1, <1>2, <2>3, Values
<1>4. Fits("row", call[t], None, None)
  BY <1>2, Basics DEF Fits, Places
<1>5. call' = [call EXCEPT ![t] = call[t]]
  BY <1>1, HasType DEF IInv
<1>6. /\ status' \in [Object -> {"pause", "running", "stop"}] /\ playing' \in [Object -> BOOLEAN]
      /\ rows' \subseteq Hash /\ UNCHANGED <<hashOf, counter, deleted>>
  BY <1>1, Values DEF task
<1>7. Quiet(t, "row", call[t], None)
  BY <1>1, <1>3, <1>4, <1>5, <1>6 DEF Quiet, Goto
<1> QED
  BY <1>7, QuietTyped

\* A thread without a task gives the call up, or begins one without a look at the task.
LEMMA EmptyHanded ==
  ASSUME IInv, NEW t \in Threads, pc[t] \in {"idle", "row", "start"}, NEW x, NEW place,
         (place = "idle" /\ x = None) \/ (place = "start" /\ x \in Hash),
         Goto(t, place), call' = [call EXCEPT ![t] = x],
         UNCHANGED <<table, task, rows, ref, checked>>
  PROVE  IInv'
<1>1. ref[t] = None
  BY HasType DEF IInv
<1>2. ref' = [ref EXCEPT ![t] = None]
  BY <1>1, HasType DEF IInv
<1>3. Fits(place, x, None, None)
  BY Basics DEF Fits, Places
<1>4. /\ path' \in [Hash -> Seq(Object)] /\ status' \in [Object -> {"pause", "running", "stop"}]
      /\ playing' \in [Object -> BOOLEAN] /\ rows' \subseteq Hash
      /\ UNCHANGED <<taskMap, hashOf, counter, deleted>>
  BY Values DEF table, task
<1>5. Quiet(t, place, x, None)
  BY <1>1, <1>2, <1>3, <1>4 DEF Quiet, Goto
<1> QED
  BY <1>5, QuietTyped

LEMMA LookUpStep ==
  ASSUME IInv, NEW t \in Threads, Row(t) \/ Start(t)
  PROVE  IInv'
<1>1. pc[t] \in {"row", "start"}
  BY DEF Row, Start, From
<1>2. ref[t] = None /\ pc[t] \notin {"test", "test1"} /\ call = [call EXCEPT ![t] = call[t]]
  BY <1>1, HasType DEF IInv
<1>3. UNCHANGED <<table, hashOf, status, playing, deleted, rows, checked>>
  BY DEF Row, Start
<1>4. CASE call[t] \in Mapped
  <2>1. UNCHANGED call /\ (Find(t, call[t], "addrow") \/ Find(t, call[t], "run"))
    BY <1>4 DEF Row, Start
  <2>2. call' = [call EXCEPT ![t] = call[t]]
    BY <1>2, <2>1
  <2> QED
    BY <1>2, <1>3, <1>4, <2>1, <2>2, FoundStep
<1>5. CASE call[t] \notin Mapped
  <2>1. Goto(t, "idle") /\ call' = [call EXCEPT ![t] = None] /\ UNCHANGED <<ref, counter>>
    BY <1>5 DEF Row, Start
  <2>2. UNCHANGED <<table, task, rows, ref, checked>>
    BY <1>3, <2>1 DEF task
  <2> QED
    BY <1>1, <2>1, <2>2, EmptyHanded
<1> QED
  BY <1>4, <1>5

LEMMA CallsStep ==
  ASSUME IInv, NEW t \in Threads, NEW x \in Hash, Calls(t, x)
  PROVE  IInv'
<1>1. CASE CreateYfTask(t, x)
  BY <1>1, CreateYfTaskStep
<1>2. ASSUME NEW place \in {"unplay", "pause", "play", "stopplay"}, Begin(t, x, place) PROVE IInv'
  <2>1. pc[t] = "idle" /\ x \in Mapped
    BY <1>2 DEF Begin, From
  <2>2. ref[t] = None
    BY <2>1, HasType DEF IInv
  <2>3. /\ Find(t, x, place) /\ call' = [call EXCEPT ![t] = x]
        /\ UNCHANGED <<table, hashOf, status, playing, deleted, rows, checked>>
    BY <1>2 DEF Begin
  <2> QED
    BY <2>1, <2>2, <2>3, FoundStep
<1>3. CASE RunTask(t, x)
  <2>1. /\ pc[t] = "idle" /\ call' = [call EXCEPT ![t] = x] /\ Goto(t, "start")
        /\ UNCHANGED <<table, task, rows, ref, checked>>
    BY <1>3 DEF RunTask, From
  <2> QED
    BY <2>1, EmptyHanded
<1> QED
  BY <1>1, <1>2, <1>3 DEF Calls

LEMMA WorksStep == ASSUME IInv, NEW t \in Threads, Works(t) PROVE IInv'
<1>1. CASE Create(t)
  BY <1>1, InsertStep, ListStep, LookUpStep, HeldStep DEF Create
<1>2. CASE Delete(t)
  BY <1>2, UnplayStep, HeldStep, UnlistStep, UnmapStep DEF Delete
<1>3. CASE Pause(t) \/ Start(t) \/ Run(t) \/ Play(t) \/ Limit(t)
  BY <1>3, HeldStep, LookUpStep
<1>4. CASE Release(t) \/ Test(t)
  BY <1>4, ReleaseStep, TestStep
<1> QED
  BY <1>1, <1>2, <1>3, <1>4 DEF Works

LEMMA Inductive == ASSUME IInv, [Next]_vars PROVE IInv'
<1>1. ASSUME NEW t \in Threads, NEW x \in Hash, Calls(t, x) PROVE IInv'
  BY <1>1, CallsStep
<1>2. ASSUME NEW t \in Threads, Works(t) PROVE IInv'
  BY <1>2, WorksStep
<1>3. CASE UNCHANGED vars
  BY <1>3 DEF vars, table, task, thread, IInv, TypeOK, OwnHash, Made, Counted, HeldAlive,
              Mapped, InMap, Holders, Holds
<1> QED
  BY <1>1, <1>2, <1>3 DEF Next

-----------------------------------------------------------------------------
(* The beginning: every object is in the map, with a counter of 1, or not  *)
(* made yet.                                                               *)

LEMMA InitOK == Init => IInv
<1> SUFFICES ASSUME Init PROVE IInv
  OBVIOUS
<1>1. PICK loaded \in SUBSET Hash :
        /\ taskMap = [x \in Hash |-> IF x \in loaded THEN x ELSE None]
        /\ path = [x \in Hash |-> IF x \in loaded THEN <<x>> ELSE << >>]
        /\ hashOf = [o \in Object |-> IF o \in loaded THEN o ELSE None]
        /\ counter = [o \in Object |-> IF o \in loaded THEN 1 ELSE 0]
        /\ rows = loaded
  BY DEF Init
<1>2. Hash \subseteq Object
  BY TaskAssumption DEF Hash, Object
<1>3. /\ deleted = [o \in Object |-> 0] /\ pc = [t \in Threads |-> "idle"]
      /\ call = [t \in Threads |-> None] /\ ref = [t \in Threads |-> None]
      /\ checked = [t \in Threads |-> None]
      /\ status = [o \in Object |-> "pause"] /\ playing = [o \in Object |-> FALSE]
  BY DEF Init
<1>4. TypeOK
  <2>1. TableTyped
    <3>1. \A x \in Hash : (IF x \in loaded THEN <<x>> ELSE << >>) \in Seq(Object)
      BY <1>2
    <3>2. \A x \in Hash : (IF x \in loaded THEN x ELSE None) \in Object \cup {None}
      BY <1>2
    <3> QED
      BY <1>1, <3>1, <3>2 DEF TableTyped
  <2>2. TaskTyped
    BY <1>1, <1>3 DEF TaskTyped
  <2>3. ThreadsTyped
    BY <1>3 DEF ThreadsTyped, Places
  <2> QED
    BY <1>1, <2>1, <2>2, <2>3, TypeParts
<1>5. OwnHash
  BY <1>1, <1>2, <1>3, Basics DEF OwnHash, Mapped
<1>6. Made
  BY <1>1, <1>3 DEF Made
<1>7. Counted
  <2> SUFFICES ASSUME NEW o \in Object
               PROVE  LET n == Cardinality(Holders(ref, pc, o))
                      IN counter[o] >= n /\ (InMap(o) => counter[o] >= n + 1)
    BY DEF Counted
  <2>1. Holders(ref, pc, o) = {}
    BY <1>3, Basics DEF Holders
  <2>2. Cardinality(Holders(ref, pc, o)) = 0
    BY <2>1, FS_EmptySet
  <2>3. InMap(o) => o \in loaded
    BY <1>1, Basics DEF InMap
  <2>4. counter[o] = IF o \in loaded THEN 1 ELSE 0
    BY <1>1
  <2> QED
    BY <2>2, <2>3, <2>4
<1>8. HeldAlive
  BY <1>3 DEF HeldAlive
<1> QED
  BY <1>4, <1>5, <1>6, <1>7, <1>8 DEF IInv

-----------------------------------------------------------------------------
(* The theorems.                                                           *)

\* The counter of a task is never less than the references to it (RefCountedObject).
THEOREM Invariance == Spec => []IInv
<1>1. Init => IInv
  BY InitOK
<1>2. IInv /\ [Next]_vars => IInv'
  BY Inductive
<1> QED
  BY <1>1, <1>2, PTL DEF Spec

\* The map, the lists, the tasks and the threads are what they are declared to be: a
\* thread has a task in its hands exactly where the code has one.
THEOREM TypeCorrect == Spec => []TypeOK
<1>1. IInv => TypeOK
  BY DEF IInv
<1> QED
  BY <1>1, Invariance, PTL

\* CTaskMgr::FindTask, DelTask, RefCountedObject::release: a task that is in the map, or
\* that a thread has found there or just made, has not been deleted.
THEOREM FoundAlive == Spec => []HeldAlive
<1>1. IInv => HeldAlive
  BY DEF IInv
<1> QED
  BY <1>1, Invariance, PTL

=============================================================================
