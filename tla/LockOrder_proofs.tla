--------------------------- MODULE LockOrder_proofs ---------------------------
(***************************************************************************)
(* Proofs about LockOrder, for any number of application threads.          *)
(*                                                                         *)
(* Every lock has a rank.  A thread of the application, the routine thread *)
(* and the message thread take a lock they do not hold only when all they  *)
(* hold ranks below it, but for the lock of the map, which they also take  *)
(* under the lock of the pieces; the polling thread and the server thread  *)
(* keep to no rank.                                                        *)
(***************************************************************************)
EXTENDS LockOrder, TLAPS

Op == [op : {"lock", "unlock"}, lock : Lock]
Depths == [Lock -> Nat]
Zero == [l \in Lock |-> 0]
Held(h) == {l \in Lock : h[l] > 0}

Rank(l) ==
  IF l \in {"path", "http"} THEN 0 ELSE IF l = "map" THEN 1 ELSE IF l = "piece" THEN 2
  ELSE IF l = "m3u8" THEN 3 ELSE IF l = "agent" THEN 4 ELSE 5

\* The lock l may be taken by one that holds m.
Follows(m, l) == Rank(m) < Rank(l) \/ (m = "piece" /\ l = "map")

\* One that holds only locks of lower rank than this may take l.
Room(l) == IF l = "map" THEN 3 ELSE Rank(l)

\* A thread whose depths are h does o and has depths k; an ordered one takes locks by rank.
Step(ordered, h, o, k) ==
  \/ /\ o.op = "lock"
     /\ ordered => h[o.lock] > 0 \/ \A m \in Held(h) : Follows(m, o.lock)
     /\ k = [h EXCEPT ![o.lock] = @ + 1]
  \/ /\ o.op = "unlock" /\ h[o.lock] > 0
     /\ k = [h EXCEPT ![o.lock] = @ - 1]

\* The operations s lead from the depths h to k.
Path(ordered, s, h, k) ==
  \E H \in [1..(Len(s) + 1) -> Depths] :
    /\ H[1] = h /\ H[Len(s) + 1] = k
    /\ \A i \in 1..Len(s) : Step(ordered, H[i], s[i], H[i + 1])

\* s gives back all it takes; an ordered thread may call it with the locks of N and
\* perhaps others, all of rank below top.
Safe(ordered, s, top, N) ==
  /\ s \in Seq(Op)
  /\ \A h \in Depths :
       (ordered => N \subseteq Held(h) /\ \A m \in Held(h) : Rank(m) < top) => Path(ordered, s, h, h)

-----------------------------------------------------------------------------
(* Paths.                                                                  *)

LEMMA PathEmpty ==
  ASSUME NEW f \in BOOLEAN, NEW h \in Depths
  PROVE  Path(f, << >>, h, h)
<1> DEFINE H == [i \in 1..(Len(<< >>) + 1) |-> h]
<1>1. Len(<< >>) = 0
  OBVIOUS
<1>2. H \in [1..(Len(<< >>) + 1) -> Depths] /\ H[1] = h /\ H[Len(<< >>) + 1] = h
  BY <1>1
<1>3. \A i \in 1..Len(<< >>) : FALSE
  BY <1>1
<1> HIDE DEF H
<1> QED
  BY <1>2, <1>3 DEF Path

LEMMA PathOne ==
  ASSUME NEW f \in BOOLEAN, NEW o \in Op, NEW h \in Depths, NEW k \in Depths, Step(f, h, o, k)
  PROVE  Path(f, <<o>>, h, k)
<1> DEFINE H == [i \in 1..(Len(<<o>>) + 1) |-> IF i = 1 THEN h ELSE k]
<1>1. Len(<<o>>) = 1 /\ <<o>>[1] = o
  OBVIOUS
<1>2. H \in [1..(Len(<<o>>) + 1) -> Depths] /\ H[1] = h /\ H[2] = k
  BY <1>1
<1> HIDE DEF H
<1>3. \A i \in 1..Len(<<o>>) : Step(f, H[i], <<o>>[i], H[i + 1])
  <2> SUFFICES ASSUME NEW i \in 1..Len(<<o>>) PROVE Step(f, H[i], <<o>>[i], H[i + 1])
    OBVIOUS
  <2>1. i = 1 /\ i + 1 = 2
    BY <1>1
  <2> QED
    BY <1>1, <1>2, <2>1
<1>4. H[Len(<<o>>) + 1] = k
  BY <1>1, <1>2
<1> QED
  BY <1>2, <1>3, <1>4 DEF Path

LEMMA PathConcat ==
  ASSUME NEW f \in BOOLEAN, NEW s \in Seq(Op), NEW t \in Seq(Op),
         NEW h \in Depths, NEW k \in Depths, NEW m \in Depths,
         Path(f, s, h, k), Path(f, t, k, m)
  PROVE  Path(f, s \o t, h, m)
<1>1. PICK H \in [1..(Len(s) + 1) -> Depths] :
        /\ H[1] = h /\ H[Len(s) + 1] = k
        /\ \A i \in 1..Len(s) : Step(f, H[i], s[i], H[i + 1])
  BY DEF Path
<1>2. PICK G \in [1..(Len(t) + 1) -> Depths] :
        /\ G[1] = k /\ G[Len(t) + 1] = m
        /\ \A i \in 1..Len(t) : Step(f, G[i], t[i], G[i + 1])
  BY DEF Path
<1>3. Len(s) \in Nat /\ Len(t) \in Nat /\ Len(s \o t) = Len(s) + Len(t)
  OBVIOUS
<1> DEFINE J == [i \in 1..(Len(s \o t) + 1) |-> IF i <= Len(s) THEN H[i] ELSE G[i - Len(s)]]
<1>4. J \in [1..(Len(s \o t) + 1) -> Depths]
  <2> SUFFICES ASSUME NEW i \in 1..(Len(s \o t) + 1)
               PROVE (IF i <= Len(s) THEN H[i] ELSE G[i - Len(s)]) \in Depths
    OBVIOUS
  <2>1. CASE i <= Len(s)
    <3>1. i \in 1..(Len(s) + 1)
      BY <1>3, <2>1
    <3> QED
      BY <2>1, <3>1
  <2>2. CASE ~ (i <= Len(s))
    <3>1. i - Len(s) \in 1..(Len(t) + 1)
      BY <1>3, <2>2
    <3> QED
      BY <2>2, <3>1
  <2> QED
    BY <2>1, <2>2
<1>5. \A i \in 1..(Len(s) + 1) : J[i] = H[i]
  <2> SUFFICES ASSUME NEW i \in 1..(Len(s) + 1) PROVE J[i] = H[i]
    OBVIOUS
  <2>1. i \in 1..(Len(s \o t) + 1)
    BY <1>3
  <2>2. CASE i <= Len(s)
    BY <2>1, <2>2
  <2>3. CASE i = Len(s) + 1
    <3>1. ~ (i <= Len(s)) /\ i - Len(s) = 1
      BY <1>3, <2>3
    <3>2. J[i] = G[1]
      BY <2>1, <3>1
    <3> QED
      BY <1>1, <1>2, <2>3, <3>2
  <2> QED
    BY <1>3, <2>2, <2>3
<1>6. \A i \in 1..(Len(t) + 1) : J[Len(s) + i] = G[i]
  <2> SUFFICES ASSUME NEW i \in 1..(Len(t) + 1) PROVE J[Len(s) + i] = G[i]
    OBVIOUS
  <2>1. Len(s) + i \in 1..(Len(s \o t) + 1) /\ ~ (Len(s) + i <= Len(s)) /\ (Len(s) + i) - Len(s) = i
    BY <1>3
  <2> QED
    BY <2>1
<1> HIDE DEF J
<1>7. J[1] = h /\ J[Len(s \o t) + 1] = m
  <2>1. 1 \in 1..(Len(s) + 1) /\ Len(t) + 1 \in 1..(Len(t) + 1) /\ Len(s) + (Len(t) + 1) = Len(s \o t) + 1
    BY <1>3
  <2>2. J[Len(s) + (Len(t) + 1)] = G[Len(t) + 1]
    BY <1>6, <2>1
  <2> QED
    BY <1>1, <1>2, <1>5, <2>1, <2>2
<1>8. \A i \in 1..Len(s \o t) : Step(f, J[i], (s \o t)[i], J[i + 1])
  <2> SUFFICES ASSUME NEW i \in 1..Len(s \o t) PROVE Step(f, J[i], (s \o t)[i], J[i + 1])
    OBVIOUS
  <2>1. CASE i <= Len(s)
    <3>1. i \in 1..Len(s) /\ i \in 1..(Len(s) + 1) /\ i + 1 \in 1..(Len(s) + 1)
      BY <1>3, <2>1
    <3>2. (s \o t)[i] = s[i]
      BY <3>1
    <3>3. J[i] = H[i] /\ J[i + 1] = H[i + 1]
      BY <1>5, <3>1
    <3> QED
      BY <1>1, <3>1, <3>2, <3>3
  <2>2. CASE ~ (i <= Len(s))
    <3> DEFINE j == i - Len(s)
    <3>1. j \in 1..Len(t) /\ j \in 1..(Len(t) + 1) /\ j + 1 \in 1..(Len(t) + 1)
      BY <1>3, <2>2
    <3>2. Len(s) + j = i /\ Len(s) + (j + 1) = i + 1
      BY <1>3
    <3>3. (s \o t)[i] = t[j]
      BY <1>3, <2>2
    <3> HIDE DEF j
    <3>4. J[Len(s) + j] = G[j] /\ J[Len(s) + (j + 1)] = G[j + 1]
      BY <1>6, <3>1
    <3> QED
      BY <1>2, <3>1, <3>2, <3>3, <3>4
  <2> QED
    BY <2>1, <2>2
<1> QED
  BY <1>4, <1>7, <1>8 DEF Path

LEMMA PathTail ==
  ASSUME NEW f \in BOOLEAN, NEW s \in Seq(Op), s # << >>,
         NEW h \in Depths, NEW k \in Depths, Path(f, s, h, k)
  PROVE  \E m \in Depths : Step(f, h, Head(s), m) /\ Path(f, Tail(s), m, k)
<1>1. PICK H \in [1..(Len(s) + 1) -> Depths] :
        /\ H[1] = h /\ H[Len(s) + 1] = k
        /\ \A i \in 1..Len(s) : Step(f, H[i], s[i], H[i + 1])
  BY DEF Path
<1>2. Len(s) \in Nat \ {0} /\ Head(s) = s[1] /\ Tail(s) \in Seq(Op) /\ Len(Tail(s)) = Len(s) - 1
  OBVIOUS
<1>3. \A i \in 1..Len(Tail(s)) : Tail(s)[i] = s[i + 1]
  BY <1>2
<1> DEFINE G == [i \in 1..(Len(Tail(s)) + 1) |-> H[i + 1]]
<1>4. \A i \in 1..(Len(Tail(s)) + 1) : i + 1 \in 1..(Len(s) + 1) /\ G[i] = H[i + 1]
  BY <1>2
<1>5. G \in [1..(Len(Tail(s)) + 1) -> Depths]
  BY <1>4
<1> HIDE DEF G
<1>6. 1 \in 1..(Len(Tail(s)) + 1) /\ Len(Tail(s)) + 1 \in 1..(Len(Tail(s)) + 1)
  BY <1>2
<1>7. G[1] = H[2] /\ G[Len(Tail(s)) + 1] = k
  <2>1. (Len(Tail(s)) + 1) + 1 = Len(s) + 1
    BY <1>2
  <2> QED
    BY <1>1, <1>4, <1>6, <2>1
<1>8. \A i \in 1..Len(Tail(s)) : Step(f, G[i], Tail(s)[i], G[i + 1])
  <2> SUFFICES ASSUME NEW i \in 1..Len(Tail(s)) PROVE Step(f, G[i], Tail(s)[i], G[i + 1])
    OBVIOUS
  <2>1. i + 1 \in 1..Len(s) /\ i \in 1..(Len(Tail(s)) + 1) /\ i + 1 \in 1..(Len(Tail(s)) + 1)
    BY <1>2
  <2> QED
    BY <1>1, <1>3, <1>4, <2>1
<1>9. Path(f, Tail(s), G[1], k)
  BY <1>5, <1>7, <1>8 DEF Path
<1>10. Step(f, h, Head(s), G[1]) /\ G[1] \in Depths
  BY <1>1, <1>2, <1>5, <1>6, <1>7
<1> QED
  BY <1>9, <1>10

-----------------------------------------------------------------------------
(* The rank of each lock.                                                  *)

LEMMA Ranks ==
  /\ {"path", "map", "keyurl", "piece", "m3u8", "tsIndex", "cache", "agent", "sock", "file",
      "msgQueue", "error", "oneTask", "db", "http"} = Lock
  /\ Rank("path") = 0 /\ Rank("http") = 0 /\ Rank("map") = 1 /\ Rank("piece") = 2
  /\ Rank("m3u8") = 3 /\ Rank("agent") = 4
  /\ \A l \in {"keyurl", "tsIndex", "cache", "sock", "file", "msgQueue", "error", "oneTask", "db"} :
       Rank(l) = 5
  /\ Room("path") = 0 /\ Room("http") = 0 /\ Room("map") = 3 /\ Room("piece") = 2
  /\ Room("m3u8") = 3 /\ Room("agent") = 4
  /\ \A l \in {"keyurl", "tsIndex", "cache", "sock", "file", "msgQueue", "error", "oneTask", "db"} :
       Room(l) = 5
BY DEF Lock, Rank, Room

-----------------------------------------------------------------------------
(* Safe functions: two in a row, and one under a lock.                     *)

LEMMA SafeConcat ==
  ASSUME NEW f \in BOOLEAN, NEW top \in Nat, NEW N \in SUBSET Lock, NEW s, NEW t,
         Safe(f, s, top, N), Safe(f, t, top, N)
  PROVE  Safe(f, s \o t, top, N)
<1>1. s \in Seq(Op) /\ t \in Seq(Op) /\ s \o t \in Seq(Op)
  BY DEF Safe
<1>2. ASSUME NEW h \in Depths,
             f => N \subseteq Held(h) /\ \A m \in Held(h) : Rank(m) < top
      PROVE  Path(f, s \o t, h, h)
  <2>1. Path(f, s, h, h) /\ Path(f, t, h, h)
    BY <1>2 DEF Safe
  <2> QED
    BY <1>1, <2>1, PathConcat
<1> QED
  BY <1>1, <1>2 DEF Safe

LEMMA SafeHere ==
  ASSUME NEW f \in BOOLEAN, NEW top \in Nat, NEW low \in Nat, NEW N \in SUBSET Lock,
         NEW M \in SUBSET Lock, NEW s, Safe(f, s, top, N), f => low <= top /\ N \subseteq M
  PROVE  Safe(f, s, low, M)
<1>1. s \in Seq(Op)
  BY DEF Safe
<1>2. \A m \in Lock : Rank(m) \in Nat
  BY DEF Rank
<1>3. ASSUME NEW h \in Depths,
             f => M \subseteq Held(h) /\ \A m \in Held(h) : Rank(m) < low
      PROVE  Path(f, s, h, h)
  <2>1. f => N \subseteq Held(h) /\ \A m \in Held(h) : Rank(m) < top
    BY <1>2, <1>3 DEF Held
  <2> QED
    BY <2>1 DEF Safe
<1> QED
  BY <1>1, <1>3 DEF Safe

LEMMA SafeEmpty ==
  ASSUME NEW f \in BOOLEAN, NEW top \in Nat, NEW N \in SUBSET Lock
  PROVE  Safe(f, << >>, top, N)
<1>1. << >> \in Seq(Op)
  OBVIOUS
<1> QED
  BY <1>1, PathEmpty DEF Safe

LEMMA SafeHolding ==
  ASSUME NEW f \in BOOLEAN, NEW l \in Lock, NEW body,
         NEW top \in Nat, NEW inner \in Nat, NEW N \in SUBSET Lock,
         Safe(f, body, inner, N \cup {l}),
         f => top <= inner /\ Rank(l) < inner /\ (l \in N \/ top <= Room(l))
  PROVE  Safe(f, Holding(l, body), top, N)
<1> DEFINE take == [op |-> "lock", lock |-> l]
           give == [op |-> "unlock", lock |-> l]
<1>1. take \in Op /\ give \in Op /\ body \in Seq(Op)
  BY DEF Op, Safe
<1>2. take.op = "lock" /\ take.lock = l /\ give.op = "unlock" /\ give.lock = l
  OBVIOUS
<1>3. Holding(l, body) = <<take>> \o body \o <<give>>
  BY DEF Holding
<1> HIDE DEF take, give
<1>4. <<take>> \in Seq(Op) /\ <<give>> \in Seq(Op) /\ <<take>> \o body \in Seq(Op)
  BY <1>1
<1>5. Holding(l, body) \in Seq(Op)
  BY <1>1, <1>3, <1>4
<1>6. \A m \in Lock : Rank(m) \in Nat
  BY DEF Rank
<1>7. ASSUME NEW h \in Depths,
             f => N \subseteq Held(h) /\ \A m \in Held(h) : Rank(m) < top
      PROVE  Path(f, Holding(l, body), h, h)
  <2> DEFINE k == [h EXCEPT ![l] = @ + 1]
  <2>1. k \in Depths /\ k[l] = h[l] + 1 /\ h[l] \in Nat
    BY DEF Depths
  <2>2. \A m \in Lock : m # l => k[m] = h[m]
    BY DEF Depths
  <2>3. h = [k EXCEPT ![l] = @ - 1]
    <3>1. (h[l] + 1) - 1 = h[l]
      BY <2>1
    <3>2. \A m \in Lock : [k EXCEPT ![l] = @ - 1][m] = h[m]
      BY <2>1, <3>1 DEF Depths
    <3>3. h = [m \in Lock |-> h[m]]
      BY DEF Depths
    <3>4. [k EXCEPT ![l] = @ - 1] = [m \in Lock |-> [k EXCEPT ![l] = @ - 1][m]]
      BY <2>1 DEF Depths
    <3> QED
      BY <3>2, <3>3, <3>4
  <2>4. k = [h EXCEPT ![l] = @ + 1]
    OBVIOUS
  <2> HIDE DEF k
  <2>5. f => h[l] > 0 \/ \A m \in Held(h) : Follows(m, l)
    <3> SUFFICES ASSUME f, ~ (h[l] > 0), NEW m \in Held(h) PROVE Follows(m, l)
      OBVIOUS
    <3>1. m \in Lock /\ m # l /\ Rank(m) < top /\ top <= Room(l)
      BY <1>7 DEF Held
    <3>2. CASE l = "map"
      BY <3>1, <3>2, Ranks DEF Room, Follows
    <3>3. CASE l # "map"
      BY <1>6, <3>1, <3>3 DEF Room, Follows
    <3> QED
      BY <3>2, <3>3
  <2>6. Step(f, h, take, k)
    BY <1>2, <2>4, <2>5 DEF Step
  <2>7. k[l] > 0
    BY <2>1
  <2>8. Step(f, k, give, h)
    BY <1>2, <2>3, <2>7 DEF Step
  <2>9. ASSUME f PROVE N \cup {l} \subseteq Held(k) /\ \A m \in Held(k) : Rank(m) < inner
    <3>1. Held(k) = Held(h) \cup {l}
      BY <2>1, <2>2, <2>7 DEF Held
    <3>2. \A m \in Held(h) : m \in Lock /\ Rank(m) < top
      BY <1>7, <2>9 DEF Held
    <3> QED
      BY <1>6, <1>7, <2>9, <3>1, <3>2
  <2>10. Path(f, body, k, k)
    BY <2>1, <2>9 DEF Safe
  <2>11. Path(f, <<take>>, h, k) /\ Path(f, <<give>>, k, h)
    BY <1>1, <2>1, <2>6, <2>8, PathOne
  <2>12. Path(f, <<take>> \o body, h, k)
    BY <1>1, <1>4, <2>1, <2>10, <2>11, PathConcat
  <2>13. Path(f, <<take>> \o body \o <<give>>, h, h)
    BY <1>4, <2>1, <2>11, <2>12, PathConcat
  <2> QED
    BY <1>3, <2>13
<1> QED
  BY <1>5, <1>7 DEF Safe

LEMMA SafeBrief ==
  ASSUME NEW f \in BOOLEAN, NEW l \in Lock, NEW top \in Nat, NEW N \in SUBSET Lock,
         f => top <= Room(l) \/ l \in N
  PROVE  Safe(f, Brief(l), top, N)
<1> DEFINE inner == top + Rank(l) + 1
<1>1. Rank(l) \in Nat
  BY DEF Rank
<1>2. inner \in Nat /\ top <= inner /\ Rank(l) < inner
  BY <1>1
<1> HIDE DEF inner
<1>3. Safe(f, << >>, inner, N \cup {l})
  BY <1>2, SafeEmpty
<1>4. Safe(f, Holding(l, << >>), top, N)
  BY <1>2, <1>3, SafeHolding
<1> QED
  BY <1>4 DEF Brief

-----------------------------------------------------------------------------
(* Every function, from the locks it may be called with.                   *)

(* CHttpAgent.                                                             *)

LEMMA GetAgentInfoSafe ==
  ASSUME NEW f \in BOOLEAN, NEW top \in Nat, NEW N \in SUBSET Lock,
         f => top <= 4 \/ "agent" \in N
  PROVE  Safe(f, GetAgentInfo, top, N)
BY SafeBrief, Ranks DEF GetAgentInfo

LEMMA OnCloseSafe ==
  ASSUME NEW f \in BOOLEAN, NEW top \in Nat, NEW N \in SUBSET Lock,
         f => top <= 5 /\ "agent" \in N
  PROVE  Safe(f, OnClose, top, N)
<1>0. "sock" \in Lock /\ N \cup {"sock"} \in SUBSET Lock
  BY Ranks
<1>1. Safe(f, GetAgentInfo, 6, N \cup {"sock"})
  BY <1>0, GetAgentInfoSafe
<1>2. Safe(f, Holding("sock", GetAgentInfo), top, N)
  BY <1>0, <1>1, SafeHolding, Ranks
<1> QED
  BY <1>2 DEF OnClose

LEMMA ReConnectSafe ==
  ASSUME NEW f \in BOOLEAN, NEW top \in Nat, NEW N \in SUBSET Lock,
         f => top <= 4 \/ (top <= 5 /\ "agent" \in N)
  PROVE  Safe(f, ReConnect, top, N)
<1>1. Safe(f, GetAgentInfo, top, N)
  BY GetAgentInfoSafe
<1>2. Safe(f, Brief("sock"), top, N)
  BY SafeBrief, Ranks
<1>3. Safe(f, GetAgentInfo \o Brief("sock"), top, N)
  BY <1>1, <1>2, SafeConcat
<1> QED
  BY <1>3 DEF ReConnect

LEMMA AddOneTaskHashSafe ==
  ASSUME NEW f \in BOOLEAN, NEW top \in Nat, NEW N \in SUBSET Lock,
         f => top <= 5
  PROVE  Safe(f, AddOneTaskHash, top, N)
BY SafeBrief, Ranks DEF AddOneTaskHash

LEMMA DelOneTaskHashSafe ==
  ASSUME NEW f \in BOOLEAN, NEW top \in Nat, NEW N \in SUBSET Lock,
         f => top <= 5
  PROVE  Safe(f, DelOneTaskHash, top, N)
BY SafeBrief, Ranks DEF DelOneTaskHash

LEMMA FindOneTaskHashSafe ==
  ASSUME NEW f \in BOOLEAN, NEW top \in Nat, NEW N \in SUBSET Lock,
         f => top <= 5 /\ "agent" \in N
  PROVE  Safe(f, FindOneTaskHash, top, N)
<1>0. "oneTask" \in Lock /\ N \cup {"oneTask"} \in SUBSET Lock
  BY Ranks
<1>1. Safe(f, GetAgentInfo, 6, N \cup {"oneTask"})
  BY <1>0, GetAgentInfoSafe
<1>2. Safe(f, Holding("oneTask", GetAgentInfo), top, N)
  BY <1>0, <1>1, SafeHolding, Ranks
<1> QED
  BY <1>2 DEF FindOneTaskHash

LEMMA AddM3u8DownErrorSafe ==
  ASSUME NEW f \in BOOLEAN, NEW top \in Nat, NEW N \in SUBSET Lock,
         f => top <= 5
  PROVE  Safe(f, AddM3u8DownError, top, N)
BY SafeBrief, Ranks DEF AddM3u8DownError

LEMMA TerminalSockSafe ==
  ASSUME NEW f \in BOOLEAN, NEW top \in Nat, NEW N \in SUBSET Lock,
         f => top <= 4 \/ (top <= 5 /\ "agent" \in N)
  PROVE  Safe(f, TerminalSock, top, N)
<1>0. "agent" \in Lock /\ N \cup {"agent"} \in SUBSET Lock
  BY Ranks
<1>1. Safe(f, GetAgentInfo, 5, N \cup {"agent"})
  BY <1>0, GetAgentInfoSafe
<1>2. Safe(f, OnClose, 5, N \cup {"agent"})
  BY <1>0, OnCloseSafe
<1>3. Safe(f, ReConnect, 5, N \cup {"agent"})
  BY <1>0, ReConnectSafe
<1>4. Safe(f, Brief("file"), 5, N \cup {"agent"})
  BY <1>0, SafeBrief, Ranks
<1>5. Safe(f, AddM3u8DownError, 5, N \cup {"agent"})
  BY <1>0, AddM3u8DownErrorSafe
<1>6. Safe(f, DelOneTaskHash, 5, N \cup {"agent"})
  BY <1>0, DelOneTaskHashSafe
<1>7. Safe(f, Brief("msgQueue"), 5, N \cup {"agent"})
  BY <1>0, SafeBrief, Ranks
<1>8. Safe(f, GetAgentInfo \o OnClose, 5, N \cup {"agent"})
  BY <1>0, <1>1, <1>2, SafeConcat
<1>9. Safe(f, GetAgentInfo \o OnClose \o ReConnect, 5, N \cup {"agent"})
  BY <1>0, <1>8, <1>3, SafeConcat
<1>10. Safe(f, GetAgentInfo \o OnClose \o ReConnect \o Brief("file"), 5, N \cup {"agent"})
  BY <1>0, <1>9, <1>4, SafeConcat
<1>11. Safe(f, GetAgentInfo \o OnClose \o ReConnect \o Brief("file")
               \o AddM3u8DownError, 5, N \cup {"agent"})
  BY <1>0, <1>10, <1>5, SafeConcat
<1>12. Safe(f, GetAgentInfo \o OnClose \o ReConnect \o Brief("file") \o AddM3u8DownError
               \o DelOneTaskHash, 5, N \cup {"agent"})
  BY <1>0, <1>11, <1>6, SafeConcat
<1>13. Safe(f, GetAgentInfo \o OnClose \o ReConnect \o Brief("file") \o AddM3u8DownError
               \o DelOneTaskHash \o Brief("msgQueue"), 5, N \cup {"agent"})
  BY <1>0, <1>12, <1>7, SafeConcat
<1>14. Safe(f, Holding("agent", GetAgentInfo \o OnClose \o ReConnect \o Brief("file")
               \o AddM3u8DownError \o DelOneTaskHash \o Brief("msgQueue")), top, N)
  BY <1>0, <1>13, SafeHolding, Ranks
<1> QED
  BY <1>14 DEF TerminalSock

LEMMA deleteUnusedSockSafe ==
  ASSUME NEW f \in BOOLEAN, NEW top \in Nat, NEW N \in SUBSET Lock,
         f => top <= 4 \/ (top <= 5 /\ "agent" \in N)
  PROVE  Safe(f, deleteUnusedSock, top, N)
<1>0. "agent" \in Lock /\ N \cup {"agent"} \in SUBSET Lock
  BY Ranks
<1>1. Safe(f, TerminalSock, 5, N \cup {"agent"})
  BY <1>0, TerminalSockSafe
<1>2. Safe(f, Holding("agent", TerminalSock), top, N)
  BY <1>0, <1>1, SafeHolding, Ranks
<1> QED
  BY <1>2 DEF deleteUnusedSock

LEMMA OnConnectSafe ==
  ASSUME NEW f \in BOOLEAN, NEW top \in Nat, NEW N \in SUBSET Lock,
         f => top <= 4 \/ (top <= 5 /\ "agent" \in N)
  PROVE  Safe(f, OnConnect, top, N)
<1>1. Safe(f, GetAgentInfo, top, N)
  BY GetAgentInfoSafe
<1>2. Safe(f, Brief("sock"), top, N)
  BY SafeBrief, Ranks
<1>3. Safe(f, GetAgentInfo \o Brief("sock"), top, N)
  BY <1>1, <1>2, SafeConcat
<1> QED
  BY <1>3 DEF OnConnect

LEMMA OnDataSafe ==
  ASSUME NEW f \in BOOLEAN, NEW top \in Nat, NEW N \in SUBSET Lock,
         f => top <= 4 \/ (top <= 5 /\ "agent" \in N)
  PROVE  Safe(f, OnData, top, N)
<1>1. Safe(f, GetAgentInfo, top, N)
  BY GetAgentInfoSafe
<1>2. Safe(f, Brief("file"), top, N)
  BY SafeBrief, Ranks
<1>3. Safe(f, TerminalSock, top, N)
  BY TerminalSockSafe
<1>4. Safe(f, DelOneTaskHash, top, N)
  BY DelOneTaskHashSafe
<1>5. Safe(f, Brief("msgQueue"), top, N)
  BY SafeBrief, Ranks
<1>6. Safe(f, GetAgentInfo \o Brief("file"), top, N)
  BY <1>1, <1>2, SafeConcat
<1>7. Safe(f, GetAgentInfo \o Brief("file") \o TerminalSock, top, N)
  BY <1>6, <1>3, SafeConcat
<1>8. Safe(f, GetAgentInfo \o Brief("file") \o TerminalSock \o DelOneTaskHash, top, N)
  BY <1>7, <1>4, SafeConcat
<1>9. Safe(f, GetAgentInfo \o Brief("file") \o TerminalSock \o DelOneTaskHash
              \o Brief("msgQueue"), top, N)
  BY <1>8, <1>5, SafeConcat
<1> QED
  BY <1>9 DEF OnData

LEMMA AddM3u8TsTaskSafe ==
  ASSUME NEW f \in BOOLEAN, NEW top \in Nat, NEW N \in SUBSET Lock,
         f => top <= 4 \/ (top <= 5 /\ "agent" \in N)
  PROVE  Safe(f, AddM3u8TsTask, top, N)
<1>0. "agent" \in Lock /\ N \cup {"agent"} \in SUBSET Lock
  BY Ranks
<1>1. Safe(f, GetAgentInfo, 5, N \cup {"agent"})
  BY <1>0, GetAgentInfoSafe
<1>2. Safe(f, TerminalSock, 5, N \cup {"agent"})
  BY <1>0, TerminalSockSafe
<1>3. Safe(f, AddOneTaskHash, 5, N \cup {"agent"})
  BY <1>0, AddOneTaskHashSafe
<1>4. Safe(f, Brief("sock"), 5, N \cup {"agent"})
  BY <1>0, SafeBrief, Ranks
<1>5. Safe(f, GetAgentInfo \o TerminalSock, 5, N \cup {"agent"})
  BY <1>0, <1>1, <1>2, SafeConcat
<1>6. Safe(f, GetAgentInfo \o TerminalSock \o AddOneTaskHash, 5, N \cup {"agent"})
  BY <1>0, <1>5, <1>3, SafeConcat
<1>7. Safe(f, GetAgentInfo \o TerminalSock \o AddOneTaskHash \o Brief("sock"), 5, N \cup {"agent"})
  BY <1>0, <1>6, <1>4, SafeConcat
<1>8. Safe(f, Holding("agent", GetAgentInfo \o TerminalSock \o AddOneTaskHash
              \o Brief("sock")), top, N)
  BY <1>0, <1>7, SafeHolding, Ranks
<1> QED
  BY <1>8 DEF AddM3u8TsTask

LEMMA DelOneTaskSockSafe ==
  ASSUME NEW f \in BOOLEAN, NEW top \in Nat, NEW N \in SUBSET Lock,
         f => top <= 4 \/ (top <= 5 /\ "agent" \in N)
  PROVE  Safe(f, DelOneTaskSock, top, N)
<1>0. "agent" \in Lock /\ N \cup {"agent"} \in SUBSET Lock
  BY Ranks
<1>1. Safe(f, TerminalSock, 5, N \cup {"agent"})
  BY <1>0, TerminalSockSafe
<1>2. Safe(f, Holding("agent", TerminalSock), top, N)
  BY <1>0, <1>1, SafeHolding, Ranks
<1>3. Safe(f, Brief("oneTask"), top, N)
  BY SafeBrief, Ranks
<1>4. Safe(f, Brief("oneTask") \o Holding("agent", TerminalSock), top, N)
  BY <1>2, <1>3, SafeConcat
<1> QED
  BY <1>4 DEF DelOneTaskSock

LEMMA ReadM3u8TsOfAgentSafe ==
  ASSUME NEW f \in BOOLEAN, NEW top \in Nat, NEW N \in SUBSET Lock,
         f => top <= 5 /\ "agent" \in N
  PROVE  Safe(f, ReadM3u8TsOfAgent, top, N)
<1>1. Safe(f, GetAgentInfo, top, N)
  BY GetAgentInfoSafe
<1>2. Safe(f, FindOneTaskHash, top, N)
  BY FindOneTaskHashSafe
<1>3. Safe(f, GetAgentInfo, top, N)
  BY GetAgentInfoSafe
<1>4. Safe(f, Brief("file"), top, N)
  BY SafeBrief, Ranks
<1>5. Safe(f, GetAgentInfo \o FindOneTaskHash, top, N)
  BY <1>1, <1>2, SafeConcat
<1>6. Safe(f, GetAgentInfo \o FindOneTaskHash \o GetAgentInfo, top, N)
  BY <1>5, <1>3, SafeConcat
<1>7. Safe(f, GetAgentInfo \o FindOneTaskHash \o GetAgentInfo \o Brief("file"), top, N)
  BY <1>6, <1>4, SafeConcat
<1> QED
  BY <1>7 DEF ReadM3u8TsOfAgent

-----------------------------------------------------------------------------
(* CTaskMgr: the task of a hash, and the calls that look at every task.    *)

LEMMA FindTaskSafe ==
  ASSUME NEW f \in BOOLEAN, NEW top \in Nat, NEW N \in SUBSET Lock,
         f => top <= 3
  PROVE  Safe(f, FindTask, top, N)
BY SafeBrief, Ranks DEF FindTask

LEMMA TaskIsFinishSafe ==
  ASSUME NEW f \in BOOLEAN, NEW top \in Nat, NEW N \in SUBSET Lock,
         f => top <= 3
  PROVE  Safe(f, TaskIsFinish, top, N)
BY SafeBrief, Ranks DEF TaskIsFinish

LEMMA GetDownloadingTasksSafe ==
  ASSUME NEW f \in BOOLEAN, NEW top \in Nat, NEW N \in SUBSET Lock,
         f => top <= 3
  PROVE  Safe(f, GetDownloadingTasks, top, N)
<1>0. "map" \in Lock /\ N \cup {"map"} \in SUBSET Lock
  BY Ranks
<1>1. Safe(f, TaskIsFinish, 3, N \cup {"map"})
  BY <1>0, TaskIsFinishSafe
<1>2. Safe(f, Holding("map", TaskIsFinish), top, N)
  BY <1>0, <1>1, SafeHolding, Ranks
<1> QED
  BY <1>2 DEF GetDownloadingTasks

LEMMA GetDownloadingAndPlayingTaskNumSafe ==
  ASSUME NEW f \in BOOLEAN, NEW top \in Nat, NEW N \in SUBSET Lock,
         f => top <= 3
  PROVE  Safe(f, GetDownloadingAndPlayingTaskNum, top, N)
<1>0. "map" \in Lock /\ N \cup {"map"} \in SUBSET Lock
  BY Ranks
<1>1. Safe(f, TaskIsFinish, 3, N \cup {"map"})
  BY <1>0, TaskIsFinishSafe
<1>2. Safe(f, Holding("map", TaskIsFinish), top, N)
  BY <1>0, <1>1, SafeHolding, Ranks
<1> QED
  BY <1>2 DEF GetDownloadingAndPlayingTaskNum

-----------------------------------------------------------------------------
(* CM3u8Task, CTask.                                                       *)

LEMMA CheckM3u8TsSafe ==
  ASSUME NEW f \in BOOLEAN, NEW top \in Nat, NEW N \in SUBSET Lock,
         f => top <= 5
  PROVE  Safe(f, CheckM3u8Ts, top, N)
BY SafeBrief, Ranks DEF CheckM3u8Ts

LEMMA GetContinueTsTimeByIndexSafe ==
  ASSUME NEW f \in BOOLEAN, NEW top \in Nat, NEW N \in SUBSET Lock,
         f => top <= 3
  PROVE  Safe(f, GetContinueTsTimeByIndex, top, N)
<1>0. "m3u8" \in Lock /\ N \cup {"m3u8"} \in SUBSET Lock
  BY Ranks
<1>1. Safe(f, CheckM3u8Ts, 4, N \cup {"m3u8"})
  BY <1>0, CheckM3u8TsSafe
<1>2. Safe(f, Holding("m3u8", CheckM3u8Ts), top, N)
  BY <1>0, <1>1, SafeHolding, Ranks
<1> QED
  BY <1>2 DEF GetContinueTsTimeByIndex

LEMMA DownNextM3u8TsSafe ==
  ASSUME NEW f \in BOOLEAN, NEW top \in Nat, NEW N \in SUBSET Lock,
         f => top <= 2
  PROVE  Safe(f, DownNextM3u8Ts, top, N)
<1>0. "piece" \in Lock /\ N \cup {"piece"} \in SUBSET Lock
  BY Ranks
<1>1. Safe(f, Brief("m3u8"), 3, N \cup {"piece"})
  BY <1>0, SafeBrief, Ranks
<1>2. Safe(f, Brief("tsIndex"), 3, N \cup {"piece"})
  BY <1>0, SafeBrief, Ranks
<1>3. Safe(f, CheckM3u8Ts, 3, N \cup {"piece"})
  BY <1>0, CheckM3u8TsSafe
<1>4. Safe(f, Brief("m3u8") \o Brief("tsIndex"), 3, N \cup {"piece"})
  BY <1>0, <1>1, <1>2, SafeConcat
<1>5. Safe(f, Brief("m3u8") \o Brief("tsIndex") \o CheckM3u8Ts, 3, N \cup {"piece"})
  BY <1>0, <1>4, <1>3, SafeConcat
<1>6. Safe(f, Holding("piece", Brief("m3u8") \o Brief("tsIndex") \o CheckM3u8Ts), top, N)
  BY <1>0, <1>5, SafeHolding, Ranks
<1> QED
  BY <1>6 DEF DownNextM3u8Ts

LEMMA UpdateDownloadModeSafe ==
  ASSUME NEW f \in BOOLEAN, NEW top \in Nat, NEW N \in SUBSET Lock,
         f => top <= 2
  PROVE  Safe(f, UpdateDownloadMode, top, N)
<1>1. Safe(f, TaskIsFinish, top, N)
  BY TaskIsFinishSafe
<1>2. Safe(f, CheckM3u8Ts, top, N)
  BY CheckM3u8TsSafe
<1>3. Safe(f, GetContinueTsTimeByIndex, top, N)
  BY GetContinueTsTimeByIndexSafe
<1>4. Safe(f, DownNextM3u8Ts, top, N)
  BY DownNextM3u8TsSafe
<1>5. Safe(f, GetAgentInfo, top, N)
  BY GetAgentInfoSafe
<1>6. Safe(f, AddM3u8TsTask, top, N)
  BY AddM3u8TsTaskSafe
<1>7. Safe(f, Brief("tsIndex"), top, N)
  BY SafeBrief, Ranks
<1>8. Safe(f, TaskIsFinish \o CheckM3u8Ts, top, N)
  BY <1>1, <1>2, SafeConcat
<1>9. Safe(f, TaskIsFinish \o CheckM3u8Ts \o GetContinueTsTimeByIndex, top, N)
  BY <1>8, <1>3, SafeConcat
<1>10. Safe(f, TaskIsFinish \o CheckM3u8Ts \o GetContinueTsTimeByIndex \o DownNextM3u8Ts, top, N)
  BY <1>9, <1>4, SafeConcat
<1>11. Safe(f, TaskIsFinish \o CheckM3u8Ts \o GetContinueTsTimeByIndex \o DownNextM3u8Ts
               \o GetAgentInfo, top, N)
  BY <1>10, <1>5, SafeConcat
<1>12. Safe(f, TaskIsFinish \o CheckM3u8Ts \o GetContinueTsTimeByIndex \o DownNextM3u8Ts
               \o GetAgentInfo \o AddM3u8TsTask, top, N)
  BY <1>11, <1>6, SafeConcat
<1>13. Safe(f, TaskIsFinish \o CheckM3u8Ts \o GetContinueTsTimeByIndex \o DownNextM3u8Ts
               \o GetAgentInfo \o AddM3u8TsTask \o Brief("tsIndex"), top, N)
  BY <1>12, <1>7, SafeConcat
<1> QED
  BY <1>13 DEF UpdateDownloadMode

LEMMA StartSafe ==
  ASSUME NEW f \in BOOLEAN, NEW top \in Nat, NEW N \in SUBSET Lock,
         f => top <= 2
  PROVE  Safe(f, Start, top, N)
<1>1. Safe(f, Brief("db"), top, N)
  BY SafeBrief, Ranks
<1>2. Safe(f, UpdateDownloadMode, top, N)
  BY UpdateDownloadModeSafe
<1>3. Safe(f, Brief("db") \o UpdateDownloadMode, top, N)
  BY <1>1, <1>2, SafeConcat
<1> QED
  BY <1>3 DEF Start

LEMMA PauseSafe ==
  ASSUME NEW f \in BOOLEAN, NEW top \in Nat, NEW N \in SUBSET Lock,
         f => top <= 5
  PROVE  Safe(f, Pause, top, N)
<1>1. Safe(f, Brief("db"), top, N)
  BY SafeBrief, Ranks
<1>2. Safe(f, Brief("tsIndex"), top, N)
  BY SafeBrief, Ranks
<1>3. Safe(f, Brief("db") \o Brief("tsIndex"), top, N)
  BY <1>1, <1>2, SafeConcat
<1> QED
  BY <1>3 DEF Pause

LEMMA PauseTaskSafe ==
  ASSUME NEW f \in BOOLEAN, NEW top \in Nat, NEW N \in SUBSET Lock,
         f => top <= 3
  PROVE  Safe(f, PauseTask, top, N)
<1>1. Safe(f, FindTask, top, N)
  BY FindTaskSafe
<1>2. Safe(f, Pause, top, N)
  BY PauseSafe
<1>3. Safe(f, DelOneTaskSock, top, N)
  BY DelOneTaskSockSafe
<1>4. Safe(f, FindTask \o Pause, top, N)
  BY <1>1, <1>2, SafeConcat
<1>5. Safe(f, FindTask \o Pause \o DelOneTaskSock, top, N)
  BY <1>4, <1>3, SafeConcat
<1> QED
  BY <1>5 DEF PauseTask

LEMMA WriteHttpDataSafe ==
  ASSUME NEW f \in BOOLEAN, NEW top \in Nat, NEW N \in SUBSET Lock,
         f => top <= 3
  PROVE  Safe(f, WriteHttpData, top, N)
<1>1. Safe(f, PauseTask, top, N)
  BY PauseTaskSafe
<1>2. Safe(f, GetDownloadingAndPlayingTaskNum, top, N)
  BY GetDownloadingAndPlayingTaskNumSafe
<1>3. Safe(f, PauseTask \o GetDownloadingAndPlayingTaskNum, top, N)
  BY <1>1, <1>2, SafeConcat
<1> QED
  BY <1>3 DEF WriteHttpData

LEMMA WriteM3u8DataSafe ==
  ASSUME NEW f \in BOOLEAN, NEW top \in Nat, NEW N \in SUBSET Lock,
         f => top <= 2 \/ (top <= 3 /\ "piece" \in N)
  PROVE  Safe(f, WriteM3u8Data, top, N)
<1>0. "piece" \in Lock /\ N \cup {"piece"} \in SUBSET Lock
  BY Ranks
<1>1. Safe(f, Brief("m3u8"), 3, N \cup {"piece"})
  BY <1>0, SafeBrief, Ranks
<1>2. Safe(f, WriteHttpData, 3, N \cup {"piece"})
  BY <1>0, WriteHttpDataSafe
<1>3. Safe(f, Brief("m3u8") \o WriteHttpData, 3, N \cup {"piece"})
  BY <1>0, <1>1, <1>2, SafeConcat
<1>4. Safe(f, Holding("piece", Brief("m3u8") \o WriteHttpData), top, N)
  BY <1>0, <1>3, SafeHolding, Ranks
<1> QED
  BY <1>4 DEF WriteM3u8Data

LEMMA WriteM3u8TsSafe ==
  ASSUME NEW f \in BOOLEAN, NEW top \in Nat, NEW N \in SUBSET Lock,
         f => top <= 2
  PROVE  Safe(f, WriteM3u8Ts, top, N)
<1>0. "piece" \in Lock /\ N \cup {"piece"} \in SUBSET Lock
  BY Ranks
<1>1. Safe(f, Brief("tsIndex"), top, N)
  BY <1>0, SafeBrief, Ranks
<1>2. Safe(f, Brief("m3u8"), top, N)
  BY <1>0, SafeBrief, Ranks
<1>3. Safe(f, Brief("m3u8"), 3, N \cup {"piece"})
  BY <1>0, SafeBrief, Ranks
<1>4. Safe(f, WriteM3u8Data, 3, N \cup {"piece"})
  BY <1>0, WriteM3u8DataSafe
<1>5. Safe(f, Brief("m3u8") \o WriteM3u8Data, 3, N \cup {"piece"})
  BY <1>0, <1>3, <1>4, SafeConcat
<1>6. Safe(f, Holding("piece", Brief("m3u8") \o WriteM3u8Data), top, N)
  BY <1>0, <1>5, SafeHolding, Ranks
<1>7. Safe(f, Brief("tsIndex") \o Brief("m3u8"), top, N)
  BY <1>0, <1>1, <1>2, SafeConcat
<1>8. Safe(f, Brief("tsIndex") \o Brief("m3u8") \o Holding("piece", Brief("m3u8")
              \o WriteM3u8Data), top, N)
  BY <1>0, <1>7, <1>6, SafeConcat
<1> QED
  BY <1>8 DEF WriteM3u8Ts

LEMMA UpdateM3u8OrgUrlSafe ==
  ASSUME NEW f \in BOOLEAN, NEW top \in Nat, NEW N \in SUBSET Lock,
         f => top <= 2
  PROVE  Safe(f, UpdateM3u8OrgUrl, top, N)
<1>0. "piece" \in Lock /\ N \cup {"piece"} \in SUBSET Lock
  BY Ranks
<1>1. Safe(f, TaskIsFinish, top, N)
  BY <1>0, TaskIsFinishSafe
<1>2. Safe(f, DelOneTaskSock, top, N)
  BY <1>0, DelOneTaskSockSafe
<1>3. Safe(f, Brief("m3u8"), 3, N \cup {"piece"})
  BY <1>0, SafeBrief, Ranks
<1>4. Safe(f, Holding("piece", Brief("m3u8")), top, N)
  BY <1>0, <1>3, SafeHolding, Ranks
<1>5. Safe(f, Brief("cache"), top, N)
  BY <1>0, SafeBrief, Ranks
<1>6. Safe(f, UpdateDownloadMode, top, N)
  BY <1>0, UpdateDownloadModeSafe
<1>7. Safe(f, TaskIsFinish \o DelOneTaskSock, top, N)
  BY <1>0, <1>1, <1>2, SafeConcat
<1>8. Safe(f, TaskIsFinish \o DelOneTaskSock \o Holding("piece", Brief("m3u8")), top, N)
  BY <1>0, <1>7, <1>4, SafeConcat
<1>9. Safe(f, TaskIsFinish \o DelOneTaskSock \o Holding("piece", Brief("m3u8"))
              \o Brief("cache"), top, N)
  BY <1>0, <1>8, <1>5, SafeConcat
<1>10. Safe(f, TaskIsFinish \o DelOneTaskSock \o Holding("piece", Brief("m3u8"))
               \o Brief("cache") \o UpdateDownloadMode, top, N)
  BY <1>0, <1>9, <1>6, SafeConcat
<1> QED
  BY <1>10 DEF UpdateM3u8OrgUrl

-----------------------------------------------------------------------------
(* The other calls of CTaskMgr.                                            *)

LEMMA CheckTimeStampSafe ==
  ASSUME NEW f \in BOOLEAN, NEW top \in Nat, NEW N \in SUBSET Lock,
         f => top <= 0
  PROVE  Safe(f, CheckTimeStamp, top, N)
<1>0. "path" \in Lock /\ N \cup {"path"} \in SUBSET Lock
  BY Ranks
<1>1. Safe(f, UpdateDownloadMode, 1, N \cup {"path"})
  BY <1>0, UpdateDownloadModeSafe
<1>2. Safe(f, Holding("path", UpdateDownloadMode), top, N)
  BY <1>0, <1>1, SafeHolding, Ranks
<1> QED
  BY <1>2 DEF CheckTimeStamp

LEMMA StartAllTaskSafe ==
  ASSUME NEW f \in BOOLEAN, NEW top \in Nat, NEW N \in SUBSET Lock,
         f => top <= 1
  PROVE  Safe(f, StartAllTask, top, N)
<1>0. "map" \in Lock /\ N \cup {"map"} \in SUBSET Lock
  BY Ranks
<1>1. Safe(f, Start, 2, N \cup {"map"})
  BY <1>0, StartSafe
<1>2. Safe(f, Holding("map", Start), top, N)
  BY <1>0, <1>1, SafeHolding, Ranks
<1> QED
  BY <1>2 DEF StartAllTask

LEMMA PauseAllTaskSafe ==
  ASSUME NEW f \in BOOLEAN, NEW top \in Nat, NEW N \in SUBSET Lock,
         f => top <= 1
  PROVE  Safe(f, PauseAllTask, top, N)
<1>0. "map" \in Lock /\ N \cup {"map"} \in SUBSET Lock
  BY Ranks
<1>1. Safe(f, Pause, 2, N \cup {"map"})
  BY <1>0, PauseSafe
<1>2. Safe(f, Holding("map", Pause), top, N)
  BY <1>0, <1>1, SafeHolding, Ranks
<1>3. Safe(f, DelOneTaskSock, top, N)
  BY <1>0, DelOneTaskSockSafe
<1>4. Safe(f, Holding("map", Pause) \o DelOneTaskSock, top, N)
  BY <1>0, <1>2, <1>3, SafeConcat
<1> QED
  BY <1>4 DEF PauseAllTask

LEMMA CreateYfTaskSafe ==
  ASSUME NEW f \in BOOLEAN, NEW top \in Nat, NEW N \in SUBSET Lock,
         f => top <= 0
  PROVE  Safe(f, CreateYfTask, top, N)
<1>1. Safe(f, FindTask, top, N)
  BY FindTaskSafe
<1>2. Safe(f, Brief("keyurl"), top, N)
  BY SafeBrief, Ranks
<1>3. Safe(f, Brief("map"), top, N)
  BY SafeBrief, Ranks
<1>4. Safe(f, Brief("path"), top, N)
  BY SafeBrief, Ranks
<1>5. Safe(f, Brief("db"), top, N)
  BY SafeBrief, Ranks
<1>6. Safe(f, FindTask \o Brief("keyurl"), top, N)
  BY <1>1, <1>2, SafeConcat
<1>7. Safe(f, FindTask \o Brief("keyurl") \o Brief("map"), top, N)
  BY <1>6, <1>3, SafeConcat
<1>8. Safe(f, FindTask \o Brief("keyurl") \o Brief("map") \o Brief("path"), top, N)
  BY <1>7, <1>4, SafeConcat
<1>9. Safe(f, FindTask \o Brief("keyurl") \o Brief("map") \o Brief("path")
              \o Brief("keyurl"), top, N)
  BY <1>8, <1>2, SafeConcat
<1>10. Safe(f, FindTask \o Brief("keyurl") \o Brief("map") \o Brief("path") \o Brief("keyurl")
               \o FindTask, top, N)
  BY <1>9, <1>1, SafeConcat
<1>11. Safe(f, FindTask \o Brief("keyurl") \o Brief("map") \o Brief("path") \o Brief("keyurl")
               \o FindTask \o Brief("db"), top, N)
  BY <1>10, <1>5, SafeConcat
<1> QED
  BY <1>11 DEF CreateYfTask

LEMMA DelOneTaskSafe ==
  ASSUME NEW f \in BOOLEAN, NEW top \in Nat, NEW N \in SUBSET Lock,
         f => top <= 0
  PROVE  Safe(f, DelOneTask, top, N)
<1>0. "map" \in Lock /\ N \cup {"map"} \in SUBSET Lock
  BY Ranks
<1>1. Safe(f, Brief("path"), top, N)
  BY <1>0, SafeBrief, Ranks
<1>2. Safe(f, Brief("keyurl"), 2, N \cup {"map"})
  BY <1>0, SafeBrief, Ranks
<1>3. Safe(f, Holding("map", Brief("keyurl")), top, N)
  BY <1>0, <1>2, SafeHolding, Ranks
<1>4. Safe(f, Brief("path") \o Holding("map", Brief("keyurl")), top, N)
  BY <1>0, <1>1, <1>3, SafeConcat
<1> QED
  BY <1>4 DEF DelOneTask

LEMMA SetTaskPlayingSafe ==
  ASSUME NEW f \in BOOLEAN, NEW top \in Nat, NEW N \in SUBSET Lock,
         f => top <= 3
  PROVE  Safe(f, SetTaskPlaying, top, N)
<1>1. Safe(f, FindTask, top, N)
  BY FindTaskSafe
<1>2. Safe(f, GetDownloadingTasks, top, N)
  BY GetDownloadingTasksSafe
<1>3. Safe(f, Pause, top, N)
  BY PauseSafe
<1>4. Safe(f, GetDownloadingAndPlayingTaskNum, top, N)
  BY GetDownloadingAndPlayingTaskNumSafe
<1>5. Safe(f, FindTask \o GetDownloadingTasks, top, N)
  BY <1>1, <1>2, SafeConcat
<1>6. Safe(f, FindTask \o GetDownloadingTasks \o Pause, top, N)
  BY <1>5, <1>3, SafeConcat
<1>7. Safe(f, FindTask \o GetDownloadingTasks \o Pause \o GetDownloadingAndPlayingTaskNum, top, N)
  BY <1>6, <1>4, SafeConcat
<1> QED
  BY <1>7 DEF SetTaskPlaying

LEMMA StopTaskSafe ==
  ASSUME NEW f \in BOOLEAN, NEW top \in Nat, NEW N \in SUBSET Lock,
         f => top <= 0
  PROVE  Safe(f, StopTask, top, N)
<1>1. Safe(f, FindTask, top, N)
  BY FindTaskSafe
<1>2. Safe(f, SetTaskPlaying, top, N)
  BY SetTaskPlayingSafe
<1>3. Safe(f, Brief("db"), top, N)
  BY SafeBrief, Ranks
<1>4. Safe(f, DelOneTask, top, N)
  BY DelOneTaskSafe
<1>5. Safe(f, DelOneTaskSock, top, N)
  BY DelOneTaskSockSafe
<1>6. Safe(f, FindTask \o SetTaskPlaying, top, N)
  BY <1>1, <1>2, SafeConcat
<1>7. Safe(f, FindTask \o SetTaskPlaying \o Brief("db"), top, N)
  BY <1>6, <1>3, SafeConcat
<1>8. Safe(f, FindTask \o SetTaskPlaying \o Brief("db") \o DelOneTask, top, N)
  BY <1>7, <1>4, SafeConcat
<1>9. Safe(f, FindTask \o SetTaskPlaying \o Brief("db") \o DelOneTask \o DelOneTaskSock, top, N)
  BY <1>8, <1>5, SafeConcat
<1> QED
  BY <1>9 DEF StopTask

-----------------------------------------------------------------------------
(* The calls of the threads, which hold nothing when they make one.        *)

Ordered(t) == t \notin {"polling", "server"}

LEMMA Threads ==
  ASSUME NEW t \in Thread
  PROVE  /\ t # "none" /\ Ordered(t) \in BOOLEAN
         /\ t \in App => Ordered(t)
         /\ t \notin App => t \in {"polling", "server", "routine", "msg"}
BY LockAssumption DEF Thread, Ordered

LEMMA AppCallsSafe ==
  ASSUME NEW f \in BOOLEAN, NEW call \in AppCalls
  PROVE  Safe(f, call, 0, {})
<1>0. {} \in SUBSET Lock /\ 0 \in Nat
  OBVIOUS
<1>1. Safe(f, CreateYfTask, 0, {})
  BY <1>0, CreateYfTaskSafe
<1>2. Safe(f, StartAllTask, 0, {})
  BY <1>0, StartAllTaskSafe
<1>3. Safe(f, FindTask, 0, {}) /\ Safe(f, Start, 0, {})
  BY <1>0, FindTaskSafe, StartSafe
<1>4. Safe(f, FindTask \o Start, 0, {})
  BY <1>0, <1>3, SafeConcat
<1>5. Safe(f, StopTask, 0, {})
  BY <1>0, StopTaskSafe
<1>6. Safe(f, PauseTask, 0, {})
  BY <1>0, PauseTaskSafe
<1>7. Safe(f, PauseAllTask, 0, {})
  BY <1>0, PauseAllTaskSafe
<1>8. Safe(f, UpdateM3u8OrgUrl, 0, {})
  BY <1>0, UpdateM3u8OrgUrlSafe
<1> QED
  BY <1>1, <1>2, <1>4, <1>5, <1>6, <1>7, <1>8 DEF AppCalls

LEMMA PollingCallsSafe ==
  ASSUME NEW f \in BOOLEAN, ~ f, NEW call \in OwnCalls["polling"]
  PROVE  Safe(f, call, 0, {})
<1>0. {} \in SUBSET Lock /\ 0 \in Nat
  OBVIOUS
<1>1. Safe(f, deleteUnusedSock, 0, {})
  BY <1>0, deleteUnusedSockSafe
<1>2. Safe(f, OnConnect, 0, {})
  BY <1>0, OnConnectSafe
<1>3. Safe(f, OnData, 0, {})
  BY <1>0, OnDataSafe
<1>4. Safe(f, TerminalSock, 0, {}) /\ Safe(f, OnClose, 0, {})
  BY <1>0, TerminalSockSafe, OnCloseSafe
<1>5. Safe(f, TerminalSock \o OnClose, 0, {})
  BY <1>0, <1>4, SafeConcat
<1>6. call \in {deleteUnusedSock, OnConnect, OnData, TerminalSock \o OnClose}
  BY DEF OwnCalls
<1> QED
  BY <1>1, <1>2, <1>3, <1>5, <1>6

LEMMA ServerCallsSafe ==
  ASSUME NEW f \in BOOLEAN, ~ f, NEW call \in OwnCalls["server"]
  PROVE  Safe(f, call, 0, {})
<1>0. {"http"} \in SUBSET Lock /\ {} \in SUBSET Lock /\ 0 \in Nat
  BY Ranks
<1>1. Safe(f, FindTask, 0, {"http"}) /\ Safe(f, ReadM3u8TsOfAgent, 0, {"http"})
  BY <1>0, FindTaskSafe, ReadM3u8TsOfAgentSafe
<1>2. Safe(f, Brief("m3u8"), 0, {"http"}) /\ Safe(f, Brief("cache"), 0, {"http"})
  BY <1>0, SafeBrief, Ranks
<1>3. Safe(f, FindTask \o Brief("m3u8"), 0, {"http"})
  BY <1>0, <1>1, <1>2, SafeConcat
<1>4. Safe(f, FindTask \o Brief("m3u8") \o ReadM3u8TsOfAgent, 0, {"http"})
  BY <1>0, <1>1, <1>3, SafeConcat
<1>5. Safe(f, FindTask \o Brief("m3u8") \o ReadM3u8TsOfAgent \o Brief("cache"), 0, {} \cup {"http"})
  BY <1>0, <1>2, <1>4, SafeConcat
<1>6. Safe(f, Holding("http", FindTask \o Brief("m3u8") \o ReadM3u8TsOfAgent \o Brief("cache")),
           0, {})
  BY <1>0, <1>5, SafeHolding, Ranks
<1>7. call = Holding("http", FindTask \o Brief("m3u8") \o ReadM3u8TsOfAgent \o Brief("cache"))
  BY DEF OwnCalls, OnTimerEvent
<1> QED
  BY <1>6, <1>7

LEMMA RoutineCallsSafe ==
  ASSUME NEW f \in BOOLEAN, NEW call \in OwnCalls["routine"]
  PROVE  Safe(f, call, 0, {})
<1>1. call = CheckTimeStamp /\ {} \in SUBSET Lock /\ 0 \in Nat
  BY DEF OwnCalls
<1> QED
  BY <1>1, CheckTimeStampSafe

LEMMA MsgCallsSafe ==
  ASSUME NEW f \in BOOLEAN, NEW call \in OwnCalls["msg"]
  PROVE  Safe(f, call, 0, {})
<1>0. {} \in SUBSET Lock /\ 0 \in Nat
  OBVIOUS
<1>1. Safe(f, FindTask, 0, {}) /\ Safe(f, WriteM3u8Ts, 0, {})
  BY <1>0, FindTaskSafe, WriteM3u8TsSafe
<1>2. Safe(f, Brief("cache"), 0, {}) /\ Safe(f, UpdateDownloadMode, 0, {})
  BY <1>0, SafeBrief, Ranks, UpdateDownloadModeSafe
<1>3. Safe(f, FindTask \o WriteM3u8Ts, 0, {})
  BY <1>0, <1>1, SafeConcat
<1>4. Safe(f, FindTask \o WriteM3u8Ts \o Brief("cache"), 0, {})
  BY <1>0, <1>2, <1>3, SafeConcat
<1>5. Safe(f, FindTask \o WriteM3u8Ts \o Brief("cache") \o FindTask, 0, {})
  BY <1>0, <1>1, <1>4, SafeConcat
<1>6. Safe(f, FindTask \o WriteM3u8Ts \o Brief("cache") \o FindTask \o UpdateDownloadMode, 0, {})
  BY <1>0, <1>2, <1>5, SafeConcat
<1>7. Safe(f, StopTask, 0, {})
  BY <1>0, StopTaskSafe
<1>8. Safe(f, PauseTask, 0, {})
  BY <1>0, PauseTaskSafe
<1>9. call \in {FindTask \o WriteM3u8Ts \o Brief("cache") \o FindTask \o UpdateDownloadMode,
               StopTask, PauseTask}
  BY DEF OwnCalls
<1> QED
  BY <1>6, <1>7, <1>8, <1>9

LEMMA CallsSafe ==
  ASSUME NEW t \in Thread, NEW call \in Calls(t)
  PROVE  Safe(Ordered(t), call, 0, {})
<1>0. Ordered(t) \in BOOLEAN
  BY Threads
<1>1. CASE t \in App
  BY <1>0, <1>1, AppCallsSafe DEF Calls
<1>2. CASE t \notin App
  <2>1. call \in OwnCalls[t] /\ t \in {"polling", "server", "routine", "msg"}
    BY <1>2, Threads DEF Calls
  <2>2. t \in {"polling", "server"} => ~ Ordered(t)
    BY DEF Ordered
  <2>3. CASE t = "polling"
    BY <1>0, <2>1, <2>2, <2>3, PollingCallsSafe
  <2>4. CASE t = "server"
    BY <1>0, <2>1, <2>2, <2>4, ServerCallsSafe
  <2>5. CASE t = "routine"
    BY <1>0, <2>1, <2>5, RoutineCallsSafe
  <2>6. CASE t = "msg"
    BY <1>0, <2>1, <2>6, MsgCallsSafe
  <2> QED
    BY <2>1, <2>3, <2>4, <2>5, <2>6
<1> QED
  BY <1>1, <1>2

LEMMA CallPath ==
  ASSUME NEW t \in Thread, NEW call \in Calls(t)
  PROVE  call \in Seq(Op) /\ Path(Ordered(t), call, Zero, Zero)
<1>1. Safe(Ordered(t), call, 0, {})
  BY CallsSafe
<1>2. Zero \in Depths /\ Held(Zero) = {}
  BY DEF Zero, Depths, Held
<1> QED
  BY <1>1, <1>2 DEF Safe

-----------------------------------------------------------------------------
(* The inductive invariant: what a thread still has to do leads from what  *)
(* it holds to nothing, by rank if it is an ordered one.                   *)

HeldBy(t) == [l \in Lock |-> IF owner[l] = t THEN depth[l] ELSE 0]
Balanced == \A t \in Thread : Path(Ordered(t), rest[t], HeldBy(t), Zero)
IInv == TypeOK /\ Balanced

LEMMA TypeFacts ==
  ASSUME TypeOK
  PROVE  /\ \A t \in Thread : rest[t] \in Seq(Op) /\ HeldBy(t) \in Depths
         /\ rest \in [Thread -> Seq(Op)]
         /\ owner \in [Lock -> Thread \cup {"none"}] /\ depth \in [Lock -> Nat]
         /\ \A l \in Lock : owner[l] = "none" <=> depth[l] = 0
BY DEF TypeOK, Op, HeldBy, Depths

LEMMA InitIInv == Init => IInv
<1> SUFFICES ASSUME Init PROVE IInv
  OBVIOUS
<1>1. << >> \in Seq([op : {"lock", "unlock"}, lock : Lock])
  OBVIOUS
<1>2. TypeOK
  BY <1>1 DEF Init, TypeOK
<1>3. ASSUME NEW t \in Thread PROVE Path(Ordered(t), rest[t], HeldBy(t), Zero)
  <2>1. rest[t] = << >> /\ HeldBy(t) = Zero
    BY DEF Init, HeldBy, Zero
  <2>2. Zero \in Depths /\ Ordered(t) \in BOOLEAN
    BY Threads DEF Zero, Depths
  <2> QED
    BY <2>1, <2>2, PathEmpty
<1> QED
  BY <1>2, <1>3 DEF IInv, Balanced

LEMMA CallingIInv ==
  ASSUME IInv, NEW t \in Thread, Calling(t)
  PROVE  IInv'
<1>1. PICK call \in Calls(t) : rest' = [rest EXCEPT ![t] = call]
  BY DEF Calling
<1>2. call \in Seq(Op) /\ Path(Ordered(t), call, Zero, Zero)
  BY CallPath
<1>3. rest[t] = << >> /\ owner' = owner /\ depth' = depth
  BY DEF Calling
<1>4. rest' \in [Thread -> Seq(Op)] /\ rest'[t] = call /\ \A u \in Thread \ {t} : rest'[u] = rest[u]
  BY <1>1, <1>2, TypeFacts DEF IInv
<1>5. TypeOK'
  BY <1>3, <1>4, TypeFacts DEF IInv, TypeOK, Op
<1>6. HeldBy(t) = Zero
  <2>1. Path(Ordered(t), << >>, HeldBy(t), Zero)
    BY <1>3 DEF IInv, Balanced
  <2>2. Len(<< >>) = 0
    OBVIOUS
  <2> QED
    BY <2>1, <2>2 DEF Path
<1>7. \A u \in Thread : HeldBy(u)' = HeldBy(u)
  BY <1>3 DEF HeldBy
<1>8. ASSUME NEW u \in Thread PROVE Path(Ordered(u), rest'[u], HeldBy(u)', Zero)
  <2>1. CASE u = t
    BY <1>2, <1>4, <1>6, <1>7, <2>1
  <2>2. CASE u # t
    <3>1. Path(Ordered(u), rest[u], HeldBy(u), Zero)
      BY DEF IInv, Balanced
    <3> QED
      BY <1>4, <1>7, <2>2, <3>1
  <2> QED
    BY <2>1, <2>2
<1>9. Balanced'
  BY <1>8 DEF Balanced
<1> QED
  BY <1>5, <1>9 DEF IInv

\* What the next operation of a thread does to the depths of what it holds.
LEMMA NextOperation ==
  ASSUME IInv, NEW t \in Thread, NEW op \in {"lock", "unlock"}, NEW l \in Lock, Wants(t, op, l)
  PROVE  \E m \in Depths :
           /\ Path(Ordered(t), Tail(rest[t]), m, Zero)
           /\ op = "lock" =>
                /\ m = [HeldBy(t) EXCEPT ![l] = @ + 1]
                /\ Ordered(t) =>
                     HeldBy(t)[l] > 0 \/ \A k \in Held(HeldBy(t)) : Follows(k, l)
           /\ op = "unlock" => HeldBy(t)[l] > 0 /\ m = [HeldBy(t) EXCEPT ![l] = @ - 1]
<1>1. rest[t] \in Seq(Op) /\ rest[t] # << >> /\ Head(rest[t]) = [op |-> op, lock |-> l]
  BY TypeFacts DEF IInv, Wants
<1>2. HeldBy(t) \in Depths /\ Zero \in Depths /\ Ordered(t) \in BOOLEAN
  BY TypeFacts, Threads DEF IInv, Zero, Depths
<1>3. Path(Ordered(t), rest[t], HeldBy(t), Zero)
  BY DEF IInv, Balanced
<1>4. PICK m \in Depths :
        Step(Ordered(t), HeldBy(t), Head(rest[t]), m) /\ Path(Ordered(t), Tail(rest[t]), m, Zero)
  BY <1>1, <1>2, <1>3, PathTail
<1>5. Head(rest[t]).op = op /\ Head(rest[t]).lock = l
  BY <1>1
<1>6. CASE op = "lock"
  <2>1. /\ Ordered(t) => HeldBy(t)[l] > 0 \/ \A k \in Held(HeldBy(t)) : Follows(k, l)
        /\ m = [HeldBy(t) EXCEPT ![l] = @ + 1]
    BY <1>4, <1>5, <1>6 DEF Step
  <2> QED
    BY <1>4, <1>6, <2>1
<1>7. CASE op = "unlock"
  <2>1. HeldBy(t)[l] > 0 /\ m = [HeldBy(t) EXCEPT ![l] = @ - 1]
    BY <1>4, <1>5, <1>7 DEF Step
  <2> QED
    BY <1>4, <1>7, <2>1
<1> QED
  BY <1>6, <1>7

LEMMA LockTakenIInv ==
  ASSUME IInv, NEW t \in Thread, NEW l \in Lock, LockTaken(t, l)
  PROVE  IInv'
<1>1. PICK m \in Depths : Path(Ordered(t), Tail(rest[t]), m, Zero) /\ m = [HeldBy(t) EXCEPT ![l] = @ + 1]
  <2>1. Wants(t, "lock", l)
    BY DEF LockTaken
  <2> QED
    BY <2>1, NextOperation
<1>2. /\ owner[l] \in {t, "none"}
      /\ owner' = [owner EXCEPT ![l] = t] /\ depth' = [depth EXCEPT ![l] = @ + 1]
      /\ rest' = [rest EXCEPT ![t] = Tail(@)] /\ rest[t] # << >>
  BY DEF LockTaken, Wants
<1>3. Tail(rest[t]) \in Seq(Op)
  BY <1>2, TypeFacts DEF IInv
<1>4. /\ rest' \in [Thread -> Seq(Op)]
      /\ rest'[t] = Tail(rest[t]) /\ \A u \in Thread \ {t} : rest'[u] = rest[u]
  BY <1>2, <1>3, TypeFacts DEF IInv
<1>5. /\ owner'[l] = t /\ depth'[l] = depth[l] + 1 /\ depth[l] \in Nat
      /\ \A k \in Lock \ {l} : owner'[k] = owner[k] /\ depth'[k] = depth[k]
      /\ owner' \in [Lock -> Thread \cup {"none"}] /\ depth' \in [Lock -> Nat]
  BY <1>2, TypeFacts DEF IInv
<1>6. TypeOK'
  <2>1. depth'[l] # 0 /\ owner'[l] # "none"
    BY <1>5, Threads
  <2>2. \A k \in Lock : owner'[k] = "none" <=> depth'[k] = 0
    BY <1>5, <2>1, TypeFacts DEF IInv
  <2> QED
    BY <1>4, <1>5, <2>2 DEF TypeOK, Op
<1>7. HeldBy(t)' = m
  <2>1. HeldBy(t)[l] = depth[l] /\ HeldBy(t) \in Depths
    BY <1>2, TypeFacts, Threads DEF IInv, HeldBy
  <2>2. \A k \in Lock : m[k] = IF owner'[k] = t THEN depth'[k] ELSE 0
    <3>1. m[l] = depth'[l]
      BY <1>1, <1>5, <2>1 DEF Depths
    <3>2. \A k \in Lock \ {l} : m[k] = HeldBy(t)[k]
      BY <1>1, <2>1 DEF Depths
    <3> QED
      BY <1>5, <3>1, <3>2 DEF HeldBy
  <2>3. m = [k \in Lock |-> m[k]]
    BY DEF Depths
  <2> QED
    BY <2>2, <2>3 DEF HeldBy
<1>8. \A u \in Thread \ {t} : HeldBy(u)' = HeldBy(u)
  <2> SUFFICES ASSUME NEW u \in Thread \ {t} PROVE HeldBy(u)' = HeldBy(u)
    OBVIOUS
  <2>1. owner[l] # u /\ owner'[l] # u
    BY <1>2, <1>5, Threads
  <2>2. \A k \in Lock : (IF owner'[k] = u THEN depth'[k] ELSE 0) = IF owner[k] = u THEN depth[k] ELSE 0
    BY <1>5, <2>1
  <2> QED
    BY <2>2 DEF HeldBy
<1>9. Balanced'
  <2> SUFFICES ASSUME NEW u \in Thread PROVE Path(Ordered(u), rest'[u], HeldBy(u)', Zero)
    BY DEF Balanced
  <2>1. CASE u = t
    BY <1>1, <1>4, <1>7, <2>1
  <2>2. CASE u # t
    <3>1. Path(Ordered(u), rest[u], HeldBy(u), Zero)
      BY DEF IInv, Balanced
    <3> QED
      BY <1>4, <1>8, <2>2, <3>1
  <2> QED
    BY <2>1, <2>2
<1> QED
  BY <1>6, <1>9 DEF IInv

LEMMA UnlockedIInv ==
  ASSUME IInv, NEW t \in Thread, NEW l \in Lock, Unlocked(t, l)
  PROVE  IInv'
<1>1. PICK m \in Depths :
        /\ Path(Ordered(t), Tail(rest[t]), m, Zero)
        /\ HeldBy(t)[l] > 0 /\ m = [HeldBy(t) EXCEPT ![l] = @ - 1]
  <2>1. Wants(t, "unlock", l)
    BY DEF Unlocked
  <2> QED
    BY <2>1, NextOperation
<1>2. /\ owner' = [owner EXCEPT ![l] = IF depth[l] = 1 THEN "none" ELSE @]
      /\ depth' = [depth EXCEPT ![l] = @ - 1]
      /\ rest' = [rest EXCEPT ![t] = Tail(@)] /\ rest[t] # << >>
  BY DEF Unlocked, Wants
<1>3. owner[l] = t /\ depth[l] \in Nat \ {0}
  BY <1>1, TypeFacts DEF IInv, HeldBy
<1>4. Tail(rest[t]) \in Seq(Op)
  BY <1>2, TypeFacts DEF IInv
<1>5. /\ rest' \in [Thread -> Seq(Op)]
      /\ rest'[t] = Tail(rest[t]) /\ \A u \in Thread \ {t} : rest'[u] = rest[u]
  BY <1>2, <1>4, TypeFacts DEF IInv
<1>6. /\ owner'[l] = (IF depth[l] = 1 THEN "none" ELSE t)
      /\ depth'[l] = depth[l] - 1 /\ depth'[l] \in Nat
      /\ \A k \in Lock \ {l} : owner'[k] = owner[k] /\ depth'[k] = depth[k]
  BY <1>2, <1>3, TypeFacts DEF IInv
<1>7. owner' \in [Lock -> Thread \cup {"none"}] /\ depth' \in [Lock -> Nat]
  BY <1>2, <1>3, <1>6, TypeFacts DEF IInv
<1>8. TypeOK'
  <2>1. owner'[l] = "none" <=> depth'[l] = 0
    BY <1>3, <1>6, Threads
  <2>2. \A k \in Lock : owner'[k] = "none" <=> depth'[k] = 0
    BY <1>6, <2>1, TypeFacts DEF IInv
  <2> QED
    BY <1>5, <1>7, <2>2 DEF TypeOK, Op
<1>9. HeldBy(t)' = m
  <2>1. HeldBy(t)[l] = depth[l] /\ HeldBy(t) \in Depths
    BY <1>3, TypeFacts DEF IInv, HeldBy
  <2>2. \A k \in Lock : m[k] = IF owner'[k] = t THEN depth'[k] ELSE 0
    <3>1. m[l] = depth[l] - 1
      BY <1>1, <2>1 DEF Depths
    <3>2. (IF owner'[l] = t THEN depth'[l] ELSE 0) = depth[l] - 1
      BY <1>3, <1>6, Threads
    <3>3. \A k \in Lock \ {l} : m[k] = HeldBy(t)[k]
      BY <1>1, <2>1 DEF Depths
    <3> QED
      BY <1>6, <3>1, <3>2, <3>3 DEF HeldBy
  <2>3. m = [k \in Lock |-> m[k]]
    BY DEF Depths
  <2> QED
    BY <2>2, <2>3 DEF HeldBy
<1>10. \A u \in Thread \ {t} : HeldBy(u)' = HeldBy(u)
  <2> SUFFICES ASSUME NEW u \in Thread \ {t} PROVE HeldBy(u)' = HeldBy(u)
    OBVIOUS
  <2>1. owner[l] # u /\ owner'[l] # u
    BY <1>3, <1>6, Threads
  <2>2. \A k \in Lock : (IF owner'[k] = u THEN depth'[k] ELSE 0) = IF owner[k] = u THEN depth[k] ELSE 0
    BY <1>6, <2>1
  <2> QED
    BY <2>2 DEF HeldBy
<1>11. Balanced'
  <2> SUFFICES ASSUME NEW u \in Thread PROVE Path(Ordered(u), rest'[u], HeldBy(u)', Zero)
    BY DEF Balanced
  <2>1. CASE u = t
    BY <1>1, <1>5, <1>9, <2>1
  <2>2. CASE u # t
    <3>1. Path(Ordered(u), rest[u], HeldBy(u), Zero)
      BY DEF IInv, Balanced
    <3> QED
      BY <1>5, <1>10, <2>2, <3>1
  <2> QED
    BY <2>1, <2>2
<1> QED
  BY <1>8, <1>11 DEF IInv

LEMMA StepIInv == IInv /\ [Next]_vars => IInv'
<1> SUFFICES ASSUME IInv, [Next]_vars PROVE IInv'
  OBVIOUS
<1>1. ASSUME NEW t \in Thread, Calling(t) PROVE IInv'
  BY <1>1, CallingIInv
<1>2. ASSUME NEW t \in Thread, NEW l \in Lock, LockTaken(t, l) PROVE IInv'
  BY <1>2, LockTakenIInv
<1>3. ASSUME NEW t \in Thread, NEW l \in Lock, Unlocked(t, l) PROVE IInv'
  BY <1>3, UnlockedIInv
<1>4. CASE UNCHANGED vars
  <2>1. rest' = rest /\ owner' = owner /\ depth' = depth
    BY <1>4 DEF vars
  <2> QED
    BY <2>1 DEF IInv, TypeOK, Balanced, HeldBy
<1> QED
  BY <1>1, <1>2, <1>3, <1>4 DEF Next

LEMMA IInvAlways == Spec => []IInv
BY InitIInv, StepIInv, PTL DEF Spec

-----------------------------------------------------------------------------
(* Waiting goes upwards in rank, but for the lock of the map under that of *)
(* the pieces.                                                             *)

\* An ordered thread that waits for a lock may take it after each that it holds.
LEMMA WaitsAbove ==
  ASSUME IInv, NEW u \in Thread, Ordered(u), NEW l \in Lock, Wants(u, "lock", l), owner[l] # u,
         NEW k \in Lock, owner[k] = u
  PROVE  Follows(k, l)
<1>1. HeldBy(u)[l] = 0 /\ HeldBy(u)[k] = depth[k]
  BY DEF HeldBy
<1>2. depth[k] > 0
  BY TypeFacts, Threads DEF IInv
<1>3. k \in Held(HeldBy(u))
  BY <1>1, <1>2 DEF Held
<1>4. HeldBy(u)[l] > 0 \/ \A j \in Held(HeldBy(u)) : Follows(j, l)
  BY NextOperation
<1> QED
  BY <1>1, <1>3, <1>4

\* A lock that a thread of S wants and another one of S holds.
Contended(S, l) == \E t \in S, u \in S : t # u /\ Wants(t, "lock", l) /\ owner[l] = u

\* The owner of a contended lock waits for one that may be taken after it.
LEMMA OwnerWaits ==
  ASSUME IInv, NEW S \in SUBSET Thread, Deadlocked(S), \A t \in S : Ordered(t),
         NEW k \in Lock, Contended(S, k)
  PROVE  \E l \in Lock : /\ Contended(S, l) /\ Follows(k, l)
                         /\ owner[k] \in S /\ Wants(owner[k], "lock", l)
<1>1. PICK u \in S : owner[k] = u
  BY DEF Contended
<1>2. PICK v \in S : WaitsFor(u, v)
  BY DEF Deadlocked
<1>3. PICK l \in Lock : u # v /\ Wants(u, "lock", l) /\ owner[l] = v
  BY <1>2 DEF WaitsFor
<1>4. Contended(S, l)
  BY <1>3 DEF Contended
<1>5. Follows(k, l)
  BY <1>1, <1>3, WaitsAbove
<1> QED
  BY <1>1, <1>3, <1>4, <1>5

\* Ordered threads that wait for each other: the contended locks are those of the map and of
\* the pieces, each with an owner that wants the other.
LEMMA OrderedDeadlock ==
  ASSUME IInv, NEW S \in SUBSET Thread, Deadlocked(S), \A t \in S : Ordered(t)
  PROVE  \E t, u \in S : FinishesAgainstStartAll(t, u)
<1>1. \A l \in Lock : Rank(l) \in 0..5
  BY DEF Rank
<1>2. \A k \in Lock : Contended(S, k) =>
        \E l \in Lock : /\ Contended(S, l)
                        /\ Rank(k) < Rank(l) \/ (k = "piece" /\ l = "map")
  BY OwnerWaits DEF Follows
<1>3. \A l \in Lock : Contended(S, l) => Rank(l) # 5
  BY <1>1, <1>2, Ranks
<1>4. \A l \in Lock : Contended(S, l) => Rank(l) # 4
  BY <1>1, <1>2, <1>3, Ranks
<1>5. \A l \in Lock : Contended(S, l) => Rank(l) # 3
  BY <1>1, <1>2, <1>3, <1>4, Ranks
<1>6. \A l \in Lock : Contended(S, l) => Rank(l) <= 2
  BY <1>1, <1>3, <1>4, <1>5
<1>7. \A l \in Lock : Rank(l) = 2 => l = "piece"
  BY DEF Rank
<1>8. PICK l \in Lock : Contended(S, l)
  <2>1. PICK t \in S : TRUE
    BY DEF Deadlocked
  <2>2. PICK u \in S : WaitsFor(t, u)
    BY DEF Deadlocked
  <2> QED
    BY <2>2 DEF WaitsFor, Contended
<1>9. Contended(S, "piece")
  <2> SUFFICES ASSUME ~ Contended(S, "piece") PROVE FALSE
    OBVIOUS
  <2>1. \A k \in Lock : Contended(S, k) => Rank(k) # 2
    BY <1>7
  <2>2. \A k \in Lock : Contended(S, k) => Rank(k) # 1
    BY <1>1, <1>2, <1>6, <2>1
  <2>3. \A k \in Lock : Contended(S, k) => Rank(k) # 0
    BY <1>1, <1>2, <1>6, <2>1, <2>2
  <2> QED
    BY <1>1, <1>6, <1>8, <2>1, <2>2, <2>3
<1>10. "piece" \in Lock /\ "map" \in Lock /\ Rank("piece") = 2 /\ Rank("map") = 1
  BY Ranks
<1>11. Contended(S, "map") /\ owner["piece"] \in S /\ Wants(owner["piece"], "lock", "map")
  <2>1. PICK k \in Lock : /\ Contended(S, k) /\ Follows("piece", k)
                          /\ owner["piece"] \in S /\ Wants(owner["piece"], "lock", k)
    BY <1>9, <1>10, OwnerWaits
  <2>2. k = "map"
    BY <1>1, <1>6, <1>10, <2>1 DEF Follows
  <2> QED
    BY <2>1, <2>2
<1>12. owner["map"] \in S /\ Wants(owner["map"], "lock", "piece")
  <2>1. PICK k \in Lock : /\ Contended(S, k) /\ Follows("map", k)
                          /\ owner["map"] \in S /\ Wants(owner["map"], "lock", k)
    BY <1>10, <1>11, OwnerWaits
  <2>2. Rank(k) = 2
    BY <1>1, <1>6, <1>10, <2>1 DEF Follows
  <2> QED
    BY <1>7, <2>1, <2>2
<1> QED
  BY <1>11, <1>12 DEF FinishesAgainstStartAll

-----------------------------------------------------------------------------
\* The locks and what the threads still have to do keep their types, and a lock has an
\* owner exactly while it is taken.
THEOREM TypeCorrect == Spec => []TypeOK
<1>1. IInv => TypeOK
  BY DEF IInv
<1> QED
  BY <1>1, IInvAlways, PTL

\* Whatever threads run, and however many of the application's, they wait for each other
\* only in the two ways of DeadlocksKnown: with the polling or the server thread among them,
\* or one that finishes a task under the lock of its pieces against StartAllTask.
THEOREM DeadlocksKnownAlways == Spec => []DeadlocksKnown
<1>1. IInv => DeadlocksKnown
  <2> SUFFICES ASSUME IInv, NEW S \in SUBSET Thread, Deadlocked(S), S \cap {"polling", "server"} = {}
               PROVE  \E t, u \in S : FinishesAgainstStartAll(t, u)
    BY DEF DeadlocksKnown
  <2>1. \A t \in S : Ordered(t)
    BY DEF Ordered
  <2> QED
    BY <2>1, OrderedDeadlock
<1> QED
  BY <1>1, IInvAlways, PTL

=============================================================================
