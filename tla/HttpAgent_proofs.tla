--------------------------- MODULE HttpAgent_proofs ---------------------------
(***************************************************************************)
(* Proofs about HttpAgent, for every finite set of tasks, every set of     *)
(* descriptors, every size of the table and every number of retries: the   *)
(* two tables agree as long as the table was never full, a connection to   *)
(* be used again exists, and no request disappears without an answer.      *)
(***************************************************************************)
EXTENDS HttpAgent, FiniteSetTheorems, FunctionTheorems, WellFoundedInduction, TLAPS

LEMMA Basics ==
  /\ NoObj \notin Obj /\ Obj \subseteq Nat /\ NoHash \notin Hash /\ NoFd \notin Fd
  /\ MaxSock \in Nat \ {0} /\ MaxRetry \in Nat /\ MaxRequests \in Nat
  /\ IsFiniteSet(Hash) /\ Cardinality(Hash) \in Nat
  /\ \A h \in Hash : Type[h] \in {"range", "start", "whole"}
<1>1. IsFiniteSet(Hash) /\ Cardinality(Hash) \in Nat
  BY AgentAssumption, FS_CardinalityType
<1> QED
  BY <1>1, AgentAssumption DEF NoObj, Obj

LEMMA FirstExists ==
  ASSUME NEW S, S \subseteq Nat, S # {}
  PROVE  \E i \in S : \A j \in S : i <= j
<1>1. \E x \in S : \A y \in S : ~ (<<y, x>> \in OpToRel(<, Nat))
  BY NatLessThanWellFounded, WFMin
<1>2. PICK x \in S : \A y \in S : ~ (<<y, x>> \in OpToRel(<, Nat))
  BY <1>1
<1>3. \A y \in S : x <= y
  <2> SUFFICES ASSUME NEW y \in S, ~ (x <= y) PROVE FALSE
    OBVIOUS
  <2>1. x \in Nat /\ y \in Nat /\ y < x
    OBVIOUS
  <2>2. <<y, x>> \in OpToRel(<, Nat)
    BY <2>1 DEF OpToRel
  <2> QED
    BY <1>2, <2>2
<1> QED
  BY <1>3

LEMMA FirstType == ASSUME NEW S, S \subseteq Nat, S # {} PROVE First(S) \in S
BY FirstExists DEF First

-----------------------------------------------------------------------------
(* The table: a record of the slots and the number of those in use.        *)

Slot == [hash : Hash \cup {NoHash}, fd : Fd \cup {NoFd}, ev : SUBSET {"in", "out"}]
Tables == [slot : [1 .. MaxSock -> Slot], n : 0 .. MaxSock]

Has(t, h) == \E i \in 1 .. t.n : t.slot[i].hash = h
Unique(t) == \A i, j \in 1 .. t.n : t.slot[i].hash = t.slot[j].hash => i = j

LEMMA NoSlotType == NoSlot \in Slot /\ \A h \in Hash \cup {NoHash} : [NoSlot EXCEPT !.hash = h] \in Slot
BY DEF NoSlot, Slot

LEMMA IndexOfType ==
  ASSUME NEW t \in Tables, NEW h
  PROVE  /\ IndexOf(t, h) \subseteq 1 .. t.n /\ (Has(t, h) <=> IndexOf(t, h) # {})
         /\ Has(t, h) => /\ First(IndexOf(t, h)) \in 1 .. t.n
                         /\ t.slot[First(IndexOf(t, h))].hash = h
<1>1. t.n \in Nat
  BY Basics DEF Tables
<1>2. IndexOf(t, h) \subseteq 1 .. t.n /\ (Has(t, h) <=> IndexOf(t, h) # {})
  BY DEF IndexOf, Has
<1>3. IndexOf(t, h) \subseteq Nat
  BY <1>1, <1>2
<1>4. Has(t, h) => First(IndexOf(t, h)) \in IndexOf(t, h)
  BY <1>2, <1>3, FirstType
<1> QED
  BY <1>2, <1>4 DEF IndexOf

\* What is closed goes, the last connection takes its place.
LEMMA ClosedValue ==
  ASSUME NEW t \in Tables, NEW i \in 1 .. MaxSock
  PROVE  LET u == Closed(t, i)
         IN /\ u \in Tables
            /\ (i > t.n \/ t.n = MaxSock) => u = t
            /\ (i <= t.n /\ t.n < MaxSock) =>
                 /\ u.n = t.n - 1
                 /\ \A j \in 1 .. u.n : u.slot[j] = IF j = i THEN t.slot[t.n] ELSE t.slot[j]
<1>1. t.n \in 0 .. MaxSock /\ t.slot \in [1 .. MaxSock -> Slot] /\ MaxSock \in Nat
  BY Basics DEF Tables
<1>2. CASE i > t.n \/ t.n >= MaxSock
  <2>1. Closed(t, i) = t
    BY <1>2 DEF Closed
  <2>2. ~ (i <= t.n /\ t.n < MaxSock)
    BY <1>1, <1>2
  <2> QED
    BY <2>1, <2>2
<1>3. CASE i = t.n /\ t.n < MaxSock
  <2> DEFINE s == [NoSlot EXCEPT !.hash = t.slot[i].hash]
  <2>1. t.slot[i].hash \in Hash \cup {NoHash}
    BY <1>1 DEF Slot
  <2>2. s \in Slot
    BY <2>1, NoSlotType
  <2>3. Closed(t, i) = [n |-> t.n - 1, slot |-> [t.slot EXCEPT ![i] = s]]
    BY <1>1, <1>3 DEF Closed
  <2> HIDE DEF s
  <2>4. t.n - 1 \in 0 .. MaxSock /\ [t.slot EXCEPT ![i] = s] \in [1 .. MaxSock -> Slot]
    BY <1>1, <1>3, <2>2
  <2>5. \A j \in 1 .. t.n - 1 : [t.slot EXCEPT ![i] = s][j] = t.slot[j] /\ j # i
    BY <1>1, <1>3
  <2> QED
    BY <1>1, <1>3, <2>3, <2>4, <2>5 DEF Tables
<1>4. CASE i < t.n /\ t.n < MaxSock
  <2> DEFINE f == [t.slot EXCEPT ![i] = t.slot[t.n], ![t.n] = NoSlot]
  <2>0. i # t.n /\ ~ (i > t.n \/ t.n >= MaxSock)
    BY <1>1, <1>4
  <2>1. Closed(t, i) = [n |-> t.n - 1, slot |-> f]
    BY <2>0, Zenon DEF Closed
  <2>2. t.slot[t.n] \in Slot
    BY <1>1, <1>4
  <2>3. f \in [1 .. MaxSock -> Slot]
    BY <1>1, <2>2, NoSlotType
  <2>4. \A j \in 1 .. t.n - 1 : f[j] = IF j = i THEN t.slot[t.n] ELSE t.slot[j]
    BY <1>1, <1>4
  <2> HIDE DEF f
  <2>5. t.n - 1 \in 0 .. MaxSock
    BY <1>1, <1>4
  <2> QED
    BY <1>1, <1>4, <2>1, <2>3, <2>4, <2>5 DEF Tables
<1> QED
  BY <1>1, <1>2, <1>3, <1>4

LEMMA AppendedValue ==
  ASSUME NEW t \in Tables, t.n < MaxSock, NEW h \in Hash, NEW f \in Fd
  PROVE  LET u == Appended(t, h, f)
         IN /\ u \in Tables /\ u.n = t.n + 1
            /\ u.slot[u.n].hash = h /\ u.slot[u.n].fd = f
            /\ \A j \in 1 .. t.n : u.slot[j] = t.slot[j]
<1>1. t.n \in 0 .. MaxSock /\ t.slot \in [1 .. MaxSock -> Slot] /\ MaxSock \in Nat
  BY Basics DEF Tables
<1>2. t.n + 1 \in 1 .. MaxSock
  BY <1>1
<1> DEFINE s == [hash |-> h, fd |-> f, ev |-> t.slot[t.n + 1].ev \cup {"out"}]
<1>3. s \in Slot
  <2>1. t.slot[t.n + 1].ev \in SUBSET {"in", "out"}
    BY <1>1, <1>2 DEF Slot
  <2> QED
    BY <2>1 DEF Slot
<1>4. Appended(t, h, f) = [n |-> t.n + 1, slot |-> [t.slot EXCEPT ![t.n + 1] = s]]
  BY Zenon DEF Appended
<1>5. s.hash = h /\ s.fd = f
  OBVIOUS
<1> HIDE DEF s
<1>6. /\ [t.slot EXCEPT ![t.n + 1] = s] \in [1 .. MaxSock -> Slot]
      /\ [t.slot EXCEPT ![t.n + 1] = s][t.n + 1] = s
      /\ \A j \in 1 .. t.n : [t.slot EXCEPT ![t.n + 1] = s][j] = t.slot[j]
  BY <1>1, <1>2, <1>3
<1>7. t.n + 1 \in 0 .. MaxSock
  BY <1>2
<1> QED
  BY <1>4, <1>5, <1>6, <1>7 DEF Tables

\* A table from which connections were taken: what is left was there, and each hash
\* occurs once if it did.
Within(u, t) ==
  /\ u.n <= t.n /\ (t.n = MaxSock => u = t)
  /\ \A j \in 1 .. u.n : \E i \in 1 .. t.n : u.slot[j] = t.slot[i]
  /\ Unique(t) => Unique(u)

LEMMA ClosedWithin ==
  ASSUME NEW t \in Tables, NEW i \in 1 .. MaxSock
  PROVE  Within(Closed(t, i), t)
<1> DEFINE u == Closed(t, i)
<1>1. t.n \in 0 .. MaxSock /\ MaxSock \in Nat
  BY Basics DEF Tables
<1>2. CASE i > t.n \/ t.n = MaxSock
  <2>1. u = t
    BY <1>2, ClosedValue
  <2> HIDE DEF u
  <2> QED
    BY <1>1, <2>1 DEF Within, u
<1>3. CASE i <= t.n /\ t.n < MaxSock
  <2>1. u.n = t.n - 1 /\ \A j \in 1 .. u.n : u.slot[j] = IF j = i THEN t.slot[t.n] ELSE t.slot[j]
    BY <1>3, ClosedValue
  <2> HIDE DEF u
  <2>2. \A j \in 1 .. u.n : j \in 1 .. t.n /\ t.n \in 1 .. t.n /\ j # t.n
    BY <1>1, <1>3, <2>1
  <2>3. \A j \in 1 .. u.n : \E k \in 1 .. t.n : u.slot[j] = t.slot[k]
    BY <2>1, <2>2
  <2>4. ASSUME Unique(t) PROVE Unique(u)
    <3> SUFFICES ASSUME NEW j \in 1 .. u.n, NEW k \in 1 .. u.n, u.slot[j].hash = u.slot[k].hash
                 PROVE  j = k
      BY DEF Unique
    <3>1. j \in 1 .. t.n /\ k \in 1 .. t.n /\ t.n \in 1 .. t.n /\ j # t.n /\ k # t.n
      BY <2>2
    <3>2. /\ u.slot[j] = IF j = i THEN t.slot[t.n] ELSE t.slot[j]
          /\ u.slot[k] = IF k = i THEN t.slot[t.n] ELSE t.slot[k]
      BY <2>1
    <3>3. \A p, q \in 1 .. t.n : t.slot[p].hash = t.slot[q].hash => p = q
      BY <2>4 DEF Unique
    <3> QED
      BY <3>1, <3>2, <3>3
  <2>5. u.n <= t.n /\ t.n # MaxSock
    BY <1>1, <1>3, <2>1
  <2> QED
    BY <2>3, <2>4, <2>5 DEF Within, u
<1> QED
  BY <1>1, <1>2, <1>3

\* Only the connection of this hash may go.
LEMMA ClosedKeeps ==
  ASSUME NEW t \in Tables, NEW i \in 1 .. MaxSock, NEW h, Has(t, h), t.slot[i].hash # h
  PROVE  Has(Closed(t, i), h)
<1> DEFINE u == Closed(t, i)
<1>1. t.n \in 0 .. MaxSock /\ MaxSock \in Nat
  BY Basics DEF Tables
<1>2. PICK k \in 1 .. t.n : t.slot[k].hash = h
  BY DEF Has
<1>3. CASE i > t.n \/ t.n = MaxSock
  BY <1>3, ClosedValue
<1>4. CASE i <= t.n /\ t.n < MaxSock
  <2>1. u.n = t.n - 1 /\ \A j \in 1 .. u.n : u.slot[j] = IF j = i THEN t.slot[t.n] ELSE t.slot[j]
    BY <1>4, ClosedValue
  <2> HIDE DEF u
  <2>2. CASE k = t.n
    <3>1. i \in 1 .. u.n
      BY <1>1, <1>2, <1>4, <2>1, <2>2
    <3> QED
      BY <1>2, <2>1, <2>2, <3>1 DEF Has, u
  <2>3. CASE k # t.n
    <3>1. k \in 1 .. u.n /\ k # i
      BY <1>1, <1>2, <1>4, <2>1, <2>3
    <3> QED
      BY <1>2, <2>1, <3>1 DEF Has, u
  <2> QED
    BY <2>2, <2>3
<1> QED
  BY <1>1, <1>3, <1>4

\* OnClose(hash): the connections of other hashes stay, that of the hash goes if it was
\* the only one.
LEMMA ClosedHashValue ==
  ASSUME NEW t \in Tables, NEW h
  PROVE  LET u == ClosedHash(t, h)
         IN /\ u \in Tables /\ Within(u, t)
            /\ \A g : g # h /\ Has(t, g) => Has(u, g)
            /\ Unique(t) /\ t.n < MaxSock => ~ Has(u, h)
<1>1. t.n \in 0 .. MaxSock /\ MaxSock \in Nat
  BY Basics DEF Tables
<1>2. CASE ~ Has(t, h)
  <2>1. ClosedHash(t, h) = t
    BY <1>2, IndexOfType DEF ClosedHash
  <2>2. Within(t, t)
    BY <1>1 DEF Within
  <2> QED
    BY <1>2, <2>1, <2>2
<1>3. CASE Has(t, h)
  <2> DEFINE i == First(IndexOf(t, h))
             u == Closed(t, i)
  <2>1. ClosedHash(t, h) = u /\ i \in 1 .. t.n /\ t.slot[i].hash = h
    BY <1>3, IndexOfType DEF ClosedHash
  <2> HIDE DEF i
  <2>2. i \in 1 .. MaxSock
    BY <1>1, <2>1
  <2>3. u \in Tables /\ Within(u, t)
    BY <2>2, ClosedValue, ClosedWithin
  <2>4. \A g : g # h /\ Has(t, g) => Has(u, g)
    BY <2>1, <2>2, ClosedKeeps
  <2>5. ASSUME Unique(t), t.n < MaxSock PROVE ~ Has(u, h)
    <3>1. u.n = t.n - 1 /\ \A j \in 1 .. u.n : u.slot[j] = IF j = i THEN t.slot[t.n] ELSE t.slot[j]
      BY <1>1, <2>1, <2>2, <2>5, ClosedValue
    <3> HIDE DEF u
    <3> SUFFICES ASSUME NEW j \in 1 .. u.n PROVE u.slot[j].hash # h
      BY DEF Has
    <3>2. j \in 1 .. t.n /\ t.n \in 1 .. t.n /\ j # t.n
      BY <1>1, <3>1
    <3>3. \A k \in 1 .. t.n : t.slot[k].hash = h => k = i
      BY <2>1, <2>5 DEF Unique
    <3> QED
      BY <3>1, <3>2, <3>3
  <2> QED
    BY <2>1, <2>3, <2>4, <2>5
<1> QED
  BY <1>2, <1>3

-----------------------------------------------------------------------------
(* A step on one hash: the connections of the others stay in the table, an *)
(* index still shows what it showed, and no connection is invented.        *)

Keeps(u, t, h) ==
  /\ \A g : g # h /\ Has(t, g) => Has(u, g)
  /\ \A j \in 1 .. MaxSock : \/ u.slot[j].hash \in {t.slot[j].hash, NoHash, h}
                             \/ Has(u, u.slot[j].hash)
  /\ \A i \in 1 .. u.n : u.slot[i].hash # h =>
       \E k \in 1 .. t.n : u.slot[i].hash = t.slot[k].hash /\ u.slot[i].fd = t.slot[k].fd

LEMMA KeepsItself == ASSUME NEW t, NEW h PROVE Keeps(t, t, h)
BY DEF Keeps

LEMMA KeepsTransitive ==
  ASSUME NEW t, NEW u, NEW v, NEW h, Keeps(u, t, h), Keeps(v, u, h)
  PROVE  Keeps(v, t, h)
<1>1. \A g : g # h /\ Has(t, g) => Has(v, g)
  BY DEF Keeps
<1>2. ASSUME NEW j \in 1 .. MaxSock
      PROVE  v.slot[j].hash \in {t.slot[j].hash, NoHash, h} \/ Has(v, v.slot[j].hash)
  <2>1. v.slot[j].hash \in {u.slot[j].hash, NoHash, h} \/ Has(v, v.slot[j].hash)
    BY DEF Keeps
  <2>2. u.slot[j].hash \in {t.slot[j].hash, NoHash, h} \/ Has(u, u.slot[j].hash)
    BY DEF Keeps
  <2>3. u.slot[j].hash # h /\ Has(u, u.slot[j].hash) => Has(v, u.slot[j].hash)
    BY DEF Keeps
  <2> QED
    BY <2>1, <2>2, <2>3
<1>3. ASSUME NEW i \in 1 .. v.n, v.slot[i].hash # h
      PROVE  \E k \in 1 .. t.n : v.slot[i].hash = t.slot[k].hash /\ v.slot[i].fd = t.slot[k].fd
  <2>1. PICK k \in 1 .. u.n : v.slot[i].hash = u.slot[k].hash /\ v.slot[i].fd = u.slot[k].fd
    BY <1>3 DEF Keeps
  <2>2. \E l \in 1 .. t.n : u.slot[k].hash = t.slot[l].hash /\ u.slot[k].fd = t.slot[l].fd
    BY <1>3, <2>1 DEF Keeps
  <2> QED
    BY <2>1, <2>2
<1> QED
  BY <1>1, <1>2, <1>3 DEF Keeps

\* What a closed index shows.
LEMMA ClosedShows ==
  ASSUME NEW t \in Tables, NEW i \in 1 .. MaxSock, NEW j \in 1 .. MaxSock
  PROVE  LET u == Closed(t, i)
         IN \/ u.slot[j].hash \in {t.slot[j].hash, NoHash}
            \/ j \in 1 .. u.n
<1>1. t.n \in 0 .. MaxSock /\ t.slot \in [1 .. MaxSock -> Slot] /\ MaxSock \in Nat
  BY Basics DEF Tables
<1>2. CASE i > t.n \/ t.n >= MaxSock
  BY <1>2, Zenon DEF Closed
<1>3. CASE i = t.n /\ t.n < MaxSock
  <2> DEFINE s == [NoSlot EXCEPT !.hash = t.slot[i].hash]
  <2>1. s.hash = t.slot[i].hash
    BY DEF NoSlot
  <2>2. Closed(t, i) = [n |-> t.n - 1, slot |-> [t.slot EXCEPT ![i] = s]]
    BY <1>1, <1>3 DEF Closed
  <2> HIDE DEF s
  <2> QED
    BY <1>1, <2>1, <2>2
<1>4. CASE i < t.n /\ t.n < MaxSock
  <2>0. i # t.n /\ ~ (i > t.n \/ t.n >= MaxSock)
    BY <1>1, <1>4
  <2> DEFINE f == [t.slot EXCEPT ![i] = t.slot[t.n], ![t.n] = NoSlot]
  <2>1. Closed(t, i) = [n |-> t.n - 1, slot |-> f]
    BY <2>0, Zenon DEF Closed
  <2>2. NoSlot.hash = NoHash
    BY DEF NoSlot
  <2>3. CASE j = t.n
    <3>1. f[j] = NoSlot
      BY <1>1, <2>3
    <3> QED
      BY <2>1, <2>2, <3>1
  <2>4. CASE j = i
    <3>1. j \in 1 .. t.n - 1
      BY <1>1, <1>4, <2>4
    <3> QED
      BY <2>1, <3>1
  <2>5. CASE j # t.n /\ j # i
    <3>1. f[j] = t.slot[j]
      BY <1>1, <2>5
    <3> QED
      BY <2>1, <3>1
  <2> QED
    BY <2>3, <2>4, <2>5
<1> QED
  BY <1>1, <1>2, <1>3, <1>4

\* OnClose(index) is a step on the hash of that connection.
LEMMA ClosedIndexKeeps ==
  ASSUME NEW t \in Tables, NEW i \in 1 .. MaxSock
  PROVE  Keeps(Closed(t, i), t, t.slot[i].hash)
<1> DEFINE u == Closed(t, i)
           h == t.slot[i].hash
<1>1. \A g : g # h /\ Has(t, g) => Has(u, g)
  BY ClosedKeeps
<1>2. ASSUME NEW j \in 1 .. MaxSock
      PROVE  u.slot[j].hash \in {t.slot[j].hash, NoHash, h} \/ Has(u, u.slot[j].hash)
  <2>1. u.slot[j].hash \in {t.slot[j].hash, NoHash} \/ j \in 1 .. u.n
    BY ClosedShows
  <2> QED
    BY <2>1 DEF Has
<1>3. \A j \in 1 .. u.n : \E k \in 1 .. t.n : u.slot[j] = t.slot[k]
  BY ClosedWithin DEF Within
<1> QED
  BY <1>1, <1>2, <1>3 DEF Keeps

LEMMA ClosedHashKeeps == ASSUME NEW t \in Tables, NEW h PROVE Keeps(ClosedHash(t, h), t, h)
<1>1. CASE ~ Has(t, h)
  BY <1>1, KeepsItself, IndexOfType DEF ClosedHash
<1>2. CASE Has(t, h)
  <2>1. t.n \in 0 .. MaxSock /\ MaxSock \in Nat
    BY Basics DEF Tables
  <2> DEFINE i == First(IndexOf(t, h))
  <2>2. ClosedHash(t, h) = Closed(t, i) /\ i \in 1 .. t.n /\ t.slot[i].hash = h
    BY <1>2, IndexOfType DEF ClosedHash
  <2> QED
    BY <2>1, <2>2, ClosedIndexKeeps
<1> QED
  BY <1>1, <1>2

LEMMA AppendedKeeps ==
  ASSUME NEW t \in Tables, t.n < MaxSock, NEW h \in Hash, NEW f \in Fd
  PROVE  LET u == Appended(t, h, f)
         IN /\ Keeps(u, t, h) /\ Has(u, h)
            /\ Unique(t) /\ ~ Has(t, h) =>
                 Unique(u) /\ \A i \in 1 .. u.n : u.slot[i].hash = h => u.slot[i].fd = f
<1>1. t.n \in 0 .. MaxSock /\ t.slot \in [1 .. MaxSock -> Slot] /\ MaxSock \in Nat
  BY Basics DEF Tables
<1> DEFINE u == Appended(t, h, f)
<1>2. /\ u \in Tables /\ u.n = t.n + 1
      /\ u.slot[u.n].hash = h /\ u.slot[u.n].fd = f
      /\ \A j \in 1 .. t.n : u.slot[j] = t.slot[j]
  BY AppendedValue
<1>3. \A j \in 1 .. MaxSock : j # t.n + 1 => u.slot[j] = t.slot[j]
  <2> DEFINE s == [hash |-> h, fd |-> f, ev |-> t.slot[t.n + 1].ev \cup {"out"}]
  <2>1. u = [n |-> t.n + 1, slot |-> [t.slot EXCEPT ![t.n + 1] = s]]
    BY Zenon DEF Appended
  <2> HIDE DEF s, u
  <2> QED
    BY <1>1, <2>1
<1> HIDE DEF u
<1>4. \A i \in 1 .. u.n : i = u.n \/ i \in 1 .. t.n
  BY <1>1, <1>2
<1>5. u.n \in 1 .. u.n /\ \A i \in 1 .. t.n : i \in 1 .. u.n
  BY <1>1, <1>2
<1>6. Has(u, h)
  BY <1>2, <1>5 DEF Has
<1>7. Keeps(u, t, h)
  <2>1. \A g : Has(t, g) => Has(u, g)
    BY <1>2, <1>5 DEF Has
  <2>2. \A j \in 1 .. MaxSock : u.slot[j].hash \in {t.slot[j].hash, NoHash, h}
    BY <1>2, <1>3
  <2>3. \A i \in 1 .. u.n : u.slot[i].hash # h => i \in 1 .. t.n /\ u.slot[i] = t.slot[i]
    BY <1>2, <1>4
  <2> QED
    BY <2>1, <2>2, <2>3 DEF Keeps
<1>8. ASSUME Unique(t), ~ Has(t, h)
      PROVE  Unique(u) /\ \A i \in 1 .. u.n : u.slot[i].hash = h => u.slot[i].fd = f
  <2>1. \A i \in 1 .. t.n : u.slot[i] = t.slot[i] /\ t.slot[i].hash # h
    BY <1>2, <1>8 DEF Has
  <2>2. \A i, j \in 1 .. t.n : t.slot[i].hash = t.slot[j].hash => i = j
    BY <1>8 DEF Unique
  <2>3. \A i, j \in 1 .. u.n : u.slot[i].hash = u.slot[j].hash => i = j
    BY <1>2, <1>4, <2>1, <2>2
  <2> QED
    BY <1>2, <1>4, <2>1, <2>3 DEF Unique
<1> QED
  BY <1>6, <1>7, <1>8 DEF u

-----------------------------------------------------------------------------
(* The inductive invariant.                                                *)

Info == [buf : BOOLEAN, down : {"none", "part", "all"}, share : BOOLEAN, reuse : BOOLEAN,
         err : BOOLEAN, times : 0 .. MaxRetry, fd : Fd \cup {NoFd}, told : BOOLEAN]

\* Two requests never have one object.
Distinct == \A h, g \in Agents : agent[h] = agent[g] => h = g

FullSeen == n = MaxSock => wasFull

\* Where OnData works for an agent it has found.
Receiving == {"recv", "copy", "fin", "share", "reuse"}

HoldsAgent == pc \in Receiving \cup {"drop", "push", "send"} => held \in Obj /\ mine \in Hash

\* While OnData works, its agent has its connection, unless it was terminated.
HeldConnected ==
  pc \in Receiving => \A h \in Agents : agent[h] = held => h = mine /\ Has(Table, h)

\* The hash of an index that was polled has a connection or no agent.
PolledConnected == pc = "in" /\ slot[idx].hash \in Agents => Has(Table, slot[idx].hash)

ReuseAnswered == \A o \in Obj : obj[o].reuse => obj[o].share

\* What OnData knows of the request it is answering.
NotReusedYet == pc \in {"share", "reuse", "drop", "push"} => ~ obj[held].reuse
Answering ==
  /\ pc = "reuse" => obj[held].share /\ obj[held].told
  /\ pc = "drop" => obj[held].share /\ (Type[mine] # "whole" => obj[held].told)

\* Marked answered without a message: OnData is about to push it.
ShareTold == \A h \in Agents : obj[agent[h]].share => Promised(agent[h])

Tied == Distinct /\ FullSeen /\ SlotsMatch /\ ReuseHasSlot /\ ReuseAnswered
Held == HoldsAgent /\ HeldConnected /\ PolledConnected /\ NotReusedYet /\ Answering /\ ShareTold
IInv == TypeOK /\ Tied /\ Held

LEMMA TypeParts ==
  ASSUME TypeOK
  PROVE  /\ obj \in [Obj -> Info] /\ agent \in [Hash -> Obj \cup {NoObj}]
         /\ Table \in Tables /\ Table.slot = slot /\ Table.n = n
         /\ n \in 0 .. MaxSock /\ wasFull \in BOOLEAN
         /\ \A h \in Agents : h \in Hash /\ agent[h] \in Obj
BY Basics DEF TypeOK, Info, Table, Tables, Slot, Agents

LEMMA NextTypeParts ==
  ASSUME TypeOK'
  PROVE  /\ obj' \in [Obj -> Info] /\ agent' \in [Hash -> Obj \cup {NoObj}]
         /\ Table' \in Tables /\ Table'.slot = slot' /\ Table'.n = n'
         /\ n' \in 0 .. MaxSock /\ wasFull' \in BOOLEAN
         /\ \A h \in Agents' : h \in Hash /\ agent'[h] \in Obj
BY Basics DEF TypeOK, Info, Table, Tables, Slot, Agents

\* SlotsMatch in terms of the table.
Matched == Unique(Table) /\ \A i \in 1 .. n : /\ slot[i].hash \in Agents
                                              /\ slot[i].fd = obj[agent[slot[i].hash]].fd

LEMMA MatchedSlots == SlotsMatch <=> (~wasFull => Matched)
<1>1. Unique(Table) <=> \A i, j \in 1 .. n : slot[i].hash = slot[j].hash => i = j
  BY DEF Unique, Table
<1> QED
  BY <1>1 DEF SlotsMatch, Matched, Live

LEMMA NextMatchedSlots == SlotsMatch' <=> (~wasFull' => Matched')
<1>1. Unique(Table)' <=> \A i, j \in 1 .. n' : slot'[i].hash = slot'[j].hash => i = j
  BY DEF Unique, Table
<1> QED
  BY <1>1 DEF SlotsMatch, Matched, Live

-----------------------------------------------------------------------------
(* A step on one hash: TerminalSock and AddTask.                           *)

\* Routine is about to push the message of this object.
HeldFor(o) == held = o /\ pc \in {"drop", "push"}

OneHash(h) ==
  /\ Table' \in Tables /\ Keeps(Table', Table, h)
  /\ wasFull' = (wasFull \/ n' = MaxSock)
  /\ obj' \in [Obj -> Info] /\ agent' \in [Hash -> Obj \cup {NoObj}]
  /\ \A g \in Hash \ {h} : agent'[g] = agent[g]
  /\ \A g \in Agents \ {h} : obj'[agent[g]] = obj[agent[g]] /\ agent'[h] # agent[g]
  /\ agent'[h] \in Obj => /\ Has(Table', h)
                          /\ ~ obj'[agent'[h]].reuse /\ ~ obj'[agent'[h]].share
                          /\ pc \in Receiving => agent'[h] # held
  /\ ~wasFull' => /\ Unique(Table')
                  /\ \A i \in 1 .. n' : slot'[i].hash = h =>
                       agent'[h] \in Obj /\ slot'[i].fd = obj'[agent'[h]].fd
  /\ \A o \in Obj : obj'[o].reuse => obj[o].reuse /\ obj'[o].share
  /\ pc \in Receiving \cup {"drop", "push"} =>
       /\ obj[held].share => obj'[held].share
       /\ obj[held].told => obj'[held].told
  /\ agent'[h] # agent[h] /\ agent[h] \in Obj => HeldFor(agent[h]) \/ obj'[agent[h]].told

LEMMA OneHashTied ==
  ASSUME IInv, NEW h \in Hash, OneHash(h)
  PROVE  Tied'
<1>1. /\ obj \in [Obj -> Info] /\ agent \in [Hash -> Obj \cup {NoObj}]
      /\ Table \in Tables /\ Table.slot = slot /\ Table.n = n /\ wasFull \in BOOLEAN
      /\ \A g \in Agents : g \in Hash /\ agent[g] \in Obj
  BY TypeParts DEF IInv
<1>2. /\ Table' \in Tables /\ Keeps(Table', Table, h)
      /\ wasFull' = (wasFull \/ n' = MaxSock)
      /\ obj' \in [Obj -> Info] /\ agent' \in [Hash -> Obj \cup {NoObj}]
      /\ Table'.slot = slot' /\ Table'.n = n'
  BY DEF OneHash, Table
<1>3. \A g \in Agents' : /\ g \in Hash /\ agent'[g] \in Obj
                         /\ g # h => g \in Agents /\ agent'[g] = agent[g]
                                     /\ obj'[agent'[g]] = obj[agent[g]] /\ agent'[h] # agent[g]
  BY <1>1, <1>2, Basics DEF OneHash, Agents
<1>4. Distinct'
  <2> SUFFICES ASSUME NEW g \in Agents', NEW k \in Agents', agent'[g] = agent'[k] PROVE g = k
    BY DEF Distinct
  <2>1. CASE g # h /\ k # h
    BY <1>3, <2>1 DEF IInv, Tied, Distinct
  <2>2. CASE g = h \/ k = h
    BY <1>3, <2>2
  <2> QED
    BY <2>1, <2>2
<1>5. FullSeen'
  BY <1>2 DEF FullSeen
<1>6. SlotsMatch'
  <2> SUFFICES ASSUME ~wasFull' PROVE Matched'
    BY NextMatchedSlots
  <2>1. ~wasFull /\ Matched
    BY <1>2, MatchedSlots DEF IInv, Tied
  <2>2. Unique(Table') /\ \A i \in 1 .. n' : slot'[i].hash = h =>
          agent'[h] \in Obj /\ slot'[i].fd = obj'[agent'[h]].fd
    BY DEF OneHash
  <2>3. ASSUME NEW i \in 1 .. n'
        PROVE  slot'[i].hash \in Agents' /\ slot'[i].fd = obj'[agent'[slot'[i].hash]].fd
    <3>1. CASE slot'[i].hash = h
      BY <2>2, <3>1, Basics DEF Agents
    <3>2. CASE slot'[i].hash # h
      <4>1. PICK k \in 1 .. n : slot'[i].hash = slot[k].hash /\ slot'[i].fd = slot[k].fd
        BY <1>1, <1>2, <3>2 DEF Keeps
      <4>2. slot[k].hash \in Agents /\ slot[k].fd = obj[agent[slot[k].hash]].fd
        BY <2>1 DEF Matched
      <4>3. slot'[i].hash \in Agents'
        BY <1>1, <1>2, <3>2, <4>1, <4>2 DEF OneHash, Agents
      <4> QED
        BY <1>3, <3>2, <4>1, <4>2, <4>3
    <3> QED
      BY <3>1, <3>2
  <2> QED
    BY <2>2, <2>3 DEF Matched
<1>7. ReuseHasSlot'
  <2> SUFFICES ASSUME NEW g \in Agents', obj'[agent'[g]].reuse
               PROVE  IndexOf(Table', g) # {} /\ obj'[agent'[g]].told
    BY DEF ReuseHasSlot
  <2>1. g # h
    BY <1>3 DEF OneHash
  <2>2. g \in Agents /\ obj[agent[g]].reuse /\ obj'[agent'[g]] = obj[agent[g]]
    BY <1>3, <2>1
  <2>3. IndexOf(Table, g) # {} /\ obj[agent[g]].told
    BY <2>2 DEF IInv, Tied, ReuseHasSlot
  <2>4. Has(Table', g)
    BY <1>1, <1>2, <2>1, <2>3, IndexOfType DEF Keeps
  <2> QED
    BY <1>2, <2>2, <2>3, <2>4, IndexOfType
<1>8. ReuseAnswered'
  BY DEF OneHash, ReuseAnswered
<1> QED
  BY <1>4, <1>5, <1>6, <1>7, <1>8 DEF Tied

\* An entry that is still there was not marked answered without a promise.
LEMMA OneHashShareTold ==
  ASSUME IInv, NEW h \in Hash, OneHash(h), NEW g \in Agents', obj'[agent'[g]].share
  PROVE  obj'[agent'[g]].told \/ (held = agent'[g] /\ pc \in {"drop", "push"})
<1>1. /\ agent \in [Hash -> Obj \cup {NoObj}]
      /\ \A k \in Agents : k \in Hash /\ agent[k] \in Obj
  BY TypeParts DEF IInv
<1>2. g \in Hash /\ agent'[g] \in Obj
  BY Basics DEF OneHash, Agents
<1>3. g # h
  BY <1>2 DEF OneHash
<1>4. g \in Agents /\ agent'[g] = agent[g] /\ obj'[agent[g]] = obj[agent[g]]
  BY <1>1, <1>2, <1>3 DEF OneHash, Agents
<1> QED
  BY <1>4 DEF IInv, Held, ShareTold, Promised

\* Routine, meanwhile, does nothing.
LEMMA OneHashHeld ==
  ASSUME IInv, NEW h \in Hash, OneHash(h), UNCHANGED thread
  PROVE  Held'
<1>1. /\ obj \in [Obj -> Info] /\ agent \in [Hash -> Obj \cup {NoObj}]
      /\ Table \in Tables /\ Table.slot = slot /\ Table.n = n /\ wasFull \in BOOLEAN
      /\ \A g \in Agents : g \in Hash /\ agent[g] \in Obj
      /\ Table' \in Tables /\ Keeps(Table', Table, h) /\ Table'.slot = slot'
      /\ obj' \in [Obj -> Info] /\ agent' \in [Hash -> Obj \cup {NoObj}]
  BY TypeParts DEF IInv, OneHash, Table
<1>2. pc' = pc /\ idx' = idx /\ held' = held /\ mine' = mine /\ idx \in 1 .. MaxSock
  BY DEF thread, IInv, TypeOK
<1>3. \A g \in Agents' : /\ g \in Hash /\ agent'[g] \in Obj
                         /\ g # h => g \in Agents /\ agent'[g] = agent[g]
                                     /\ (Has(Table, g) => Has(Table', g))
                         /\ g = h => Has(Table', h)
  BY <1>1, Basics DEF OneHash, Agents, Keeps
<1>4. HoldsAgent'
  BY <1>2 DEF IInv, Held, HoldsAgent
<1>5. HeldConnected'
  <2> SUFFICES ASSUME pc \in Receiving, NEW g \in Agents', agent'[g] = held
               PROVE  g = mine /\ Has(Table', g)
    BY <1>2 DEF HeldConnected
  <2>1. g # h
    BY <1>3 DEF OneHash
  <2> QED
    BY <1>3, <2>1 DEF IInv, Held, HeldConnected
<1>6. PolledConnected'
  <2> SUFFICES ASSUME pc = "in", slot'[idx].hash \in Agents' PROVE Has(Table', slot'[idx].hash)
    BY <1>2 DEF PolledConnected
  <2>1. slot'[idx].hash # NoHash
    BY <1>3, Basics
  <2>2. slot'[idx].hash \in {slot[idx].hash, h} \/ Has(Table', slot'[idx].hash)
    BY <1>1, <1>2, <2>1 DEF Keeps
  <2>3. CASE slot'[idx].hash = h
    BY <1>3, <2>3
  <2>4. CASE slot'[idx].hash = slot[idx].hash /\ slot[idx].hash # h
    BY <1>3, <2>4 DEF IInv, Held, PolledConnected
  <2> QED
    BY <2>2, <2>3, <2>4
<1>7. pc \in Receiving \cup {"drop", "push"} => held \in Obj
  BY DEF IInv, Held, HoldsAgent
<1>8. NotReusedYet'
  BY <1>2, <1>7 DEF IInv, Held, NotReusedYet, OneHash, Receiving
<1>9. Answering'
  BY <1>2, <1>7 DEF IInv, Held, Answering, OneHash, Receiving
<1>10. ShareTold'
  BY <1>2, OneHashShareTold DEF ShareTold, Promised
<1> QED
  BY <1>4, <1>5, <1>6, <1>8, <1>9, <1>10 DEF Held

-----------------------------------------------------------------------------
(* TerminalSock.                                                           *)

LEMMA AnsweredValue ==
  ASSUME NEW o \in Info, NEW b \in BOOLEAN
  PROVE  LET x == Answered([o EXCEPT !.share = b /\ @])
         IN /\ x \in Info /\ x.share /\ x.reuse = o.reuse
            /\ o.told \/ ~ o.share => x.told
<1> DEFINE p == [o EXCEPT !.share = b /\ @]
<1>1. /\ p \in Info /\ p.share = (b /\ o.share) /\ p.reuse = o.reuse /\ p.told = o.told
  BY DEF Info
<1> HIDE DEF p
<1>2. CASE p.share
  BY <1>1, <1>2 DEF Answered, p
<1>3. CASE ~ p.share
  <2>1. Answered(p) = [p EXCEPT !.share = TRUE, !.told = TRUE, !.buf = FALSE]
    BY <1>3 DEF Answered
  <2>2. Answered(p) \in Info /\ Answered(p).share /\ Answered(p).told /\ Answered(p).reuse = p.reuse
    BY <1>1, <2>1 DEF Info
  <2> QED
    BY <1>1, <2>2 DEF p
<1> QED
  BY <1>2, <1>3

LEMMA AnsweredNow ==
  ASSUME NEW o \in Info
  PROVE  /\ Answered(o) \in Info /\ Answered(o).share /\ Answered(o).reuse = o.reuse
         /\ o.told \/ ~ o.share => Answered(o).told
<1>1. [o EXCEPT !.share = TRUE /\ @] = o
  BY DEF Info
<1> QED
  BY <1>1, AnsweredValue

LEMMA FreshType == Fresh \in Info /\ ~ Fresh.reuse /\ ~ Fresh.share /\ ~ Fresh.told
BY Basics DEF Fresh, Info

LEMMA ReleasedValue ==
  ASSUME NEW a, NEW o \in Info
  PROVE  /\ Released(a, o) \in Info /\ Released(a, o).told = o.told
         /\ a = held => Released(a, o) = o
         /\ a # held => ~ Released(a, o).reuse
<1>1. /\ [Fresh EXCEPT !.told = o.told] \in Info
      /\ [Fresh EXCEPT !.told = o.told].told = o.told
      /\ ~ [Fresh EXCEPT !.told = o.told].reuse
  <2>1. o.told \in BOOLEAN
    BY DEF Info
  <2>2. Fresh \in Info /\ ~ Fresh.reuse
    BY FreshType
  <2> QED
    BY <2>1, <2>2 DEF Info
<1> QED
  BY <1>1 DEF Released

LEMMA ReconnectedValue ==
  ASSUME NEW o \in Info, NEW f \in Fd, o.times < MaxRetry
  PROVE  LET x == Reconnected(o, f)
         IN x \in Info /\ ~ x.share /\ ~ x.reuse /\ x.fd = f
<1>1. o.times + 1 \in 0 .. MaxRetry
  BY Basics DEF Info
<1>2. Reconnected(o, f) = [o EXCEPT !.share = FALSE, !.reuse = FALSE, !.times = o.times + 1, !.fd = f]
  BY DEF Reconnected
<1> QED
  BY <1>1, <1>2 DEF Info

LEMMA FreeType == ASSUME NEW t PROVE Free(t) \subseteq Fd
BY DEF Free

\* The parts of a step on one hash that are about the objects.
LEMMA OneObject ==
  ASSUME IInv, NEW h \in Agents, NEW x \in Info,
         obj' = [obj EXCEPT ![agent[h]] = x],
         x.reuse => obj[agent[h]].reuse /\ x.share
  PROVE  /\ obj' \in [Obj -> Info] /\ obj'[agent[h]] = x
         /\ \A o \in Obj : o # agent[h] => obj'[o] = obj[o]
         /\ \A g \in Agents \ {h} : obj'[agent[g]] = obj[agent[g]] /\ agent[g] # agent[h]
         /\ \A o \in Obj : obj'[o].reuse => obj[o].reuse /\ obj'[o].share
<1>1. obj \in [Obj -> Info] /\ \A g \in Agents : agent[g] \in Obj
  BY TypeParts DEF IInv
<1>2. obj' \in [Obj -> Info] /\ obj'[agent[h]] = x
      /\ \A o \in Obj : o # agent[h] => obj'[o] = obj[o]
  BY <1>1
<1>3. \A g \in Agents \ {h} : agent[g] # agent[h]
  BY DEF IInv, Tied, Distinct
<1>4. \A o \in Obj : obj[o].reuse => obj[o].share
  BY DEF IInv, Tied, ReuseAnswered
<1> QED
  BY <1>1, <1>2, <1>3, <1>4

LEMMA TerminateStep ==
  ASSUME IInv, NEW h \in Agents, NEW initiative \in BOOLEAN,
         pc \in Receiving \cup {"drop", "push"} => initiative,
         Terminate(h, initiative)
  PROVE  \/ OneHash(h) /\ UNCHANGED ub
         \/ UNCHANGED <<obj, agent, table, wasFull>> /\ ub' = "overflow"
<1>1. /\ obj \in [Obj -> Info] /\ agent \in [Hash -> Obj \cup {NoObj}]
      /\ Table \in Tables /\ Table.n = n /\ wasFull \in BOOLEAN
      /\ \A g \in Agents : g \in Hash /\ agent[g] \in Obj
  BY TypeParts DEF IInv
<1> DEFINE a == agent[h]
           t == ClosedHash(Table, h)
           retry == ~initiative /\ Retries(obj[a])
<1>2. a \in Obj /\ obj[a] \in Info /\ h \in Hash /\ a # NoObj
  BY <1>1, Basics
<1>3. /\ t \in Tables /\ Within(t, Table) /\ Keeps(t, Table, h)
      /\ Unique(Table) /\ Table.n < MaxSock => ~ Has(t, h)
  BY <1>1, ClosedHashValue, ClosedHashKeeps
<1>4. /\ t.n \in 0 .. MaxSock /\ n \in 0 .. MaxSock /\ MaxSock \in Nat
      /\ ~wasFull => Unique(Table) /\ n < MaxSock
  BY <1>1, <1>3, Basics, MatchedSlots DEF Tables, IInv, Tied, FullSeen, Matched
<1>5. retry \in BOOLEAN
  BY DEF Retries
<1>6. CASE /\ retry /\ t.n < MaxSock
           /\ \E f \in Free(t) :
                /\ Become(Appended(t, h, f))
                /\ obj' = [obj EXCEPT ![a] = Reconnected(@, f)]
           /\ UNCHANGED <<agent, ub>>
  <2>1. PICK f \in Fd : /\ Become(Appended(t, h, f))
                        /\ obj' = [obj EXCEPT ![a] = Reconnected(@, f)]
    BY <1>6, FreeType
  <2> DEFINE u == Appended(t, h, f)
             x == Reconnected(obj[a], f)
  <2>2. x \in Info /\ ~ x.share /\ ~ x.reuse /\ x.fd = f
    BY <1>2, <1>6, ReconnectedValue DEF Retries
  <2>3. obj' = [obj EXCEPT ![a] = x]
    BY <2>1
  <2>4. u \in Tables /\ Keeps(u, Table, h) /\ Has(u, h)
    BY <1>2, <1>3, <1>6, AppendedValue, AppendedKeeps, KeepsTransitive
  <2>5. slot' = u.slot /\ n' = u.n /\ wasFull' = (wasFull \/ u.n = MaxSock)
    BY <2>1 DEF Become
  <2>6. ~ Has(t, h) /\ Unique(t) => Unique(u) /\ \A i \in 1 .. u.n : u.slot[i].hash = h => u.slot[i].fd = f
    BY <1>2, <1>3, <1>6, AppendedKeeps
  <2> HIDE DEF u, x
  <2>7. Table' = u
    BY <2>4, <2>5 DEF Table, Tables
  <2>8. /\ obj' \in [Obj -> Info] /\ obj'[a] = x
        /\ \A g \in Agents \ {h} : obj'[agent[g]] = obj[agent[g]] /\ agent[g] # agent[h]
        /\ \A o \in Obj : obj'[o].reuse => obj[o].reuse /\ obj'[o].share
    BY <2>2, <2>3, OneObject
  <2>9. agent' = agent /\ UNCHANGED ub
    BY <1>6
  <2>10. ~wasFull' => /\ Unique(Table')
                      /\ \A i \in 1 .. n' : slot'[i].hash = h => slot'[i].fd = obj'[a].fd
    BY <1>1, <1>3, <1>4, <2>2, <2>5, <2>6, <2>7, <2>8 DEF Within
  <2>11. ~ (pc \in Receiving \cup {"drop", "push"})
    BY <1>6
  <2>12. OneHash(h)
    BY <1>1, <1>2, <2>2, <2>4, <2>5, <2>7, <2>8, <2>9, <2>10, <2>11 DEF OneHash
  <2> QED
    BY <2>9, <2>12
<1>7. CASE ub' = "overflow" /\ UNCHANGED <<obj, agent, table, wasFull>>
  BY <1>7
<1>8. CASE /\ Become(t)
           /\ obj' = [obj EXCEPT ![a] = Released(a, Answered([obj[a] EXCEPT !.share = ~retry /\ @]))]
           /\ agent' = [agent EXCEPT ![h] = NoObj]
           /\ UNCHANGED ub
  <2> DEFINE y == Answered([obj[a] EXCEPT !.share = ~retry /\ @])
             x == Released(a, y)
  <2>1. obj' = [obj EXCEPT ![a] = x]
    BY <1>8
  <2>2. y \in Info /\ y.share /\ y.reuse = obj[a].reuse /\ (obj[a].told \/ ~obj[a].share => y.told)
    BY <1>2, <1>5, AnsweredValue
  <2> HIDE DEF y
  <2>3. x \in Info /\ x.told = y.told /\ (a = held => x = y) /\ (a # held => ~ x.reuse)
    BY <2>2, ReleasedValue
  <2> HIDE DEF x
  <2>4. slot' = t.slot /\ n' = t.n /\ wasFull' = (wasFull \/ t.n = MaxSock)
    BY <1>8 DEF Become
  <2>5. Table' = t
    BY <1>3, <2>4 DEF Table, Tables
  <2>6. /\ obj' \in [Obj -> Info] /\ obj'[a] = x
        /\ \A o \in Obj : o # a => obj'[o] = obj[o]
        /\ \A g \in Agents \ {h} : obj'[agent[g]] = obj[agent[g]] /\ agent[g] # agent[h]
        /\ \A o \in Obj : obj'[o].reuse => obj[o].reuse /\ obj'[o].share
    BY <2>1, <2>2, <2>3, OneObject
  <2>7. /\ agent' \in [Hash -> Obj \cup {NoObj}] /\ agent'[h] = NoObj
        /\ \A g \in Hash \ {h} : agent'[g] = agent[g]
    BY <1>1, <1>2, <1>8
  <2>8. \A g \in Agents \ {h} : agent'[h] # agent[g]
    BY <1>1, <2>7, Basics
  <2>9. ~wasFull' => /\ Unique(Table')
                     /\ \A i \in 1 .. n' : slot'[i].hash # h
    BY <1>1, <1>3, <1>4, <2>4, <2>5 DEF Within, Has
  <2>10. pc \in Receiving \cup {"drop", "push"} =>
           /\ obj[held].share => obj'[held].share
           /\ obj[held].told => obj'[held].told
    BY <2>2, <2>3, <2>6 DEF IInv, Held, HoldsAgent
  <2>11. HeldFor(a) \/ obj'[a].told
    BY <2>2, <2>3, <2>6 DEF IInv, Held, ShareTold, Promised, HeldFor
  <2>12. agent'[h] \notin Obj
    BY <2>7, Basics
  <2>13. OneHash(h)
    BY <1>3, <2>4, <2>5, <2>6, <2>7, <2>8, <2>9, <2>10, <2>11, <2>12 DEF OneHash
  <2> QED
    BY <1>8, <2>13
<1> QED
  BY <1>6, <1>7, <1>8 DEF Terminate

-----------------------------------------------------------------------------
(* AddTask.  There is always an object that is not in use: one for each    *)
(* task, one that Routine holds, one more.                                 *)

LEMMA NewObjType ==
  ASSUME agent \in [Hash -> Obj \cup {NoObj}]
  PROVE  /\ NewObj \in Obj /\ NewObj # held
         /\ \A g \in Hash : agent[g] # NewObj
<1> DEFINE A == {agent[g] : g \in Hash}
<1>1. IsFiniteSet(Hash) /\ Cardinality(Hash) \in Nat /\ Obj \subseteq Nat
  BY Basics
<1>2. IsFiniteSet(A) /\ Cardinality(A) <= Cardinality(Hash)
  <2>1. agent \in Surjection(Hash, A)
    <3>1. agent \in [Hash -> A] /\ \A a \in A : \E g \in Hash : agent[g] = a
      OBVIOUS
    <3> QED
      BY <3>1, Fun_IsSurj
  <2> HIDE DEF A
  <2> QED
    BY <1>1, <2>1, FS_Surjection
<1> HIDE DEF A
<1>3. IsFiniteSet(A \cup {held}) /\ Cardinality(A \cup {held}) <= Cardinality(Hash) + 1
  <2>1. Cardinality(A) \in Nat
    BY <1>2, FS_CardinalityType
  <2>2. /\ IsFiniteSet(A \cup {held})
        /\ Cardinality(A \cup {held}) = IF held \in A THEN Cardinality(A) ELSE Cardinality(A) + 1
    BY <1>2, FS_AddElement, Zenon
  <2> QED
    BY <1>1, <1>2, <2>1, <2>2
<1>4. Cardinality(Obj) = Cardinality(Hash) + 2
  BY <1>1, FS_Interval DEF Obj
<1>5. Unused # {}
  <2> SUFFICES ASSUME Unused = {} PROVE FALSE
    OBVIOUS
  <2>1. Obj \in SUBSET (A \cup {held})
    BY DEF Unused, A
  <2>2. Cardinality(Obj) <= Cardinality(A \cup {held})
    BY <1>3, <2>1, FS_Subset
  <2>3. Cardinality(A \cup {held}) \in Nat
    BY <1>3, FS_CardinalityType
  <2> QED
    BY <1>1, <1>3, <1>4, <2>2, <2>3
<1>6. NewObj \in Unused
  <2>1. Unused \subseteq Nat
    BY <1>1 DEF Unused
  <2>2. \E o \in Unused : \A p \in Unused : o <= p
    BY <1>5, <2>1, FirstExists
  <2> QED
    BY <2>2 DEF NewObj
<1> QED
  BY <1>6 DEF Unused

\* The objects after what the hash had was terminated.
Left(h) ==
  IF h \in Agents THEN [obj EXCEPT ![agent[h]] = Released(agent[h], Answered(@))] ELSE obj

LEMMA LeftValue ==
  ASSUME IInv, NEW h \in Hash
  PROVE  /\ Left(h) \in [Obj -> Info]
         /\ \A g \in Agents \ {h} : Left(h)[agent[g]] = obj[agent[g]]
         /\ \A o \in Obj : Left(h)[o].reuse => obj[o].reuse /\ Left(h)[o].share
         /\ held \in Obj => /\ obj[held].share => Left(h)[held].share
                            /\ obj[held].told => Left(h)[held].told
         /\ agent[h] \in Obj => HeldFor(agent[h]) \/ Left(h)[agent[h]].told
<1>1. obj \in [Obj -> Info] /\ agent \in [Hash -> Obj \cup {NoObj}]
  BY TypeParts DEF IInv
<1>2. \A o \in Obj : obj[o].reuse => obj[o].share
  BY DEF IInv, Tied, ReuseAnswered
<1>3. CASE h \in Agents
  <2> DEFINE a == agent[h]
             y == Answered(obj[a])
             x == Released(a, y)
  <2>1. a \in Obj
    BY <1>1, <1>3 DEF Agents
  <2>2. y \in Info /\ y.share /\ y.reuse = obj[a].reuse /\ (obj[a].told \/ ~obj[a].share => y.told)
    BY <1>1, <2>1, AnsweredNow
  <2>3. Left(h) = [obj EXCEPT ![a] = x]
    BY <1>3 DEF Left
  <2> HIDE DEF y
  <2>4. x \in Info /\ x.told = y.told /\ (a = held => x = y) /\ (a # held => ~ x.reuse)
    BY <2>2, ReleasedValue
  <2> HIDE DEF x
  <2>5. /\ Left(h) \in [Obj -> Info] /\ Left(h)[a] = x
        /\ \A o \in Obj : o # a => Left(h)[o] = obj[o]
    BY <1>1, <2>1, <2>3, <2>4
  <2>6. \A g \in Agents \ {h} : agent[g] # a /\ agent[g] \in Obj
    BY <1>1, <1>3 DEF IInv, Tied, Distinct, Agents
  <2>7. HeldFor(a) \/ Left(h)[a].told
    BY <1>3, <2>2, <2>4, <2>5 DEF IInv, Held, ShareTold, Promised, HeldFor
  <2> QED
    BY <1>2, <2>2, <2>4, <2>5, <2>6, <2>7
<1>4. CASE h \notin Agents
  <2>1. agent[h] \notin Obj
    BY <1>1, <1>4, Basics DEF Agents
  <2> QED
    BY <1>1, <1>2, <1>4, <2>1 DEF Left
<1> QED
  BY <1>3, <1>4

\* The table then.
Without(h) == IF h \in Agents THEN ClosedHash(Table, h) ELSE Table

LEMMA WithoutValue ==
  ASSUME IInv, NEW h \in Hash
  PROVE  LET t == Without(h)
         IN /\ t \in Tables /\ Keeps(t, Table, h)
            /\ ~wasFull => Unique(t) /\ t.n < MaxSock /\ ~ Has(t, h)
<1>1. Table \in Tables /\ Table.n = n /\ Table.slot = slot /\ n \in 0 .. MaxSock
  BY TypeParts DEF IInv
<1>2. ~wasFull => Matched /\ Unique(Table) /\ n < MaxSock
  BY <1>1, MatchedSlots, Basics DEF IInv, Tied, FullSeen, Matched
<1>3. CASE h \in Agents
  <2> DEFINE t == ClosedHash(Table, h)
  <2>1. /\ t \in Tables /\ Within(t, Table) /\ Keeps(t, Table, h)
        /\ Unique(Table) /\ Table.n < MaxSock => ~ Has(t, h)
    BY <1>1, ClosedHashValue, ClosedHashKeeps
  <2>2. Without(h) = t
    BY <1>3 DEF Without
  <2> HIDE DEF t
  <2>3. t.n \in Nat /\ MaxSock \in Nat
    BY <2>1, Basics DEF Tables
  <2> QED
    BY <1>1, <1>2, <2>1, <2>2, <2>3 DEF Within
<1>4. CASE h \notin Agents
  <2>1. Without(h) = Table
    BY <1>4 DEF Without
  <2>2. Matched => ~ Has(Table, h)
    BY <1>1, <1>4 DEF Matched, Has
  <2> QED
    BY <1>1, <1>2, <2>1, <2>2, KeepsItself
<1> QED
  BY <1>3, <1>4

\* The three ways AddTask ends.
LEMMA AddTaskCases ==
  ASSUME NEW h \in Hash, AddTask(h)
  PROVE  LET t == Without(h)
         IN \/ /\ Become(t) /\ obj' = Left(h) /\ agent' = [agent EXCEPT ![h] = NoObj]
            \/ /\ t.n < MaxSock
               /\ \E f \in Fd :
                    /\ Become(Appended(t, h, f))
                    /\ obj' = [Left(h) EXCEPT ![NewObj] = [Fresh EXCEPT !.fd = f]]
                    /\ agent' = [agent EXCEPT ![h] = NewObj]
            \/ /\ t.n < MaxSock
               /\ \E f \in Fd :
                    /\ Become(ClosedHash(Appended(t, h, f), h))
                    /\ obj' = [Left(h) EXCEPT ![NewObj] =
                                 Released(NewObj, Answered([Fresh EXCEPT !.fd = f]))]
                    /\ agent' = [agent EXCEPT ![h] = NoObj]
BY FreeType, Zenon DEF AddTask, Without, Left

LEMMA AddTaskStep == ASSUME IInv, NEW h \in Hash, AddTask(h) PROVE OneHash(h)
<1>1. /\ obj \in [Obj -> Info] /\ agent \in [Hash -> Obj \cup {NoObj}]
      /\ \A g \in Agents : g \in Hash /\ agent[g] \in Obj
  BY TypeParts DEF IInv
<1> DEFINE t == Without(h)
<1>2. t \in Tables /\ Keeps(t, Table, h) /\ (~wasFull => Unique(t) /\ t.n < MaxSock /\ ~ Has(t, h))
  BY WithoutValue
<1>3. /\ Left(h) \in [Obj -> Info]
      /\ \A g \in Agents \ {h} : Left(h)[agent[g]] = obj[agent[g]]
      /\ \A o \in Obj : Left(h)[o].reuse => obj[o].reuse /\ Left(h)[o].share
      /\ held \in Obj => /\ obj[held].share => Left(h)[held].share
                         /\ obj[held].told => Left(h)[held].told
      /\ agent[h] \in Obj => HeldFor(agent[h]) \/ Left(h)[agent[h]].told
  BY LeftValue
<1>4. NewObj \in Obj /\ NewObj # held /\ \A g \in Hash : agent[g] # NewObj
  BY <1>1, NewObjType
<1>5. pc \in Receiving \cup {"drop", "push"} => held \in Obj
  BY DEF IInv, Held, HoldsAgent
<1>6. \A f \in Fd : LET o == [Fresh EXCEPT !.fd = f]
                    IN o \in Info /\ ~ o.reuse /\ ~ o.share /\ o.fd = f
  BY FreshType DEF Info
<1> DEFINE without == [agent EXCEPT ![h] = NoObj]
<1>7. /\ without \in [Hash -> Obj \cup {NoObj}] /\ without[h] = NoObj /\ without[h] \notin Obj
      /\ \A g \in Hash \ {h} : without[g] = agent[g]
      /\ \A g \in Agents \ {h} : without[h] # agent[g]
  BY <1>1, Basics
<1>8. MaxSock \in Nat /\ t.n \in Nat
  BY <1>2, Basics DEF Tables
<1> HIDE DEF t, without
<1>9. CASE Become(t) /\ obj' = Left(h) /\ agent' = without
  <2>1. slot' = t.slot /\ n' = t.n /\ wasFull' = (wasFull \/ t.n = MaxSock)
    BY <1>9 DEF Become
  <2>2. Table' = t
    BY <1>2, <2>1 DEF Table, Tables
  <2>3. ~wasFull' => Unique(Table') /\ \A i \in 1 .. n' : slot'[i].hash # h
    BY <1>2, <2>1, <2>2 DEF Has
  <2> QED
    BY <1>2, <1>3, <1>5, <1>7, <1>9, <2>1, <2>2, <2>3 DEF OneHash
<1>10. ASSUME NEW f \in Fd, t.n < MaxSock, Become(Appended(t, h, f)),
              obj' = [Left(h) EXCEPT ![NewObj] = [Fresh EXCEPT !.fd = f]],
              agent' = [agent EXCEPT ![h] = NewObj]
       PROVE  OneHash(h)
  <2> DEFINE u == Appended(t, h, f)
             o == [Fresh EXCEPT !.fd = f]
  <2>1. o \in Info /\ ~ o.reuse /\ ~ o.share /\ o.fd = f
    BY <1>6
  <2> HIDE DEF o
  <2>2. u \in Tables /\ Keeps(u, Table, h) /\ Has(u, h)
    BY <1>2, <1>10, AppendedValue, AppendedKeeps, KeepsTransitive
  <2>3. ~ Has(t, h) /\ Unique(t) => Unique(u) /\ \A i \in 1 .. u.n : u.slot[i].hash = h => u.slot[i].fd = f
    BY <1>2, <1>10, AppendedKeeps
  <2>4. slot' = u.slot /\ n' = u.n /\ wasFull' = (wasFull \/ u.n = MaxSock)
    BY <1>10 DEF Become
  <2> HIDE DEF u
  <2>5. Table' = u
    BY <2>2, <2>4 DEF Table, Tables
  <2>6. obj' = [Left(h) EXCEPT ![NewObj] = o]
    BY <1>10 DEF o
  <2>7. /\ obj' \in [Obj -> Info] /\ obj'[NewObj] = o
        /\ \A p \in Obj : p # NewObj => obj'[p] = Left(h)[p]
    BY <1>3, <1>4, <2>1, <2>6
  <2>8. /\ agent' \in [Hash -> Obj \cup {NoObj}] /\ agent'[h] = NewObj
        /\ \A g \in Hash \ {h} : agent'[g] = agent[g]
    BY <1>1, <1>4, <1>10
  <2>9. ~wasFull' => Unique(Table') /\ \A i \in 1 .. n' : slot'[i].hash = h => slot'[i].fd = f
    BY <1>2, <2>3, <2>4, <2>5
  <2>10. \A g \in Agents \ {h} : obj'[agent[g]] = obj[agent[g]] /\ agent'[h] # agent[g]
    BY <1>1, <1>3, <1>4, <2>7, <2>8
  <2>11. \A p \in Obj : obj'[p].reuse => obj[p].reuse /\ obj'[p].share
    BY <1>3, <2>1, <2>7
  <2>12. pc \in Receiving \cup {"drop", "push"} =>
           /\ obj[held].share => obj'[held].share
           /\ obj[held].told => obj'[held].told
    BY <1>3, <1>4, <1>5, <2>7
  <2>13. agent[h] \in Obj => HeldFor(agent[h]) \/ obj'[agent[h]].told
    BY <1>3, <1>4, <2>7
  <2> QED
    BY <1>4, <2>1, <2>2, <2>4, <2>5, <2>7, <2>8, <2>9, <2>10, <2>11, <2>12, <2>13 DEF OneHash
<1>11. ASSUME NEW f \in Fd, t.n < MaxSock, Become(ClosedHash(Appended(t, h, f), h)),
              obj' = [Left(h) EXCEPT ![NewObj] =
                        Released(NewObj, Answered([Fresh EXCEPT !.fd = f]))],
              agent' = without
       PROVE  OneHash(h)
  <2> DEFINE u == Appended(t, h, f)
             v == ClosedHash(u, h)
             o == Released(NewObj, Answered([Fresh EXCEPT !.fd = f]))
  <2>1. o \in Info /\ ~ o.reuse
    BY <1>4, <1>6, AnsweredNow, ReleasedValue
  <2>2. obj' = [Left(h) EXCEPT ![NewObj] = o]
    BY <1>11
  <2> HIDE DEF o
  <2>3. /\ u \in Tables /\ Keeps(u, Table, h)
        /\ ~ Has(t, h) /\ Unique(t) => Unique(u)
    BY <1>2, <1>11, AppendedValue, AppendedKeeps, KeepsTransitive
  <2>4. slot' = v.slot /\ n' = v.n /\ wasFull' = (wasFull \/ v.n = MaxSock)
    BY <1>11 DEF Become
  <2> HIDE DEF u
  <2>5. /\ v \in Tables /\ Within(v, u) /\ Keeps(v, u, h)
        /\ Unique(u) /\ u.n < MaxSock => ~ Has(v, h)
    BY <2>3, ClosedHashValue, ClosedHashKeeps
  <2> HIDE DEF v
  <2>6. Keeps(v, Table, h)
    BY <2>3, <2>5, KeepsTransitive
  <2>7. Table' = v
    BY <2>4, <2>5 DEF Table, Tables
  <2>8. /\ obj' \in [Obj -> Info] /\ obj'[NewObj] = o
        /\ \A p \in Obj : p # NewObj => obj'[p] = Left(h)[p]
    BY <1>3, <1>4, <2>1, <2>2
  <2>9. u.n \in 0 .. MaxSock /\ (u.n = MaxSock => v.n = MaxSock)
    BY <2>3, <2>5 DEF Within, Tables
  <2>10. ~wasFull' => Unique(Table') /\ \A i \in 1 .. n' : slot'[i].hash # h
    <3> SUFFICES ASSUME ~wasFull' PROVE Unique(v) /\ ~ Has(v, h)
      BY <2>4, <2>7 DEF Has
    <3>1. ~wasFull /\ v.n # MaxSock
      BY <2>4
    <3>2. u.n < MaxSock
      BY <1>8, <2>9, <3>1
    <3> QED
      BY <1>2, <2>3, <2>5, <3>1, <3>2 DEF Within
  <2>11. \A g \in Agents \ {h} : obj'[agent[g]] = obj[agent[g]]
    BY <1>1, <1>3, <1>4, <2>8
  <2>12. \A p \in Obj : obj'[p].reuse => obj[p].reuse /\ obj'[p].share
    BY <1>3, <2>1, <2>8
  <2>13. pc \in Receiving \cup {"drop", "push"} =>
           /\ obj[held].share => obj'[held].share
           /\ obj[held].told => obj'[held].told
    BY <1>3, <1>4, <1>5, <2>8
  <2>14. agent[h] \in Obj => HeldFor(agent[h]) \/ obj'[agent[h]].told
    BY <1>3, <1>4, <2>8
  <2> QED
    BY <1>7, <1>11, <2>4, <2>5, <2>6, <2>7, <2>8, <2>10, <2>11, <2>12, <2>13, <2>14 DEF OneHash
<1> QED
  BY <1>9, <1>10, <1>11, AddTaskCases, Zenon DEF t, without

-----------------------------------------------------------------------------
(* The types.                                                              *)

ThreadType ==
  /\ pc \in {"poll", "in", "recv", "copy", "fin", "share", "reuse", "drop", "push",
             "out", "send", "mark", "fail", "err", "term", "kill", "killOnly", "close"}
  /\ idx \in 1 .. MaxSock /\ held \in Obj \cup {NoObj} /\ mine \in Hash \cup {NoHash}

TablesType ==
  /\ obj \in [Obj -> Info] /\ agent \in [Hash -> Obj \cup {NoObj}]
  /\ slot \in [1 .. MaxSock -> Slot] /\ n \in 0 .. MaxSock /\ wasFull \in BOOLEAN

RestType ==
  /\ flag \in [1 .. MaxSock -> BOOLEAN] /\ ub \in {"none", "overflow", "null", "index"}
  /\ requests \in 0 .. MaxRequests

LEMMA TypeSplit == TypeOK <=> ThreadType /\ TablesType /\ RestType
BY DEF TypeOK, ThreadType, TablesType, RestType, Info, Slot

LEMMA NextTypeSplit == TypeOK' <=> ThreadType' /\ TablesType' /\ RestType'
BY DEF TypeOK, ThreadType, TablesType, RestType, Info, Slot

LEMMA OneHashType == ASSUME IInv, NEW h, OneHash(h) PROVE TablesType'
<1>1. Table'.slot = slot' /\ Table'.n = n' /\ Table' \in Tables
  BY DEF OneHash, Table
<1> QED
  BY <1>1, TypeSplit DEF IInv, OneHash, TablesType, Tables

LEMMA ThreadSteps ==
  ASSUME TypeOK
  PROVE  /\ UNCHANGED thread => ThreadType'
         /\ Done => ThreadType'
         /\ \A p \in {"copy", "fin", "share", "reuse", "drop", "push", "mark", "term", "close"} :
              Go(p) => ThreadType'
<1>1. ThreadType
  BY TypeSplit
<1>2. 1 \in 1 .. MaxSock
  BY Basics
<1> QED
  BY <1>1, <1>2 DEF ThreadType, thread, Done, Go

LEMMA RoutineThreadType == ASSUME TypeOK, Routine PROVE ThreadType'
<1>1. ThreadType /\ TablesType
  BY TypeSplit
<1>2. \A i \in 1 .. MaxSock : slot[i].hash \in Hash \cup {NoHash}
  BY <1>1 DEF TablesType, Slot
<1>3. \A h \in Agents : h \in Hash /\ agent[h] \in Obj
  BY TypeParts
<1>4. ASSUME NEW h \in Hash, Sweep(h) PROVE ThreadType'
  BY <1>4, ThreadSteps DEF Sweep
<1>5. ASSUME NEW i \in 1 .. MaxSock, Poll(i) PROVE ThreadType'
  BY <1>1, <1>5 DEF Poll, ThreadType
<1>6. CASE In
  <2>1. CASE pc' = "recv" /\ slot[idx].hash \in Agents /\ mine' = slot[idx].hash
             /\ held' = agent[mine'] /\ UNCHANGED idx
    BY <1>1, <1>3, <2>1 DEF ThreadType
  <2> QED
    BY <1>6, <2>1, ThreadSteps DEF In
<1>7. CASE Recv
  BY <1>7, ThreadSteps DEF Recv
<1>8. CASE Copy
  BY <1>8, ThreadSteps DEF Copy
<1>9. CASE Fin
  BY <1>9, ThreadSteps DEF Fin
<1>10. CASE Share
  BY <1>10, ThreadSteps DEF Share
<1>11. CASE Reuse
  BY <1>11, ThreadSteps DEF Reuse
<1>12. CASE DropConnection
  BY <1>12, ThreadSteps DEF DropConnection
<1>13. CASE Push
  BY <1>13, ThreadSteps DEF Push
<1>14. CASE Out
  <2>1. CASE pc' = "send" /\ slot[idx].hash \in Agents /\ mine' = slot[idx].hash
             /\ held' = agent[mine'] /\ UNCHANGED idx
    BY <1>1, <1>3, <2>1 DEF ThreadType
  <2> QED
    BY <1>14, <2>1, ThreadSteps DEF Out
<1>15. CASE Send
  BY <1>15, ThreadSteps DEF Send
<1>16. CASE Mark
  BY <1>16, ThreadSteps DEF Mark
<1>17. CASE ConnectFail
  <2>1. CASE pc' = "killOnly" /\ mine' = slot[idx].hash /\ UNCHANGED <<idx, held>>
    BY <1>1, <1>2, <2>1 DEF ThreadType
  <2> QED
    BY <1>17, <2>1, ThreadSteps DEF ConnectFail
<1>18. CASE Term
  BY <1>1, <1>2, <1>18 DEF Term, ThreadType
<1>19. CASE Kill
  BY <1>19, ThreadSteps DEF Kill
<1>20. CASE Close
  BY <1>20, ThreadSteps DEF Close
<1> QED
  BY <1>4, <1>5, <1>6, <1>7, <1>8, <1>9, <1>10, <1>11, <1>12, <1>13, <1>14, <1>15, <1>16,
     <1>17, <1>18, <1>19, <1>20 DEF Routine, Working

-----------------------------------------------------------------------------
(* Steps that leave the entries and the connections alone.                 *)

\* An object keeps its connection, is not offered again and keeps its answer.
Grows(o, p) ==
  (p.reuse => o.reuse) /\ (o.share => p.share) /\ (o.told => p.told) /\ p.fd = o.fd

SameTable ==
  /\ agent' = agent /\ n' = n /\ wasFull' = wasFull
  /\ slot' \in [1 .. MaxSock -> Slot]
  /\ \A i \in 1 .. MaxSock : slot'[i].hash = slot[i].hash /\ slot'[i].fd = slot[i].fd
  /\ obj' \in [Obj -> Info] /\ \A o \in Obj : obj'[o].fd = obj[o].fd

LEMMA SameTableTied ==
  ASSUME IInv, SameTable
  PROVE  /\ TablesType' /\ Agents' = Agents /\ Table' \in Tables
         /\ Distinct' /\ FullSeen' /\ SlotsMatch'
         /\ \A h : Has(Table', h) <=> Has(Table, h)
<1>1. /\ obj \in [Obj -> Info] /\ agent \in [Hash -> Obj \cup {NoObj}]
      /\ Table \in Tables /\ Table.slot = slot /\ Table.n = n /\ n \in 0 .. MaxSock
      /\ wasFull \in BOOLEAN /\ \A g \in Agents : g \in Hash /\ agent[g] \in Obj
  BY TypeParts DEF IInv
<1>2. Agents' = Agents /\ agent' = agent /\ n' = n /\ wasFull' = wasFull
  BY DEF SameTable, Agents
<1>3. Table'.slot = slot' /\ Table'.n = n /\ Table' \in Tables
  BY <1>1 DEF SameTable, Table, Tables
<1>4. \A i \in 1 .. n : i \in 1 .. MaxSock
                        /\ slot'[i].hash = slot[i].hash /\ slot'[i].fd = slot[i].fd
  BY <1>1, Basics DEF SameTable
<1>5. \A h : Has(Table', h) <=> Has(Table, h)
  BY <1>1, <1>3, <1>4 DEF Has
<1>6. TablesType'
  BY <1>1 DEF SameTable, TablesType
<1>7. Distinct' /\ FullSeen'
  BY <1>2 DEF IInv, Tied, Distinct, FullSeen
<1>8. Matched => Matched'
  <2>1. Unique(Table) => Unique(Table)'
    BY <1>1, <1>3, <1>4 DEF Unique
  <2> QED
    BY <1>1, <1>2, <1>4, <2>1 DEF Matched, SameTable
<1>9. SlotsMatch'
  BY <1>2, <1>8, MatchedSlots, NextMatchedSlots DEF IInv, Tied
<1> QED
  BY <1>2, <1>3, <1>5, <1>6, <1>7, <1>9

\* Nothing is offered again that was not.
LEMMA GrowsTied ==
  ASSUME IInv, SameTable, \A o \in Obj : Grows(obj[o], obj'[o])
  PROVE  Tied'
<1>1. \A g \in Agents : agent[g] \in Obj
  BY TypeParts DEF IInv
<1>2. /\ Agents' = Agents /\ agent' = agent /\ Table' \in Tables /\ Table \in Tables
      /\ Distinct' /\ FullSeen' /\ SlotsMatch'
      /\ \A h : Has(Table', h) <=> Has(Table, h)
  BY SameTableTied, TypeParts DEF SameTable, IInv
<1>3. \A h : IndexOf(Table', h) # {} <=> IndexOf(Table, h) # {}
  BY <1>2, IndexOfType
<1>4. ReuseHasSlot'
  BY <1>1, <1>2, <1>3 DEF IInv, Tied, ReuseHasSlot, Grows
<1>5. ReuseAnswered'
  BY DEF IInv, Tied, ReuseAnswered, Grows
<1> QED
  BY <1>2, <1>4, <1>5 DEF Tied

\* Routine is where it knows nothing of an agent.
LEMMA Resting ==
  ASSUME ~ (pc' \in Receiving \cup {"in", "drop", "push", "send"}),
         \A h \in Agents' : obj'[agent'[h]].share => obj'[agent'[h]].told
  PROVE  Held'
<1>1. pc' \notin Receiving /\ pc' # "in" /\ pc' # "drop" /\ pc' # "push" /\ pc' # "send"
      /\ pc' # "share" /\ pc' # "reuse"
  BY DEF Receiving
<1> QED
  BY <1>1 DEF Held, HoldsAgent, HeldConnected, PolledConnected, NotReusedYet, Answering,
              ShareTold, Promised

\* Unless Routine is about to push it, a message was pushed.
LEMMA ToldNow ==
  ASSUME IInv, pc # "drop", pc # "push", NEW h \in Agents, obj[agent[h]].share
  PROVE  obj[agent[h]].told
BY DEF IInv, Held, ShareTold, Promised

-----------------------------------------------------------------------------
(* One lemma for each action: what it does to Tied and Held.               *)

\* Nothing that is shared changes.
LEMMA QuietSame ==
  ASSUME IInv, UNCHANGED <<obj, agent, table, wasFull>>
  PROVE  /\ SameTable /\ Tied' /\ obj' = obj /\ slot' = slot /\ Agents' = Agents /\ agent' = agent
         /\ \A h : Has(Table', h) <=> Has(Table, h)
<1>1. obj \in [Obj -> Info] /\ slot \in [1 .. MaxSock -> Slot]
  BY TypeSplit DEF IInv, TablesType
<1>2. obj' = obj /\ agent' = agent /\ slot' = slot /\ n' = n /\ wasFull' = wasFull
  BY DEF table
<1>3. SameTable
  BY <1>1, <1>2 DEF SameTable
<1>4. \A o \in Obj : Grows(obj[o], obj'[o])
  BY <1>2 DEF Grows
<1> QED
  BY <1>2, <1>3, <1>4, SameTableTied, GrowsTied

LEMMA PollStep ==
  ASSUME IInv, NEW i \in 1 .. MaxSock, Poll(i)
  PROVE  Tied' /\ Held'
<1>1. pc = "poll" /\ i \in 1 .. n /\ pc' \in {"in", "out", "fail", "err"} /\ idx' = i
      /\ UNCHANGED <<obj, agent, table, wasFull>>
  BY DEF Poll, Quiet, Live
<1>2. Tied' /\ obj' = obj /\ slot' = slot /\ Agents' = Agents /\ agent' = agent
      /\ \A h : Has(Table', h) <=> Has(Table, h)
  BY <1>1, QuietSame
<1>3. Has(Table, slot[i].hash)
  BY <1>1 DEF Has, Table
<1>4. \A h \in Agents' : obj'[agent'[h]].share => obj'[agent'[h]].told
  BY <1>1, <1>2, ToldNow
<1>5. Held'
  BY <1>1, <1>2, <1>3, <1>4 DEF Held, HoldsAgent, HeldConnected, PolledConnected,
     NotReusedYet, Answering, ShareTold, Promised, Receiving
<1> QED
  BY <1>2, <1>5

LEMMA InStep == ASSUME IInv, In PROVE Tied' /\ Held'
<1>1. pc = "in" /\ UNCHANGED <<obj, agent, table, wasFull>>
  BY DEF In, Quiet
<1>2. Tied' /\ obj' = obj /\ slot' = slot /\ Agents' = Agents /\ agent' = agent
      /\ \A h : Has(Table', h) <=> Has(Table, h)
  BY <1>1, QuietSame
<1>3. \A h \in Agents' : obj'[agent'[h]].share => obj'[agent'[h]].told
  BY <1>1, <1>2, ToldNow
<1>4. CASE pc' = "term"
  <2>1. ~ (pc' \in Receiving \cup {"in", "drop", "push", "send"})
    BY <1>4 DEF Receiving
  <2> QED
    BY <1>2, <1>3, <2>1, Resting
<1>5. CASE pc' = "recv" /\ slot[idx].hash \in Agents /\ mine' = slot[idx].hash /\ held' = agent[mine']
  <2>1. held' \in Obj /\ mine' \in Hash /\ mine' \in Agents
    BY <1>5, TypeParts DEF IInv
  <2>2. Has(Table, mine')
    BY <1>1, <1>5 DEF IInv, Held, PolledConnected
  <2>3. \A h \in Agents : agent[h] = held' => h = mine'
    BY <1>5, <2>1 DEF IInv, Tied, Distinct
  <2> QED
    BY <1>2, <1>3, <1>5, <2>1, <2>2, <2>3 DEF Held, HoldsAgent, HeldConnected, PolledConnected,
       NotReusedYet, Answering, ShareTold, Promised, Receiving
<1> QED
  BY <1>2, <1>4, <1>5 DEF In, Go

\* OnData changes only the object it holds.
LEMMA HeldChange ==
  ASSUME IInv, pc \in Receiving \cup {"drop", "push", "send"}, NEW x \in Info, Grows(obj[held], x),
         obj' = [obj EXCEPT ![held] = x], UNCHANGED <<agent, table, wasFull>>
  PROVE  /\ held \in Obj /\ mine \in Hash /\ obj'[held] = x
         /\ \A o \in Obj : o # held => obj'[o] = obj[o]
         /\ Tied' /\ Agents' = Agents /\ agent' = agent
         /\ \A h \in Agents : agent[h] \in Obj
         /\ \A h : Has(Table', h) <=> Has(Table, h)
<1>1. held \in Obj /\ mine \in Hash
  BY DEF IInv, Held, HoldsAgent
<1>2. obj \in [Obj -> Info] /\ slot \in [1 .. MaxSock -> Slot] /\ \A h \in Agents : agent[h] \in Obj
  BY TypeSplit, TypeParts DEF IInv, TablesType
<1>3. /\ obj' \in [Obj -> Info] /\ obj'[held] = x /\ \A o \in Obj : o # held => obj'[o] = obj[o]
      /\ agent' = agent /\ slot' = slot /\ n' = n /\ wasFull' = wasFull
  BY <1>1, <1>2 DEF table
<1>4. \A o \in Obj : Grows(obj[o], obj'[o])
  BY <1>3 DEF Grows
<1>5. SameTable
  BY <1>2, <1>3, <1>4 DEF SameTable, Grows
<1> QED
  BY <1>1, <1>2, <1>3, <1>4, <1>5, SameTableTied, GrowsTied

\* A part of the object that is no flag of the answer.
LEMMA DataChange ==
  ASSUME NEW o \in Info, NEW b \in BOOLEAN, NEW d \in {"none", "part", "all"}
  PROVE  /\ [o EXCEPT !.buf = b] \in Info /\ Grows(o, [o EXCEPT !.buf = b])
         /\ [o EXCEPT !.buf = b].share = o.share
         /\ [o EXCEPT !.err = b] \in Info /\ Grows(o, [o EXCEPT !.err = b])
         /\ [o EXCEPT !.err = b].share = o.share
         /\ [o EXCEPT !.down = d] \in Info /\ Grows(o, [o EXCEPT !.down = d])
         /\ [o EXCEPT !.down = d].share = o.share
BY DEF Info, Grows

\* Receiving data: the object has its flags, Routine goes on or is done.
LEMMA DataStep ==
  ASSUME IInv, pc \in {"recv", "copy"}, NEW x \in Info, Grows(obj[held], x),
         x.share = obj[held].share, obj' = [obj EXCEPT ![held] = x],
         UNCHANGED <<agent, table, wasFull>>, Done \/ Go("term") \/ Go("copy") \/ Go("fin")
  PROVE  Tied' /\ Held'
<1>0. pc \in Receiving /\ pc # "drop" /\ pc # "push"
  BY DEF Receiving
<1>1. /\ held \in Obj /\ mine \in Hash /\ obj'[held] = x
      /\ \A o \in Obj : o # held => obj'[o] = obj[o]
      /\ Tied' /\ Agents' = Agents /\ agent' = agent
      /\ \A h \in Agents : agent[h] \in Obj
      /\ \A h : Has(Table', h) <=> Has(Table, h)
  BY <1>0, HeldChange
<1>2. \A h \in Agents' : obj'[agent'[h]].share => obj'[agent'[h]].told
  BY <1>0, <1>1, ToldNow DEF Grows
<1>3. CASE Done \/ Go("term")
  BY <1>1, <1>2, <1>3, Resting DEF Done, Go, Receiving
<1>4. CASE Go("copy") \/ Go("fin")
  <2>1. pc' \in {"copy", "fin"} /\ held' = held /\ mine' = mine
    BY <1>4 DEF Go
  <2>2. \A h \in Agents : agent[h] = held => h = mine /\ Has(Table, h)
    BY <1>0 DEF IInv, Held, HeldConnected
  <2>3. HeldConnected'
    BY <1>1, <2>1, <2>2 DEF HeldConnected
  <2> QED
    BY <1>1, <1>2, <2>1, <2>3 DEF Held, HoldsAgent, PolledConnected,
       NotReusedYet, Answering, ShareTold, Promised, Receiving
<1> QED
  BY <1>3, <1>4

LEMMA RecvStep == ASSUME IInv, Recv PROVE Tied' /\ Held'
<1>1. pc = "recv" /\ UNCHANGED <<agent, table, wasFull>>
  BY DEF Recv, table
<1>2. obj \in [Obj -> Info] /\ held \in Obj /\ obj[held] \in Info
  BY <1>1, TypeParts DEF IInv, Held, HoldsAgent, Receiving
<1>3. CASE UNCHANGED obj /\ (Done \/ Go("term"))
  <2>1. obj' = [obj EXCEPT ![held] = obj[held]] /\ Grows(obj[held], obj[held])
    BY <1>2, <1>3 DEF Grows
  <2> QED
    BY <1>1, <1>2, <1>3, <2>1, DataStep
<1>4. CASE Go("term") /\ \E e \in BOOLEAN : obj' = [obj EXCEPT ![held].err = @ \/ e]
  <2>1. PICK e \in BOOLEAN : obj' = [obj EXCEPT ![held].err = @ \/ e]
    BY <1>4
  <2> DEFINE b == obj[held].err \/ e
  <2>2. b \in BOOLEAN
    OBVIOUS
  <2>3. obj' = [obj EXCEPT ![held] = [obj[held] EXCEPT !.err = b]]
    BY <2>1
  <2> HIDE DEF b
  <2> QED
    BY <1>1, <1>2, <1>4, <2>2, <2>3, DataChange, DataStep
<1>5. CASE Go("copy") /\ obj' = [obj EXCEPT ![held].buf = TRUE]
  <2>1. obj' = [obj EXCEPT ![held] = [obj[held] EXCEPT !.buf = TRUE]]
    BY <1>5
  <2> QED
    BY <1>1, <1>2, <1>5, <2>1, DataChange, DataStep
<1> QED
  BY <1>3, <1>4, <1>5 DEF Recv

LEMMA CopyStep == ASSUME IInv, Copy PROVE Tied' /\ Held'
<1>1. pc = "copy" /\ UNCHANGED <<agent, table, wasFull>>
  BY DEF Copy, table
<1>2. obj \in [Obj -> Info] /\ held \in Obj /\ obj[held] \in Info
  BY <1>1, TypeParts DEF IInv, Held, HoldsAgent, Receiving
<1>3. CASE UNCHANGED obj /\ Go("copy")
  <2>1. obj' = [obj EXCEPT ![held] = obj[held]] /\ Grows(obj[held], obj[held])
    BY <1>2, <1>3 DEF Grows
  <2> QED
    BY <1>1, <1>2, <1>3, <2>1, DataStep
<1>4. CASE obj' = [obj EXCEPT ![held].down = "all"] /\ Go("fin")
  <2>1. obj' = [obj EXCEPT ![held] = [obj[held] EXCEPT !.down = "all"]]
    BY <1>4
  <2> QED
    BY <1>1, <1>2, <1>4, <2>1, DataChange, DataStep
<1>5. CASE obj' = [obj EXCEPT ![held].down = "part"] /\ Done
  <2>1. obj' = [obj EXCEPT ![held] = [obj[held] EXCEPT !.down = "part"]]
    BY <1>5
  <2> QED
    BY <1>1, <1>2, <1>5, <2>1, DataChange, DataStep
<1> QED
  BY <1>3, <1>4, <1>5 DEF Copy

LEMMA FinStep == ASSUME IInv, Fin PROVE Tied' /\ Held'
<1>1. pc = "fin" /\ UNCHANGED <<obj, agent, table, wasFull>>
  BY DEF Fin, Quiet
<1>2. Tied' /\ obj' = obj /\ Agents' = Agents /\ agent' = agent
      /\ \A h : Has(Table', h) <=> Has(Table, h)
  BY <1>1, QuietSame
<1>3. \A h \in Agents' : obj'[agent'[h]].share => obj'[agent'[h]].told
  BY <1>1, <1>2, ToldNow
<1>4. CASE Done
  <2>1. ~ (pc' \in Receiving \cup {"in", "drop", "push", "send"})
    BY <1>4 DEF Done, Receiving
  <2> QED
    BY <1>2, <1>3, <2>1, Resting
<1>5. CASE Go("share") /\ ~ obj[held].share
  <2>1. pc' = "share" /\ held' = held /\ mine' = mine /\ pc \in Receiving
    BY <1>1, <1>5 DEF Go, Receiving
  <2>2. held \in Obj /\ mine \in Hash
    BY <2>1 DEF IInv, Held, HoldsAgent
  <2>3. ~ obj[held].reuse
    BY <1>5, <2>2 DEF IInv, Tied, ReuseAnswered
  <2>4. HeldConnected'
    BY <1>2, <2>1 DEF IInv, Held, HeldConnected
  <2> QED
    BY <1>2, <1>3, <2>1, <2>2, <2>3, <2>4 DEF Held, HoldsAgent, PolledConnected,
       NotReusedYet, Answering, ShareTold, Promised, Receiving
<1> QED
  BY <1>4, <1>5 DEF Fin

LEMMA PushedValue ==
  ASSUME NEW o \in Info
  PROVE  /\ [o EXCEPT !.share = TRUE] \in Info /\ Pushed(o) \in Info
         /\ Grows(o, [o EXCEPT !.share = TRUE]) /\ Grows(o, Pushed(o))
         /\ [o EXCEPT !.share = TRUE].share /\ Pushed(o).told /\ Pushed(o).share = o.share
BY DEF Info, Grows, Pushed

LEMMA ShareStep == ASSUME IInv, Share PROVE Tied' /\ Held'
<1> DEFINE y == [obj[held] EXCEPT !.share = TRUE]
           x == IF Type[mine] = "whole" THEN y ELSE Pushed(y)
<1>1. /\ pc = "share" /\ UNCHANGED <<agent, table, wasFull>>
      /\ Go(IF Type[mine] = "range" THEN "reuse" ELSE "drop")
      /\ obj' = [obj EXCEPT ![held] = x]
  BY DEF Share, table
<1>2. obj \in [Obj -> Info] /\ held \in Obj /\ obj[held] \in Info
  BY <1>1, TypeParts DEF IInv, Held, HoldsAgent, Receiving
<1>3. y \in Info /\ Grows(obj[held], y) /\ y.share
  BY <1>2, PushedValue
<1> HIDE DEF y
<1>4. /\ x \in Info /\ Grows(y, x) /\ x.share
      /\ Type[mine] # "whole" => x.told
  <2>1. Grows(y, y)
    BY DEF Grows
  <2> QED
    BY <1>3, <2>1, PushedValue
<1> HIDE DEF x
<1>5. Grows(obj[held], x)
  BY <1>3, <1>4 DEF Grows
<1>6. pc \in Receiving /\ pc # "drop" /\ pc # "push"
  BY <1>1 DEF Receiving
<1>7. /\ held \in Obj /\ mine \in Hash /\ obj'[held] = x
      /\ \A o \in Obj : o # held => obj'[o] = obj[o]
      /\ Tied' /\ Agents' = Agents /\ agent' = agent
      /\ \A h \in Agents : agent[h] \in Obj
      /\ \A h : Has(Table', h) <=> Has(Table, h)
  BY <1>1, <1>4, <1>5, <1>6, HeldChange
<1>8. ~ x.reuse
  BY <1>1, <1>5 DEF IInv, Held, NotReusedYet, Grows
<1>9. held' = held /\ mine' = mine /\ pc' = IF Type[mine] = "range" THEN "reuse" ELSE "drop"
  BY <1>1 DEF Go
<1>10. HeldConnected'
  BY <1>6, <1>7, <1>9 DEF IInv, Held, HeldConnected
<1>11. \A h \in Agents : agent[h] # held /\ obj'[agent[h]].share => obj'[agent[h]].told
  BY <1>6, <1>7, ToldNow
<1>12. ShareTold'
  BY <1>4, <1>7, <1>9, <1>11 DEF ShareTold, Promised
<1> QED
  BY <1>4, <1>7, <1>8, <1>9, <1>10, <1>12 DEF Held, HoldsAgent, PolledConnected,
     NotReusedYet, Answering

LEMMA ReuseStep == ASSUME IInv, Reuse PROVE Tied' /\ Held'
<1> DEFINE x == [obj[held] EXCEPT !.reuse = TRUE]
<1>1. pc = "reuse" /\ UNCHANGED <<agent, table, wasFull>> /\ Done /\ obj' = [obj EXCEPT ![held] = x]
  BY DEF Reuse, table
<1>2. /\ obj \in [Obj -> Info] /\ held \in Obj /\ obj[held] \in Info
      /\ \A h \in Agents : agent[h] \in Obj
  BY <1>1, TypeParts DEF IInv, Held, HoldsAgent, Receiving
<1>3. obj[held].share /\ obj[held].told
  BY <1>1 DEF IInv, Held, Answering
<1>4. x \in Info /\ x.share = obj[held].share /\ x.told = obj[held].told /\ x.fd = obj[held].fd
  BY <1>2 DEF Info
<1> HIDE DEF x
<1>5. obj' \in [Obj -> Info] /\ obj'[held] = x /\ \A o \in Obj : o # held => obj'[o] = obj[o]
  BY <1>1, <1>2, <1>4
<1>6. SameTable
  <2>1. slot \in [1 .. MaxSock -> Slot]
    BY TypeSplit DEF IInv, TablesType
  <2> QED
    BY <1>1, <1>4, <1>5, <2>1 DEF SameTable, table
<1>7. /\ Agents' = Agents /\ agent' = agent /\ Table' \in Tables /\ Table \in Tables
      /\ Distinct' /\ FullSeen' /\ SlotsMatch'
      /\ \A h : Has(Table', h) <=> Has(Table, h)
  BY <1>6, SameTableTied, TypeParts DEF SameTable, IInv
<1>8. \A h : (IndexOf(Table', h) # {} <=> Has(Table, h)) /\ (IndexOf(Table, h) # {} <=> Has(Table, h))
  BY <1>7, IndexOfType
<1>9. \A h \in Agents : agent[h] = held => Has(Table, h)
  BY <1>1 DEF IInv, Held, HeldConnected, Receiving
<1>10. ReuseHasSlot'
  <2> SUFFICES ASSUME NEW h \in Agents, obj'[agent[h]].reuse
               PROVE  IndexOf(Table', h) # {} /\ obj'[agent[h]].told
    BY <1>7 DEF ReuseHasSlot
  <2>1. CASE agent[h] = held
    BY <1>3, <1>4, <1>5, <1>8, <1>9, <2>1
  <2>2. CASE agent[h] # held
    BY <1>2, <1>5, <1>8, <2>2 DEF IInv, Tied, ReuseHasSlot
  <2> QED
    BY <2>1, <2>2
<1>11. ReuseAnswered'
  BY <1>3, <1>4, <1>5 DEF IInv, Tied, ReuseAnswered
<1>12. \A h \in Agents' : obj'[agent'[h]].share => obj'[agent'[h]].told
  BY <1>1, <1>2, <1>3, <1>4, <1>5, <1>7, ToldNow
<1>13. ~ (pc' \in Receiving \cup {"in", "drop", "push", "send"})
  BY <1>1 DEF Done, Receiving
<1> QED
  BY <1>7, <1>10, <1>11, <1>12, <1>13, Resting DEF Tied

LEMMA PushStep == ASSUME IInv, Push PROVE Tied' /\ Held'
<1> DEFINE x == Pushed(obj[held])
<1>1. pc = "push" /\ UNCHANGED <<agent, table, wasFull>> /\ Done /\ obj' = [obj EXCEPT ![held] = x]
  BY DEF Push, table
<1>2. obj[held] \in Info
  BY <1>1, TypeParts DEF IInv, Held, HoldsAgent
<1>3. x \in Info /\ Grows(obj[held], x) /\ x.told
  BY <1>2, PushedValue
<1> HIDE DEF x
<1>4. /\ held \in Obj /\ obj'[held] = x
      /\ \A o \in Obj : o # held => obj'[o] = obj[o]
      /\ Tied' /\ Agents' = Agents /\ agent' = agent
      /\ \A h \in Agents : agent[h] \in Obj
  BY <1>1, <1>3, HeldChange
<1>5. \A h \in Agents' : obj'[agent'[h]].share => obj'[agent'[h]].told
  BY <1>3, <1>4 DEF IInv, Held, ShareTold, Promised
<1>6. ~ (pc' \in Receiving \cup {"in", "drop", "push", "send"})
  BY <1>1 DEF Done, Receiving
<1> QED
  BY <1>4, <1>5, <1>6, Resting

LEMMA OutStep == ASSUME IInv, Out PROVE Tied' /\ Held'
<1>1. pc = "out" /\ UNCHANGED <<obj, agent, table, wasFull>>
  BY DEF Out, Quiet
<1>2. Tied' /\ obj' = obj /\ Agents' = Agents /\ agent' = agent
  BY <1>1, QuietSame
<1>3. \A h \in Agents' : obj'[agent'[h]].share => obj'[agent'[h]].told
  BY <1>1, <1>2, ToldNow
<1>4. CASE Done \/ Go("term")
  <2>1. ~ (pc' \in Receiving \cup {"in", "drop", "push", "send"})
    BY <1>4 DEF Done, Go, Receiving
  <2> QED
    BY <1>2, <1>3, <2>1, Resting
<1>5. CASE pc' = "send" /\ slot[idx].hash \in Agents /\ mine' = slot[idx].hash /\ held' = agent[mine']
  <2>1. held' \in Obj /\ mine' \in Hash
    BY <1>5, TypeParts DEF IInv
  <2> QED
    BY <1>2, <1>3, <1>5, <2>1 DEF Held, HoldsAgent, HeldConnected, PolledConnected,
       NotReusedYet, Answering, ShareTold, Promised, Receiving
<1> QED
  BY <1>4, <1>5 DEF Out

LEMMA SendStep == ASSUME IInv, Send PROVE Tied' /\ Held'
<1>1. pc = "send" /\ UNCHANGED <<agent, table, wasFull>> /\ (Done \/ Go("term") \/ Go("mark"))
      /\ (UNCHANGED obj \/ obj' = [obj EXCEPT ![held] = [obj[held] EXCEPT !.reuse = FALSE]])
  BY DEF Send, table
<1>2. obj \in [Obj -> Info] /\ held \in Obj /\ obj[held] \in Info
  BY <1>1, TypeParts DEF IInv, Held, HoldsAgent
<1>3. \E x \in Info : /\ Grows(obj[held], x) /\ x.share = obj[held].share
                      /\ obj' = [obj EXCEPT ![held] = x]
  <2>1. CASE UNCHANGED obj
    <3>1. obj' = [obj EXCEPT ![held] = obj[held]] /\ Grows(obj[held], obj[held])
      BY <1>2, <2>1 DEF Grows
    <3> QED
      BY <1>2, <3>1
  <2>2. CASE obj' = [obj EXCEPT ![held] = [obj[held] EXCEPT !.reuse = FALSE]]
    <3> DEFINE x == [obj[held] EXCEPT !.reuse = FALSE]
    <3>1. x \in Info /\ Grows(obj[held], x) /\ x.share = obj[held].share
      BY <1>2 DEF Info, Grows
    <3> QED
      BY <2>2, <3>1
  <2> QED
    BY <1>1, <2>1, <2>2
<1>4. PICK x \in Info : /\ Grows(obj[held], x) /\ x.share = obj[held].share
                       /\ obj' = [obj EXCEPT ![held] = x]
  BY <1>3
<1>5. /\ obj'[held] = x
      /\ \A o \in Obj : o # held => obj'[o] = obj[o]
      /\ Tied' /\ Agents' = Agents /\ agent' = agent
      /\ \A h \in Agents : agent[h] \in Obj
  BY <1>1, <1>4, HeldChange
<1>6. \A h \in Agents' : obj'[agent'[h]].share => obj'[agent'[h]].told
  BY <1>1, <1>4, <1>5, ToldNow DEF Grows
<1>7. ~ (pc' \in Receiving \cup {"in", "drop", "push", "send"})
  BY <1>1 DEF Done, Go, Receiving
<1> QED
  BY <1>5, <1>6, <1>7, Resting

\* The events of a connection change, not whose it is.
LEMMA EventsChange ==
  ASSUME IInv, NEW i \in 1 .. MaxSock, slot' = [slot EXCEPT ![i].ev = {"in"}]
  PROVE  /\ slot' \in [1 .. MaxSock -> Slot]
         /\ \A j \in 1 .. MaxSock : slot'[j].hash = slot[j].hash /\ slot'[j].fd = slot[j].fd
<1>1. slot \in [1 .. MaxSock -> Slot]
  BY TypeSplit DEF IInv, TablesType
<1> DEFINE s == [slot[i] EXCEPT !.ev = {"in"}]
<1>2. s \in Slot /\ s.hash = slot[i].hash /\ s.fd = slot[i].fd
  BY <1>1 DEF Slot
<1>3. slot' = [slot EXCEPT ![i] = s]
  OBVIOUS
<1> HIDE DEF s
<1> QED
  BY <1>1, <1>2, <1>3

LEMMA MarkStep == ASSUME IInv, Mark PROVE Tied' /\ Held'
<1>1. /\ pc = "mark" /\ UNCHANGED <<obj, agent, n, wasFull>> /\ (Done \/ Go("term"))
      /\ slot' = [slot EXCEPT ![idx].ev = {"in"}]
  BY DEF Mark
<1>2. idx \in 1 .. MaxSock /\ obj \in [Obj -> Info]
  BY TypeSplit DEF IInv, ThreadType, TablesType
<1>3. SameTable
  BY <1>1, <1>2, EventsChange DEF SameTable
<1>4. \A o \in Obj : Grows(obj[o], obj'[o])
  BY <1>1 DEF Grows
<1>5. Tied' /\ Agents' = Agents
  BY <1>3, <1>4, SameTableTied, GrowsTied
<1>6. \A h \in Agents' : obj'[agent'[h]].share => obj'[agent'[h]].told
  BY <1>1, <1>5, ToldNow
<1>7. ~ (pc' \in Receiving \cup {"in", "drop", "push", "send"})
  BY <1>1 DEF Done, Go, Receiving
<1> QED
  BY <1>5, <1>6, <1>7, Resting

LEMMA QuietEnd ==
  ASSUME IInv, ConnectFail \/ Term
  PROVE  Tied' /\ Held'
<1>1. /\ pc \in {"fail", "err", "term"} /\ UNCHANGED <<obj, agent, table, wasFull>>
      /\ pc' \in {"killOnly", "kill", "close", "poll"}
  BY DEF ConnectFail, Term, Quiet, Go, Done
<1>2. Tied' /\ obj' = obj /\ Agents' = Agents /\ agent' = agent
  BY <1>1, QuietSame
<1>3. \A h \in Agents' : obj'[agent'[h]].share => obj'[agent'[h]].told
  BY <1>1, <1>2, ToldNow
<1>4. ~ (pc' \in Receiving \cup {"in", "drop", "push", "send"})
  BY <1>1 DEF Receiving
<1> QED
  BY <1>2, <1>3, <1>4, Resting

LEMMA KillStep == ASSUME IInv, Kill PROVE Tied' /\ Held'
<1>1. /\ pc \in {"kill", "killOnly"} /\ pc' \in {"close", "poll"}
      /\ \/ mine \in Agents /\ Terminate(mine, FALSE)
         \/ UNCHANGED <<obj, agent, table, wasFull>>
  BY DEF Kill, Done, Go
<1>2. ~ (pc' \in Receiving \cup {"in", "drop", "push", "send"}) /\ pc # "drop" /\ pc # "push"
      /\ ~ (pc \in Receiving \cup {"drop", "push"})
  BY <1>1 DEF Receiving
<1>3. CASE UNCHANGED <<obj, agent, table, wasFull>>
  <2>1. Tied' /\ obj' = obj /\ Agents' = Agents /\ agent' = agent
    BY <1>3, QuietSame
  <2>2. \A h \in Agents' : obj'[agent'[h]].share => obj'[agent'[h]].told
    BY <1>2, <2>1, ToldNow
  <2> QED
    BY <1>2, <2>1, <2>2, Resting
<1>4. CASE mine \in Hash /\ OneHash(mine)
  <2>1. Tied'
    BY <1>4, OneHashTied
  <2>2. \A h \in Agents' : obj'[agent'[h]].share => obj'[agent'[h]].told
    BY <1>2, <1>4, OneHashShareTold
  <2> QED
    BY <1>2, <2>1, <2>2, Resting
<1> QED
  BY <1>1, <1>2, <1>3, <1>4, TerminateStep, TypeParts DEF IInv

LEMMA DropStep == ASSUME IInv, DropConnection PROVE Tied' /\ Held'
<1>1. /\ pc = "drop" /\ (IF Type[mine] = "whole" THEN Go("push") ELSE Done)
      /\ \/ mine \in Agents /\ Terminate(mine, TRUE)
         \/ UNCHANGED <<obj, agent, table, wasFull>>
  BY DEF DropConnection
<1>2. /\ held \in Obj /\ mine \in Hash /\ obj[held].share /\ ~ obj[held].reuse
      /\ Type[mine] # "whole" => obj[held].told
  BY <1>1 DEF IInv, Held, HoldsAgent, Answering, NotReusedYet
<1>3. /\ Tied' /\ ~ obj'[held].reuse
      /\ Type[mine] # "whole" => obj'[held].told
      /\ \A h \in Agents' : obj'[agent'[h]].share => obj'[agent'[h]].told \/ held = agent'[h]
  <2>1. CASE UNCHANGED <<obj, agent, table, wasFull>>
    <3>1. Tied' /\ obj' = obj /\ Agents' = Agents /\ agent' = agent
      BY <2>1, QuietSame
    <3>2. \A h \in Agents' : obj'[agent'[h]].share => obj'[agent'[h]].told \/ held = agent'[h]
      BY <3>1 DEF IInv, Held, ShareTold, Promised
    <3> QED
      BY <1>2, <3>1, <3>2
  <2>2. CASE OneHash(mine)
    <3>1. Tied'
      BY <1>2, <2>2, OneHashTied
    <3>2. ~ obj'[held].reuse /\ (obj[held].told => obj'[held].told)
      BY <1>1, <1>2, <2>2 DEF OneHash
    <3>3. \A h \in Agents' : obj'[agent'[h]].share => obj'[agent'[h]].told \/ held = agent'[h]
      BY <1>2, <2>2, OneHashShareTold
    <3> QED
      BY <1>2, <3>1, <3>2, <3>3
  <2> QED
    BY <1>1, <2>1, <2>2, TerminateStep
<1>4. CASE Go("push")
  <2>1. pc' = "push" /\ held' = held /\ mine' = mine
    BY <1>4 DEF Go
  <2> QED
    BY <1>2, <1>3, <2>1 DEF Held, HoldsAgent, HeldConnected, PolledConnected, NotReusedYet,
       Answering, ShareTold, Promised, Receiving
<1>5. CASE Done /\ Type[mine] # "whole"
  <2>1. ~ (pc' \in Receiving \cup {"in", "drop", "push", "send"})
    BY <1>5 DEF Done, Receiving
  <2>2. \A h \in Agents' : obj'[agent'[h]].share => obj'[agent'[h]].told
    BY <1>3, <1>5
  <2> QED
    BY <1>3, <2>1, <2>2, Resting
<1> QED
  BY <1>1, <1>4, <1>5

LEMMA CloseStep == ASSUME IInv, Close PROVE Tied' /\ Held' /\ TablesType'
<1> DEFINE u == Closed(Table, idx)
           h == slot[idx].hash
           gone == idx <= n /\ n < MaxSock
<1>1. /\ pc = "close" /\ Done /\ agent' = agent
      /\ slot' = u.slot /\ n' = u.n /\ wasFull' = (wasFull \/ u.n = MaxSock)
      /\ obj' = IF gone /\ h \in Agents THEN [obj EXCEPT ![agent[h]].reuse = FALSE] ELSE obj
  BY DEF Close, Become
<1>2. /\ obj \in [Obj -> Info] /\ agent \in [Hash -> Obj \cup {NoObj}]
      /\ Table \in Tables /\ Table.slot = slot /\ Table.n = n /\ n \in 0 .. MaxSock
      /\ wasFull \in BOOLEAN /\ \A g \in Agents : g \in Hash /\ agent[g] \in Obj
      /\ idx \in 1 .. MaxSock /\ MaxSock \in Nat
  BY TypeParts, TypeSplit, Basics DEF IInv, ThreadType
<1>3. /\ u \in Tables /\ Keeps(u, Table, h) /\ Within(u, Table)
      /\ idx > n \/ n = MaxSock => u = Table
  BY <1>2, ClosedValue, ClosedIndexKeeps, ClosedWithin
<1> HIDE DEF u
<1>4. gone \/ u = Table
  BY <1>2, <1>3
<1>5. Table' = u
  BY <1>1, <1>3 DEF Table, Tables
<1>6. /\ obj' \in [Obj -> Info] /\ \A o \in Obj : Grows(obj[o], obj'[o]) /\ obj'[o].share = obj[o].share
      /\ gone /\ h \in Agents => ~ obj'[agent[h]].reuse
  <2>1. CASE gone /\ h \in Agents
    <3> DEFINE x == [obj[agent[h]] EXCEPT !.reuse = FALSE]
    <3>1. agent[h] \in Obj /\ obj[agent[h]] \in Info
      BY <1>2, <2>1
    <3>2. x \in Info /\ Grows(obj[agent[h]], x) /\ x.share = obj[agent[h]].share /\ ~ x.reuse
      BY <3>1 DEF Info, Grows
    <3>3. obj' = [obj EXCEPT ![agent[h]] = x]
      BY <1>1, <2>1
    <3> HIDE DEF x
    <3>4. /\ obj' \in [Obj -> Info] /\ obj'[agent[h]] = x
          /\ \A o \in Obj : o # agent[h] => obj'[o] = obj[o]
      BY <1>2, <3>1, <3>2, <3>3
    <3> QED
      BY <3>2, <3>4 DEF Grows
  <2>2. CASE ~ (gone /\ h \in Agents)
    BY <1>1, <1>2, <2>2 DEF Grows
  <2> QED
    BY <2>1, <2>2
<1>7. Agents' = Agents
  BY <1>1 DEF Agents
<1>8. Distinct' /\ FullSeen'
  BY <1>1, <1>7 DEF IInv, Tied, Distinct, FullSeen
<1>9. SlotsMatch'
  <2> SUFFICES ASSUME ~wasFull' PROVE Matched'
    BY NextMatchedSlots
  <2>1. Unique(Table) /\ \A i \in 1 .. n : slot[i].hash \in Agents
                                         /\ slot[i].fd = obj[agent[slot[i].hash]].fd
    BY <1>1, MatchedSlots DEF IInv, Tied, Matched
  <2>2. \A j \in 1 .. n' : \E i \in 1 .. n : slot'[j] = slot[i]
    BY <1>1, <1>2, <1>3 DEF Within
  <2>3. Unique(Table')
    BY <1>3, <1>5, <2>1 DEF Within
  <2> QED
    BY <1>1, <1>2, <1>6, <1>7, <2>1, <2>2, <2>3 DEF Matched, Grows
<1>10. ReuseHasSlot'
  <2> SUFFICES ASSUME NEW g \in Agents, obj'[agent[g]].reuse
               PROVE  IndexOf(Table', g) # {} /\ obj'[agent[g]].told
    BY <1>1, <1>7 DEF ReuseHasSlot
  <2>1. obj[agent[g]].reuse /\ (obj[agent[g]].told => obj'[agent[g]].told)
    BY <1>2, <1>6 DEF Grows
  <2>2. Has(Table, g) /\ obj[agent[g]].told
    BY <1>2, <2>1, IndexOfType DEF IInv, Tied, ReuseHasSlot
  <2>3. Has(u, g)
    BY <1>3, <1>4, <1>6, <2>2 DEF Keeps
  <2> QED
    BY <1>3, <1>5, <2>1, <2>2, <2>3, IndexOfType
<1>11. ReuseAnswered'
  BY <1>6 DEF IInv, Tied, ReuseAnswered, Grows
<1>12. Held'
  <2>1. \A g \in Agents' : obj'[agent'[g]].share => obj'[agent'[g]].told
    BY <1>1, <1>2, <1>6, <1>7, ToldNow DEF Grows
  <2>2. ~ (pc' \in Receiving \cup {"in", "drop", "push", "send"})
    BY <1>1 DEF Done, Receiving
  <2> QED
    BY <2>1, <2>2, Resting
<1>13. TablesType'
  BY <1>1, <1>2, <1>3, <1>6 DEF TablesType, Tables
<1> QED
  BY <1>8, <1>9, <1>10, <1>11, <1>12, <1>13 DEF Tied

\* Nothing that is shared changes, and Routine does nothing.
LEMMA NothingHappens ==
  ASSUME IInv, UNCHANGED <<obj, agent, table, wasFull>>, UNCHANGED thread
  PROVE  Tied' /\ Held' /\ TablesType'
<1>1. /\ SameTable /\ Tied' /\ obj' = obj /\ slot' = slot /\ Agents' = Agents /\ agent' = agent
      /\ \A h : Has(Table', h) <=> Has(Table, h)
  BY QuietSame
<1>2. pc' = pc /\ idx' = idx /\ held' = held /\ mine' = mine
  BY DEF thread
<1>3. HeldConnected' /\ PolledConnected'
  BY <1>1, <1>2 DEF IInv, Held, HeldConnected, PolledConnected
<1> QED
  BY <1>1, <1>2, <1>3, SameTableTied DEF IInv, Held, HoldsAgent, NotReusedYet, Answering, ShareTold, Promised

LEMMA AddReusedStep == ASSUME IInv, NEW h \in Hash, AddReused(h) PROVE Tied' /\ Held' /\ TablesType'
<1> DEFINE a == agent[h]
           i == First(IndexOf(Table, h))
           x == [obj[a] EXCEPT !.down = "none", !.share = FALSE, !.reuse = FALSE,
                               !.times = 0, !.told = FALSE]
<1>1. h \in Agents /\ obj[a].reuse /\ UNCHANGED <<agent, n, wasFull>> /\ UNCHANGED thread
  BY DEF AddReused
<1>2. CASE UNCHANGED <<obj, slot>>
  BY <1>1, <1>2, NothingHappens DEF table
<1>3. CASE /\ IndexOf(Table, h) # {} /\ slot' = [slot EXCEPT ![i].ev = {"in"}]
           /\ obj' = [obj EXCEPT ![a] = x]
  <2>1. /\ obj \in [Obj -> Info] /\ Table \in Tables /\ Table.n = n /\ n \in 0 .. MaxSock
        /\ \A g \in Agents : g \in Hash /\ agent[g] \in Obj
    BY TypeParts DEF IInv
  <2>2. i \in 1 .. MaxSock
    BY <1>3, <2>1, IndexOfType, Basics
  <2>3. a \in Obj /\ obj[a] \in Info
    BY <1>1, <2>1
  <2>4. x \in Info /\ ~ x.share /\ ~ x.reuse /\ x.fd = obj[a].fd
    <3>1. 0 \in 0 .. MaxRetry
      BY Basics
    <3> QED
      BY <2>3, <3>1 DEF Info
  <2> HIDE DEF x
  <2>5. obj' \in [Obj -> Info] /\ obj'[a] = x /\ \A o \in Obj : o # a => obj'[o] = obj[o]
    BY <1>3, <2>1, <2>3, <2>4
  <2>6. SameTable
    BY <1>1, <1>3, <2>2, <2>4, <2>5, EventsChange DEF SameTable
  <2>7. /\ TablesType' /\ Agents' = Agents /\ agent' = agent /\ Table' \in Tables
        /\ Distinct' /\ FullSeen' /\ SlotsMatch'
        /\ \A g : Has(Table', g) <=> Has(Table, g)
        /\ \A j \in 1 .. MaxSock : slot'[j].hash = slot[j].hash
    BY <2>6, SameTableTied DEF SameTable
  <2>8. ReuseHasSlot'
    <3> SUFFICES ASSUME NEW g \in Agents, obj'[agent[g]].reuse
                 PROVE  IndexOf(Table', g) # {} /\ obj'[agent[g]].told
      BY <2>7 DEF ReuseHasSlot
    <3>1. agent[g] # a
      BY <2>4, <2>5
    <3>2. obj[agent[g]].reuse /\ obj'[agent[g]].told = obj[agent[g]].told
      BY <2>1, <2>5, <3>1
    <3>3. Has(Table, g) /\ obj[agent[g]].told
      BY <2>1, <3>2, IndexOfType DEF IInv, Tied, ReuseHasSlot
    <3> QED
      BY <2>7, <3>2, <3>3, IndexOfType
  <2>9. ReuseAnswered'
    BY <2>4, <2>5 DEF IInv, Tied, ReuseAnswered
  <2>10. pc' = pc /\ idx' = idx /\ held' = held /\ mine' = mine /\ idx \in 1 .. MaxSock
    BY <1>1 DEF thread, IInv, TypeOK
  <2>11. HoldsAgent' /\ HeldConnected' /\ PolledConnected'
    BY <2>7, <2>10 DEF IInv, Held, HoldsAgent, HeldConnected, PolledConnected
  <2>12. pc \in {"share", "reuse", "drop", "push"} => held # a /\ held \in Obj
    BY <1>1 DEF IInv, Held, NotReusedYet, HoldsAgent, Receiving
  <2>13. NotReusedYet' /\ Answering'
    BY <2>5, <2>10, <2>12 DEF IInv, Held, NotReusedYet, Answering
  <2>14. ShareTold'
    BY <2>1, <2>4, <2>5, <2>7, <2>10 DEF IInv, Held, ShareTold, Promised
  <2> QED
    BY <2>7, <2>8, <2>9, <2>11, <2>13, <2>14 DEF Tied, Held
<1> QED
  BY <1>2, <1>3, Zenon DEF AddReused

-----------------------------------------------------------------------------
(* The invariant.                                                          *)

LEMMA TerminateUb ==
  ASSUME NEW h, NEW initiative, Terminate(h, initiative)
  PROVE  ub' = ub \/ ub' = "overflow"
BY DEF Terminate

LEMMA RestStep == ASSUME TypeOK, Routine \/ Others PROVE RestType'
<1>1. RestType /\ idx \in 1 .. MaxSock
  BY TypeSplit DEF ThreadType
<1>2. CASE Routine
  <2>1. requests' = requests
    BY <1>2 DEF Routine, Working, Sweep, Poll, In, Recv, Copy, Fin, Share, Reuse,
       DropConnection, Push, Out, Send, Mark, ConnectFail, Term, Kill, Close, Quiet
  <2>2. flag' = flag \/ flag' = [flag EXCEPT ![idx] = TRUE]
    BY <1>2 DEF Routine, Working, Sweep, Poll, In, Recv, Copy, Fin, Share, Reuse,
       DropConnection, Push, Out, Send, Mark, ConnectFail, Term, Kill, Close, Quiet
  <2>3. ub' \in {ub, "overflow", "null"}
    BY <1>2, TerminateUb DEF Routine, Working, Sweep, Poll, In, Recv, Copy, Fin, Share, Reuse,
       DropConnection, Push, Out, Send, Mark, ConnectFail, Term, Kill, Close, Quiet
  <2> QED
    BY <1>1, <2>1, <2>2, <2>3 DEF RestType
<1>3. ASSUME NEW h \in Hash, AddReused(h) PROVE RestType'
  <2>1. requests' \in 0 .. MaxRequests
    BY <1>1, <1>3, Basics DEF AddReused, Requested, RestType
  <2>2. flag' = flag \/ flag' = [flag EXCEPT ![First(IndexOf(Table, h))] = TRUE]
    BY <1>3 DEF AddReused
  <2>3. ub' \in {ub, "index"}
    BY <1>3 DEF AddReused
  <2> QED
    BY <1>1, <2>1, <2>2, <2>3 DEF RestType
<1>4. ASSUME NEW h \in Hash, AddTask(h) PROVE RestType'
  <2>1. requests' \in 0 .. MaxRequests
    BY <1>1, <1>4, Basics DEF AddTask, Requested, RestType
  <2>2. flag' = flag /\ ub' = ub
    BY <1>4 DEF AddTask
  <2> QED
    BY <1>1, <2>1, <2>2 DEF RestType
<1>5. ASSUME NEW h \in Hash, DelTask(h) PROVE RestType'
  <2>1. flag' = flag /\ requests' = requests
    BY <1>5 DEF DelTask
  <2>2. ub' \in {ub, "overflow"}
    BY <1>5, TerminateUb DEF DelTask
  <2> QED
    BY <1>1, <2>1, <2>2 DEF RestType
<1> QED
  BY <1>2, <1>3, <1>4, <1>5 DEF Others

\* What a step changes by terminating or adding a request.
LEMMA OneHashAll ==
  ASSUME IInv, NEW h \in Hash, OneHash(h), UNCHANGED thread
  PROVE  Tied' /\ Held' /\ TablesType'
BY OneHashTied, OneHashHeld, OneHashType

\* What the steps of Routine that change an object or the events leave of the tables.
LEMMA LocalTables ==
  ASSUME IInv, Routine
  PROVE  TablesType'
<1>1. TablesType /\ ThreadType /\ IInv
  BY TypeSplit DEF IInv
<1>2. ASSUME UNCHANGED <<obj, agent, table, wasFull>> PROVE TablesType'
  BY <1>1, <1>2 DEF TablesType, table
<1>3. ASSUME NEW x \in Info, obj' = [obj EXCEPT ![held] = x], UNCHANGED <<agent, table, wasFull>>
      PROVE  TablesType'
  BY <1>1, <1>3 DEF TablesType, table
<1>4. pc \in Receiving \cup {"drop", "push", "send"} => obj[held] \in Info
  BY <1>1 DEF TablesType, IInv, Held, HoldsAgent
<1>5. ASSUME NEW h \in Agents, NEW i \in BOOLEAN, Terminate(h, i),
             pc \in Receiving \cup {"drop", "push"} => i
      PROVE  TablesType'
  <2>1. OneHash(h) \/ UNCHANGED <<obj, agent, table, wasFull>>
    BY <1>5, TerminateStep
  <2> QED
    BY <1>2, <2>1, OneHashType
<1>6. CASE \E h \in Hash : Sweep(h)
  BY <1>5, <1>6 DEF Sweep, Receiving
<1>7. CASE (\E i \in 1 .. MaxSock : Poll(i)) \/ In \/ Fin \/ Out \/ ConnectFail \/ Term
  BY <1>2, <1>7 DEF Poll, In, Fin, Out, ConnectFail, Term, Quiet
<1>8. CASE Recv
  <2>1. obj[held] \in Info /\ UNCHANGED <<agent, table, wasFull>>
    BY <1>4, <1>8 DEF Recv, Receiving, table
  <2>2. CASE UNCHANGED obj
    BY <1>2, <2>1, <2>2
  <2>3. CASE obj' = [obj EXCEPT ![held].buf = TRUE]
    BY <1>3, <2>1, <2>3, DataChange
  <2>4. ASSUME NEW e \in BOOLEAN, obj' = [obj EXCEPT ![held].err = @ \/ e] PROVE TablesType'
    <3> DEFINE b == obj[held].err \/ e
    <3>1. b \in BOOLEAN
      OBVIOUS
    <3>2. obj' = [obj EXCEPT ![held] = [obj[held] EXCEPT !.err = b]]
      BY <2>4
    <3> HIDE DEF b
    <3> QED
      BY <1>3, <2>1, <3>1, <3>2, DataChange
  <2> QED
    BY <1>8, <2>2, <2>3, <2>4 DEF Recv
<1>9. CASE Copy
  <2>1. obj[held] \in Info /\ UNCHANGED <<agent, table, wasFull>>
    BY <1>4, <1>9 DEF Copy, Receiving, table
  <2>2. \A d \in {"part", "all"} : obj' = [obj EXCEPT ![held].down = d] => TablesType'
    <3> TAKE d \in {"part", "all"}
    <3> HAVE obj' = [obj EXCEPT ![held].down = d]
    <3> QED
      BY <1>3, <2>1, DataChange
  <2> QED
    BY <1>2, <1>9, <2>1, <2>2 DEF Copy
<1>10. CASE Share
  <2> DEFINE x == IF Type[mine] = "whole" THEN [obj[held] EXCEPT !.share = TRUE]
                  ELSE Pushed([obj[held] EXCEPT !.share = TRUE])
  <2>1. obj[held] \in Info /\ UNCHANGED <<agent, table, wasFull>> /\ obj' = [obj EXCEPT ![held] = x]
    BY <1>4, <1>10 DEF Share, Receiving, table
  <2>2. x \in Info
    BY <2>1, PushedValue
  <2> HIDE DEF x
  <2> QED
    BY <1>3, <2>1, <2>2
<1>11. CASE Reuse
  <2>1. obj[held] \in Info /\ UNCHANGED <<agent, table, wasFull>>
    BY <1>4, <1>11 DEF Reuse, Receiving, table
  <2>2. obj' = [obj EXCEPT ![held] = [obj[held] EXCEPT !.reuse = TRUE]]
    BY <1>11 DEF Reuse
  <2>3. [obj[held] EXCEPT !.reuse = TRUE] \in Info
    BY <2>1 DEF Info
  <2> QED
    BY <1>3, <2>1, <2>2, <2>3
<1>12. CASE DropConnection
  BY <1>2, <1>5, <1>12 DEF DropConnection
<1>13. CASE Push
  <2>1. obj[held] \in Info /\ UNCHANGED <<agent, table, wasFull>>
        /\ obj' = [obj EXCEPT ![held] = Pushed(obj[held])]
    BY <1>4, <1>13 DEF Push, table
  <2> QED
    BY <1>3, <2>1, PushedValue
<1>14. CASE Send
  <2>1. obj[held] \in Info /\ UNCHANGED <<agent, table, wasFull>>
    BY <1>4, <1>14 DEF Send, table
  <2>2. UNCHANGED obj \/ obj' = [obj EXCEPT ![held] = [obj[held] EXCEPT !.reuse = FALSE]]
    BY <1>14 DEF Send
  <2>3. [obj[held] EXCEPT !.reuse = FALSE] \in Info
    BY <2>1 DEF Info
  <2> QED
    BY <1>2, <1>3, <2>1, <2>2, <2>3
<1>15. CASE Mark
  <2>1. /\ UNCHANGED <<obj, agent, n, wasFull>> /\ idx \in 1 .. MaxSock
        /\ slot' = [slot EXCEPT ![idx].ev = {"in"}]
    BY <1>1, <1>15 DEF Mark, ThreadType
  <2> QED
    BY <1>1, <2>1, EventsChange DEF TablesType
<1>16. CASE Kill
  BY <1>2, <1>5, <1>16 DEF Kill, Receiving
<1>17. CASE Close
  BY <1>17, CloseStep
<1> QED
  BY <1>6, <1>7, <1>8, <1>9, <1>10, <1>11, <1>12, <1>13, <1>14, <1>15, <1>16, <1>17
     DEF Routine, Working

LEMMA RoutineStep == ASSUME IInv, Routine PROVE Tied' /\ Held'
<1>1. ASSUME NEW h \in Hash, Sweep(h) PROVE Tied' /\ Held'
  <2>1. /\ h \in Agents /\ Terminate(h, FALSE) /\ UNCHANGED thread
        /\ ~ (pc \in Receiving \cup {"drop", "push"})
    BY <1>1 DEF Sweep, Receiving
  <2>2. OneHash(h) \/ UNCHANGED <<obj, agent, table, wasFull>>
    BY <2>1, TerminateStep
  <2> QED
    BY <2>1, <2>2, OneHashAll, NothingHappens
<1> QED
  BY <1>1, PollStep, InStep, RecvStep, CopyStep, FinStep, ShareStep, ReuseStep, DropStep, PushStep,
     OutStep, SendStep, MarkStep, QuietEnd, KillStep, CloseStep DEF Routine, Working

LEMMA OthersStep == ASSUME IInv, Others PROVE Tied' /\ Held' /\ TablesType' /\ UNCHANGED thread
<1>1. ASSUME NEW h \in Hash, AddReused(h) PROVE Tied' /\ Held' /\ TablesType' /\ UNCHANGED thread
  BY <1>1, AddReusedStep DEF AddReused
<1>2. ASSUME NEW h \in Hash, AddTask(h) PROVE Tied' /\ Held' /\ TablesType' /\ UNCHANGED thread
  BY <1>2, AddTaskStep, OneHashAll DEF AddTask
<1>3. ASSUME NEW h \in Hash, DelTask(h) PROVE Tied' /\ Held' /\ TablesType' /\ UNCHANGED thread
  <2>1. h \in Agents /\ Terminate(h, TRUE) /\ UNCHANGED thread
    BY <1>3 DEF DelTask
  <2>2. OneHash(h) \/ UNCHANGED <<obj, agent, table, wasFull>>
    BY <2>1, TerminateStep
  <2> QED
    BY <2>1, <2>2, OneHashAll, NothingHappens
<1> QED
  BY <1>1, <1>2, <1>3 DEF Others

LEMMA InitInv == Init => IInv
<1> SUFFICES ASSUME Init PROVE IInv
  OBVIOUS
<1>1. Agents = {} /\ n = 0 /\ pc = "poll" /\ \A o \in Obj : ~ obj[o].reuse
  BY FreshType DEF Init, Agents
<1>2. TypeOK
  <2>1. ThreadType
    <3>1. 1 \in 1 .. MaxSock
      BY Basics
    <3> QED
      BY <3>1 DEF Init, ThreadType
  <2>2. TablesType
    <3>1. obj \in [Obj -> Info] /\ agent \in [Hash -> Obj \cup {NoObj}]
      <4>1. obj = [o \in Obj |-> Fresh] /\ agent = [h \in Hash |-> NoObj]
        BY DEF Init
      <4> QED
        BY <4>1, FreshType
    <3>2. slot \in [1 .. MaxSock -> Slot]
      <4>1. slot = [i \in 1 .. MaxSock |-> NoSlot]
        BY DEF Init
      <4> QED
        BY <4>1, NoSlotType
    <3>3. n \in 0 .. MaxSock /\ wasFull \in BOOLEAN
      <4>1. n = 0 /\ 0 \in 0 .. MaxSock
        BY Basics DEF Init
      <4>2. wasFull \in BOOLEAN
        BY Zenon DEF Init
      <4> QED
        BY <4>1, <4>2
    <3> QED
      BY <3>1, <3>2, <3>3 DEF TablesType
  <2>3. RestType
    BY Basics DEF Init, RestType
  <2> QED
    BY <2>1, <2>2, <2>3, TypeSplit
<1>3. Tied
  <2>1. 1 .. n = {} /\ n # MaxSock
    BY <1>1, Basics
  <2> QED
    BY <1>1, <2>1 DEF Tied, Distinct, FullSeen, SlotsMatch, Live, ReuseHasSlot, ReuseAnswered
<1>4. Held
  BY <1>1 DEF Held, HoldsAgent, HeldConnected, PolledConnected, NotReusedYet, Answering,
     ShareTold, Receiving
<1> QED
  BY <1>2, <1>3, <1>4 DEF IInv

LEMMA NextInv == IInv /\ [Next]_vars => IInv'
<1> SUFFICES ASSUME IInv, [Next]_vars PROVE IInv'
  OBVIOUS
<1>1. CASE Routine
  BY <1>1, RoutineThreadType, RoutineStep, LocalTables, RestStep, NextTypeSplit DEF IInv
<1>2. CASE Others
  <2>1. ThreadType'
    BY <1>2, OthersStep, ThreadSteps DEF IInv
  <2> QED
    BY <1>2, <2>1, OthersStep, RestStep, NextTypeSplit DEF IInv
<1>3. CASE UNCHANGED vars
  <2>1. UNCHANGED <<obj, agent, table, wasFull>> /\ UNCHANGED thread /\ UNCHANGED <<flag, ub, requests>>
    BY <1>3 DEF vars
  <2>2. ThreadType' /\ RestType'
    BY <2>1, ThreadSteps, TypeSplit DEF IInv, RestType
  <2> QED
    BY <2>1, <2>2, NothingHappens, NextTypeSplit DEF IInv
<1> QED
  BY <1>1, <1>2, <1>3 DEF Next, Idle

\* The inductive invariant holds in every behaviour.
THEOREM Invariance == Spec => []IInv
<1> QED
  BY InitInv, NextInv, PTL DEF Spec

\* Every variable keeps its type: in particular no request is sent again more often
\* than RETRY_CONNECT_TIMES, and a new request always finds an object.
THEOREM TypeCorrect == Spec => []TypeOK
<1>1. IInv => TypeOK
  BY DEF IInv
<1> QED
  BY <1>1, Invariance, PTL

\* Every connection of the table belongs to one request in progress, to which it belongs,
\* as long as the table was never full.
THEOREM TablesAgree == Spec => []SlotsMatch
<1>1. IInv => SlotsMatch
  BY DEF IInv, Tied
<1> QED
  BY <1>1, Invariance, PTL

\* AddRange finds the connection it uses again.
THEOREM ReuseFindsSlot == Spec => []ReuseHasSlot
<1>1. IInv => ReuseHasSlot
  BY DEF IInv, Tied
<1> QED
  BY <1>1, Invariance, PTL

-----------------------------------------------------------------------------
(* No request is lost.                                                     *)

\* No entry goes without a message, pushed or about to be.
LEMMA OneHashAnswers ==
  ASSUME IInv, NEW h \in Hash, OneHash(h), UNCHANGED thread \/ ~ (pc \in {"drop", "push"}),
         NEW g \in Hash, NEW o \in Obj, agent[g] = o, agent'[g] # o
  PROVE  Promised(o)'
<1>1. g = h
  BY DEF OneHash
<1>2. HeldFor(o) \/ obj'[o].told
  BY <1>1 DEF OneHash
<1> QED
  BY <1>2 DEF HeldFor, Promised, thread

LEMMA AnswersStep ==
  ASSUME IInv, Routine \/ Others, NEW g \in Hash, NEW o \in Obj, agent[g] = o, agent'[g] # o
  PROVE  Promised(o)'
<1>1. agent' # agent
  OBVIOUS
<1>2. ASSUME NEW h \in Agents, NEW i \in BOOLEAN, Terminate(h, i),
             pc \in Receiving \cup {"drop", "push"} => i
      PROVE  h \in Hash /\ OneHash(h)
  BY <1>1, <1>2, TerminateStep, TypeParts DEF IInv
<1>3. ASSUME NEW h \in Hash, Sweep(h) PROVE Promised(o)'
  BY <1>2, <1>3, OneHashAnswers DEF Sweep, Receiving
<1>4. CASE Kill
  BY <1>1, <1>2, <1>4, OneHashAnswers DEF Kill, Receiving
<1>5. CASE DropConnection
  <2>1. OneHash(mine) /\ mine \in Hash
    BY <1>1, <1>2, <1>5 DEF DropConnection
  <2>2. g = mine /\ (HeldFor(o) \/ obj'[o].told)
    BY <2>1 DEF OneHash
  <2>3. pc = "drop" /\ IF Type[mine] = "whole" THEN Go("push") ELSE Done
    BY <1>5 DEF DropConnection
  <2>4. CASE Type[mine] = "whole"
    BY <2>2, <2>3, <2>4 DEF HeldFor, Promised, Go
  <2>5. CASE Type[mine] # "whole"
    <3>1. obj[held].told => obj'[held].told
      BY <2>1, <2>3 DEF OneHash
    <3>2. obj[held].told
      BY <2>3, <2>5 DEF IInv, Held, Answering
    <3> QED
      BY <2>2, <3>1, <3>2 DEF HeldFor, Promised
  <2> QED
    BY <2>4, <2>5
<1>6. ASSUME NEW h \in Hash, AddTask(h) PROVE Promised(o)'
  BY <1>6, AddTaskStep, OneHashAnswers DEF AddTask
<1>7. ASSUME NEW h \in Hash, DelTask(h) PROVE Promised(o)'
  BY <1>2, <1>7, OneHashAnswers DEF DelTask
<1>8. ASSUME NEW h \in Hash, AddReused(h) PROVE Promised(o)'
  BY <1>1, <1>8 DEF AddReused
<1>9. ASSUME \/ \E i \in 1 .. MaxSock : Poll(i)
             \/ In \/ Recv \/ Copy \/ Fin \/ Share \/ Reuse \/ Push \/ Out \/ Send \/ Mark
             \/ ConnectFail \/ Term \/ Close
      PROVE  FALSE
  BY <1>1, <1>9 DEF Poll, In, Recv, Copy, Fin, Share, Reuse, Push, Out, Send, Mark,
     ConnectFail, Term, Close, Quiet
<1> QED
  BY <1>3, <1>4, <1>5, <1>6, <1>7, <1>8, <1>9 DEF Routine, Working, Others

\* No request disappears silently, whoever ends it: Routine, which may hold its object,
\* DelTask or a new request of the same task.
THEOREM NoneLost == Spec => AnsweredBeforeDrop
<1>1. IInv /\ [Next]_vars =>
        [\A h \in Hash, o \in Obj : agent[h] = o /\ agent'[h] # o => Promised(o)']_vars
  BY AnswersStep DEF Next, Idle
<1> QED
  BY <1>1, Invariance, PTL DEF Spec, AnsweredBeforeDrop

=============================================================================
