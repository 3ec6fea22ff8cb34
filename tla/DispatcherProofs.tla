-------------------------- MODULE DispatcherProofs --------------------------
(***************************************************************************)
(* For any devices, keys, capacity and number of publications: the queues, *)
(* the counter and the two indexes of a shard agree, a pending event can   *)
(* always be delivered, and every step of the shard is a step of the bus   *)
(* that DeviceBus describes.                                               *)
(***************************************************************************)
EXTENDS Dispatcher, SequenceTheorems, WellFoundedInduction, TLAPS

\* The number of queued events, and that none is queued twice.
Total(q) == Len(q["critical"]) + Len(q["high"]) + Len(q["normal"]) + Len(q["low"])
Simple(s) == \A i, j \in DOMAIN s : s[i] = s[j] => i = j

QueuesTyped(q) == q \in [Priority -> Seq(Order)] /\ \A p \in Priority : Simple(q[p])

\* Only the queue of priority p has changed.
OnlyQueue(p, q, n) == n \in [Priority -> Seq(Order)] /\ \A r \in Priority \ {p} : n[r] = q[r]

\* It has got one event more, or one less.
Added(p, o, q, n) ==
    /\ QueuesTyped(n) /\ Total(n) = Total(q) + 1 /\ OnlyQueue(p, q, n)
    /\ \A x : x \in Range(n[p]) <=> x \in Range(q[p]) \/ x = o
Removed(p, o, q, n) ==
    /\ QueuesTyped(n) /\ Total(n) = Total(q) - 1 /\ OnlyQueue(p, q, n)
    /\ \A x : x \in Range(n[p]) <=> x \in Range(q[p]) /\ x # o
-----------------------------------------------------------------------------
(* Sequences.                                                              *)

LEMMA RemovePlaces ==
    ASSUME NEW S, NEW s \in Seq(S), NEW i \in DOMAIN s
    PROVE  /\ RemoveAt(s, i) \in Seq(S)
           /\ Len(RemoveAt(s, i)) = Len(s) - 1
           /\ \A j \in 1..(Len(s) - 1) :
                  RemoveAt(s, i)[j] = IF j < i THEN s[j] ELSE s[j + 1]
  <1> DEFINE a == SubSeq(s, 1, i - 1)
             b == SubSeq(s, i + 1, Len(s))
  <1>1. Len(s) \in Nat /\ i \in 1..Len(s) /\ i \in Int BY LenProperties
  <1>2. \A j \in 1..Len(s) : s[j] \in S BY ElementOfSeq
  <1>3. /\ a \in Seq(S) /\ Len(a) = i - 1
        /\ \A j \in 1..(i - 1) : a[j] = s[j]
    BY <1>1, <1>2, SubSeqProperties
  <1>4. /\ b \in Seq(S) /\ Len(b) = Len(s) - i
        /\ \A j \in 1..(Len(s) - i) : b[j] = s[j + i]
    BY <1>1, <1>2, SubSeqProperties
  <1> DEFINE c == a \o b
  <1>5. RemoveAt(s, i) = c BY DEF RemoveAt
  <1> HIDE DEF a, b
  <1>6. /\ c \in Seq(S) /\ Len(c) = Len(a) + Len(b)
        /\ \A j \in 1..(Len(a) + Len(b)) : c[j] = IF j <= Len(a) THEN a[j] ELSE b[j - Len(a)]
    BY <1>3, <1>4, ConcatProperties
  <1> HIDE DEF c
  <1>7. Len(c) = Len(s) - 1 BY <1>1, <1>3, <1>4, <1>6
  <1>8. ASSUME NEW j \in 1..(Len(s) - 1) PROVE c[j] = IF j < i THEN s[j] ELSE s[j + 1]
    <2>1. j \in 1..(Len(a) + Len(b)) BY <1>1, <1>3, <1>4
    <2>2. CASE j < i
      <3>1. c[j] = a[j] BY <1>1, <1>3, <1>6, <2>1, <2>2
      <3>2. a[j] = s[j] BY <1>1, <1>3, <2>2
      <3>3. QED BY <2>2, <3>1, <3>2
    <2>3. CASE ~(j < i)
      <3>1. c[j] = b[j - (i - 1)] BY <1>1, <1>3, <1>6, <2>1, <2>3
      <3>2. j - (i - 1) \in 1..(Len(s) - i) BY <1>1, <2>3
      <3>3. b[j - (i - 1)] = s[(j - (i - 1)) + i] BY <1>4, <3>2
      <3>4. (j - (i - 1)) + i = j + 1 BY <1>1
      <3>5. QED BY <2>3, <3>1, <3>3, <3>4
    <2>4. QED BY <2>2, <2>3
  <1>9. QED BY <1>5, <1>6, <1>7, <1>8

\* Taking an element out of a sequence without repetitions.
LEMMA RemoveElement ==
    ASSUME NEW S, NEW s \in Seq(S), Simple(s), NEW i \in DOMAIN s
    PROVE  /\ RemoveAt(s, i) \in Seq(S) /\ Simple(RemoveAt(s, i))
           /\ Len(RemoveAt(s, i)) = Len(s) - 1
           /\ Range(RemoveAt(s, i)) = Range(s) \ {s[i]}
  <1> DEFINE r == RemoveAt(s, i)
  <1>1. /\ r \in Seq(S) /\ Len(r) = Len(s) - 1
        /\ \A j \in 1..(Len(s) - 1) : r[j] = IF j < i THEN s[j] ELSE s[j + 1]
    BY RemovePlaces
  <1> HIDE DEF r
  <1>2. Len(s) \in Nat /\ DOMAIN s = 1..Len(s) /\ DOMAIN r = 1..(Len(s) - 1)
    BY <1>1, LenProperties
  <1>3. \A j, k \in 1..Len(s) : s[j] = s[k] => j = k BY <1>2 DEF Simple
  <1>4. i \in 1..Len(s) BY <1>2
  <1>5. Simple(r)
    <2>1. SUFFICES ASSUME NEW j \in 1..(Len(s) - 1), NEW k \in 1..(Len(s) - 1), r[j] = r[k]
                   PROVE  j = k
      BY <1>2 DEF Simple
    <2> DEFINE f == IF j < i THEN j ELSE j + 1
               g == IF k < i THEN k ELSE k + 1
    <2>2. r[j] = s[f] /\ r[k] = s[g] BY <1>1
    <2>3. f \in 1..Len(s) /\ g \in 1..Len(s) BY <1>2, <1>4
    <2>4. f = g BY <1>3, <2>1, <2>2, <2>3
    <2>5. QED BY <1>2, <1>4, <2>4
  <1>6. Range(r) \subseteq Range(s) \ {s[i]}
    <2>1. SUFFICES ASSUME NEW j \in 1..(Len(s) - 1)
                   PROVE  r[j] \in Range(s) /\ r[j] # s[i]
      BY <1>2 DEF Range
    <2> DEFINE f == IF j < i THEN j ELSE j + 1
    <2>2. r[j] = s[f] BY <1>1
    <2>3. f \in 1..Len(s) /\ f # i BY <1>2, <1>4
    <2> HIDE DEF f
    <2>4. QED BY <1>2, <1>3, <1>4, <2>2, <2>3 DEF Range
  <1>7. Range(s) \ {s[i]} \subseteq Range(r)
    <2>1. SUFFICES ASSUME NEW k \in 1..Len(s), s[k] # s[i]
                   PROVE  \E j \in 1..(Len(s) - 1) : r[j] = s[k]
      BY <1>2 DEF Range
    <2>2. k # i BY <2>1
    <2> DEFINE j == IF k < i THEN k ELSE k - 1
    <2>3. j \in 1..(Len(s) - 1) /\ (IF j < i THEN j ELSE j + 1) = k BY <1>2, <1>4, <2>2
    <2> HIDE DEF j
    <2>4. r[j] = s[k] BY <1>1, <2>3
    <2>5. QED BY <2>3, <2>4
  <1>8. QED BY <1>1, <1>5, <1>6, <1>7 DEF r

\* Appending a new element.
LEMMA AppendElement ==
    ASSUME NEW S, NEW s \in Seq(S), Simple(s), NEW x \in S, x \notin Range(s)
    PROVE  /\ Append(s, x) \in Seq(S) /\ Simple(Append(s, x))
           /\ Len(Append(s, x)) = Len(s) + 1
           /\ Range(Append(s, x)) = Range(s) \cup {x}
  <1> DEFINE r == Append(s, x)
  <1>1. /\ r \in Seq(S) /\ Len(r) = Len(s) + 1
        /\ \A j \in 1..Len(s) : r[j] = s[j]
        /\ r[Len(s) + 1] = x
    BY AppendProperties
  <1> HIDE DEF r
  <1>2. Len(s) \in Nat /\ DOMAIN s = 1..Len(s) /\ DOMAIN r = 1..(Len(s) + 1)
    BY <1>1, LenProperties
  <1>3. \A j \in 1..Len(s) : s[j] # x BY <1>2 DEF Range
  <1>4. \A j, k \in 1..Len(s) : s[j] = s[k] => j = k BY <1>2 DEF Simple
  <1>5. Simple(r)
    <2>1. SUFFICES ASSUME NEW j \in 1..(Len(s) + 1), NEW k \in 1..(Len(s) + 1), r[j] = r[k]
                   PROVE  j = k
      BY <1>2 DEF Simple
    <2>2. CASE j = Len(s) + 1 /\ k # Len(s) + 1
      <3>1. k \in 1..Len(s) BY <1>2, <2>2
      <3>2. QED BY <1>1, <1>3, <2>1, <2>2, <3>1
    <2>3. CASE j # Len(s) + 1 /\ k = Len(s) + 1
      <3>1. j \in 1..Len(s) BY <1>2, <2>3
      <3>2. QED BY <1>1, <1>3, <2>1, <2>3, <3>1
    <2>4. CASE j # Len(s) + 1 /\ k # Len(s) + 1
      <3>1. j \in 1..Len(s) /\ k \in 1..Len(s) BY <1>2, <2>4
      <3>2. QED BY <1>1, <1>4, <2>1, <3>1
    <2>5. QED BY <2>2, <2>3, <2>4
  <1>6. Range(r) = Range(s) \cup {x}
    <2>1. \A j \in 1..(Len(s) + 1) : j \in 1..Len(s) \/ j = Len(s) + 1 BY <1>2
    <2>2. \A j \in 1..Len(s) : j \in 1..(Len(s) + 1) BY <1>2
    <2>3. Len(s) + 1 \in 1..(Len(s) + 1) BY <1>2
    <2>4. QED BY <1>1, <1>2, <2>1, <2>2, <2>3 DEF Range
  <1>7. QED BY <1>1, <1>5, <1>6 DEF r
-----------------------------------------------------------------------------
(* Queues.                                                                 *)

\* One queue is replaced by another sequence: what becomes of the total.
LEMMA TotalChange ==
    ASSUME NEW q \in [Priority -> Seq(Order)], NEW n, NEW p \in Priority, OnlyQueue(p, q, n)
    PROVE  Total(q) \in Nat /\ Total(n) = (Total(q) - Len(q[p])) + Len(n[p])
  <1> DEFINE s == n[p]
  <1>1. \A r \in Priority : Len(q[r]) \in Nat BY LenProperties
  <1>2. Len(s) \in Nat BY LenProperties DEF OnlyQueue
  <1>3. \A r \in Priority : Len(n[r]) = IF r = p THEN Len(s) ELSE Len(q[r]) BY DEF OnlyQueue
  <1> DEFINE l == [r \in Priority |-> Len(q[r])]
             k == [r \in Priority |-> Len(n[r])]
  <1>4. /\ l["critical"] \in Nat /\ l["high"] \in Nat /\ l["normal"] \in Nat /\ l["low"] \in Nat
        /\ Total(q) = l["critical"] + l["high"] + l["normal"] + l["low"]
        /\ Total(n) = k["critical"] + k["high"] + k["normal"] + k["low"]
        /\ l[p] = Len(q[p])
        /\ \A r \in Priority : k[r] = IF r = p THEN Len(s) ELSE l[r]
    BY <1>1, <1>3 DEF Total, Priority
  <1> HIDE DEF l, k
  <1>5. Total(q) \in Nat BY <1>4
  <1>6. l["critical"] \in Nat /\ l["high"] \in Nat /\ l["normal"] \in Nat /\ l["low"] \in Nat BY <1>4
  <1>7. CASE p = "critical"
    <2>1. k["critical"] = Len(s) /\ k["high"] = l["high"] /\ k["normal"] = l["normal"] /\ k["low"] = l["low"]
      BY <1>4, <1>7 DEF Priority
    <2>2. /\ Total(n) = Len(s) + l["high"] + l["normal"] + l["low"]
          /\ Total(q) = l["critical"] + l["high"] + l["normal"] + l["low"]
          /\ Len(q[p]) = l["critical"]
      BY <1>4, <1>7, <2>1
    <2>3. Total(n) = (Total(q) - Len(q[p])) + Len(s) BY <1>2, <1>6, <2>2
    <2>4. QED BY <1>5, <2>3
  <1>8. CASE p = "high"
    <2>1. k["critical"] = l["critical"] /\ k["high"] = Len(s) /\ k["normal"] = l["normal"] /\ k["low"] = l["low"]
      BY <1>4, <1>8 DEF Priority
    <2>2. /\ Total(n) = l["critical"] + Len(s) + l["normal"] + l["low"]
          /\ Total(q) = l["critical"] + l["high"] + l["normal"] + l["low"]
          /\ Len(q[p]) = l["high"]
      BY <1>4, <1>8, <2>1
    <2>3. Total(n) = (Total(q) - Len(q[p])) + Len(s) BY <1>2, <1>6, <2>2
    <2>4. QED BY <1>5, <2>3
  <1>9. CASE p = "normal"
    <2>1. k["critical"] = l["critical"] /\ k["high"] = l["high"] /\ k["normal"] = Len(s) /\ k["low"] = l["low"]
      BY <1>4, <1>9 DEF Priority
    <2>2. /\ Total(n) = l["critical"] + l["high"] + Len(s) + l["low"]
          /\ Total(q) = l["critical"] + l["high"] + l["normal"] + l["low"]
          /\ Len(q[p]) = l["normal"]
      BY <1>4, <1>9, <2>1
    <2>3. Total(n) = (Total(q) - Len(q[p])) + Len(s) BY <1>2, <1>6, <2>2
    <2>4. QED BY <1>5, <2>3
  <1>10. CASE p = "low"
    <2>1. k["critical"] = l["critical"] /\ k["high"] = l["high"] /\ k["normal"] = l["normal"] /\ k["low"] = Len(s)
      BY <1>4, <1>10 DEF Priority
    <2>2. /\ Total(n) = l["critical"] + l["high"] + l["normal"] + Len(s)
          /\ Total(q) = l["critical"] + l["high"] + l["normal"] + l["low"]
          /\ Len(q[p]) = l["low"]
      BY <1>4, <1>10, <2>1
    <2>3. Total(n) = (Total(q) - Len(q[p])) + Len(s) BY <1>2, <1>6, <2>2
    <2>4. QED BY <1>5, <2>3
  <1>11. QED BY <1>5, <1>7, <1>8, <1>9, <1>10 DEF Priority

LEMMA AppendToQueue ==
    ASSUME NEW q, QueuesTyped(q), NEW p \in Priority, NEW o \in Order, o \notin Range(q[p]),
           NEW n, OnlyQueue(p, q, n), n[p] = Append(q[p], o)
    PROVE  Added(p, o, q, n)
  <1>1. q \in [Priority -> Seq(Order)] /\ q[p] \in Seq(Order) /\ Simple(q[p])
    BY DEF QueuesTyped
  <1> DEFINE s == Append(q[p], o)
  <1>2. n[p] = s OBVIOUS
  <1>3. /\ s \in Seq(Order) /\ Simple(s) /\ Len(s) = Len(q[p]) + 1
        /\ Range(s) = Range(q[p]) \cup {o}
    BY <1>1, AppendElement
  <1> HIDE DEF s
  <1>4. QueuesTyped(n) BY <1>1, <1>2, <1>3 DEF QueuesTyped, OnlyQueue
  <1>5. Total(n) = (Total(q) - Len(q[p])) + Len(s) /\ Total(q) \in Nat
    BY <1>1, <1>2, <1>3, TotalChange
  <1>6. Len(q[p]) \in Nat BY <1>1, LenProperties
  <1>7. Total(n) = Total(q) + 1 BY <1>3, <1>5, <1>6
  <1>8. QED BY <1>2, <1>3, <1>4, <1>7 DEF Added

LEMMA RemoveFromQueue ==
    ASSUME NEW q, QueuesTyped(q), NEW p \in Priority, NEW i \in DOMAIN q[p],
           NEW n, OnlyQueue(p, q, n), n[p] = RemoveAt(q[p], i)
    PROVE  Removed(p, q[p][i], q, n)
  <1>1. q \in [Priority -> Seq(Order)] /\ q[p] \in Seq(Order) /\ Simple(q[p])
    BY DEF QueuesTyped
  <1> DEFINE s == RemoveAt(q[p], i)
  <1>2. n[p] = s OBVIOUS
  <1>3. /\ s \in Seq(Order) /\ Simple(s) /\ Len(s) = Len(q[p]) - 1
        /\ Range(s) = Range(q[p]) \ {q[p][i]}
    BY <1>1, RemoveElement
  <1> HIDE DEF s
  <1>4. QueuesTyped(n) BY <1>1, <1>2, <1>3 DEF QueuesTyped, OnlyQueue
  <1>5. Total(n) = (Total(q) - Len(q[p])) + Len(s) /\ Total(q) \in Nat
    BY <1>1, <1>2, <1>3, TotalChange
  <1>6. Len(q[p]) \in Nat BY <1>1, LenProperties
  <1>7. Total(n) = Total(q) - 1 BY <1>3, <1>5, <1>6
  <1>8. QED BY <1>2, <1>3, <1>4, <1>7 DEF Removed

\* An event moves to another queue, as in a merge that raises its priority.
Moved(p, r, o, q, n) ==
    /\ QueuesTyped(n) /\ Total(n) = Total(q)
    /\ \A x : x \in Range(n[p]) <=> x \in Range(q[p]) /\ x # o
    /\ \A x : x \in Range(n[r]) <=> x \in Range(q[r]) \/ x = o
    /\ \A t \in Priority \ {p, r} : n[t] = q[t]

LEMMA RemoveThenAppend ==
    ASSUME NEW q, QueuesTyped(q), NEW p \in Priority, NEW r \in Priority, p # r, NEW o,
           NEW m, Removed(p, o, q, m), NEW n, Added(r, o, m, n)
    PROVE  Moved(p, r, o, q, n)
  <1>1. m[r] = q[r] /\ n[p] = m[p] /\ \A t \in Priority \ {p, r} : n[t] = q[t]
    BY DEF Removed, Added, OnlyQueue
  <1>2. Total(q) \in Nat /\ Total(m) = Total(q) - 1 /\ Total(n) = Total(m) + 1
    BY TotalChange DEF QueuesTyped, Removed, Added
  <1>3. Total(n) = Total(q) BY <1>2
  <1>4. QED BY <1>1, <1>3 DEF Removed, Added, Moved

LEMMA MoveToQueue ==
    ASSUME NEW q, QueuesTyped(q), NEW p \in Priority, NEW r \in Priority, p # r,
           NEW o \in Range(q[p]), o \in Order, o \notin Range(q[r]),
           NEW n, n = [q EXCEPT ![p] = removeLocked(@, o), ![r] = Append(@, o)]
    PROVE  Moved(p, r, o, q, n)
  <1> DEFINE i == CHOOSE j \in DOMAIN q[p] : q[p][j] = o
             m == [q EXCEPT ![p] = RemoveAt(q[p], i)]
  <1>1. q \in [Priority -> Seq(Order)] BY DEF QueuesTyped
  <1>2. i \in DOMAIN q[p] /\ q[p][i] = o BY DEF Range
  <1>3. q[p] \in Seq(Order) /\ Simple(q[p]) BY <1>1 DEF QueuesTyped
  <1>4. RemoveAt(q[p], i) \in Seq(Order) BY <1>2, <1>3, RemoveElement
  <1>5. OnlyQueue(p, q, m) /\ m[p] = RemoveAt(q[p], i) /\ m[r] = q[r]
    BY <1>1, <1>4 DEF OnlyQueue
  <1>6. n[r] = Append(m[r], o) /\ \A t \in Priority \ {r} : n[t] = m[t]
    BY <1>1 DEF removeLocked
  <1>7. Append(m[r], o) \in Seq(Order) BY <1>1, <1>5, AppendProperties
  <1>8. OnlyQueue(r, m, n) BY <1>1, <1>4, <1>6, <1>7 DEF OnlyQueue
  <1> HIDE DEF i, m
  <1>9. Removed(p, q[p][i], q, m) BY <1>2, <1>5, RemoveFromQueue
  <1>10. Removed(p, o, q, m) BY <1>2, <1>9
  <1>11. QueuesTyped(m) /\ o \notin Range(m[r]) BY <1>5, <1>9 DEF Removed
  <1>12. Added(r, o, m, n) BY <1>6, <1>8, <1>11, AppendToQueue
  <1>13. QED BY <1>10, <1>12, RemoveThenAppend
-----------------------------------------------------------------------------
\* The inductive invariant: the same facts as ShardInv, in terms of the sets of events
\* that wait at each priority.
QueueInv ==
    /\ \A p \in Priority : Simple(queues[p])
    /\ pending = Total(queues)
    /\ \A p \in Priority : \A o \in Range(queues[p]) :
           o <= nextOrder /\ event[o] # None /\ event[o].priority = p
    /\ \A o \in Order \ Queued : event[o] = None

IInv == TypeOK /\ QueueInv /\ CoalesceExact /\ DedupeExact

LEMMA Same == TypeOK => (QueueInv <=> QueueExact)
  <1> SUFFICES ASSUME TypeOK PROVE QueueInv <=> QueueExact OBVIOUS
  <1>1. \A p \in Priority : queues[p] \in Seq(Order) BY DEF TypeOK
  <1>2. QueueInv => QueueExact BY <1>1 DEF QueueInv, QueueExact, Total, Simple, Range
  <1>3. QueueExact => QueueInv BY <1>1 DEF QueueInv, QueueExact, Total, Simple, Range
  <1>4. QED BY <1>2, <1>3

\* What waits, and what the indexes know of it.
LEMMA Waiting ==
    ASSUME IInv
    PROVE  /\ QueuesTyped(queues)
           /\ \A o : o \in Queued <=> \E p \in Priority : o \in Range(queues[p])
           /\ \A o \in Queued : /\ o \in Order /\ event[o] \in Event /\ o <= nextOrder
                                /\ o \in Range(queues[event[o].priority])
           /\ \A p, r \in Priority : \A o \in Range(queues[p]) : o \in Range(queues[r]) => p = r
           /\ Queued \subseteq Order
  <1>1. TypeOK /\ QueueInv BY DEF IInv
  <1>2. QueuesTyped(queues) BY <1>1 DEF TypeOK, QueueInv, QueuesTyped
  <1>3. \A o : o \in Queued <=> \E p \in Priority : o \in Range(queues[p]) BY DEF Queued
  <1>4. \A p \in Priority : Range(queues[p]) \subseteq Order
    BY <1>1, RangeOfSeq DEF TypeOK
  <1>5. Queued \subseteq Order BY <1>3, <1>4
  <1>6. \A o \in Order : event[o] \in Event \cup {None} BY <1>1 DEF TypeOK
  <1>7. \A o \in Queued : /\ event[o] \in Event /\ o <= nextOrder
                          /\ o \in Range(queues[event[o].priority])
    BY <1>1, <1>3, <1>5, <1>6 DEF QueueInv
  <1>8. \A p, r \in Priority : \A o \in Range(queues[p]) : o \in Range(queues[r]) => p = r
    BY <1>1 DEF QueueInv
  <1>9. QED BY <1>2, <1>3, <1>5, <1>7, <1>8

LEMMA Priorities ==
    /\ \A p, r \in Priority : priorityGreater(p, r) => p # r /\ p # "low"
    /\ \A p \in Priority : ~priorityGreater(p, "low") => p = "low"
  BY DEF Priority, priorityGreater, rank

LEMMA IncomingEvent ==
    ASSUME TypeOK, NEW offer \in Offer, published < MaxPublish
    PROVE  Incoming(offer) \in Event /\ Incoming(offer).pub = published + 1
  <1>1. offer \in Published BY OfferAssumption
  <1>2. normalizePriority(offer.priority) \in Priority BY DEF normalizePriority, Priority
  <1>3. published + 1 \in 1..MaxPublish BY BoundAssumption DEF TypeOK
  <1>4. QED BY <1>1, <1>2, <1>3 DEF Incoming, Event, Published
-----------------------------------------------------------------------------
(* The dedupe index in terms of its elements.                              *)

LEMMA DedupeElements ==
    DedupeExact <=> /\ \A k : k \in dedupe <=> \E o \in Queued : k \in DedupeOf(event[o])
                    /\ \A o, x \in Queued : \A k : k \in DedupeOf(event[o]) /\ k \in DedupeOf(event[x]) => o = x
  BY DEF DedupeExact, DedupeOf

LEMMA DedupeElementsNext ==
    DedupeExact' <=> /\ \A k : k \in dedupe' <=> \E o \in Queued' : k \in DedupeOf(event'[o])
                     /\ \A o, x \in Queued' : \A k : k \in DedupeOf(event'[o]) /\ k \in DedupeOf(event'[x]) => o = x
  BY DEF DedupeExact, DedupeOf

LEMMA DedupeKeys == \A e \in Event : DedupeOf(e) \subseteq DedupeKey
  BY DEF DedupeOf, Event

LEMMA QueuedNext == \A o : o \in Queued' <=> \E p \in Priority : o \in Range(queues'[p])
  BY DEF Queued, Range
-----------------------------------------------------------------------------
LEMMA EnqueueQueued ==
    ASSUME IInv, NEW e \in Event, published < MaxPublish,
           queues' = [queues EXCEPT ![e.priority] = Append(queues[e.priority], nextOrder + 1)]
    PROVE  /\ Added(e.priority, nextOrder + 1, queues, queues')
           /\ \A x : x \in Queued' <=> x \in Queued \/ x = nextOrder + 1
           /\ \A o \in Queued : o <= nextOrder /\ o # nextOrder + 1
  <1> DEFINE n == nextOrder + 1
  <1>1. TypeOK BY DEF IInv
  <1>2. nextOrder \in Nat /\ n \in Order BY <1>1, BoundAssumption DEF TypeOK, Order
  <1>3. e.priority \in Priority BY DEF Event
  <1>4. QueuesTyped(queues) BY Waiting
  <1>5. \A o \in Queued : o <= nextOrder /\ o # n
    <2>1. \A o \in Queued : o <= nextOrder /\ o \in Order BY Waiting
    <2>2. QED BY <1>2, <2>1 DEF Order
  <1> HIDE DEF n
  <1>6. n \notin Range(queues[e.priority]) BY <1>3, <1>5 DEF Queued
  <1>7. Added(e.priority, n, queues, queues')
    <2>1. queues[e.priority] \in Seq(Order) BY <1>3, <1>4 DEF QueuesTyped
    <2>2. Append(queues[e.priority], n) \in Seq(Order) BY <1>2, <2>1, AppendProperties
    <2>3. OnlyQueue(e.priority, queues, queues')
      BY <1>3, <1>4, <2>2 DEF OnlyQueue, QueuesTyped, n
    <2>4. queues'[e.priority] = Append(queues[e.priority], n)
      BY <1>3, <1>4 DEF QueuesTyped, n
    <2>5. QED BY <1>2, <1>3, <1>4, <1>6, <2>3, <2>4, AppendToQueue
  <1>8. \A p \in Priority : \A x :
            x \in Range(queues'[p]) <=> x \in Range(queues[p]) \/ (x = n /\ p = e.priority)
    BY <1>3, <1>7 DEF Added, OnlyQueue
  <1>9. \A x : x \in Queued' <=> x \in Queued \/ x = n
    <2>1. \A x : x \in Queued <=> \E p \in Priority : x \in Range(queues[p]) BY DEF Queued
    <2>2. QED BY <1>3, <1>8, <2>1, QueuedNext
  <1>10. QED BY <1>5, <1>7, <1>9 DEF n

LEMMA EnqueueStep ==
    ASSUME IInv, NEW e \in Event, published < MaxPublish, Enqueue(e),
           published' = published + 1, UNCHANGED <<closed, worker>>
    PROVE  IInv'
  <1> DEFINE n == nextOrder + 1
  <1>1. TypeOK /\ QueueInv /\ CoalesceExact /\ DedupeExact BY DEF IInv
  <1>2. nextOrder \in Nat /\ published \in Nat /\ nextOrder <= published /\ n \in Order
    BY <1>1, BoundAssumption DEF TypeOK, Order
  <1>3. /\ queues' = [queues EXCEPT ![e.priority] = Append(queues[e.priority], n)]
        /\ event' = [event EXCEPT ![n] = e]
        /\ nextOrder' = n
        /\ pending' = pending + 1 /\ pending < Capacity
        /\ coalesce' = IF e.key # None THEN [coalesce EXCEPT ![e.key] = n] ELSE coalesce
        /\ dedupe' = dedupe \cup DedupeOf(e)
        /\ e.key # None => coalesce[e.key] = 0
        /\ DedupeOf(e) \cap dedupe = {}
    BY <1>1 DEF Enqueue, TypeOK, Merges, Duplicate
  <1>4. e.priority \in Priority /\ e.key \in CoalesceKey \cup {None} /\ e # None
    BY NoneAssumption DEF Event
  <1>5. QueuesTyped(queues) /\ Queued \subseteq Order BY Waiting
  <1>6. \A o \in Queued : o <= nextOrder /\ o # n BY <1>3, EnqueueQueued
  <1>7. Added(e.priority, n, queues, queues') BY <1>3, EnqueueQueued
  <1> HIDE DEF n
  <1>8. \A p \in Priority : \A x :
            x \in Range(queues'[p]) <=> x \in Range(queues[p]) \/ (x = n /\ p = e.priority)
    BY <1>4, <1>7 DEF Added, OnlyQueue
  <1>9. \A x : x \in Queued' <=> x \in Queued \/ x = n BY <1>3, EnqueueQueued DEF n
  <1>10. event'[n] = e /\ \A x \in Queued : event'[x] = event[x]
    BY <1>1, <1>2, <1>3, <1>5, <1>6 DEF TypeOK
  <1>11. TypeOK'
    <2>1. queues' \in [Priority -> Seq(Order)] BY <1>7 DEF Added, QueuesTyped
    <2>2. event' \in [Order -> Event \cup {None}] BY <1>1, <1>2, <1>3 DEF TypeOK
    <2>3. coalesce' \in [CoalesceKey -> Order \cup {0}] BY <1>1, <1>2, <1>3, <1>4 DEF TypeOK
    <2>4. dedupe' \subseteq DedupeKey BY <1>1, <1>3, DedupeKeys DEF TypeOK
    <2>5. pending' \in 0..Capacity /\ nextOrder' \in 0..published' /\ published' \in 0..MaxPublish
      BY <1>1, <1>2, <1>3, BoundAssumption DEF TypeOK, n
    <2>6. QED BY <1>1, <2>1, <2>2, <2>3, <2>4, <2>5 DEF TypeOK
  <1>12. QueueInv'
    <2>1. \A p \in Priority : Simple(queues'[p]) BY <1>7 DEF Added, QueuesTyped
    <2>2. pending' = Total(queues') BY <1>1, <1>3, <1>7 DEF Added, QueueInv
    <2>3. nextOrder <= nextOrder' /\ n <= nextOrder' BY <1>2, <1>3 DEF n
    <2>4. ASSUME NEW p \in Priority, NEW o \in Range(queues'[p])
          PROVE  o <= nextOrder' /\ event'[o] # None /\ event'[o].priority = p
      <3>1. CASE o \in Range(queues[p])
        <4>1. o \in Queued /\ o <= nextOrder /\ event[o] # None /\ event[o].priority = p
          BY <1>1, <3>1 DEF QueueInv, Queued
        <4>2. o \in Order BY <1>5, <4>1
        <4>3. o <= nextOrder' BY <1>2, <1>3, <2>3, <4>1, <4>2 DEF n, Order
        <4>4. QED BY <1>10, <4>1, <4>3
      <3>2. CASE o = n /\ p = e.priority BY <1>4, <1>10, <2>3, <3>2
      <3>3. QED BY <1>8, <3>1, <3>2
    <2>5. \A o \in Order \ Queued' : event'[o] = None
      BY <1>1, <1>3, <1>9 DEF QueueInv, TypeOK
    <2>6. QED BY <2>1, <2>2, <2>4, <2>5 DEF QueueInv, Simple, Total, Range
  <1>13. CoalesceExact'
    <2>1. n # 0 BY <1>2 DEF Order
    <2>2. \A k \in CoalesceKey : coalesce'[k] = IF k = e.key /\ e.key # None THEN n ELSE coalesce[k]
      BY <1>1, <1>3 DEF TypeOK
    <2>3. \A k \in CoalesceKey : coalesce'[k] # 0 =>
              coalesce'[k] \in Queued' /\ event'[coalesce'[k]].key = k
      BY <1>1, <1>9, <1>10, <2>2 DEF CoalesceExact
    <2>4. \A o \in Queued : event[o].key \in CoalesceKey \cup {None} BY Waiting DEF Event
    <2>5. \A o \in Queued' : event'[o].key # None => coalesce'[event'[o].key] = o
      <3>1. ASSUME NEW o \in Queued', event'[o].key # None PROVE coalesce'[event'[o].key] = o
        <4>1. CASE o = n BY <1>4, <1>10, <2>2, <3>1, <4>1
        <4>2. CASE o # n
          <5>1. o \in Queued /\ event'[o] = event[o] BY <1>9, <1>10, <4>2
          <5>2. coalesce[event[o].key] = o /\ o # 0 /\ event[o].key \in CoalesceKey
            BY <1>1, <1>5, <2>4, <3>1, <5>1 DEF CoalesceExact, Order
          <5>3. event[o].key # e.key BY <1>3, <3>1, <5>1, <5>2
          <5>4. QED BY <2>2, <5>1, <5>2, <5>3
        <4>3. QED BY <4>1, <4>2
      <3>2. QED BY <3>1
    <2>6. QED BY <2>3, <2>5 DEF CoalesceExact
  <1>14. DedupeExact'
    <2>1. /\ \A k : k \in dedupe <=> \E o \in Queued : k \in DedupeOf(event[o])
          /\ \A o, x \in Queued : \A k : k \in DedupeOf(event[o]) /\ k \in DedupeOf(event[x]) => o = x
      BY <1>1, DedupeElements
    <2>2. /\ \A k : k \in dedupe' <=> k \in dedupe \/ k \in DedupeOf(e)
          /\ \A k \in DedupeOf(e) : k \notin dedupe
      BY <1>3
    <2>3. \A k : k \in dedupe' <=> \E o \in Queued' : k \in DedupeOf(event'[o])
      BY <1>9, <1>10, <2>1, <2>2
    <2>4. \A o, x \in Queued' : \A k : k \in DedupeOf(event'[o]) /\ k \in DedupeOf(event'[x]) => o = x
      BY <1>9, <1>10, <2>1, <2>2
    <2>5. QED BY <2>3, <2>4, DedupeElementsNext
  <1>15. QED BY <1>11, <1>12, <1>13, <1>14 DEF IInv

\* What a merge does to the queues: the waiting event stays, with the higher of the two
\* priorities, and its deduplication key is the new event's or none.
MergedInto(e, o, new) ==
    /\ o = coalesce[e.key] /\ e.key # None /\ e.key \in CoalesceKey
    /\ event[o].key = e.key
    /\ new.device = e.device /\ new.key = e.key /\ new.pub = e.pub
    /\ new.priority \in Priority
    /\ event' = [event EXCEPT ![o] = new]
    /\ dedupe' = (dedupe \ DedupeOf(event[o])) \cup DedupeOf(new)
    /\ \A k \in DedupeOf(new) : k \notin dedupe
    /\ QueuesTyped(queues') /\ Total(queues') = Total(queues)
    /\ \A p \in Priority : \A x :
           x \in Range(queues'[p]) <=> IF x = o THEN p = new.priority ELSE x \in Range(queues[p])
    /\ \A x : x \in Queued' <=> x \in Queued

LEMMA MergeFacts ==
    ASSUME IInv, NEW e \in Event, Merge(e)
    PROVE  \E o \in Queued, new \in Event : MergedInto(e, o, new)
  <1> DEFINE o == coalesce[e.key]
             old == event[o]
             up == priorityGreater(e.priority, old.priority)
             new == IF up THEN e ELSE [e EXCEPT !.priority = old.priority]
  <1>1. TypeOK /\ QueueInv /\ CoalesceExact BY DEF IInv
  <1>2. e.key # None /\ o # 0 /\ e.key \in CoalesceKey BY DEF Merge, Merges, Event
  <1>3. o \in Queued /\ old.key = e.key BY <1>1, <1>2 DEF CoalesceExact
  <1>4. o \in Order /\ old \in Event /\ o \in Range(queues[old.priority]) BY <1>3, Waiting
  <1>5. old.priority \in Priority /\ e.priority \in Priority BY <1>4 DEF Event
  <1>6. \A p \in Priority : o \in Range(queues[p]) => p = old.priority BY <1>4, <1>5, Waiting
  <1>7. new \in Event /\ new.device = e.device /\ new.key = e.key /\ new.pub = e.pub
        /\ new.priority = (IF up THEN e.priority ELSE old.priority) /\ new.dedupe = e.dedupe
    BY <1>5 DEF Event
  <1>8. /\ event' = [event EXCEPT ![o] = new]
        /\ dedupe' = (dedupe \ DedupeOf(old)) \cup DedupeOf(new)
        /\ queues' = IF up
                     THEN [queues EXCEPT ![old.priority] = removeLocked(@, o),
                                         ![e.priority] = Append(@, o)]
                     ELSE queues
        /\ DedupeOf(e) \cap dedupe = {}
    BY DEF Merge, Duplicate
  <1>9. new.priority = "low" => e.priority = "low" BY <1>5, <1>7, Priorities
  <1> HIDE DEF new, up
  <1>10. \A k \in DedupeOf(new) : k \notin dedupe
    BY <1>7, <1>8, <1>9 DEF DedupeOf
  <1>11. QueuesTyped(queues) BY Waiting
  <1>12. /\ QueuesTyped(queues') /\ Total(queues') = Total(queues)
         /\ \A p \in Priority : \A x :
                x \in Range(queues'[p]) <=> IF x = o THEN p = new.priority ELSE x \in Range(queues[p])
    <2>1. CASE up
      <3>1. old.priority # e.priority BY <1>5, <2>1, Priorities DEF up
      <3>2. o \notin Range(queues[e.priority]) BY <1>5, <1>6, <3>1
      <3>3. Moved(old.priority, e.priority, o, queues, queues')
        <4> DEFINE r == old.priority
                   t == e.priority
        <4>1. queues' = [queues EXCEPT ![r] = removeLocked(@, o), ![t] = Append(@, o)]
          BY <1>8, <2>1
        <4>2. r \in Priority /\ t \in Priority /\ r # t /\ o \in Range(queues[r]) /\ o \notin Range(queues[t])
          BY <1>4, <1>5, <3>1, <3>2
        <4> HIDE DEF r, t, o
        <4>3. Moved(r, t, o, queues, queues') BY <1>4, <1>11, <4>1, <4>2, MoveToQueue
        <4>4. QED BY <4>3 DEF r, t
      <3>4. new.priority = e.priority BY <1>7, <2>1
      <3> HIDE DEF o, old
      <3>5. QED BY <1>5, <1>6, <3>1, <3>3, <3>4 DEF Moved
    <2>2. CASE ~up
      <3>1. new.priority = old.priority /\ queues' = queues BY <1>7, <1>8, <2>2
      <3>2. QED BY <1>4, <1>5, <1>6, <1>11, <3>1
    <2>3. QED BY <2>1, <2>2
  <1>13. new.priority \in Priority BY <1>5, <1>7
  <1> HIDE DEF o, old
  <1>14. \A x : x \in Queued' <=> x \in Queued BY <1>3, <1>12, <1>13, QueuedNext DEF Queued
  <1> USE DEF o
  <1>15. QED BY <1>2, <1>3, <1>7, <1>8, <1>10, <1>12, <1>13, <1>14 DEF old, MergedInto

LEMMA MergeStep ==
    ASSUME IInv, NEW e \in Event, published < MaxPublish, Merge(e),
           published' = published + 1, UNCHANGED <<closed, worker>>
    PROVE  IInv'
  <1>1. TypeOK /\ QueueInv /\ CoalesceExact /\ DedupeExact BY DEF IInv
  <1>2. PICK o \in Queued, new \in Event : MergedInto(e, o, new) BY MergeFacts
  <1> USE DEF MergedInto
  <1>3. UNCHANGED <<coalesce, pending, nextOrder>> BY DEF Merge
  <1>4. Queued \subseteq Order /\ o \in Order /\ o <= nextOrder BY Waiting
  <1>5. new # None BY NoneAssumption
  <1>6. \A x : x \in Queued' <=> x \in Queued BY <1>2
  <1>7. event'[o] = new /\ \A x \in Order : x # o => event'[x] = event[x]
    BY <1>1, <1>2, <1>4 DEF TypeOK
  <1>8. TypeOK'
    <2>1. queues' \in [Priority -> Seq(Order)] BY <1>2 DEF QueuesTyped
    <2>2. event' \in [Order -> Event \cup {None}] BY <1>1, <1>2, <1>4 DEF TypeOK
    <2>3. dedupe' \subseteq DedupeKey BY <1>1, <1>2, DedupeKeys DEF TypeOK
    <2>4. pending' \in 0..Capacity /\ nextOrder' \in 0..published' /\ published' \in 0..MaxPublish
      BY <1>1, <1>3, BoundAssumption DEF TypeOK
    <2>5. QED BY <1>1, <1>3, <2>1, <2>2, <2>3, <2>4 DEF TypeOK
  <1>9. QueueInv'
    <2>1. \A p \in Priority : Simple(queues'[p]) BY <1>2 DEF QueuesTyped
    <2>2. pending' = Total(queues') BY <1>1, <1>2, <1>3 DEF QueueInv
    <2>3. ASSUME NEW p \in Priority, NEW x \in Range(queues'[p])
          PROVE  x <= nextOrder' /\ event'[x] # None /\ event'[x].priority = p
      <3>1. CASE x = o BY <1>2, <1>3, <1>4, <1>5, <1>7, <3>1
      <3>2. CASE x # o
        <4>1. x \in Range(queues[p]) BY <1>2, <3>2
        <4>2. x <= nextOrder /\ event[x] # None /\ event[x].priority = p /\ x \in Queued
          BY <1>1, <4>1 DEF QueueInv, Queued
        <4>3. QED BY <1>3, <1>4, <1>7, <3>2, <4>2
      <3>3. QED BY <3>1, <3>2
    <2>4. \A x \in Order \ Queued' : event'[x] = None
      BY <1>1, <1>6, <1>7 DEF QueueInv
    <2>5. QED BY <2>1, <2>2, <2>3, <2>4 DEF QueueInv, Simple, Total, Range
  <1>10. CoalesceExact'
    <2>1. \A x \in Queued : event'[x].key = event[x].key BY <1>2, <1>4, <1>7
    <2>2. QED BY <1>1, <1>3, <1>6, <2>1 DEF CoalesceExact
  <1>11. DedupeExact'
    <2>1. /\ \A k : k \in dedupe <=> \E x \in Queued : k \in DedupeOf(event[x])
          /\ \A x, y \in Queued : \A k : k \in DedupeOf(event[x]) /\ k \in DedupeOf(event[y]) => x = y
      BY <1>1, DedupeElements
    <2>2. \A x \in Queued : x # o => event'[x] = event[x] BY <1>4, <1>7
    <2>3. \A k : k \in dedupe' <=> \/ k \in dedupe /\ k \notin DedupeOf(event[o])
                                   \/ k \in DedupeOf(new)
      BY <1>2
    <2>4. \A k : k \in dedupe' <=> \E x \in Queued' : k \in DedupeOf(event'[x])
      BY <1>6, <1>7, <2>1, <2>2, <2>3
    <2>5. \A x, y \in Queued' : \A k : k \in DedupeOf(event'[x]) /\ k \in DedupeOf(event'[y]) => x = y
      BY <1>2, <1>6, <1>7, <2>1, <2>2
    <2>6. QED BY <2>4, <2>5, DedupeElementsNext
  <1>12. QED BY <1>8, <1>9, <1>10, <1>11 DEF IInv

\* What next does: the chosen event leaves its queue and the indexes.
Delivered(o) ==
    /\ ~hasEarlierForDevice(o)
    /\ event' = [event EXCEPT ![o] = None]
    /\ coalesce' = IF event[o].key # None /\ coalesce[event[o].key] = o
                   THEN [coalesce EXCEPT ![event[o].key] = 0] ELSE coalesce
    /\ dedupe' = dedupe \ DedupeOf(event[o])
    /\ worker' = event[o]
    /\ QueuesTyped(queues') /\ Total(queues') = Total(queues) - 1
    /\ \A p \in Priority : \A x :
           x \in Range(queues'[p]) <=> x \in Range(queues[p]) /\ x # o
    /\ \A x : x \in Queued' <=> x \in Queued /\ x # o

LEMMA nextFacts ==
    ASSUME IInv, next
    PROVE  \E o \in Queued : Delivered(o)
  <1>1. PICK p \in Priority : \E i \in DOMAIN queues[p] :
           /\ Chosen(p, i)
           /\ LET o == queues[p][i]
                  e == event[o]
              IN /\ queues' = [queues EXCEPT ![p] = RemoveAt(@, i)]
                 /\ event' = [event EXCEPT ![o] = None]
                 /\ coalesce' = IF e.key # None /\ coalesce[e.key] = o
                                THEN [coalesce EXCEPT ![e.key] = 0] ELSE coalesce
                 /\ dedupe' = dedupe \ DedupeOf(e)
                 /\ worker' = e
    BY DEF next
  <1>2. PICK i \in DOMAIN queues[p] :
           /\ Chosen(p, i)
           /\ LET o == queues[p][i]
                  e == event[o]
              IN /\ queues' = [queues EXCEPT ![p] = RemoveAt(@, i)]
                 /\ event' = [event EXCEPT ![o] = None]
                 /\ coalesce' = IF e.key # None /\ coalesce[e.key] = o
                                THEN [coalesce EXCEPT ![e.key] = 0] ELSE coalesce
                 /\ dedupe' = dedupe \ DedupeOf(e)
                 /\ worker' = e
    BY <1>1
  <1> DEFINE o == queues[p][i]
  <1>3. QueuesTyped(queues) BY Waiting
  <1>4. queues \in [Priority -> Seq(Order)] /\ queues[p] \in Seq(Order) /\ Simple(queues[p])
    BY <1>3 DEF QueuesTyped
  <1>5. RemoveAt(queues[p], i) \in Seq(Order) BY <1>4, RemoveElement
  <1>6. OnlyQueue(p, queues, queues') /\ queues'[p] = RemoveAt(queues[p], i)
    BY <1>2, <1>4, <1>5 DEF OnlyQueue
  <1>7. Removed(p, o, queues, queues') BY <1>3, <1>6, RemoveFromQueue
  <1>8. o \in Range(queues[p]) BY DEF Range
  <1>9. o \in Queued BY <1>8 DEF Queued
  <1>10. ~hasEarlierForDevice(o) BY <1>2 DEF Chosen
  <1>11. \A r \in Priority : o \in Range(queues[r]) => r = p BY <1>8, Waiting
  <1>12. /\ event' = [event EXCEPT ![o] = None]
         /\ coalesce' = IF event[o].key # None /\ coalesce[event[o].key] = o
                        THEN [coalesce EXCEPT ![event[o].key] = 0] ELSE coalesce
         /\ dedupe' = dedupe \ DedupeOf(event[o])
         /\ worker' = event[o]
    BY <1>2
  <1> HIDE DEF o
  <1>13. ASSUME NEW r \in Priority, NEW x
         PROVE  x \in Range(queues'[r]) <=> x \in Range(queues[r]) /\ x # o
    <2>1. CASE r = p BY <1>7, <2>1 DEF Removed
    <2>2. CASE r # p
      <3>1. queues'[r] = queues[r] BY <1>6, <2>2 DEF OnlyQueue
      <3>2. QED BY <1>11, <2>2, <3>1
    <2>3. QED BY <2>1, <2>2
  <1>14. QueuesTyped(queues') /\ Total(queues') = Total(queues) - 1 BY <1>7 DEF Removed
  <1>15. \A x : x \in Queued' <=> x \in Queued /\ x # o BY <1>13, QueuedNext DEF Queued
  <1>16. QED BY <1>9, <1>10, <1>12, <1>13, <1>14, <1>15 DEF Delivered

LEMMA nextStep ==
    ASSUME IInv, next
    PROVE  IInv'
  <1>1. TypeOK /\ QueueInv /\ CoalesceExact /\ DedupeExact BY DEF IInv
  <1>2. PICK o \in Queued : Delivered(o) BY nextFacts
  <1> USE DEF Delivered
  <1>3. pending > 0 /\ pending' = pending - 1 /\ UNCHANGED <<nextOrder, closed, published>>
    BY DEF next
  <1>4. /\ Queued \subseteq Order /\ o \in Order /\ event[o] \in Event
        /\ \A x \in Queued : event[x] \in Event
    BY Waiting
  <1>5. \A x \in Queued : event[x].key \in CoalesceKey \cup {None} BY <1>4 DEF Event
  <1>6. \A x : x \in Queued' <=> x \in Queued /\ x # o BY <1>2
  <1>7. event'[o] = None /\ \A x \in Order : x # o => event'[x] = event[x]
    BY <1>1, <1>2, <1>4 DEF TypeOK
  <1>8. TypeOK'
    <2>1. queues' \in [Priority -> Seq(Order)] BY <1>2 DEF QueuesTyped
    <2>2. event' \in [Order -> Event \cup {None}] BY <1>1, <1>2, <1>4 DEF TypeOK
    <2>3. coalesce' \in [CoalesceKey -> Order \cup {0}] BY <1>1, <1>2 DEF TypeOK
    <2>4. dedupe' \subseteq DedupeKey BY <1>1, <1>2 DEF TypeOK
    <2>5. pending' \in 0..Capacity BY <1>1, <1>3, BoundAssumption DEF TypeOK
    <2>6. QED BY <1>1, <1>2, <1>3, <1>4, <2>1, <2>2, <2>3, <2>4, <2>5 DEF TypeOK
  <1>9. QueueInv'
    <2>1. \A p \in Priority : Simple(queues'[p]) BY <1>2 DEF QueuesTyped
    <2>2. pending' = Total(queues') BY <1>1, <1>2, <1>3 DEF QueueInv
    <2>3. ASSUME NEW p \in Priority, NEW x \in Range(queues'[p])
          PROVE  x <= nextOrder' /\ event'[x] # None /\ event'[x].priority = p
      <3>1. x \in Range(queues[p]) /\ x # o BY <1>2
      <3>2. x <= nextOrder /\ event[x] # None /\ event[x].priority = p /\ x \in Queued
        BY <1>1, <3>1 DEF QueueInv, Queued
      <3>3. QED BY <1>3, <1>4, <1>7, <3>1, <3>2
    <2>4. \A x \in Order \ Queued' : event'[x] = None
      BY <1>1, <1>6, <1>7 DEF QueueInv
    <2>5. QED BY <2>1, <2>2, <2>3, <2>4 DEF QueueInv, Simple, Total, Range
  <1>10. CoalesceExact'
    <2>1. event[o].key # None => coalesce[event[o].key] = o BY <1>1 DEF CoalesceExact
    <2>2. \A k \in CoalesceKey : coalesce'[k] = IF k = event[o].key /\ k # None THEN 0 ELSE coalesce[k]
      BY <1>1, <1>2, <1>5, <2>1 DEF TypeOK
    <2>3. None \notin CoalesceKey BY NoneAssumption
    <2>4. ASSUME NEW k \in CoalesceKey, coalesce'[k] # 0
          PROVE  coalesce'[k] \in Queued' /\ event'[coalesce'[k]].key = k
      <3>1. k # event[o].key /\ coalesce'[k] = coalesce[k] BY <2>2, <2>3, <2>4
      <3>2. coalesce[k] \in Queued /\ event[coalesce[k]].key = k
        BY <1>1, <2>4, <3>1 DEF CoalesceExact
      <3>3. QED BY <1>4, <1>6, <1>7, <3>1, <3>2
    <2>5. ASSUME NEW x \in Queued', event'[x].key # None
          PROVE  coalesce'[event'[x].key] = x
      <3>1. x \in Queued /\ x # o /\ event'[x] = event[x] BY <1>4, <1>6, <1>7
      <3>2. coalesce[event[x].key] = x /\ event[x].key \in CoalesceKey
        BY <1>1, <1>5, <2>5, <3>1 DEF CoalesceExact
      <3>3. event[x].key # event[o].key BY <2>1, <2>5, <3>1, <3>2
      <3>4. QED BY <2>2, <3>1, <3>2, <3>3
    <2>6. QED BY <2>4, <2>5 DEF CoalesceExact
  <1>11. DedupeExact'
    <2>1. /\ \A k : k \in dedupe <=> \E x \in Queued : k \in DedupeOf(event[x])
          /\ \A x, y \in Queued : \A k : k \in DedupeOf(event[x]) /\ k \in DedupeOf(event[y]) => x = y
      BY <1>1, DedupeElements
    <2>2. \A x \in Queued : x # o => event'[x] = event[x] BY <1>4, <1>7
    <2>3. \A k : k \in dedupe' <=> k \in dedupe /\ k \notin DedupeOf(event[o]) BY <1>2
    <2>4. \A k : k \in dedupe' <=> \E x \in Queued' : k \in DedupeOf(event'[x])
      BY <1>6, <2>1, <2>2, <2>3
    <2>5. \A x, y \in Queued' : \A k : k \in DedupeOf(event'[x]) /\ k \in DedupeOf(event'[y]) => x = y
      BY <1>6, <2>1, <2>2
    <2>6. QED BY <2>4, <2>5, DedupeElementsNext
  <1>12. QED BY <1>8, <1>9, <1>10, <1>11 DEF IInv

\* A step that touches neither the queues nor the indexes.
LEMMA QuietStep ==
    ASSUME IInv, UNCHANGED <<queues, event, coalesce, dedupe, pending, nextOrder>>, TypeOK'
    PROVE  IInv'
  <1>1. QueueInv' BY DEF IInv, QueueInv, Queued
  <1>2. CoalesceExact' BY DEF IInv, CoalesceExact, Queued
  <1>3. DedupeExact' BY DEF IInv, DedupeExact, Queued
  <1>4. QED BY <1>1, <1>2, <1>3 DEF IInv

LEMMA InitHolds == Init => IInv
  <1> SUFFICES ASSUME Init PROVE IInv OBVIOUS
  <1>1. queues = [p \in Priority |-> <<>>] BY DEF Init
  <1>2. \A p \in Priority : queues[p] = <<>> BY <1>1
  <1>3. Range(<<>>) = {} /\ Simple(<<>>) /\ <<>> \in Seq(Order) /\ Len(<<>>) = 0
    BY DEF Range, Simple
  <1>4. Queued = {} BY <1>2, <1>3 DEF Queued
  <1>5. Total(queues) = 0
    <2>1. /\ queues["critical"] = <<>> /\ queues["high"] = <<>>
          /\ queues["normal"] = <<>> /\ queues["low"] = <<>>
      BY <1>2 DEF Priority
    <2>2. QED BY <1>3, <2>1 DEF Total
  <1>6. TypeOK
    <2>1. queues \in [Priority -> Seq(Order)] BY <1>1, <1>3
    <2>2. event \in [Order -> Event \cup {None}] BY DEF Init
    <2>3. coalesce \in [CoalesceKey -> Order \cup {0}] BY DEF Init
    <2>4. pending \in 0..Capacity /\ nextOrder \in 0..published /\ published \in 0..MaxPublish
      BY BoundAssumption DEF Init
    <2>5. QED BY <2>1, <2>2, <2>3, <2>4 DEF Init, TypeOK
  <1>7. QueueInv BY <1>2, <1>3, <1>4, <1>5 DEF QueueInv, Init
  <1>8. CoalesceExact BY <1>4 DEF CoalesceExact, Init
  <1>9. DedupeExact BY <1>4 DEF DedupeExact, Init
  <1>10. QED BY <1>6, <1>7, <1>8, <1>9 DEF IInv

LEMMA PublishStep ==
    ASSUME IInv, NEW offer \in Offer, Publish(offer)
    PROVE  IInv'
  <1> DEFINE e == Incoming(offer)
  <1>1. TypeOK BY DEF IInv
  <1>2. /\ published < MaxPublish /\ published' = published + 1 /\ UNCHANGED <<closed, worker>>
        /\ Refuse(e) \/ Merge(e) \/ Enqueue(e)
    BY DEF Publish
  <1>3. e \in Event BY <1>1, <1>2, IncomingEvent
  <1> HIDE DEF e
  <1>4. CASE Refuse(e)
    <2>1. UNCHANGED <<queues, event, coalesce, dedupe, pending, nextOrder>> BY <1>4 DEF Refuse
    <2>2. TypeOK' BY <1>1, <1>2, <2>1, BoundAssumption DEF TypeOK
    <2>3. QED BY <2>1, <2>2, QuietStep
  <1>5. CASE Merge(e) BY <1>2, <1>3, <1>5, MergeStep
  <1>6. CASE Enqueue(e) BY <1>2, <1>3, <1>6, EnqueueStep
  <1>7. QED BY <1>2, <1>4, <1>5, <1>6

LEMMA StepHolds == IInv /\ [Next]_vars => IInv'
  <1> SUFFICES ASSUME IInv, [Next]_vars PROVE IInv' OBVIOUS
  <1>1. TypeOK BY DEF IInv
  <1>2. ASSUME NEW offer \in Offer, Publish(offer) PROVE IInv' BY <1>2, PublishStep
  <1>3. CASE next BY <1>3, nextStep
  <1>4. CASE Handled
    <2>1. TypeOK' BY <1>1, <1>4 DEF Handled, TypeOK
    <2>2. QED BY <1>4, <2>1, QuietStep DEF Handled
  <1>5. CASE Close
    <2>1. TypeOK' BY <1>1, <1>5 DEF Close, TypeOK
    <2>2. QED BY <1>5, <2>1, QuietStep DEF Close
  <1>6. CASE WorkerReturns
    <2>1. TypeOK' BY <1>1, <1>6 DEF WorkerReturns, TypeOK
    <2>2. QED BY <1>6, <2>1, QuietStep DEF WorkerReturns
  <1>7. CASE UNCHANGED vars
    <2>1. TypeOK' BY <1>1, <1>7 DEF vars, TypeOK
    <2>2. QED BY <1>7, <2>1, QuietStep DEF vars
  <1>8. QED BY <1>2, <1>3, <1>4, <1>5, <1>6, <1>7 DEF Next

\* The inductive invariant: types, and queues, counter and indexes of the shard that
\* describe the same waiting events, each of which has an order already given out.
THEOREM InductiveInvariant == Spec => []IInv
BY InitHolds, StepHolds, PTL DEF Spec

\* The counter, the four queues, the coalesce index and the dedupe index of a shard
\* describe the same set of waiting events, for any capacity and any publications.
THEOREM ShardConsistent == Spec => []ShardInv
  <1>1. IInv => ShardInv BY Same DEF IInv, ShardInv
  <1>2. QED BY <1>1, InductiveInvariant, PTL

\* The earliest waiting event has no earlier one of its device.
LEMMA EarliestFree == ASSUME IInv, pending > 0
                      PROVE  \E o \in Queued : ~hasEarlierForDevice(o)
  <1>1. QueuesTyped(queues) /\ Queued \subseteq Order BY Waiting
  <1>2. Queued # {}
    <2>1. pending = Total(queues) BY DEF IInv, QueueInv
    <2>2. \A p \in Priority : Len(queues[p]) \in Nat
      BY <1>1, LenProperties DEF QueuesTyped
    <2>3. \E p \in Priority : Len(queues[p]) > 0
      <3>1. /\ Len(queues["critical"]) \in Nat /\ Len(queues["high"]) \in Nat
            /\ Len(queues["normal"]) \in Nat /\ Len(queues["low"]) \in Nat
        BY <2>2 DEF Priority
      <3>2. \/ Len(queues["critical"]) > 0 \/ Len(queues["high"]) > 0
            \/ Len(queues["normal"]) > 0 \/ Len(queues["low"]) > 0
        <4> DEFINE a == Len(queues["critical"])
                   b == Len(queues["high"])
                   c == Len(queues["normal"])
                   d == Len(queues["low"])
        <4>1. a \in Nat /\ b \in Nat /\ c \in Nat /\ d \in Nat BY <3>1
        <4>2. pending = a + b + c + d BY <2>1 DEF Total
        <4> HIDE DEF a, b, c, d
        <4>3. a > 0 \/ b > 0 \/ c > 0 \/ d > 0 BY <4>1, <4>2
        <4>4. QED BY <4>3 DEF a, b, c, d
      <3>3. QED BY <3>2 DEF Priority
    <2>4. PICK p \in Priority : Len(queues[p]) > 0 BY <2>3
    <2>5. queues[p] \in Seq(Order) BY <1>1 DEF QueuesTyped
    <2>6. 1 \in DOMAIN queues[p] BY <2>2, <2>4, <2>5, LenProperties
    <2>7. queues[p][1] \in Range(queues[p]) BY <2>6 DEF Range
    <2>8. queues[p][1] \in Queued BY <2>7 DEF Queued
    <2>9. QED BY <2>8
  <1>3. Queued \subseteq Nat BY <1>1 DEF Order
  <1>4. \E o \in Queued : \A x \in Queued : ~(<<x, o>> \in OpToRel(<, Nat))
    BY <1>2, <1>3, NatLessThanWellFounded, WFMin
  <1>5. PICK o \in Queued : \A x \in Queued : ~(<<x, o>> \in OpToRel(<, Nat)) BY <1>4
  <1>6. \A x \in Queued : ~(x < o) BY <1>3, <1>5 DEF OpToRel
  <1>7. QED BY <1>6 DEF hasEarlierForDevice

\* While an event is pending, next finds one to deliver: the panic behind its loops is
\* unreachable.
THEOREM NextNeverPanics == Spec => []NoPanic
  <1>1. IInv => NoPanic BY EarliestFree DEF NoPanic
  <1>2. QED BY <1>1, InductiveInvariant, PTL
-----------------------------------------------------------------------------
(* Every step of the shard is a step of the bus, or changes nothing of it. *)

Slots == {[place |-> o, update |-> BusUpdate(event[o])] : o \in Queued}
Hand == IF worker \in {Idle, Stopped} THEN Idle ELSE BusUpdate(worker)

LEMMA SlotsNext ==
    \A s : s \in Slots' <=> \E o \in Queued' : s = [place |-> o, update |-> BusUpdate(event'[o])]
  BY DEF Slots, BusUpdate

LEMMA UpdateOf ==
    ASSUME NEW e \in Event
    PROVE  /\ BusUpdate(e) \in Bus!Update
           /\ BusUpdate(e).device = e.device /\ BusUpdate(e).key = e.key
           /\ BusUpdate(e).pub = e.pub
  BY DEF BusUpdate, Bus!Update, Event

LEMMA SlotsKept ==
    ASSUME UNCHANGED <<queues, event>>
    PROVE  Slots' = Slots
  BY DEF Slots, Queued, BusUpdate

LEMMA RefuseIsDrop ==
    ASSUME IInv, NEW e \in Event, Refuse(e), published' = published + 1, UNCHANGED worker
    PROVE  Bus!Drop
  <1>1. Slots' = Slots BY SlotsKept DEF Refuse
  <1>2. Hand' = Hand BY DEF Hand, BusUpdate
  <1>3. QED BY <1>1, <1>2 DEF Bus!Drop, Slots, Hand

LEMMA EnqueueIsJoin ==
    ASSUME IInv, NEW e \in Event, e.pub = published + 1, published < MaxPublish,
           Enqueue(e), published' = published + 1, UNCHANGED worker,
           NEW u, u = BusUpdate(e)
    PROVE  Bus!Join(u)
  <1> DEFINE n == nextOrder + 1
  <1>1. TypeOK /\ CoalesceExact BY DEF IInv
  <1>2. nextOrder \in Nat /\ n \in Order /\ n \in 1..MaxPublish
    BY <1>1, BoundAssumption DEF TypeOK, Order
  <1>3. \A o \in Queued : o \in Order /\ o <= nextOrder /\ event[o] \in Event BY Waiting
  <1>4. \A o \in Queued : o < n /\ o # n BY <1>2, <1>3 DEF Order
  <1>5. u.pub = published + 1 /\ u.key = e.key BY UpdateOf
  <1>6. e.key # None => \A o \in Queued : event[o].key # e.key
    <2>1. e.key # None => coalesce[e.key] = 0 BY DEF Enqueue, Merges
    <2>2. \A o \in Queued : event[o].key # None => coalesce[event[o].key] = o
      BY <1>1 DEF CoalesceExact
    <2>3. 0 \notin Queued BY <1>3 DEF Order
    <2>4. QED BY <2>1, <2>2, <2>3
  <1>7. u.key # None => \A s \in Slots : s.update.key # u.key
    BY <1>3, <1>5, <1>6, UpdateOf DEF Slots
  <1>8. \A s \in Slots : s.place < n BY <1>4 DEF Slots
  <1>9. queues' = [queues EXCEPT ![e.priority] = Append(queues[e.priority], n)]
        /\ event' = [event EXCEPT ![n] = e]
    BY <1>1 DEF Enqueue, TypeOK
  <1>10. event'[n] = e /\ \A o \in Queued : event'[o] = event[o]
    BY <1>1, <1>2, <1>3, <1>4, <1>9 DEF TypeOK
  <1>11. \A x : x \in Queued' <=> x \in Queued \/ x = n
    BY <1>9, EnqueueQueued DEF n
  <1> HIDE DEF n
  <1>12. Slots' = Slots \cup {[place |-> n, update |-> u]}
    <2>1. \A s : s \in Slots' <=> s \in Slots \/ s = [place |-> n, update |-> u]
      <3>1. \A s : s \in Slots <=> \E o \in Queued : s = [place |-> o, update |-> BusUpdate(event[o])]
        BY DEF Slots
      <3>2. u = BusUpdate(event'[n]) BY <1>10
      <3>3. QED BY <1>10, <1>11, <3>1, <3>2, SlotsNext
    <2>2. QED BY <2>1
  <1>13. Hand' = Hand BY DEF Hand, BusUpdate
  <1>14. QED BY <1>2, <1>5, <1>7, <1>8, <1>12, <1>13 DEF Bus!Join, Slots, Hand

LEMMA MergeIsReplace ==
    ASSUME IInv, NEW e \in Event, e.pub = published + 1,
           Merge(e), published' = published + 1, UNCHANGED worker,
           NEW u, u = BusUpdate(e)
    PROVE  Bus!Replace(u)
  <1>1. TypeOK BY DEF IInv
  <1>2. PICK o \in Queued, new \in Event : MergedInto(e, o, new) BY MergeFacts
  <1> USE DEF MergedInto
  <1> DEFINE old == [place |-> o, update |-> BusUpdate(event[o])]
             put == [place |-> o, update |-> u]
  <1>3. Queued \subseteq Order /\ o \in Order /\ event[o] \in Event BY Waiting
  <1>4. \A x : x \in Queued' <=> x \in Queued BY <1>2
  <1>5. event'[o] = new /\ \A x \in Queued : x # o => event'[x] = event[x]
    BY <1>1, <1>2, <1>3 DEF TypeOK
  <1>6. BusUpdate(new) = u BY <1>2 DEF BusUpdate
  <1>7. u.pub = published + 1 /\ u.key = e.key /\ u.key # None BY <1>2, UpdateOf
  <1>8. old.update.key = u.key
    <2>1. BusUpdate(event[o]).key = e.key BY <1>2, <1>3, UpdateOf
    <2>2. QED BY <1>7, <2>1
  <1>9. old \in Slots BY DEF Slots
  <1>10. [old EXCEPT !.update = u] = put OBVIOUS
  <1>11. Slots' = (Slots \ {old}) \cup {put}
    <2>1. \A s : s \in Slots <=> \E x \in Queued : s = [place |-> x, update |-> BusUpdate(event[x])]
      BY DEF Slots
    <2>2. \A s : s \in Slots' <=> s = put \/ \E x \in Queued : x # o /\ s = [place |-> x, update |-> BusUpdate(event[x])]
      BY <1>4, <1>5, <1>6, SlotsNext
    <2>3. \A s : s \in Slots /\ s # old <=>
              \E x \in Queued : x # o /\ s = [place |-> x, update |-> BusUpdate(event[x])]
      BY <2>1
    <2>4. QED BY <2>2, <2>3
  <1>12. Hand' = Hand BY DEF Hand, BusUpdate
  <1>13. Slots' = (Slots \ {old}) \cup {[old EXCEPT !.update = u]} BY <1>10, <1>11
  <1> HIDE DEF old, put
  <1>14. QED BY <1>7, <1>8, <1>9, <1>12, <1>13 DEF Bus!Replace, Slots, Hand

LEMMA nextIsTake ==
    ASSUME IInv, next
    PROVE  Bus!Take
  <1>1. TypeOK BY DEF IInv
  <1>2. PICK o \in Queued : Delivered(o) BY nextFacts
  <1> USE DEF Delivered
  <1> DEFINE u == BusUpdate(event[o])
             head == [place |-> o, update |-> u]
  <1>3. \A x \in Queued : x \in Order /\ event[x] \in Event BY Waiting
  <1>4. \A x : x \in Queued' <=> x \in Queued /\ x # o BY <1>2
  <1>5. \A x \in Queued : x # o => event'[x] = event[x] BY <1>1, <1>2, <1>3 DEF TypeOK
  <1>6. head \in Slots BY DEF Slots
  <1>7. \A t \in Slots : t.update.device = head.update.device => head.place <= t.place
    <2>1. ASSUME NEW x \in Queued, BusUpdate(event[x]).device = BusUpdate(event[o]).device
          PROVE  o <= x
      <3>1. event[x].device = event[o].device BY <1>3, <2>1, UpdateOf
      <3>2. ~(x # o /\ x < o) BY <1>2, <3>1 DEF hasEarlierForDevice
      <3>3. x \in Int /\ o \in Int BY <1>3 DEF Order
      <3>4. QED BY <3>2, <3>3
    <2>2. QED BY <2>1 DEF Slots
  <1>8. Slots' = Slots \ {head}
    <2>1. \A s : s \in Slots <=> \E x \in Queued : s = [place |-> x, update |-> BusUpdate(event[x])]
      BY DEF Slots
    <2>2. \A s : s \in Slots' <=> \E x \in Queued : x # o /\ s = [place |-> x, update |-> BusUpdate(event[x])]
      BY <1>4, <1>5, SlotsNext
    <2>3. \A s : s \in Slots /\ s # head <=>
              \E x \in Queued : x # o /\ s = [place |-> x, update |-> BusUpdate(event[x])]
      BY <2>1
    <2>4. QED BY <2>2, <2>3
  <1>9. Hand = Idle BY DEF Hand, next
  <1>10. Hand' = u
    <2>1. worker' \notin {Idle, Stopped} BY <1>2, <1>3, WorkerAssumption
    <2>2. BusUpdate(worker)' = u BY <1>2 DEF BusUpdate
    <2>3. QED BY <2>1, <2>2 DEF Hand
  <1>11. head.update = u OBVIOUS
  <1>12. UNCHANGED published BY DEF next
  <1> HIDE DEF u, head
  <1>13. QED BY <1>6, <1>7, <1>8, <1>9, <1>10, <1>11, <1>12 DEF Bus!Take, Slots, Hand

LEMMA HandledIsFinish ==
    ASSUME IInv, Handled
    PROVE  Bus!Finish \/ UNCHANGED Bus!busVars
  <1>1. Slots' = Slots BY SlotsKept DEF Handled
  <1>2. Hand' = Idle BY DEF Hand, Handled
  <1>3. UNCHANGED published BY DEF Handled
  <1>4. CASE Hand = Idle BY <1>1, <1>2, <1>3, <1>4 DEF Bus!busVars, Slots, Hand
  <1>5. CASE Hand # Idle BY <1>1, <1>2, <1>3, <1>5 DEF Bus!Finish, Slots, Hand
  <1>6. QED BY <1>4, <1>5

LEMMA QuietBus ==
    ASSUME UNCHANGED <<queues, event, published>>, Hand' = Hand
    PROVE  UNCHANGED Bus!busVars
  <1>1. Slots' = Slots BY SlotsKept
  <1>2. QED BY <1>1 DEF Bus!busVars, Slots, Hand

LEMMA PublishOnBus ==
    ASSUME IInv, NEW offer \in Offer, Publish(offer)
    PROVE  Bus!BusNext
  <1>1. TypeOK BY DEF IInv
  <1>2. /\ published < MaxPublish /\ published' = published + 1 /\ UNCHANGED <<closed, worker>>
        /\ Refuse(Incoming(offer)) \/ Merge(Incoming(offer)) \/ Enqueue(Incoming(offer))
    BY DEF Publish
  <1>3. Incoming(offer) \in Event /\ Incoming(offer).pub = published + 1
    BY <1>1, <1>2, IncomingEvent
  <1>4. PICK e \in Event : e = Incoming(offer) BY <1>3
  <1>5. e.pub = published + 1 /\ (Refuse(e) \/ Merge(e) \/ Enqueue(e)) BY <1>2, <1>3, <1>4
  <1>6. PICK u \in Bus!Update : u = BusUpdate(e) BY UpdateOf
  <1>7. worker' = worker BY <1>2
  <1>8. Bus!Drop \/ Bus!Join(u) \/ Bus!Replace(u)
    BY <1>2, <1>5, <1>6, <1>7, RefuseIsDrop, EnqueueIsJoin, MergeIsReplace
  <1>9. QED BY <1>2, <1>8 DEF Bus!BusNext

LEMMA StepOnBus == IInv /\ [Next]_vars => [Bus!BusNext]_(Bus!busVars)
  <1> SUFFICES ASSUME IInv, [Next]_vars PROVE Bus!BusNext \/ UNCHANGED Bus!busVars OBVIOUS
  <1>1. ASSUME NEW offer \in Offer, Publish(offer) PROVE Bus!BusNext BY <1>1, PublishOnBus
  <1>2. CASE next BY <1>2, nextIsTake DEF Bus!BusNext
  <1>3. CASE Handled BY <1>3, HandledIsFinish DEF Bus!BusNext
  <1>4. CASE Close
    <2>1. Hand' = Hand BY <1>4 DEF Hand, BusUpdate, Close
    <2>2. QED BY <1>4, <2>1, QuietBus DEF Close
  <1>5. CASE WorkerReturns
    <2>1. Hand' = Hand BY <1>5 DEF Hand, BusUpdate, WorkerReturns
    <2>2. QED BY <1>5, <2>1, QuietBus DEF WorkerReturns
  <1>6. CASE UNCHANGED vars
    <2>1. Hand' = Hand BY <1>6 DEF Hand, BusUpdate, vars
    <2>2. QED BY <1>6, <2>1, QuietBus DEF vars
  <1>7. QED BY <1>1, <1>2, <1>3, <1>4, <1>5, <1>6 DEF Next

LEMMA InitOnBus == Init => Bus!BusInit
  <1> SUFFICES ASSUME Init PROVE Bus!BusInit OBVIOUS
  <1>1. \A p \in Priority : queues[p] = <<>> BY DEF Init
  <1>2. Range(<<>>) = {} BY DEF Range
  <1>3. Slots = {} BY <1>1, <1>2 DEF Queued, Slots
  <1>4. Hand = Idle /\ published = 0 BY DEF Hand, Init
  <1>5. QED BY <1>3, <1>4 DEF Bus!BusInit, Slots, Hand

\* The shard implements DeviceBus: whatever priorities, merges, refusals and Close do, the
\* updates of a device are handled in the order of their places in its line.
THEOREM Refinement == Spec => ImplementsDeviceBus
BY InductiveInvariant, InitOnBus, StepOnBus, PTL DEF Spec, ImplementsDeviceBus, Bus!BusSpec
=============================================================================
