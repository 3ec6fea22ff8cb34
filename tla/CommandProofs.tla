--------------------------- MODULE CommandProofs ---------------------------
(***************************************************************************)
(* TLAPS proofs about CommandTracker and PropertyWrites, for every set of  *)
(* ids, keys, values, scopes and requests.                                 *)
(*                                                                         *)
(* The tracker first.  Its invariants are stated on explicit maps, so that *)
(* a step is proved in two halves: the operation's own update, and the     *)
(* trimming of the history that follows it and removes terminal records    *)
(* only.                                                                   *)
(*                                                                         *)
(* Then the property writes, which are built on the tracker.  Their        *)
(* invariant WInv says, request by request, what holds at each label of    *)
(* the code; a step moves one request, and the others keep their part of   *)
(* the invariant because commands only age and owned values only fade.     *)
(***************************************************************************)
EXTENDS PropertyWrites, FiniteSetTheorems, TLAPS

CommandMap == [Id -> Command \cup {None}]
PendingMap == [Key -> Id \cup {None}]
ScopeMap == [Scope -> Id \cup {None}]

IsLive(c, id) == c[id] # None /\ c[id].status \notin TerminalStatus

\* PendingExact, of a command map and a pending index.
PendOK(c, p) ==
    /\ \A k \in Key : p[k] # None => IsLive(c, p[k]) /\ c[p[k]].key = k
    /\ \A id \in Id : IsLive(c, id) /\ c[id].key # None => p[c[id].key] = id

\* ScopesExact, of a command map and an idempotency index.
ScopeOK(c, d) ==
    /\ \A s \in Scope : d[s] # None => c[d[s]] # None /\ c[d[s]].scope = s
    /\ \A id \in Id : c[id] # None /\ c[id].scope # None => d[c[id].scope] = id

\* A retained record has an id that was handed out.
RetainedUsed == \A id \in Id : commands[id] # None => id \in used

IInv == TypeOK /\ PendingExact /\ ScopesExact /\ RetainedUsed

\* What trimming the history does to the maps: only terminal records go.
Trimmed(c, cc, d, dd) ==
    \E R \in SUBSET Terminals(c) :
        /\ cc = Evict(R, c)
        /\ dd = [s \in Scope |-> IF d[s] \in R THEN None ELSE d[s]]
-----------------------------------------------------------------------------
\* Evictions chooses among the terminal records.
LEMMA EvictionsTerminal ==
    ASSUME NEW c, NEW n, NEW R \in Evictions(c, n)
    PROVE  R \in SUBSET Terminals(c)
  BY DEF Evictions

\* The two formulations of the invariants agree.
LEMMA PendOKEquiv ==
    ASSUME TypeOK PROVE PendingExact <=> PendOK(commands, pending)
  BY NoneAssumption DEF TypeOK, PendingExact, PendOK, IsLive, Live, Retained, Terminals

LEMMA ScopeOKEquiv ==
    ASSUME TypeOK PROVE ScopesExact <=> ScopeOK(commands, idempotency)
  BY NoneAssumption DEF TypeOK, ScopesExact, ScopeOK, Retained

\* Trimming preserves types, both indexes and the freshness of ids.
LEMMA TrimPreserves ==
    ASSUME NEW c \in CommandMap, NEW p \in PendingMap, NEW d \in ScopeMap,
           NEW cc, NEW dd, Trimmed(c, cc, d, dd)
    PROVE  /\ cc \in CommandMap
           /\ dd \in ScopeMap
           /\ PendOK(c, p) => PendOK(cc, p)
           /\ ScopeOK(c, d) => ScopeOK(cc, dd)
           /\ \A id \in Id : cc[id] # None => c[id] # None
  <1>1. PICK R \in SUBSET Terminals(c) :
            /\ cc = Evict(R, c)
            /\ dd = [s \in Scope |-> IF d[s] \in R THEN None ELSE d[s]]
    BY DEF Trimmed
  <1>2. cc \in CommandMap /\ dd \in ScopeMap
    BY <1>1 DEF Evict, CommandMap, ScopeMap
  <1>3. \A id \in Id : cc[id] = IF id \in R THEN None ELSE c[id]
    BY <1>1 DEF Evict
  <1>4. \A id \in R : id \in Id /\ c[id] # None /\ c[id].status \in TerminalStatus
    BY <1>1 DEF Terminals, Retained
  <1>5. PendOK(c, p) => PendOK(cc, p)
    BY <1>3, <1>4 DEF PendOK, IsLive, PendingMap
  <1>6. ASSUME ScopeOK(c, d) PROVE ScopeOK(cc, dd)
    <2>1. \A s \in Scope : dd[s] = IF d[s] \in R THEN None ELSE d[s]
      BY <1>1
    <2>2. ASSUME NEW s \in Scope, dd[s] # None
          PROVE  cc[dd[s]] # None /\ cc[dd[s]].scope = s
      BY <2>1, <2>2, <1>3, <1>6 DEF ScopeOK, ScopeMap
    <2>3. ASSUME NEW id \in Id, cc[id] # None, cc[id].scope # None
          PROVE  dd[cc[id].scope] = id
      <3>1. id \notin R /\ c[id] = cc[id]
        BY <1>3, <2>3
      <3>2. c[id] \in Command
        BY <3>1, <2>3 DEF CommandMap
      <3>3. c[id].scope \in Scope
        BY <3>2, <3>1, <2>3 DEF Command
      <3>4. QED
        BY <3>1, <3>3, <2>1, <2>3, <1>6 DEF ScopeOK
    <2>4. QED BY <2>2, <2>3 DEF ScopeOK
  <1>7. QED BY <1>2, <1>3, <1>5, <1>6

\* StoreAndTrim stores a trimmed copy of its argument.
LEMMA StoreAndTrimTrims ==
    ASSUME NEW c, StoreAndTrim(c)
    PROVE  Trimmed(c, commands', idempotency, idempotency')
  BY EvictionsTerminal DEF StoreAndTrim, Trimmed, EvictScopes
-----------------------------------------------------------------------------
\* The invariant in terms of the maps: what every step proof needs and shows.
LEMMA IInvMaps ==
    IInv <=> /\ TypeOK
             /\ PendOK(commands, pending)
             /\ ScopeOK(commands, idempotency)
             /\ RetainedUsed
  BY PendOKEquiv, ScopeOKEquiv DEF IInv

LEMMA IInvMapsPrime ==
    ASSUME TypeOK', PendOK(commands', pending'), ScopeOK(commands', idempotency'),
           RetainedUsed'
    PROVE  IInv'
  <1>1. PendingExact'
    BY NoneAssumption DEF TypeOK, PendingExact, PendOK, IsLive, Live, Retained, Terminals
  <1>2. ScopesExact'
    BY NoneAssumption DEF TypeOK, ScopesExact, ScopeOK, Retained
  <1>3. QED BY <1>1, <1>2 DEF IInv

\* An operation that rewrites the command map to c, leaving the sets of used ids
\* and the scopes alone, and then trims: it is enough that c is well indexed.
LEMMA TrimStep ==
    ASSUME IInv, NEW c \in CommandMap, pending' \in PendingMap,
           Trimmed(c, commands', idempotency, idempotency'),
           PendOK(c, pending'), ScopeOK(c, idempotency),
           \A id \in Id : c[id] # None => commands[id] # None,
           UNCHANGED <<timeout, used, clock>>, maxItems' \in Nat \ {0}
    PROVE  IInv'
  <1>1. idempotency \in ScopeMap
    BY DEF IInv, TypeOK, ScopeMap
  <1>2. /\ commands' \in CommandMap /\ idempotency' \in ScopeMap
        /\ PendOK(commands', pending') /\ ScopeOK(commands', idempotency')
        /\ \A id \in Id : commands'[id] # None => c[id] # None
    BY <1>1, TrimPreserves
  <1>3. TypeOK'
    BY <1>2 DEF IInv, TypeOK, CommandMap, ScopeMap, PendingMap
  <1>4. RetainedUsed'
    BY <1>2 DEF IInv, RetainedUsed
  <1>5. QED BY <1>2, <1>3, <1>4, IInvMapsPrime

\* c is the command map after the records of F got a terminal status, p the pending
\* index after their keys were cleared.
Finishes(F, c, p) ==
    /\ \A i \in F : /\ c[i] \in Command /\ c[i].status \in TerminalStatus
                    /\ c[i].key = commands[i].key /\ c[i].scope = commands[i].scope
    /\ \A i \in Id \ F : c[i] = commands[i]
    /\ \A k \in Key : p[k] = IF \E i \in F : commands[i].key = k THEN None ELSE pending[k]

\* Finishing live records keeps both indexes exact.
LEMMA FinishStep ==
    ASSUME IInv, NEW F \in SUBSET Id, \A i \in F : Live(i),
           NEW c \in [Id -> Command \cup {None}], NEW p \in PendingMap, Finishes(F, c, p)
    PROVE  /\ PendOK(c, p)
           /\ ScopeOK(c, idempotency)
           /\ \A i \in Id : c[i] # None => commands[i] # None
  <1>1. commands \in CommandMap /\ pending \in PendingMap /\ idempotency \in ScopeMap
    BY DEF IInv, TypeOK, CommandMap, PendingMap, ScopeMap
  <1>2. \A i \in F : IsLive(commands, i)
    BY DEF Live, Retained, Terminals, IsLive
  <1>3. \A i \in F : c[i] # None /\ ~IsLive(c, i)
    BY NoneIsNoCommand DEF Finishes, IsLive
  <1>4. PendOK(commands, pending) /\ ScopeOK(commands, idempotency)
    BY IInvMaps
  <1>5. PendOK(c, p)
    <2>1. ASSUME NEW k \in Key, p[k] # None
          PROVE  IsLive(c, p[k]) /\ c[p[k]].key = k
      <3>1. pending[k] = p[k] /\ ~\E i \in F : commands[i].key = k
        BY <2>1 DEF Finishes
      <3>2. p[k] \in Id /\ IsLive(commands, p[k]) /\ commands[p[k]].key = k
        BY <3>1, <2>1, <1>1, <1>4 DEF PendOK, PendingMap
      <3>3. p[k] \notin F BY <3>1, <3>2
      <3>4. QED BY <3>2, <3>3 DEF IsLive, Finishes
    <2>2. ASSUME NEW i \in Id, IsLive(c, i), c[i].key # None
          PROVE  p[c[i].key] = i
      <3>1. i \notin F /\ c[i] = commands[i]
        BY <2>2, <1>3 DEF Finishes
      <3>2. commands[i].key \in Key /\ pending[commands[i].key] = i
        BY <3>1, <2>2, <1>1, <1>4 DEF PendOK, IsLive, CommandMap, Command
      <3>3. \A j \in F : commands[j].key # commands[i].key
        BY <3>1, <3>2, <1>2, <1>4, NoneAssumption DEF PendOK
      <3>4. QED BY <3>1, <3>2, <3>3 DEF Finishes
    <2>3. QED BY <2>1, <2>2 DEF PendOK
  <1>6. \A i \in Id : c[i] # None => commands[i] # None
    BY <1>2 DEF Finishes, IsLive
  <1>7. \A i \in Id : commands[i] # None => c[i] # None /\ c[i].scope = commands[i].scope
    BY <1>3 DEF Finishes
  <1>8. ScopeOK(c, idempotency)
    BY <1>4, <1>6, <1>7, <1>1 DEF ScopeOK, ScopeMap
  <1>9. QED BY <1>5, <1>6, <1>8

\* c holds the records of b up to fields no index depends on.
Relabels(b, c) ==
    \A i \in Id : /\ c[i] # None <=> b[i] # None
                  /\ IsLive(c, i) <=> IsLive(b, i)
                  /\ b[i] # None => c[i].key = b[i].key /\ c[i].scope = b[i].scope

LEMMA RelabelStep ==
    ASSUME NEW b \in CommandMap, NEW c \in CommandMap, Relabels(b, c),
           NEW p \in PendingMap, NEW d \in ScopeMap, PendOK(b, p), ScopeOK(b, d)
    PROVE  PendOK(c, p) /\ ScopeOK(c, d)
  <1>1. PendOK(c, p)
    BY DEF PendOK, PendingMap, IsLive, Relabels
  <1>2. ScopeOK(c, d)
    BY DEF ScopeOK, ScopeMap, Relabels
  <1>3. QED BY <1>1, <1>2

\* The invariant as facts about the maps.
LEMMA IInvFacts ==
    ASSUME IInv
    PROVE  /\ commands \in CommandMap /\ pending \in PendingMap /\ idempotency \in ScopeMap
           /\ PendOK(commands, pending) /\ ScopeOK(commands, idempotency)
  BY IInvMaps DEF IInv, TypeOK, CommandMap, PendingMap, ScopeMap

\* A record with another status, or with another count of merged requests, has
\* the same key and scope.
LEMMA StatusRecord ==
    ASSUME NEW r \in Command, NEW st \in Status
    PROVE  /\ [r EXCEPT !.status = st] \in Command
           /\ [r EXCEPT !.status = st].status = st
           /\ [r EXCEPT !.status = st].key = r.key
           /\ [r EXCEPT !.status = st].scope = r.scope
  BY DEF Command

LEMMA CoalescedRecord ==
    ASSUME NEW r \in Command, NEW n \in Nat
    PROVE  /\ [r EXCEPT !.coalesced = n] \in Command
           /\ [r EXCEPT !.coalesced = n].status = r.status
           /\ [r EXCEPT !.coalesced = n].key = r.key
           /\ [r EXCEPT !.coalesced = n].scope = r.scope
  BY DEF Command

\* One live record gets a status: the map after the update.
LEMMA StatusUpdate ==
    ASSUME IInv, NEW id \in Id, Live(id), NEW st \in Status
    PROVE  LET c == [commands EXCEPT ![id].status = st]
           IN  /\ c \in [Id -> Command \cup {None}]
               /\ c[id] \in Command /\ c[id].status = st
               /\ c[id].key = commands[id].key /\ c[id].scope = commands[id].scope
               /\ \A i \in Id \ {id} : c[i] = commands[i]
  <1> DEFINE c == [commands EXCEPT ![id].status = st]
  <1>1. commands \in [Id -> Command \cup {None}] BY DEF IInv, TypeOK
  <1>2. PICK r \in Command : r = commands[id] BY <1>1 DEF Live, Retained
  <1>3. c[id] = [r EXCEPT !.status = st] BY <1>1, <1>2
  <1>4. \A i \in Id \ {id} : c[i] = commands[i] BY <1>1
  <1>0. c = [i \in Id |-> c[i]] BY <1>1
  <1> HIDE DEF c
  <1>5. c[id] \in Command /\ c[id].status = st
        /\ c[id].key = commands[id].key /\ c[id].scope = commands[id].scope
    BY <1>2, <1>3, StatusRecord
  <1>6. c \in [Id -> Command \cup {None}] BY <1>0, <1>1, <1>4, <1>5
  <1>7. QED BY <1>4, <1>5, <1>6 DEF c
-----------------------------------------------------------------------------
\* Each operation preserves the invariant.
LEMMA SetMaxItemsStep ==
    ASSUME IInv, NEW limit \in Limits, SetMaxItems(limit) PROVE IInv'
  <1>1. maxItems' \in Nat \ {0}
    BY LimitAssumption DEF SetMaxItems
  <1>2. Trimmed(commands, commands', idempotency, idempotency')
    BY EvictionsTerminal DEF SetMaxItems, Trimmed, EvictScopes
  <1>3. commands \in CommandMap /\ pending' \in PendingMap
    BY DEF IInv, TypeOK, CommandMap, PendingMap, SetMaxItems
  <1>4. PendOK(commands, pending') /\ ScopeOK(commands, idempotency)
    BY IInvMaps DEF SetMaxItems
  <1>5. UNCHANGED <<timeout, used, clock>> BY DEF SetMaxItems
  <1>6. QED BY <1>1, <1>2, <1>3, <1>4, <1>5, TrimStep

LEMMA SupersedeStep ==
    ASSUME IInv, NEW id \in Id, Supersede(id) PROVE IInv'
  <1> DEFINE c == [commands EXCEPT ![id].status = "superseded"]
  <1>1. Live(id) BY DEF Supersede
  <1>2. "superseded" \in TerminalStatus /\ "superseded" \in Status
    BY DEF TerminalStatus, Status
  <1>3. /\ c \in [Id -> Command \cup {None}]
        /\ c[id] \in Command /\ c[id].status = "superseded"
        /\ c[id].key = commands[id].key /\ c[id].scope = commands[id].scope
        /\ \A i \in Id \ {id} : c[i] = commands[i]
    BY <1>1, <1>2, StatusUpdate
  <1>4. pending' \in PendingMap
    BY DEF Supersede, IInv, TypeOK, PendingMap
  <1>5. \A k \in Key : commands[id].key = k => pending[k] = id
    BY <1>1, IInvMaps, NoneAssumption DEF PendOK, IsLive, Live, Retained, Terminals
  <1>6. Finishes({id}, c, pending')
    BY <1>2, <1>3, <1>5 DEF Finishes, Supersede
  <1>7. PendOK(c, pending') /\ ScopeOK(c, idempotency)
        /\ \A i \in Id : c[i] # None => commands[i] # None
    BY <1>1, <1>3, <1>4, <1>6, FinishStep
  <1>8. Trimmed(c, commands', idempotency, idempotency')
    BY StoreAndTrimTrims DEF Supersede
  <1>9. UNCHANGED <<timeout, used, clock>> /\ maxItems' \in Nat \ {0}
    BY DEF Supersede, IInv, TypeOK
  <1>10. QED BY <1>3, <1>4, <1>7, <1>8, <1>9, TrimStep DEF CommandMap

LEMMA transitionStep ==
    ASSUME IInv, NEW id \in Id, NEW st \in {"sent", "accepted", "confirmed", "rejected"},
           transition(id, st)
    PROVE  IInv'
  <1> DEFINE c == [commands EXCEPT ![id].status = st]
  <1>1. Live(id) BY DEF transition
  <1>2. st \in Status BY DEF TerminalStatus, Status
  <1>3. /\ c \in [Id -> Command \cup {None}]
        /\ c[id] \in Command /\ c[id].status = st
        /\ c[id].key = commands[id].key /\ c[id].scope = commands[id].scope
        /\ \A i \in Id \ {id} : c[i] = commands[i]
    BY <1>1, <1>2, StatusUpdate
  <1>4. commands[id] # None /\ commands[id].status \notin TerminalStatus
    BY <1>1 DEF Live, Retained, Terminals
  <1>5. UNCHANGED <<timeout, used, clock>> /\ maxItems' \in Nat \ {0}
    BY DEF transition, IInv, TypeOK
  <1>6. CASE st \in TerminalStatus
    <2>1. pending' = ClearKey(commands, id) /\ StoreAndTrim(c)
      BY <1>6 DEF transition
    <2>2. pending' \in PendingMap
      BY <2>1 DEF ClearKey, IInv, TypeOK, PendingMap
    <2>3. Finishes({id}, c, pending')
      BY <1>3, <1>6, <2>1 DEF Finishes, ClearKey
    <2>4. PendOK(c, pending') /\ ScopeOK(c, idempotency)
          /\ \A i \in Id : c[i] # None => commands[i] # None
      BY <1>1, <1>3, <2>2, <2>3, FinishStep
    <2>5. Trimmed(c, commands', idempotency, idempotency')
      BY <2>1, StoreAndTrimTrims
    <2>6. QED BY <1>3, <1>5, <2>2, <2>4, <2>5, TrimStep DEF CommandMap
  <1>7. CASE st \notin TerminalStatus
    <2>1. commands' = c /\ UNCHANGED <<idempotency, pending>>
      BY <1>7 DEF transition
    <2>2. TypeOK' BY <2>1, <1>3, <1>5 DEF IInv, TypeOK
    <2>3. Relabels(commands, c)
      <3> HIDE DEF c
      <3>1. QED BY <1>3, <1>4, <1>7, NoneIsNoCommand DEF IsLive, Relabels
    <2>4. PendOK(c, pending) /\ ScopeOK(c, idempotency)
      <3> HIDE DEF c
      <3>1. c \in CommandMap BY <1>3 DEF CommandMap
      <3>2. QED BY <3>1, <2>3, IInvFacts, RelabelStep
    <2>5. RetainedUsed'
      BY <2>1, <2>3, <1>5 DEF RetainedUsed, Relabels, IInv
    <2>6. QED BY <2>1, <2>2, <2>4, <2>5, IInvMapsPrime
  <1>8. QED BY <1>6, <1>7

LEMMA ConfirmStep ==
    ASSUME IInv, NEW k \in Key, NEW v \in Value, Confirm(k, v) PROVE IInv'
  <1> DEFINE id == pending[k]
             c == [commands EXCEPT ![id].status = "confirmed"]
  <1>1. id \in Id /\ Live(id) /\ commands[id].key = k
    BY DEF IInv, TypeOK, PendingExact, Confirm
  <1>2. "confirmed" \in TerminalStatus /\ "confirmed" \in Status
    BY DEF TerminalStatus, Status
  <1>3. /\ c \in [Id -> Command \cup {None}]
        /\ c[id] \in Command /\ c[id].status = "confirmed"
        /\ c[id].key = commands[id].key /\ c[id].scope = commands[id].scope
        /\ \A i \in Id \ {id} : c[i] = commands[i]
    BY <1>1, <1>2, StatusUpdate
  <1>4. pending' \in PendingMap
    BY DEF Confirm, IInv, TypeOK, PendingMap
  <1>5. Finishes({id}, c, pending')
    <2>1. \A j \in Key : pending'[j] = IF commands[id].key = j THEN None ELSE pending[j]
      BY <1>1 DEF Confirm, IInv, TypeOK
    <2> HIDE DEF c
    <2>2. QED BY <1>2, <1>3, <2>1 DEF Finishes
  <1>6. PendOK(c, pending') /\ ScopeOK(c, idempotency)
        /\ \A i \in Id : c[i] # None => commands[i] # None
    <2>1. {id} \in SUBSET Id /\ \A i \in {id} : Live(i) BY <1>1
    <2> HIDE DEF c, id
    <2>2. QED BY <1>3, <1>4, <1>5, <2>1, FinishStep
  <1>7. Trimmed(c, commands', idempotency, idempotency')
    BY StoreAndTrimTrims DEF Confirm
  <1>8. UNCHANGED <<timeout, used, clock>> /\ maxItems' \in Nat \ {0}
    BY DEF Confirm, IInv, TypeOK
  <1>9. QED BY <1>3, <1>4, <1>6, <1>7, <1>8, TrimStep DEF CommandMap

LEMMA ExpireStep ==
    ASSUME IInv, NEW at \in 0..clock, Expire(at) PROVE IInv'
  <1> DEFINE F == Overdue(at)
             c == [i \in Id |-> IF i \in F THEN [commands[i] EXCEPT !.status = "timeout"]
                                          ELSE commands[i]]
  <1>1. F \in SUBSET Id /\ \A i \in F : Live(i)
    BY DEF Overdue
  <1>2. "timeout" \in TerminalStatus /\ "timeout" \in Status
    BY DEF TerminalStatus, Status
  <1>3. ASSUME NEW i \in F
        PROVE  /\ c[i] \in Command /\ c[i].status = "timeout"
               /\ c[i].key = commands[i].key /\ c[i].scope = commands[i].scope
    <2>1. PICK r \in Command : r = commands[i]
      BY <1>1 DEF IInv, TypeOK, Live, Retained
    <2>2. c[i] = [r EXCEPT !.status = "timeout"] BY <1>1, <2>1
    <2> HIDE DEF c
    <2>3. QED BY <1>2, <2>1, <2>2, StatusRecord
  <1>4. \A i \in Id \ F : c[i] = commands[i] OBVIOUS
  <1>5. c \in [Id -> Command \cup {None}]
    <2>1. \A i \in Id : c[i] \in Command \cup {None}
      BY <1>3, <1>4 DEF IInv, TypeOK
    <2>2. c = [i \in Id |-> c[i]] OBVIOUS
    <2> HIDE DEF c
    <2>3. QED BY <2>1, <2>2
  <1>6. /\ StoreAndTrim(c)
        /\ pending' = [k \in Key |-> IF \E i \in F : commands[i].key = k
                                     THEN None ELSE pending[k]]
        /\ UNCHANGED <<maxItems, timeout, used, clock>>
    BY DEF Expire
  <1> HIDE DEF c, F
  <1>7. pending' \in PendingMap
    BY <1>6 DEF IInv, TypeOK, PendingMap
  <1>8. Finishes(F, c, pending')
    BY <1>2, <1>3, <1>4, <1>6 DEF Finishes
  <1>9. PendOK(c, pending') /\ ScopeOK(c, idempotency)
        /\ \A i \in Id : c[i] # None => commands[i] # None
    BY <1>1, <1>5, <1>7, <1>8, FinishStep
  <1>10. Trimmed(c, commands', idempotency, idempotency')
    BY <1>6, StoreAndTrimTrims
  <1>11. maxItems' \in Nat \ {0} BY <1>6 DEF IInv, TypeOK
  <1>12. QED BY <1>5, <1>6, <1>7, <1>9, <1>10, <1>11, TrimStep DEF CommandMap

LEMMA AddCoalescedStep ==
    ASSUME IInv, NEW id \in Id, AddCoalesced(id) PROVE IInv'
  <1> DEFINE c == [commands EXCEPT ![id].coalesced = @ + 1]
  <1>1. commands' = c /\ UNCHANGED <<pending, idempotency, maxItems, timeout, used, clock>>
    BY DEF AddCoalesced
  <1>2. commands \in CommandMap BY DEF IInv, TypeOK, CommandMap
  <1>3. PICK r \in Command : r = commands[id]
    BY <1>2 DEF AddCoalesced, Retained, CommandMap
  <1>4. r.coalesced + 1 \in Nat BY DEF Command
  <1>5. c[id] = [r EXCEPT !.coalesced = r.coalesced + 1]
    BY <1>2, <1>3 DEF CommandMap
  <1>6. \A i \in Id \ {id} : c[i] = commands[i] BY <1>2 DEF CommandMap
  <1>7. c = [i \in Id |-> c[i]] BY <1>2 DEF CommandMap
  <1> HIDE DEF c
  <1>8. c[id] \in Command /\ c[id].status = commands[id].status
        /\ c[id].key = commands[id].key /\ c[id].scope = commands[id].scope
    BY <1>3, <1>4, <1>5, CoalescedRecord
  <1>9. c \in CommandMap BY <1>2, <1>6, <1>7, <1>8 DEF CommandMap
  <1>10. Relabels(commands, c)
    BY <1>3, <1>6, <1>8, NoneIsNoCommand DEF Relabels, IsLive
  <1>11. PendOK(c, pending) /\ ScopeOK(c, idempotency)
    BY <1>9, <1>10, IInvFacts, RelabelStep
  <1>12. TypeOK' BY <1>1, <1>9 DEF IInv, TypeOK, CommandMap
  <1>13. RetainedUsed' BY <1>1, <1>10 DEF RetainedUsed, Relabels, IInv
  <1>14. QED BY <1>1, <1>11, <1>12, <1>13, IInvMapsPrime

\* The maps after the prune that opens BeginPropertyCorrelated and
\* BeginActionIdempotentCorrelated.
LEMMA PruneFacts ==
    ASSUME IInv, NEW R \in Evictions(commands, maxItems - 1)
    PROVE  /\ Evict(R, commands) \in CommandMap /\ EvictScopes(R) \in ScopeMap
           /\ PendOK(Evict(R, commands), pending)
           /\ ScopeOK(Evict(R, commands), EvictScopes(R))
           /\ \A i \in Id : Evict(R, commands)[i] # None => i \in used
           /\ \A s \in Scope : idempotency[s] = None => EvictScopes(R)[s] = None
  <1>1. R \in SUBSET Terminals(commands) BY EvictionsTerminal
  <1>2. Trimmed(commands, Evict(R, commands), idempotency, EvictScopes(R))
    BY <1>1 DEF Trimmed, EvictScopes
  <1>3. \A s \in Scope : idempotency[s] = None => EvictScopes(R)[s] = None
    BY DEF EvictScopes
  <1>4. /\ Evict(R, commands) \in CommandMap /\ EvictScopes(R) \in ScopeMap
        /\ PendOK(Evict(R, commands), pending)
        /\ ScopeOK(Evict(R, commands), EvictScopes(R))
        /\ \A i \in Id : Evict(R, commands)[i] # None => commands[i] # None
    BY <1>2, IInvFacts, TrimPreserves
  <1>5. QED BY <1>3, <1>4 DEF IInv, RetainedUsed

LEMMA CoalescePropertyStep ==
    ASSUME IInv, NEW k \in Key, NEW v \in Value, CoalesceProperty(k, v) PROVE IInv'
  <1>1. PICK R \in Evictions(commands, maxItems - 1) :
            /\ commands' = [Evict(R, commands) EXCEPT ![pending[k]].coalesced = @ + 1]
            /\ idempotency' = EvictScopes(R)
    BY DEF CoalesceProperty
  <1>2. UNCHANGED <<pending, maxItems, timeout, used, clock>> /\ pending[k] # None
    BY DEF CoalesceProperty
  <1> DEFINE b == Evict(R, commands)
             c == commands'
             id == pending[k]
  <1>3. /\ b \in CommandMap /\ EvictScopes(R) \in ScopeMap
        /\ PendOK(b, pending) /\ ScopeOK(b, EvictScopes(R))
        /\ \A i \in Id : b[i] # None => i \in used
    BY PruneFacts
  <1>4. pending \in PendingMap BY IInvFacts
  <1> HIDE DEF b
  <1>5. id \in Id /\ IsLive(b, id)
    BY <1>2, <1>3, <1>4 DEF PendOK, PendingMap
  <1>6. PICK r \in Command : r = b[id]
    BY <1>3, <1>5 DEF CommandMap, IsLive
  <1>7. c = [b EXCEPT ![id].coalesced = @ + 1] BY <1>1 DEF b
  <1>8. c[id] = [r EXCEPT !.coalesced = r.coalesced + 1]
        /\ (\A i \in Id \ {id} : c[i] = b[i]) /\ c = [i \in Id |-> c[i]]
    BY <1>3, <1>5, <1>6, <1>7 DEF CommandMap
  <1> HIDE DEF c, id
  <1>9. r.coalesced + 1 \in Nat BY DEF Command
  <1>10. c[id] \in Command /\ c[id].status = r.status /\ c[id].key = r.key /\ c[id].scope = r.scope
    BY <1>8, <1>9, CoalescedRecord
  <1>11. c \in CommandMap BY <1>3, <1>8, <1>10 DEF CommandMap
  <1>12. Relabels(b, c)
    BY <1>5, <1>6, <1>8, <1>10, NoneIsNoCommand DEF Relabels, IsLive
  <1>13. PendOK(c, pending) /\ ScopeOK(c, EvictScopes(R))
    BY <1>3, <1>4, <1>11, <1>12, RelabelStep
  <1>14. TypeOK'
    BY <1>1, <1>2, <1>3, <1>11 DEF IInv, TypeOK, CommandMap, ScopeMap, c
  <1>15. RetainedUsed'
    BY <1>2, <1>3, <1>12 DEF RetainedUsed, Relabels, c
  <1>16. QED BY <1>1, <1>2, <1>13, <1>14, <1>15, IInvMapsPrime DEF c

\* A new record is a queued command with the given key and scope.
LEMMA NewCommandFacts ==
    ASSUME IInv, NEW k \in Key \cup {None}, NEW s \in Scope \cup {None},
           NEW v \in Value \cup {None}, NEW at \in 0..clock
    PROVE  LET n == NewCommand(k, s, v, at)
           IN  n \in Command /\ n.key = k /\ n.scope = s /\ n.status \notin TerminalStatus
  <1>1. at \in Nat /\ at + timeout \in Nat
    BY TimeoutAssumption DEF IInv, TypeOK
  <1>2. QED
    BY <1>1 DEF NewCommand, Command, Status, TerminalStatus

LEMMA ReplacePropertyStep ==
    ASSUME IInv, NEW k \in Key, NEW v \in Value, NEW id \in Id, NEW at \in 0..clock,
           ReplaceProperty(k, v, id, at)
    PROVE  IInv'
  <1>1. PICK R \in Evictions(commands, maxItems - 1) :
            /\ commands' = [SupersedePending(Evict(R, commands), k)
                               EXCEPT ![id] = NewCommand(k, None, v, at)]
            /\ idempotency' = EvictScopes(R)
    BY DEF ReplaceProperty
  <1>2. /\ id \notin used /\ pending' = [pending EXCEPT ![k] = id]
        /\ used' = used \cup {id} /\ UNCHANGED <<maxItems, timeout, clock>>
    BY DEF ReplaceProperty
  <1> DEFINE b == Evict(R, commands)
             c == commands'
             n == NewCommand(k, None, v, at)
             q == pending[k]
  <1>3. /\ b \in CommandMap /\ EvictScopes(R) \in ScopeMap
        /\ PendOK(b, pending) /\ ScopeOK(b, EvictScopes(R))
        /\ \A i \in Id : b[i] # None => i \in used
    BY PruneFacts
  <1>4. pending \in PendingMap BY IInvFacts
  <1>5. n \in Command /\ n.key = k /\ n.scope = None /\ n.status \notin TerminalStatus
    BY NewCommandFacts
  <1>6. c = [SupersedePending(b, k) EXCEPT ![id] = n] BY <1>1
  <1> HIDE DEF b, n
  <1>7. b[id] = None BY <1>2, <1>3
  <1>8. q # None => q \in Id /\ IsLive(b, q) /\ b[q].key = k /\ q # id
    BY <1>3, <1>4, <1>7 DEF PendOK, PendingMap, IsLive
  <1>9. /\ c \in CommandMap /\ c[id] = n
        /\ \A i \in Id \ {id, q} : c[i] = b[i]
        /\ q # None => c[q] \in Command /\ ~IsLive(c, q)
                        /\ c[q].scope = b[q].scope
    <2>1. CASE q = None
      <3>1. c = [b EXCEPT ![id] = n] BY <1>6, <2>1 DEF SupersedePending
      <3>2. QED BY <2>1, <3>1, <1>3, <1>5 DEF CommandMap
    <2>2. CASE q # None
      <3>1. PICK r \in Command : r = b[q]
        BY <1>3, <1>8, <2>2 DEF CommandMap, IsLive
      <3>2. c = [[b EXCEPT ![q].status = "superseded"] EXCEPT ![id] = n]
        BY <1>6, <1>8, <2>2 DEF SupersedePending, IsLive
      <3>3. "superseded" \in Status /\ "superseded" \in TerminalStatus
        BY DEF Status, TerminalStatus
      <3>4. /\ c[q] = [r EXCEPT !.status = "superseded"] /\ c[id] = n
            /\ c = [i \in Id |-> c[i]] /\ \A i \in Id \ {id, q} : c[i] = b[i]
        BY <3>1, <3>2, <1>3, <1>8, <2>2 DEF CommandMap
      <3> HIDE DEF c, q
      <3>5. c[q] \in Command /\ c[q].status = "superseded" /\ c[q].scope = r.scope
        BY <3>3, <3>4, StatusRecord
      <3>6. c \in CommandMap
        BY <3>4, <3>5, <1>3, <1>5 DEF CommandMap
      <3>7. QED BY <3>1, <3>3, <3>4, <3>5, <3>6 DEF IsLive
    <2>3. QED BY <2>1, <2>2
  <1>10. pending' \in PendingMap /\ pending'[k] = id
         /\ \A j \in Key \ {k} : pending'[j] = pending[j]
    BY <1>2, <1>4 DEF PendingMap
  <1> DEFINE p == pending'
  <1> HIDE DEF c, p
  <1>11. PendOK(c, p)
    <2>1. ASSUME NEW j \in Key, p[j] # None PROVE IsLive(c, p[j]) /\ c[p[j]].key = j
      <3>1. CASE j = k
        BY <3>1, <1>5, <1>9, <1>10, NoneIsNoCommand DEF IsLive, p
      <3>2. CASE j # k
        <4>1. p[j] = pending[j] /\ p[j] \in Id BY <3>2, <2>1, <1>10 DEF p, PendingMap
        <4>2. IsLive(b, p[j]) /\ b[p[j]].key = j BY <4>1, <2>1, <1>3 DEF PendOK
        <4>3. p[j] # id /\ p[j] # q
          BY <4>1, <4>2, <1>7, <1>8, <3>2, <2>1 DEF IsLive
        <4>4. QED BY <4>1, <4>2, <4>3, <1>9 DEF IsLive
      <3>3. QED BY <3>1, <3>2
    <2>2. ASSUME NEW i \in Id, IsLive(c, i), c[i].key # None PROVE p[c[i].key] = i
      <3>1. CASE i = id
        BY <3>1, <1>5, <1>9, <1>10 DEF p
      <3>2. CASE i # id
        <4>1. i # q BY <2>2, <1>9, NoneAssumption
        <4>2. c[i] = b[i] BY <3>2, <4>1, <1>9
        <4>3. b[i].key \in Key /\ pending[b[i].key] = i
          BY <4>2, <2>2, <1>3 DEF PendOK, IsLive, CommandMap, Command
        <4>4. b[i].key # k BY <4>1, <4>3
        <4>5. QED BY <4>2, <4>3, <4>4, <1>10 DEF p
      <3>3. QED BY <3>1, <3>2
    <2>3. QED BY <2>1, <2>2 DEF PendOK
  <1>12. \A i \in Id \ {id} : b[i] # None <=> c[i] # None
    BY <1>8, <1>9, NoneIsNoCommand, NoneAssumption DEF IsLive
  <1>13. \A i \in Id \ {id} : b[i] # None => c[i].scope = b[i].scope
    BY <1>9, <1>8, NoneAssumption
  <1> HIDE DEF q
  <1>14. ScopeOK(c, EvictScopes(R))
    BY <1>3, <1>5, <1>7, <1>9, <1>12, <1>13 DEF ScopeOK, ScopeMap
  <1>15. TypeOK'
    BY <1>1, <1>2, <1>3, <1>9, <1>10 DEF IInv, TypeOK, CommandMap, ScopeMap, PendingMap, c
  <1>16. RetainedUsed'
    BY <1>2, <1>3, <1>12 DEF RetainedUsed, c
  <1>17. QED BY <1>1, <1>11, <1>14, <1>15, <1>16, IInvMapsPrime DEF c, p

LEMMA BeginActionStep ==
    ASSUME IInv, NEW s \in Scope \cup {None}, NEW id \in Id, NEW at \in 0..clock,
           BeginAction(s, id, at)
    PROVE  IInv'
  <1>1. PICK R \in Evictions(commands, maxItems - 1) :
            /\ commands' = [Evict(R, commands) EXCEPT ![id] = NewCommand(None, s, None, at)]
            /\ idempotency' = [sc \in Scope |-> IF sc = s THEN id ELSE EvictScopes(R)[sc]]
    BY DEF BeginAction
  <1>2. /\ id \notin used /\ used' = used \cup {id}
        /\ UNCHANGED <<pending, maxItems, timeout, clock>>
        /\ s # None => idempotency[s] = None
    BY DEF BeginAction
  <1> DEFINE b == Evict(R, commands)
             c == commands'
             d == EvictScopes(R)
             n == NewCommand(None, s, None, at)
  <1>3. /\ b \in CommandMap /\ d \in ScopeMap
        /\ PendOK(b, pending) /\ ScopeOK(b, d)
        /\ \A i \in Id : b[i] # None => i \in used
        /\ \A sc \in Scope : idempotency[sc] = None => d[sc] = None
    BY PruneFacts
  <1>4. pending \in PendingMap BY IInvFacts
  <1>5. n \in Command /\ n.key = None /\ n.scope = s /\ n.status \notin TerminalStatus
    BY NewCommandFacts
  <1>6. c = [b EXCEPT ![id] = n] /\ idempotency' = [sc \in Scope |-> IF sc = s THEN id ELSE d[sc]]
    BY <1>1
  <1> HIDE DEF b, d, n
  <1>7. b[id] = None BY <1>2, <1>3
  <1>8. c \in CommandMap /\ c[id] = n /\ \A i \in Id \ {id} : c[i] = b[i]
    BY <1>3, <1>5, <1>6 DEF CommandMap
  <1> HIDE DEF c
  <1>9. PendOK(c, pending)
    BY <1>3, <1>4, <1>5, <1>7, <1>8 DEF PendOK, PendingMap, IsLive
  <1> DEFINE e == idempotency'
  <1>10. e \in ScopeMap /\ \A sc \in Scope : e[sc] = IF sc = s THEN id ELSE d[sc]
    BY <1>3, <1>6 DEF ScopeMap
  <1> HIDE DEF e
  <1>11. ScopeOK(c, e)
    <2>1. ASSUME NEW t \in Scope, e[t] # None PROVE c[e[t]] # None /\ c[e[t]].scope = t
      <3>1. CASE t = s BY <3>1, <1>5, <1>8, <1>10, NoneIsNoCommand
      <3>2. CASE t # s
        BY <3>2, <2>1, <1>3, <1>7, <1>8, <1>10 DEF ScopeOK, ScopeMap
      <3>3. QED BY <3>1, <3>2
    <2>2. ASSUME NEW i \in Id, c[i] # None, c[i].scope # None PROVE e[c[i].scope] = i
      <3>1. CASE i = id
        BY <3>1, <2>2, <1>5, <1>8, <1>10
      <3>2. CASE i # id
        <4>1. c[i] = b[i] BY <3>2, <1>8
        <4>2. b[i].scope \in Scope /\ d[b[i].scope] = i
          BY <4>1, <2>2, <1>3 DEF ScopeOK, CommandMap, Command
        <4>3. b[i].scope # s
          BY <4>2, <1>2, <1>3, NoneAssumption
        <4>4. QED BY <4>1, <4>2, <4>3, <1>10
      <3>3. QED BY <3>1, <3>2
    <2>3. QED BY <2>1, <2>2 DEF ScopeOK
  <1>12. TypeOK'
    BY <1>2, <1>8, <1>10 DEF IInv, TypeOK, CommandMap, ScopeMap, c, e
  <1>13. RetainedUsed'
    BY <1>2, <1>3, <1>8 DEF RetainedUsed, c
  <1>14. QED BY <1>2, <1>9, <1>11, <1>12, <1>13, IInvMapsPrime DEF c, e
-----------------------------------------------------------------------------
\* The inductive invariant holds initially and in every step.
LEMMA InitIInv == Init => IInv
  <1>1. Init => TypeOK BY LimitAssumption DEF Init, TypeOK
  <1>2. Init => PendingExact
    BY NoneAssumption DEF Init, PendingExact, Live, Retained
  <1>3. Init => ScopesExact
    BY DEF Init, ScopesExact, Retained
  <1>4. Init => RetainedUsed
    BY DEF Init, RetainedUsed
  <1>5. QED BY <1>1, <1>2, <1>3, <1>4 DEF IInv

LEMMA StepIInv == IInv /\ [Next]_vars => IInv'
  <1> SUFFICES ASSUME IInv, [Next]_vars PROVE IInv' OBVIOUS
  <1>1. ASSUME NEW t \in Timeouts, SetTimeout(t) PROVE IInv'
    BY <1>1 DEF IInv, SetTimeout, TypeOK, PendingExact, ScopesExact, RetainedUsed,
                Live, Retained, Terminals
  <1>2. CASE Tick
    BY <1>2 DEF IInv, Tick, TypeOK, PendingExact, ScopesExact, RetainedUsed,
                Live, Retained, Terminals
  <1>3. CASE UNCHANGED vars
    BY <1>3 DEF IInv, vars, TypeOK, PendingExact, ScopesExact, RetainedUsed,
                Live, Retained, Terminals
  <1>4. QED
    BY <1>1, <1>2, <1>3, SetMaxItemsStep, CoalescePropertyStep, ReplacePropertyStep,
       BeginActionStep, AddCoalescedStep, SupersedeStep, transitionStep, ConfirmStep,
       ExpireStep DEF Next

\* The inductive invariant: types, exact indexes, and ids that are never reused.
THEOREM InductiveInvariant == Spec => []IInv
  BY InitIInv, StepIInv, PTL DEF Spec

\* The tracker's maps keep their types under every operation.
THEOREM TypeCorrect == Spec => []TypeOK
  <1>1. IInv => TypeOK BY DEF IInv
  <1>2. QED BY <1>1, InductiveInvariant, PTL

\* The pending index names exactly the unfinished property writes, so a report
\* confirms only an unfinished command and clearing a key never drops another
\* command's entry.
THEOREM PendingIndexExact == Spec => []PendingExact
  <1>1. IInv => PendingExact BY DEF IInv
  <1>2. QED BY <1>1, InductiveInvariant, PTL

\* The idempotency index names exactly the retained actions with a scope.
THEOREM IdempotencyIndexExact == Spec => []ScopesExact
  <1>1. IInv => ScopesExact BY DEF IInv
  <1>2. QED BY <1>1, InductiveInvariant, PTL

\* Both indexes are exact and the maps have their types, for any number of commands,
\* properties, scopes and callers: what the tracker run checks for two commands.
THEOREM BothIndexesExact == Spec => []IndexesExact
  <1>1. IInv => IndexesExact BY DEF IInv, IndexesExact
  <1>2. QED BY <1>1, InductiveInvariant, PTL
-----------------------------------------------------------------------------
\* A map c agrees with commands on the status of every finished record.
KeepsFinished(c) ==
    \A i \in Id : commands[i] # None /\ commands[i].status \in TerminalStatus /\ c[i] # None =>
        c[i].status = commands[i].status

\* Evicting records from a map that keeps the finished ones.
LEMMA EvictKeeps ==
    ASSUME NEW c, KeepsFinished(c), NEW R
    PROVE  KeepsFinished(Evict(R, c))
  BY DEF KeepsFinished, Evict

\* Changing one record that is live, or that is not there, keeps the finished ones.
LEMMA UpdateKeeps ==
    ASSUME NEW b \in CommandMap, KeepsFinished(b), NEW id \in Id,
           ~(commands[id] # None /\ commands[id].status \in TerminalStatus), NEW r
    PROVE  KeepsFinished([b EXCEPT ![id] = r])
  BY DEF KeepsFinished, CommandMap

LEMMA TrimKeeps ==
    ASSUME NEW c, KeepsFinished(c), StoreAndTrim(c)
    PROVE  KeepsFinished(commands')
  BY EvictKeeps DEF StoreAndTrim

LEMMA FinishedStay == IInv /\ [Next]_vars => KeepsFinished(commands')
  <1> SUFFICES ASSUME IInv, [Next]_vars PROVE KeepsFinished(commands') OBVIOUS
  <1>1. commands \in CommandMap /\ pending \in PendingMap /\ KeepsFinished(commands)
    BY IInvFacts DEF KeepsFinished
  <1>2. ASSUME UNCHANGED commands PROVE KeepsFinished(commands')
    BY <1>1, <1>2
  <1>3. ASSUME NEW limit \in Limits, SetMaxItems(limit) PROVE KeepsFinished(commands')
    BY <1>1, <1>3, EvictKeeps DEF SetMaxItems
  <1>4. ASSUME NEW k \in Key, pending[k] # None
        PROVE  pending[k] \in Id /\ commands[pending[k]].status \notin TerminalStatus
    BY <1>1, <1>4, IInvFacts DEF PendOK, IsLive, PendingMap
  <1>5. ASSUME NEW R \in Evictions(commands, maxItems - 1)
        PROVE  Evict(R, commands) \in CommandMap /\ KeepsFinished(Evict(R, commands))
    BY <1>1, <1>5, PruneFacts, EvictKeeps
  <1>6. ASSUME NEW k \in Key, NEW v \in Value, CoalesceProperty(k, v)
        PROVE  KeepsFinished(commands')
    <2>1. PICK R \in Evictions(commands, maxItems - 1) :
              commands' = [Evict(R, commands) EXCEPT ![pending[k]].coalesced = @ + 1]
      BY <1>6 DEF CoalesceProperty
    <2>2. pending[k] \in Id /\ commands[pending[k]].status \notin TerminalStatus
      BY <1>4, <1>6 DEF CoalesceProperty
    <2>3. QED BY <2>1, <2>2, <1>5 DEF KeepsFinished, CommandMap
  <1>7. ASSUME NEW k \in Key, NEW v \in Value, NEW id \in Id, NEW at \in 0..clock,
               ReplaceProperty(k, v, id, at)
        PROVE  KeepsFinished(commands')
    <2>1. PICK R \in Evictions(commands, maxItems - 1) :
              commands' = [SupersedePending(Evict(R, commands), k)
                              EXCEPT ![id] = NewCommand(k, None, v, at)]
      BY <1>7 DEF ReplaceProperty
    <2>2. commands[id] = None BY <1>7 DEF ReplaceProperty, IInv, RetainedUsed
    <2> DEFINE b == Evict(R, commands)
               x == SupersedePending(b, k)
    <2>3. /\ x = [i \in Id |-> x[i]]
          /\ \A i \in Id : i # pending[k] => x[i] = b[i]
      BY <1>4, <1>5 DEF SupersedePending, CommandMap
    <2>4. \A i \in Id : commands[i] # None /\ commands[i].status \in TerminalStatus => i # pending[k]
      BY <1>4, NoneAssumption
    <2>5. KeepsFinished(b) BY <1>5
    <2>6. commands' = [x EXCEPT ![id] = NewCommand(k, None, v, at)] BY <2>1
    <2> HIDE DEF b, x
    <2>7. QED BY <2>2, <2>3, <2>4, <2>5, <2>6 DEF KeepsFinished
  <1>8. ASSUME NEW s \in Scope \cup {None}, NEW id \in Id, NEW at \in 0..clock,
               BeginAction(s, id, at)
        PROVE  KeepsFinished(commands')
    <2>1. PICK R \in Evictions(commands, maxItems - 1) :
              commands' = [Evict(R, commands) EXCEPT ![id] = NewCommand(None, s, None, at)]
      BY <1>8 DEF BeginAction
    <2>2. commands[id] = None BY <1>8 DEF BeginAction, IInv, RetainedUsed
    <2>3. QED BY <2>1, <2>2, <1>5, UpdateKeeps
  <1>9. ASSUME NEW id \in Id, AddCoalesced(id) PROVE KeepsFinished(commands')
    <2>1. commands' = [commands EXCEPT ![id].coalesced = @ + 1] /\ commands[id] # None
      BY <1>9 DEF AddCoalesced, Retained
    <2>2. PICK r \in Command : r = commands[id] BY <2>1, <1>1 DEF CommandMap
    <2>3. commands'[id] = [r EXCEPT !.coalesced = r.coalesced + 1]
          /\ \A i \in Id \ {id} : commands'[i] = commands[i]
      BY <2>1, <2>2, <1>1 DEF CommandMap
    <2>4. r.coalesced + 1 \in Nat BY DEF Command
    <2>5. commands'[id].status = r.status BY <2>3, <2>4, CoalescedRecord
    <2>6. QED BY <2>2, <2>3, <2>5 DEF KeepsFinished
  <1>10. ASSUME NEW id \in Id, commands[id].status \notin TerminalStatus, NEW st
         PROVE  KeepsFinished([commands EXCEPT ![id].status = st])
    BY <1>1, <1>10 DEF KeepsFinished, CommandMap
  <1>11. ASSUME NEW id \in Id, Supersede(id) PROVE KeepsFinished(commands')
    <2>1. commands[id].status \notin TerminalStatus
      BY <1>11 DEF Supersede, Live, Retained, Terminals
    <2>2. KeepsFinished([commands EXCEPT ![id].status = "superseded"]) BY <2>1, <1>10
    <2>3. QED BY <2>2, <1>11, TrimKeeps DEF Supersede
  <1>12. ASSUME NEW id \in Id, NEW st \in {"sent", "accepted", "confirmed", "rejected"},
                transition(id, st)
         PROVE  KeepsFinished(commands')
    <2>1. commands[id].status \notin TerminalStatus
      BY <1>12 DEF transition, Live, Retained, Terminals
    <2>2. KeepsFinished([commands EXCEPT ![id].status = st]) BY <2>1, <1>10
    <2>3. CASE st \in TerminalStatus
      BY <2>2, <2>3, <1>12, TrimKeeps DEF transition
    <2>4. CASE st \notin TerminalStatus
      BY <2>2, <2>4, <1>12 DEF transition
    <2>5. QED BY <2>3, <2>4
  <1>13. ASSUME NEW k \in Key, NEW v \in Value, Confirm(k, v) PROVE KeepsFinished(commands')
    <2>1. pending[k] \in Id /\ commands[pending[k]].status \notin TerminalStatus
      BY <1>4, <1>13 DEF Confirm
    <2>2. KeepsFinished([commands EXCEPT ![pending[k]].status = "confirmed"]) BY <2>1, <1>10
    <2>3. QED BY <2>2, <1>13, TrimKeeps DEF Confirm
  <1>14. ASSUME NEW at \in 0..clock, Expire(at) PROVE KeepsFinished(commands')
    <2> DEFINE c == [i \in Id |-> IF i \in Overdue(at)
                                   THEN [commands[i] EXCEPT !.status = "timeout"]
                                   ELSE commands[i]]
    <2>1. \A i \in Id : commands[i].status \in TerminalStatus => i \notin Overdue(at)
      BY DEF Overdue, Live, Retained, Terminals
    <2>2. KeepsFinished(c) BY <2>1 DEF KeepsFinished
    <2>3. StoreAndTrim(c) BY <1>14 DEF Expire
    <2>4. QED BY <2>2, <2>3, TrimKeeps
  <1>15. QED
    BY <1>2, <1>3, <1>6, <1>7, <1>8, <1>9, <1>11, <1>12, <1>13, <1>14
    DEF Next, vars, SetTimeout, Tick

\* A finished command keeps its status until it is evicted, whatever arrives late.
THEOREM FinishedIsFinal == Spec => TerminalIsFinal
  <1>1. IInv /\ [Next]_vars =>
            [\A id \in Terminals(commands) :
                id \in Retained(commands') => commands'[id].status = commands[id].status]_vars
    BY FinishedStay DEF KeepsFinished, Terminals, Retained
  <1>2. QED BY <1>1, InductiveInvariant, PTL DEF Spec, TerminalIsFinal
-----------------------------------------------------------------------------
(* The history.                                                            *)

\* At most room records are left, or no finished one.
Pruned(c, room) ==
    IsFiniteSet(Retained(c)) /\ (Cardinality(Retained(c)) <= room \/ Terminals(c) = {})

\* HistoryBounded, of a command map and a limit.
Bounded(c, limit) ==
    /\ IsFiniteSet(Retained(c))
    /\ Cardinality(Retained(c)) > limit => Cardinality(Terminals(c)) <= 1

LEMMA TwoNumbers ==
    ASSUME NEW a \in Int, NEW b \in Int
    PROVE  /\ Max({a, b}) = IF a >= b THEN a ELSE b
           /\ Min({a, b}) = IF a <= b THEN a ELSE b
  <1>1. \E x \in {a, b} : \A y \in {a, b} : x >= y OBVIOUS
  <1>2. Max({a, b}) \in {a, b} /\ \A y \in {a, b} : Max({a, b}) >= y BY <1>1 DEF Max
  <1>3. \E x \in {a, b} : \A y \in {a, b} : x <= y OBVIOUS
  <1>4. Min({a, b}) \in {a, b} /\ \A y \in {a, b} : Min({a, b}) <= y BY <1>3 DEF Min
  <1>5. QED BY <1>2, <1>4

\* Trimming leaves at most room records, or only unfinished ones.
LEMMA TrimPrunes ==
    ASSUME NEW c, IsFiniteSet(Retained(c)), NEW room \in Nat, NEW R \in Evictions(c, room)
    PROVE  Pruned(Evict(R, c), room)
  <1> DEFINE excess == Max({0, Cardinality(Retained(c)) - room})
             count == Min({excess, Cardinality(Terminals(c))})
             all == Retained(c)
             finished == Terminals(c)
  <1>1. R \subseteq finished /\ finished \subseteq all /\ Cardinality(R) = count
    BY DEF Evictions, Terminals
  <1>2. Retained(Evict(R, c)) = all \ R /\ Terminals(Evict(R, c)) = finished \ R
    BY <1>1 DEF Evict, Retained, Terminals
  <1>3. IsFiniteSet(finished) /\ IsFiniteSet(all \ R) BY <1>1, FS_Subset, FS_Difference
  <1>4. Cardinality(all) \in Nat /\ Cardinality(finished) \in Nat BY <1>3, FS_CardinalityType
  <1>5. excess = IF Cardinality(all) > room THEN Cardinality(all) - room ELSE 0
    BY <1>4, TwoNumbers
  <1>6. excess \in Nat BY <1>4, <1>5
  <1> HIDE DEF excess
  <1>7. count = IF excess <= Cardinality(finished) THEN excess ELSE Cardinality(finished)
    BY <1>4, <1>6, TwoNumbers
  <1> HIDE DEF count
  <1>8. CASE count = Cardinality(finished)
    <2>1. R = finished BY <1>1, <1>3, <1>8, FS_Subset
    <2>2. QED BY <1>2, <1>3, <2>1 DEF Pruned
  <1>9. CASE count = excess
    <2>1. all \cap R = R BY <1>1
    <2>2. Cardinality(all \ R) = Cardinality(all) - Cardinality(all \cap R) BY FS_Difference
    <2>3. Cardinality(all \ R) = Cardinality(all) - excess BY <1>1, <1>9, <2>1, <2>2
    <2>4. Cardinality(all \ R) <= room BY <1>4, <1>5, <2>3
    <2>5. QED BY <1>2, <1>3, <2>4 DEF Pruned
  <1>10. QED BY <1>7, <1>8, <1>9

\* One more record, and one more finished one, than a pruned history has.
LEMMA PrunedGrows ==
    ASSUME NEW limit \in Nat \ {0}, NEW b, Pruned(b, limit - 1), NEW c, NEW id, NEW q,
           Retained(c) \subseteq Retained(b) \cup {id},
           Terminals(c) \subseteq Terminals(b) \cup {q}
    PROVE  Bounded(c, limit)
  <1> DEFINE grown == Retained(b) \cup {id}
  <1>1. IsFiniteSet(Retained(b)) /\ Cardinality(Retained(b)) \in Nat BY FS_CardinalityType DEF Pruned
  <1>2. IsFiniteSet(grown) /\ Cardinality(grown) <= Cardinality(Retained(b)) + 1 /\ Cardinality(grown) \in Nat
    BY <1>1, FS_AddElement, FS_CardinalityType
  <1>3. IsFiniteSet(Retained(c)) /\ Cardinality(Retained(c)) <= Cardinality(grown) BY <1>2, FS_Subset
  <1>4. Cardinality(Retained(c)) \in Nat BY <1>3, FS_CardinalityType
  <1> HIDE DEF grown
  <1>5. CASE Cardinality(Retained(b)) <= limit - 1
    <2>1. ~(Cardinality(Retained(c)) > limit) BY <1>1, <1>2, <1>3, <1>4, <1>5
    <2>2. QED BY <1>3, <2>1 DEF Bounded
  <1>6. CASE Terminals(b) = {}
    <2>1. Terminals(c) \subseteq {q} BY <1>6
    <2>2. IsFiniteSet({q}) /\ Cardinality({q}) = 1 BY FS_Singleton
    <2>3. Cardinality(Terminals(c)) <= 1 BY <2>1, <2>2, FS_Subset
    <2>4. QED BY <1>3, <2>3 DEF Bounded
  <1>7. QED BY <1>5, <1>6 DEF Pruned

LEMMA PrunedBounded ==
    ASSUME NEW limit \in Nat \ {0}, NEW c, Pruned(c, limit)
    PROVE  Bounded(c, limit)
  <1>1. Cardinality(Retained(c)) \in Nat BY FS_CardinalityType DEF Pruned
  <1>2. Terminals(c) = {} => Cardinality(Terminals(c)) <= 1 BY FS_EmptySet
  <1>3. QED BY <1>1, <1>2 DEF Pruned, Bounded

LEMMA StoreAndTrimBounds ==
    ASSUME IInv, IsFiniteSet(Retained(commands)), NEW c, StoreAndTrim(c), UNCHANGED maxItems,
           Retained(c) \subseteq Retained(commands)
    PROVE  Bounded(commands', maxItems')
  <1>1. maxItems \in Nat \ {0} BY DEF IInv, TypeOK
  <1>2. IsFiniteSet(Retained(c)) BY FS_Subset
  <1>3. Pruned(commands', maxItems) BY <1>1, <1>2, TrimPrunes DEF StoreAndTrim
  <1>4. QED BY <1>1, <1>3, PrunedBounded

LEMMA StepBounded ==
    ASSUME IInv, Bounded(commands, maxItems), [Next]_vars
    PROVE  Bounded(commands', maxItems')
  <1>1. /\ commands \in CommandMap /\ pending \in PendingMap
        /\ maxItems \in Nat \ {0} /\ maxItems - 1 \in Nat
        /\ IsFiniteSet(Retained(commands))
    BY IInvFacts DEF IInv, TypeOK, Bounded
  <1>2. ASSUME Retained(commands') = Retained(commands), Terminals(commands') = Terminals(commands),
               UNCHANGED maxItems
        PROVE  Bounded(commands', maxItems')
    BY <1>2 DEF Bounded
  <1>3. ASSUME UNCHANGED <<commands, maxItems>> PROVE Bounded(commands', maxItems')
    BY <1>3 DEF Bounded
  <1>4. ASSUME NEW limit \in Limits, SetMaxItems(limit) PROVE Bounded(commands', maxItems')
    <2>1. maxItems' \in Nat \ {0} BY <1>4, LimitAssumption DEF SetMaxItems
    <2>2. PICK R \in Evictions(commands, maxItems') : commands' = Evict(R, commands)
      BY <1>4 DEF SetMaxItems
    <2>3. Pruned(commands', maxItems') BY <1>1, <2>1, <2>2, TrimPrunes
    <2>4. QED BY <2>1, <2>3, PrunedBounded
  <1>5. ASSUME NEW R \in Evictions(commands, maxItems - 1)
        PROVE  /\ Evict(R, commands) \in CommandMap /\ PendOK(Evict(R, commands), pending)
               /\ Pruned(Evict(R, commands), maxItems - 1)
    BY <1>1, TrimPrunes, PruneFacts
  <1>6. ASSUME NEW k \in Key, NEW v \in Value, CoalesceProperty(k, v)
        PROVE  Bounded(commands', maxItems')
    <2>1. PICK R \in Evictions(commands, maxItems - 1) :
              commands' = [Evict(R, commands) EXCEPT ![pending[k]].coalesced = @ + 1]
      BY <1>6 DEF CoalesceProperty
    <2> DEFINE b == Evict(R, commands)
               id == pending[k]
    <2>2. b \in CommandMap /\ PendOK(b, pending) /\ Pruned(b, maxItems - 1) BY <1>5
    <2>3. commands' = [b EXCEPT ![id] = commands'[id]] BY <2>1, <2>2 DEF CommandMap
    <2> HIDE DEF b
    <2>4. Retained(commands') \subseteq Retained(b) \cup {id}
          /\ Terminals(commands') \subseteq Terminals(b) \cup {id}
      BY <2>2, <2>3 DEF Retained, Terminals, CommandMap
    <2>5. UNCHANGED maxItems BY <1>6 DEF CoalesceProperty
    <2>6. QED BY <1>1, <2>2, <2>4, <2>5, PrunedGrows
  <1>7. ASSUME NEW k \in Key, NEW v \in Value, NEW id \in Id, NEW at \in 0..clock,
               ReplaceProperty(k, v, id, at)
        PROVE  Bounded(commands', maxItems')
    <2>1. PICK R \in Evictions(commands, maxItems - 1) :
              commands' = [SupersedePending(Evict(R, commands), k)
                              EXCEPT ![id] = NewCommand(k, None, v, at)]
      BY <1>7 DEF ReplaceProperty
    <2> DEFINE b == Evict(R, commands)
               q == pending[k]
               x == SupersedePending(b, k)
               n == NewCommand(k, None, v, at)
    <2>2. b \in CommandMap /\ PendOK(b, pending) /\ Pruned(b, maxItems - 1) BY <1>5
    <2>3. n \in Command /\ n.status \notin TerminalStatus BY NewCommandFacts
    <2>4. commands' = [x EXCEPT ![id] = n] BY <2>1
    <2> HIDE DEF b, n
    <2>5. q # None => q \in Id /\ b[q] # None BY <1>1, <2>2 DEF PendOK, PendingMap, IsLive
    <2>6. /\ x = [i \in Id |-> x[i]]
          /\ \A i \in Id : i # q => x[i] = b[i]
          /\ q = None => x = b
      BY <2>2, <2>5 DEF SupersedePending, CommandMap
    <2> HIDE DEF x
    <2>7. Retained(commands') \subseteq Retained(b) \cup {id}
      BY <2>4, <2>5, <2>6 DEF Retained
    <2>8. Terminals(commands') \subseteq Terminals(b) \cup {q}
      BY <2>3, <2>4, <2>6 DEF Retained, Terminals
    <2>9. UNCHANGED maxItems BY <1>7 DEF ReplaceProperty
    <2>10. QED BY <1>1, <2>2, <2>7, <2>8, <2>9, PrunedGrows
  <1>8. ASSUME NEW s \in Scope \cup {None}, NEW id \in Id, NEW at \in 0..clock,
               BeginAction(s, id, at)
        PROVE  Bounded(commands', maxItems')
    <2>1. PICK R \in Evictions(commands, maxItems - 1) :
              commands' = [Evict(R, commands) EXCEPT ![id] = NewCommand(None, s, None, at)]
      BY <1>8 DEF BeginAction
    <2> DEFINE b == Evict(R, commands)
    <2>2. b \in CommandMap /\ Pruned(b, maxItems - 1) BY <1>5
    <2>3. commands' = [b EXCEPT ![id] = NewCommand(None, s, None, at)] BY <2>1
    <2> HIDE DEF b
    <2>4. Retained(commands') \subseteq Retained(b) \cup {id}
          /\ Terminals(commands') \subseteq Terminals(b) \cup {id}
      BY <2>2, <2>3 DEF Retained, Terminals, CommandMap
    <2>5. UNCHANGED maxItems BY <1>8 DEF BeginAction
    <2>6. QED BY <1>1, <2>2, <2>4, <2>5, PrunedGrows
  <1>9. ASSUME NEW id \in Id, AddCoalesced(id) PROVE Bounded(commands', maxItems')
    <2>1. commands' = [commands EXCEPT ![id].coalesced = @ + 1] /\ commands[id] # None /\ UNCHANGED maxItems
      BY <1>9 DEF AddCoalesced, Retained
    <2>2. PICK r \in Command : r = commands[id] BY <2>1, <1>1 DEF CommandMap
    <2>3. commands'[id] = [r EXCEPT !.coalesced = r.coalesced + 1]
          /\ \A i \in Id \ {id} : commands'[i] = commands[i]
      BY <2>1, <2>2, <1>1 DEF CommandMap
    <2>4. r.coalesced + 1 \in Nat BY DEF Command
    <2>5. commands'[id] \in Command /\ commands'[id].status = r.status BY <2>3, <2>4, CoalescedRecord
    <2>6. Retained(commands') = Retained(commands) /\ Terminals(commands') = Terminals(commands)
      BY <2>1, <2>2, <2>3, <2>5, NoneIsNoCommand DEF Retained, Terminals
    <2>7. QED BY <1>2, <2>1, <2>6
  <1>10. ASSUME NEW id \in Id, commands[id] # None, NEW st
         PROVE  Retained([commands EXCEPT ![id].status = st]) \subseteq Retained(commands)
    BY <1>1, <1>10 DEF Retained, CommandMap
  <1>11. ASSUME NEW id \in Id, Supersede(id) PROVE Bounded(commands', maxItems')
    <2>1. commands[id] # None /\ UNCHANGED maxItems BY <1>11 DEF Supersede, Live, Retained
    <2>2. QED BY <1>1, <1>10, <1>11, <2>1, StoreAndTrimBounds DEF Supersede
  <1>12. ASSUME NEW id \in Id, NEW st \in {"sent", "accepted", "confirmed", "rejected"},
                transition(id, st)
         PROVE  Bounded(commands', maxItems')
    <2> DEFINE c == [commands EXCEPT ![id].status = st]
    <2>1. commands[id] # None /\ Live(id) /\ UNCHANGED maxItems BY <1>12 DEF transition, Live, Retained
    <2>2. CASE st \in TerminalStatus
      <3>1. StoreAndTrim(c) BY <1>12, <2>2 DEF transition
      <3>2. Retained(c) \subseteq Retained(commands) BY <1>10, <2>1
      <3>3. QED BY <1>1, <2>1, <3>1, <3>2, StoreAndTrimBounds
    <2>3. CASE st \notin TerminalStatus
      <3>1. commands' = c BY <1>12, <2>3 DEF transition
      <3>2. st \in Status BY DEF Status, TerminalStatus
      <3>3. /\ c[id] \in Command /\ c[id].status = st
            /\ \A i \in Id \ {id} : c[i] = commands[i]
        BY <2>1, <3>2, StatusUpdate
      <3>4. id \notin Terminals(commands) BY <2>1 DEF Live
      <3> HIDE DEF c
      <3>5. Retained(c) = Retained(commands) /\ Terminals(c) = Terminals(commands)
        BY <2>1, <2>3, <3>3, <3>4, NoneIsNoCommand DEF Retained, Terminals
      <3>6. QED BY <1>2, <2>1, <3>1, <3>5
    <2>4. QED BY <2>2, <2>3
  <1>13. ASSUME NEW k \in Key, NEW v \in Value, Confirm(k, v) PROVE Bounded(commands', maxItems')
    <2>1. pending[k] \in Id /\ commands[pending[k]] # None /\ UNCHANGED maxItems
      BY <1>1, <1>13, IInvFacts DEF Confirm, PendOK, IsLive, PendingMap
    <2>2. Retained([commands EXCEPT ![pending[k]].status = "confirmed"]) \subseteq Retained(commands)
      BY <1>10, <2>1
    <2>3. QED BY <1>1, <1>13, <2>1, <2>2, StoreAndTrimBounds DEF Confirm
  <1>14. ASSUME NEW at \in 0..clock, Expire(at) PROVE Bounded(commands', maxItems')
    <2> DEFINE c == [i \in Id |-> IF i \in Overdue(at)
                                   THEN [commands[i] EXCEPT !.status = "timeout"]
                                   ELSE commands[i]]
    <2>1. Retained(c) \subseteq Retained(commands) BY DEF Overdue, Live, Retained
    <2>2. StoreAndTrim(c) /\ UNCHANGED maxItems BY <1>14 DEF Expire
    <2>3. QED BY <1>1, <2>1, <2>2, StoreAndTrimBounds
  <1>15. QED
    BY <1>3, <1>4, <1>6, <1>7, <1>8, <1>9, <1>11, <1>12, <1>13, <1>14
    DEF Next, vars, SetTimeout, Tick

\* The history holds at most maxItems records and, beyond them, unfinished ones and at
\* most one that was superseded a moment ago, through all limits that are set meanwhile.
THEOREM HistoryStaysBounded == Spec => []HistoryBounded
  <1>1. Init => Bounded(commands, maxItems)
    <2> SUFFICES ASSUME Init PROVE Bounded(commands, maxItems) OBVIOUS
    <2>1. Retained(commands) = {} /\ Terminals(commands) = {} BY DEF Init, Retained, Terminals
    <2>2. QED BY <2>1, FS_EmptySet DEF Bounded
  <1>2. Bounded(commands, maxItems) => HistoryBounded BY DEF Bounded, HistoryBounded
  <1>3. IInv /\ Bounded(commands, maxItems) /\ [Next]_vars => Bounded(commands, maxItems)'
    BY StepBounded
  <1>4. QED BY <1>1, <1>2, <1>3, InductiveInvariant, PTL DEF Spec
-----------------------------------------------------------------------------
(* The property writes: their inductive invariant.                         *)

\* Labels before the request has a command.
Waiting == {"idle", "joined", "cancel", "resolveOld", "acquire", "get", "begin"}

\* Labels between the begin of the command and the release of the gate.
Begun == {"attach", "drop", "resolveSuperseded", "reread", "optimistic", "send", "write",
          "failed", "reject", "written", "accept", "rollback", "release"}

\* Labels at which the request holds the gate of the device.
Gated == {"get", "begin"} \cup Begun

\* Labels at which the request works on a command of its own that it has published.
Running == Begun \ {"attach", "drop", "release"}

\* Labels before the optimistic value is stored.
Early == {"attach", "resolveSuperseded", "reread", "optimistic"}

\* Labels at which the write may still be answered with success.
Undecided == Begun \ {"drop", "rollback", "release"}

\* Labels at which the answer is known.
Answered == {"rollback", "release", "finish", "close", "done"}

\* What a request's own variables say at each label.
LocalOK(x) ==
    /\ x.pc \notin {"idle", "done"} => x.key \in Key /\ x.expected \in Value
    /\ x.pc = "joined" => x.joined # None
    /\ x.pc \in Waiting => ~x.bound /\ ~x.replayed /\ x.command = None
    /\ x.pc \in Begun => x.command # None
    /\ x.pc \in Running => x.bound /\ ~x.replayed
    /\ x.pc \in Early /\ ~x.replayed => x.record # None
    /\ x.pc \in {"resolveOld", "resolveSuperseded"} => x.old # None
    /\ x.pc = "rollback" => x.outcome \notin Shared
    /\ x.bound => x.command # None

\* A stored value: a reported or optimistic one is known, an owned one is optimistic.
GoodValue(v) ==
    /\ v \in SV!StateValue
    /\ v.quality \in {"reported", "optimistic"} => v.value # None
    /\ v.pending # None => v.quality = "optimistic"

\* A request's command, as the tracker has it.
CommandOK(x) ==
    /\ x.command # None => x.command \in used
    /\ x.pc \in Begun /\ commands[x.command] # None => commands[x.command].key = x.key
    /\ x.command # None /\ (x.outcome \in Shared \/ x.pc \in Undecided) => ~Rejected(x.command)
    /\ x.pc \in Answered /\ x.command # None /\ x.outcome \notin Shared => ~Live(x.command)

\* The gate: its holder's own command is the newest of its property, nobody else has
\* it, and nothing is stored for it before the optimistic value.
GateOK(o) ==
    LET x == op[o]
    IN /\ x.pc \in Gated => gate = o
       /\ x.pc \in Begun /\ ~x.replayed =>
              /\ \A q \in Op \ {o} : op[q].command # x.command
              /\ pending[x.key] \in {None, x.command}
       /\ x.pc \in Early /\ ~x.replayed => \A k \in Key : values[k].pending # x.command

\* The table: a request that was replaced there works on a finished command, and the
\* replaced one is finished before its context is cancelled.
TableOK(o) ==
    LET x == op[o]
    IN /\ x.pc \in Running /\ propertyOps[x.key] # o => ~Live(x.command)
       /\ x.pc = "cancel" =>
              /\ propertyMu = o /\ propertyOps[x.key] # None
              /\ op[propertyOps[x.key]].bound => ~Live(op[propertyOps[x.key]].command)

\* The stored value of k.
ValueOK(k) ==
    /\ GoodValue(values[k])
    /\ values[k].pending # None =>
           /\ values[k].pending \in used
           /\ commands[values[k].pending] # None => commands[values[k].pending].key = k

RequestOK(o) ==
    /\ LocalOK(op[o])
    /\ op[o].previous # None => GoodValue(op[o].previous)
    /\ CommandOK(op[o]) /\ GateOK(o) /\ TableOK(o)

WInv ==
    /\ IInv
    /\ TypeInvariant
    /\ scanned <= clock
    /\ \A k \in Key : ValueOK(k)
    /\ \A o \in Op : RequestOK(o)
-----------------------------------------------------------------------------
(* What a step of the tracker does to the commands that others refer to.   *)

\* c is a later command map: an id that was handed out keeps its key while its record
\* is retained and stays finished, and only records of F have become rejected.
Ages(c, F) ==
    \A i \in Id : c[i] # None =>
        \/ i \notin used /\ c[i].status # "rejected"
        \/ /\ commands[i] # None /\ c[i].key = commands[i].key
           /\ commands[i].status \in TerminalStatus => c[i].status \in TerminalStatus
           /\ c[i].status = "rejected" => commands[i].status = "rejected" \/ i \in F

\* A step of the tracker that begins no command.
Quiet(F) ==
    /\ Ages(commands', F)
    /\ used' = used /\ clock <= clock' /\ maxItems' = maxItems
    /\ \A k \in Key : pending'[k] \in {None, pending[k]}

\* Evicting records from a later map leaves a later map.
LEMMA EvictAges ==
    ASSUME NEW c, NEW F, Ages(c, F), NEW R
    PROVE  Ages(Evict(R, c), F)
  BY DEF Ages, Evict

\* So does trimming the history, and it revives no command.
LEMMA TrimAges ==
    ASSUME NEW c, NEW F, Ages(c, F), StoreAndTrim(c)
    PROVE  /\ Ages(commands', F)
           /\ \A i \in Id : ~IsLive(c, i) => ~IsLive(commands', i)
  <1>1. PICK R \in Evictions(c, maxItems) : commands' = Evict(R, c) BY DEF StoreAndTrim
  <1>2. \A i \in Id : ~IsLive(c, i) => ~IsLive(Evict(R, c), i) BY DEF Evict, IsLive
  <1>3. QED BY <1>1, <1>2, EvictAges

\* A live record gets another status.
LEMMA StatusAges ==
    ASSUME IInv, NEW id \in Id, Live(id), NEW st \in Status, NEW F, st = "rejected" => id \in F
    PROVE  Ages([commands EXCEPT ![id].status = st], F)
  <1> DEFINE c == [commands EXCEPT ![id].status = st]
  <1>1. /\ c[id] \in Command /\ c[id].status = st
        /\ c[id].key = commands[id].key
        /\ \A i \in Id \ {id} : c[i] = commands[i]
    BY StatusUpdate
  <1>2. commands[id] # None /\ commands[id].status \notin TerminalStatus
    BY DEF Live, Retained, Terminals
  <1> HIDE DEF c
  <1>3. Ages(c, F) BY <1>1, <1>2 DEF Ages
  <1>4. QED BY <1>3 DEF c

\* Supersede finishes its command and rejects none.
LEMMA SupersedeQuiet ==
    ASSUME IInv, NEW id \in Id, Supersede(id)
    PROVE  Quiet({}) /\ ~IsLive(commands', id)
  <1> DEFINE c == [commands EXCEPT ![id].status = "superseded"]
  <1>1. Live(id) /\ StoreAndTrim(c) BY DEF Supersede
  <1>2. "superseded" \in Status /\ "superseded" \in TerminalStatus BY DEF Status, TerminalStatus
  <1>3. c[id].status = "superseded" BY <1>1, <1>2, StatusUpdate
  <1>4. Ages(c, {}) BY <1>1, <1>2, StatusAges
  <1>5. ~IsLive(c, id) BY <1>2, <1>3 DEF IsLive
  <1> HIDE DEF c
  <1>6. Ages(commands', {}) /\ ~IsLive(commands', id) BY <1>1, <1>4, <1>5, TrimAges
  <1>7. QED BY <1>6 DEF Quiet, Supersede, IInv, TypeOK

\* A transition rejects at most its own command.
LEMMA transitionQuiet ==
    ASSUME IInv, NEW id \in Id, NEW st \in {"sent", "accepted", "rejected"}, transition(id, st)
    PROVE  /\ Quiet(IF st = "rejected" THEN {id} ELSE {})
           /\ st = "rejected" => ~IsLive(commands', id)
  <1> DEFINE c == [commands EXCEPT ![id].status = st]
             F == IF st = "rejected" THEN {id} ELSE {}
  <1>1. Live(id) /\ st \in Status BY DEF transition, Status, TerminalStatus
  <1>2. c[id].status = st BY <1>1, StatusUpdate
  <1>3. Ages(c, F) BY <1>1, StatusAges
  <1>4. UNCHANGED <<maxItems, used, clock>> /\ clock <= clock' BY DEF transition, IInv, TypeOK
  <1>5. CASE st = "rejected"
    <2>1. st \in TerminalStatus BY <1>5 DEF TerminalStatus
    <2>2. StoreAndTrim(c) /\ pending' = ClearKey(commands, id) BY <2>1 DEF transition
    <2>3. ~IsLive(c, id) BY <1>2, <2>1 DEF IsLive
    <2>4. \A k \in Key : pending'[k] \in {None, pending[k]} BY <2>2 DEF ClearKey
    <2> HIDE DEF c, F
    <2>5. Ages(commands', F) /\ ~IsLive(commands', id) BY <1>3, <2>2, <2>3, TrimAges
    <2>6. QED BY <1>4, <2>4, <2>5 DEF Quiet, F
  <1>6. CASE st # "rejected"
    <2>1. st \notin TerminalStatus BY <1>6 DEF TerminalStatus
    <2>2. commands' = c /\ UNCHANGED pending BY <2>1 DEF transition
    <2> HIDE DEF c, F
    <2>3. QED BY <1>3, <1>4, <1>6, <2>2 DEF Quiet, F
  <1>7. QED BY <1>5, <1>6

\* Confirm rejects no command.
LEMMA ConfirmQuiet ==
    ASSUME IInv, NEW k \in Key, NEW v, Confirm(k, v)
    PROVE  Quiet({})
  <1> DEFINE id == pending[k]
             c == [commands EXCEPT ![id].status = "confirmed"]
  <1>1. id \in Id /\ Live(id) BY DEF IInv, TypeOK, PendingExact, Confirm
  <1>2. "confirmed" \in Status BY DEF Status, TerminalStatus
  <1>3. Ages(c, {}) BY <1>1, <1>2, StatusAges
  <1>4. StoreAndTrim(c) BY DEF Confirm
  <1>5. Ages(commands', {}) BY <1>3, <1>4, TrimAges
  <1>6. QED BY <1>5 DEF Quiet, Confirm, IInv, TypeOK

\* Expire rejects no command.
LEMMA ExpireQuiet ==
    ASSUME IInv, NEW at, Expire(at)
    PROVE  Quiet({})
  <1> DEFINE F == Overdue(at)
             c == [i \in Id |-> IF i \in F THEN [commands[i] EXCEPT !.status = "timeout"]
                                          ELSE commands[i]]
  <1>1. F \in SUBSET Id /\ \A i \in F : Live(i) BY DEF Overdue
  <1>2. "timeout" \in TerminalStatus /\ "timeout" \in Status BY DEF TerminalStatus, Status
  <1>3. ASSUME NEW i \in F
        PROVE  c[i].status = "timeout" /\ c[i].key = commands[i].key /\ commands[i] # None
    <2>1. PICK r \in Command : r = commands[i]
      BY <1>1 DEF IInv, TypeOK, Live, Retained
    <2>2. c[i] = [r EXCEPT !.status = "timeout"] BY <1>1, <2>1
    <2> HIDE DEF c
    <2>3. QED BY <1>2, <2>1, <2>2, StatusRecord, NoneIsNoCommand
  <1>4. \A i \in Id \ F : c[i] = commands[i] OBVIOUS
  <1>5. /\ StoreAndTrim(c)
        /\ \A k \in Key : pending'[k] \in {None, pending[k]}
        /\ UNCHANGED <<maxItems, used, clock>>
    BY DEF Expire
  <1> HIDE DEF c, F
  <1>6. Ages(c, {}) BY <1>2, <1>3, <1>4 DEF Ages
  <1>7. Ages(commands', {}) BY <1>5, <1>6, TrimAges
  <1>8. QED BY <1>5, <1>7 DEF Quiet, IInv, TypeOK

\* A request that is merged into the pending command gets one that is not rejected.
LEMMA CoalesceQuiet ==
    ASSUME IInv, NEW k \in Key, NEW v, CoalesceProperty(k, v)
    PROVE  Quiet({}) /\ pending[k] \in used /\ commands'[pending[k]].key = k
           /\ ~Rejected(pending[k])'
  <1>1. PICK R \in Evictions(commands, maxItems - 1) :
            commands' = [Evict(R, commands) EXCEPT ![pending[k]].coalesced = @ + 1]
    BY DEF CoalesceProperty
  <1> DEFINE b == Evict(R, commands)
             id == pending[k]
  <1>2. /\ b \in CommandMap /\ PendOK(b, pending) /\ \A i \in Id : b[i] # None => i \in used
    BY PruneFacts
  <1>3. Ages(b, {})
    <2>1. Ages(commands, {}) BY DEF Ages
    <2>2. QED BY <2>1, EvictAges
  <1>4. pending[k] # None /\ UNCHANGED <<pending, maxItems, used, clock>>
    BY DEF CoalesceProperty
  <1>5. commands' = [b EXCEPT ![id].coalesced = @ + 1] BY <1>1
  <1> HIDE DEF b
  <1>6. id \in Id /\ IsLive(b, id) /\ b[id].key = k
    BY <1>2, <1>4, IInvFacts DEF PendOK, PendingMap
  <1>7. PICK r \in Command : r = b[id] BY <1>2, <1>6 DEF CommandMap, IsLive
  <1>8. commands'[id] = [r EXCEPT !.coalesced = r.coalesced + 1]
        /\ \A i \in Id \ {id} : commands'[i] = b[i]
    BY <1>2, <1>5, <1>6, <1>7 DEF CommandMap
  <1>9. r.coalesced + 1 \in Nat BY DEF Command
  <1> DEFINE new == commands'[id]
  <1> HIDE DEF new, id
  <1>10. new \in Command /\ new.status = r.status /\ new.key = r.key
    BY <1>8, <1>9, CoalescedRecord DEF new
  <1>11. new # None /\ new.key = k /\ new.status \notin TerminalStatus
    BY <1>6, <1>7, <1>10, NoneIsNoCommand DEF IsLive
  <1>12. Ages(commands', {})
    <2>1. b[id] # None /\ new.status = b[id].status /\ new.key = b[id].key
      BY <1>6, <1>7, <1>10 DEF IsLive
    <2>2. \A i \in Id : commands'[i] # None =>
              b[i] # None /\ commands'[i].status = b[i].status /\ commands'[i].key = b[i].key
      BY <1>8, <2>1 DEF new
    <2>3. QED BY <1>3, <2>2 DEF Ages
  <1>13. new.status # "rejected" BY <1>11 DEF TerminalStatus
  <1>14. id \in used BY <1>2, <1>6 DEF IsLive
  <1>15. UNCHANGED id BY <1>4 DEF id
  <1>16. Quiet({}) BY <1>4, <1>12 DEF Quiet, IInv, TypeOK
  <1>17. ~Rejected(id)' BY <1>13, <1>15 DEF Rejected, new
  <1>18. QED BY <1>11, <1>14, <1>16, <1>17 DEF new, id

\* A new command replaces the pending one of its key.
LEMMA ReplaceAges ==
    ASSUME IInv, NEW k \in Key, NEW v \in Value, NEW id \in Id, NEW at \in 0..clock,
           ReplaceProperty(k, v, id, at)
    PROVE  /\ Ages(commands', {}) /\ commands'[id] = NewCommand(k, None, v, at)
           /\ id \notin used /\ used' = used \cup {id} /\ UNCHANGED <<maxItems, clock>>
           /\ pending' = [pending EXCEPT ![k] = id]
  <1>1. PICK R \in Evictions(commands, maxItems - 1) :
            commands' = [SupersedePending(Evict(R, commands), k)
                            EXCEPT ![id] = NewCommand(k, None, v, at)]
    BY DEF ReplaceProperty
  <1> DEFINE b == Evict(R, commands)
             x == SupersedePending(b, k)
             n == NewCommand(k, None, v, at)
             q == pending[k]
  <1>2. b \in CommandMap /\ PendOK(b, pending) BY PruneFacts
  <1>3. Ages(b, {})
    <2>1. Ages(commands, {}) BY DEF Ages
    <2>2. QED BY <2>1, EvictAges
  <1>4. /\ id \notin used /\ used' = used \cup {id} /\ UNCHANGED <<maxItems, clock>>
        /\ pending' = [pending EXCEPT ![k] = id]
    BY DEF ReplaceProperty
  <1>5. n.status # "rejected" BY DEF NewCommand
  <1>6. commands' = [x EXCEPT ![id] = n] BY <1>1
  <1> HIDE DEF b, n
  <1>7. q # None => q \in Id /\ IsLive(b, q) BY <1>2, IInvFacts DEF PendOK, PendingMap
  <1>8. Ages(x, {}) /\ x = [i \in Id |-> x[i]]
    <2>1. CASE q = None BY <1>2, <1>3, <2>1 DEF SupersedePending, CommandMap
    <2>2. CASE q # None
      <3>1. PICK r \in Command : r = b[q] BY <1>2, <1>7, <2>2 DEF CommandMap, IsLive
      <3>2. x = [b EXCEPT ![q].status = "superseded"] BY <1>7, <2>2 DEF SupersedePending, IsLive
      <3>3. /\ x[q] = [r EXCEPT !.status = "superseded"] /\ x = [i \in Id |-> x[i]]
            /\ \A i \in Id \ {q} : x[i] = b[i]
        BY <1>2, <1>7, <2>2, <3>1, <3>2 DEF CommandMap
      <3>4. "superseded" \in Status /\ "superseded" \in TerminalStatus BY DEF Status, TerminalStatus
      <3> HIDE DEF x, q
      <3>5. x[q].status = "superseded" /\ x[q].key = r.key BY <3>3, <3>4, StatusRecord
      <3>6. b[q] # None BY <1>7, <2>2 DEF IsLive
      <3>7. Ages(x, {})
        <4>1. "superseded" # "rejected" OBVIOUS
        <4>2. ASSUME NEW i \in Id, x[i] # None
              PROVE  \/ i \notin used /\ x[i].status # "rejected"
                     \/ /\ commands[i] # None /\ x[i].key = commands[i].key
                        /\ commands[i].status \in TerminalStatus => x[i].status \in TerminalStatus
                        /\ x[i].status = "rejected" => commands[i].status = "rejected" \/ i \in {}
          <5>1. CASE i = q BY <1>3, <1>7, <2>2, <3>1, <3>4, <3>5, <3>6, <4>1, <5>1 DEF Ages
          <5>2. CASE i # q
            <6>1. x[i] = b[i] BY <3>3, <5>2
            <6>2. QED BY <1>3, <4>2, <6>1 DEF Ages
          <5>3. QED BY <5>1, <5>2
        <4>3. QED BY <4>2 DEF Ages
      <3>8. QED BY <3>3, <3>7
    <2>3. QED BY <2>1, <2>2
  <1> HIDE DEF x
  <1>9. commands'[id] = n /\ \A i \in Id \ {id} : commands'[i] = x[i] BY <1>6, <1>8
  <1>10. Ages(commands', {}) BY <1>4, <1>5, <1>8, <1>9 DEF Ages
  <1>11. QED BY <1>4, <1>9, <1>10 DEF n

\* Doing nothing begins and rejects no command.
LEMMA SameQuiet == ASSUME IInv, UNCHANGED vars PROVE Quiet({})
  BY DEF IInv, TypeOK, vars, Quiet, Ages, RetainedUsed

\* Nor does the clock.
LEMMA TickQuiet == ASSUME IInv, Tick PROVE Quiet({})
  BY DEF IInv, TypeOK, Tick, Quiet, Ages, RetainedUsed
-----------------------------------------------------------------------------
(* Operations on one stored value.                                         *)

\* w is v, up to its version.
SameBut(v, w) ==
    w \in SV!StateValue /\ w.value = v.value /\ w.quality = v.quality /\ w.pending = v.pending

\* Dropping the version keeps the rest.
LEMMA UnversionedSame ==
    ASSUME NEW v \in SV!StateValue
    PROVE  SameBut(v, Unversioned(v))
  <1>1. v # None BY ValueAssumption
  <1>2. Unversioned(v) = [v EXCEPT !.version = 0] BY <1>1 DEF Unversioned
  <1>3. QED BY <1>2 DEF SameBut, SV!StateValue

\* The version after a value's own is a number.
LEMMA NextVersion ==
    ASSUME NEW v \in SV!StateValue
    PROVE  \E n \in Nat : n = v.version + 1
  BY DEF SV!StateValue

\* normalize changes availability and reason only.
LEMMA normalizeSame ==
    ASSUME NEW v \in SV!StateValue
    PROVE  SameBut(v, SV!normalize(v))
  <1> DEFINE n == SV!normalize(v)
             live == v.quality \in SV!LiveQuality /\ SV!Known(v)
  <1>1. CASE live
    <2>1. n = [v EXCEPT !.available = TRUE, !.reason = None]
      BY <1>1 DEF SV!normalize, SV!LiveQuality
    <2>2. QED BY <2>1 DEF SameBut, SV!StateValue
  <1>2. CASE ~live
    <2>1. PICK r \in SV!Reason : n = [v EXCEPT !.available = FALSE, !.reason = r]
      <3>1. SV!ReasonOr(v, "stale") \in SV!Reason /\ SV!ReasonOr(v, "never-reported") \in SV!Reason
        BY DEF SV!Reason, SV!ReasonOr, SV!StateValue
      <3>2. CASE v.quality = "stale" BY <1>2, <3>1, <3>2 DEF SV!normalize
      <3>3. CASE v.quality # "stale" BY <1>2, <3>1, <3>3 DEF SV!normalize
      <3>4. QED BY <3>2, <3>3
    <2>2. QED BY <2>1 DEF SameBut, SV!StateValue
  <1>3. QED BY <1>1, <1>2

\* Storing w over v, or as the first value of its key.
LEMMA OverSame ==
    ASSUME NEW v \in SV!StateValue \cup {None}, NEW w \in SV!StateValue
    PROVE  SameBut(w, Unversioned(SV!Over(v, w)))
  <1> DEFINE n == SV!normalize(w)
             version == IF v = None THEN 1 ELSE v.version + 1
             o == SV!Over(v, w)
  <1>1. SameBut(w, n) BY normalizeSame
  <1>2. version \in Nat BY DEF SV!StateValue
  <1>3. o = [n EXCEPT !.version = version] BY DEF SV!Over
  <1> HIDE DEF n, version
  <1>4. SameBut(w, o) BY <1>1, <1>2, <1>3 DEF SameBut, SV!StateValue
  <1> HIDE DEF o
  <1>5. SameBut(o, Unversioned(o)) BY <1>4, UnversionedSame DEF SameBut
  <1>6. QED BY <1>4, <1>5 DEF SameBut, o

\* A report leaves the stored value, or replaces it by a known one that nobody owns.
LEMMA ReportedGood ==
    ASSUME clock \in Nat, NEW k, NEW v \in SV!StateValue \cup {None}, NEW u \in Value, NEW n \in Nat,
           v # None => GoodValue(v)
    PROVE  /\ GoodValue(Reported(k, v, u, n))
           /\ v = None => Reported(k, v, u, n).pending = None
           /\ v # None => Reported(k, v, u, n).pending \in {None, v.pending}
  <1> DEFINE r == SV!Report(hub, u, "reported", n, clock, clock, 0)
             a == SV!Applied(v, r, [p \in Provider |-> 0])
  <1>1. r \in SV!StateValue /\ r.value = u /\ r.quality = "reported" /\ r.pending = None
    BY ProviderAssumption DEF SV!Report, SV!StateValue, SV!Quality
  <1>2. u # None BY ValueAssumption
  <1>3. Reported(k, v, u, n) = Unversioned(a) BY DEF Reported
  <1> HIDE DEF r
  <1>4. CASE a = v /\ v # None
    <2>1. SameBut(v, Unversioned(v)) BY <1>4, UnversionedSame DEF GoodValue
    <2>2. QED BY <1>3, <1>4, <2>1 DEF GoodValue, SameBut
  <1>5. CASE a = SV!Over(v, r)
    <2>1. SameBut(r, Unversioned(a)) BY <1>1, <1>5, OverSame
    <2>2. QED BY <1>1, <1>2, <1>3, <2>1 DEF GoodValue, SameBut
  <1>6. QED BY <1>4, <1>5 DEF SV!Applied

\* The optimistic value of command c is known and owned by c.
LEMMA OptimisticGood ==
    ASSUME NEW v \in SV!StateValue \cup {None}, NEW p \in Provider \cup {None}, NEW u \in Value,
           NEW c \in Id, NEW r \in Command
    PROVE  LET w == Unversioned(SV!Over(v, SV!Optimistic(p, u, c, r.created, r.deadline)))
           IN  GoodValue(w) /\ w.pending = c
  <1> DEFINE i == SV!Optimistic(p, u, c, r.created, r.deadline)
             w == Unversioned(SV!Over(v, i))
  <1>1. PICK a \in Nat, d \in Nat : a = r.created /\ d = r.deadline BY DEF Command
  <1>2. i \in SV!StateValue /\ i.value = u /\ i.quality = "optimistic" /\ i.pending = c
    BY <1>1 DEF SV!Optimistic, SV!StateValue, SV!Quality
  <1>3. u # None BY ValueAssumption
  <1> HIDE DEF i
  <1>4. SameBut(i, w) BY <1>2, OverSame
  <1> HIDE DEF w
  <1>5. GoodValue(w) /\ w.pending = c BY <1>2, <1>3, <1>4 DEF GoodValue, SameBut
  <1>6. QED BY <1>5 DEF w, i

\* A value that becomes stale or unknown, and loses its owner.
Fades(w, u) == w \in SV!StateValue /\ w.pending = None /\ w.quality \in {u, "stale"}

\* A value that has faded is owned by nobody.
LEMMA FadesGood ==
    ASSUME NEW w, Fades(w, "unknown")
    PROVE  GoodValue(w)
  BY DEF Fades, GoodValue

\* A roll back ends the ownership: to the fallback, or to a stale value.
LEMMA ResolvedGood ==
    ASSUME NEW v \in SV!StateValue, NEW f, f # None => GoodValue(f)
    PROVE  LET w == Unversioned(SV!Resolved(v, f))
           IN  /\ GoodValue(w) /\ w.pending = None
               /\ f = None => w.quality = "stale"
  <1> DEFINE r == SV!Resolved(v, f)
             w == Unversioned(r)
  <1>0. PICK n \in Nat : n = v.version + 1 BY NextVersion
  <1>1. CASE f # None
    <2>1. r = [f EXCEPT !.version = n, !.pending = None] BY <1>0, <1>1 DEF SV!Resolved
    <2>2. f \in SV!StateValue BY <1>1 DEF GoodValue
    <2>3. r \in SV!StateValue /\ r.value = f.value /\ r.quality = f.quality /\ r.pending = None
      BY <2>1, <2>2 DEF SV!StateValue
    <2> HIDE DEF r
    <2>4. SameBut(r, w) BY <2>3, UnversionedSame
    <2> HIDE DEF w
    <2>5. GoodValue(w) /\ w.pending = None BY <1>1, <2>3, <2>4 DEF GoodValue, SameBut
    <2>6. QED BY <1>1, <2>5 DEF w, r
  <1>2. CASE f = None
    <2>1. r = [v EXCEPT !.quality = "stale", !.pending = None, !.version = n,
                        !.available = FALSE, !.reason = "command-unconfirmed"]
      BY <1>0, <1>2 DEF SV!Resolved
    <2>2. r \in SV!StateValue /\ r.quality = "stale" /\ r.pending = None
      BY <2>1 DEF SV!StateValue, SV!Quality, SV!Reason
    <2> HIDE DEF r
    <2>3. SameBut(r, w) BY <2>2, UnversionedSame
    <2> HIDE DEF w
    <2>4. GoodValue(w) /\ w.pending = None /\ w.quality = "stale"
      BY <2>2, <2>3 DEF GoodValue, SameBut
    <2>5. QED BY <2>4 DEF w, r
  <1>3. QED BY <1>1, <1>2

\* MarkStale takes a value from its owner.
LEMMA MarkedStaleFades ==
    ASSUME NEW v \in SV!StateValue
    PROVE  Fades(Unversioned(SV!MarkedStale(v)), "stale")
  <1> DEFINE r == SV!MarkedStale(v)
  <1>0. PICK n \in Nat : n = v.version + 1 BY NextVersion
  <1>1. r \in SV!StateValue /\ r.quality = "stale" /\ r.pending = None
    BY <1>0 DEF SV!MarkedStale, SV!StateValue, SV!Quality, SV!Reason
  <1> HIDE DEF r
  <1>2. SameBut(r, Unversioned(r)) BY <1>1, UnversionedSame
  <1>3. QED BY <1>1, <1>2 DEF Fades, SameBut, r

\* An outage leaves a value alone, or marks it: as stale if it was known.
LEMMA MadeUnavailableFades ==
    ASSUME NEW v \in SV!StateValue
    PROVE  LET w == Unversioned(SV!MadeUnavailable(v, "device-offline"))
           IN  \/ SameBut(v, w) /\ (v.quality \in {"stale", "unknown"})
               \/ Fades(w, IF v.value = None THEN "unknown" ELSE "stale")
  <1> DEFINE r == SV!MadeUnavailable(v, "device-offline")
             w == Unversioned(r)
             q == IF SV!Known(v) THEN "stale" ELSE "unknown"
  <1>0. PICK n \in Nat : n = v.version + 1 BY NextVersion
  <1>1. v # None BY ValueAssumption
  <1>2. CASE r = v /\ v.quality = q
    <2>1. SameBut(v, w) BY <1>2, UnversionedSame
    <2>2. QED BY <1>2, <2>1
  <1>3. CASE r = SV!Unavailable(v, "device-offline")
    <2>1. r = [v EXCEPT !.quality = q, !.available = FALSE, !.reason = "device-offline",
                        !.pending = None, !.version = n]
      BY <1>0, <1>3 DEF SV!Unavailable
    <2>2. q \in SV!Quality BY DEF SV!Quality
    <2>3. q = IF v.value = None THEN "unknown" ELSE "stale" BY DEF SV!Known
    <2> HIDE DEF q
    <2>4. r \in SV!StateValue /\ r.quality = q /\ r.pending = None
      BY <2>1, <2>2 DEF SV!StateValue, SV!Reason
    <2> HIDE DEF r
    <2>5. SameBut(r, w) BY <2>4, UnversionedSame
    <2> HIDE DEF w
    <2>6. Fades(w, q) BY <2>4, <2>5 DEF Fades, SameBut
    <2>7. QED BY <2>3, <2>6 DEF w, r
  <1>4. QED BY <1>1, <1>2, <1>3 DEF SV!MadeUnavailable
-----------------------------------------------------------------------------
(* Requests: one moves, the others stay.                                   *)

SameCommand(x, y) == y.command = x.command /\ y.record = x.record /\ y.replayed = x.replayed

SameTarget(x, y) == y.key = x.key /\ y.expected = x.expected /\ y.joined = x.joined

\* y is x, up to whether its context has been cancelled.
Kept(x, y) ==
    /\ y.pc = x.pc /\ SameCommand(x, y) /\ SameTarget(x, y)
    /\ y.bound = x.bound /\ y.old = x.old /\ y.previous = x.previous /\ y.outcome = x.outcome

\* Only request o moves, to y.
Moves(o, y) ==
    op' \in [Op -> Operation] /\ op'[o] = y /\ \A q \in Op \ {o} : Kept(op[q], op'[q])

\* Live, of the command map of this and of the next state.
LEMMA LiveIs ==
    /\ \A c \in Id : Live(c) <=> IsLive(commands, c)
    /\ \A c \in Id : Live(c)' <=> IsLive(commands', c)
    /\ \A c : Live(c)' => IsLive(commands', c)
  BY DEF Live, IsLive, Retained, Terminals

\* Finished commands stay finished, and commands outside F do not become rejected.
LEMMA AgesFacts ==
    ASSUME NEW F, Ages(commands', F), NEW c \in used, c \in Id
    PROVE  /\ ~Live(c) => ~Live(c)'
           /\ c \notin F /\ ~Rejected(c) => ~Rejected(c)'
           /\ commands'[c] # None => commands[c] # None /\ commands'[c].key = commands[c].key
  BY LiveIs DEF Ages, IsLive, Rejected

\* The invariant of one request, when another one moves or none does.
LEMMA OthersKeep ==
    ASSUME WInv, op' \in [Op -> Operation], NEW M \in SUBSET Op,
           \A r \in Op \ M : Kept(op[r], op'[r]),
           NEW F, Ages(commands', F), used \subseteq used',
           NEW q \in Op, q \notin M, op[q].command \notin F,
           op[q].pc \in Gated =>
               /\ gate' = gate
               /\ \A k \in Key : /\ pending'[k] \in {None, pending[k]}
                                 /\ values'[k].pending \in {None, values[k].pending}
               /\ \A m \in M : op'[m].command \in {None, op[m].command},
           op[q].pc \in Running /\ propertyOps[op[q].key] = q /\ propertyOps'[op[q].key] # q
               => ~Live(op[q].command),
           op[q].pc = "cancel" =>
               /\ propertyMu' = propertyMu /\ propertyOps' = propertyOps
               /\ \A m \in M : op'[m].bound => op[m].bound /\ op'[m].command = op[m].command
    PROVE  RequestOK(q)'
  <1> PICK x : x = op[q] OBVIOUS
  <1> PICK y : y = op'[q] OBVIOUS
  <1>1. Kept(x, y) /\ RequestOK(q) /\ x \in Operation BY DEF WInv, TypeInvariant
  <1>2. LocalOK(x) /\ LocalOK(y) BY <1>1 DEF RequestOK, LocalOK, Kept, SameCommand, SameTarget
  <1>3. y.previous # None => GoodValue(y.previous) BY <1>1 DEF RequestOK, Kept
  <1>4. x.command # None => x.command \in used /\ x.command \in Id
    BY <1>1 DEF RequestOK, CommandOK, Operation
  <1>5. CommandOK(x) BY <1>1 DEF RequestOK
  <1>6. x.command # None =>
            /\ ~Live(x.command) => ~Live(x.command)'
            /\ ~Rejected(x.command) => ~Rejected(x.command)'
            /\ commands'[x.command] # None =>
                   commands[x.command] # None /\ commands'[x.command].key = commands[x.command].key
    BY <1>4, AgesFacts
  <1>7. CommandOK(y)'
    <2>1. y.command # None => y.command \in used' BY <1>1, <1>4 DEF Kept, SameCommand
    <2>2. y.pc \in Begun /\ commands'[y.command] # None => commands'[y.command].key = y.key
      BY <1>1, <1>2, <1>5, <1>6 DEF Kept, SameCommand, SameTarget, CommandOK, LocalOK
    <2>3. y.command # None /\ (y.outcome \in Shared \/ y.pc \in Undecided) => ~Rejected(y.command)'
      BY <1>1, <1>5, <1>6 DEF Kept, SameCommand, CommandOK
    <2>4. y.pc \in Answered /\ y.command # None /\ y.outcome \notin Shared => ~Live(y.command)'
      BY <1>1, <1>5, <1>6 DEF Kept, SameCommand, CommandOK
    <2>5. QED BY <2>1, <2>2, <2>3, <2>4 DEF CommandOK
  <1>8. GateOK(q)'
    <2>0. x.pc \in Begun => x.pc \in Gated BY DEF Gated
    <2>00. x.pc \in Early => x.pc \in Begun BY DEF Early, Begun
    <2>1. y.pc \in Gated => gate' = q BY <1>1 DEF RequestOK, GateOK, Kept
    <2>2. ASSUME y.pc \in Begun, ~y.replayed, NEW r \in Op \ {q} PROVE op'[r].command # y.command
      <3>1. x.pc \in Begun /\ ~x.replayed /\ y.command = x.command /\ x.command # None
        BY <1>1, <1>2, <2>2 DEF Kept, SameCommand, LocalOK
      <3>2. op[r].command # x.command BY <1>1, <3>1 DEF RequestOK, GateOK
      <3>3. op'[r].command \in {None, op[r].command} BY <2>0, <3>1 DEF Kept, SameCommand
      <3>4. QED BY <3>1, <3>2, <3>3
    <2>3. y.pc \in Begun /\ ~y.replayed => pending'[y.key] \in {None, y.command}
      BY <1>1, <1>2, <2>0 DEF RequestOK, GateOK, Kept, SameCommand, SameTarget, LocalOK, Begun
    <2>4. y.pc \in Early /\ ~y.replayed => \A k \in Key : values'[k].pending # y.command
      BY <1>1, <1>2, <2>0, <2>00 DEF RequestOK, GateOK, Kept, SameCommand, LocalOK
    <2>5. QED BY <2>1, <2>2, <2>3, <2>4 DEF GateOK
  <1>9. TableOK(q)'
    <2>1. y.pc \in Running /\ propertyOps'[y.key] # q => ~Live(y.command)'
      BY <1>1, <1>2, <1>6 DEF RequestOK, TableOK, Kept, SameCommand, SameTarget, LocalOK
    <2>2. ASSUME y.pc = "cancel"
          PROVE  /\ propertyMu' = q /\ propertyOps'[y.key] # None
                 /\ op'[propertyOps'[y.key]].bound =>
                        ~IsLive(commands', op'[propertyOps'[y.key]].command)
      <3>1. x.pc = "cancel" /\ x.key = y.key BY <1>1, <2>2 DEF Kept, SameTarget
      <3>2. propertyMu' = q /\ propertyOps'[y.key] = propertyOps[x.key] /\ propertyOps[x.key] # None
            /\ (op[propertyOps[x.key]].bound => ~Live(op[propertyOps[x.key]].command))
        BY <1>1, <3>1 DEF RequestOK, TableOK
      <3>3. x.key \in Key BY <1>2, <3>1 DEF LocalOK
      <3>4. PICK e \in Op : e = propertyOps[x.key] BY <3>2, <3>3 DEF WInv, TypeInvariant
      <3>5. op'[e].bound => op[e].bound /\ op'[e].command = op[e].command
        BY <3>1 DEF Kept, SameCommand
      <3>6. RequestOK(e) /\ op[e] \in Operation BY DEF WInv, TypeInvariant
      <3>7. op[e].bound => op[e].command \in used /\ op[e].command \in Id
        BY <3>6 DEF RequestOK, LocalOK, CommandOK, Operation
      <3>8. op[e].bound => ~Live(op[e].command) BY <3>2, <3>4
      <3>9. PICK d : d = op[e].command OBVIOUS
      <3>10. op[e].bound => ~IsLive(commands', d)
        <4>1. d \in used /\ d \in Id => (~Live(d) => ~Live(d)') BY AgesFacts
        <4>2. QED BY <3>7, <3>8, <3>9, <4>1, LiveIs
      <3>11. QED BY <3>2, <3>4, <3>5, <3>9, <3>10
    <2>3. y.pc = "cancel" /\ op'[propertyOps'[y.key]].bound => ~Live(op[propertyOps[y.key]].command)'
      BY <2>2, LiveIs
    <2>4. QED BY <2>1, <2>2, <2>3 DEF TableOK
  <1>10. QED BY <1>2, <1>3, <1>7, <1>8, <1>9 DEF RequestOK

\* The invariant of the request that moves and keeps its command.
LEMMA OwnKeeps ==
    ASSUME WInv, NEW o \in Op, NEW x, x = op[o], NEW y, Moves(o, y),
           NEW F, Ages(commands', F), used' = used,
           \A k \in Key : pending'[k] \in {None, pending[k]},
           y.command = x.command, LocalOK(y), y.previous # None => GoodValue(y.previous),
           y.pc \in Begun => x.pc \in Begun /\ y.key = x.key /\ y.replayed = x.replayed,
           y.pc \in Gated => gate' = o,
           y.pc \in Early =>
               x.pc \in Early /\ \A k \in Key : values'[k].pending \in {None, values[k].pending},
           y.pc \in Running /\ propertyOps'[y.key] # o => ~Live(y.command),
           y.command # None /\ (y.outcome \in Shared \/ y.pc \in Undecided) => ~Rejected(y.command)',
           y.pc \in Answered /\ y.command # None /\ y.outcome \notin Shared => ~Live(y.command)',
           y.pc = "cancel" => /\ propertyMu' = o /\ propertyOps'[y.key] # None
                              /\ op'[propertyOps'[y.key]].bound =>
                                     ~IsLive(commands', op'[propertyOps'[y.key]].command)
    PROVE  RequestOK(o)'
  <1>1. y = op'[o] /\ RequestOK(o) /\ x \in Operation BY DEF WInv, TypeInvariant, Moves
  <1>2. x.command # None => x.command \in used /\ x.command \in Id
    BY <1>1 DEF RequestOK, CommandOK, Operation
  <1>3. y.pc \in Running => y.pc \in Begun BY DEF Running
  <1>4. y.command # None =>
            /\ ~Live(y.command) => ~Live(y.command)'
            /\ commands'[y.command] # None =>
                   commands[y.command] # None /\ commands'[y.command].key = commands[y.command].key
    BY <1>2, AgesFacts
  <1>5. y.pc \in Begun => y.command # None BY DEF LocalOK
  <1>6. CommandOK(y)'
    <2>1. y.pc \in Begun /\ commands'[y.command] # None => commands'[y.command].key = y.key
      BY <1>1, <1>4, <1>5 DEF RequestOK, CommandOK
    <2>2. QED BY <1>2, <2>1 DEF CommandOK
  <1>7. GateOK(o)'
    <2>1. ASSUME y.pc \in Begun, ~y.replayed, NEW r \in Op \ {o} PROVE op'[r].command # y.command
      <3>1. op[r].command # x.command BY <1>1, <2>1 DEF RequestOK, GateOK
      <3>2. op'[r].command = op[r].command BY DEF Moves, Kept, SameCommand
      <3>3. QED BY <3>1, <3>2
    <2>2. y.pc \in Begun /\ ~y.replayed => pending'[y.key] \in {None, y.command}
      BY <1>1 DEF RequestOK, GateOK, LocalOK, Begun
    <2>3. y.pc \in Early /\ ~y.replayed => \A k \in Key : values'[k].pending # y.command
      <3>1. y.pc \in Early => y.pc \in Begun BY DEF Early, Begun
      <3>2. QED BY <1>1, <1>5, <3>1 DEF RequestOK, GateOK
    <2>4. QED BY <1>1, <2>1, <2>2, <2>3 DEF GateOK
  <1>8. TableOK(o)'
    <2>1. y.pc \in Running /\ propertyOps'[y.key] # o => ~Live(y.command)' BY <1>3, <1>4, <1>5
    <2>2. y.pc = "cancel" /\ op'[propertyOps'[y.key]].bound => ~Live(op[propertyOps[y.key]].command)'
      BY LiveIs
    <2>3. QED BY <1>1, <2>1, <2>2 DEF TableOK
  <1>9. QED BY <1>1, <1>6, <1>7, <1>8 DEF RequestOK
\* The stored value of a key, when its owner stays or goes.
LEMMA ValueKeeps ==
    ASSUME WInv, NEW F, Ages(commands', F), used \subseteq used', NEW k \in Key,
           GoodValue(values'[k]), values'[k].pending \in {None, values[k].pending}
    PROVE  ValueOK(k)'
  <1> PICK c : c = values'[k].pending OBVIOUS
  <1>1. c # None => c = values[k].pending /\ ValueOK(k) BY DEF WInv
  <1>2. c # None => c \in used /\ (commands[c] # None => commands[c].key = k)
    BY <1>1 DEF ValueOK
  <1>3. c # None => c \in Id BY DEF GoodValue, SV!StateValue
  <1>4. c # None => (commands'[c] # None => commands'[c].key = k) BY <1>2, <1>3, AgesFacts
  <1>5. QED BY <1>2, <1>4 DEF ValueOK

\* A request moves: what is left to show about the others, the table and the values.
LEMMA MoveStep ==
    ASSUME WInv, IInv', NEW o \in Op, NEW y, Moves(o, y),
           NEW F, Ages(commands', F), used \subseteq used', UNCHANGED <<report, reports, scanned, clock>>,
           \A q \in Op \ {o} : op[q].command \notin F,
           \/ \A q \in Op \ {o} : op[q].pc \notin Gated
           \/ /\ gate' = gate /\ y.command \in {None, op[o].command}
              /\ \A k \in Key : /\ pending'[k] \in {None, pending[k]}
                                /\ values'[k].pending \in {None, values[k].pending},
           \/ propertyMu \in {None, o}
           \/ /\ propertyOps' = propertyOps /\ propertyMu' = propertyMu
              /\ y.bound => op[o].bound /\ y.command = op[o].command,
           \A q \in Op \ {o} :
               op[q].pc \in Running /\ propertyOps[op[q].key] = q /\ propertyOps'[op[q].key] # q
                   => ~Live(op[q].command),
           propertyOps' \in [Key -> Op \cup {None}], propertyMu' \in Op \cup {None},
           gate' \in Op \cup {None}, values' = [k \in Key |-> values'[k]],
           RequestOK(o)', \A k \in Key : ValueOK(k)'
    PROVE  WInv'
  <1>1. ASSUME NEW q \in Op \ {o} PROVE RequestOK(q)'
    <2>1. op' \in [Op -> Operation] /\ y = op'[o] /\ \A r \in Op \ {o} : Kept(op[r], op'[r])
      BY DEF Moves
    <2>2. op[q].pc = "cancel" => propertyMu = q BY DEF WInv, RequestOK, TableOK
    <2>3. q # None BY OpAssumption
    <2> DEFINE M == {o}
    <2>4. M \in SUBSET Op /\ q \notin M /\ \A r \in Op \ M : Kept(op[r], op'[r]) BY <2>1
    <2>5. op[q].command \notin F OBVIOUS
    <2>6. op[q].pc \in Gated =>
              /\ gate' = gate
              /\ \A k \in Key : /\ pending'[k] \in {None, pending[k]}
                                /\ values'[k].pending \in {None, values[k].pending}
              /\ \A m \in M : op'[m].command \in {None, op[m].command}
      BY <2>1
    <2>7. op[q].pc \in Running /\ propertyOps[op[q].key] = q /\ propertyOps'[op[q].key] # q
              => ~Live(op[q].command)
      OBVIOUS
    <2>8. op[q].pc = "cancel" =>
              /\ propertyMu' = propertyMu /\ propertyOps' = propertyOps
              /\ \A m \in M : op'[m].bound => op[m].bound /\ op'[m].command = op[m].command
      BY <2>1, <2>2, <2>3
    <2> HIDE DEF M
    <2>9. QED BY <2>1, <2>4, <2>5, <2>6, <2>7, <2>8, OthersKeep
  <1>2. \A q \in Op : RequestOK(q)' BY <1>1
  <1>3. \A k \in Key : values'[k] \in SV!StateValue BY DEF ValueOK, GoodValue
  <1>4. TypeInvariant'
    BY <1>3 DEF TypeInvariant, WInv, Moves, IInv
  <1>5. QED BY <1>2, <1>4 DEF WInv

\* The invariant, as the steps use it.
LEMMA WInvOp ==
    ASSUME WInv, NEW o \in Op
    PROVE  /\ op \in [Op -> Operation] /\ op[o] \in Operation
           /\ LocalOK(op[o]) /\ CommandOK(op[o]) /\ GateOK(o) /\ TableOK(o)
           /\ op[o].previous # None => GoodValue(op[o].previous)
           /\ op[o].pc \in Gated => \A q \in Op \ {o} : op[q].pc \notin Gated
  BY DEF WInv, TypeInvariant, RequestOK, GateOK

\* A request moves and keeps its command, the table and the lock.
LEMMA PlainStep ==
    ASSUME WInv, IInv', NEW o \in Op, NEW x, x = op[o], NEW y, Moves(o, y),
           NEW F, Quiet(F), \A q \in Op \ {o} : op[q].command \notin F,
           UNCHANGED <<propertyOps, propertyMu, report, reports, scanned, clock>>,
           y.command = x.command, y.bound => x.bound, LocalOK(y),
           y.previous # None => GoodValue(y.previous),
           y.pc \in Begun => x.pc \in Begun /\ y.key = x.key /\ y.replayed = x.replayed,
           y.pc \in Gated => gate' = o,
           y.pc \in Early =>
               x.pc \in Early /\ \A k \in Key : values'[k].pending \in {None, values[k].pending},
           y.pc \in Running => x.pc \in Running,
           y.command # None /\ (y.outcome \in Shared \/ y.pc \in Undecided) => ~Rejected(y.command)',
           y.pc \in Answered /\ y.command # None /\ y.outcome \notin Shared => ~Live(y.command)',
           y.pc # "cancel",
           \/ \A q \in Op \ {o} : op[q].pc \notin Gated
           \/ gate' = gate /\ \A k \in Key : values'[k].pending \in {None, values[k].pending},
           gate' \in Op \cup {None}, values' = [k \in Key |-> values'[k]],
           \A k \in Key : ValueOK(k)'
    PROVE  WInv'
  <1>1. /\ Ages(commands', F) /\ used' = used
        /\ \A k \in Key : pending'[k] \in {None, pending[k]}
    BY DEF Quiet
  <1>2. propertyOps' \in [Key -> Op \cup {None}] /\ propertyMu' \in Op \cup {None}
    BY DEF WInv, TypeInvariant
  <1>3. y.pc \in Running => y.pc \in Begun BY DEF Running
  <1>4. y.pc \in Running /\ propertyOps'[y.key] # o => ~Live(y.command)
    BY <1>3, WInvOp DEF TableOK
  <1>5. RequestOK(o)' BY <1>1, <1>4, OwnKeeps
  <1>6. QED BY <1>1, <1>2, <1>5, MoveStep
-----------------------------------------------------------------------------
(* What the forms of update leave of a request's variables.                *)

\* An update of one request.
LEMMA OneMoves ==
    ASSUME op \in [Op -> Operation], NEW o \in Op, NEW r \in Operation, op' = [op EXCEPT ![o] = r]
    PROVE  Moves(o, r) /\ op'[o] = r
  BY DEF Moves, Kept, SameCommand, SameTarget

\* ... of its label ...
WithPc(o, pc) == [op EXCEPT ![o].pc = pc]

LEMMA ToPc ==
    ASSUME op \in [Op -> Operation], NEW o \in Op, NEW x, x = op[o],
           NEW pc \in PC, op' = WithPc(o, pc),
           NEW y, y = op'[o]
    PROVE  /\ Moves(o, y) /\ y.pc = pc /\ SameCommand(x, y) /\ SameTarget(x, y)
           /\ y.bound = x.bound /\ y.previous = x.previous /\ y.old = x.old
           /\ y.outcome = x.outcome
  BY DEF WithPc, Moves, Kept, SameCommand, SameTarget, Operation

\* ... and of its answer ...
WithOutcome(o, pc, out) == [op EXCEPT ![o].pc = pc, ![o].outcome = out]

LEMMA ToOutcome ==
    ASSUME op \in [Op -> Operation], NEW o \in Op, NEW x, x = op[o],
           NEW pc \in PC, NEW out \in Outcome,
           op' = WithOutcome(o, pc, out), NEW y, y = op'[o]
    PROVE  /\ Moves(o, y) /\ y.pc = pc /\ SameCommand(x, y) /\ SameTarget(x, y)
           /\ y.bound = x.bound /\ y.previous = x.previous /\ y.old = x.old
           /\ y.outcome = out
  <1> x \in Operation OBVIOUS
  <1> DEFINE r == [x EXCEPT !.pc = pc, !.outcome = out]
  <1>1. op' = [op EXCEPT ![o] = r] BY DEF WithOutcome
  <1>2. /\ r \in Operation /\ r.pc = pc /\ SameCommand(x, r) /\ SameTarget(x, r)
        /\ r.bound = x.bound /\ r.previous = x.previous /\ r.old = x.old
        /\ r.outcome = out
    BY DEF SameCommand, SameTarget, Operation
  <1> HIDE DEF r
  <1>3. Moves(o, r) /\ op'[o] = r BY <1>1, <1>2, OneMoves
  <1>4. y = r BY <1>3
  <1>5. QED BY <1>2, <1>3, <1>4

\* ... or its superseded command ...
WithOld(o, pc, old) == [op EXCEPT ![o].pc = pc, ![o].old = old]

LEMMA ToOld ==
    ASSUME op \in [Op -> Operation], NEW o \in Op, NEW x, x = op[o],
           NEW pc \in PC, NEW old \in Id \cup {None},
           op' = WithOld(o, pc, old), NEW y, y = op'[o]
    PROVE  /\ Moves(o, y) /\ y.pc = pc /\ SameCommand(x, y) /\ SameTarget(x, y)
           /\ y.bound = x.bound /\ y.previous = x.previous /\ y.old = old
           /\ y.outcome = x.outcome
  <1> x \in Operation OBVIOUS
  <1> DEFINE r == [x EXCEPT !.pc = pc, !.old = old]
  <1>1. op' = [op EXCEPT ![o] = r] BY DEF WithOld
  <1>2. /\ r \in Operation /\ r.pc = pc /\ SameCommand(x, r) /\ SameTarget(x, r)
        /\ r.bound = x.bound /\ r.previous = x.previous /\ r.old = old
        /\ r.outcome = x.outcome
    BY DEF SameCommand, SameTarget, Operation
  <1> HIDE DEF r
  <1>3. Moves(o, r) /\ op'[o] = r BY <1>1, <1>2, OneMoves
  <1>4. y = r BY <1>3
  <1>5. QED BY <1>2, <1>3, <1>4

\* ... or the value to roll back to ...
WithPrevious(o, pc, v) == [op EXCEPT ![o].pc = pc, ![o].previous = v]

LEMMA ToPrevious ==
    ASSUME op \in [Op -> Operation], NEW o \in Op, NEW x, x = op[o],
           NEW pc \in PC, NEW v \in SV!StateValue,
           op' = WithPrevious(o, pc, v), NEW y, y = op'[o]
    PROVE  /\ Moves(o, y) /\ y.pc = pc /\ SameCommand(x, y) /\ SameTarget(x, y)
           /\ y.bound = x.bound /\ y.previous = v /\ y.old = x.old
           /\ y.outcome = x.outcome
  <1> x \in Operation OBVIOUS
  <1> DEFINE r == [x EXCEPT !.pc = pc, !.previous = v]
  <1>1. op' = [op EXCEPT ![o] = r] BY DEF WithPrevious
  <1>2. /\ r \in Operation /\ r.pc = pc /\ SameCommand(x, r) /\ SameTarget(x, r)
        /\ r.bound = x.bound /\ r.previous = v /\ r.old = x.old
        /\ r.outcome = x.outcome
    BY DEF SameCommand, SameTarget, Operation
  <1> HIDE DEF r
  <1>3. Moves(o, r) /\ op'[o] = r BY <1>1, <1>2, OneMoves
  <1>4. y = r BY <1>3
  <1>5. QED BY <1>2, <1>3, <1>4

\* ... or its property and value ...
WithTarget(o, pc, k, v) == [op EXCEPT ![o].pc = pc, ![o].key = k, ![o].expected = v]

LEMMA ToTarget ==
    ASSUME op \in [Op -> Operation], NEW o \in Op, NEW x, x = op[o],
           NEW pc \in PC, NEW k \in Key, NEW v \in Value,
           op' = WithTarget(o, pc, k, v), NEW y, y = op'[o]
    PROVE  /\ Moves(o, y) /\ y.pc = pc /\ SameCommand(x, y)
           /\ y.key = k /\ y.expected = v /\ y.joined = x.joined
           /\ y.bound = x.bound /\ y.previous = x.previous /\ y.old = x.old
           /\ y.outcome = x.outcome
  <1> x \in Operation OBVIOUS
  <1> DEFINE r == [x EXCEPT !.pc = pc, !.key = k, !.expected = v]
  <1>1. op' = [op EXCEPT ![o] = r] BY DEF WithTarget
  <1>2. /\ r \in Operation /\ r.pc = pc /\ SameCommand(x, r)
        /\ r.key = k /\ r.expected = v /\ r.joined = x.joined
        /\ r.bound = x.bound /\ r.previous = x.previous /\ r.old = x.old
        /\ r.outcome = x.outcome
    BY DEF SameCommand, SameTarget, Operation
  <1> HIDE DEF r
  <1>3. Moves(o, r) /\ op'[o] = r BY <1>1, <1>2, OneMoves
  <1>4. y = r BY <1>3
  <1>5. QED BY <1>2, <1>3, <1>4

\* ... with the operation that it joins ...
WithJoined(o, pc, k, v, e) == [op EXCEPT ![o].pc = pc, ![o].key = k, ![o].expected = v, ![o].joined = e]

LEMMA ToJoined ==
    ASSUME op \in [Op -> Operation], NEW o \in Op, NEW x, x = op[o],
           NEW pc \in PC, NEW k \in Key, NEW v \in Value,
           NEW e \in Op,
           op' = WithJoined(o, pc, k, v, e),
           NEW y, y = op'[o]
    PROVE  /\ Moves(o, y) /\ y.pc = pc /\ SameCommand(x, y)
           /\ y.key = k /\ y.expected = v /\ y.joined = e
           /\ y.bound = x.bound /\ y.previous = x.previous /\ y.old = x.old
           /\ y.outcome = x.outcome
  <1> x \in Operation OBVIOUS
  <1> DEFINE r == [x EXCEPT !.pc = pc, !.key = k, !.expected = v, !.joined = e]
  <1>1. op' = [op EXCEPT ![o] = r] BY DEF WithJoined
  <1>2. /\ r \in Operation /\ r.pc = pc /\ SameCommand(x, r)
        /\ r.key = k /\ r.expected = v /\ r.joined = e
        /\ r.bound = x.bound /\ r.previous = x.previous /\ r.old = x.old
        /\ r.outcome = x.outcome
    BY DEF SameCommand, SameTarget, Operation
  <1> HIDE DEF r
  <1>3. Moves(o, r) /\ op'[o] = r BY <1>1, <1>2, OneMoves
  <1>4. y = r BY <1>3
  <1>5. QED BY <1>2, <1>3, <1>4

\* ... with the command that it replaces ...
WithReplacing(o, pc, k, v, old) == [op EXCEPT ![o].pc = pc, ![o].key = k, ![o].expected = v, ![o].old = old]

LEMMA ToReplacing ==
    ASSUME op \in [Op -> Operation], NEW o \in Op, NEW x, x = op[o],
           NEW pc \in PC, NEW k \in Key, NEW v \in Value,
           NEW old \in Id \cup {None},
           op' = WithReplacing(o, pc, k, v, old),
           NEW y, y = op'[o]
    PROVE  /\ Moves(o, y) /\ y.pc = pc /\ SameCommand(x, y)
           /\ y.key = k /\ y.expected = v /\ y.joined = x.joined
           /\ y.bound = x.bound /\ y.previous = x.previous /\ y.old = old
           /\ y.outcome = x.outcome
  <1> x \in Operation OBVIOUS
  <1> DEFINE r == [x EXCEPT !.pc = pc, !.key = k, !.expected = v, !.old = old]
  <1>1. op' = [op EXCEPT ![o] = r] BY DEF WithReplacing
  <1>2. /\ r \in Operation /\ r.pc = pc /\ SameCommand(x, r)
        /\ r.key = k /\ r.expected = v /\ r.joined = x.joined
        /\ r.bound = x.bound /\ r.previous = x.previous /\ r.old = old
        /\ r.outcome = x.outcome
    BY DEF SameCommand, SameTarget, Operation
  <1> HIDE DEF r
  <1>3. Moves(o, r) /\ op'[o] = r BY <1>1, <1>2, OneMoves
  <1>4. y = r BY <1>3
  <1>5. QED BY <1>2, <1>3, <1>4

\* ... or the command that it shares ...
WithReplayed(o, pc, c, b) == [op EXCEPT ![o].pc = pc, ![o].command = c, ![o].replayed = b]

LEMMA ToReplayed ==
    ASSUME op \in [Op -> Operation], NEW o \in Op, NEW x, x = op[o],
           NEW pc \in PC, NEW c \in Id, NEW b \in BOOLEAN,
           op' = WithReplayed(o, pc, c, b), NEW y, y = op'[o]
    PROVE  /\ Moves(o, y) /\ y.pc = pc /\ SameTarget(x, y)
           /\ y.command = c /\ y.record = x.record /\ y.replayed = b
           /\ y.bound = x.bound /\ y.previous = x.previous /\ y.old = x.old
           /\ y.outcome = x.outcome
  <1> x \in Operation OBVIOUS
  <1> DEFINE r == [x EXCEPT !.pc = pc, !.command = c, !.replayed = b]
  <1>1. op' = [op EXCEPT ![o] = r] BY DEF WithReplayed
  <1>2. /\ r \in Operation /\ r.pc = pc /\ SameTarget(x, r)
        /\ r.command = c /\ r.record = x.record /\ r.replayed = b
        /\ r.bound = x.bound /\ r.previous = x.previous /\ r.old = x.old
        /\ r.outcome = x.outcome
    BY DEF SameCommand, SameTarget, Operation
  <1> HIDE DEF r
  <1>3. Moves(o, r) /\ op'[o] = r BY <1>1, <1>2, OneMoves
  <1>4. y = r BY <1>3
  <1>5. QED BY <1>2, <1>3, <1>4

\* ... or the command that it has begun ...
WithCommand(o, pc, c, n, old) == [op EXCEPT ![o].pc = pc, ![o].command = c, ![o].record = n, ![o].old = old]

LEMMA ToCommand ==
    ASSUME op \in [Op -> Operation], NEW o \in Op, NEW x, x = op[o],
           NEW pc \in PC, NEW c \in Id, NEW n \in Command,
           NEW old \in Id \cup {None},
           op' = WithCommand(o, pc, c, n, old),
           NEW y, y = op'[o]
    PROVE  /\ Moves(o, y) /\ y.pc = pc /\ SameTarget(x, y)
           /\ y.command = c /\ y.record = n /\ y.replayed = x.replayed
           /\ y.bound = x.bound /\ y.previous = x.previous /\ y.old = old
           /\ y.outcome = x.outcome
  <1> x \in Operation OBVIOUS
  <1> DEFINE r == [x EXCEPT !.pc = pc, !.command = c, !.record = n, !.old = old]
  <1>1. op' = [op EXCEPT ![o] = r] BY DEF WithCommand
  <1>2. /\ r \in Operation /\ r.pc = pc /\ SameTarget(x, r)
        /\ r.command = c /\ r.record = n /\ r.replayed = x.replayed
        /\ r.bound = x.bound /\ r.previous = x.previous /\ r.old = old
        /\ r.outcome = x.outcome
    BY DEF SameCommand, SameTarget, Operation
  <1> HIDE DEF r
  <1>3. Moves(o, r) /\ op'[o] = r BY <1>1, <1>2, OneMoves
  <1>4. y = r BY <1>3
  <1>5. QED BY <1>2, <1>3, <1>4

\* ... or whether its command is published ...
WithBound(o, pc, b, out) == [op EXCEPT ![o].bound = b, ![o].pc = pc, ![o].outcome = out]

LEMMA ToBound ==
    ASSUME op \in [Op -> Operation], NEW o \in Op, NEW x, x = op[o],
           NEW pc \in PC, NEW b \in BOOLEAN,
           NEW out \in Outcome,
           op' = WithBound(o, pc, b, out), NEW y, y = op'[o]
    PROVE  /\ Moves(o, y) /\ y.pc = pc /\ SameCommand(x, y) /\ SameTarget(x, y)
           /\ y.bound = b /\ y.previous = x.previous /\ y.old = x.old
           /\ y.outcome = out
  <1> x \in Operation OBVIOUS
  <1> DEFINE r == [x EXCEPT !.bound = b, !.pc = pc, !.outcome = out]
  <1>1. op' = [op EXCEPT ![o] = r] BY DEF WithBound
  <1>2. /\ r \in Operation /\ r.pc = pc /\ SameCommand(x, r) /\ SameTarget(x, r)
        /\ r.bound = b /\ r.previous = x.previous /\ r.old = x.old
        /\ r.outcome = out
    BY DEF SameCommand, SameTarget, Operation
  <1> HIDE DEF r
  <1>3. Moves(o, r) /\ op'[o] = r BY <1>1, <1>2, OneMoves
  <1>4. y = r BY <1>3
  <1>5. QED BY <1>2, <1>3, <1>4

\* ... and what is left of it at the end.
WithDone(o, c, out) == [op EXCEPT ![o] = [NoOperation EXCEPT !.pc = "done", !.command = c, !.outcome = out]]

LEMMA ToDone ==
    ASSUME op \in [Op -> Operation], NEW o \in Op, NEW c \in Id \cup {None}, NEW out \in Outcome,
           op' = WithDone(o, c, out),
           NEW y, y = op'[o]
    PROVE  /\ Moves(o, y) /\ y.pc = "done" /\ y.command = c /\ y.outcome = out
           /\ y.previous = None /\ ~y.bound
  <1> DEFINE r == [NoOperation EXCEPT !.pc = "done", !.command = c, !.outcome = out]
  <1>1. NoOperation \in Operation BY DEF NoOperation, Operation, PC, Outcome
  <1>2. NoOperation.previous = None /\ ~NoOperation.bound BY DEF NoOperation
  <1>3. "done" \in PC BY DEF PC
  <1>4. /\ r \in Operation /\ r.pc = "done" /\ r.command = c /\ r.outcome = out
        /\ r.previous = NoOperation.previous /\ (r.bound <=> NoOperation.bound)
    BY <1>1, <1>3 DEF Operation
  <1> HIDE DEF r
  <1>5. op' \in [Op -> Operation] /\ op'[o] = r /\ \A q \in Op \ {o} : op'[q] = op[q]
    BY <1>4 DEF r, WithDone
  <1>6. QED BY <1>2, <1>4, <1>5 DEF Moves, Kept, SameCommand, SameTarget

\* The end of its context changes nothing else.
WithCancelled(o, b) == [op EXCEPT ![o].cancelled = b]

LEMMA ToCancelled ==
    ASSUME op \in [Op -> Operation], NEW o \in Op, NEW x, x = op[o], NEW b \in BOOLEAN,
           op' = WithCancelled(o, b), NEW y, y = op'[o]
    PROVE  Moves(o, y) /\ Kept(x, y)
  BY DEF WithCancelled, Moves, Kept, SameCommand, SameTarget, Operation
-----------------------------------------------------------------------------
(* The steps of a request.                                                 *)

\* Values that stay are good, whatever the tracker does to finished commands.
LEMMA ValuesStay ==
    ASSUME WInv, NEW F, Ages(commands', F), used \subseteq used', UNCHANGED values
    PROVE  /\ values' = [k \in Key |-> values'[k]]
           /\ \A k \in Key : ValueOK(k)' /\ values'[k].pending \in {None, values[k].pending}
  <1>1. values' = [k \in Key |-> values'[k]] BY DEF WInv, TypeInvariant
  <1>2. ASSUME NEW k \in Key
        PROVE  ValueOK(k)' /\ values'[k].pending \in {None, values[k].pending}
    <2>1. GoodValue(values'[k]) BY DEF WInv, ValueOK
    <2>2. values'[k].pending \in {None, values[k].pending} OBVIOUS
    <2>3. QED BY <2>1, <2>2, ValueKeeps
  <1>3. QED BY <1>1, <1>2

\* ResolveOptimistic takes values from their owner, and touches no others.
LEMMA ValuesResolved ==
    ASSUME WInv, NEW F, Ages(commands', F), used \subseteq used', NEW c \in Id, NEW f,
           f # None => GoodValue(f), values' = resolve(c, f)
    PROVE  /\ values' = [k \in Key |-> values'[k]]
           /\ \A k \in Key : ValueOK(k)' /\ values'[k].pending \in {None, values[k].pending}
           /\ \A k \in Key : values'[k] # values[k] =>
                  values[k].pending = c /\ (f = None => values'[k].quality = "stale")
  <1>1. values' = [k \in Key |-> values'[k]] BY DEF resolve
  <1>2. ASSUME NEW k \in Key
        PROVE  /\ GoodValue(values'[k]) /\ values'[k].pending \in {None, values[k].pending}
               /\ values'[k] # values[k] =>
                      values[k].pending = c /\ (f = None => values'[k].quality = "stale")
    <2>1. GoodValue(values[k]) /\ values[k] \in SV!StateValue BY DEF WInv, ValueOK, GoodValue
    <2>2. CASE values[k] # None /\ values[k].pending = c
      <3>1. values'[k] = Unversioned(SV!Resolved(values[k], f)) BY <2>2 DEF resolve
      <3>2. QED BY <2>1, <2>2, <3>1, ResolvedGood
    <2>3. CASE ~(values[k] # None /\ values[k].pending = c)
      <3>1. values'[k] = values[k] BY <2>3 DEF resolve
      <3>2. QED BY <2>1, <3>1
    <2>4. QED BY <2>2, <2>3
  <1>3. \A k \in Key : ValueOK(k)' BY <1>2, ValueKeeps
  <1>4. QED BY <1>1, <1>2, <1>3

\* The tracker does nothing.
LEMMA TrackerStays ==
    ASSUME WInv, UNCHANGED vars
    PROVE  /\ IInv' /\ Quiet({}) /\ UNCHANGED clock
           /\ \A c : (Live(c)' <=> Live(c)) /\ (Rejected(c)' <=> Rejected(c))
  <1>1. IInv' BY StepIInv DEF WInv
  <1>2. Quiet({}) BY SameQuiet DEF WInv
  <1>3. QED BY <1>1, <1>2 DEF vars, Live, Retained, Terminals, Rejected

\* A request moves; the tracker, the values, the table and the lock stay.
LEMMA OnlyMoves ==
    ASSUME WInv, NEW o \in Op, NEW x, x = op[o], NEW y, Moves(o, y),
           UNCHANGED <<vars, values, propertyOps, propertyMu, report, reports, scanned>>,
           y.command = x.command, y.bound => x.bound, LocalOK(y),
           y.previous # None => GoodValue(y.previous),
           y.pc \in Begun => x.pc \in Begun /\ y.key = x.key /\ y.replayed = x.replayed,
           y.pc \in Gated => gate' = o,
           y.pc \in Early => x.pc \in Early,
           y.pc \in Running => x.pc \in Running,
           y.command # None /\ (y.outcome \in Shared \/ y.pc \in Undecided) => ~Rejected(y.command),
           y.pc \in Answered /\ y.command # None /\ y.outcome \notin Shared => ~Live(y.command),
           y.pc # "cancel", gate' \in Op \cup {None},
           gate' = gate \/ \A q \in Op \ {o} : op[q].pc \notin Gated
    PROVE  WInv'
  <1>1. UNCHANGED vars OBVIOUS
  <1>2. /\ IInv' /\ Quiet({}) /\ UNCHANGED clock
        /\ \A c : (Live(c)' <=> Live(c)) /\ (Rejected(c)' <=> Rejected(c))
    BY <1>1, TrackerStays
  <1>3. Ages(commands', {}) /\ used \subseteq used' BY <1>2 DEF Quiet
  <1>4. /\ values' = [k \in Key |-> values'[k]]
        /\ \A k \in Key : ValueOK(k)' /\ values'[k].pending \in {None, values[k].pending}
    BY <1>3, ValuesStay
  <1>5. \A q \in Op \ {o} : op[q].command \notin {} OBVIOUS
  <1>6. /\ y.command # None /\ (y.outcome \in Shared \/ y.pc \in Undecided) => ~Rejected(y.command)'
        /\ y.pc \in Answered /\ y.command # None /\ y.outcome \notin Shared => ~Live(y.command)'
    BY <1>2
  <1>7. QED BY <1>2, <1>4, <1>5, <1>6, PlainStep

\* The gate was free, so no request is between acquire and release.
LEMMA AcquireStep ==
    ASSUME WInv, NEW o \in Op, Acquire(o) PROVE WInv'
  <1> PICK x : x = op[o] OBVIOUS
  <1> PICK y : y = op'[o] OBVIOUS
  <1>1. op \in [Op -> Operation] /\ LocalOK(x) /\ (x.previous # None => GoodValue(x.previous))
    BY WInvOp
  <1>2. x.pc = "acquire" /\ gate' = o /\ op' = WithPc(o, "get") BY DEF Acquire, At, WithPc
  <1>3. "get" \in PC BY DEF PC
  <1>4. /\ Moves(o, y) /\ y.pc = "get" /\ SameCommand(x, y) /\ SameTarget(x, y)
        /\ y.bound = x.bound /\ y.previous = x.previous /\ y.old = x.old
        /\ y.outcome = x.outcome
    BY <1>1, <1>2, <1>3, ToPc
  <1>5. x.command = None BY <1>1, <1>2 DEF LocalOK, Waiting
  <1>6. LocalOK(y) BY <1>1, <1>2, <1>4 DEF LocalOK, SameCommand, SameTarget, Waiting, Begun, Running, Early
  <1>7. y.pc \notin Begun \cup Early \cup Running BY <1>4 DEF Begun, Early, Running
  <1>8. \A q \in Op \ {o} : op[q].pc \notin Gated
    BY WInvOp, OpAssumption DEF GateOK, Acquire
  <1>9. UNCHANGED <<vars, values, propertyOps, propertyMu, report, reports, scanned>> BY DEF Acquire
  <1>10. QED BY <1>1, <1>2, <1>4, <1>5, <1>6, <1>7, <1>8, <1>9, OnlyMoves DEF SameCommand

\* The value read under the gate is a good one to roll back to.
LEMMA GetPreviousStep ==
    ASSUME WInv, NEW o \in Op, GetPrevious(o) PROVE WInv'
  <1> PICK x : x = op[o] OBVIOUS
  <1> PICK y : y = op'[o] OBVIOUS
  <1>1. op \in [Op -> Operation] /\ LocalOK(x) /\ GateOK(o)
    BY WInvOp
  <1>2. /\ x.pc = "get" /\ op' = WithPrevious(o, "begin", values[x.key])
        /\ UNCHANGED <<vars, values, propertyOps, propertyMu, gate, report, reports, scanned>>
    BY DEF GetPrevious, At, WithPrevious
  <1>3. "begin" \in PC BY DEF PC
  <1>4. PICK v \in SV!StateValue : v = values[x.key] /\ GoodValue(v)
    BY <1>1, <1>2 DEF WInv, ValueOK, GoodValue, LocalOK
  <1>5. /\ Moves(o, y) /\ y.pc = "begin" /\ SameCommand(x, y) /\ SameTarget(x, y)
        /\ y.bound = x.bound /\ y.previous = v /\ y.old = x.old
        /\ y.outcome = x.outcome
    BY <1>1, <1>2, <1>3, <1>4, ToPrevious
  <1>6. x.command = None BY <1>1, <1>2 DEF LocalOK, Waiting
  <1>7. LocalOK(y) BY <1>1, <1>2, <1>5 DEF LocalOK, SameCommand, SameTarget, Waiting, Begun, Running, Early
  <1>8. y.pc \notin Begun \cup Early \cup Running BY <1>5 DEF Begun, Early, Running
  <1>9. gate = o BY <1>1, <1>2 DEF GateOK, Gated
  <1>10. QED BY <1>2, <1>4, <1>5, <1>6, <1>7, <1>8, <1>9, OnlyMoves DEF SameCommand

\* A joining request has no command and is not in the table.
LEMMA JoinStep ==
    ASSUME WInv, NEW o \in Op, NEW k \in Key, NEW v \in Value, Join(o, k, v) PROVE WInv'
  <1> PICK x : x = op[o] OBVIOUS
  <1> PICK y : y = op'[o] OBVIOUS
  <1>1. op \in [Op -> Operation] /\ LocalOK(x) /\ (x.previous # None => GoodValue(x.previous))
    BY WInvOp
  <1>2. PICK e \in Op : e = propertyOps[k] BY DEF Join, WInv, TypeInvariant
  <1>3. /\ x.pc = "idle" /\ op' = WithJoined(o, "joined", k, v, e)
        /\ UNCHANGED <<vars, values, propertyOps, propertyMu, gate, report, reports, scanned>>
    BY <1>2 DEF Join, At, WithJoined
  <1>4. "joined" \in PC BY DEF PC
  <1>5. /\ Moves(o, y) /\ y.pc = "joined" /\ SameCommand(x, y)
        /\ y.key = k /\ y.expected = v /\ y.joined = e
        /\ y.bound = x.bound /\ y.previous = x.previous /\ y.old = x.old
        /\ y.outcome = x.outcome
    BY <1>1, <1>3, <1>4, ToJoined
  <1>6. x.command = None BY <1>1, <1>3 DEF LocalOK, Waiting
  <1>7. LocalOK(y)
    BY <1>1, <1>3, <1>5, OpAssumption DEF LocalOK, SameCommand, Waiting, Begun, Running, Early
  <1>8. y.pc \notin Begun \cup Early \cup Running \cup Gated BY <1>5 DEF Begun, Early, Running, Gated
  <1>9. gate' \in Op \cup {None} BY <1>3 DEF WInv, TypeInvariant
  <1>10. QED BY <1>1, <1>3, <1>5, <1>6, <1>7, <1>8, <1>9, OnlyMoves DEF SameCommand

\* A request that gives up has no command.
LEMMA AcquireCancelledStep ==
    ASSUME WInv, NEW o \in Op, AcquireCancelled(o) PROVE WInv'
  <1> PICK x : x = op[o] OBVIOUS
  <1> PICK y : y = op'[o] OBVIOUS
  <1>1. op \in [Op -> Operation] /\ LocalOK(x) /\ (x.previous # None => GoodValue(x.previous))
    BY WInvOp
  <1>2. /\ x.pc = "acquire" /\ op' = WithOutcome(o, "finish", "error")
        /\ UNCHANGED <<vars, values, propertyOps, propertyMu, gate, report, reports, scanned>>
    BY DEF AcquireCancelled, At, WithOutcome
  <1>3. "finish" \in PC /\ "error" \in Outcome BY DEF PC, Outcome
  <1>4. /\ Moves(o, y) /\ y.pc = "finish" /\ SameCommand(x, y) /\ SameTarget(x, y)
        /\ y.bound = x.bound /\ y.previous = x.previous /\ y.old = x.old
        /\ y.outcome = "error"
    BY <1>1, <1>2, <1>3, ToOutcome
  <1>5. x.command = None BY <1>1, <1>2 DEF LocalOK, Waiting
  <1>6. LocalOK(y)
    BY <1>1, <1>2, <1>4 DEF LocalOK, SameCommand, SameTarget, Waiting, Begun, Running, Early
  <1>7. y.pc \notin Begun \cup Early \cup Running \cup Gated BY <1>4 DEF Begun, Early, Running, Gated
  <1>8. gate' \in Op \cup {None} BY <1>2 DEF WInv, TypeInvariant
  <1>9. QED BY <1>1, <1>2, <1>4, <1>5, <1>6, <1>7, <1>8, OnlyMoves DEF SameCommand

\* The value is read again before anything is stored for the command.
LEMMA RereadStep ==
    ASSUME WInv, NEW o \in Op, Reread(o) PROVE WInv'
  <1> PICK x : x = op[o] OBVIOUS
  <1> PICK y : y = op'[o] OBVIOUS
  <1>1. op \in [Op -> Operation] /\ LocalOK(x) /\ CommandOK(x) /\ GateOK(o)
    BY WInvOp
  <1>2. /\ x.pc = "reread" /\ op' = WithPrevious(o, "optimistic", values[x.key])
        /\ UNCHANGED <<vars, values, propertyOps, propertyMu, gate, report, reports, scanned>>
    BY DEF Reread, At, WithPrevious
  <1>3. "optimistic" \in PC BY DEF PC
  <1>4. PICK v \in SV!StateValue : v = values[x.key] /\ GoodValue(v)
    BY <1>1, <1>2 DEF WInv, ValueOK, GoodValue, LocalOK
  <1>5. /\ Moves(o, y) /\ y.pc = "optimistic" /\ SameCommand(x, y) /\ SameTarget(x, y)
        /\ y.bound = x.bound /\ y.previous = v /\ y.old = x.old
        /\ y.outcome = x.outcome
    BY <1>1, <1>2, <1>3, <1>4, ToPrevious
  <1>6. LocalOK(y)
    BY <1>1, <1>2, <1>5 DEF LocalOK, SameCommand, SameTarget, Waiting, Begun, Running, Early
  <1>7. x.pc \in Begun /\ x.pc \in Early /\ x.pc \in Running /\ x.pc \in Undecided /\ x.pc \in Gated
    BY <1>2 DEF Begun, Early, Running, Undecided, Gated
  <1>8. gate = o BY <1>1, <1>7 DEF GateOK
  <1>9. y.pc \notin Answered BY <1>5 DEF Answered
  <1>10. y.command # None => ~Rejected(y.command) BY <1>1, <1>5, <1>7 DEF CommandOK, SameCommand
  <1>11. QED
    BY <1>2, <1>4, <1>5, <1>6, <1>7, <1>8, <1>9, <1>10, OnlyMoves DEF SameCommand, SameTarget

\* The provider answers; nothing is decided yet.
LEMMA WriteReturnsStep ==
    ASSUME WInv, NEW o \in Op, NEW ok \in BOOLEAN, WriteReturns(o, ok) PROVE WInv'
  <1> PICK x : x = op[o] OBVIOUS
  <1> PICK y : y = op'[o] OBVIOUS
  <1> PICK pc \in {"written", "failed"} : pc = IF ok THEN "written" ELSE "failed" OBVIOUS
  <1>1. /\ op \in [Op -> Operation] /\ LocalOK(x) /\ CommandOK(x) /\ GateOK(o)
        /\ x.previous # None => GoodValue(x.previous)
    BY WInvOp
  <1>2. /\ x.pc = "write" /\ op' = WithPc(o, pc)
        /\ UNCHANGED <<vars, values, propertyOps, propertyMu, gate, report, reports, scanned>>
    BY DEF WriteReturns, At, WithPc
  <1>3. pc \in PC BY DEF PC
  <1>4. /\ Moves(o, y) /\ y.pc = pc /\ SameCommand(x, y) /\ SameTarget(x, y)
        /\ y.bound = x.bound /\ y.previous = x.previous /\ y.old = x.old
        /\ y.outcome = x.outcome
    BY <1>1, <1>2, <1>3, ToPc
  <1>5. LocalOK(y)
    BY <1>1, <1>2, <1>4 DEF LocalOK, SameCommand, SameTarget, Waiting, Begun, Running, Early
  <1>6. x.pc \in Begun /\ x.pc \in Running /\ x.pc \in Undecided /\ x.pc \in Gated
    BY <1>2 DEF Begun, Running, Undecided, Gated
  <1>7. gate = o BY <1>1, <1>6 DEF GateOK
  <1>8. y.pc \notin Answered \cup Early BY <1>4 DEF Answered, Early
  <1>9. y.command # None => ~Rejected(y.command) BY <1>1, <1>4, <1>6 DEF CommandOK, SameCommand
  <1>10. QED
    BY <1>1, <1>2, <1>4, <1>5, <1>6, <1>7, <1>8, <1>9, OnlyMoves DEF SameCommand, SameTarget

\* A command that the tracker has as superseded is not live.
LEMMA SupersededNotLive ==
    ASSUME NEW c, KnownSuperseded(c) PROVE ~Live(c) /\ ~Rejected(c)
  BY DEF KnownSuperseded, Live, Retained, Terminals, TerminalStatus, Rejected

\* A write that finds its command superseded leaves no live command behind.
LEMMA LookUpStep ==
    ASSUME WInv, NEW o \in Op, NEW from \in {"failed", "written"}, NEW to \in {"reject", "accept"},
           LookUp(o, from, to)
    PROVE  WInv'
  <1> PICK x : x = op[o] OBVIOUS
  <1> PICK y : y = op'[o] OBVIOUS
  <1>1. /\ op \in [Op -> Operation] /\ LocalOK(x) /\ CommandOK(x) /\ GateOK(o)
        /\ x.previous # None => GoodValue(x.previous)
    BY WInvOp
  <1>2. /\ x.pc = from
        /\ UNCHANGED <<vars, values, propertyOps, propertyMu, gate, report, reports, scanned>>
    BY DEF LookUp, At
  <1>3. x.pc \in Begun /\ x.pc \in Running /\ x.pc \in Undecided /\ x.pc \in Gated
    BY <1>2 DEF Begun, Running, Undecided, Gated
  <1>4. gate = o BY <1>1, <1>3 DEF GateOK
  <1>5. x.command # None /\ ~Rejected(x.command) BY <1>1, <1>3 DEF CommandOK, LocalOK
  <1>6. CASE KnownSuperseded(x.command)
    <2>1. op' = WithOutcome(o, "rollback", "superseded") BY <1>6 DEF LookUp, WithOutcome
    <2>2. "rollback" \in PC /\ "superseded" \in Outcome BY DEF PC, Outcome
    <2>3. /\ Moves(o, y) /\ y.pc = "rollback" /\ SameCommand(x, y) /\ SameTarget(x, y)
          /\ y.bound = x.bound /\ y.previous = x.previous /\ y.old = x.old
          /\ y.outcome = "superseded"
      BY <1>1, <2>1, <2>2, ToOutcome
    <2>4. LocalOK(y)
      BY <1>1, <1>2, <2>3 DEF LocalOK, SameCommand, SameTarget, Waiting, Begun, Running, Early, Shared
    <2>5. y.pc \notin Early BY <2>3 DEF Early
    <2>6. ~Live(y.command) /\ ~Rejected(y.command) BY <1>6, <2>3, SupersededNotLive DEF SameCommand
    <2>7. QED BY <1>1, <1>2, <1>3, <1>4, <2>3, <2>4, <2>5, <2>6, OnlyMoves DEF SameCommand, SameTarget
  <1>7. CASE ~KnownSuperseded(x.command)
    <2>1. op' = WithPc(o, to) BY <1>7 DEF LookUp, WithPc
    <2>2. to \in PC BY DEF PC
    <2>3. /\ Moves(o, y) /\ y.pc = to /\ SameCommand(x, y) /\ SameTarget(x, y)
          /\ y.bound = x.bound /\ y.previous = x.previous /\ y.old = x.old
          /\ y.outcome = x.outcome
      BY <1>1, <2>1, <2>2, ToPc
    <2>4. LocalOK(y)
      BY <1>1, <1>2, <2>3 DEF LocalOK, SameCommand, SameTarget, Waiting, Begun, Running, Early
    <2>5. y.pc \notin Early \cup Answered BY <2>3 DEF Early, Answered
    <2>6. ~Rejected(y.command) BY <1>5, <2>3 DEF SameCommand
    <2>7. QED BY <1>1, <1>2, <1>3, <1>4, <2>3, <2>4, <2>5, <2>6, OnlyMoves DEF SameCommand, SameTarget
  <1>8. QED BY <1>6, <1>7

\* The holder of the gate was the only one.
LEMMA ReleaseStep ==
    ASSUME WInv, NEW o \in Op, Release(o) PROVE WInv'
  <1> PICK x : x = op[o] OBVIOUS
  <1> PICK y : y = op'[o] OBVIOUS
  <1>1. /\ op \in [Op -> Operation] /\ LocalOK(x) /\ CommandOK(x)
        /\ x.previous # None => GoodValue(x.previous)
        /\ x.pc \in Gated => \A q \in Op \ {o} : op[q].pc \notin Gated
    BY WInvOp
  <1>2. /\ x.pc = "release" /\ op' = WithPc(o, "finish") /\ gate' = None
        /\ UNCHANGED <<vars, values, propertyOps, propertyMu, report, reports, scanned>>
    BY DEF Release, At, WithPc
  <1>3. "finish" \in PC BY DEF PC
  <1>4. /\ Moves(o, y) /\ y.pc = "finish" /\ SameCommand(x, y) /\ SameTarget(x, y)
        /\ y.bound = x.bound /\ y.previous = x.previous /\ y.old = x.old
        /\ y.outcome = x.outcome
    BY <1>1, <1>2, <1>3, ToPc
  <1>5. LocalOK(y)
    BY <1>1, <1>2, <1>4 DEF LocalOK, SameCommand, SameTarget, Waiting, Begun, Running, Early
  <1>6. y.pc \notin Begun \cup Early \cup Running \cup Gated \cup Undecided
    BY <1>4 DEF Begun, Early, Running, Gated, Undecided
  <1>7. x.pc \in Gated /\ x.pc \in Answered BY <1>2 DEF Gated, Begun, Answered
  <1>8. /\ y.command # None /\ y.outcome \in Shared => ~Rejected(y.command)
        /\ y.command # None /\ y.outcome \notin Shared => ~Live(y.command)
    BY <1>1, <1>4, <1>7 DEF CommandOK, SameCommand
  <1>9. QED BY <1>1, <1>2, <1>4, <1>5, <1>6, <1>7, <1>8, OnlyMoves DEF SameCommand

\* A late supersession changes the answer to what the command says.
LEMMA FinalAnswerStep ==
    ASSUME WInv, NEW o \in Op, FinalAnswer(o) PROVE WInv'
  <1> PICK x : x = op[o] OBVIOUS
  <1> PICK y : y = op'[o] OBVIOUS
  <1>1. /\ op \in [Op -> Operation] /\ x \in Operation /\ LocalOK(x) /\ CommandOK(x)
        /\ x.previous # None => GoodValue(x.previous)
    BY WInvOp
  <1> PICK out \in Outcome : out = IF x.command # None /\ KnownSuperseded(x.command)
                                   THEN "superseded" ELSE x.outcome
    BY <1>1 DEF Operation, Outcome
  <1>2. /\ x.pc = "finish" /\ op' = WithOutcome(o, "close", out)
        /\ UNCHANGED <<vars, values, propertyOps, propertyMu, gate, report, reports, scanned>>
    BY DEF FinalAnswer, At, WithOutcome
  <1>3. "close" \in PC BY DEF PC
  <1>4. /\ Moves(o, y) /\ y.pc = "close" /\ SameCommand(x, y) /\ SameTarget(x, y)
        /\ y.bound = x.bound /\ y.previous = x.previous /\ y.old = x.old
        /\ y.outcome = out
    BY <1>1, <1>2, <1>3, ToOutcome
  <1>5. LocalOK(y)
    BY <1>1, <1>2, <1>4 DEF LocalOK, SameCommand, SameTarget, Waiting, Begun, Running, Early
  <1>6. y.pc \notin Begun \cup Early \cup Running \cup Gated \cup Undecided
    BY <1>4 DEF Begun, Early, Running, Gated, Undecided
  <1>7. x.pc \in Answered BY <1>2 DEF Answered
  <1>8. /\ y.command # None /\ y.outcome \in Shared => ~Rejected(y.command)
        /\ y.command # None /\ y.outcome \notin Shared => ~Live(y.command)
    <2>1. CASE x.command # None /\ KnownSuperseded(x.command)
      BY <1>4, <2>1, SupersededNotLive DEF SameCommand
    <2>2. CASE ~(x.command # None /\ KnownSuperseded(x.command))
      BY <1>1, <1>4, <1>7, <2>2 DEF CommandOK, SameCommand
    <2>3. QED BY <2>1, <2>2
  <1>9. gate' \in Op \cup {None} BY <1>2 DEF WInv, TypeInvariant
  <1>10. QED BY <1>1, <1>2, <1>4, <1>5, <1>6, <1>8, <1>9, OnlyMoves DEF SameCommand

\* A joined request answers for no command of its own.
LEMMA JoinedReturnsStep ==
    ASSUME WInv, NEW o \in Op, JoinedReturns(o) PROVE WInv'
  <1> PICK x : x = op[o] OBVIOUS
  <1> PICK y : y = op'[o] OBVIOUS
  <1>1. op \in [Op -> Operation] /\ LocalOK(x) BY WInvOp
  <1>2. /\ x.pc = "joined"
        /\ UNCHANGED <<vars, values, propertyOps, propertyMu, gate, report, reports, scanned>>
    BY DEF JoinedReturns, At
  <1>3. PICK out \in Outcome :
            op' = [op EXCEPT ![o] = [NoOperation EXCEPT !.pc = "done", !.outcome = out]]
    BY DEF JoinedReturns
  <1>4. [NoOperation EXCEPT !.pc = "done", !.outcome = out]
            = [NoOperation EXCEPT !.pc = "done", !.command = None, !.outcome = out]
    <2>1. NoOperation.command = None BY DEF NoOperation
    <2>2. NoOperation \in Operation BY DEF NoOperation, Operation, PC, Outcome
    <2>3. [NoOperation EXCEPT !.command = None] = NoOperation BY <2>1, <2>2 DEF Operation
    <2>4. [NoOperation EXCEPT !.pc = "done", !.command = None, !.outcome = out]
              = [[NoOperation EXCEPT !.command = None] EXCEPT !.pc = "done", !.outcome = out]
      BY <2>2 DEF Operation
    <2>5. QED BY <2>3, <2>4
  <1>5. op' = WithDone(o, None, out) BY <1>3, <1>4 DEF WithDone
  <1>6. /\ Moves(o, y) /\ y.pc = "done" /\ y.command = None /\ y.outcome = out
        /\ y.previous = None /\ ~y.bound
    <2>1. None \in Id \cup {None} OBVIOUS
    <2>2. QED BY <1>1, <1>5, <2>1, ToDone
  <1>7. x.command = None BY <1>1, <1>2 DEF LocalOK, Waiting
  <1>8. LocalOK(y) BY <1>6 DEF LocalOK, Waiting, Begun, Running, Early
  <1>9. y.pc \notin Begun \cup Early \cup Running \cup Gated BY <1>6 DEF Begun, Early, Running, Gated
  <1>10. gate' \in Op \cup {None} BY <1>2 DEF WInv, TypeInvariant
  <1>11. QED BY <1>2, <1>6, <1>7, <1>8, <1>9, <1>10, OnlyMoves

\* The tracker supersedes a command, unless it is finished.
LEMMA SupersedeTracker ==
    ASSUME IInv, NEW c \in Id, SupersedeOrNothing(c)
    PROVE  [Next]_vars /\ IInv' /\ Quiet({}) /\ UNCHANGED clock /\ ~Live(c)'
  <1>1. CASE Live(c)
    <2>1. Supersede(c) BY <1>1 DEF SupersedeOrNothing
    <2>2. Next BY <2>1 DEF Next
    <2>3. IInv' BY <2>2, StepIInv
    <2>4. Quiet({}) /\ ~IsLive(commands', c) BY <2>1, SupersedeQuiet
    <2>5. UNCHANGED clock BY <2>1 DEF Supersede
    <2>6. QED BY <2>2, <2>3, <2>4, <2>5, LiveIs
  <1>2. CASE ~Live(c)
    <2>1. UNCHANGED vars BY <1>2 DEF SupersedeOrNothing, SameStatus
    <2>2. ~Live(c)' /\ UNCHANGED clock BY <1>2, <2>1 DEF vars, Live, Retained, Terminals
    <2>3. QED BY <2>1, <2>2, StepIInv, SameQuiet
  <1>3. QED BY <1>1, <1>2

\* The tracker moves a command on, unless it is finished.
LEMMA TransitionTracker ==
    ASSUME IInv, NEW c \in Id, NEW st \in {"sent", "accepted", "rejected"},
           TransitionOrNothing(c, st), NEW F, F = IF st = "rejected" THEN {c} ELSE {}
    PROVE  /\ [Next]_vars /\ IInv' /\ Quiet(F) /\ UNCHANGED clock
           /\ st = "rejected" => ~Live(c)'
  <1>1. CASE Live(c)
    <2>1. transition(c, st) BY <1>1 DEF TransitionOrNothing
    <2>2. Next BY <2>1 DEF Next
    <2>3. IInv' BY <2>2, StepIInv
    <2>4. Quiet(F) /\ (st = "rejected" => ~IsLive(commands', c)) BY <2>1, transitionQuiet
    <2>5. UNCHANGED clock BY <2>1 DEF transition
    <2>6. QED BY <2>2, <2>3, <2>4, <2>5, LiveIs
  <1>2. CASE ~Live(c)
    <2>1. UNCHANGED vars BY <1>2 DEF TransitionOrNothing, SameStatus
    <2>2. ~Live(c)' /\ UNCHANGED clock BY <1>2, <2>1 DEF vars, Live, Retained, Terminals
    <2>3. Quiet({}) BY <2>1, SameQuiet
    <2>4. Quiet(F) BY <2>3 DEF Quiet, Ages
    <2>5. IInv' BY <2>1, StepIInv
    <2>6. QED BY <2>1, <2>2, <2>4, <2>5
  <1>3. QED BY <1>1, <1>2

\* The values of the superseded command fade before the gate is asked for.
LEMMA ResolveOldStep ==
    ASSUME WInv, NEW o \in Op, ResolveOld(o) PROVE WInv'
  <1> PICK x : x = op[o] OBVIOUS
  <1> PICK y : y = op'[o] OBVIOUS
  <1>1. /\ op \in [Op -> Operation] /\ x \in Operation /\ LocalOK(x)
        /\ x.previous # None => GoodValue(x.previous)
    BY WInvOp
  <1>2. /\ x.pc = "resolveOld" /\ op' = WithOld(o, "acquire", None) /\ values' = resolve(x.old, None)
        /\ UNCHANGED <<vars, propertyOps, propertyMu, gate, report, reports, scanned>>
    BY DEF ResolveOld, At, WithOld
  <1>3. "acquire" \in PC /\ None \in Id \cup {None} BY DEF PC
  <1>4. /\ Moves(o, y) /\ y.pc = "acquire" /\ SameCommand(x, y) /\ SameTarget(x, y)
        /\ y.bound = x.bound /\ y.previous = x.previous /\ y.old = None
        /\ y.outcome = x.outcome
    BY <1>1, <1>2, <1>3, ToOld
  <1>5. IInv' /\ Quiet({}) /\ UNCHANGED clock BY <1>2, TrackerStays
  <1>6. Ages(commands', {}) /\ used \subseteq used' BY <1>5 DEF Quiet
  <1>7. x.old \in Id BY <1>1, <1>2 DEF LocalOK, Operation
  <1>8. PICK f : f = None OBVIOUS
  <1>9. /\ values' = [k \in Key |-> values'[k]]
        /\ \A k \in Key : ValueOK(k)' /\ values'[k].pending \in {None, values[k].pending}
    BY <1>2, <1>6, <1>7, <1>8, ValuesResolved
  <1>10. x.command = None BY <1>1, <1>2 DEF LocalOK, Waiting
  <1>11. LocalOK(y)
    BY <1>1, <1>2, <1>4 DEF LocalOK, SameCommand, SameTarget, Waiting, Begun, Running, Early
  <1>12. y.pc \notin Begun \cup Early \cup Running \cup Gated BY <1>4 DEF Begun, Early, Running, Gated
  <1>13. gate' \in Op \cup {None} BY <1>2 DEF WInv, TypeInvariant
  <1>14. \A q \in Op \ {o} : op[q].command \notin {} OBVIOUS
  <1>15. QED
    BY <1>1, <1>2, <1>4, <1>5, <1>9, <1>10, <1>11, <1>12, <1>13, <1>14, PlainStep DEF SameCommand

\* The same under the gate, for the command that the new one superseded.
LEMMA ResolveSupersededStep ==
    ASSUME WInv, NEW o \in Op, ResolveSuperseded(o) PROVE WInv'
  <1> PICK x : x = op[o] OBVIOUS
  <1> PICK y : y = op'[o] OBVIOUS
  <1>1. /\ op \in [Op -> Operation] /\ x \in Operation /\ LocalOK(x) /\ CommandOK(x) /\ GateOK(o)
        /\ x.previous # None => GoodValue(x.previous)
    BY WInvOp
  <1>2. /\ x.pc = "resolveSuperseded" /\ op' = WithOld(o, "reread", None)
        /\ values' = resolve(x.old, None)
        /\ UNCHANGED <<vars, propertyOps, propertyMu, gate, report, reports, scanned>>
    BY DEF ResolveSuperseded, At, WithOld
  <1>3. "reread" \in PC /\ None \in Id \cup {None} BY DEF PC
  <1>4. /\ Moves(o, y) /\ y.pc = "reread" /\ SameCommand(x, y) /\ SameTarget(x, y)
        /\ y.bound = x.bound /\ y.previous = x.previous /\ y.old = None
        /\ y.outcome = x.outcome
    BY <1>1, <1>2, <1>3, ToOld
  <1>5. /\ IInv' /\ Quiet({}) /\ UNCHANGED clock
        /\ \A c : (Live(c)' <=> Live(c)) /\ (Rejected(c)' <=> Rejected(c))
    BY <1>2, TrackerStays
  <1>6. Ages(commands', {}) /\ used \subseteq used' BY <1>5 DEF Quiet
  <1>7. x.old \in Id BY <1>1, <1>2 DEF LocalOK, Operation
  <1>8. PICK f : f = None OBVIOUS
  <1>9. /\ values' = [k \in Key |-> values'[k]]
        /\ \A k \in Key : ValueOK(k)' /\ values'[k].pending \in {None, values[k].pending}
    BY <1>2, <1>6, <1>7, <1>8, ValuesResolved
  <1>10. LocalOK(y)
    BY <1>1, <1>2, <1>4 DEF LocalOK, SameCommand, SameTarget, Waiting, Begun, Running, Early
  <1>11. x.pc \in Begun /\ x.pc \in Early /\ x.pc \in Running /\ x.pc \in Undecided /\ x.pc \in Gated
    BY <1>2 DEF Begun, Early, Running, Undecided, Gated
  <1>12. gate' = o /\ gate' \in Op \cup {None} BY <1>1, <1>2, <1>11 DEF GateOK
  <1>13. \A q \in Op \ {o} : op[q].command \notin {} OBVIOUS
  <1>14. y.command # None => ~Rejected(y.command)'
    BY <1>1, <1>4, <1>5, <1>11 DEF CommandOK, SameCommand
  <1>15. y.pc \notin Answered BY <1>4 DEF Answered
  <1>16. QED
    BY <1>1, <1>2, <1>4, <1>5, <1>9, <1>10, <1>11, <1>12, <1>13, <1>14, <1>15, PlainStep
       DEF SameCommand, SameTarget

\* A roll back gives the values of its own command back.
LEMMA rollbackStep ==
    ASSUME WInv, NEW o \in Op, rollbackOptimistic(o) PROVE WInv'
  <1> PICK x : x = op[o] OBVIOUS
  <1> PICK y : y = op'[o] OBVIOUS
  <1>1. /\ op \in [Op -> Operation] /\ x \in Operation /\ LocalOK(x) /\ CommandOK(x) /\ GateOK(o)
        /\ x.previous # None => GoodValue(x.previous)
    BY WInvOp
  <1>2. /\ x.pc = "rollback" /\ op' = WithPc(o, "release")
        /\ values' = resolve(x.command, x.previous)
        /\ UNCHANGED <<vars, propertyOps, propertyMu, gate, report, reports, scanned>>
    BY DEF rollbackOptimistic, At, WithPc
  <1>3. "release" \in PC BY DEF PC
  <1>4. /\ Moves(o, y) /\ y.pc = "release" /\ SameCommand(x, y) /\ SameTarget(x, y)
        /\ y.bound = x.bound /\ y.previous = x.previous /\ y.old = x.old
        /\ y.outcome = x.outcome
    BY <1>1, <1>2, <1>3, ToPc
  <1>5. /\ IInv' /\ Quiet({}) /\ UNCHANGED clock
        /\ \A c : (Live(c)' <=> Live(c)) /\ (Rejected(c)' <=> Rejected(c))
    BY <1>2, TrackerStays
  <1>6. Ages(commands', {}) /\ used \subseteq used' BY <1>5 DEF Quiet
  <1>7. x.pc \in Begun /\ x.pc \in Answered /\ x.pc \in Gated BY <1>2 DEF Begun, Answered, Gated
  <1>8. x.command \in Id BY <1>1, <1>7 DEF LocalOK, Operation
  <1>9. /\ values' = [k \in Key |-> values'[k]]
        /\ \A k \in Key : ValueOK(k)' /\ values'[k].pending \in {None, values[k].pending}
    BY <1>1, <1>2, <1>6, <1>8, ValuesResolved
  <1>10. LocalOK(y)
    BY <1>1, <1>2, <1>4 DEF LocalOK, SameCommand, SameTarget, Waiting, Begun, Running, Early
  <1>11. gate' = o /\ gate' \in Op \cup {None} BY <1>1, <1>2, <1>7 DEF GateOK
  <1>12. \A q \in Op \ {o} : op[q].command \notin {} OBVIOUS
  <1>13. /\ y.command # None /\ y.outcome \in Shared => ~Rejected(y.command)'
         /\ y.command # None /\ y.outcome \notin Shared => ~Live(y.command)'
    BY <1>1, <1>4, <1>5, <1>7 DEF CommandOK, SameCommand
  <1>14. y.pc \notin Early \cup Running \cup Undecided BY <1>4 DEF Early, Running, Undecided
  <1>15. QED
    BY <1>1, <1>2, <1>4, <1>5, <1>7, <1>9, <1>10, <1>11, <1>12, <1>13, <1>14, PlainStep
       DEF SameCommand, SameTarget

\* The command of a replaced request is finished before the gate is released.
LEMMA DropStep ==
    ASSUME WInv, NEW o \in Op, Drop(o) PROVE WInv'
  <1> PICK x : x = op[o] OBVIOUS
  <1> PICK y : y = op'[o] OBVIOUS
  <1>1. /\ op \in [Op -> Operation] /\ x \in Operation /\ LocalOK(x) /\ CommandOK(x) /\ GateOK(o)
        /\ x.previous # None => GoodValue(x.previous)
    BY WInvOp
  <1>2. /\ x.pc = "drop" /\ op' = WithOutcome(o, "release", "superseded")
        /\ SupersedeOrNothing(x.command)
        /\ UNCHANGED <<values, propertyOps, propertyMu, gate, report, reports, scanned>>
    BY DEF Drop, At, WithOutcome
  <1>3. "release" \in PC /\ "superseded" \in Outcome BY DEF PC, Outcome
  <1>4. /\ Moves(o, y) /\ y.pc = "release" /\ SameCommand(x, y) /\ SameTarget(x, y)
        /\ y.bound = x.bound /\ y.previous = x.previous /\ y.old = x.old
        /\ y.outcome = "superseded"
    BY <1>1, <1>2, <1>3, ToOutcome
  <1>5. x.pc \in Begun /\ x.pc \in Gated BY <1>2 DEF Begun, Gated
  <1>6. x.command \in Id BY <1>1, <1>5 DEF LocalOK, Operation
  <1>7. IInv' /\ Quiet({}) /\ UNCHANGED clock /\ ~Live(y.command)'
    <2>1. PICK c \in Id : c = x.command BY <1>6
    <2>2. IInv' /\ Quiet({}) /\ UNCHANGED clock /\ ~Live(c)'
      BY <1>2, <2>1, SupersedeTracker DEF WInv
    <2>3. QED BY <1>4, <2>1, <2>2 DEF SameCommand
  <1>8. Ages(commands', {}) /\ used \subseteq used' BY <1>7 DEF Quiet
  <1>9. /\ values' = [k \in Key |-> values'[k]]
        /\ \A k \in Key : ValueOK(k)' /\ values'[k].pending \in {None, values[k].pending}
    BY <1>2, <1>8, ValuesStay
  <1>10. LocalOK(y)
    BY <1>1, <1>2, <1>4 DEF LocalOK, SameCommand, SameTarget, Waiting, Begun, Running, Early
  <1>11. gate' = o /\ gate' \in Op \cup {None} BY <1>1, <1>2, <1>5 DEF GateOK
  <1>12. \A q \in Op \ {o} : op[q].command \notin {} OBVIOUS
  <1>13. y.pc \notin Early \cup Running \cup Undecided BY <1>4 DEF Early, Running, Undecided
  <1>14. QED
    BY <1>1, <1>2, <1>4, <1>5, <1>7, <1>9, <1>10, <1>11, <1>12, <1>13, PlainStep
       DEF SameCommand, SameTarget, Shared

\* Sending rejects nothing.
LEMMA SendStep ==
    ASSUME WInv, NEW o \in Op, Send(o) PROVE WInv'
  <1> PICK x : x = op[o] OBVIOUS
  <1> PICK y : y = op'[o] OBVIOUS
  <1>1. /\ op \in [Op -> Operation] /\ x \in Operation /\ LocalOK(x) /\ CommandOK(x) /\ GateOK(o)
        /\ x.previous # None => GoodValue(x.previous)
    BY WInvOp
  <1>2. /\ x.pc = "send" /\ op' = WithPc(o, "write") /\ TransitionOrNothing(x.command, "sent")
        /\ UNCHANGED <<values, propertyOps, propertyMu, gate, report, reports, scanned>>
    BY DEF Send, At, WithPc
  <1>3. "write" \in PC BY DEF PC
  <1>4. /\ Moves(o, y) /\ y.pc = "write" /\ SameCommand(x, y) /\ SameTarget(x, y)
        /\ y.bound = x.bound /\ y.previous = x.previous /\ y.old = x.old
        /\ y.outcome = x.outcome
    BY <1>1, <1>2, <1>3, ToPc
  <1>5. x.pc \in Begun /\ x.pc \in Gated /\ x.pc \in Running /\ x.pc \in Undecided
    BY <1>2 DEF Begun, Gated, Running, Undecided
  <1>6. x.command \in Id /\ x.command \in used /\ ~Rejected(x.command)
    BY <1>1, <1>5 DEF LocalOK, Operation, CommandOK
  <1>7. IInv' /\ Quiet({}) /\ UNCHANGED clock
    <2>1. PICK st \in {"sent", "accepted", "rejected"} : st = "sent" OBVIOUS
    <2>2. PICK F : F = {} OBVIOUS
    <2>3. F = IF st = "rejected" THEN {x.command} ELSE {} BY <2>1, <2>2
    <2>4. IInv /\ TransitionOrNothing(x.command, st) BY <1>2, <2>1 DEF WInv
    <2>5. IInv' /\ Quiet(F) /\ UNCHANGED clock BY <1>6, <2>3, <2>4, TransitionTracker
    <2>6. QED BY <2>2, <2>5
  <1>8. Ages(commands', {}) /\ used \subseteq used' BY <1>7 DEF Quiet
  <1>9. /\ values' = [k \in Key |-> values'[k]]
        /\ \A k \in Key : ValueOK(k)' /\ values'[k].pending \in {None, values[k].pending}
    BY <1>2, <1>8, ValuesStay
  <1>10. LocalOK(y)
    BY <1>1, <1>2, <1>4 DEF LocalOK, SameCommand, SameTarget, Waiting, Begun, Running, Early
  <1>11. gate' = o /\ gate' \in Op \cup {None} BY <1>1, <1>2, <1>5 DEF GateOK
  <1>12. \A q \in Op \ {o} : op[q].command \notin {} OBVIOUS
  <1>13. ~Rejected(y.command)'
    <2>1. PICK c \in used : c \in Id /\ c = x.command /\ ~Rejected(c) BY <1>6
    <2>2. c \notin {} OBVIOUS
    <2>3. ~Rejected(c)' BY <1>8, <2>1, <2>2, AgesFacts
    <2>4. QED BY <1>4, <2>1, <2>3 DEF SameCommand
  <1>14. y.pc \notin Early \cup Answered BY <1>4 DEF Early, Answered
  <1>15. QED
    BY <1>1, <1>2, <1>4, <1>5, <1>7, <1>9, <1>10, <1>11, <1>12, <1>13, <1>14, PlainStep
       DEF SameCommand, SameTarget

\* An accepted command was not rejected before.
LEMMA AcceptStep ==
    ASSUME WInv, NEW o \in Op, Accept(o) PROVE WInv'
  <1> PICK x : x = op[o] OBVIOUS
  <1> PICK y : y = op'[o] OBVIOUS
  <1>1. /\ op \in [Op -> Operation] /\ x \in Operation /\ LocalOK(x) /\ CommandOK(x) /\ GateOK(o)
        /\ x.previous # None => GoodValue(x.previous)
    BY WInvOp
  <1>2. /\ x.pc = "accept" /\ op' = WithOutcome(o, "release", "ok")
        /\ TransitionOrNothing(x.command, "accepted")
        /\ UNCHANGED <<values, propertyOps, propertyMu, gate, report, reports, scanned>>
    BY DEF Accept, At, WithOutcome
  <1>3. "release" \in PC /\ "ok" \in Outcome BY DEF PC, Outcome
  <1>4. /\ Moves(o, y) /\ y.pc = "release" /\ SameCommand(x, y) /\ SameTarget(x, y)
        /\ y.bound = x.bound /\ y.previous = x.previous /\ y.old = x.old
        /\ y.outcome = "ok"
    BY <1>1, <1>2, <1>3, ToOutcome
  <1>5. x.pc \in Begun /\ x.pc \in Gated /\ x.pc \in Undecided
    BY <1>2 DEF Begun, Gated, Undecided
  <1>6. x.command \in Id /\ x.command \in used /\ ~Rejected(x.command)
    BY <1>1, <1>5 DEF LocalOK, Operation, CommandOK
  <1>7. IInv' /\ Quiet({}) /\ UNCHANGED clock
    <2>1. PICK st \in {"sent", "accepted", "rejected"} : st = "accepted" OBVIOUS
    <2>2. PICK F : F = {} OBVIOUS
    <2>3. F = IF st = "rejected" THEN {x.command} ELSE {} BY <2>1, <2>2
    <2>4. IInv /\ TransitionOrNothing(x.command, st) BY <1>2, <2>1 DEF WInv
    <2>5. IInv' /\ Quiet(F) /\ UNCHANGED clock BY <1>6, <2>3, <2>4, TransitionTracker
    <2>6. QED BY <2>2, <2>5
  <1>8. Ages(commands', {}) /\ used \subseteq used' BY <1>7 DEF Quiet
  <1>9. /\ values' = [k \in Key |-> values'[k]]
        /\ \A k \in Key : ValueOK(k)' /\ values'[k].pending \in {None, values[k].pending}
    BY <1>2, <1>8, ValuesStay
  <1>10. LocalOK(y)
    BY <1>1, <1>2, <1>4 DEF LocalOK, SameCommand, SameTarget, Waiting, Begun, Running, Early
  <1>11. gate' = o /\ gate' \in Op \cup {None} BY <1>1, <1>2, <1>5 DEF GateOK
  <1>12. \A q \in Op \ {o} : op[q].command \notin {} OBVIOUS
  <1>13. ~Rejected(y.command)'
    <2>1. PICK c \in used : c \in Id /\ c = x.command /\ ~Rejected(c) BY <1>6
    <2>2. c \notin {} OBVIOUS
    <2>3. ~Rejected(c)' BY <1>8, <2>1, <2>2, AgesFacts
    <2>4. QED BY <1>4, <2>1, <2>3 DEF SameCommand
  <1>14. y.pc \notin Early \cup Running BY <1>4 DEF Early, Running
  <1>15. QED
    BY <1>1, <1>2, <1>4, <1>5, <1>7, <1>9, <1>10, <1>11, <1>12, <1>13, <1>14, PlainStep
       DEF SameCommand, SameTarget, Shared

\* Only the command of the request is rejected, and no other request has it.
LEMMA rejectStep ==
    ASSUME WInv, NEW o \in Op, rejectPropertyWrite(o) PROVE WInv'
  <1> PICK x : x = op[o] OBVIOUS
  <1> PICK y : y = op'[o] OBVIOUS
  <1>1. /\ op \in [Op -> Operation] /\ x \in Operation /\ LocalOK(x) /\ CommandOK(x) /\ GateOK(o)
        /\ x.previous # None => GoodValue(x.previous)
    BY WInvOp
  <1>2. /\ x.pc = "reject" /\ op' = WithOutcome(o, "rollback", "error")
        /\ TransitionOrNothing(x.command, "rejected")
        /\ UNCHANGED <<values, propertyOps, propertyMu, gate, report, reports, scanned>>
    BY DEF rejectPropertyWrite, At, WithOutcome
  <1>3. "rollback" \in PC /\ "error" \in Outcome BY DEF PC, Outcome
  <1>4. /\ Moves(o, y) /\ y.pc = "rollback" /\ SameCommand(x, y) /\ SameTarget(x, y)
        /\ y.bound = x.bound /\ y.previous = x.previous /\ y.old = x.old
        /\ y.outcome = "error"
    BY <1>1, <1>2, <1>3, ToOutcome
  <1>5. x.pc \in Begun /\ x.pc \in Gated /\ x.pc \in Running
    BY <1>2 DEF Begun, Gated, Running
  <1>6. PICK c \in Id : c = x.command BY <1>1, <1>5 DEF LocalOK, Operation
  <1>7. PICK F : F = {c} OBVIOUS
  <1>8. IInv' /\ Quiet(F) /\ UNCHANGED clock /\ ~Live(c)'
    <2>1. PICK st \in {"sent", "accepted", "rejected"} : st = "rejected" OBVIOUS
    <2>2. F = IF st = "rejected" THEN {c} ELSE {} BY <1>7, <2>1
    <2>3. IInv /\ TransitionOrNothing(c, st) BY <1>2, <1>6, <2>1 DEF WInv
    <2>4. QED BY <2>1, <2>2, <2>3, TransitionTracker
  <1>9. Ages(commands', F) /\ used \subseteq used' BY <1>8 DEF Quiet
  <1>10. /\ values' = [k \in Key |-> values'[k]]
         /\ \A k \in Key : ValueOK(k)' /\ values'[k].pending \in {None, values[k].pending}
    BY <1>2, <1>9, ValuesStay
  <1>11. LocalOK(y)
    BY <1>1, <1>2, <1>4 DEF LocalOK, SameCommand, SameTarget, Waiting, Begun, Running, Early, Shared
  <1>12. gate' = o /\ gate' \in Op \cup {None} BY <1>1, <1>2, <1>5 DEF GateOK
  <1>13. \A q \in Op \ {o} : op[q].command \notin F
    BY <1>1, <1>5, <1>6, <1>7 DEF GateOK, LocalOK
  <1>14. ~Live(y.command)' BY <1>4, <1>6, <1>8 DEF SameCommand
  <1>15. y.pc \notin Early \cup Undecided BY <1>4 DEF Early, Undecided
  <1>16. QED
    BY <1>1, <1>2, <1>4, <1>5, <1>8, <1>10, <1>11, <1>12, <1>13, <1>14, <1>15, PlainStep
       DEF SameCommand, SameTarget, Shared

\* What the optimistic value is.
LEMMA OptimisticStored ==
    ASSUME WInv, NEW o \in Op, NEW x, x = op[o], applyOptimisticState(o)
    PROVE  /\ x.command \in Id /\ x.key \in Key
           /\ values' = [k \in Key |-> values'[k]]
           /\ GoodValue(values'[x.key]) /\ values'[x.key].pending = x.command
           /\ \A k \in Key \ {x.key} : values'[k] = values[k]
  <1>1. x \in Operation /\ LocalOK(x) /\ (x.previous # None => GoodValue(x.previous)) BY WInvOp
  <1>2. x.pc = "optimistic" BY DEF applyOptimisticState, At
  <1>3. x.pc \in Begun /\ x.pc \in Early /\ x.pc \in Running BY <1>2 DEF Begun, Early, Running
  <1>4. x.command \in Id /\ x.key \in Key /\ x.expected \in Value /\ x.record \in Command
    BY <1>1, <1>2, <1>3 DEF LocalOK, Operation
  <1>5. PICK p \in Provider \cup {None} :
            p = IF x.previous = None THEN CommandProvider ELSE x.previous.provider
    BY <1>1, ProviderAssumption DEF GoodValue, SV!StateValue
  <1>6. PICK v \in SV!StateValue \cup {None} : v = values[x.key] BY <1>4 DEF WInv, TypeInvariant
  <1>7. PICK w : w = Unversioned(SV!Over(v, SV!Optimistic(p, x.expected, x.command,
                                                          x.record.created, x.record.deadline)))
    OBVIOUS
  <1>8. GoodValue(w) /\ w.pending = x.command BY <1>4, <1>7, OptimisticGood
  <1>9. values' = [values EXCEPT ![x.key] = w]
    BY <1>5, <1>6, <1>7 DEF applyOptimisticState
  <1>10. values = [k \in Key |-> values[k]] BY DEF WInv, TypeInvariant
  <1>11. values' = [k \in Key |-> values'[k]] BY <1>9, <1>10
  <1>12. values'[x.key] = w /\ \A k \in Key \ {x.key} : values'[k] = values[k]
    BY <1>4, <1>9, <1>10
  <1>13. QED BY <1>4, <1>8, <1>11, <1>12

\* The value stored is owned by the command of the one request that holds the gate.
LEMMA applyOptimisticStep ==
    ASSUME WInv, NEW o \in Op, applyOptimisticState(o) PROVE WInv'
  <1> PICK x : x = op[o] OBVIOUS
  <1> PICK y : y = op'[o] OBVIOUS
  <1>1. /\ op \in [Op -> Operation] /\ x \in Operation /\ LocalOK(x) /\ CommandOK(x) /\ GateOK(o)
        /\ x.previous # None => GoodValue(x.previous)
        /\ x.pc \in Gated => \A q \in Op \ {o} : op[q].pc \notin Gated
    BY WInvOp
  <1>2. /\ x.pc = "optimistic" /\ op' = WithPc(o, "send")
        /\ UNCHANGED <<vars, propertyOps, propertyMu, gate, report, reports, scanned>>
    BY DEF applyOptimisticState, At, WithPc
  <1>3. "send" \in PC BY DEF PC
  <1>4. /\ Moves(o, y) /\ y.pc = "send" /\ SameCommand(x, y) /\ SameTarget(x, y)
        /\ y.bound = x.bound /\ y.previous = x.previous /\ y.old = x.old
        /\ y.outcome = x.outcome
    BY <1>1, <1>2, <1>3, ToPc
  <1>5. /\ IInv' /\ Quiet({}) /\ UNCHANGED clock
        /\ \A c : (Live(c)' <=> Live(c)) /\ (Rejected(c)' <=> Rejected(c))
    BY <1>2, TrackerStays
  <1>6. Ages(commands', {}) /\ used \subseteq used' BY <1>5 DEF Quiet
  <1>7. x.pc \in Begun /\ x.pc \in Gated /\ x.pc \in Running /\ x.pc \in Undecided
    BY <1>2 DEF Begun, Gated, Running, Undecided
  <1>8. /\ x.command \in Id /\ x.key \in Key
        /\ values' = [k \in Key |-> values'[k]]
        /\ GoodValue(values'[x.key]) /\ values'[x.key].pending = x.command
        /\ \A k \in Key \ {x.key} : values'[k] = values[k]
    BY OptimisticStored
  <1>9. x.command \in used /\ (commands[x.command] # None => commands[x.command].key = x.key)
    BY <1>1, <1>7, <1>8 DEF CommandOK, LocalOK
  <1>10. ASSUME NEW k \in Key PROVE ValueOK(k)'
    <2>1. CASE k = x.key
      BY <1>2, <1>8, <1>9, <2>1 DEF ValueOK, vars
    <2>2. CASE k # x.key
      <3>1. values'[k] = values[k] BY <1>8, <2>2
      <3>2. GoodValue(values'[k]) BY <3>1 DEF WInv, ValueOK
      <3>3. QED BY <1>6, <3>1, <3>2, ValueKeeps
    <2>3. QED BY <2>1, <2>2
  <1>11. LocalOK(y)
    BY <1>1, <1>2, <1>4 DEF LocalOK, SameCommand, SameTarget, Waiting, Begun, Running, Early
  <1>12. gate' = o /\ gate' \in Op \cup {None} BY <1>1, <1>2, <1>7 DEF GateOK
  <1>13. \A q \in Op \ {o} : op[q].command \notin {} OBVIOUS
  <1>14. y.command # None => ~Rejected(y.command)'
    BY <1>1, <1>4, <1>5, <1>7 DEF CommandOK, SameCommand
  <1>15. y.pc \notin Early \cup Answered BY <1>4 DEF Early, Answered
  <1>16. QED
    BY <1>1, <1>2, <1>4, <1>5, <1>7, <1>8, <1>10, <1>11, <1>12, <1>13, <1>14, <1>15, PlainStep
       DEF SameCommand, SameTarget

\* The table had no entry that is lost.
LEMMA StartStep ==
    ASSUME WInv, NEW o \in Op, NEW k \in Key, NEW v \in Value, Start(o, k, v) PROVE WInv'
  <1> PICK x : x = op[o] OBVIOUS
  <1> PICK y : y = op'[o] OBVIOUS
  <1>1. op \in [Op -> Operation] /\ LocalOK(x) /\ (x.previous # None => GoodValue(x.previous))
    BY WInvOp
  <1>2. /\ x.pc = "idle" /\ op' = WithTarget(o, "acquire", k, v)
        /\ propertyMu = None /\ propertyOps[k] = None
        /\ propertyOps' = [propertyOps EXCEPT ![k] = o]
        /\ UNCHANGED <<vars, values, propertyMu, gate, report, reports, scanned>>
    BY DEF Start, At, WithTarget
  <1>3. "acquire" \in PC BY DEF PC
  <1>4. /\ Moves(o, y) /\ y.pc = "acquire" /\ SameCommand(x, y)
        /\ y.key = k /\ y.expected = v /\ y.joined = x.joined
        /\ y.bound = x.bound /\ y.previous = x.previous /\ y.old = x.old
        /\ y.outcome = x.outcome
    BY <1>1, <1>2, <1>3, ToTarget
  <1>5. IInv' /\ Quiet({}) /\ UNCHANGED clock BY <1>2, TrackerStays
  <1>6. /\ Ages(commands', {}) /\ used' = used /\ used \subseteq used'
        /\ \A j \in Key : pending'[j] \in {None, pending[j]}
    BY <1>5 DEF Quiet
  <1>7. /\ values' = [j \in Key |-> values'[j]]
        /\ \A j \in Key : ValueOK(j)' /\ values'[j].pending \in {None, values[j].pending}
    BY <1>2, <1>6, ValuesStay
  <1>8. x.command = None BY <1>1, <1>2 DEF LocalOK, Waiting
  <1>9. LocalOK(y) BY <1>1, <1>2, <1>4 DEF LocalOK, SameCommand, Waiting, Begun, Running, Early
  <1>10. y.pc \notin Begun \cup Early \cup Running \cup Gated BY <1>4 DEF Begun, Early, Running, Gated
  <1>11. RequestOK(o)'
    BY <1>1, <1>4, <1>6, <1>8, <1>9, <1>10, OwnKeeps DEF SameCommand
  <1>12. propertyOps \in [Key -> Op \cup {None}] BY DEF WInv, TypeInvariant
  <1>13. propertyOps' \in [Key -> Op \cup {None}] /\ \A j \in Key \ {k} : propertyOps'[j] = propertyOps[j]
    BY <1>2, <1>12
  <1>14. ASSUME NEW q \in Op \ {o}
         PROVE  op[q].pc \in Running /\ propertyOps[op[q].key] = q /\ propertyOps'[op[q].key] # q
                    => ~Live(op[q].command)
    <2>1. op[q].pc \in Running => op[q].key \in Key BY WInvOp DEF LocalOK, Running, Begun
    <2>2. QED BY <1>2, <1>13, <2>1, OpAssumption
  <1>15. gate' \in Op \cup {None} /\ propertyMu' \in Op \cup {None} BY <1>2 DEF WInv, TypeInvariant
  <1>16. \A q \in Op \ {o} : op[q].command \notin {} OBVIOUS
  <1>17. QED
    BY <1>2, <1>4, <1>5, <1>6, <1>7, <1>8, <1>11, <1>13, <1>14, <1>15, <1>16, MoveStep DEF SameCommand

\* The command of the replaced request is finished when propertyMu is taken over.
LEMMA ReplaceStep ==
    ASSUME WInv, NEW o \in Op, NEW k \in Key, NEW v \in Value, Replace(o, k, v) PROVE WInv'
  <1> PICK x : x = op[o] OBVIOUS
  <1> PICK y : y = op'[o] OBVIOUS
  <1>1. op \in [Op -> Operation] /\ LocalOK(x) /\ (x.previous # None => GoodValue(x.previous))
    BY WInvOp
  <1>2. PICK e \in Op : e = propertyOps[k] BY DEF Replace, WInv, TypeInvariant
  <1>3. PICK z \in Operation : z = op[e] BY <1>1
  <1>4. LocalOK(z) BY <1>3, WInvOp
  <1>5. PICK old \in Id \cup {None} : old = IF z.bound /\ Live(z.command) THEN z.command ELSE None
    BY <1>3 DEF Operation
  <1>6. /\ x.pc = "idle" /\ op' = WithReplacing(o, "cancel", k, v, old)
        /\ propertyMu = None /\ propertyMu' = o
        /\ UNCHANGED <<values, propertyOps, gate, report, reports, scanned>>
    BY <1>2, <1>3, <1>5 DEF Replace, At, WithReplacing
  <1>7. "cancel" \in PC BY DEF PC
  <1>8. /\ Moves(o, y) /\ y.pc = "cancel" /\ SameCommand(x, y)
        /\ y.key = k /\ y.expected = v /\ y.joined = x.joined
        /\ y.bound = x.bound /\ y.previous = x.previous /\ y.old = old
        /\ y.outcome = x.outcome
    BY <1>1, <1>6, <1>7, ToReplacing
  <1>9. PICK c : c = z.command OBVIOUS
  <1>10. IInv' /\ Quiet({}) /\ UNCHANGED clock /\ (z.bound => ~IsLive(commands', c))
    <2>1. CASE z.bound
      <3>1. c \in Id BY <1>3, <1>4, <1>9, <2>1 DEF LocalOK, Operation
      <3>2. SupersedeOrNothing(c)
        BY <1>2, <1>3, <1>9, <2>1 DEF Replace, SupersedeOrNothing
      <3>3. IInv' /\ Quiet({}) /\ UNCHANGED clock /\ ~Live(c)'
        BY <3>1, <3>2, SupersedeTracker DEF WInv
      <3>4. QED BY <3>1, <3>3, LiveIs
    <2>2. CASE ~z.bound
      <3>1. UNCHANGED vars BY <1>2, <1>3, <2>2 DEF Replace, SameStatus
      <3>2. QED BY <2>2, <3>1, TrackerStays
    <2>3. QED BY <2>1, <2>2
  <1>11. /\ Ages(commands', {}) /\ used' = used /\ used \subseteq used'
         /\ \A j \in Key : pending'[j] \in {None, pending[j]}
    BY <1>10 DEF Quiet
  <1>12. /\ values' = [j \in Key |-> values'[j]]
         /\ \A j \in Key : ValueOK(j)' /\ values'[j].pending \in {None, values[j].pending}
    BY <1>6, <1>11, ValuesStay
  <1>13. x.command = None /\ ~x.bound BY <1>1, <1>6 DEF LocalOK, Waiting
  <1>14. LocalOK(y) BY <1>1, <1>6, <1>8 DEF LocalOK, SameCommand, Waiting, Begun, Running, Early
  <1>15. y.pc \notin Begun \cup Early \cup Running \cup Gated \cup Answered
    BY <1>8 DEF Begun, Early, Running, Gated, Answered
  <1>16. /\ propertyMu' = o /\ propertyOps'[y.key] = e /\ e # None
         /\ op'[e].bound => ~IsLive(commands', op'[e].command)
    <2>1. propertyMu' = o /\ propertyOps'[y.key] = e BY <1>2, <1>6, <1>8
    <2>2. e # None BY OpAssumption
    <2>3. CASE e = o BY <1>8, <1>13, <2>1, <2>2, <2>3
    <2>4. CASE e # o
      <3>1. Kept(op[e], op'[e]) BY <1>8, <2>4 DEF Moves
      <3>2. QED BY <1>3, <1>9, <1>10, <2>1, <2>2, <3>1 DEF Kept, SameCommand
    <2>5. QED BY <2>3, <2>4
  <1>17. y.command = x.command /\ (y.previous # None => GoodValue(y.previous))
    BY <1>1, <1>8 DEF SameCommand
  <1>18. RequestOK(o)'
    BY <1>8, <1>11, <1>13, <1>14, <1>15, <1>16, <1>17, OwnKeeps
  <1>19. propertyOps' \in [Key -> Op \cup {None}] /\ gate' \in Op \cup {None}
         /\ propertyMu' \in Op \cup {None}
    BY <1>6 DEF WInv, TypeInvariant
  <1>20. \A q \in Op \ {o} : op[q].command \notin {} OBVIOUS
  <1>21. QED
    BY <1>6, <1>8, <1>10, <1>11, <1>12, <1>13, <1>17, <1>18, <1>19, <1>20, MoveStep

\* The entry that is lost belongs to a request whose command is finished.
LEMMA CancelReplacedStep ==
    ASSUME WInv, NEW o \in Op, CancelReplaced(o) PROVE WInv'
  <1> PICK x : x = op[o] OBVIOUS
  <1> PICK y : y = op'[o] OBVIOUS
  <1>1. /\ op \in [Op -> Operation] /\ x \in Operation /\ LocalOK(x) /\ TableOK(o)
        /\ x.previous # None => GoodValue(x.previous)
    BY WInvOp
  <1>2. /\ x.pc = "cancel" /\ propertyMu' = None
        /\ UNCHANGED <<vars, values, gate, report, reports, scanned>>
    BY DEF CancelReplaced, At
  <1>3. PICK k \in Key : k = x.key BY <1>1, <1>2 DEF LocalOK
  <1>4. propertyOps \in [Key -> Op \cup {None}] BY DEF WInv, TypeInvariant
  <1>5. /\ propertyMu = o /\ propertyOps[k] # None
        /\ op[propertyOps[k]].bound => ~Live(op[propertyOps[k]].command)
    BY <1>1, <1>2, <1>3 DEF TableOK
  <1>6. PICK e \in Op : e = propertyOps[k] BY <1>4, <1>5
  <1>7. PICK pc \in {"acquire", "resolveOld"} : pc = IF x.old = None THEN "acquire" ELSE "resolveOld"
    OBVIOUS
  <1>8. /\ op' = [op EXCEPT ![e].cancelled = TRUE, ![o].pc = pc]
        /\ propertyOps' = [propertyOps EXCEPT ![k] = o]
    BY <1>3, <1>6, <1>7 DEF CancelReplaced
  <1> DEFINE p == [op EXCEPT ![e].cancelled = TRUE]
  <1>9. p \in [Op -> Operation] /\ \A q \in Op : Kept(op[q], p[q])
    BY <1>1 DEF Kept, SameCommand, SameTarget, Operation
  <1>10. op' = [p EXCEPT ![o].pc = pc] BY <1>8
  <1> HIDE DEF p
  <1>11. pc \in PC BY DEF PC
  <1>12. /\ op' \in [Op -> Operation] /\ \A q \in Op \ {o} : op'[q] = p[q]
         /\ op'[o] = [p[o] EXCEPT !.pc = pc]
    BY <1>9, <1>10, <1>11 DEF Operation
  <1>13. /\ Moves(o, y) /\ y.pc = pc /\ SameCommand(x, y) /\ SameTarget(x, y)
         /\ y.bound = x.bound /\ y.previous = x.previous /\ y.old = x.old
         /\ y.outcome = x.outcome
    <2>1. PICK r \in Operation : r = p[o] /\ Kept(x, r) BY <1>9
    <2>2. y = [r EXCEPT !.pc = pc] BY <1>12, <2>1
    <2>3. /\ y.pc = pc /\ SameCommand(r, y) /\ SameTarget(r, y)
          /\ y.bound = r.bound /\ y.previous = r.previous /\ y.old = r.old /\ y.outcome = r.outcome
      BY <2>2 DEF Operation, SameCommand, SameTarget
    <2>4. QED BY <1>9, <1>12, <2>1, <2>3 DEF Kept, SameCommand, SameTarget, Moves
  <1>14. IInv' /\ Quiet({}) /\ UNCHANGED clock BY <1>2, TrackerStays
  <1>15. /\ Ages(commands', {}) /\ used' = used /\ used \subseteq used'
         /\ \A j \in Key : pending'[j] \in {None, pending[j]}
    BY <1>14 DEF Quiet
  <1>16. /\ values' = [j \in Key |-> values'[j]]
         /\ \A j \in Key : ValueOK(j)' /\ values'[j].pending \in {None, values[j].pending}
    BY <1>2, <1>15, ValuesStay
  <1>17. x.command = None BY <1>1, <1>2 DEF LocalOK, Waiting
  <1>18. LocalOK(y)
    BY <1>1, <1>2, <1>7, <1>13 DEF LocalOK, SameCommand, SameTarget, Waiting, Begun, Running, Early
  <1>19. y.pc \notin Begun \cup Early \cup Running \cup Gated /\ y.pc # "cancel"
    BY <1>7, <1>13 DEF Begun, Early, Running, Gated
  <1>20. RequestOK(o)'
    BY <1>1, <1>13, <1>15, <1>17, <1>18, <1>19, OwnKeeps DEF SameCommand
  <1>21. propertyOps' \in [Key -> Op \cup {None}] /\ \A j \in Key \ {k} : propertyOps'[j] = propertyOps[j]
    BY <1>4, <1>8
  <1>22. ASSUME NEW q \in Op \ {o}
         PROVE  op[q].pc \in Running /\ propertyOps[op[q].key] = q /\ propertyOps'[op[q].key] # q
                    => ~Live(op[q].command)
    <2>1. op[q].pc \in Running => op[q].key \in Key /\ op[q].bound
      BY WInvOp DEF LocalOK, Running, Begun
    <2>2. QED BY <1>5, <1>21, <2>1
  <1>23. gate' \in Op \cup {None} /\ propertyMu' \in Op \cup {None} BY <1>2 DEF WInv, TypeInvariant
  <1>24. \A q \in Op \ {o} : op[q].command \notin {} OBVIOUS
  <1>25. QED
    BY <1>2, <1>5, <1>13, <1>14, <1>15, <1>16, <1>17, <1>20, <1>21, <1>22, <1>23, <1>24, MoveStep
       DEF SameCommand

\* Only the own entry of the table goes; the answer and the command stay.
LEMMA finishStep ==
    ASSUME WInv, NEW o \in Op, finishPropertyOperation(o) PROVE WInv'
  <1> PICK x : x = op[o] OBVIOUS
  <1> PICK y : y = op'[o] OBVIOUS
  <1>1. op \in [Op -> Operation] /\ x \in Operation /\ LocalOK(x) /\ CommandOK(x) BY WInvOp
  <1>2. /\ x.pc = "close" /\ op' = WithDone(o, x.command, x.outcome) /\ propertyMu = None
        /\ propertyOps' = [propertyOps EXCEPT ![x.key] = IF @ = o THEN None ELSE @]
        /\ UNCHANGED <<vars, values, propertyMu, gate, report, reports, scanned>>
    BY DEF finishPropertyOperation, At, WithDone
  <1>3. x.command \in Id \cup {None} /\ x.outcome \in Outcome BY <1>1 DEF Operation
  <1>4. /\ Moves(o, y) /\ y.pc = "done" /\ y.command = x.command /\ y.outcome = x.outcome
        /\ y.previous = None /\ ~y.bound
    BY <1>1, <1>2, <1>3, ToDone
  <1>5. /\ IInv' /\ Quiet({}) /\ UNCHANGED clock
        /\ \A c : (Live(c)' <=> Live(c)) /\ (Rejected(c)' <=> Rejected(c))
    BY <1>2, TrackerStays
  <1>6. /\ Ages(commands', {}) /\ used' = used /\ used \subseteq used'
        /\ \A j \in Key : pending'[j] \in {None, pending[j]}
    BY <1>5 DEF Quiet
  <1>7. /\ values' = [j \in Key |-> values'[j]]
        /\ \A j \in Key : ValueOK(j)' /\ values'[j].pending \in {None, values[j].pending}
    BY <1>2, <1>6, ValuesStay
  <1>8. LocalOK(y) BY <1>4 DEF LocalOK, Waiting, Begun, Running, Early
  <1>9. y.pc \notin Begun \cup Early \cup Running \cup Gated \cup Undecided
    BY <1>4 DEF Begun, Early, Running, Gated, Undecided
  <1>10. x.pc \in Answered BY <1>2 DEF Answered
  <1>11. /\ y.command # None /\ y.outcome \in Shared => ~Rejected(y.command)'
         /\ y.command # None /\ y.outcome \notin Shared => ~Live(y.command)'
    BY <1>1, <1>4, <1>5, <1>10 DEF CommandOK
  <1>12. RequestOK(o)' BY <1>4, <1>6, <1>8, <1>9, <1>11, OwnKeeps
  <1>13. propertyOps \in [Key -> Op \cup {None}] BY DEF WInv, TypeInvariant
  <1>14. /\ propertyOps' \in [Key -> Op \cup {None}]
         /\ \A j \in Key : propertyOps[j] # o => propertyOps'[j] = propertyOps[j]
    BY <1>2, <1>13
  <1>15. ASSUME NEW q \in Op \ {o}
         PROVE  op[q].pc \in Running /\ propertyOps[op[q].key] = q /\ propertyOps'[op[q].key] # q
                    => ~Live(op[q].command)
    <2>1. op[q].pc \in Running => op[q].key \in Key BY WInvOp DEF LocalOK, Running, Begun
    <2>2. QED BY <1>14, <2>1
  <1>16. gate' \in Op \cup {None} /\ propertyMu' \in Op \cup {None} BY <1>2 DEF WInv, TypeInvariant
  <1>17. \A q \in Op \ {o} : op[q].command \notin {} OBVIOUS
  <1>18. QED
    BY <1>2, <1>4, <1>5, <1>6, <1>7, <1>12, <1>14, <1>15, <1>16, <1>17, MoveStep

\* A command is published only while its request is still in the table.
LEMMA AttachStep ==
    ASSUME WInv, NEW o \in Op, Attach(o) PROVE WInv'
  <1> PICK x : x = op[o] OBVIOUS
  <1> PICK y : y = op'[o] OBVIOUS
  <1>1. /\ op \in [Op -> Operation] /\ x \in Operation /\ LocalOK(x) /\ CommandOK(x) /\ GateOK(o)
        /\ x.previous # None => GoodValue(x.previous)
        /\ x.pc \in Gated => \A q \in Op \ {o} : op[q].pc \notin Gated
    BY WInvOp
  <1>2. PICK pc : pc = CASE propertyOps[x.key] # o -> "drop"
                         [] propertyOps[x.key] = o /\ x.replayed -> "release"
                         [] propertyOps[x.key] = o /\ ~x.replayed /\ x.old # None
                                -> "resolveSuperseded"
                         [] OTHER -> "optimistic"
    OBVIOUS
  <1>3. /\ pc \in {"drop", "release", "resolveSuperseded", "optimistic"}
        /\ pc = "release" => x.replayed
        /\ pc = "release" => propertyOps[x.key] = o
        /\ pc \in {"resolveSuperseded", "optimistic"} => propertyOps[x.key] = o /\ ~x.replayed
        /\ pc = "resolveSuperseded" => x.old # None
    <2>1. CASE propertyOps[x.key] # o BY <1>2, <2>1
    <2>2. CASE propertyOps[x.key] = o /\ x.replayed BY <1>2, <2>2
    <2>3. CASE propertyOps[x.key] = o /\ ~x.replayed /\ x.old # None BY <1>2, <2>3
    <2>4. CASE propertyOps[x.key] = o /\ ~x.replayed /\ x.old = None BY <1>2, <2>4
    <2>5. QED BY <2>1, <2>2, <2>3, <2>4
  <1>4. PICK out \in Outcome :
            /\ propertyOps[x.key] = o /\ x.replayed => out \in Shared
            /\ op' = [op EXCEPT ![o].bound = TRUE, ![o].pc = pc, ![o].outcome = out]
    <2>1. PICK out \in IF propertyOps[x.key] = o /\ x.replayed THEN Shared ELSE {x.outcome} :
              op' = [op EXCEPT ![o].bound = TRUE, ![o].pc = pc, ![o].outcome = out]
      BY <1>2 DEF Attach
    <2>2. out \in Outcome BY <1>1 DEF Operation, Outcome, Shared
    <2>3. QED BY <2>1, <2>2
  <1>5. op' = WithBound(o, pc, TRUE, out) BY <1>4 DEF WithBound
  <1>6. /\ x.pc = "attach" /\ propertyMu = None
        /\ UNCHANGED <<vars, values, propertyOps, propertyMu, gate, report, reports, scanned>>
    BY DEF Attach, At
  <1>7. pc \in PC /\ TRUE \in BOOLEAN BY <1>3 DEF PC
  <1>8. /\ Moves(o, y) /\ y.pc = pc /\ SameCommand(x, y) /\ SameTarget(x, y)
        /\ y.bound /\ y.previous = x.previous /\ y.old = x.old
        /\ y.outcome = out
    <2>1. PICK b \in BOOLEAN : b = TRUE OBVIOUS
    <2>2. op' = WithBound(o, pc, b, out) BY <1>5, <2>1
    <2>3. /\ Moves(o, y) /\ y.pc = pc /\ SameCommand(x, y) /\ SameTarget(x, y)
          /\ y.bound = b /\ y.previous = x.previous /\ y.old = x.old
          /\ y.outcome = out
      BY <1>1, <1>7, <2>2, ToBound
    <2>4. QED BY <2>1, <2>3
  <1>9. /\ IInv' /\ Quiet({}) /\ UNCHANGED clock
        /\ \A c : (Live(c)' <=> Live(c)) /\ (Rejected(c)' <=> Rejected(c))
    BY <1>6, TrackerStays
  <1>10. /\ Ages(commands', {}) /\ used' = used /\ used \subseteq used'
         /\ \A j \in Key : pending'[j] \in {None, pending[j]}
    BY <1>9 DEF Quiet
  <1>11. /\ values' = [j \in Key |-> values'[j]]
         /\ \A j \in Key : ValueOK(j)' /\ values'[j].pending \in {None, values[j].pending}
    BY <1>6, <1>10, ValuesStay
  <1>12. x.pc \in Begun /\ x.pc \in Gated /\ x.pc \in Early /\ x.pc \in Undecided
    BY <1>6 DEF Begun, Gated, Early, Undecided
  <1>13. LocalOK(y)
    <2>1. y.pc \in {"drop", "release", "resolveSuperseded", "optimistic"} BY <1>3, <1>8
    <2>2. y.command = x.command /\ y.record = x.record /\ y.key = x.key /\ y.expected = x.expected
          /\ y.old = x.old
      BY <1>8 DEF SameCommand, SameTarget
    <2>3. y.replayed = x.replayed BY <1>8 DEF SameCommand
    <2>4. x.command # None /\ x.key \in Key /\ x.expected \in Value /\ (~x.replayed => x.record # None)
      BY <1>1, <1>6, <1>12 DEF LocalOK
    <2>5. y.pc \in Running => y.pc \in {"resolveSuperseded", "optimistic"}
      BY <2>1 DEF Running
    <2>6. y.pc \in Running => ~y.replayed BY <1>3, <1>8, <2>3, <2>5
    <2>7. y.pc \notin Waiting /\ y.pc # "resolveOld" BY <2>1 DEF Waiting
    <2>8. y.pc = "resolveSuperseded" => y.old # None BY <1>3, <1>8
    <2>9. ~y.replayed => y.record # None BY <2>2, <2>3, <2>4
    <2>10. QED BY <1>8, <2>1, <2>2, <2>4, <2>6, <2>7, <2>8, <2>9 DEF LocalOK
  <1>14. gate' = o /\ gate' \in Op \cup {None} BY <1>1, <1>6, <1>12 DEF GateOK
  <1>15. y.command = x.command /\ y.key = x.key BY <1>8 DEF SameCommand, SameTarget
  <1>16. y.replayed = x.replayed BY <1>8 DEF SameCommand
  <1>17. ~Rejected(y.command)' BY <1>1, <1>9, <1>12, <1>15 DEF CommandOK, LocalOK
  <1>18. y.pc \in Answered => y.outcome \in Shared BY <1>3, <1>4, <1>8 DEF Answered
  <1>19. y.pc \in Running => propertyOps'[y.key] = o
    BY <1>3, <1>6, <1>8, <1>15 DEF Running
  <1>20. y.pc # "cancel" BY <1>3, <1>8
  <1>21. y.previous # None => GoodValue(y.previous) BY <1>1, <1>8
  <1>22. RequestOK(o)'
    BY <1>8, <1>10, <1>11, <1>12, <1>13, <1>14, <1>15, <1>16, <1>17, <1>18, <1>19, <1>20, <1>21, OwnKeeps
  <1>23. propertyOps' \in [Key -> Op \cup {None}] /\ propertyMu' \in Op \cup {None}
    BY <1>6 DEF WInv, TypeInvariant
  <1>24. \A q \in Op \ {o} : op[q].command \notin {} OBVIOUS
  <1>25. QED
    BY <1>1, <1>6, <1>8, <1>9, <1>10, <1>11, <1>12, <1>14, <1>22, <1>23, <1>24, MoveStep

\* A shared command is live when it is handed out.
LEMMA BeginReplayedStep ==
    ASSUME WInv, NEW o \in Op, BeginReplayed(o) PROVE WInv'
  <1> PICK x : x = op[o] OBVIOUS
  <1> PICK y : y = op'[o] OBVIOUS
  <1>1. /\ op \in [Op -> Operation] /\ x \in Operation /\ LocalOK(x) /\ GateOK(o)
        /\ x.previous # None => GoodValue(x.previous)
        /\ x.pc \in Gated => \A q \in Op \ {o} : op[q].pc \notin Gated
    BY WInvOp
  <1>2. x.pc = "begin" /\ CoalesceProperty(x.key, x.expected)
        /\ UNCHANGED <<values, propertyOps, propertyMu, gate, report, reports, scanned>>
    BY DEF BeginReplayed, At
  <1>3. PICK k \in Key : k = x.key /\ x.expected \in Value BY <1>1, <1>2 DEF LocalOK
  <1>4. CoalesceProperty(k, x.expected) BY <1>2, <1>3
  <1>5. IInv' /\ UNCHANGED clock
    <2>1. Next BY <1>3, <1>4 DEF Next
    <2>2. UNCHANGED clock BY <1>4 DEF CoalesceProperty
    <2>3. QED BY <2>1, <2>2, StepIInv DEF WInv
  <1>6. IInv BY DEF WInv
  <1>7. Quiet({}) /\ pending[k] \in used /\ commands'[pending[k]].key = k /\ ~Rejected(pending[k])'
    BY <1>4, <1>6, CoalesceQuiet
  <1>8. PICK c \in Id : c = pending[k]
    BY <1>4 DEF CoalesceProperty, WInv, IInv, TypeOK
  <1>9. op' = WithReplayed(o, "attach", c, TRUE)
    BY <1>3, <1>8 DEF BeginReplayed, WithReplayed
  <1>10. "attach" \in PC BY DEF PC
  <1>11. /\ Moves(o, y) /\ y.pc = "attach" /\ SameTarget(x, y)
         /\ y.command = c /\ y.record = x.record /\ y.replayed
         /\ y.bound = x.bound /\ y.previous = x.previous /\ y.old = x.old
         /\ y.outcome = x.outcome
    <2>1. PICK b \in BOOLEAN : b = TRUE OBVIOUS
    <2>2. op' = WithReplayed(o, "attach", c, b) BY <1>9, <2>1
    <2>3. /\ Moves(o, y) /\ y.pc = "attach" /\ SameTarget(x, y)
          /\ y.command = c /\ y.record = x.record /\ y.replayed = b
          /\ y.bound = x.bound /\ y.previous = x.previous /\ y.old = x.old
          /\ y.outcome = x.outcome
      BY <1>1, <1>10, <2>2, ToReplayed
    <2>4. QED BY <2>1, <2>3
  <1>12. /\ Ages(commands', {}) /\ used' = used /\ used \subseteq used'
         /\ \A j \in Key : pending'[j] \in {None, pending[j]}
    BY <1>7 DEF Quiet
  <1>13. /\ values' = [j \in Key |-> values'[j]]
         /\ \A j \in Key : ValueOK(j)' /\ values'[j].pending \in {None, values[j].pending}
    BY <1>2, <1>12, ValuesStay
  <1>14. c # None BY NoneAssumption
  <1>15. ~y.bound
    <2>1. ~x.bound BY <1>1, <1>2 DEF LocalOK, Waiting
    <2>2. QED BY <1>11, <2>1
  <1>16. y.pc \notin Running \cup Waiting \cup Answered /\ y.pc # "cancel"
    BY <1>11 DEF Running, Waiting, Answered
  <1>17. y.key = k /\ y.expected \in Value BY <1>3, <1>11 DEF SameTarget
  <1>18. LocalOK(y) BY <1>11, <1>14, <1>15, <1>16, <1>17 DEF LocalOK
  <1>19. x.pc \in Gated BY <1>2 DEF Gated
  <1>20. gate' = o BY <1>1, <1>2, <1>19 DEF GateOK
  <1>21. y = op'[o] OBVIOUS
  <1>22. RequestOK(o)'
    <2>0. ~Rejected(c)' BY <1>4, <1>7, <1>8 DEF CoalesceProperty
    <2>1. CommandOK(y)' BY <1>7, <1>8, <1>11, <1>12, <1>16, <1>17, <2>0 DEF CommandOK
    <2>2. GateOK(o)' BY <1>11, <1>20 DEF GateOK
    <2>3. TableOK(o)' BY <1>16 DEF TableOK
    <2>4. y.previous # None => GoodValue(y.previous) BY <1>1, <1>11
    <2>5. QED BY <1>18, <2>1, <2>2, <2>3, <2>4 DEF RequestOK
  <1>23. propertyOps' \in [Key -> Op \cup {None}] /\ propertyMu' \in Op \cup {None}
         /\ gate' \in Op \cup {None}
    BY <1>2 DEF WInv, TypeInvariant
  <1>24. \A q \in Op \ {o} : op[q].command \notin {} OBVIOUS
  <1>25. QED
    BY <1>1, <1>2, <1>5, <1>11, <1>12, <1>13, <1>15, <1>19, <1>22, <1>23, <1>24, MoveStep

\* A new command is fresh: no request and no value has it, and it is pending.
LEMMA BeginCommandStep ==
    ASSUME WInv, NEW o \in Op, NEW id \in Id, BeginCommand(o, id) PROVE WInv'
  <1> PICK x : x = op[o] OBVIOUS
  <1> PICK y : y = op'[o] OBVIOUS
  <1>1. /\ op \in [Op -> Operation] /\ x \in Operation /\ LocalOK(x) /\ GateOK(o)
        /\ x.previous # None => GoodValue(x.previous)
        /\ x.pc \in Gated => \A q \in Op \ {o} : op[q].pc \notin Gated
    BY WInvOp
  <1>2. x.pc = "begin" /\ ReplaceProperty(x.key, x.expected, id, clock)
        /\ UNCHANGED <<values, propertyOps, propertyMu, gate, report, reports, scanned>>
    BY DEF BeginCommand, At
  <1>3. PICK k \in Key : k = x.key /\ x.expected \in Value BY <1>1, <1>2 DEF LocalOK
  <1>4. IInv /\ clock \in 0..clock BY DEF WInv, IInv, TypeOK
  <1>5. ReplaceProperty(k, x.expected, id, clock) BY <1>2, <1>3
  <1>6. IInv'
    <2>1. Next BY <1>3, <1>4, <1>5 DEF Next
    <2>2. QED BY <1>4, <2>1, StepIInv
  <1>7. PICK n : n = NewCommand(k, None, x.expected, clock) OBVIOUS
  <1>8. /\ Ages(commands', {}) /\ commands'[id] = n
        /\ id \notin used /\ used' = used \cup {id} /\ UNCHANGED <<maxItems, clock>>
        /\ pending' = [pending EXCEPT ![k] = id]
    BY <1>3, <1>4, <1>5, <1>7, ReplaceAges
  <1>9. n \in Command /\ n.key = k /\ n.status \notin TerminalStatus
    <2>1. None \in Scope \cup {None} /\ k \in Key \cup {None} /\ x.expected \in Value \cup {None}
      BY <1>3
    <2>2. QED BY <1>4, <1>7, <2>1, NewCommandFacts
  <1>10. PICK old \in Id \cup {None} : old = IF pending[k] # None /\ Live(pending[k])
                                             THEN pending[k] ELSE None
    BY <1>4 DEF IInv, TypeOK
  <1>11. op' = WithCommand(o, "attach", id, n, old)
    BY <1>3, <1>7, <1>10 DEF BeginCommand, WithCommand
  <1>12. "attach" \in PC BY DEF PC
  <1>13. /\ Moves(o, y) /\ y.pc = "attach" /\ SameTarget(x, y)
         /\ y.command = id /\ y.record = n /\ y.replayed = x.replayed
         /\ y.bound = x.bound /\ y.previous = x.previous /\ y.old = old
         /\ y.outcome = x.outcome
    BY <1>1, <1>9, <1>11, <1>12, ToCommand
  <1>14. used \subseteq used' BY <1>8
  <1>15. /\ values' = [j \in Key |-> values'[j]]
         /\ \A j \in Key : ValueOK(j)' /\ values'[j].pending \in {None, values[j].pending}
    BY <1>2, <1>8, <1>14, ValuesStay
  <1>16. id # None /\ n # None BY <1>9, NoneAssumption, NoneIsNoCommand
  <1>17. ~y.bound
    <2>1. ~x.bound BY <1>1, <1>2 DEF LocalOK, Waiting
    <2>2. QED BY <1>13, <2>1
  <1>18. y.pc \notin Running \cup Waiting \cup Answered /\ y.pc # "cancel"
    BY <1>13 DEF Running, Waiting, Answered
  <1>19. y.key = k /\ y.expected \in Value BY <1>3, <1>13 DEF SameTarget
  <1>20. LocalOK(y) BY <1>13, <1>16, <1>17, <1>18, <1>19 DEF LocalOK
  <1>21. x.pc \in Gated BY <1>2 DEF Gated
  <1>22. gate' = o BY <1>1, <1>2, <1>21 DEF GateOK
  <1>23. y = op'[o] OBVIOUS
  <1>24. RequestOK(o)'
    <2>1. ~Rejected(id)' BY <1>8, <1>9 DEF Rejected, TerminalStatus
    <2>2. CommandOK(y)' BY <1>8, <1>9, <1>13, <1>18, <1>19, <2>1 DEF CommandOK
    <2>3. ASSUME NEW q \in Op \ {o} PROVE op'[q].command # id
      <3>1. op'[q].command = op[q].command BY <1>13 DEF Moves, Kept, SameCommand
      <3>2. op[q].command # None => op[q].command \in used BY WInvOp DEF CommandOK
      <3>3. QED BY <1>8, <1>16, <3>1, <3>2
    <2>4. pending'[k] = id BY <1>4, <1>8 DEF IInv, TypeOK
    <2>5. ASSUME NEW j \in Key PROVE values'[j].pending # id
      <3>1. values[j].pending # None => values[j].pending \in used BY DEF WInv, ValueOK
      <3>2. QED BY <1>2, <1>8, <1>16, <3>1
    <2>6. GateOK(o)' BY <1>13, <1>19, <1>22, <2>3, <2>4, <2>5 DEF GateOK
    <2>7. TableOK(o)' BY <1>18 DEF TableOK
    <2>8. y.previous # None => GoodValue(y.previous) BY <1>1, <1>13
    <2>9. QED BY <1>20, <2>2, <2>6, <2>7, <2>8 DEF RequestOK
  <1>25. propertyOps' \in [Key -> Op \cup {None}] /\ propertyMu' \in Op \cup {None}
         /\ gate' \in Op \cup {None}
    BY <1>2 DEF WInv, TypeInvariant
  <1>26. \A q \in Op \ {o} : op[q].command \notin {} OBVIOUS
  <1>27. QED
    BY <1>1, <1>2, <1>6, <1>8, <1>13, <1>14, <1>15, <1>17, <1>21, <1>24, <1>25, <1>26, MoveStep
-----------------------------------------------------------------------------
(* The steps of the worker, the scanner, the clock and the clients.        *)

\* No request moves.
LEMMA NobodyMoves ==
    ASSUME WInv, IInv', op' \in [Op -> Operation], \A q \in Op : Kept(op[q], op'[q]),
           Quiet({}), UNCHANGED <<propertyOps, propertyMu, gate>>,
           report' \in [values : [Key -> Value], left : SUBSET Key],
           reports' \in 0..MaxReports, scanned' \in Nat, scanned' <= clock',
           values' = [k \in Key |-> values'[k]],
           \A k \in Key : GoodValue(values'[k]) /\ values'[k].pending \in {None, values[k].pending}
    PROVE  WInv'
  <1>1. /\ Ages(commands', {}) /\ used \subseteq used'
        /\ \A k \in Key : pending'[k] \in {None, pending[k]}
    BY DEF Quiet
  <1>2. ASSUME NEW q \in Op PROVE RequestOK(q)'
    <2> DEFINE M == {}
    <2> DEFINE F == {}
    <2>1. /\ M \in SUBSET Op /\ q \notin M /\ \A r \in Op \ M : Kept(op[r], op'[r])
          /\ op[q].command \notin F /\ Ages(commands', F)
      BY <1>1
    <2>2. op[q].pc \in Gated =>
              /\ gate' = gate
              /\ \A k \in Key : /\ pending'[k] \in {None, pending[k]}
                                /\ values'[k].pending \in {None, values[k].pending}
              /\ \A m \in M : op'[m].command \in {None, op[m].command}
      BY <1>1
    <2>3. op[q].pc \in Running /\ propertyOps[op[q].key] = q /\ propertyOps'[op[q].key] # q
              => ~Live(op[q].command)
      OBVIOUS
    <2>4. op[q].pc = "cancel" =>
              /\ propertyMu' = propertyMu /\ propertyOps' = propertyOps
              /\ \A m \in M : op'[m].bound => op[m].bound /\ op'[m].command = op[m].command
      OBVIOUS
    <2> HIDE DEF M, F
    <2>5. QED BY <1>1, <2>1, <2>2, <2>3, <2>4, OthersKeep
  <1>3. \A k \in Key : ValueOK(k)' BY <1>1, ValueKeeps
  <1>4. \A k \in Key : values'[k] \in SV!StateValue BY DEF GoodValue
  <1>5. TypeInvariant' BY <1>4 DEF TypeInvariant, WInv, IInv
  <1>6. QED BY <1>2, <1>3, <1>5 DEF WInv

\* What an unchanged part of the state satisfies.
LEMMA StillTyped ==
    ASSUME WInv
    PROVE  /\ op \in [Op -> Operation] /\ \A q \in Op : Kept(op[q], op[q])
           /\ report \in [values : [Key -> Value], left : SUBSET Key]
           /\ reports \in 0..MaxReports /\ scanned \in Nat /\ scanned <= clock
           /\ clock \in Nat /\ IInv
           /\ values = [k \in Key |-> values[k]]
           /\ \A k \in Key : GoodValue(values[k]) /\ values[k] \in SV!StateValue
  BY DEF WInv, TypeInvariant, ValueOK, GoodValue, IInv, TypeOK, Kept, SameCommand, SameTarget

\* The end of a context moves no request.
LEMMA CallerGoneStep ==
    ASSUME WInv, NEW o \in Op, CallerGone(o) PROVE WInv'
  <1>1. PICK y : y = op'[o] OBVIOUS
  <1>2. /\ op' = WithCancelled(o, TRUE)
        /\ UNCHANGED <<vars, values, propertyOps, propertyMu, gate, report, reports, scanned>>
    BY DEF CallerGone, WithCancelled
  <1>3. PICK b \in BOOLEAN : b = TRUE OBVIOUS
  <1>4. op' = WithCancelled(o, b) BY <1>2, <1>3
  <1>5. PICK x : x = op[o] OBVIOUS
  <1>6. Moves(o, y) /\ Kept(x, y) BY <1>1, <1>4, <1>5, StillTyped, ToCancelled
  <1>7. op' \in [Op -> Operation] /\ \A q \in Op : Kept(op[q], op'[q])
    BY <1>1, <1>5, <1>6 DEF Moves
  <1>8. IInv' /\ Quiet({}) /\ UNCHANGED clock BY <1>2, TrackerStays
  <1>9. QED BY <1>2, <1>7, <1>8, StillTyped, NobodyMoves

\* Nothing happens.
LEMMA StutterStep ==
    ASSUME WInv, UNCHANGED allVars PROVE WInv'
  <1>1. UNCHANGED vars /\ UNCHANGED <<values, op, propertyOps, propertyMu, gate, report, reports, scanned>>
    BY DEF allVars, own
  <1>2. IInv' /\ Quiet({}) /\ UNCHANGED clock BY <1>1, TrackerStays
  <1>3. QED BY <1>1, <1>2, StillTyped, NobodyMoves

\* A report takes values from their owners or leaves them alone.
LEMMA ApplySnapshotStep ==
    ASSUME WInv, NEW vs \in [Key -> Value], ApplySnapshot(vs) PROVE WInv'
  <1>1. /\ reports < MaxReports /\ reports' = reports + 1
        /\ values' = [k \in Key |-> Reported(k, values[k], vs[k], reports + 1)]
        /\ report' = [values |-> vs, left |-> Key]
        /\ UNCHANGED <<vars, op, propertyOps, propertyMu, gate, scanned>>
    BY DEF ApplySnapshot
  <1>2. IInv' /\ Quiet({}) /\ UNCHANGED clock BY <1>1, TrackerStays
  <1>3. reports' \in 0..MaxReports /\ reports + 1 \in Nat
    BY <1>1, StillTyped, ReportAssumption
  <1>4. report' \in [values : [Key -> Value], left : SUBSET Key] BY <1>1
  <1>5. ASSUME NEW k \in Key
        PROVE  GoodValue(values'[k]) /\ values'[k].pending \in {None, values[k].pending}
    <2>1. PICK v \in SV!StateValue : v = values[k] /\ GoodValue(v) BY StillTyped
    <2>2. v # None /\ v \in SV!StateValue \cup {None} BY <2>1, ValueAssumption
    <2>3. PICK n \in Nat : n = reports + 1 BY <1>3
    <2>4. PICK u \in Value : u = vs[k] OBVIOUS
    <2>5. values'[k] = Reported(k, v, u, n) BY <1>1, <2>1, <2>3, <2>4
    <2>6. GoodValue(Reported(k, v, u, n)) /\ Reported(k, v, u, n).pending \in {None, v.pending}
      BY <2>1, <2>2, ReportedGood, StillTyped
    <2>7. QED BY <2>1, <2>5, <2>6
  <1>6. values' = [k \in Key |-> values'[k]] BY <1>1
  <1>7. QED BY <1>1, <1>2, <1>3, <1>4, <1>5, <1>6, StillTyped, NobodyMoves

\* The tracker confirms what a report answers.
LEMMA ConfirmTracker ==
    ASSUME WInv, NEW k \in Key, ConfirmReported(k)
    PROVE  [Next]_vars /\ IInv' /\ Quiet({}) /\ UNCHANGED clock
  <1>1. report.values[k] \in Value BY StillTyped
  <1>2. PICK v \in Value : v = report.values[k] BY <1>1
  <1>3. CASE pending[k] # None /\ commands[pending[k]].expected = report.values[k]
    <2>1. Confirm(k, v) BY <1>2, <1>3 DEF ConfirmReported
    <2>2. Next BY <2>1 DEF Next
    <2>3. UNCHANGED clock BY <2>1 DEF Confirm
    <2>4. Quiet({}) BY <2>1, ConfirmQuiet, StillTyped
    <2>5. QED BY <2>2, <2>3, <2>4, StepIInv, StillTyped
  <1>4. CASE ~(pending[k] # None /\ commands[pending[k]].expected = report.values[k])
    <2>1. UNCHANGED vars BY <1>4 DEF ConfirmReported, SameStatus
    <2>2. QED BY <2>1, TrackerStays
  <1>5. QED BY <1>3, <1>4

\* A confirmation finishes commands only.
LEMMA ConfirmReportedStep ==
    ASSUME WInv, NEW k \in Key, ConfirmReported(k) PROVE WInv'
  <1>1. /\ report' = [report EXCEPT !.left = @ \ {k}]
        /\ UNCHANGED <<values, op, propertyOps, propertyMu, gate, reports, scanned>>
    BY DEF ConfirmReported
  <1>2. IInv' /\ Quiet({}) /\ UNCHANGED clock BY ConfirmTracker
  <1>3. report' \in [values : [Key -> Value], left : SUBSET Key] BY <1>1, StillTyped
  <1>4. QED BY <1>1, <1>2, <1>3, StillTyped, NobodyMoves

\* An offline device takes every value from its owner.
LEMMA DeviceOfflineStep ==
    ASSUME WInv, DeviceOffline PROVE WInv'
  <1>1. /\ values' = [k \in Key |-> Unversioned(SV!MadeUnavailable(values[k], "device-offline"))]
        /\ UNCHANGED <<vars, op, propertyOps, propertyMu, gate, report, reports, scanned>>
    BY DEF DeviceOffline
  <1>2. IInv' /\ Quiet({}) /\ UNCHANGED clock BY <1>1, TrackerStays
  <1>3. ASSUME NEW k \in Key
        PROVE  GoodValue(values'[k]) /\ values'[k].pending \in {None, values[k].pending}
    <2>1. PICK v \in SV!StateValue : v = values[k] /\ GoodValue(v) BY StillTyped
    <2>2. PICK w : w = Unversioned(SV!MadeUnavailable(v, "device-offline")) OBVIOUS
    <2>3. values'[k] = w BY <1>1, <2>1, <2>2
    <2>4. \/ SameBut(v, w) /\ (v.quality \in {"stale", "unknown"})
          \/ Fades(w, IF v.value = None THEN "unknown" ELSE "stale")
      BY <2>2, MadeUnavailableFades
    <2>5. CASE SameBut(v, w) BY <2>1, <2>3, <2>5 DEF SameBut, GoodValue
    <2>6. CASE Fades(w, IF v.value = None THEN "unknown" ELSE "stale")
      <3>1. Fades(w, "unknown") /\ w.pending = None BY <2>6 DEF Fades
      <3>2. QED BY <2>3, <3>1, FadesGood
    <2>7. QED BY <2>4, <2>5, <2>6
  <1>4. values' = [k \in Key |-> values'[k]] BY <1>1
  <1>5. QED BY <1>1, <1>2, <1>3, <1>4, StillTyped, NobodyMoves

\* The scan takes expired values from their owners.
LEMMA ScanValuesStep ==
    ASSUME WInv, ScanValues PROVE WInv'
  <1>1. /\ values' = [k \in Key |-> IF SV!Expired(values[k], clock)
                                    THEN Unversioned(SV!MarkedStale(values[k])) ELSE values[k]]
        /\ scanned' = clock
        /\ UNCHANGED <<vars, op, propertyOps, propertyMu, gate, report, reports>>
    BY DEF ScanValues
  <1>2. IInv' /\ Quiet({}) /\ UNCHANGED clock BY <1>1, TrackerStays
  <1>3. ASSUME NEW k \in Key
        PROVE  GoodValue(values'[k]) /\ values'[k].pending \in {None, values[k].pending}
    <2>1. PICK v \in SV!StateValue : v = values[k] /\ GoodValue(v) BY StillTyped
    <2>2. CASE ~SV!Expired(v, clock) BY <1>1, <2>1, <2>2
    <2>3. CASE SV!Expired(v, clock)
      <3>1. values'[k] = Unversioned(SV!MarkedStale(v)) BY <1>1, <2>1, <2>3
      <3>2. Fades(values'[k], "stale") BY <3>1, MarkedStaleFades
      <3>3. Fades(values'[k], "unknown") /\ values'[k].pending = None BY <3>2 DEF Fades
      <3>4. QED BY <3>3, FadesGood
    <2>4. QED BY <2>2, <2>3
  <1>4. values' = [k \in Key |-> values'[k]] BY <1>1
  <1>5. scanned' \in Nat /\ scanned' <= clock' BY <1>1, <1>2, StillTyped
  <1>6. QED BY <1>1, <1>2, <1>3, <1>4, <1>5, StillTyped, NobodyMoves

\* The tracker times out what the scan found.
LEMMA ScanTracker ==
    ASSUME WInv, ScanCommands
    PROVE  [Next]_vars /\ IInv' /\ Quiet({}) /\ UNCHANGED clock
  <1>1. CASE Overdue(scanned) # {}
    <2>1. Expire(scanned) BY <1>1 DEF ScanCommands
    <2>2. scanned \in 0..clock BY StillTyped
    <2>3. Next BY <2>1, <2>2 DEF Next
    <2>4. UNCHANGED clock BY <2>1 DEF Expire
    <2>5. Quiet({}) BY <2>1, ExpireQuiet, StillTyped
    <2>6. QED BY <2>3, <2>4, <2>5, StepIInv, StillTyped
  <1>2. CASE ~(Overdue(scanned) # {})
    <2>1. UNCHANGED vars BY <1>2 DEF ScanCommands, SameStatus
    <2>2. QED BY <2>1, TrackerStays
  <1>3. QED BY <1>1, <1>2

\* The scan finishes commands only.
LEMMA ScanCommandsStep ==
    ASSUME WInv, ScanCommands PROVE WInv'
  <1>1. scanned' = 0 /\ UNCHANGED <<values, op, propertyOps, propertyMu, gate, report, reports>>
    BY DEF ScanCommands
  <1>2. IInv' /\ Quiet({}) /\ UNCHANGED clock BY ScanTracker
  <1>3. scanned' \in Nat /\ scanned' <= clock' BY <1>1, <1>2, StillTyped
  <1>4. QED BY <1>1, <1>2, <1>3, StillTyped, NobodyMoves

\* Time passes.
LEMMA PassStep ==
    ASSUME WInv, Pass PROVE WInv'
  <1>1. Tick /\ UNCHANGED <<values, op, propertyOps, propertyMu, gate, report, reports, scanned>>
    BY DEF Pass, own
  <1>2. Next BY <1>1 DEF Next
  <1>3. IInv' BY <1>2, StepIInv, StillTyped
  <1>4. Quiet({}) BY <1>1, TickQuiet, StillTyped
  <1>5. scanned' \in Nat /\ scanned' <= clock' BY <1>1, StillTyped DEF Tick
  <1>6. QED BY <1>1, <1>3, <1>4, <1>5, StillTyped, NobodyMoves
-----------------------------------------------------------------------------
(* Every step, and the initial states.                                     *)

\* Every step of a request, the worker, the scanner or the clock is one of the
\* tracker's own steps, or leaves the tracker alone.
LEMMA TrackerStep ==
    ASSUME WInv, [NextWrites]_allVars PROVE [Next]_vars
  <1>1. ASSUME NEW o \in Op, NEW k \in Key, NEW v \in Value, Replace(o, k, v) PROVE [Next]_vars
    <2>1. PICK e \in Op : e = propertyOps[k] BY <1>1 DEF Replace, WInv, TypeInvariant
    <2>2. PICK z \in Operation : z = op[e] BY StillTyped
    <2>3. LocalOK(z) BY <2>2, WInvOp
    <2>4. CASE z.bound /\ Live(z.command)
      <3>1. z.command \in Id BY <2>2, <2>3, <2>4 DEF LocalOK, Operation
      <3>2. Supersede(z.command) BY <1>1, <2>1, <2>2, <2>4 DEF Replace
      <3>3. QED BY <3>1, <3>2 DEF Next
    <2>5. CASE ~(z.bound /\ Live(z.command))
      BY <1>1, <2>1, <2>2, <2>5 DEF Replace, SameStatus
    <2>6. QED BY <2>4, <2>5
  <1>2. ASSUME NEW o \in Op, op[o].pc \in Begun \cup {"begin"}
        PROVE  /\ op[o].key \in Key /\ op[o].expected \in Value
               /\ op[o].pc \in Begun => op[o].command \in Id
    BY <1>2, WInvOp DEF LocalOK, Operation, Begun
  <1>3. ASSUME NEW o \in Op, BeginReplayed(o) PROVE Next
    BY <1>2, <1>3 DEF BeginReplayed, At, Next
  <1>4. ASSUME NEW o \in Op, NEW id \in Id, BeginCommand(o, id) PROVE Next
    <2>1. clock \in 0..clock BY StillTyped
    <2>2. op[o].key \in Key /\ op[o].expected \in Value BY <1>2, <1>4 DEF BeginCommand, At
    <2>3. ReplaceProperty(op[o].key, op[o].expected, id, clock) BY <1>4 DEF BeginCommand
    <2>4. QED BY <2>1, <2>2, <2>3 DEF Next
  <1>5. ASSUME NEW o \in Op, Drop(o) PROVE [Next]_vars
    <2>1. op[o].command \in Id BY <1>2, <1>5 DEF Drop, At, Begun
    <2>2. QED BY <1>5, <2>1 DEF Drop, SupersedeOrNothing, SameStatus, Next
  <1>6. ASSUME NEW o \in Op, Send(o) PROVE [Next]_vars
    <2>1. op[o].command \in Id BY <1>2, <1>6 DEF Send, At, Begun
    <2>2. QED BY <1>6, <2>1 DEF Send, TransitionOrNothing, SameStatus, Next
  <1>7. ASSUME NEW o \in Op, rejectPropertyWrite(o) PROVE [Next]_vars
    <2>1. op[o].command \in Id BY <1>2, <1>7 DEF rejectPropertyWrite, At, Begun
    <2>2. QED BY <1>7, <2>1 DEF rejectPropertyWrite, TransitionOrNothing, SameStatus, Next
  <1>8. ASSUME NEW o \in Op, Accept(o) PROVE [Next]_vars
    <2>1. op[o].command \in Id BY <1>2, <1>8 DEF Accept, At, Begun
    <2>2. QED BY <1>8, <2>1 DEF Accept, TransitionOrNothing, SameStatus, Next
  <1>9. ASSUME NEW o \in Op, Proceed(o) PROVE [Next]_vars
    <2>1. CASE \/ CancelReplaced(o) \/ ResolveOld(o) \/ Acquire(o) \/ AcquireCancelled(o)
               \/ GetPrevious(o) \/ Attach(o) \/ ResolveSuperseded(o) \/ Reread(o)
               \/ applyOptimisticState(o)
      BY <2>1 DEF CancelReplaced, ResolveOld, Acquire, AcquireCancelled, GetPrevious, Attach,
                  ResolveSuperseded, Reread, applyOptimisticState
    <2>2. CASE \/ (\E ok \in BOOLEAN : WriteReturns(o, ok))
               \/ LookUp(o, "failed", "reject") \/ rollbackOptimistic(o)
               \/ LookUp(o, "written", "accept")
               \/ Release(o) \/ FinalAnswer(o) \/ finishPropertyOperation(o) \/ JoinedReturns(o)
      BY <2>2 DEF WriteReturns, LookUp, rollbackOptimistic, Release, FinalAnswer,
                  finishPropertyOperation, JoinedReturns
    <2>3. QED BY <1>3, <1>4, <1>5, <1>6, <1>7, <1>8, <1>9, <2>1, <2>2 DEF Proceed
  <1>10. ASSUME NEW o \in Op, Arrive(o) PROVE [Next]_vars
    BY <1>1, <1>10 DEF Arrive, Join, Start
  <1>11. ASSUME NEW o \in Op, CallerGone(o) PROVE UNCHANGED vars BY <1>11 DEF CallerGone
  <1>12. ASSUME NEW vs \in [Key -> Value], ApplySnapshot(vs) PROVE UNCHANGED vars
    BY <1>12 DEF ApplySnapshot
  <1>13. DeviceOffline => UNCHANGED vars BY DEF DeviceOffline
  <1>14. ScanValues => UNCHANGED vars BY DEF ScanValues
  <1>15. Pass => Next BY DEF Pass, Next
  <1>16. UNCHANGED allVars => UNCHANGED vars BY DEF allVars
  <1>17. QED
    BY <1>9, <1>10, <1>11, <1>12, <1>13, <1>14, <1>15, <1>16, ConfirmTracker, ScanTracker
       DEF NextWrites

\* Every step of a request.
LEMMA ProceedStep ==
    ASSUME WInv, NEW o \in Op, Proceed(o) PROVE WInv'
  <1>1. CASE \/ CancelReplaced(o) \/ ResolveOld(o) \/ Acquire(o) \/ AcquireCancelled(o)
             \/ GetPrevious(o) \/ BeginReplayed(o) \/ (\E id \in Id : BeginCommand(o, id))
    BY <1>1, CancelReplacedStep, ResolveOldStep, AcquireStep, AcquireCancelledStep,
       GetPreviousStep, BeginReplayedStep, BeginCommandStep
  <1>2. CASE \/ Attach(o) \/ Drop(o) \/ ResolveSuperseded(o) \/ Reread(o) \/ applyOptimisticState(o)
             \/ Send(o) \/ (\E ok \in BOOLEAN : WriteReturns(o, ok))
    BY <1>2, AttachStep, DropStep, ResolveSupersededStep, RereadStep, applyOptimisticStep,
       SendStep, WriteReturnsStep
  <1>3. CASE LookUp(o, "failed", "reject") \/ LookUp(o, "written", "accept")
    <2>1. CASE LookUp(o, "failed", "reject") BY <2>1, LookUpStep
    <2>2. CASE LookUp(o, "written", "accept") BY <2>2, LookUpStep
    <2>3. QED BY <1>3, <2>1, <2>2
  <1>4. CASE \/ rejectPropertyWrite(o) \/ rollbackOptimistic(o) \/ Accept(o)
             \/ Release(o) \/ FinalAnswer(o) \/ finishPropertyOperation(o) \/ JoinedReturns(o)
    BY <1>4, rejectStep, rollbackStep, AcceptStep, ReleaseStep, FinalAnswerStep, finishStep,
       JoinedReturnsStep
  <1>5. QED BY <1>1, <1>2, <1>3, <1>4 DEF Proceed

\* Every step of the system.
LEMMA StepWInv == WInv /\ [NextWrites]_allVars => WInv'
  <1> SUFFICES ASSUME WInv, [NextWrites]_allVars PROVE WInv' OBVIOUS
  <1>1. ASSUME NEW o \in Op, Arrive(o) PROVE WInv'
    BY <1>1, JoinStep, StartStep, ReplaceStep DEF Arrive
  <1>2. QED
    BY <1>1, ProceedStep, CallerGoneStep, ApplySnapshotStep, ConfirmReportedStep,
       DeviceOfflineStep, ScanValuesStep, ScanCommandsStep, PassStep, StutterStep DEF NextWrites

\* The initial states: every property has been reported, and no request has come yet.
LEMMA InitWInv == InitWrites => WInv
  <1> SUFFICES ASSUME InitWrites PROVE WInv OBVIOUS
  <1>1. IInv BY InitIInv DEF InitWrites
  <1>2. clock = 0 /\ clock \in Nat BY DEF InitWrites, Init
  <1>3. report \in [values : [Key -> Value], left : SUBSET Key] BY DEF InitWrites
  <1>4. NoOperation \in Operation BY DEF NoOperation, Operation, PC, Outcome
  <1>5. op \in [Op -> Operation] /\ \A o \in Op : op[o] = NoOperation BY <1>4 DEF InitWrites
  <1>6. ASSUME NEW k \in Key PROVE GoodValue(values[k]) /\ values[k].pending = None
    <2>1. PICK u \in Value : u = report.values[k] BY <1>3
    <2>2. PICK v \in SV!StateValue \cup {None} : v = None OBVIOUS
    <2>3. PICK n \in Nat : n = 1 OBVIOUS
    <2>4. values[k] = Reported(k, v, u, n) BY <2>1, <2>2, <2>3 DEF InitWrites
    <2>5. GoodValue(Reported(k, v, u, n)) /\ Reported(k, v, u, n).pending = None
      BY <1>2, <2>2, ReportedGood
    <2>6. QED BY <2>4, <2>5
  <1>7. values \in [Key -> SV!StateValue \cup {None}]
    <2>1. values = [k \in Key |-> values[k]] BY DEF InitWrites
    <2>2. \A k \in Key : values[k] \in SV!StateValue BY <1>6 DEF GoodValue
    <2>3. QED BY <2>1, <2>2
  <1>8. TypeInvariant
    BY <1>1, <1>3, <1>5, <1>7, ReportAssumption DEF TypeInvariant, IInv, InitWrites
  <1>9. \A k \in Key : ValueOK(k) BY <1>6 DEF ValueOK
  <1>10. ASSUME NEW o \in Op PROVE RequestOK(o)
    <2>1. /\ op[o].pc = "idle" /\ op[o].command = None /\ op[o].previous = None
          /\ ~op[o].bound /\ ~op[o].replayed /\ op[o].outcome = "none"
      BY <1>5 DEF NoOperation
    <2>2. LocalOK(op[o]) BY <2>1 DEF LocalOK, Waiting, Begun, Running, Early
    <2>3. CommandOK(op[o]) /\ GateOK(o) /\ TableOK(o)
      BY <2>1 DEF CommandOK, GateOK, TableOK, Begun, Gated, Running, Early
    <2>4. QED BY <2>1, <2>2, <2>3 DEF RequestOK
  <1>11. scanned <= clock BY <1>2 DEF InitWrites
  <1>12. QED BY <1>1, <1>8, <1>9, <1>10, <1>11 DEF WInv

\* The inductive invariant of the property writes holds for any number of requests,
\* properties, commands and reports, and for any size of the command history.
THEOREM WritesInductive == SpecWrites => []WInv
  BY InitWInv, StepWInv, PTL DEF SpecWrites

\* The device service uses the tracker as the tracker's specification allows: whatever
\* requests, reports and scans do, the tracker takes its own steps only.
THEOREM WritesUseTracker == SpecWrites => Spec
  <1>1. InitWrites => Init BY DEF InitWrites
  <1>2. WInv /\ [NextWrites]_allVars => [Next]_vars BY TrackerStep
  <1>3. QED BY <1>1, <1>2, WritesInductive, PTL DEF SpecWrites, Spec

\* Types are kept, and a write that a newer request has replaced is no longer live while
\* the provider works on it: its cancellation cannot count as a rejection.
THEOREM WritesCorrect == SpecWrites => []WritesInv
  <1>1. WInv => WritesInv
    <2> SUFFICES ASSUME WInv PROVE WritesInv OBVIOUS
    <2>1. ASSUME NEW o \in Op, At(o, "write"), propertyOps[op[o].key] # o PROVE ~Live(op[o].command)
      <3>1. op[o].pc \in Running BY <2>1 DEF At, Running, Begun
      <3>2. QED BY <2>1, <3>1, WInvOp DEF TableOK
    <2>2. QED BY <2>1 DEF WInv, WritesInv, ReplacedIsFinal
  <1>2. QED BY <1>1, WritesInductive, PTL

\* The answer of a request agrees with its command: a success is no rejection, and an
\* error or a superseded answer leaves no running command behind, except where a request
\* that shares a command finds its device no longer registered.
THEOREM AnswersMatch == SpecWrites => []AnswerMatchesCommand
  <1>1. WInv => AnswerMatchesCommand
    <2> SUFFICES ASSUME WInv, NEW o \in Op, At(o, "done"), op[o].command # None
                 PROVE  IF op[o].outcome \in Shared THEN ~Rejected(op[o].command) ELSE ~Live(op[o].command)
      BY DEF AnswerMatchesCommand
    <2>1. op[o].pc \in Answered BY DEF At, Answered
    <2>2. QED BY <2>1, WInvOp DEF CommandOK
  <1>2. QED BY <1>1, WritesInductive, PTL
-----------------------------------------------------------------------------
(* What a step does to a stored value.                                     *)

\* Without a report, only these steps change a value.
LEMMA ValueSteps ==
    ASSUME WInv, [NextWrites]_allVars, UNCHANGED reports
    PROVE  \/ UNCHANGED values
           \/ \E o \in Op : \/ ResolveOld(o) \/ ResolveSuperseded(o)
                            \/ applyOptimisticState(o) \/ rollbackOptimistic(o)
           \/ DeviceOffline
           \/ ScanValues
  <1>1. ASSUME NEW o \in Op, Arrive(o) PROVE UNCHANGED values
    BY <1>1 DEF Arrive, Join, Start, Replace
  <1>2. ASSUME NEW o \in Op, Proceed(o)
        PROVE  \/ UNCHANGED values \/ ResolveOld(o) \/ ResolveSuperseded(o)
               \/ applyOptimisticState(o) \/ rollbackOptimistic(o)
    <2>1. CASE \/ CancelReplaced(o) \/ Acquire(o) \/ AcquireCancelled(o)
               \/ GetPrevious(o) \/ BeginReplayed(o) \/ (\E id \in Id : BeginCommand(o, id))
               \/ Attach(o) \/ Drop(o) \/ Reread(o) \/ Send(o)
      BY <2>1 DEF CancelReplaced, Acquire, AcquireCancelled, GetPrevious, BeginReplayed,
                  BeginCommand, Attach, Drop, Reread, Send
    <2>2. CASE \/ (\E ok \in BOOLEAN : WriteReturns(o, ok))
               \/ LookUp(o, "failed", "reject") \/ rejectPropertyWrite(o)
               \/ LookUp(o, "written", "accept") \/ Accept(o)
               \/ Release(o) \/ FinalAnswer(o) \/ finishPropertyOperation(o) \/ JoinedReturns(o)
      BY <2>2 DEF WriteReturns, LookUp, rejectPropertyWrite, Accept, Release, FinalAnswer,
                  finishPropertyOperation, JoinedReturns
    <2>3. QED BY <1>2, <2>1, <2>2 DEF Proceed
  <1>3. ASSUME NEW o \in Op, CallerGone(o) PROVE UNCHANGED values BY <1>3 DEF CallerGone
  <1>4. ASSUME NEW vs \in [Key -> Value], ApplySnapshot(vs) PROVE FALSE
    BY <1>4, StillTyped DEF ApplySnapshot
  <1>5. ASSUME NEW k \in Key, ConfirmReported(k) PROVE UNCHANGED values
    BY <1>5 DEF ConfirmReported
  <1>6. ScanCommands => UNCHANGED values BY DEF ScanCommands
  <1>7. Pass => UNCHANGED values BY DEF Pass, own
  <1>8. UNCHANGED allVars => UNCHANGED values BY DEF allVars, own
  <1>9. QED BY <1>1, <1>2, <1>3, <1>4, <1>5, <1>6, <1>7, <1>8 DEF NextWrites

\* What they do to a known and current value: it becomes stale, a request that holds the
\* gate stores its optimistic value over it, or its own command's roll back takes it away.
LEMMA ValueChanges ==
    ASSUME WInv, [NextWrites]_allVars, UNCHANGED reports, NEW k \in Key, values'[k] # values[k],
           values[k].value # None, values[k].quality \notin {"stale", "unknown"}
    PROVE  \/ values'[k].quality = "stale"
           \/ \E o \in Op : /\ op[o].pc = "optimistic" /\ op[o].key = k
                            /\ values'[k].quality = "optimistic"
           \/ \E o \in Op : /\ op[o].pc = "rollback" /\ op[o].command \in Id
                            /\ values[k].pending = op[o].command
  <1>1. PICK v \in SV!StateValue : v = values[k] /\ GoodValue(v) BY StillTyped
  <1>2. ASSUME NEW o \in Op, ResolveOld(o) \/ ResolveSuperseded(o)
        PROVE  values'[k].quality = "stale"
    <2>1. op[o].pc \in {"resolveOld", "resolveSuperseded"} /\ values' = resolve(op[o].old, None)
          /\ UNCHANGED vars
      BY <1>2 DEF ResolveOld, ResolveSuperseded, At
    <2>2. PICK c \in Id : c = op[o].old BY <2>1, WInvOp DEF LocalOK, Operation
    <2>3. Quiet({}) BY <2>1, TrackerStays
    <2>4. Ages(commands', {}) /\ used \subseteq used' BY <2>3 DEF Quiet
    <2>5. PICK f : f = None OBVIOUS
    <2>6. values' = resolve(c, f) BY <2>1, <2>2, <2>5
    <2>7. QED BY <2>4, <2>5, <2>6, ValuesResolved
  <1>3. ASSUME NEW o \in Op, applyOptimisticState(o)
        PROVE  /\ op[o].pc = "optimistic" /\ op[o].key = k
               /\ values'[k].quality = "optimistic"
    <2>1. PICK x : x = op[o] OBVIOUS
    <2>2. /\ x.command \in Id
          /\ GoodValue(values'[x.key]) /\ values'[x.key].pending = x.command
          /\ \A j \in Key \ {x.key} : values'[j] = values[j]
      BY <1>3, <2>1, OptimisticStored
    <2>3. x.key = k BY <2>2
    <2>4. x.command # None BY <2>2, NoneAssumption
    <2>5. values'[k].quality = "optimistic" BY <2>2, <2>3, <2>4 DEF GoodValue
    <2>6. QED BY <1>3, <2>1, <2>3, <2>5 DEF applyOptimisticState, At
  <1>4. ASSUME NEW o \in Op, rollbackOptimistic(o)
        PROVE  op[o].pc = "rollback" /\ op[o].command \in Id /\ values[k].pending = op[o].command
    <2>1. PICK x : x = op[o] OBVIOUS
    <2>2. x.pc = "rollback" /\ values' = resolve(x.command, x.previous) /\ UNCHANGED vars
      BY <1>4, <2>1 DEF rollbackOptimistic, At
    <2>3. x.pc \in Begun BY <2>2 DEF Begun
    <2>4. x.command \in Id /\ (x.previous # None => GoodValue(x.previous))
      BY <2>1, <2>3, WInvOp DEF LocalOK, Operation
    <2>5. Quiet({}) BY <2>2, TrackerStays
    <2>6. Ages(commands', {}) /\ used \subseteq used' BY <2>5 DEF Quiet
    <2>7. values[k].pending = x.command BY <2>2, <2>4, <2>6, ValuesResolved
    <2>8. QED BY <2>1, <2>2, <2>4, <2>7
  <1>5. CASE DeviceOffline
    <2>1. PICK w : w = Unversioned(SV!MadeUnavailable(v, "device-offline")) OBVIOUS
    <2>2. values'[k] = w BY <1>1, <1>5, <2>1 DEF DeviceOffline
    <2>3. \/ SameBut(v, w) /\ (v.quality \in {"stale", "unknown"})
          \/ Fades(w, IF v.value = None THEN "unknown" ELSE "stale")
      BY <2>1, MadeUnavailableFades
    <2>4. Fades(w, "stale") BY <1>1, <2>3
    <2>5. QED BY <2>2, <2>4 DEF Fades
  <1>6. CASE ScanValues
    <2>1. values'[k] = IF SV!Expired(v, clock) THEN Unversioned(SV!MarkedStale(v)) ELSE v
      BY <1>1, <1>6 DEF ScanValues
    <2>2. values'[k] = Unversioned(SV!MarkedStale(v)) BY <1>1, <2>1
    <2>3. QED BY <2>2, MarkedStaleFades DEF Fades
  <1>7. QED BY <1>2, <1>3, <1>4, <1>5, <1>6, ValueSteps

\* The optimistic value of an unfinished command becomes stale or is replaced by a
\* report: the request that stores another one has superseded the owner before.
LEMMA OwnedStays ==
    ASSUME WInv, [NextWrites]_allVars, UNCHANGED reports, NEW k \in Key, NEW c \in Id,
           values[k].pending = c, Live(c), values'[k] # values[k]
    PROVE  values'[k].quality = "stale"
  <1>1. c # None BY NoneAssumption
  <1>2. values[k].quality = "optimistic" /\ values[k].value # None
    BY <1>1, StillTyped DEF GoodValue
  <1>3. commands[c] # None /\ commands[c].key = k
    BY <1>1 DEF WInv, ValueOK, Live, Retained
  <1>4. pending[k] = c
    <2>1. k # None BY NoneAssumption
    <2>2. QED BY <1>3, <2>1, StillTyped DEF IInv, PendingExact
  <1>5. ASSUME NEW o \in Op, op[o].pc = "optimistic", op[o].key = k PROVE FALSE
    <2>1. op[o].pc \in Begun /\ op[o].pc \in Early /\ op[o].pc \in Running
      BY <1>5 DEF Begun, Early, Running
    <2>2. ~op[o].replayed BY <2>1, WInvOp DEF LocalOK
    <2>3. pending[k] \in {None, op[o].command} /\ values[k].pending # op[o].command
      BY <1>5, <2>1, <2>2, WInvOp DEF GateOK
    <2>4. QED BY <1>1, <1>4, <2>3
  <1>6. ASSUME NEW o \in Op, op[o].pc = "rollback", values[k].pending = op[o].command PROVE FALSE
    <2>1. op[o].pc \in Answered BY <1>6 DEF Answered
    <2>2. op[o].outcome \notin Shared /\ op[o].command # None BY <1>1, <1>6, WInvOp DEF LocalOK
    <2>3. ~Live(op[o].command) BY <2>1, <2>2, WInvOp DEF CommandOK
    <2>4. QED BY <1>6, <2>3
  <1>7. QED BY <1>2, <1>5, <1>6, ValueChanges

\* A reported value gives way to staleness or to a newer write, never to a roll back.
LEMMA ReportStays ==
    ASSUME WInv, [NextWrites]_allVars, UNCHANGED reports, NEW k \in Key,
           values[k].quality = "reported", values'[k] # values[k]
    PROVE  values'[k].quality \in {"optimistic", "stale"}
  <1>1. values[k].value # None /\ values[k].pending = None BY StillTyped DEF GoodValue
  <1>2. ASSUME NEW o \in Op, op[o].command \in Id, values[k].pending = op[o].command PROVE FALSE
    BY <1>1, <1>2, NoneAssumption
  <1>3. QED BY <1>1, <1>2, ValueChanges

\* No roll back and no other write touches the optimistic value of an unfinished command.
THEOREM OptimisticOwned == SpecWrites => OptimisticIsOwned
  <1>1. WInv /\ [NextWrites]_allVars =>
            [\A k \in Key : \A c \in Id :
                (/\ values[k] # None /\ values[k].pending = c /\ Live(c)
                 /\ values'[k] # values[k] /\ reports' = reports)
                    => values'[k].quality = "stale"]_allVars
    BY OwnedStays
  <1>2. QED BY <1>1, WritesInductive, PTL DEF SpecWrites, OptimisticIsOwned

\* A reported value is never replaced by the fallback of a write that failed.
THEOREM ReportsNotRolledBack == SpecWrites => ReportNotRolledBack
  <1>1. WInv /\ [NextWrites]_allVars =>
            [\A k \in Key :
                (values[k].quality = "reported" /\ values'[k] # values[k] /\ reports' = reports)
                    => values'[k].quality \in {"optimistic", "stale"}]_allVars
    BY ReportStays
  <1>2. QED BY <1>1, WritesInductive, PTL DEF SpecWrites, ReportNotRolledBack
=============================================================================
