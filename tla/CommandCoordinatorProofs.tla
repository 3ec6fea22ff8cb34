---------------------- MODULE CommandCoordinatorProofs ----------------------
(***************************************************************************)
(* For any number of callers, devices and gate objects: one command at a   *)
(* time per device, exact reference counts, and an exact gauge of waiting  *)
(* callers, although gates are deleted and made again while callers enter, *)
(* wait, give up and leave.                                                *)
(***************************************************************************)
EXTENDS CommandCoordinator, FiniteSetTheorems, TLAPS

\* The inductive invariant has three parts.  The map of gates: a gate belongs to one
\* device, and to that of every caller that refers to it, and it counts them.
GatesTyped ==
    /\ gates \in [Device -> Gate \cup {None}]
    /\ refs \in [Gate -> Nat]
    /\ gate \in [Caller -> Gate \cup {None}]
    /\ device \in [Caller -> Device \cup {None}]
    /\ pc \in [Caller -> PC]
OneDevice == \A d, e \in Device : gates[d] # None /\ gates[d] = gates[e] => d = e
MapPart == GatesTyped /\ GatesExact /\ OneDevice

\* The tokens: whoever has taken one has taken the only one of its gate.
TokenPart ==
    /\ token \in [Gate -> BOOLEAN]
    /\ \A c \in Caller : HasToken(c) => ~token[gate[c]]
    /\ \A a, b \in Caller : HasToken(a) /\ HasToken(b) /\ gate[a] = gate[b] => a = b

\* The gauge.
GaugePart ==
    /\ pending \in Nat /\ maxPending \in Nat
    /\ seen \in [Caller -> Nat]
    /\ PendingExact

IInv == MapPart /\ TokenPart /\ GaugePart
-----------------------------------------------------------------------------
\* Counting callers: a set of callers is finite, and one caller more or less changes
\* its size by one.
LEMMA Callers ==
    ASSUME NEW S \in SUBSET Caller
    PROVE  /\ IsFiniteSet(S) /\ Cardinality(S) \in Nat
           /\ \A c \in Caller \ S : Cardinality(S \cup {c}) = Cardinality(S) + 1
           /\ \A c \in S : Cardinality(S \ {c}) = Cardinality(S) - 1 /\ Cardinality(S) > 0
           /\ Cardinality(S) = 0 => S = {}
  <1>1. IsFiniteSet(S) BY CallerAssumption, FS_Subset
  <1>2. Cardinality(S) \in Nat BY <1>1, FS_CardinalityType
  <1>3. \A c \in Caller \ S : Cardinality(S \cup {c}) = Cardinality(S) + 1
    BY <1>1, FS_AddElement
  <1>4. \A c \in S : Cardinality(S \ {c}) = Cardinality(S) - 1 BY <1>1, FS_RemoveElement
  <1>5. Cardinality(S) = 0 => S = {} BY <1>1, FS_EmptySet
  <1>6. ASSUME NEW c \in S PROVE Cardinality(S) > 0
    <2>1. Cardinality(S) # 0 BY <1>5
    <2>2. QED BY <1>2, <2>1
  <1>7. QED BY <1>1, <1>2, <1>3, <1>4, <1>5, <1>6

\* Steps of a caller that has entered and does not leave keep the map of gates.
LEMMA KeepMap ==
    ASSUME MapPart, NEW c \in Caller, NEW label \in PC \ {"idle"}, pc[c] # "idle",
           Goto(c, label), UNCHANGED <<gates, refs, gate, device>>
    PROVE  MapPart'
  <1>1. GatesTyped' BY DEF MapPart, GatesTyped, Goto
  <1>2. \A b \in Caller : pc'[b] # "idle" <=> pc[b] # "idle" BY DEF MapPart, GatesTyped, Goto
  <1>3. GatesExact' BY <1>2 DEF MapPart, GatesExact, Users
  <1>4. OneDevice' BY DEF MapPart, OneDevice
  <1>5. QED BY <1>1, <1>3, <1>4 DEF MapPart

\* Steps that keep all tokens and let nobody have one that did not have it.
LEMMA KeepTokens ==
    ASSUME TokenPart, MapPart, NEW c \in Caller, NEW label \in PC \ {"holding", "woken"},
           Goto(c, label), UNCHANGED token, \A b \in Caller \ {c} : gate'[b] = gate[b]
    PROVE  TokenPart'
  BY DEF TokenPart, MapPart, GatesTyped, HasToken, Goto

\* Taking the token of one's gate.
LEMMA TakeToken ==
    ASSUME TokenPart, MapPart, NEW c \in Caller, NEW label \in {"holding", "woken"},
           Goto(c, label), gate[c] \in Gate, token[gate[c]],
           token' = [token EXCEPT ![gate[c]] = FALSE], UNCHANGED gate
    PROVE  TokenPart'
  BY DEF TokenPart, MapPart, GatesTyped, HasToken, Goto

\* A caller that has entered has a gate.
LEMMA HasGate ==
    ASSUME MapPart, NEW c \in Caller, pc[c] # "idle"
    PROVE  gate[c] \in Gate /\ device[c] \in Device /\ gates[device[c]] = gate[c]
  BY NoneAssumption DEF MapPart, GatesTyped, GatesExact

\* Steps that neither count nor uncount, nor note a maximum.
LEMMA KeepGauge ==
    ASSUME GaugePart, MapPart, NEW c \in Caller, NEW label \in PC, Goto(c, label),
           label \in {"noting", "waiting", "woken", "cancelled"} <=>
               pc[c] \in {"noting", "waiting", "woken", "cancelled"},
           label \in {"waiting", "woken", "cancelled"} => seen[c] <= maxPending,
           UNCHANGED <<pending, maxPending, seen>>
    PROVE  GaugePart'
  <1>1. pc' = [pc EXCEPT ![c] = label] /\ pc \in [Caller -> PC]
    BY DEF Goto, MapPart, GatesTyped
  <1>2. Counted' = Counted BY <1>1 DEF Counted
  <1>3. QED BY <1>1, <1>2 DEF GaugePart, PendingExact
-----------------------------------------------------------------------------
LEMMA EnterGateStep ==
    ASSUME IInv, NEW c \in Caller, NEW d \in Device, NEW g \in Gate, EnterGate(c, d, g)
    PROVE  IInv'
  <1>1. MapPart /\ TokenPart /\ GaugePart BY DEF IInv
  <1>2. gate[c] = None /\ pc[c] = "idle" /\ g # None /\ d # None
    BY <1>1, NoneAssumption DEF MapPart, GatesExact, EnterGate
  <1> DEFINE After(h) == {b \in Caller : gate'[b] = h}
  <1>3. After(g) = Users(g) \cup {c} /\ \A h \in Gate \ {g} : After(h) = Users(h)
    BY <1>1, <1>2, NoneAssumption DEF Users, EnterGate, MapPart, GatesTyped
  <1>4. gates[d] = None => Users(g) = {} /\ \A e \in Device : gates[e] # g
    BY <1>2 DEF EnterGate, Garbage
  <1>5. c \notin Users(g) BY <1>2 DEF Users
  <1>6. refs'[g] = Cardinality(After(g)) /\ refs'[g] \in Nat
    <2>1. Users(g) \in SUBSET Caller BY DEF Users
    <2>2. Cardinality(After(g)) = Cardinality(Users(g)) + 1
      BY <1>3, <1>5, <2>1, Callers
    <2>3. CASE gates[d] = None
      <3>1. Cardinality(Users(g)) = 0 BY <1>4, <2>3, FS_EmptySet
      <3>2. refs'[g] = 1 BY <1>1, <2>3 DEF EnterGate, MapPart, GatesTyped
      <3>3. QED BY <2>2, <3>1, <3>2
    <2>4. CASE gates[d] = g
      <3>1. refs[g] = Cardinality(Users(g)) /\ refs[g] \in Nat
        BY <1>1, <1>2, <2>4 DEF MapPart, GatesExact, GatesTyped
      <3>2. refs'[g] = refs[g] + 1 BY <1>1, <1>2, <2>4 DEF EnterGate, MapPart, GatesTyped
      <3>3. QED BY <2>2, <3>1, <3>2
    <2>5. QED BY <2>3, <2>4 DEF EnterGate
  <1>7. GatesTyped'
    <2>1. refs' = [refs EXCEPT ![g] = refs'[g]] BY <1>1 DEF EnterGate, MapPart, GatesTyped
    <2>2. refs' \in [Gate -> Nat] BY <1>1, <1>6, <2>1 DEF MapPart, GatesTyped
    <2>3. QED BY <1>1, <2>2 DEF EnterGate, Goto, MapPart, GatesTyped, PC
  <1>8. GatesExact'
    <2>1. gates' = [gates EXCEPT ![d] = g] /\ gate' = [gate EXCEPT ![c] = g]
          /\ device' = [device EXCEPT ![c] = d] /\ pc' = [pc EXCEPT ![c] = "trying"]
      BY DEF EnterGate, Goto
    <2>2. \A b \in Caller : pc'[b] # "idle" <=> gate'[b] # None
      BY <1>1, <1>2, <2>1 DEF MapPart, GatesExact, GatesTyped
    <2>3. \A b \in Caller : gate'[b] # None =>
              device'[b] # None /\ gates'[device'[b]] = gate'[b]
      <3>1. TAKE b \in Caller
      <3>2. CASE b = c BY <1>1, <1>2, <2>1, <3>2 DEF MapPart, GatesTyped
      <3>3. CASE b # c
        <4>1. gate'[b] = gate[b] /\ device'[b] = device[b]
          BY <1>1, <2>1, <3>3 DEF MapPart, GatesTyped
        <4>2. gates[d] \in {g, None} BY DEF EnterGate
        <4>3. QED
          BY <1>1, <2>1, <4>1, <4>2 DEF MapPart, GatesTyped, GatesExact
      <3>4. QED BY <3>2, <3>3
    <2>4. ASSUME NEW e \in Device, gates'[e] # None
          PROVE  After(gates'[e]) # {} /\ refs'[gates'[e]] = Cardinality(After(gates'[e]))
      <3>1. CASE gates'[e] = g
        <4>1. After(g) # {} BY <1>3
        <4>2. QED BY <1>6, <3>1, <4>1
      <3>2. CASE gates'[e] # g
        <4>1. e # d /\ gates'[e] = gates[e] /\ gates[e] \in Gate \ {g}
          BY <1>1, <2>1, <2>4, <3>2 DEF MapPart, GatesTyped
        <4>2. refs'[gates[e]] = refs[gates[e]]
          BY <1>1, <4>1 DEF EnterGate, MapPart, GatesTyped
        <4>3. After(gates[e]) = Users(gates[e]) BY <1>3, <4>1
        <4>4. Users(gates[e]) # {} /\ refs[gates[e]] = Cardinality(Users(gates[e]))
          BY <1>1, <2>4, <4>1 DEF MapPart, GatesExact
        <4>5. QED BY <4>1, <4>2, <4>3, <4>4
      <3>3. QED BY <3>1, <3>2
    <2>5. QED BY <2>2, <2>3, <2>4 DEF GatesExact, Users
  <1>9. OneDevice'
    BY <1>1, <1>4 DEF OneDevice, EnterGate, MapPart, GatesTyped
  <1>10. TokenPart'
    <2>1. \A b \in Caller : HasToken(b)' => b # c /\ HasToken(b) /\ gate'[b] = gate[b]
      BY <1>1 DEF HasToken, EnterGate, Goto, MapPart, GatesTyped
    <2>2. \A b \in Caller : HasToken(b) /\ gate[b] = g => gates[d] # None
      BY <1>4 DEF Users
    <2>3. token' \in [Gate -> BOOLEAN] BY <1>1 DEF TokenPart, EnterGate
    <2>4. \A b \in Caller : HasToken(b)' => ~token'[gate'[b]]
      <3>1. SUFFICES ASSUME NEW b \in Caller, HasToken(b)' PROVE ~token'[gate'[b]] OBVIOUS
      <3>2. gate'[b] = gate[b] /\ ~token[gate[b]] BY <1>1, <2>1, <3>1 DEF TokenPart
      <3>3. gate[b] \in Gate BY <1>1, <2>1, <3>1, HasGate DEF HasToken
      <3>4. QED BY <1>1, <2>1, <2>2, <3>1, <3>2, <3>3 DEF EnterGate, TokenPart
    <2>5. QED BY <1>1, <2>1, <2>3, <2>4 DEF TokenPart
  <1>11. GaugePart'
    <2>1. Goto(c, "trying") /\ "trying" \in PC BY DEF EnterGate, PC
    <2>2. UNCHANGED <<pending, maxPending, seen>> BY DEF EnterGate
    <2>3. QED BY <1>1, <1>2, <2>1, <2>2, KeepGauge
  <1>12. QED BY <1>7, <1>8, <1>9, <1>10, <1>11 DEF IInv, MapPart

\* Steps that take the gate's token, in either select.
LEMMA TryTokenStep ==
    ASSUME IInv, NEW c \in Caller, TryToken(c)
    PROVE  IInv'
  <1>1. MapPart /\ TokenPart /\ GaugePart BY DEF IInv
  <1>2. pc[c] = "trying" /\ Goto(c, "holding") /\ "holding" \in PC \ {"idle"}
    BY DEF TryToken, PC
  <1>3. UNCHANGED <<gates, refs, pending, maxPending, gate, device, seen>> BY DEF TryToken
  <1>4. MapPart' BY <1>1, <1>2, <1>3, KeepMap
  <1>5. gate[c] \in Gate BY <1>1, <1>2, HasGate
  <1>6. token[gate[c]] /\ token' = [token EXCEPT ![gate[c]] = FALSE] BY DEF TryToken
  <1>7. TokenPart' BY <1>1, <1>2, <1>3, <1>5, <1>6, TakeToken
  <1>8. GaugePart' BY <1>1, <1>2, <1>3, KeepGauge
  <1>9. QED BY <1>4, <1>7, <1>8 DEF IInv

LEMMA WaitTokenStep ==
    ASSUME IInv, NEW c \in Caller, WaitToken(c)
    PROVE  IInv'
  <1>1. MapPart /\ TokenPart /\ GaugePart BY DEF IInv
  <1>2. pc[c] = "waiting" /\ Goto(c, "woken") /\ "woken" \in PC \ {"idle"}
    BY DEF WaitToken, PC
  <1>3. UNCHANGED <<gates, refs, pending, maxPending, gate, device, seen>> BY DEF WaitToken
  <1>4. MapPart' BY <1>1, <1>2, <1>3, KeepMap
  <1>5. gate[c] \in Gate BY <1>1, <1>2, HasGate
  <1>6. token[gate[c]] /\ token' = [token EXCEPT ![gate[c]] = FALSE] BY DEF WaitToken
  <1>7. TokenPart' BY <1>1, <1>2, <1>3, <1>5, <1>6, TakeToken
  <1>8. seen[c] <= maxPending BY <1>1, <1>2 DEF GaugePart, PendingExact
  <1>9. GaugePart' BY <1>1, <1>2, <1>3, <1>8, KeepGauge
  <1>10. QED BY <1>4, <1>7, <1>9 DEF IInv

\* Counting oneself as pending: one caller more is counted, and the maximum is not
\* yet claimed to be above what it saw.
LEMMA CountPendingStep ==
    ASSUME IInv, NEW c \in Caller, CountPending(c)
    PROVE  IInv'
  <1>1. MapPart /\ TokenPart /\ GaugePart BY DEF IInv
  <1>2. pc[c] = "trying" /\ Goto(c, "noting") /\ "noting" \in PC \ {"idle", "holding", "woken"}
    BY DEF CountPending, PC
  <1>3. UNCHANGED <<gates, token, refs, maxPending, gate, device>> BY DEF CountPending
  <1>4. MapPart' BY <1>1, <1>2, <1>3, KeepMap
  <1>5. TokenPart' BY <1>1, <1>2, <1>3, KeepTokens
  <1>6. pc' = [pc EXCEPT ![c] = "noting"] /\ pc \in [Caller -> PC]
    BY <1>1, <1>2 DEF Goto, MapPart, GatesTyped
  <1>7. Counted' = Counted \cup {c} /\ c \notin Counted BY <1>2, <1>6 DEF Counted
  <1>8. Counted \in SUBSET Caller BY DEF Counted
  <1>9. Cardinality(Counted') = Cardinality(Counted) + 1 BY <1>7, <1>8, Callers
  <1>10. pending' = pending + 1 /\ seen' = [seen EXCEPT ![c] = pending + 1]
    BY DEF CountPending
  <1>11. \A b \in Caller : pc'[b] \in {"waiting", "woken", "cancelled"} => seen'[b] <= maxPending'
    BY <1>1, <1>3, <1>6, <1>10 DEF GaugePart, PendingExact
  <1>12. GaugePart'
    BY <1>1, <1>3, <1>9, <1>10, <1>11 DEF GaugePart, PendingExact
  <1>13. QED BY <1>4, <1>5, <1>12 DEF IInv

LEMMA NoteMaximumStep ==
    ASSUME IInv, NEW c \in Caller, NoteMaximum(c)
    PROVE  IInv'
  <1>1. MapPart /\ TokenPart /\ GaugePart BY DEF IInv
  <1>2. pc[c] = "noting" /\ Goto(c, "waiting") /\ "waiting" \in PC \ {"idle", "holding", "woken"}
    BY DEF NoteMaximum, PC
  <1>3. UNCHANGED <<gates, token, refs, pending, gate, device, seen>> BY DEF NoteMaximum
  <1>4. MapPart' BY <1>1, <1>2, <1>3, KeepMap
  <1>5. TokenPart' BY <1>1, <1>2, <1>3, KeepTokens
  <1>6. pc' = [pc EXCEPT ![c] = "waiting"] /\ pc \in [Caller -> PC]
    BY <1>1, <1>2 DEF Goto, MapPart, GatesTyped
  <1>7. Counted' = Counted BY <1>2, <1>6 DEF Counted
  <1>8. maxPending' \in Nat /\ maxPending' >= maxPending /\ maxPending' >= seen[c]
    BY <1>1 DEF NoteMaximum, GaugePart
  <1>9. \A b \in Caller : pc'[b] \in {"waiting", "woken", "cancelled"} => seen'[b] <= maxPending'
    BY <1>1, <1>3, <1>6, <1>8 DEF GaugePart, PendingExact
  <1>10. GaugePart' BY <1>1, <1>3, <1>7, <1>8, <1>9 DEF GaugePart, PendingExact
  <1>11. QED BY <1>4, <1>5, <1>10 DEF IInv

LEMMA CancelStep ==
    ASSUME IInv, NEW c \in Caller, Cancel(c)
    PROVE  IInv'
  <1>1. MapPart /\ TokenPart /\ GaugePart BY DEF IInv
  <1>2. pc[c] = "waiting" /\ Goto(c, "cancelled")
        /\ "cancelled" \in PC \ {"idle", "holding", "woken"}
    BY DEF Cancel, PC
  <1>3. UNCHANGED <<gates, token, refs, pending, maxPending, gate, device, seen>> BY DEF Cancel
  <1>4. MapPart' BY <1>1, <1>2, <1>3, KeepMap
  <1>5. TokenPart' BY <1>1, <1>2, <1>3, KeepTokens
  <1>6. seen[c] <= maxPending BY <1>1, <1>2 DEF GaugePart, PendingExact
  <1>7. GaugePart' BY <1>1, <1>2, <1>3, <1>6, KeepGauge
  <1>8. QED BY <1>4, <1>5, <1>7 DEF IInv

\* A caller stops being pending: it keeps the token if it was woken by it.
LEMMA UncountStep ==
    ASSUME IInv, NEW c \in Caller, Uncount(c)
    PROVE  IInv'
  <1> DEFINE label == IF pc[c] = "woken" THEN "holding" ELSE "leaving"
  <1>1. MapPart /\ TokenPart /\ GaugePart BY DEF IInv
  <1>2. pc[c] \in {"woken", "cancelled"} /\ Goto(c, label) /\ label \in PC \ {"idle"}
    BY DEF Uncount, PC
  <1>3. UNCHANGED <<gates, token, refs, maxPending, gate, device, seen>> BY DEF Uncount
  <1>4. pc' = [pc EXCEPT ![c] = label] /\ pc \in [Caller -> PC]
    BY <1>1, <1>2 DEF Goto, MapPart, GatesTyped
  <1>5. label \in {"holding", "leaving"} /\ (label = "holding" <=> pc[c] = "woken") OBVIOUS
  <1> HIDE DEF label
  <1>6. MapPart' BY <1>1, <1>2, <1>3, KeepMap
  <1>7. \A b \in Caller : HasToken(b)' <=> HasToken(b)
    BY <1>2, <1>4, <1>5 DEF HasToken
  <1>8. TokenPart' BY <1>1, <1>3, <1>7 DEF TokenPart
  <1>9. Counted' = Counted \ {c} /\ c \in Counted
    BY <1>2, <1>4, <1>5 DEF Counted
  <1>10. Counted \in SUBSET Caller BY DEF Counted
  <1>11. Cardinality(Counted') = Cardinality(Counted) - 1 /\ Cardinality(Counted) > 0
    BY <1>9, <1>10, Callers
  <1>12. pending' = pending - 1 BY DEF Uncount
  <1>13. \A b \in Caller : pc'[b] \in {"waiting", "woken", "cancelled"} => seen'[b] <= maxPending'
    BY <1>1, <1>3, <1>4, <1>5 DEF GaugePart, PendingExact
  <1>14. GaugePart'
    BY <1>1, <1>3, <1>11, <1>12, <1>13 DEF GaugePart, PendingExact
  <1>15. QED BY <1>6, <1>8, <1>14 DEF IInv

\* Putting the token back: nobody else had it, so nobody has it afterwards.
LEMMA PutTokenStep ==
    ASSUME IInv, NEW c \in Caller, PutToken(c)
    PROVE  IInv'
  <1>1. MapPart /\ TokenPart /\ GaugePart BY DEF IInv
  <1>2. pc[c] = "holding" /\ Goto(c, "leaving") /\ "leaving" \in PC \ {"idle"}
    BY DEF PutToken, PC
  <1>3. UNCHANGED <<gates, refs, pending, maxPending, gate, device, seen>> BY DEF PutToken
  <1>4. MapPart' BY <1>1, <1>2, <1>3, KeepMap
  <1>5. \A b \in Caller : HasToken(b)' => b # c /\ HasToken(b) /\ gate[b] # gate[c]
    BY <1>1, <1>2 DEF HasToken, Goto, MapPart, GatesTyped, TokenPart
  <1>6. token' = [token EXCEPT ![gate[c]] = TRUE] BY DEF PutToken
  <1>7. TokenPart'
    <2>1. \A b \in Caller : HasToken(b)' => ~token'[gate'[b]]
      <3>1. SUFFICES ASSUME NEW b \in Caller, HasToken(b)' PROVE ~token'[gate'[b]] OBVIOUS
      <3>2. gate'[b] = gate[b] /\ ~token[gate[b]] /\ gate[b] # gate[c]
        BY <1>1, <1>3, <1>5, <3>1 DEF TokenPart
      <3>3. gate[b] \in Gate BY <1>1, <1>5, <3>1, HasGate DEF HasToken
      <3>4. QED BY <1>1, <1>6, <3>2, <3>3 DEF TokenPart
    <2>2. token' \in [Gate -> BOOLEAN] BY <1>1, <1>6 DEF TokenPart
    <2>3. QED BY <1>1, <1>3, <1>5, <2>1, <2>2 DEF TokenPart
  <1>8. GaugePart' BY <1>1, <1>2, <1>3, KeepGauge
  <1>9. QED BY <1>4, <1>7, <1>8 DEF IInv

\* The last caller that leaves deletes the gate, and only the last.
LEMMA ReleaseStep ==
    ASSUME IInv, NEW c \in Caller, releaseReference(c)
    PROVE  IInv'
  <1> DEFINE g == gate[c]
             d == device[c]
             After(h) == {b \in Caller : gate'[b] = h}
  <1>1. MapPart /\ TokenPart /\ GaugePart BY DEF IInv
  <1>2. pc[c] = "leaving" /\ Goto(c, "idle") /\ "idle" \in PC \ {"holding", "woken"}
    BY DEF releaseReference, PC
  <1>3. g \in Gate /\ d \in Device /\ gates[d] = g BY <1>1, <1>2, HasGate
  <1>4. /\ refs' = [refs EXCEPT ![g] = refs[g] - 1]
        /\ gates' = IF refs'[g] = 0 /\ gates[d] = g THEN [gates EXCEPT ![d] = None] ELSE gates
        /\ gate' = [gate EXCEPT ![c] = None]
        /\ device' = [device EXCEPT ![c] = None]
        /\ pc' = [pc EXCEPT ![c] = "idle"]
        /\ UNCHANGED <<token, pending, maxPending, seen>>
    BY DEF releaseReference, Goto
  <1>5. After(g) = Users(g) \ {c} /\ c \in Users(g)
        /\ \A h \in Gate \ {g} : After(h) = Users(h)
    BY <1>1, <1>3, <1>4, NoneAssumption DEF Users, MapPart, GatesTyped
  <1>6. g # None BY <1>3, NoneAssumption
  <1> HIDE DEF g, d
  <1>7. refs[g] = Cardinality(Users(g)) /\ refs[g] \in Nat
    BY <1>1, <1>3, <1>6 DEF MapPart, GatesExact, GatesTyped
  <1>8. refs'[g] = Cardinality(After(g)) /\ refs'[g] \in Nat /\ (refs'[g] = 0 <=> After(g) = {})
    <2>1. Users(g) \in SUBSET Caller /\ After(g) \in SUBSET Caller BY DEF Users
    <2>2. Cardinality(After(g)) = Cardinality(Users(g)) - 1 BY <1>5, <2>1, Callers
    <2>3. Cardinality(After(g)) \in Nat /\ (Cardinality(After(g)) = 0 => After(g) = {})
      BY <2>1, Callers
    <2>4. refs'[g] = refs[g] - 1 BY <1>1, <1>3, <1>4 DEF MapPart, GatesTyped
    <2>5. Cardinality({}) = 0 BY FS_EmptySet
    <2> HIDE DEF After
    <2>6. QED BY <1>7, <2>2, <2>3, <2>4, <2>5
  <1>9. GatesTyped'
    <2>1. refs' = [refs EXCEPT ![g] = refs'[g]] BY <1>1, <1>3, <1>4 DEF MapPart, GatesTyped
    <2>2. refs' \in [Gate -> Nat] BY <1>1, <1>8, <2>1 DEF MapPart, GatesTyped
    <2>3. QED BY <1>1, <1>2, <1>4, <2>2 DEF MapPart, GatesTyped
  <1>10. \A e \in Device : gates'[e] = IF e = d /\ After(g) = {} THEN None ELSE gates[e]
    BY <1>1, <1>3, <1>4, <1>8 DEF MapPart, GatesTyped
  <1>11. \A b \in Caller \ {c} : gate'[b] = gate[b] /\ device'[b] = device[b] /\ pc'[b] = pc[b]
    BY <1>1, <1>4 DEF MapPart, GatesTyped
  <1>12. gate'[c] = None /\ pc'[c] = "idle" BY <1>1, <1>4 DEF MapPart, GatesTyped
  <1>13. GatesExact'
    <2>1. \A b \in Caller : pc'[b] # "idle" <=> gate'[b] # None
      BY <1>1, <1>11, <1>12 DEF MapPart, GatesExact
    <2>2. ASSUME NEW b \in Caller, gate'[b] # None
          PROVE  device'[b] # None /\ gates'[device'[b]] = gate'[b]
      <3>1. b # c BY <1>12, <2>2
      <3>2. gate'[b] = gate[b] /\ device'[b] = device[b] BY <1>11, <3>1
      <3>3. device[b] \in Device /\ gates[device[b]] = gate[b]
        BY <1>1, <2>2, <3>2 DEF MapPart, GatesTyped, GatesExact
      <3>4. device[b] = d => b \in After(g) BY <1>3, <3>2, <3>3
      <3>5. device[b] # None BY <3>3, NoneAssumption
      <3> HIDE DEF After
      <3>6. gates'[device[b]] = gates[device[b]] BY <1>10, <3>3, <3>4
      <3>7. QED BY <3>2, <3>3, <3>5, <3>6
    <2>3. ASSUME NEW e \in Device, gates'[e] # None
          PROVE  After(gates'[e]) # {} /\ refs'[gates'[e]] = Cardinality(After(gates'[e]))
      <3>1. gates'[e] = gates[e] /\ gates[e] \in Gate
        BY <1>1, <1>10, <2>3 DEF MapPart, GatesTyped
      <3>2. CASE gates[e] = g
        <4>1. e = d BY <1>1, <1>3, <1>6, <3>2 DEF MapPart, OneDevice
        <4>2. After(g) # {} BY <1>10, <2>3, <4>1
        <4>3. QED BY <1>8, <3>1, <3>2, <4>2
      <3>3. CASE gates[e] # g
        <4>1. refs'[gates[e]] = refs[gates[e]]
          BY <1>1, <1>4, <3>1, <3>3 DEF MapPart, GatesTyped
        <4>2. After(gates[e]) = Users(gates[e]) BY <1>5, <3>1, <3>3
        <4>3. Users(gates[e]) # {} /\ refs[gates[e]] = Cardinality(Users(gates[e]))
          BY <1>1, <2>3, <3>1 DEF MapPart, GatesExact
        <4>4. QED BY <3>1, <4>1, <4>2, <4>3
      <3>4. QED BY <3>2, <3>3
    <2>4. QED BY <2>1, <2>2, <2>3 DEF GatesExact, Users
  <1>14. OneDevice' BY <1>1, <1>10 DEF MapPart, OneDevice
  <1>15. TokenPart' BY <1>1, <1>2, <1>4, <1>11, KeepTokens
  <1>16. GaugePart' BY <1>1, <1>2, <1>4, KeepGauge
  <1>17. QED BY <1>9, <1>13, <1>14, <1>15, <1>16 DEF IInv, MapPart
-----------------------------------------------------------------------------
LEMMA InitInv == Init => IInv
  <1> SUFFICES ASSUME Init PROVE IInv OBVIOUS
  <1>1. MapPart BY DEF Init, MapPart, GatesTyped, GatesExact, OneDevice, PC
  <1>2. TokenPart BY DEF Init, TokenPart, HasToken
  <1>3. Counted = {} BY DEF Init, Counted
  <1>4. Cardinality({}) = 0 BY FS_EmptySet
  <1>5. GaugePart BY <1>3, <1>4 DEF Init, GaugePart, PendingExact
  <1>6. QED BY <1>1, <1>2, <1>5 DEF IInv

\* The invariant is inductive: every step of every caller of acquire, of the release
\* function and of releaseReference keeps it.
THEOREM InductiveInvariant == Spec => []IInv
  <1>1. IInv /\ [Next]_vars => IInv'
    <2> SUFFICES ASSUME IInv, [Next]_vars PROVE IInv' OBVIOUS
    <2>1. CASE UNCHANGED vars
      <3>1. MapPart'
        BY <2>1 DEF vars, IInv, MapPart, GatesTyped, GatesExact, OneDevice, Users
      <3>2. TokenPart' BY <2>1 DEF vars, IInv, TokenPart, HasToken
      <3>3. GaugePart' BY <2>1 DEF vars, IInv, GaugePart, PendingExact, Counted
      <3>4. QED BY <3>1, <3>2, <3>3 DEF IInv
    <2>2. ASSUME NEW c \in Caller, NEW d \in Device, NEW g \in Gate, EnterGate(c, d, g)
          PROVE  IInv'
      BY <2>2, EnterGateStep
    <2>3. ASSUME NEW c \in Caller, Cancel(c) PROVE IInv' BY <2>3, CancelStep
    <2>4. ASSUME NEW c \in Caller, Proceed(c) PROVE IInv'
      BY <2>4, TryTokenStep, CountPendingStep, NoteMaximumStep, WaitTokenStep, UncountStep,
         PutTokenStep, ReleaseStep DEF Proceed
    <2>5. QED BY <2>1, <2>2, <2>3, <2>4 DEF Next
  <1>2. QED BY <1>1, InitInv, PTL DEF Spec

\* The map of gates, the reference counts and the gauge of command_coordinator.go are
\* exact, for any number of callers, devices and gates: no gate is deleted under a
\* caller, none is left behind, and every waiting caller is counted once.
THEOREM GatesAreExact == Spec => []GateInv
  <1>1. IInv => GateInv
    BY DEF IInv, MapPart, TokenPart, GaugePart, GatesTyped, GateInv, TypeOK
  <1>2. QED BY <1>1, InductiveInvariant, PTL

\* acquire gives a device to one caller at a time, although its gate may have been
\* deleted and made again since the caller looked it up.
THEOREM OneCommandPerDevice == Spec => []MutualExclusion
  <1>1. ASSUME IInv, NEW a \in Caller, NEW b \in Caller, HasToken(a), HasToken(b),
               device[a] = device[b]
        PROVE  a = b
    <2>1. gates[device[a]] = gate[a] /\ gates[device[b]] = gate[b]
      BY <1>1, HasGate DEF IInv, HasToken
    <2>2. QED BY <1>1, <2>1 DEF IInv, TokenPart
  <1>2. IInv => MutualExclusion BY <1>1 DEF MutualExclusion
  <1>3. QED BY <1>2, InductiveInvariant, PTL
=============================================================================
