------------------------- MODULE CommandCoordinator -------------------------
(***************************************************************************)
(* The per-device command gates of backend/internal/application/           *)
(* command_coordinator.go.  A caller looks its gate up, or creates it,     *)
(* under the coordinator's mutex and counts itself in; it then takes the   *)
(* gate's token without blocking, or waits for the token or for the end of *)
(* its context.  The last caller that leaves deletes the gate.             *)
(*                                                                         *)
(* A gate object is an element of Gate; one that nobody refers to any more *)
(* is garbage and may be allocated again.  The channel of a gate holds one *)
(* token or none.                                                          *)
(***************************************************************************)
EXTENDS Integers, FiniteSets

CONSTANTS Caller,   \* goroutines that execute commands
          Device,   \* devices
          Gate,     \* gate objects
          None      \* no gate, no device

ASSUME NoneAssumption == None \notin Gate \cup Device
ASSUME CallerAssumption == IsFiniteSet(Caller)

VARIABLES gates,       \* gates: the gate of each device
          token,       \* whether the channel of each gate holds its token
          refs,        \* refs of each gate
          pending,     \* pending
          maxPending,  \* maxPending
          pc,          \* where each caller is
          gate,        \* the gate it refers to
          device,      \* the device it wants
          seen         \* the value its pending.Add(1) returned

vars == <<gates, token, refs, pending, maxPending, pc, gate, device, seen>>

PC == {"idle", "trying", "noting", "waiting", "woken", "holding", "cancelled", "leaving"}

TypeOK ==
    /\ gates \in [Device -> Gate \cup {None}]
    /\ token \in [Gate -> BOOLEAN]
    /\ refs \in [Gate -> Nat]
    /\ pending \in Nat
    /\ maxPending \in Nat
    /\ pc \in [Caller -> PC]
    /\ gate \in [Caller -> Gate \cup {None}]
    /\ device \in [Caller -> Device \cup {None}]
    /\ seen \in [Caller -> Nat]

\* The callers that refer to gate g, and those that have taken its token.
Users(g) == {c \in Caller : gate[c] = g}
HasToken(c) == pc[c] \in {"woken", "holding"}

\* The callers counted by pending.
Counted == {c \in Caller : pc[c] \in {"noting", "waiting", "woken", "cancelled"}}

Garbage(g) == Users(g) = {} /\ \A d \in Device : gates[d] # g
-----------------------------------------------------------------------------
Init ==
    /\ gates = [d \in Device |-> None]
    /\ token = [g \in Gate |-> TRUE]
    /\ refs = [g \in Gate |-> 0]
    /\ pending = 0
    /\ maxPending = 0
    /\ pc = [c \in Caller |-> "idle"]
    /\ gate = [c \in Caller |-> None]
    /\ device = [c \in Caller |-> None]
    /\ seen = [c \in Caller |-> 0]

Goto(c, label) == pc[c] # label /\ pc' = [pc EXCEPT ![c] = label]

\* acquire up to the unlock: the gate is found or made and counted.
EnterGate(c, d, g) ==
    /\ pc[c] = "idle"
    /\ gates[d] = g \/ (gates[d] = None /\ Garbage(g))
    /\ gates' = [gates EXCEPT ![d] = g]
    /\ token' = [token EXCEPT ![g] = IF gates[d] = None THEN TRUE ELSE @]
    /\ refs' = [refs EXCEPT ![g] = IF gates[d] = None THEN 1 ELSE @ + 1]
    /\ gate' = [gate EXCEPT ![c] = g]
    /\ device' = [device EXCEPT ![c] = d]
    /\ Goto(c, "trying")
    /\ UNCHANGED <<pending, maxPending, seen>>

\* The first select: the token is there ...
TryToken(c) ==
    /\ pc[c] = "trying" /\ token[gate[c]]
    /\ token' = [token EXCEPT ![gate[c]] = FALSE]
    /\ Goto(c, "holding")
    /\ UNCHANGED <<gates, refs, pending, maxPending, gate, device, seen>>

\* ... or not, and the caller counts itself as pending.
CountPending(c) ==
    /\ pc[c] = "trying" /\ ~token[gate[c]]
    /\ pending' = pending + 1
    /\ seen' = [seen EXCEPT ![c] = pending + 1]
    /\ Goto(c, "noting")
    /\ UNCHANGED <<gates, token, refs, maxPending, gate, device>>

\* The compare-and-swap loop that raises the maximum.
NoteMaximum(c) ==
    /\ pc[c] = "noting"
    /\ maxPending' = IF seen[c] > maxPending THEN seen[c] ELSE maxPending
    /\ Goto(c, "waiting")
    /\ UNCHANGED <<gates, token, refs, pending, gate, device, seen>>

\* The second select receives the token ...
WaitToken(c) ==
    /\ pc[c] = "waiting" /\ token[gate[c]]
    /\ token' = [token EXCEPT ![gate[c]] = FALSE]
    /\ Goto(c, "woken")
    /\ UNCHANGED <<gates, refs, pending, maxPending, gate, device, seen>>

\* ... or sees the end of the caller's context.
Cancel(c) ==
    /\ pc[c] = "waiting"
    /\ Goto(c, "cancelled")
    /\ UNCHANGED <<gates, token, refs, pending, maxPending, gate, device, seen>>

\* Either way the caller is no longer pending.
Uncount(c) ==
    /\ pc[c] \in {"woken", "cancelled"}
    /\ pending' = pending - 1
    /\ Goto(c, IF pc[c] = "woken" THEN "holding" ELSE "leaving")
    /\ UNCHANGED <<gates, token, refs, maxPending, gate, device, seen>>

\* Mutant: the reference is given back without the token.
PutTokenLost(c) ==
    /\ pc[c] = "holding"
    /\ Goto(c, "leaving")
    /\ UNCHANGED <<gates, token, refs, pending, maxPending, gate, device, seen>>

\* The release function puts the token back; the channel has room for one.
PutToken(c) ==
    /\ pc[c] = "holding" /\ ~token[gate[c]]
    /\ token' = [token EXCEPT ![gate[c]] = TRUE]
    /\ Goto(c, "leaving")
    /\ UNCHANGED <<gates, refs, pending, maxPending, gate, device, seen>>

\* Mutant: the first caller that leaves deletes the gate.
releaseReferenceAlways(c) ==
    /\ pc[c] = "leaving"
    /\ refs' = [refs EXCEPT ![gate[c]] = @ - 1]
    /\ gates' = [gates EXCEPT ![device[c]] = IF @ = gate[c] THEN None ELSE @]
    /\ gate' = [gate EXCEPT ![c] = None]
    /\ device' = [device EXCEPT ![c] = None]
    /\ Goto(c, "idle")
    /\ UNCHANGED <<token, pending, maxPending, seen>>

\* Mutant: the gate of a device is never deleted.
releaseReferenceLeaks(c) ==
    /\ pc[c] = "leaving"
    /\ refs' = [refs EXCEPT ![gate[c]] = @ - 1]
    /\ gate' = [gate EXCEPT ![c] = None]
    /\ device' = [device EXCEPT ![c] = None]
    /\ Goto(c, "idle")
    /\ UNCHANGED <<gates, token, pending, maxPending, seen>>

\* releaseReference, under the mutex.
releaseReference(c) ==
    /\ pc[c] = "leaving"
    /\ refs' = [refs EXCEPT ![gate[c]] = @ - 1]
    /\ gates' = IF refs'[gate[c]] = 0 /\ gates[device[c]] = gate[c]
                THEN [gates EXCEPT ![device[c]] = None] ELSE gates
    /\ gate' = [gate EXCEPT ![c] = None]
    /\ device' = [device EXCEPT ![c] = None]
    /\ Goto(c, "idle")
    /\ UNCHANGED <<token, pending, maxPending, seen>>

\* A caller's own steps, once it has entered.
Proceed(c) ==
    \/ TryToken(c) \/ CountPending(c) \/ NoteMaximum(c) \/ WaitToken(c)
    \/ Uncount(c) \/ PutToken(c) \/ releaseReference(c)

Next ==
    \E c \in Caller :
        \/ \E d \in Device, g \in Gate : EnterGate(c, d, g)
        \/ Cancel(c)
        \/ Proceed(c)

Spec == Init /\ [][Next]_vars

\* A caller that can take a step takes one: a holder finishes its command.
FairSpec == Spec /\ \A c \in Caller : WF_vars(Proceed(c))
-----------------------------------------------------------------------------
\* At most one caller executes a command on a device, although gates are deleted
\* and created again while callers come and go.
MutualExclusion ==
    \A a, b \in Caller : HasToken(a) /\ HasToken(b) /\ device[a] = device[b] => a = b

\* A gate counts its callers, and it is the gate of their device as long as there
\* is one: it is never deleted under a waiting caller, and never left behind.
GatesExact ==
    /\ \A c \in Caller : pc[c] # "idle" <=> gate[c] # None
    /\ \A c \in Caller : gate[c] # None => device[c] # None /\ gates[device[c]] = gate[c]
    /\ \A d \in Device : gates[d] # None =>
           /\ Users(gates[d]) # {}
           /\ refs[gates[d]] = Cardinality(Users(gates[d]))

\* The gauge counts the waiting callers, and its maximum has not missed any value
\* that is not still being noted.
PendingExact ==
    /\ pending = Cardinality(Counted)
    /\ \A c \in Caller : pc[c] \in {"waiting", "woken", "cancelled"} => seen[c] <= maxPending

\* The coordinator's bookkeeping is exact while callers enter, wait, give up and leave:
\* the map of gates, their reference counts and the gauge of waiting callers.
GateInv == TypeOK /\ GatesExact /\ PendingExact

\* No token is lost: when callers wait for a device, one of them gets its turn, or
\* they give up.
WaitersServed ==
    \A d \in Device :
        (\E c \in Caller : device[c] = d /\ pc[c] = "waiting")
            ~> \/ \E c \in Caller : device[c] = d /\ HasToken(c)
               \/ \A c \in Caller : device[c] = d => pc[c] # "waiting"
=============================================================================
