--------------------------- MODULE CommandTracker ---------------------------
(***************************************************************************)
(* The command tracker of backend/internal/command/tracker.go: one record  *)
(* per property write or action, the index of the pending write of each    *)
(* property, the idempotency index of actions and the bounded history.     *)
(*                                                                         *)
(* Every operation of the Go type holds the tracker's mutex for its whole  *)
(* state change, so it is one action.  The wall clock is read BEFORE the   *)
(* mutex is taken (lines 73, 162, 277, 285), so an operation carries a     *)
(* time `at` that may lie behind the clock and behind the times of         *)
(* operations that overtook it.                                            *)
(*                                                                         *)
(* Left out: Outcome (a function of the status), Error, UpdatedAt and      *)
(* CorrelationID, which nothing decides on, and the listeners.             *)
(***************************************************************************)
EXTENDS Integers, FiniteSets, FiniteSetsExt

CONSTANTS Id,           \* command identities: the 8 random bytes of commandID
          Key,          \* property paths device/endpoint/capability/property
          Value,        \* property values
          Scope,        \* idempotency scopes of actions
          None,         \* an absent map entry, or an empty string field
          Timeouts,     \* the settings of SetTimeout
          Limits,       \* the settings of SetMaxItems
          MaxClock,     \* bound: the last instant of the clock
          MaxCoalesced  \* bound: requests merged into one command

ASSUME NoneAssumption == None \notin Id \cup Key \cup Scope
ASSUME BoundAssumption == MaxClock \in Nat /\ MaxCoalesced \in Nat
ASSUME TimeoutAssumption == Timeouts \subseteq Nat /\ Timeouts # {}
ASSUME LimitAssumption == Limits \subseteq Int /\ 1 \in Limits

VARIABLES commands,     \* commands: the retained record of each id, or None
          pending,      \* pending: the id of the unfinished write of each key
          idempotency,  \* idempotency: the id of the action of each scope
          maxItems,     \* maxItems
          timeout,      \* timeoutNanos
          used,         \* the ids commandID has handed out
          clock         \* the wall clock

vars == <<commands, pending, idempotency, maxItems, timeout, used, clock>>

TerminalStatus == {"confirmed", "rejected", "timeout", "superseded"}
Status == {"queued", "sent", "accepted"} \cup TerminalStatus

\* A command: key is None for an action, scope is None without idempotency key.
Command == [key : Key \cup {None}, scope : Scope \cup {None},
            expected : Value \cup {None}, status : Status,
            created : Nat, deadline : Nat, coalesced : Nat]

ASSUME NoneIsNoCommand == None \notin Command

TypeOK ==
    /\ commands \in [Id -> Command \cup {None}]
    /\ pending \in [Key -> Id \cup {None}]
    /\ idempotency \in [Scope -> Id \cup {None}]
    /\ maxItems \in Nat \ {0}
    /\ timeout \in Timeouts
    /\ used \in SUBSET Id
    /\ clock \in Nat
-----------------------------------------------------------------------------
Retained(cmds) == {id \in Id : cmds[id] # None}

Terminals(cmds) == {id \in Retained(cmds) : cmds[id].status \in TerminalStatus}

Live(id) == id \in Retained(commands) \ Terminals(commands)

\* removeOldestTerminalLocked, repeated until at most `room` records are left
\* or no terminal one is: the set of records it removes.  Records created at the
\* same instant go in the order of the map's iteration, that is, in any order.
Evictions(cmds, room) ==
    LET excess == Max({0, Cardinality(Retained(cmds)) - room})
        count  == Min({excess, Cardinality(Terminals(cmds))})
    IN {R \in SUBSET Terminals(cmds) :
            /\ Cardinality(R) = count
            /\ \A r \in R, t \in Terminals(cmds) \ R :
                   cmds[r].created <= cmds[t].created}

Evict(R, cmds) == [id \in Id |-> IF id \in R THEN None ELSE cmds[id]]

\* An evicted record takes its idempotency entries along.
EvictScopes(R) ==
    [s \in Scope |-> IF idempotency[s] \in R THEN None ELSE idempotency[s]]

\* pending without the entry under the key of id, if it has a key.
ClearKey(cmds, id) ==
    [k \in Key |-> IF cmds[id].key = k THEN None ELSE pending[k]]

NewCommand(k, s, v, at) ==
    [key |-> k, scope |-> s, expected |-> v, status |-> "queued",
     created |-> at, deadline |-> at + timeout, coalesced |-> 0]

\* Stores cmds and then trims the history to maxItems.
StoreAndTrim(cmds) ==
    \E R \in Evictions(cmds, maxItems) :
        /\ commands' = Evict(R, cmds)
        /\ idempotency' = EvictScopes(R)
-----------------------------------------------------------------------------
Init ==
    /\ commands = [id \in Id |-> None]
    /\ pending = [k \in Key |-> None]
    /\ idempotency = [s \in Scope |-> None]
    /\ maxItems \in Limits \cap (Nat \ {0})
    /\ timeout \in Timeouts
    /\ used = {}
    /\ clock = 0

SetTimeout(t) ==
    /\ timeout' = t
    /\ UNCHANGED <<commands, pending, idempotency, maxItems, used, clock>>

SetMaxItems(limit) ==
    /\ maxItems' = IF limit < 1 THEN 1 ELSE limit
    /\ \E R \in Evictions(commands, maxItems') :
           /\ commands' = Evict(R, commands)
           /\ idempotency' = EvictScopes(R)
    /\ UNCHANGED <<pending, timeout, used, clock>>

\* BeginPropertyCorrelated when an unfinished write of the same value is pending:
\* the request is counted on that command.
CoalesceProperty(k, v) ==
    /\ pending[k] # None
    /\ commands[pending[k]].status \notin TerminalStatus
    /\ commands[pending[k]].expected = v
    /\ commands[pending[k]].coalesced < MaxCoalesced
    /\ \E R \in Evictions(commands, maxItems - 1) :
           /\ commands' = [Evict(R, commands) EXCEPT ![pending[k]].coalesced = @ + 1]
           /\ idempotency' = EvictScopes(R)
    /\ UNCHANGED <<pending, maxItems, timeout, used, clock>>

\* The pending write of k is superseded, unless it has finished.
SupersedePending(cmds, k) ==
    IF pending[k] # None /\ cmds[pending[k]].status \notin TerminalStatus
    THEN [cmds EXCEPT ![pending[k]].status = "superseded"]
    ELSE cmds

\* BeginPropertyCorrelated otherwise: a new command replaces the pending one.
ReplaceProperty(k, v, id, at) ==
    /\ id \notin used
    /\ at + timeout <= MaxClock
    /\ ~ /\ pending[k] # None
         /\ commands[pending[k]].status \notin TerminalStatus
         /\ commands[pending[k]].expected = v
    /\ \E R \in Evictions(commands, maxItems - 1) :
           /\ commands' = [SupersedePending(Evict(R, commands), k)
                              EXCEPT ![id] = NewCommand(k, None, v, at)]
           /\ idempotency' = EvictScopes(R)
    /\ pending' = [pending EXCEPT ![k] = id]
    /\ used' = used \cup {id}
    /\ UNCHANGED <<maxItems, timeout, clock>>

\* BeginActionIdempotentCorrelated for a new scope, or for none.  A scope that is
\* known answers with the command it names, or with a conflict, and changes nothing.
BeginAction(s, id, at) ==
    /\ id \notin used
    /\ at + timeout <= MaxClock
    /\ s # None => idempotency[s] = None
    /\ \E R \in Evictions(commands, maxItems - 1) :
           /\ commands' = [Evict(R, commands) EXCEPT ![id] = NewCommand(None, s, None, at)]
           /\ idempotency' = [sc \in Scope |-> IF sc = s THEN id ELSE EvictScopes(R)[sc]]
    /\ used' = used \cup {id}
    /\ UNCHANGED <<pending, maxItems, timeout, clock>>

AddCoalesced(id) ==
    /\ id \in Retained(commands)
    /\ commands[id].coalesced < MaxCoalesced
    /\ commands' = [commands EXCEPT ![id].coalesced = @ + 1]
    /\ UNCHANGED <<pending, idempotency, maxItems, timeout, used, clock>>

Supersede(id) ==
    /\ Live(id)
    /\ StoreAndTrim([commands EXCEPT ![id].status = "superseded"])
    /\ pending' = [k \in Key |-> IF commands[id].key = k /\ pending[k] = id
                                 THEN None ELSE pending[k]]
    /\ UNCHANGED <<maxItems, timeout, used, clock>>

\* Mutant: a late answer of the provider is applied to a finished command.
transitionLate(id, status) ==
    /\ id \in Retained(commands)
    /\ LET cmds == [commands EXCEPT ![id].status = status]
       IN IF status \in TerminalStatus
          THEN StoreAndTrim(cmds) /\ pending' = ClearKey(commands, id)
          ELSE commands' = cmds /\ UNCHANGED <<idempotency, pending>>
    /\ UNCHANGED <<maxItems, timeout, used, clock>>

\* Mutant: a finished command stays in the pending index.
transitionKeepsPending(id, status) ==
    /\ Live(id)
    /\ LET cmds == [commands EXCEPT ![id].status = status]
       IN IF status \in TerminalStatus
          THEN StoreAndTrim(cmds) /\ UNCHANGED pending
          ELSE commands' = cmds /\ UNCHANGED <<idempotency, pending>>
    /\ UNCHANGED <<maxItems, timeout, used, clock>>

\* Mutant: the history is not trimmed when a command finishes.
transitionNoTrim(id, status) ==
    /\ Live(id)
    /\ commands' = [commands EXCEPT ![id].status = status]
    /\ pending' = IF status \in TerminalStatus THEN ClearKey(commands, id) ELSE pending
    /\ UNCHANGED <<idempotency, maxItems, timeout, used, clock>>

\* transition: Sent, Accepted, Confirmed and Rejected.
transition(id, status) ==
    /\ Live(id)
    /\ LET cmds == [commands EXCEPT ![id].status = status]
       IN IF status \in TerminalStatus
          THEN StoreAndTrim(cmds) /\ pending' = ClearKey(commands, id)
          ELSE commands' = cmds /\ UNCHANGED <<idempotency, pending>>
    /\ UNCHANGED <<maxItems, timeout, used, clock>>

\* Confirm: a report of value v on k.  The status of the pending command is not
\* looked at, only its expected value.
Confirm(k, v) ==
    /\ pending[k] # None
    /\ commands[pending[k]].expected = v
    /\ StoreAndTrim([commands EXCEPT ![pending[k]].status = "confirmed"])
    /\ pending' = [pending EXCEPT ![k] = None]
    /\ UNCHANGED <<maxItems, timeout, used, clock>>

\* Mutant: only commands the provider has not accepted yet time out.
OverdueNotAccepted(at) ==
    {id \in Id : Live(id) /\ commands[id].deadline <= at /\ commands[id].status # "accepted"}

\* The commands that Expire(at) times out.
Overdue(at) == {id \in Id : Live(id) /\ commands[id].deadline <= at}

Expire(at) ==
    /\ Overdue(at) # {}
    /\ StoreAndTrim([id \in Id |-> IF id \in Overdue(at)
                                   THEN [commands[id] EXCEPT !.status = "timeout"]
                                   ELSE commands[id]])
    /\ pending' = [k \in Key |-> IF \E id \in Overdue(at) : commands[id].key = k
                                 THEN None ELSE pending[k]]
    /\ UNCHANGED <<maxItems, timeout, used, clock>>

Tick ==
    /\ clock < MaxClock
    /\ clock' = clock + 1
    /\ UNCHANGED <<commands, pending, idempotency, maxItems, timeout, used>>

Next ==
    \/ \E t \in Timeouts : SetTimeout(t)
    \/ \E limit \in Limits : SetMaxItems(limit)
    \/ \E k \in Key, v \in Value : CoalesceProperty(k, v)
    \/ \E k \in Key, v \in Value, id \in Id, at \in 0..clock : ReplaceProperty(k, v, id, at)
    \/ \E s \in Scope \cup {None}, id \in Id, at \in 0..clock : BeginAction(s, id, at)
    \/ \E id \in Id : AddCoalesced(id)
    \/ \E id \in Id : Supersede(id)
    \/ \E id \in Id, status \in {"sent", "accepted", "confirmed", "rejected"} :
           transition(id, status)
    \/ \E k \in Key, v \in Value : Confirm(k, v)
    \/ \E at \in 0..clock : Expire(at)
    \/ Tick

Spec == Init /\ [][Next]_vars

\* The clock advances, and the scanner of the device service calls Expire with the
\* time of every tick of its ticker.
FairSpec == Spec /\ WF_vars(Tick) /\ WF_vars(Expire(clock))
-----------------------------------------------------------------------------
\* The pending index names exactly the unfinished writes: an entry names a
\* retained, unfinished command of its own key, and every unfinished write is
\* named by its key.  Confirm (line 251) relies on the first half, as it does not
\* look at the status; transition (line 307) and Expire (line 325) rely on the
\* second, as they delete the key's entry whoever owns it.
PendingExact ==
    /\ \A k \in Key : pending[k] # None =>
           Live(pending[k]) /\ commands[pending[k]].key = k
    /\ \A id \in Id : Live(id) /\ commands[id].key # None =>
           pending[commands[id].key] = id

\* A scope of the idempotency index names a retained action of that scope, and
\* every retained action with a scope is named by it: a repeated request either
\* finds its command or starts the only one (lines 165-180, 212-220).
ScopesExact ==
    /\ \A s \in Scope : idempotency[s] # None =>
           idempotency[s] \in Retained(commands) /\ commands[idempotency[s]].scope = s
    /\ \A id \in Retained(commands) : commands[id].scope # None =>
           idempotency[commands[id].scope] = id

\* The maps have their types and both indexes are exact, whatever is begun, answered,
\* reported, superseded, expired and evicted in whatever order (tracker.go 72-335).
IndexesExact == TypeOK /\ PendingExact /\ ScopesExact

\* A history over its limit holds unfinished commands only, save for one write
\* that a new command has just superseded (the prune of line 82 runs before the
\* supersession of line 97).
HistoryBounded ==
    Cardinality(Retained(commands)) > maxItems => Cardinality(Terminals(commands)) <= 1

\* A finished command never changes its status again: a late answer of the
\* provider, a late report or a late timeout leaves it alone.
TerminalIsFinal ==
    [][\A id \in Terminals(commands) :
          id \in Retained(commands') => commands'[id].status = commands[id].status]_vars

\* Every command finishes: a write or action that nobody confirms, rejects or
\* supersedes is timed out by the scanner once its deadline has passed.
EveryCommandSettles == \A id \in Id : Live(id) ~> ~Live(id)
=============================================================================
