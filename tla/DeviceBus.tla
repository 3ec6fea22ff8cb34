----------------------------- MODULE DeviceBus -----------------------------
(***************************************************************************)
(* What the event dispatcher promises a device, without shards, priorities *)
(* or indexes: the waiting updates of a device form a line in which each   *)
(* coalescing key has at most one place; a new update takes the place of   *)
(* its key or joins the end of the line; the handler gets the head of some *)
(* device's line, never while it still handles another update.             *)
(***************************************************************************)
EXTENDS Integers

CONSTANTS Device, BusKey, NoKey, Idle, MaxPublish

VARIABLES slots,  \* the waiting updates, each with its place in the line
          hand,   \* the update being handled, or Idle
          offers  \* the number of updates offered so far

busVars == <<slots, hand, offers>>

Update == [device : Device, key : BusKey \cup {NoKey}, pub : 1..MaxPublish]
Slot == [place : 1..MaxPublish, update : Update]

BusInit == slots = {} /\ hand = Idle /\ offers = 0

\* The update number offers + 1 is dropped: the bus is closed or full, or the
\* update duplicates a waiting one.
Drop == offers' = offers + 1 /\ UNCHANGED <<slots, hand>>

Join(u) ==
    /\ u.pub = offers + 1
    /\ u.key # NoKey => \A s \in slots : s.update.key # u.key
    /\ \E n \in 1..MaxPublish :
           /\ \A s \in slots : s.place < n
           /\ slots' = slots \cup {[place |-> n, update |-> u]}
    /\ offers' = offers + 1
    /\ UNCHANGED hand

Replace(u) ==
    /\ u.pub = offers + 1
    /\ u.key # NoKey
    /\ \E s \in slots :
           /\ s.update.key = u.key
           /\ slots' = (slots \ {s}) \cup {[s EXCEPT !.update = u]}
    /\ offers' = offers + 1
    /\ UNCHANGED hand

Take ==
    /\ hand = Idle
    /\ \E s \in slots :
           /\ \A t \in slots : t.update.device = s.update.device => s.place <= t.place
           /\ slots' = slots \ {s}
           /\ hand' = s.update
    /\ UNCHANGED offers

Finish == hand # Idle /\ hand' = Idle /\ UNCHANGED <<slots, offers>>

BusNext ==
    \/ offers < MaxPublish /\ (Drop \/ \E u \in Update : Join(u) \/ Replace(u))
    \/ Take
    \/ Finish

BusSpec == BusInit /\ [][BusNext]_busVars
=============================================================================
