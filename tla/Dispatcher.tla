----------------------------- MODULE Dispatcher -----------------------------
(***************************************************************************)
(* One shard of the event dispatcher, backend/internal/eventbus/           *)
(* dispatcher.go, and the worker goroutine that empties it.  A device      *)
(* always hashes to the same shard and shards share nothing but the closed *)
(* flag, so the other shards are independent copies of this one.           *)
(*                                                                         *)
(* A queuedEvent is a heap object that the priority queues and the         *)
(* coalesce index point to; its order field is unique within the shard, so *)
(* the model uses the order as the pointer.  Publish holds the shard's     *)
(* mutex for the whole of enqueue; next holds it while it picks an event;  *)
(* the handler runs without it.                                            *)
(*                                                                         *)
(* Left out: trace ids, latency statistics and counters.                   *)
(***************************************************************************)
EXTENDS Integers, Sequences, SequencesExt

CONSTANTS Device,       \* devices of the shard
          CoalesceKey,  \* coalescing keys; each belongs to one device
          DedupeKey,    \* deduplication keys
          None,         \* an empty key
          Idle,         \* the worker waits for an event
          Stopped,      \* the worker has returned
          Offer,        \* the events a caller may publish
          Capacity,     \* Config.QueueSize
          MaxPublish    \* bound: number of calls of Publish

Priority == {"critical", "high", "normal", "low"}

Order == 1..MaxPublish

\* An event as published; "" and unknown priorities are still to be normalised.
Published == [device : Device, priority : Priority \cup {""},
              key : CoalesceKey \cup {None}, dedupe : DedupeKey \cup {None}]

\* An event in the shard; pub numbers the calls of Publish and stands for the payload.
Event == [device : Device, priority : Priority, key : CoalesceKey \cup {None},
          dedupe : DedupeKey \cup {None}, pub : 1..MaxPublish]

ASSUME BoundAssumption == Capacity \in Nat \ {0} /\ MaxPublish \in Nat
ASSUME OfferAssumption == Offer \subseteq Published
ASSUME KeyAssumption == \A a, b \in Offer : a.key # None /\ a.key = b.key => a.device = b.device
ASSUME NoneAssumption == None \notin CoalesceKey \cup DedupeKey \cup Event
ASSUME WorkerAssumption == Idle # Stopped /\ {Idle, Stopped} \cap Event = {}

VARIABLES queues,     \* queues: the orders waiting at each priority
          event,      \* the event each waiting queuedEvent holds
          coalesce,   \* coalesce: the order waiting under each key, 0 for none
          dedupe,     \* dedupe: keys of the waiting low-priority events
          pending,    \* pending
          nextOrder,  \* nextOrder
          closed,     \* closed
          worker,     \* the event the worker handles, Idle or Stopped
          published   \* calls of Publish so far

vars == <<queues, event, coalesce, dedupe, pending, nextOrder, closed, worker, published>>

TypeOK ==
    /\ queues \in [Priority -> Seq(Order)]
    /\ event \in [Order -> Event \cup {None}]
    /\ coalesce \in [CoalesceKey -> Order \cup {0}]
    /\ dedupe \subseteq DedupeKey
    /\ pending \in 0..Capacity
    /\ nextOrder \in 0..published
    /\ closed \in BOOLEAN
    /\ worker \in Event \cup {Idle, Stopped}
    /\ published \in 0..MaxPublish
-----------------------------------------------------------------------------
normalizePriority(p) == IF p \in Priority THEN p ELSE "normal"

\* The order in which next looks at the queues.
rank == [p \in Priority |-> CASE p = "critical" -> 4 [] p = "high" -> 3
                              [] p = "normal" -> 2 [] p = "low" -> 1]

priorityGreater(p, q) == rank[p] > rank[q]

Queued == UNION {Range(queues[p]) : p \in Priority}

\* Mutant: priority alone decides between the events of one device.
hasEarlierForDevicePriority(o) ==
    \E x \in Queued : /\ x # o /\ event[x].device = event[o].device /\ x < o
                      /\ ~priorityGreater(event[o].priority, event[x].priority)

\* Mutant: the candidate is compared with itself and counts as its own predecessor.
hasEarlierForDeviceOrSelf(o) ==
    \E x \in Queued : event[x].device = event[o].device /\ x <= o

hasEarlierForDevice(o) ==
    \E x \in Queued : x # o /\ event[x].device = event[o].device /\ x < o

removeLocked(items, o) == RemoveAt(items, CHOOSE i \in DOMAIN items : items[i] = o)

DedupeOf(e) == IF e.priority = "low" /\ e.dedupe # None THEN {e.dedupe} ELSE {}

\* Call number published + 1 of Publish, with its priority normalised.
Incoming(offer) ==
    [device |-> offer.device, priority |-> normalizePriority(offer.priority),
     key |-> offer.key, dedupe |-> offer.dedupe, pub |-> published + 1]
-----------------------------------------------------------------------------
Init ==
    /\ queues = [p \in Priority |-> <<>>]
    /\ event = [o \in Order |-> None]
    /\ coalesce = [k \in CoalesceKey |-> 0]
    /\ dedupe = {}
    /\ pending = 0
    /\ nextOrder = 0
    /\ closed = FALSE
    /\ worker = Idle
    /\ published = 0

Duplicate(e) == DedupeOf(e) \cap dedupe # {}

Merges(e) == e.key # None /\ coalesce[e.key] # 0

\* enqueue refuses: ErrDispatcherClosed, ErrLowPriorityDuplicate or ErrQueueFull.
Refuse(e) ==
    /\ closed \/ Duplicate(e) \/ (~Merges(e) /\ pending >= Capacity)
    /\ UNCHANGED <<queues, event, coalesce, dedupe, pending, nextOrder>>

\* Mutant: a merged event always keeps its place and takes the new priority.
MergeInPlace(e) ==
    /\ ~closed /\ ~Duplicate(e) /\ Merges(e)
    /\ event' = [event EXCEPT ![coalesce[e.key]] = e]
    /\ dedupe' = (dedupe \ DedupeOf(event[coalesce[e.key]])) \cup DedupeOf(e)
    /\ UNCHANGED <<queues, coalesce, pending, nextOrder>>

\* enqueue merges: the waiting event of the key is replaced.  It keeps its order,
\* and moves to the end of a higher queue when the new event has a higher priority.
Merge(e) ==
    LET o   == coalesce[e.key]
        old == event[o]
        up  == priorityGreater(e.priority, old.priority)
        new == IF up THEN e ELSE [e EXCEPT !.priority = old.priority]
    IN /\ ~closed /\ ~Duplicate(e) /\ Merges(e)
       /\ event' = [event EXCEPT ![o] = new]
       /\ queues' = IF up
                    THEN [queues EXCEPT ![old.priority] = removeLocked(@, o),
                                        ![e.priority] = Append(@, o)]
                    ELSE queues
       /\ dedupe' = (dedupe \ DedupeOf(old)) \cup DedupeOf(new)
       /\ UNCHANGED <<coalesce, pending, nextOrder>>

\* enqueue appends a new queuedEvent.
Enqueue(e) ==
    /\ ~closed /\ ~Duplicate(e) /\ ~Merges(e) /\ pending < Capacity
    /\ nextOrder' = nextOrder + 1
    /\ queues' = [queues EXCEPT ![e.priority] = Append(@, nextOrder')]
    /\ event' = [event EXCEPT ![nextOrder'] = e]
    /\ pending' = pending + 1
    /\ coalesce' = IF e.key # None THEN [coalesce EXCEPT ![e.key] = nextOrder'] ELSE coalesce
    /\ dedupe' = dedupe \cup DedupeOf(e)

Publish(offer) ==
    /\ published < MaxPublish
    /\ published' = published + 1
    /\ LET e == Incoming(offer) IN Refuse(e) \/ Merge(e) \/ Enqueue(e)
    /\ UNCHANGED <<closed, worker>>

\* Place i of queue p holds the event that next returns: the first one, from the
\* most urgent queue down, that has no earlier event of its device.
Chosen(p, i) ==
    /\ i \in DOMAIN queues[p]
    /\ ~hasEarlierForDevice(queues[p][i])
    /\ \A j \in 1..(i - 1) : hasEarlierForDevice(queues[p][j])
    /\ \A q \in Priority : priorityGreater(q, p) =>
           \A o \in Range(queues[q]) : hasEarlierForDevice(o)

next ==
    /\ worker = Idle
    /\ pending > 0
    /\ \E p \in Priority : \E i \in DOMAIN queues[p] :
           /\ Chosen(p, i)
           /\ LET o == queues[p][i]
                  e == event[o]
              IN /\ queues' = [queues EXCEPT ![p] = RemoveAt(@, i)]
                 /\ event' = [event EXCEPT ![o] = None]
                 /\ coalesce' = IF e.key # None /\ coalesce[e.key] = o
                                THEN [coalesce EXCEPT ![e.key] = 0] ELSE coalesce
                 /\ dedupe' = dedupe \ DedupeOf(e)
                 /\ worker' = e
    /\ pending' = pending - 1
    /\ UNCHANGED <<nextOrder, closed, published>>

\* The handler returns.
Handled ==
    /\ worker \notin {Idle, Stopped}
    /\ worker' = Idle
    /\ UNCHANGED <<queues, event, coalesce, dedupe, pending, nextOrder, closed, published>>

Close ==
    /\ ~closed
    /\ closed' = TRUE
    /\ UNCHANGED <<queues, event, coalesce, dedupe, pending, nextOrder, worker, published>>

\* Mutant: the worker returns once the shard is closed, without draining it.
WorkerReturnsEarly ==
    /\ worker = Idle /\ closed
    /\ worker' = Stopped
    /\ UNCHANGED <<queues, event, coalesce, dedupe, pending, nextOrder, closed, published>>

\* next reports the closed and empty shard, and run returns.
WorkerReturns ==
    /\ worker = Idle /\ closed /\ pending = 0
    /\ worker' = Stopped
    /\ UNCHANGED <<queues, event, coalesce, dedupe, pending, nextOrder, closed, published>>

Next ==
    \/ \E offer \in Offer : Publish(offer)
    \/ next
    \/ Handled
    \/ Close
    \/ WorkerReturns

Spec == Init /\ [][Next]_vars

\* The worker goroutine keeps running and handlers return.
FairSpec == Spec /\ WF_vars(next) /\ WF_vars(Handled) /\ WF_vars(WorkerReturns)
-----------------------------------------------------------------------------
\* The counter that bounds the shard counts the queued events, and every queued
\* event sits in exactly one place of the queue of its own priority: moving a
\* merged event to a higher queue (lines 171-174) loses and doubles nothing.
QueueExact ==
    /\ pending = Len(queues["critical"]) + Len(queues["high"])
                 + Len(queues["normal"]) + Len(queues["low"])
    /\ \A p \in Priority : \A i \in DOMAIN queues[p] :
           /\ queues[p][i] <= nextOrder
           /\ event[queues[p][i]] # None
           /\ event[queues[p][i]].priority = p
           /\ \A j \in DOMAIN queues[p] : queues[p][i] = queues[p][j] => i = j
    /\ \A o \in Order \ Queued : event[o] = None

\* A key of the coalesce index names the only queued event of that key.
CoalesceExact ==
    /\ \A k \in CoalesceKey : coalesce[k] # 0 =>
           coalesce[k] \in Queued /\ event[coalesce[k]].key = k
    /\ \A o \in Queued : event[o].key # None => coalesce[event[o].key] = o

\* The dedupe index holds the keys of the queued low-priority events, each for one
\* event: no key is left behind to drop events for ever (lines 178-183, 237-239).
DedupeExact ==
    /\ dedupe = UNION {DedupeOf(event[o]) : o \in Queued}
    /\ \A o, x \in Queued : DedupeOf(event[o]) \cap DedupeOf(event[x]) # {} => o = x

\* The counter, the queues and the two indexes of a shard describe the same set of
\* waiting events after any sequence of publications, merges and deliveries.
ShardInv == TypeOK /\ QueueExact /\ CoalesceExact /\ DedupeExact

\* next always finds an event when one is pending: the panic of line 243 is dead.
NoPanic == pending > 0 => \E o \in Queued : ~hasEarlierForDevice(o)

\* A closed dispatcher finishes its work: what was accepted before Close is still
\* handled, and then the worker returns (lines 220-224), so that Close can return.
Drains == closed ~> (pending = 0 /\ worker = Stopped)

\* The shard implements DeviceBus: per device, waiting events are handled in the
\* order of their places, and a key's place holds its newest accepted value.  An event
\* that is merged thus overtakes the events of its device that were published between
\* it and the event it replaces (line 170).
BusUpdate(e) == [device |-> e.device, key |-> e.key, pub |-> e.pub]
Bus == INSTANCE DeviceBus WITH
    BusKey <- CoalesceKey, NoKey <- None,
    slots <- {[place |-> o, update |-> BusUpdate(event[o])] : o \in Queued},
    hand <- IF worker \in {Idle, Stopped} THEN Idle ELSE BusUpdate(worker),
    offers <- published
ImplementsDeviceBus == Bus!BusSpec
=============================================================================
