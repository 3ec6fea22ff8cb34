----------------------------- MODULE StateStore -----------------------------
(***************************************************************************)
(* The state store of backend/internal/state/store.go: the selected value  *)
(* of every property, with the operations the device service calls.  Each  *)
(* holds the store's mutex for the whole of its state change and is one    *)
(* action.  A writer takes the value it may roll back to (Get) before it   *)
(* writes its optimistic value, in an action of its own: other operations  *)
(* come between the two.                                                   *)
(***************************************************************************)
EXTENDS StateValues

CONSTANTS Key,         \* property keys
          Device,      \* devices
          DeviceOf,    \* the device of a key
          CommandProvider,  \* the provider id of a write to a property without value
          NotTaken,    \* the writer of a command has not read the store yet
          Priorities,  \* priority policies: functions from Provider to Int
          MaxTime,     \* bound: the last instant of the clock
          MaxSeq,      \* bound: the largest snapshot sequence
          MaxBoots,    \* bound: restarts
          MaxVersion   \* bound: no input arrives at a key of this version

ASSUME KeyAssumption == DeviceOf \in [Key -> Device]
ASSUME CommandProviderAssumption == CommandProvider \in Provider
ASSUME NotTakenAssumption == NotTaken \notin StateValue \cup {None}
ASSUME PriorityAssumption == Priorities \subseteq [Provider -> Int] /\ Priorities # {}
ASSUME BoundAssumption == MaxTime \in Nat /\ MaxSeq \in Nat /\ MaxBoots \in Nat /\ MaxVersion \in Nat

VARIABLES values,    \* values: the stored value of each key, or None
          priority,  \* priority
          taken,     \* what Get gave the writer of each command
          target,    \* the key that writer writes, or None
          written,   \* the commands that cannot write (again)
          boots,     \* restarts of the process so far
          saved,     \* the checkpoint in the settings table
          now        \* the wall clock

vars == <<values, priority, taken, target, written, boots, saved, now>>

TypeOK ==
    /\ values \in [Key -> StateValue \cup {None}]
    /\ priority \in Priorities
    /\ taken \in [CommandId -> StateValue \cup {None, NotTaken}]
    /\ target \in [CommandId -> Key \cup {None}]
    /\ written \in SUBSET CommandId
    /\ boots \in Nat
    /\ saved \in [Key -> StateValue \cup {None}]
    /\ now \in Nat

HasRoom(k) == values[k] # None => values[k].version < MaxVersion
-----------------------------------------------------------------------------
Init ==
    /\ values = [k \in Key |-> None]
    /\ priority \in Priorities
    /\ taken = [c \in CommandId |-> NotTaken]
    /\ target = [c \in CommandId |-> None]
    /\ written = {}
    /\ boots = 0
    /\ saved = [k \in Key |-> None]
    /\ now = 1

SetPriorityResolver(p) ==
    /\ priority' = p
    /\ UNCHANGED <<values, taken, target, written, boots, saved, now>>

\* Apply of a report received now.
Apply(k, incoming) ==
    /\ HasRoom(k)
    /\ values' = [values EXCEPT ![k] = Applied(@, incoming, priority)]
    /\ UNCHANGED <<priority, taken, target, written, boots, saved, now>>

EnsureUnknown(k, p, reason) ==
    /\ values[k] = None
    /\ values' = [values EXCEPT ![k] = Over(None, Unknown(p, reason, now))]
    /\ UNCHANGED <<priority, taken, target, written, boots, saved, now>>

\* Command c's writer reads the value it may have to restore.
Get(c, k) ==
    /\ taken[c] = NotTaken /\ c \notin written
    /\ taken' = [taken EXCEPT ![c] = values[k]]
    /\ target' = [target EXCEPT ![c] = k]
    /\ UNCHANGED <<values, priority, written, boots, saved, now>>

\* It then writes its optimistic value over whatever the key holds by now.
ApplyOptimistic(c, v, ttl) ==
    LET p == IF taken[c] = None THEN CommandProvider ELSE taken[c].provider
    IN /\ taken[c] # NotTaken /\ c \notin written
       /\ now + ttl <= MaxTime
       /\ values' = [values EXCEPT ![target[c]] = Over(@, Optimistic(p, v, c, now, now + ttl))]
       /\ written' = written \cup {c}
       /\ UNCHANGED <<priority, taken, target, boots, saved, now>>

\* The key whose value command c owns is resolved, with or without a fallback.
ResolveOptimistic(c, fallback) ==
    /\ taken[c] # NotTaken
    /\ \E k \in Key :
           /\ values[k] # None
           /\ values[k].pending = c
           /\ values' = [values EXCEPT ![k] = Resolved(@, fallback)]
    /\ UNCHANGED <<priority, taken, target, written, boots, saved, now>>

MarkStale(at) ==
    /\ \E k \in Key : Expired(values[k], at)
    /\ values' = [k \in Key |-> IF Expired(values[k], at) THEN MarkedStale(values[k])
                                                         ELSE values[k]]
    /\ UNCHANGED <<priority, taken, target, written, boots, saved, now>>

\* MarkDeviceUnavailable with all keys of a device, MarkCapabilityUnavailable with
\* those of one of its capabilities.
MarkUnavailable(keys, reason) ==
    /\ \A k \in keys : HasRoom(k)
    /\ values' = [k \in Key |-> IF k \in keys THEN MadeUnavailable(values[k], reason)
                                              ELSE values[k]]
    /\ UNCHANGED <<priority, taken, target, written, boots, saved, now>>

MarkDeviceUnavailable(d, reason) == MarkUnavailable({k \in Key : DeviceOf[k] = d}, reason)

MarkCapabilityUnavailable(k) == MarkUnavailable({k}, "control-provider-offline")

Checkpoint ==
    /\ saved' = values
    /\ UNCHANGED <<values, priority, taken, target, written, boots, now>>

\* The process restarts: its writers are gone, their command ids are never used
\* again, and the store begins with the checkpoint.
RestoreCheckpoint ==
    /\ boots < MaxBoots
    /\ boots' = boots + 1
    /\ values' = [k \in Key |-> Restored(saved[k])]
    /\ written' = written \cup {c \in CommandId : taken[c] # NotTaken}
    /\ taken' = [c \in CommandId |-> NotTaken]
    /\ target' = [c \in CommandId |-> None]
    /\ UNCHANGED <<priority, saved, now>>

Tick ==
    /\ now < MaxTime
    /\ now' = now + 1
    /\ UNCHANGED <<values, priority, taken, target, written, boots, saved>>

\* The reports of a provider: observed now or earlier, with or without sequence
\* and expiry.
Reports(p, v) ==
    {Report(p, v, q, s, observed, now, expires) :
        q \in {"reported", "polled"}, s \in 0..MaxSeq, observed \in 1..now,
        expires \in {0, now + 1}}

Next ==
    \/ \E p \in Priorities : SetPriorityResolver(p)
    \/ \E k \in Key, p \in Provider \ {CommandProvider}, v \in Value : \E r \in Reports(p, v) : Apply(k, r)
    \/ \E k \in Key, p \in Provider \ {CommandProvider} : EnsureUnknown(k, p, "device-offline")
    \/ \E c \in CommandId, k \in Key : Get(c, k)
    \/ \E c \in CommandId, v \in Value : ApplyOptimistic(c, v, 1)
    \/ \E c \in CommandId : ResolveOptimistic(c, taken[c]) \/ ResolveOptimistic(c, None)
    \/ \E at \in 1..now : MarkStale(at)
    \/ \E d \in Device, reason \in {"device-offline", "disabled"} : MarkDeviceUnavailable(d, reason)
    \/ \E k \in Key : MarkCapabilityUnavailable(k)
    \/ Checkpoint
    \/ RestoreCheckpoint
    \/ Tick

Spec == Init /\ [][Next]_vars

\* Time passes and the scanner of the device service marks what has expired.
FairSpec == Spec /\ WF_vars(Tick) /\ WF_vars(MarkStale(now))
-----------------------------------------------------------------------------
\* v is shown as current exactly when it has a value of a live quality, and it
\* carries a reason exactly when it is not.
Honest(v) ==
    /\ v.available <=> (Known(v) /\ v.quality \in LiveQuality)
    /\ v.available <=> v.reason = None

\* The three fields a reader of the State API combines (docs/device-model.md lines
\* 88-91) agree for every stored value, also for one that was rolled back to after
\* the device went away or restored from a checkpoint (lines 250-275, 295-315).
AvailabilityHonest == \A k \in Key : values[k] # None => Honest(values[k])

\* A value that a command owns is that command's optimistic value under the key it
\* writes: whatever replaces the value or makes it unavailable takes the ownership
\* away, so that ResolveOptimistic never rolls back over a report (lines 293-315).
OwnerIsOptimistic ==
    \A k \in Key : values[k] # None /\ values[k].pending # None =>
        /\ values[k].quality = "optimistic"
        /\ target[values[k].pending] = k

\* The stored values are well formed, shown honestly and owned only by the command that
\* wrote them, through reports, roll backs, expiry, outages and restarts.
StoreInv == TypeOK /\ AvailabilityHonest /\ OwnerIsOptimistic

\* While the process runs every change of a value raises its version by one, a roll
\* back to an older value included: versions order what the state stream shows.
VersionOrdersChanges ==
    [][\A k \in Key :
          (values[k] # None /\ values'[k] # values[k] /\ boots' = boots)
              => values'[k] # None /\ values'[k].version = values[k].version + 1]_vars

\* A sequenced report replaces a sequenced report of the same provider only with a
\* larger sequence, whatever their times and qualities are (lines 150-158).
SequenceOrder ==
    [][\A k \in Key :
          (/\ values[k] # None /\ values'[k] # values[k] /\ boots' = boots
           /\ SequenceDecides(values[k], values'[k])
           /\ values'[k].quality \in {"reported", "polled"})
              => values'[k].seq > values[k].seq]_vars

\* No optimistic value stays: a report or a roll back replaces it, or it expires,
\* also when the command that wrote it has lost it.
OptimisticSettles ==
    \A k \in Key : (values[k] # None /\ values[k].quality = "optimistic")
                       ~> (values[k] = None \/ values[k].quality # "optimistic")
=============================================================================
