-------------------------- MODULE SnapshotPipeline --------------------------
(***************************************************************************)
(* What the device service (backend/internal/application/device_service.go)*)
(* makes of the snapshots of one device with one property: the registry    *)
(* entry, the state value, the last sequence and the disabled flag, under  *)
(* the goroutines that change them without a common lock:                  *)
(*   worker    the dispatcher worker of the device, handleDeviceSnapshot   *)
(*   refresh   RefreshDevices, one at a time because of refreshMu          *)
(*   a user    a request of SetDeviceEnabled; several overlap freely       *)
(*   main      LoadDevicePreferences after a start                         *)
(* A goroutine is the list of the steps it still has to take; a step ends  *)
(* where the code releases a lock or has called the provider.              *)
(*                                                                         *)
(* The provider is external: it numbers its snapshots, counting from one   *)
(* again when it is removed and added or the process restarts, or leaves   *)
(* the sequence of all of them 0; a snapshot sent out of turn may have any *)
(* sequence, 0 included.  The clock counts what it does.  Left out:        *)
(* mapping errors, names and locations, cameras (whose availability comes  *)
(* from the media runtime), expiry and optimistic values (modules          *)
(* StateStore and PropertyWrites), versions of values, metrics.            *)
(***************************************************************************)
EXTENDS StateValues, Sequences

CONSTANTS hub,           \* the provider of the device
          User,          \* goroutines of requests
          Reported,      \* the availabilities it reports
          Window,        \* the largest plausible age of a snapshot
          Capacity,      \* places of the event queue
          MaxChanges,    \* bound: snapshots of the provider
          MaxResends,    \* bound: snapshots it sends out of turn
          MaxAdds,       \* bound: removals followed by an addition of the provider
          MaxRefreshes,  \* bound: calls of RefreshDevices
          MaxToggles,    \* bound: calls of SetDeviceEnabled
          MaxBoots,      \* bound: restarts of the process
          MaxInputs      \* bound: the last three together

ASSUME HubAssumption == hub \in Provider
ASSUME ReportedAssumption == Reported \subseteq {"online", "offline", "unknown"}
ASSUME BoundsAssumption ==
    /\ Window \in Nat /\ Capacity \in Nat \ {0}
    /\ MaxChanges \in Nat /\ MaxResends \in Nat /\ MaxAdds \in Nat
    /\ MaxRefreshes \in Nat /\ MaxToggles \in Nat /\ MaxBoots \in Nat
    /\ MaxInputs \in Nat

ASSUME UserAssumption == User \cap {"worker", "refresh", "main"} = {}

Thread == {"worker", "refresh", "main"} \cup User

Step == {"reset", "project", "gate", "accept", "register", "store", "mark",
         "flag", "discover", "note", "load", "take"}

\* The lists of steps: handleDeviceSnapshot, RefreshDevices, SetDeviceEnabled(true),
\* SetDeviceEnabled(false) and LoadDevicePreferences.
HandleSteps == <<"project", "gate", "accept", "register", "store", "mark">>
RefreshSteps == <<"reset">> \o HandleSteps
EnableSteps == <<"flag", "reset", "discover", "register", "note", "store", "mark">>
DisableSteps == <<"flag", "reset", "register", "mark">>
LoadSteps == <<"load", "take", "register", "mark", "reset">>

Snapshot == [seq : Nat, at : Nat, value : Value, availability : {"online", "offline", "unknown"},
             disabled : BOOLEAN, removed : BOOLEAN]

ASSUME SnapshotAssumption == None \notin Snapshot

VARIABLES source,       \* the provider's own snapshot of the device
          cataloger,    \* cataloger: the provider has a source catalog
          queue,        \* the device's events in the dispatcher
          lost,         \* the provider's last event found no place in the queue
          thread,       \* the steps and the local variables of each goroutine
          disabled,     \* disabled
          persisted,    \* the preference in the database
          snapshotSeq,  \* snapshotSeq: the last sequence, 0 when there is none
          registry,     \* the registered device, or None
          state,        \* the state value of its property, or None
          saved,        \* the checkpoint
          count,        \* how often each bounded thing has happened
          overtaken,    \* history: what was checked or begun before the device was
                        \* disabled has been written after it
          top           \* history: the highest sequence registered since the device
                        \* was last registered as not online

provider == <<source, cataloger, queue, lost>>
flags == <<disabled, persisted>>
views == <<registry, state>>
vars == <<source, cataloger, queue, lost, thread, disabled, persisted, snapshotSeq, registry,
          state, saved, count, overtaken, top>>

Goroutine == [todo : Seq(Step), item : Snapshot \cup {None}, late : BOOLEAN]
Idle == [todo |-> <<>>, item |-> None, late |-> FALSE]

Count == [changes : 0..MaxChanges, resends : 0..MaxResends, adds : 0..MaxAdds,
          refreshes : 0..MaxRefreshes, toggles : 0..MaxToggles, boots : 0..MaxBoots]

TypeOK ==
    /\ source \in Snapshot
    /\ queue \in Seq(Snapshot) /\ Len(queue) <= Capacity
    /\ thread \in [Thread -> Goroutine]
    /\ cataloger \in BOOLEAN /\ lost \in BOOLEAN /\ overtaken \in BOOLEAN
    /\ disabled \in BOOLEAN /\ persisted \in BOOLEAN
    /\ snapshotSeq \in Nat /\ top \in Nat
    /\ registry \in Snapshot \cup {None}
    /\ state \in StateValue \cup {None}
    /\ saved \in StateValue \cup {None}
    /\ count \in Count

Online(item) == item.availability = "online"
Offline(item) == [item EXCEPT !.availability = "offline"]
now == source.at
-----------------------------------------------------------------------------
Unversioned(v) == IF v = None THEN None ELSE [v EXCEPT !.version = 0]

unavailableReason(item) ==
    CASE item.removed -> "removed"
      [] ~item.removed /\ item.disabled -> "disabled"
      [] ~item.removed /\ ~item.disabled /\ item.availability = "unknown" -> "availability-unknown"
      [] OTHER -> "device-offline"

\* A snapshot older than five minutes counts as observed when it is received.
safeObservedAt(item) == IF now - item.at <= Window THEN item.at ELSE now

\* Mutant: the values of a snapshot do not carry its sequence.
applySnapshotUnsequenced(v, item) ==
    Unversioned(Applied(v, Report(hub, item.value, "reported", 0, safeObservedAt(item), now, 0),
                        [p \in Provider |-> 0]))

\* The state value v after applySnapshot.
applySnapshot(v, item) ==
    Unversioned(Applied(v, Report(hub, item.value, "reported", item.seq, safeObservedAt(item), now, 0),
                        [p \in Provider |-> 0]))

ensureUnknownStates(v, item) ==
    IF v # None THEN v ELSE Unversioned(Over(None, Unknown(hub, unavailableReason(item), now)))

\* NewDeviceService: what registry, states and sequence are after the construction
\* of the service from the provider's snapshot, over the restored state.
Construct(item, restored) ==
    /\ registry' = item
    /\ snapshotSeq' = IF Online(item) THEN item.seq ELSE 0
    /\ top' = snapshotSeq'
    /\ state' = IF Online(item) THEN applySnapshot(restored, item)
                                ELSE ensureUnknownStates(restored, item)

\* The first snapshot of a provider that numbers them or does not.
FirstSnapshot(v, first) == [seq |-> first, at |-> 1, value |-> v, availability |-> "online",
                            disabled |-> FALSE, removed |-> FALSE]

Init ==
    /\ \E v \in Value, first \in {0, 1} : source = FirstSnapshot(v, first)
    /\ cataloger \in BOOLEAN
    /\ queue = <<>> /\ lost = FALSE
    /\ thread = [t \in Thread |-> Idle]
    /\ disabled = FALSE /\ persisted = FALSE
    /\ registry = source
    /\ snapshotSeq = source.seq /\ top = source.seq
    /\ state = Unversioned(Over(None, Report(hub, source.value, "reported", source.seq, 1, 1, 0)))
    /\ saved = None
    /\ count = [changes |-> 0, resends |-> 0, adds |-> 0, refreshes |-> 0, toggles |-> 0,
                boots |-> 0]
    /\ overtaken = FALSE

\* One more of the bounded things called f.
Counted(f, max) == count[f] < max /\ count' = [count EXCEPT ![f] = @ + 1]
Few == count.refreshes + count.toggles + count.boots < MaxInputs
-----------------------------------------------------------------------------
(* The provider.                                                           *)

\* enqueueSnapshot: an event that finds no place is dropped, and only counted.
enqueueSnapshot(item) ==
    /\ lost' = (Len(queue) >= Capacity)
    /\ queue' = IF lost' THEN queue ELSE Append(queue, item)

Emit(item) ==
    /\ source' = item
    /\ enqueueSnapshot(item)
    /\ UNCHANGED <<cataloger, thread, flags, snapshotSeq, views, saved, overtaken, top>>

\* The sequence of the provider's next snapshot, and of its first after it starts again.
NextSeq == IF source.seq = 0 THEN 0 ELSE source.seq + 1
FirstSeq == IF source.seq = 0 THEN 0 ELSE 1

\* A report, or a change of the availability.
Change(v, availability) ==
    /\ ~source.removed
    /\ Counted("changes", MaxChanges)
    /\ Emit([source EXCEPT !.seq = NextSeq, !.at = @ + 1, !.value = v, !.availability = availability])

\* A change that is sent under a sequence that was used before or under none, as the
\* virtual provider's Simulate does; the device keeps its own sequence.
Resend(v, availability, s) ==
    LET item == [source EXCEPT !.at = @ + 1, !.value = v, !.availability = availability]
    IN /\ ~source.removed /\ s <= source.seq
       /\ Counted("resends", MaxResends)
       /\ source' = item
       /\ enqueueSnapshot([item EXCEPT !.seq = s])
       /\ UNCHANGED <<cataloger, thread, flags, snapshotSeq, views, saved, overtaken, top>>

\* The provider is removed: its devices are offline and removed.
Remove ==
    /\ ~source.removed
    /\ Counted("adds", MaxAdds)
    /\ Emit(Offline([source EXCEPT !.removed = TRUE, !.at = @ + 1]))

\* It comes back and starts its numbers again.
Add(v) ==
    /\ source.removed
    /\ Emit([FirstSnapshot(v, FirstSeq) EXCEPT !.at = source.at + 1])
    /\ UNCHANGED count
-----------------------------------------------------------------------------
(* Starting goroutines.                                                    *)

Ready(t) == thread[t].todo = <<>>
Start(t, steps, item) == thread' = [thread EXCEPT ![t] = [Idle EXCEPT !.todo = steps, !.item = item]]

\* The worker takes the next event of the device.
handleEvent ==
    /\ Ready("worker") /\ queue # <<>>
    /\ Start("worker", HandleSteps, Head(queue))
    /\ queue' = Tail(queue)
    /\ UNCHANGED <<source, cataloger, lost, flags, snapshotSeq, views, saved, count, overtaken, top>>

\* RefreshDevices: DiscoverDevices returns the devices of the running providers.
RefreshDevices ==
    /\ Ready("refresh") /\ Ready("main") /\ ~source.removed
    /\ Few /\ Counted("refreshes", MaxRefreshes)
    /\ Start("refresh", RefreshSteps, source)
    /\ UNCHANGED <<provider, flags, snapshotSeq, views, saved, overtaken, top>>

\* SetDeviceEnabled: the request reads the registered device.  No lock is held across
\* the call, so that requests overlap.
SetDeviceEnabled(u, enabled) ==
    /\ Ready(u) /\ Ready("main") /\ registry # None
    /\ Few /\ Counted("toggles", MaxToggles)
    /\ Start(u, IF enabled THEN EnableSteps ELSE DisableSteps,
             IF enabled THEN [registry EXCEPT !.disabled = FALSE]
                        ELSE Offline([registry EXCEPT !.disabled = TRUE]))
    /\ UNCHANGED <<provider, flags, snapshotSeq, views, saved, overtaken, top>>

\* saveStateCheckpoint
saveStateCheckpoint ==
    /\ Few /\ count.boots < MaxBoots
    /\ saved' = state
    /\ UNCHANGED <<provider, thread, flags, snapshotSeq, views, count, overtaken, top>>

\* The process restarts: the provider starts its numbers again, NewDeviceService restores the
\* checkpoint and takes over the provider's snapshot, and LoadDevicePreferences follows
\* while the service already handles events.
Restart ==
    /\ ~source.removed
    /\ Few /\ Counted("boots", MaxBoots)
    /\ source' = [source EXCEPT !.seq = FirstSeq, !.at = @ + 1]
    /\ queue' = <<>> /\ lost' = FALSE
    /\ thread' = [t \in Thread |-> IF t = "main" THEN [Idle EXCEPT !.todo = LoadSteps] ELSE Idle]
    /\ disabled' = FALSE
    /\ overtaken' = FALSE
    /\ Construct(source', Unversioned(Restored(saved)))
    /\ UNCHANGED <<cataloger, persisted, saved>>
-----------------------------------------------------------------------------
(* The steps.                                                              *)

At(t, step) == ~Ready(t) /\ Head(thread[t].todo) = step

\* t has done its step, with item as its local variable, or returns.
Done(t, item) == thread' = [thread EXCEPT ![t].todo = Tail(@), ![t].item = item]
Return(t) == thread' = [thread EXCEPT ![t] = Idle]
DoneOrReturn(t) == IF Len(thread[t].todo) = 1 THEN Return(t) ELSE Done(t, thread[t].item)

\* projectLatestSnapshot: the newest snapshot of the catalog stands in for the event's.
projectLatestSnapshot(t) ==
    /\ At(t, "project")
    /\ Done(t, IF cataloger /\ ~source.removed THEN source ELSE thread[t].item)
    /\ UNCHANGED <<provider, flags, snapshotSeq, views, saved, count, overtaken, top>>

\* Mutant: snapshots do not look at the disabled flag.
isDeviceDisabledUnchecked(t) ==
    /\ At(t, "gate")
    /\ Done(t, thread[t].item)
    /\ UNCHANGED <<provider, flags, snapshotSeq, views, saved, count, overtaken, top>>

isDeviceDisabled(t) ==
    /\ At(t, "gate")
    /\ Done(t, IF disabled THEN Offline([thread[t].item EXCEPT !.disabled = TRUE])
                           ELSE thread[t].item)
    /\ UNCHANGED <<provider, flags, snapshotSeq, views, saved, count, overtaken, top>>

\* Mutant: every online snapshot is accepted.
acceptSnapshotSequenceAny(t) ==
    LET item == thread[t].item
    IN /\ At(t, "accept")
       /\ snapshotSeq' = IF Online(item) THEN item.seq ELSE 0
       /\ DoneOrReturn(t)
       /\ UNCHANGED <<provider, flags, views, saved, count, overtaken, top>>

\* Mutant: the next sequence is refused like the last one.
acceptSnapshotSequenceLate(t) ==
    LET item == thread[t].item
        refused == Online(item) /\ item.seq > 0 /\ snapshotSeq > 0 /\ item.seq <= snapshotSeq + 1
    IN /\ At(t, "accept")
       /\ snapshotSeq' = CASE ~Online(item) -> 0
                           [] Online(item) /\ ~refused /\ item.seq > snapshotSeq -> item.seq
                           [] OTHER -> snapshotSeq
       /\ IF refused THEN Return(t) ELSE DoneOrReturn(t)
       /\ UNCHANGED <<provider, flags, views, saved, count, overtaken, top>>

\* An online snapshot must be newer than the last one, unless it has no sequence; one
\* that is not online begins a new epoch.
acceptSnapshotSequence(t) ==
    LET item == thread[t].item
        refused == Online(item) /\ item.seq > 0 /\ snapshotSeq > 0 /\ item.seq <= snapshotSeq
    IN /\ At(t, "accept")
       /\ snapshotSeq' = CASE ~Online(item) -> 0
                           [] Online(item) /\ item.seq > snapshotSeq -> item.seq
                           [] OTHER -> snapshotSeq
       /\ IF refused THEN Return(t) ELSE DoneOrReturn(t)
       /\ UNCHANGED <<provider, flags, views, saved, count, overtaken, top>>

\* SetDeviceEnabled(true) ignores whether its snapshot is accepted.
noteSnapshotSequence(t) ==
    LET item == thread[t].item
    IN /\ At(t, "note")
       /\ snapshotSeq' = IF Online(item) /\ item.seq > snapshotSeq THEN item.seq ELSE snapshotSeq
       /\ DoneOrReturn(t)
       /\ UNCHANGED <<provider, flags, views, saved, count, overtaken, top>>

resetSnapshotSequence(t) ==
    /\ At(t, "reset")
    /\ snapshotSeq' = 0
    /\ DoneOrReturn(t)
    /\ UNCHANGED <<provider, flags, views, saved, count, overtaken, top>>

\* registry.Upsert or, for a tombstone, registry.Delete
register(t) ==
    /\ At(t, "register")
    /\ registry' = IF thread[t].item.removed THEN None ELSE thread[t].item
    /\ top' = CASE ~Online(thread[t].item) -> 0
                [] Online(thread[t].item) /\ thread[t].item.seq > top -> thread[t].item.seq
                [] OTHER -> top
    /\ overtaken' = (overtaken \/ thread[t].late)
    /\ DoneOrReturn(t)
    /\ UNCHANGED <<provider, flags, snapshotSeq, state, saved, count>>

\* applySnapshot of an online snapshot, or ensureUnknownStates.
store(t) ==
    LET item == thread[t].item
    IN /\ At(t, "store")
       /\ state' = IF Online(item) THEN applySnapshot(state, item)
                                   ELSE ensureUnknownStates(state, item)
       /\ overtaken' = (overtaken \/ thread[t].late)
       /\ IF Online(item) THEN Return(t) ELSE DoneOrReturn(t)
       /\ UNCHANGED <<provider, flags, snapshotSeq, registry, saved, count, top>>

\* Mutant: only a removal makes the state unavailable.
markDeviceUnavailableRemoved(t) ==
    /\ At(t, "mark")
    /\ state' = IF thread[t].item.removed
                THEN Unversioned(MadeUnavailable(state, unavailableReason(thread[t].item)))
                ELSE state
    /\ DoneOrReturn(t)
    /\ UNCHANGED <<provider, flags, snapshotSeq, registry, saved, count, overtaken, top>>

\* states.MarkDeviceUnavailable
markDeviceUnavailable(t) ==
    /\ At(t, "mark")
    /\ state' = Unversioned(MadeUnavailable(state, unavailableReason(thread[t].item)))
    /\ DoneOrReturn(t)
    /\ UNCHANGED <<provider, flags, snapshotSeq, registry, saved, count, overtaken, top>>

\* What has been checked against the flag, or enabled, and is still to be written is late
\* from the moment the flag is set: the handlers that have read it, and the requests that
\* have cleared it.
Checked(t) == {"accept", "register", "store", "mark"}
                  \cup IF t \in User THEN {"reset", "discover", "note"} ELSE {}
MarkLate(next) ==
    [t \in Thread |-> IF ~Ready(t) /\ Head(thread[t].todo) \in Checked(t) /\ ~thread[t].item.disabled
                      THEN [next[t] EXCEPT !.late = TRUE] ELSE next[t]]

\* SetDeviceEnabled under disabledMu: the flag and the preference change together, or
\* the preference cannot be saved and nothing changes.
SetFlag(t) ==
    LET off == thread[t].item.disabled
    IN /\ At(t, "flag")
       /\ \/ /\ disabled' = off /\ persisted' = off
             /\ overtaken' = FALSE
             /\ LET next == [thread EXCEPT ![t].todo = Tail(@)]
                IN thread' = IF off THEN MarkLate(next) ELSE next
          \/ Return(t) /\ UNCHANGED <<flags, overtaken>>
       /\ UNCHANGED <<provider, snapshotSeq, views, saved, count, top>>

\* SetDeviceEnabled(true) asks the provider; an error or a missing device leaves the
\* registered one.
discover(t) ==
    /\ At(t, "discover")
    /\ \/ ~source.removed /\ Done(t, source)
       \/ Done(t, thread[t].item)
    /\ UNCHANGED <<provider, flags, snapshotSeq, views, saved, count, overtaken, top>>

\* LoadDevicePreferences: the flags first, then the devices that are registered.
load(t) ==
    /\ At(t, "load")
    /\ disabled' = persisted
    /\ IF persisted THEN thread' = MarkLate([thread EXCEPT ![t].todo = Tail(@)]) ELSE Return(t)
    /\ UNCHANGED <<provider, persisted, snapshotSeq, views, saved, count, overtaken, top>>

take(t) ==
    /\ At(t, "take")
    /\ IF registry = None THEN Return(t)
                          ELSE Done(t, Offline([registry EXCEPT !.disabled = TRUE]))
    /\ UNCHANGED <<provider, flags, snapshotSeq, views, saved, count, overtaken, top>>

Proceed(t) ==
    \/ projectLatestSnapshot(t) \/ isDeviceDisabled(t) \/ acceptSnapshotSequence(t)
    \/ noteSnapshotSequence(t) \/ resetSnapshotSequence(t) \/ register(t) \/ store(t)
    \/ markDeviceUnavailable(t) \/ SetFlag(t) \/ discover(t) \/ load(t) \/ take(t)

Next ==
    \/ \E v \in Value, availability \in Reported : Change(v, availability)
    \/ \E v \in Value, availability \in Reported, s \in 0..(MaxChanges + 1) : Resend(v, availability, s)
    \/ Remove
    \/ \E v \in Value : Add(v)
    \/ handleEvent
    \/ RefreshDevices
    \/ \E u \in User, enabled \in BOOLEAN : SetDeviceEnabled(u, enabled)
    \/ saveStateCheckpoint
    \/ Restart
    \/ \E t \in Thread : Proceed(t)

Spec == Init /\ [][Next]_vars

\* The worker runs whenever it has something to do.
FairSpec == Spec /\ WF_vars(handleEvent) /\ WF_vars(Proceed("worker"))
-----------------------------------------------------------------------------
Quiet == queue = <<>> /\ \A t \in Thread : Ready(t)

\* Neither a refresh nor a request has changed the device since the start; the provider
\* has not started again nor sent anything out of turn; and it numbers its snapshots.
WorkerAlone == count.refreshes = 0 /\ count.toggles = 0
Upwards == count.resends = 0 /\ count.adds = 0 /\ count.boots = 0
Numbered == source.seq > 0

\* When nothing is under way the two views of the device agree: the value of a device
\* that is online is available, the value of one that is not is unavailable
\* (docs/device-model.md lines 83-94), whatever the queue has dropped.  Values without a
\* sequence are ordered by their times, and the store may refuse the last of them.
ViewsAgree ==
    Quiet /\ WorkerAlone /\ Upwards /\ Numbered /\ registry # None =>
        /\ state # None
        /\ state.available <=> Online(registry)

\* The queue stays within its capacity, the views keep their types, and they agree.
PipelineInv == TypeOK /\ ViewsAgree

\* docs/device-model.md line 94: after a device has come back online with a snapshot,
\* its value is available again; line 96 says the same of a provider that numbers its
\* snapshots from one again.
BackOnline == Quiet /\ registry # None /\ Online(registry) => state.available

\* docs/device-model.md line 96: a snapshot that is not newer is dropped before it
\* reaches the registry.  While the worker is alone and the provider does not start
\* again, a numbered snapshot that is registered as online is newer than every numbered
\* one that was registered since the device was last not online, although snapshots
\* without a sequence pass in between (handleDeviceSnapshot, lines 2038-2052, and
\* acceptSnapshotSequence).
NeverBackwards ==
    [][(/\ registry' # registry /\ registry' # None /\ Online(registry') /\ registry'.seq > 0
        /\ WorkerAlone' /\ count'.adds = 0 /\ count'.boots = 0)
            => registry'.seq > top]_vars

\* While no request is under way, a disabled device is registered as disabled and, when
\* nothing at all is under way, its value is unavailable (lines 933-969, 2031-2034,
\* 466-486), unless something was overtaken by the disabling: a snapshot that was checked
\* before the flag was set, or an enabling that cleared the flag before it was set again,
\* and that was written after it.  Any number of requests overlap.
DisabledUnlessOvertaken ==
    disabled /\ ~overtaken /\ (\A t \in User \cup {"main"} : Ready(t)) =>
        /\ registry # None => registry.disabled /\ ~Online(registry)
        /\ Quiet /\ state # None => ~state.available

\* When nothing is under way, the store holds the value of the registered online snapshot
\* or that of a newer one, whoever registered it and whatever was enabled, disabled and
\* refreshed meanwhile (lines 993-996, 2046-2063 and store.go lines 149-157).  This is of
\* a provider that numbers upwards: the values of one that starts again, or that sends
\* another value under the same number, are refused by the store and registered.
StoreNotBehind ==
    Quiet /\ Upwards /\ Numbered /\ registry # None /\ Online(registry) =>
        /\ state # None /\ state.seq >= registry.seq
        /\ state.seq = registry.seq => state.value = registry.value

\* Once the provider has nothing new and its last event was not dropped, the registry
\* shows its last snapshot and, if it is numbered, the store its value: the events
\* dropped before are made good by the last one (enqueueSnapshot, lines 1996-2003).
EventuallyCurrent ==
    <>[](WorkerAlone /\ Upwards /\ ~lost =>
             /\ registry = source
             /\ Online(source) /\ Numbered => state.value = source.value)
=============================================================================
