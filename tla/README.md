# HomeLoom: specification and verification

TLA+ modules for the core of the HomeLoom backend, TLC configurations that check
small instances of them, and TLAPS proofs of what matters most of the command
tracker, the event dispatcher, the state store, the command coordinator, the provider
manager, the provider service and the target manager.
`PROJECT.json` lists components, runs, mutants, findings, hazards and theorems, and maps
every definition to the lines it models. Paths in the modules' comments are relative to
the repository.

## 1. The system

HomeLoom connects devices of several vendors (providers) with a model of its own and
publishes them to HomeKit, Matter, an HTTP API and AI agents (targets and clients).

| Part | State it keeps | Operations | Who touches it |
|---|---|---|---|
| Command tracker `internal/command/tracker.go` | one record per command, index of the pending write of each property, idempotency index, bounded history | begin, coalesce, supersede, transitions, confirm, expire, limits | request goroutines, dispatcher workers, scanner |
| Event dispatcher `internal/eventbus/dispatcher.go` | per shard: four priority queues, coalesce and dedupe index, counter | Publish, worker, Close | provider callbacks, one worker per shard |
| State store `internal/state/store.go` | the selected value of every property, priority policy | Apply, ApplyOptimistic, ResolveOptimistic, MarkStale, Mark…Unavailable, checkpoint | workers, requests, scanner, shutdown |
| Command coordinator `internal/application/command_coordinator.go` | a reference-counted gate per device, gauge of waiting callers | acquire, release | request goroutines |
| Device service `internal/application/device_service.go` | active property operations, disabled devices, last snapshot sequences; owns the parts above | ExecuteProperty, ExecuteCommand, reads and readbacks, snapshot handling, RefreshDevices, SetDeviceEnabled, LoadDevicePreferences, scanner | all of the above |
| Provider service `internal/application/provider_service.go` | configurations in memory and in the store, pending retries of renewed credentials | Save, Delete, Restart, revocation, renewal, persistence of repaired addresses | configuration requests, maintenance loop, callbacks of providers |
| Provider manager `internal/runtime/providermanager` | providers with status and lifecycle mutex, subscriptions, retry worker, routes device → provider, logical devices | Initialize, Apply, Remove, retry, discovery, Close, delegation | provider service, retry goroutine, refreshes |
| Target service `internal/application/target_service.go` and target manager `internal/runtime/targetmanager` | configurations, what users are shown; running targets | Save, Delete, Refresh, ClearPairingIdentity, List; Apply, stop, status reports | configuration requests, target goroutines |
| HomeKit and Matter targets, media runtime, camera kernel, matter runtime | protocol sessions, child processes | | their libraries |
| Mapping and profiles, HTTP interface, persistence, MCP agent, frontend | tables, rows, sessions | | |

How they interact. A provider reports a snapshot of a device; the device service
publishes it to the dispatcher, whose worker maps it, checks whether the device is
disabled and whether the sequence is new, writes the registry and the state store and
confirms pending commands. A property write takes its place among the active
operations of its property, acquires the gate of the device, begins a command in the
tracker, writes an optimistic value, calls the provider and then accepts, rejects or
finds itself superseded. A scanner expires values and commands. Providers and targets
are configured through their services, which store a configuration, tell a manager to
apply it and record the result; managers start and stop instances, and failures come
back later, through a retry worker or a status handler. None of these share
one lock: tracker, store, registry, sequence map, disabled map, operation table and
gates have a mutex each, and the interesting behaviour lies between their critical
sections.

What is hard: requests that join, replace and abandon one another; reports that arrive
between any two steps of a write; late answers of the provider; a refresh, a toggle of
the disabled flag and the worker on one device; a full queue; a provider that starts to
number again; a restart from a checkpoint that is older than what was shown; an
application that fails at any of its steps with the old instance already closed; a
failure reported after the instance was replaced; a renewal of credentials that crosses
an edit, a deletion or a revocation.

What makes each part correct: the tracker's indexes name exactly the unfinished writes
and the retained actions, and finished means finished; the dispatcher handles each
device's line in order and loses nothing it accepted; the store never shows a value as
current that is not, and a version orders all changes; one command per device at a
time, and no caller is forgotten; an answer agrees with the command's fate and a roll
back never destroys a report; registry and store agree about a device, and a disabled
device stays disabled; a provider has one connection and one subscription, and no
failure is left without a retry; a target that runs can be stopped and is shown as what
it is; store, memory and runtime hold the last configuration, and what was revoked never
comes back.

## 2. Modules

`DeviceBus` ← (refinement) `Dispatcher`; `StateValues` → `StateStore`,
`PropertyWrites`, `SnapshotPipeline`; `StateStore` → `StateStoreProofs`;
`SnapshotPipeline` → `SnapshotPipelineProofs`;
`CommandTracker` → `PropertyWrites` → `CommandProofs`; `CommandCoordinator` →
`CommandCoordinatorProofs`; `Targets` → `TargetsProofs`; `Dispatcher` →
`DispatcherProofs`; `ProviderManager` → `ProviderManagerProofs`; `ProviderService` →
`ProviderServiceProofs`. `MC…` modules instantiate a module for TLC.

**CommandTracker** is `tracker.go`. Every operation holds the mutex for its whole state
change and is one action, the pruning of the history that ends it included. The clock
is read before the mutex is taken, so an operation carries a time that may lie behind
those of operations that overtook it. `BeginPropertyCorrelated` is `CoalesceProperty`
and `ReplaceProperty`; `BeginActionIdempotentCorrelated` is `BeginAction`. Several
records with one creation time are evicted in any order, as the map iteration does.

**Dispatcher** is one shard of `dispatcher.go`; a device always hashes to the same shard
and shards share nothing but the closed flag. A queued event is identified by its unique
order field. `Publish` is `Refuse`, `Merge` or `Enqueue`; `next` and `Handled` are the
worker. **DeviceBus** is what a device is promised: a line of places in which a coalescing
key has at most one, a new update takes the place of its key or joins the end, and the
head of a line is handled while nothing else is. `ImplementsDeviceBus` maps an event's
order to its place.

**StateValues** is what the operations of `store.go` make of one value (`normalize`,
`compareLocked` as `Accepts`, roll back, expiry, unavailability, restoring).
**StateStore** is the map of them with the operations as actions, a writer that reads the
value it may restore before it writes, and a restart from a checkpoint.

**CommandCoordinator** is `command_coordinator.go` step by step: the locked regions, the
channel operations and the two atomics of the gauge. Gate objects may be deleted and
allocated again.

**PropertyWrites** is `ExecuteProperty` with its helpers, as goroutines with a program
counter, on top of the tracker's own actions and the values of the store, with the
dispatcher worker's reports and the two halves of the scanner as further actors. A step
ends where the code releases a lock or calls out. The gate is the mutual exclusion that
CommandCoordinator establishes. The history of the tracker has any limit, so a command may
be evicted while its request is still on the way: the request keeps its own copy of the
record (`record`) and looks up what the tracker still has (`KnownSuperseded`). A request
that repeats a pending write shares its command, and answers with it or, if the device is
no longer registered, with an error (`Shared`).

**SnapshotPipeline** is the handling of one device's snapshots by the goroutines worker,
refresh, main (`LoadDevicePreferences` after a start) and any number of users
(`SetDeviceEnabled`, whose calls overlap because `disabledMu` is held for the flag only). A
goroutine is the list of the steps it has still to take, one per critical section. The
provider numbers its snapshots or leaves their sequence 0, may send one under a used
sequence or under none (as the virtual provider's `Simulate` does), and is removed and
added; the loss of events at a full queue, the checkpoint and the restart are actions, too.
Two history variables: `top` is the highest sequence registered since the device was last
not online, and `overtaken` says that something which was checked against the disabled
flag, or enabled, before the device was disabled has been written after it.

**ProviderManager** is the lifecycle in `manager.go`: `Initialize`, `Apply` with live
reconfiguration, replacement and restoration, `Remove`, `DiscoverDevices`, the retry worker
and `Close`, by goroutines with a program counter. An instance of a provider is an element
of `Instance`, with the fields of `managedProvider`, whether its transport is open and how
many subscriptions to it exist. A step ends where `m.mu` or a lifecycle mutex is released
or the provider is called; every such call may fail. A live reconfiguration may succeed
whether or not the transport is open, as in the mqtt and the virtual provider. History
variables say which
providers two callers have changed at once (`overlapped`), which were given up because
`Close` failed (`leaked`) and which were reconfigured without a subscription (`deaf`).

**Targets** is one target in `target_service.go` and `targetmanager/manager.go`. Every
start is an instance with a goroutine that runs, ends, takes its entry out of the table
and reports, in steps of their own; HomeKit, Matter and camera targets differ in how they
become ready and in what their end does. The publication of a camera
(`camera_target_publication.go`) is the publisher of the stored stream and the ownership of
the stream, and each attempt to change it may fail; the history field `left` says that an
attempt to take the publisher away has. Neither part holds a mutex across a call, so
calls interleave freely. History variables name the conditions under which the code's
promise ends: calls that `overlapped`, an exit that `raced` with a call, a stop that was
too `slow`, a call that failed `unreported`.

**ProviderService** is one provider in `provider_service.go`: the configuration in the
store, in memory and in the runtime, the two locks, the maintenance loop and the goroutine
in which a provider announces a repaired address. A configuration is whether it is enabled
and a document of an administrator's edit, an address and a generation of credentials. The
runtime is reduced to the document it runs and whether somebody listens to its repairs;
ProviderManager is what stands behind it.

Data is abstracted to what decisions look at: payloads, trace ids, names, error texts,
metrics and latency statistics are left out, values and ids are model values, and times
are small naturals.

## 3. Runs

Passing runs:

| Run | Shows | Bounds |
|---|---|---|
| `tracker` | both indexes exact, history bounded, `TerminalIsFinal`, `EveryCommandSettles` | 2 commands, 1 property, 1 scope, instants 0–2, history of 1 or 2 |
| `bus` | queues, counter, coalesce and dedupe index agree, the panic in `next` is unreachable, refinement of `DeviceBus`, `Drains` | 5 publications of 6 kinds, 3 places, 2 devices |
| `store` | availability, quality and reason agree, ownership, versions, sequence order, `OptimisticSettles` | 1 property, 2 providers, 1 writer, instants 1–2, sequences 0–2, 1 restart |
| `gates` | mutual exclusion, exact references, exact gauge, `WaitersServed` | 3 callers, 2 devices, 3 gate objects |
| `writes_safety` | `WritesInv` (types, `ReplacedIsFinal`), `AnswerMatchesCommand`, `OptimisticIsOwned`, `ReportNotRolledBack` | 2 requests, 2 commands, 1 property, 2 reports, instants 0–1, history of 1 |
| `writes_return` | `EveryRequestReturns` | as above with 1 report, a standing clock and a history of 1 or 3 |
| `snapshots` | `PipelineInv` (types, `ViewsAgree`), `NeverBackwards`, `EventuallyCurrent` | 2 changes, 1 snapshot out of turn or unnumbered, 1 removal and addition, queue of 1 |
| `snapshots_toggled` | `DisabledUnlessOvertaken`, `StoreNotBehind` | 1 change, 2 users, 2 of: refresh, toggles, restart; 2 values, queue of 1 |
| `providers` | `LifecycleInv` (no lifecycle mutex is forgotten), `OneConnection`, `NeverInitializedTwice`, `SubscribedOnce`, `EventuallySettled` | 1 provider, 3 instances, 2 callers, 3 calls and 2 failures, 4 of both |
| `targets` | `TargetsInv` (the table names live targets), `NoOrphan`, `ServiceIsTrue`, `PublishedWhileRunning`, `CallsReturn` | 3 kinds, 2 versions, 3 instances, 2 calls and 2 failures, 3 of both, and the boot |
| `provider_service` | `ConfigsAreTrue`, `RevokedStaysRevoked`, `RuntimeFollows`, `Progress` | 2 edits, 2 addresses, 2 generations of credentials, 2 calls and 2 failures, 3 of both |

The invariants that end in `Inv` or `Exact` are conjunctions of named parts, the type
invariant of the module among them.

Why the bounds are enough. In the tracker two commands suffice for one that replaces,
overtakes or evicts the other, and the proofs cover every number of them. Five
publications fill the shard's three places with two to spare for a merge and a refusal;
the six kinds of events use all keys and priorities on one device. Two sequences and two
instants are enough for them to disagree in every combination of two reports. With three
callers one leaves, one waits and one enters. Two requests with two values cover join,
replace and the late loser; a third would meet the same table entry. With a history of one
record a superseded command is sometimes still retained when its request looks it up and
sometimes evicted; the proofs cover every limit and any number of requests. A queue with one
place drops the second of two waiting events, and with two changes and a repetition one is
left after a drop. Two overlapping toggles, or one with a refresh or a
restart, meet in every pair of their steps beside the worker; the proofs have any number of
all of them at once. Two calls
on one provider or target meet in every pair of their steps, with a third actor (retry
worker, maintenance loop, goroutine of the instance) that needs no call, and two failures
let a recovery fail as well; three instances are an old one, its successor and one that
has not ended yet, and instances that are over are used again.

Fairness. `tracker` and `store`: time passes and the scanner, a ticker of the device
service, calls `Expire` and `MarkStale` with each tick's time. `bus`: the worker goroutine
runs and handlers return (they have no unbounded wait of their own). `gates`: a caller that
can take a step takes one, in particular a holder finishes; callers may always give up.
`writes_return`: goroutines run and provider calls return, which the code bounds with
contexts; clients and devices may do nothing. `snapshots`: the worker runs; provider, user
and refresh may stop. `providers`: goroutines run and calls of providers return (they take
contexts with deadlines), the retry worker's timer fires, and a report on its way arrives.
`targets`: goroutines run, a cancelled target ends, and a Matter runtime connects or exits.
`provider_service`: goroutines run, and maintenance passes recur, as a ticker starts them.
These are weak fairness of steps that a Go goroutine takes by itself; the mutexes of
`provider_service` need strong fairness, which Go's mutex gives by its starvation mode.
Deadlock is checked where the system cannot stop; `CHECK_DEADLOCK FALSE` stands where all
bounded inputs may be used up or the shard is closed.

One run shows a disagreement, a finding in `PROJECT.json` with the quoted text:
`snapshots_restarted`. The stored value keeps its sequence through offline marks, so the
values of a provider that numbers from one again stay unavailable until it has passed the
old number, although `docs/device-model.md` line 96 says that an offline event resets the
epoch so that it recovers.

Further observations that the models make. Where a property excludes the case, the
exclusion is named; removing it makes TLC show the behaviour.

*Writes.* A report between the read of the previous value (`device_service.go` line 1502)
and the optimistic write is lost when the write fails: the roll back restores the report
before it as current, while `store.go` line 294 says "A provider report that arrived first
is never overwritten". A request that was replaced while it waited for the gate may still
get it after its successor has begun a command, and then supersedes that newer command,
while `docs/http-api.md` lines 112–114 say that a cancelled waiting request creates no
command record and that the later write supersedes the older. A request that is replaced
while it waits answers with its cancelled context (408) and not with the announced
conflict (409). The operation runs in the context of the request that started it, so
joined requests fail when that client goes away. A request whose superseded command has
been evicted from the history finds nothing when it looks the command up (lines 1550, 1556
and 1724) and goes on as if it had not been superseded: its late write is answered with
success. `AnswerMatchesCommand` therefore excludes a success only for rejected commands.
A request that repeats a pending write and finds its device no longer registered answers
an error while the command it shares runs on (lines 1512–1519); of all errors
`AnswerMatchesCommand` allows this one.

*Snapshots.* A snapshot that passed the disabled check just before
`SetDeviceEnabled(false)` brings the disabled device online until the next snapshot, while
`docs/device-model.md` line 83 says that no later event can. So does an enabling that is in
`DiscoverDevices` (line 974) while a later call disables the device: no lock is held across
either call. `DisabledUnlessOvertaken` exempts these two, work checked or begun before the
flag was set and written after it (`overtaken`), and no other. The reverse also happens
and no property is about it: a disabling that is overtaken by an enabling leaves the
enabled device registered as disabled until its next snapshot. A snapshot without a
sequence is always accepted (line 2447), so that the registered sequence may go to 0 and
back; `NeverBackwards` is about the numbered ones. Values without a sequence are ordered by
their times, and the store may refuse one that the registry has taken: `ViewsAgree` and
`StoreNotBehind` are about providers that number (`Numbered`), and about ones that do not
start again (`Upwards`), since the store refuses the values of those that do
(`snapshots_restarted`). After disabling and enabling a device its value stays
unavailable until the next sequence. `RefreshDevices` can register a snapshot older than
the one the worker registers meanwhile (`NeverBackwards` is stated without refreshes).
An event that merges into a waiting one overtakes the events of its device published in
between, which `DeviceBus` allows.

*Providers.* The comment at `providermanager/manager.go` line 712 says that "two
connections with the same provider identity can never overlap". Two calls of `Apply` that
find no provider share no mutex: both open one, and the later replaces the earlier in the
table without closing it; `Remove` takes a provider out of the table before it closes it.
The lock of the provider service does not rule this out, since `Restart` and the renewal
of credentials call `Apply` without it (`overlapped`). A provider whose subscription ended
in a failed `Apply`, or that never had one, is declared running by a live reconfiguration
and stays without subscription (`deaf`). A live reconfiguration of a provider whose
connection has failed declares it running as well, if the provider takes the configuration
over while it is closed; the retry worker then drops the failure, and nothing connects the
provider until it is replaced. `EventuallySettled` exempts exactly these
(`TakenOverUnconnected`). `retryCount` is not reset by a later success of
`Apply`, and `main` never calls the manager's `Close`.

*Targets.* Overlapping `Apply`s leave a target running that nobody can stop: the later one
overwrites the table, and a failed start deletes the entry by id, whoever it belongs to
(`overlapped`). The error report of a failed target may arrive before its call has
registered it, and is lost, or after its successor has been registered, and is shown of
that one (`raced`); an exit during the boot is lost because the handler is set later. A
`stop` that gives up after five seconds lets an old camera target disable the camera that
a new one has enabled (`slow`). When the disabling of a camera fails, nobody looks at the
error (lines 219 and 432 of the manager) and the camera stays published without a target;
the same happens after a failed start whose clean-up fails (`camera_target_publication.go`
line 77), and that one not even the deletion of the target repairs, since the owner is
released. `PublishedWhileRunning` says that these failures (`left`) are what it takes. A
`Refresh` that began before a `Delete` starts the deleted
target again. `List` shows a Matter target whose new configuration could not be applied as
running.

*Provider configurations.* A renewal of credentials compares only the document and
compares before it writes, and `SaveProvider` is an upsert: a disabling, an edit or a
deletion that crosses it is undone (`crossed`). `Restart` applies a configuration that
may be old by then (`restarted`). The retry of a renewal applies without
`bindRuntimeConfigChanges`, so what that instance repairs is never stored; and since every
repair is announced in a goroutine of its own, a newer one can be refused because an older
one has not been stored yet, or one is reported by an instance that was replaced since
(`behind`). A removal that waits for the mutex of an instance while an application of a
restart or a renewal replaces it fails and leaves the new instance in the table
(`providermanager/manager.go` lines 915–918); the model leaves that error out, and
`crossed` and `restarted` exempt such calls. `Delete` of an enabled provider that is not in the
manager's table fails until the provider is disabled.

Every property of a passing run has a mutant: a plausible slip in one mapped definition
under which TLC finds the property violated. Their operators stand before the definitions
they replace, marked `Mutant:`.

## 4. Proofs

`CommandProofs` proves about the tracker, for all sets of ids, keys, values, scopes, timeouts and
limits and any bounds, from the assumptions named in `CommandTracker` (`None` is none of
the ids, keys, scopes and records, and the types of the constants):

* `TypeCorrect`: `Spec => []TypeOK`
* `PendingIndexExact`: `Spec => []PendingExact`
* `IdempotencyIndexExact`: `Spec => []ScopesExact`
* `BothIndexesExact`: `Spec => []IndexesExact`, the three together
* `FinishedIsFinal`: `Spec => TerminalIsFinal`
* `HistoryStaysBounded`: `Spec => []HistoryBounded`

The inductive invariant is `IInv == TypeOK /\ PendingExact /\ ScopesExact /\ RetainedUsed`.
`PendingExact` needs both its halves: `Confirm` finishes whatever the index names without
looking at its status, so the index must name unfinished commands only, and `transition`
and `Expire` delete the entry of a command's key whoever owns it, which is right only if
every unfinished write is the one its key names. `RetainedUsed` makes a fresh id one that
no record and no index entry has. Most operations end by trimming the history; the lemma
`TrimPreserves` shows once that removing terminal records with their scopes keeps all
conjuncts, and each action's lemma then shows the update before it. `FinishedIsFinal`
follows from `IInv` with one lemma per action about the statuses of terminal records.
`HistoryStaysBounded` rests on what trimming leaves, at most `maxItems` records or only
unfinished ones, and on the finished records that an operation adds after it has trimmed:
at most one, the write that a new one has superseded.

`CommandProofs` then proves about the property writes, for any number of requests,
properties, commands and reports, any limit of the history and any bounds, from the
assumptions of `PropertyWrites` (no request, value or state is `None`, the two providers are
providers, at least one report):

* `WritesInductive`: `SpecWrites => []WInv`
* `WritesUseTracker`: `SpecWrites => Spec`, so all of the above holds of the tracker here
* `WritesCorrect`: `SpecWrites => []WritesInv`
* `AnswersMatch`: `SpecWrites => []AnswerMatchesCommand`
* `OptimisticOwned`: `SpecWrites => OptimisticIsOwned`
* `ReportsNotRolledBack`: `SpecWrites => ReportNotRolledBack`

None of the four properties is inductive. `WInv` adds to the tracker's `IInv` and the types
what holds at each label of a request. `LocalOK`: which of its variables are set.
`CommandOK`: its command has been handed out, belongs to its property while the record is
retained, has not been rejected while a success is still possible, and is not live once the
answer is an error. `GateOK`: between acquire and release it has the gate; a command that it
has begun itself is known to no other request and is the only one that can be pending for
the property, and before its optimistic value is stored no value is owned by it. That is why
`applyOptimisticState` never overwrites the value of another unfinished command:
the tracker's index would name that command, and it names none but the writer's own.
`TableOK`: a request that was replaced in the table works on a finished command, and while
propertyMu is held over the replacement the command of the loser is already finished, which
is the order the code's comment at lines 1688–1690 asks for. `ValueOK`: an owned value is
optimistic and its owner, while retained, is a command of that property; a reported value is
known. The last is what makes a reported value become stale, not unknown, when the device
goes away. Two facts carry the proof from one request to the others. A step of the tracker
only lets commands age (`Ages`): a finished command stays finished or is evicted, a key stays,
and only the command named in the step can become rejected. And a value only fades from its
owner (`ResolvedGood`, `ReportedGood`, `MarkedStaleFades`, `MadeUnavailableFades`), with the
one exception of the optimistic write, which the gate protects. With them `OthersKeep` and
`OwnKeeps` show once what a move leaves true of the requests that stay and of the one that
moves, and every action needs one lemma. `WInv` was checked with TLC first, on the bounds of
`writes_safety` with histories of 1 and 3.

`StateStoreProofs` proves, for all sets of keys, values, providers, commands and priority
policies and any bounds, from the assumptions named in `StateValues` and `StateStore`:

* `TypeCorrect`: `Spec => []TypeOK`
* `AvailabilityIsHonest`: `Spec => []AvailabilityHonest`
* `OwnersAreOptimistic`: `Spec => []OwnerIsOptimistic`
* `StoreIsSound`: `Spec => []StoreInv`, the three together
* `VersionsOrderChanges`: `Spec => VersionOrdersChanges`
* `SequencesAreOrdered`: `Spec => SequenceOrder`

Here `IInv` adds two facts to the three invariants. `TakenHonest`: a value that a writer
has read may come back as its fallback after the device went away, so it must be honest
while nobody sees it. `OwnersTook`: a command that owns a value has read the store, so the
`Get` of another command cannot change the key an owner writes. The first part of the
module shows for each operator of `StateValues` that its result `Succeeds` the value it
replaces (typed, honest, next version) and has no owner. `KeepsStep` then covers all
actions but `Get`, the optimistic write, which alone makes an owner, and the restart,
after which nothing has one. For `SequencesAreOrdered` a fallback counts too: a roll back
may restore only the sequence that the optimistic value, which copies it, has had all the
time. `Accepts` is written as a chain of `IF … ELSE IF …`, like the early returns of
`compareLocked`: its tests overlap, and where the tests of a `CASE` overlap TLA+ does not
say which arm is meant, so nothing could be proved of it.

`CommandCoordinatorProofs` proves, for all sets of callers (finite, since they are
counted), devices and gate objects:

* `GatesAreExact`: `Spec => []GateInv`
* `OneCommandPerDevice`: `Spec => []MutualExclusion`

Its `IInv` has a part for the map of gates, one for the tokens and one for the gauge. Mutual
exclusion needs the first two together: the token is one per gate (`TokenPart`), and the
callers of a device share a gate because the gate of a caller is never deleted from the map
while its reference count is right (`GatesExact`), and belongs to one device (`OneDevice`).

`TargetsProofs` proves, for any number of callers, instances and versions, any kinds of
targets and any bounds:

* `TableIsLive`: `Spec => []TargetsInv`
* `NoTargetIsOrphaned`: `Spec => []NoOrphan`
* `ServiceTellsTruth`: `Spec => []ServiceIsTrue`
* `CameraIsPublished`: `Spec => []PublishedWhileRunning`, with all failures of the
  publication

`TableIsLive` covers overlapping calls too; its `IInv` adds that the record of every call is
well formed (`OpsGood`). For `NoTargetIsOrphaned` the invariant `Calm` says, as long as
calls have not overlapped, that one call at most is under way, that a running target is
cancelled or named by the table, that the table is empty from the moment a call has taken
its target down until it starts the next one and names no other while the call waits for
that one, and that a running target is in the table or being waited for unless a stop has
given up waiting.

The last two need a third invariant, `Service`, because the service learns of what the
manager has done only when a call returns. It follows the one call: which calls pass which
places (`Courses`), what is stored meanwhile in terms of what the service remembers
(`Remembers`), where the table is empty (`Emptied`), what the result of the call says of
the table (`AnswerOf`), and when the camera is published (`Publishing`). Between calls, what
is shown is true or the goroutine that has failed has yet to report it (`Displayed`).
`Unraced` says why `raced` is the right exception: unless it is set, no target has exited
while a call is under way, so no report can come between the call's result and its
registration. `Service` was checked with TLC on the `targets` run first.

`DispatcherProofs` proves, for all sets of devices and keys, any capacity and any number of
publications, from the assumptions of `Dispatcher` (a coalesce key belongs to one device:
`device_service.go` line 441 begins the key with the device id):

* `ShardConsistent`: `Spec => []ShardInv`
* `NextNeverPanics`: `Spec => []NoPanic`
* `Refinement`: `Spec => ImplementsDeviceBus`

`ShardInv` is inductive once it is told with sets: `IInv` says which events wait at each
priority, and lemmas about sequences say what appending, removing and moving an event do to
those sets and to the total length. A merge is the hard step: the waiting event may change
its queue, its key and its deduplication key at once. `next` does not panic because the
earliest of the waiting events waits for no other (the natural numbers are well-founded).
The refinement maps the waiting events to the lines of their devices; a publication is a
`Join`, a merge a `Replace`, a refusal a `Drop`, `Close` and the return of the worker are
stutters, and `next` is a `Take` of the first of a line because of its test
`hasEarlierForDevice`.

`ProviderManagerProofs` proves, for any number of providers and callers and any failures,
from the assumptions of `ProviderManager` (there is an instance for each provider, and a
caller to run `Initialize`):

* `LifecycleHolds`: `Spec => []LifecycleInv`
* `InitializedOnce`: `Spec => []NeverInitializedTwice`
* `OneConnectionHolds`: `Spec => []OneConnection`
* `SubscribedOnceHolds`: `Spec => []SubscribedOnce`

The first two follow from `Sound`, which says of each goroutine what its place means: which
local variables are set (`Proper`), that they belong to its provider (`Identity`), which
mutex it holds and what it has closed under it (`Locked`), and that nobody else knows of
its candidate (`Candidate`); besides, that `Initialize` runs alone but for the retry worker
(`Boot`) and that the subscriptions of an instance are the one recorded and those about
to be (`Count`). The last two hold only for a provider that no two callers have changed
at the same time, and need `Orderly`: what a goroutine has read from the table still holds
(`Sole`), an open transport is that of the table or is in the hand of a caller
(`OpenPlace`), a provider outside the table is not subscribed unless it is being removed
(`OffTable`), one that runs is subscribed or about to be (`OnTable`), and one that is being
replaced is not (`Muted`). A step of one goroutine keeps the facts about all others because
of what it can reach (`Reach`, `Changed`), which is proved once and cited by every action.
`Sound` and `Orderly` were checked with TLC on the `providers` run first.

`ProviderServiceProofs` proves, for any number of callers, edits, addresses and generations
of credentials and any failures, from the assumptions of `ProviderService`:

* `Revocations`: `Spec => []RevokedStaysRevoked`
* `Configurations`: `Spec => []ConfigsAreTrue`
* `RunningFollows`: `Spec => []RuntimeFollows`

All rest on `Basic`: what each call carries at each place, who holds the two mutexes, that
calls under way together have been noted (`Apart`) and that a repair changes only the
address (`Repairs`). For the first, `Revocation` adds that a renewal about to write has
seen credentials that nobody has revoked since, that an edit or a repair about to
write brings new credentials or none, and that nothing comes between the two writes of a
revocation. For the second, `Truth`: unless a renewal has crossed an edit, memory is behind
the store only between the two writes of one call, and each call still has the
configuration it began with. For the third, `Runtime`: what is applied is what is in
memory, and what memory does not want is being stopped.

`SnapshotPipelineProofs` proves, for any capacity, window, number of users, changes,
snapshots out of turn, removals, refreshes, toggles and restarts, from the assumptions of
`StateValues` and `SnapshotPipeline` (`None` is not a snapshot, a user is none of the other
goroutines), with the premises on the provider that each property states:

* `PipelineTypes`: `Spec => []TypeOK`
* `StoreKeepsUp`: `Spec => []StoreNotBehind`
* `DisabledStaysDisabled`: `Spec => []DisabledUnlessOvertaken`
* `RegisteredNeverGoesBack`: `Spec => NeverBackwards`
* `ViewsKeepAgreeing`: `Spec => []PipelineInv`

All rest on `Base`: the types, which list of steps each goroutine may have left and what it
carries there (`Control`), and what is true of every snapshot on its way and of the value
of the store (`Sound`, `Written`). `StoreKeepsUp` compares values and not only sequences,
which is right only if a sequence names one value: `Ordered` says that, as long as the
provider numbers upwards, there is a function from sequences to values from which
everything queued, carried, registered and stored is taken (`Labels`); each step is shown
to copy what it writes from what was there (`ItemsFrom`, `ViewsFrom`), and a change extends
the function. `Caught` adds that between registration and store somebody carries a
snapshot at least as new as the registered one, because a second goroutine may register in
between. `DisabledStaysDisabled` needs `Shut`, which says for the time between the flag and
the last mark who has still to register or mark the device: the flag is clear until
the preferences are loaded (`FlagClear`), whoever has passed it carries a disabled snapshot
or is late (`GateShut`), the device is registered as disabled once every disabling has
registered it (`RegistryShut`), a value that is still
available has somebody about to mark it (`StateShut`), and until the preferences are applied
only a removal has emptied the registry (`StartShut`; without it `LoadDevicePreferences`,
which skips devices that are not registered, could leave a value available). The last two
theorems hold while only the worker changes the device: `AloneInv` says that the last
sequence is `top`, except between the acceptance of a snapshot and its registration, where
a numbered online snapshot is newer than `top`; `UpInv`, for a provider that numbers upwards,
orders queue, worker, registry and store, so that the store never refuses a snapshot that
was registered as online.

Only model-checked: all liveness properties (`EveryCommandSettles`, `Drains`,
`OptimisticSettles`, `WaitersServed`, `EveryRequestReturns`, `EventuallyCurrent`,
`EventuallySettled`, `CallsReturn`, `Progress`), which are out of the prover's reach, as is
`ENABLED`. Every safety property that a passing run checks is a theorem.
`BackOnline` is what the code does not keep.

## 5. Not modelled

Listeners of the tracker, which are called after its mutex is released and may see two
transitions of a command in the wrong order; readbacks, reads, acknowledged writes and
actions of the device service; capability and camera availability, the removal of devices
from the registry (which `SetDeviceEnabled` may undo, `device_service.go` line 993) and how
much a clean shutdown may lose (`Close` saves the checkpoint before the dispatcher has
drained, line 1963) in the snapshot pipeline; routes, bindings, identities and delegation
in the provider manager (a discovery publishes the routes it has collected as a whole,
line 386, also for a provider removed meanwhile) and logical devices; authentication
challenges, connection tests and reference checks of the provider service; commissioning,
subscriptions and the validation of configurations in the target service; the protocols of
vendors and targets; mapping; HTTP, authentication and persistence beyond what is saved and
restored; camera kernel, matter runtime, agents and frontend. Much of the repository is of
the last kinds: translations between data formats, drivers of vendor protocols and user
interface, whose behaviour lies in tables and libraries and not in the order of steps.
`PROJECT.json` gives the reason for each; hazards without a property say why.

## 6. Plan

1. `PropertyWrites`: actions (`ExecuteCommand`), acknowledged writes and readbacks;
   `SnapshotPipeline`: capability availability, reads, removal from the registry.
2. Routes and ownership of device ids in `ProviderManager`, with an abstract specification:
   a map of owners that changes atomically.
3. `LogicalDevices`: composition of several providers' devices and delegation of commands.
4. Matter child process protocol and media runtime supervision.
5. Mapping functions as operators against a reference definition.
