--------------------------- MODULE PropertyWrites ---------------------------
(***************************************************************************)
(* Property writes of the device service: ExecuteProperty and its helpers  *)
(* in backend/internal/application/device_service.go, run by any number of *)
(* request goroutines on the properties of one device, against the command *)
(* tracker (module CommandTracker, whose actions are steps here), the      *)
(* values of the state store (StateValues), the device's command gate, the *)
(* dispatcher worker that applies reports and the scanner.                 *)
(*                                                                         *)
(* A step ends where the code releases a lock or calls out: everything     *)
(* between two steps may interleave.  propertyMu is held over two steps    *)
(* when an operation replaces another, because the old command has to be   *)
(* superseded before the old context is cancelled.  The gate is the mutual *)
(* exclusion that CommandCoordinator establishes.                          *)
(*                                                                         *)
(* Left out: the counts of merged requests, readbacks, providers that      *)
(* acknowledge writes (Wake-on-LAN), versions of values, metrics.  A write *)
(* that fails before it reaches the provider (no writer, a device that is  *)
(* no longer registered, mapping error) takes the same path as one that    *)
(* the provider refuses; a request that shares a command and finds its     *)
(* device no longer registered answers with an error of its own.           *)
(***************************************************************************)
EXTENDS CommandTracker

CONSTANTS Op,               \* requests
          Provider,         \* the device's provider and the pseudo provider of writes
          hub,              \* the device's provider
          CommandProvider,  \* the provider id of a write to a property without value
          MaxReports        \* bound: reports of the device

SV == INSTANCE StateValues WITH CommandId <- Id

ASSUME OpAssumption == None \notin Op
ASSUME ProviderAssumption == hub \in Provider /\ CommandProvider \in Provider
ASSUME ValueAssumption == None \notin Value \cup SV!StateValue
ASSUME ReportAssumption == MaxReports \in Nat \ {0}

VARIABLES values,       \* states: the value of each property
          op,           \* the propertyOperation and the local variables of each request
          propertyOps,  \* propertyOps: the active operation of each property
          propertyMu,   \* the request that holds propertyMu between two steps
          gate,         \* the request that holds the device's command gate
          report,       \* the values of the last report, and the keys still to confirm
          reports,      \* the sequence of the last report
          scanned       \* the time of a scan that has not yet expired commands

own == <<values, op, propertyOps, propertyMu, gate, report, reports, scanned>>
allVars == <<vars, own>>

PC == {"idle", "joined", "cancel", "resolveOld", "acquire", "get", "begin", "attach", "drop",
       "resolveSuperseded", "reread", "optimistic", "send", "write", "failed", "reject",
       "written", "accept", "rollback", "release", "finish", "close", "done"}

Outcome == {"none", "ok", "error", "superseded", "unregistered"}

Operation == [pc : PC, key : Key \cup {None}, expected : Value \cup {None},
              command : Id \cup {None}, record : Command \cup {None},
              bound : BOOLEAN, old : Id \cup {None},
              replayed : BOOLEAN, previous : SV!StateValue \cup {None},
              cancelled : BOOLEAN, joined : Op \cup {None}, outcome : Outcome]

NoOperation == [pc |-> "idle", key |-> None, expected |-> None, command |-> None,
                record |-> None, bound |-> FALSE, old |-> None, replayed |-> FALSE, previous |-> None,
                cancelled |-> FALSE, joined |-> None, outcome |-> "none"]

TypeInvariant ==
    /\ TypeOK
    /\ values \in [Key -> SV!StateValue \cup {None}]
    /\ op \in [Op -> Operation]
    /\ propertyOps \in [Key -> Op \cup {None}]
    /\ propertyMu \in Op \cup {None}
    /\ gate \in Op \cup {None}
    /\ report \in [values : [Key -> Value], left : SUBSET Key]
    /\ reports \in 0..MaxReports
    /\ scanned \in Nat
-----------------------------------------------------------------------------
SameStatus == UNCHANGED vars

\* Versions of values are left out: nothing here depends on them.
Unversioned(v) == IF v = None THEN None ELSE [v EXCEPT !.version = 0]

\* ResolveOptimistic(c, fallback); fallback is None for nil.
resolve(c, fallback) ==
    [k \in Key |-> IF values[k] # None /\ values[k].pending = c
                   THEN Unversioned(SV!Resolved(values[k], fallback)) ELSE values[k]]

\* A transition of command c that finds it finished, or evicted, does nothing.
TransitionOrNothing(c, status) ==
    IF Live(c) THEN transition(c, status) ELSE SameStatus

SupersedeOrNothing(c) == IF Live(c) THEN Supersede(c) ELSE SameStatus

At(o, label) == op[o].pc = label

\* The value of k, now current, after a report of v with sequence n.
Reported(k, current, v, n) ==
    Unversioned(SV!Applied(current, SV!Report(hub, v, "reported", n, clock, clock, 0),
                           [p \in Provider |-> 0]))

\* A new request can still get a command before the clock stops.
HasTime == clock + timeout <= MaxClock

InitWrites ==
    /\ Init
    /\ report \in [values : [Key -> Value], left : {{}}]
    /\ values = [k \in Key |-> Reported(k, None, report.values[k], 1)]
    /\ op = [o \in Op |-> NoOperation]
    /\ propertyOps = [k \in Key |-> None]
    /\ propertyMu = None
    /\ gate = None
    /\ reports = 1
    /\ scanned = 0
-----------------------------------------------------------------------------
\* beginPropertyOperation: a request for the value that is being written joins.
Join(o, k, v) ==
    /\ At(o, "idle") /\ propertyMu = None /\ HasTime
    /\ propertyOps[k] # None /\ op[propertyOps[k]].expected = v
    /\ op' = [op EXCEPT ![o].pc = "joined", ![o].key = k, ![o].expected = v,
                        ![o].joined = propertyOps[k]]
    /\ UNCHANGED <<vars, values, propertyOps, propertyMu, gate, report, reports, scanned>>

\* ... the first request for a property starts an operation ...
Start(o, k, v) ==
    /\ At(o, "idle") /\ propertyMu = None /\ HasTime
    /\ propertyOps[k] = None
    /\ op' = [op EXCEPT ![o].pc = "acquire", ![o].key = k, ![o].expected = v]
    /\ propertyOps' = [propertyOps EXCEPT ![k] = o]
    /\ UNCHANGED <<vars, values, propertyMu, gate, report, reports, scanned>>

\* Mutant: the replaced operation's command is not superseded.
ReplaceWithoutSupersede(o, k, v) ==
    /\ At(o, "idle") /\ propertyMu = None /\ HasTime
    /\ propertyOps[k] # None /\ op[propertyOps[k]].expected # v
    /\ op' = [op EXCEPT ![o].pc = "cancel", ![o].key = k, ![o].expected = v]
    /\ propertyMu' = o
    /\ UNCHANGED <<vars, values, propertyOps, gate, report, reports, scanned>>

\* ... and a request for another value first supersedes the command of the active
\* operation, if that has one by now ...
Replace(o, k, v) ==
    LET e       == op[propertyOps[k]]
        changes == e.bound /\ Live(e.command)
    IN /\ At(o, "idle") /\ propertyMu = None /\ HasTime
       /\ propertyOps[k] # None /\ e.expected # v
       /\ IF changes THEN Supersede(e.command) ELSE SameStatus
       /\ op' = [op EXCEPT ![o].pc = "cancel", ![o].key = k, ![o].expected = v,
                           ![o].old = IF changes THEN e.command ELSE None]
       /\ propertyMu' = o
       /\ UNCHANGED <<values, propertyOps, gate, report, reports, scanned>>

\* ... and then cancels its context and takes its place.
CancelReplaced(o) ==
    /\ At(o, "cancel")
    /\ op' = [op EXCEPT ![propertyOps[op[o].key]].cancelled = TRUE,
                        ![o].pc = IF op[o].old = None THEN "acquire" ELSE "resolveOld"]
    /\ propertyOps' = [propertyOps EXCEPT ![op[o].key] = o]
    /\ propertyMu' = None
    /\ UNCHANGED <<vars, values, gate, report, reports, scanned>>

ResolveOld(o) ==
    /\ At(o, "resolveOld")
    /\ values' = resolve(op[o].old, None)
    /\ op' = [op EXCEPT ![o].pc = "acquire", ![o].old = None]
    /\ UNCHANGED <<vars, propertyOps, propertyMu, gate, report, reports, scanned>>

\* acquire: select takes the gate, also when the context has ended meanwhile ...
Acquire(o) ==
    /\ At(o, "acquire") /\ gate = None
    /\ gate' = o
    /\ op' = [op EXCEPT ![o].pc = "get"]
    /\ UNCHANGED <<vars, values, propertyOps, propertyMu, report, reports, scanned>>

\* ... or gives up.
AcquireCancelled(o) ==
    /\ At(o, "acquire") /\ op[o].cancelled
    /\ op' = [op EXCEPT ![o].pc = "finish", ![o].outcome = "error"]
    /\ UNCHANGED <<vars, values, propertyOps, propertyMu, gate, report, reports, scanned>>

GetPrevious(o) ==
    /\ At(o, "get")
    /\ op' = [op EXCEPT ![o].pc = "begin", ![o].previous = values[op[o].key]]
    /\ UNCHANGED <<vars, values, propertyOps, propertyMu, gate, report, reports, scanned>>

\* BeginPropertyCorrelated answers with the pending command of the same value ...
BeginReplayed(o) ==
    /\ At(o, "begin")
    /\ CoalesceProperty(op[o].key, op[o].expected)
    /\ op' = [op EXCEPT ![o].pc = "attach", ![o].command = pending[op[o].key],
                        ![o].replayed = TRUE]
    /\ UNCHANGED <<values, propertyOps, propertyMu, gate, report, reports, scanned>>

\* ... or starts a command and supersedes the pending one of another value.
BeginCommand(o, id) ==
    LET k == op[o].key
    IN /\ At(o, "begin")
       /\ ReplaceProperty(k, op[o].expected, id, clock)
       /\ op' = [op EXCEPT ![o].pc = "attach", ![o].command = id,
                           ![o].record = NewCommand(k, None, op[o].expected, clock),
                           ![o].old = IF pending[k] # None /\ Live(pending[k])
                                      THEN pending[k] ELSE None]
       /\ UNCHANGED <<values, propertyOps, propertyMu, gate, report, reports, scanned>>

\* What a request that shares a command answers: the device, unless it is no longer
\* registered.  The command is left to the request that has begun it.
Shared == {"ok", "unregistered"}

\* setPropertyOperationCommand, and the branch on its answer.
Attach(o) ==
    LET x == op[o]
    IN /\ At(o, "attach") /\ propertyMu = None
       /\ \E outcome \in IF propertyOps[x.key] = o /\ x.replayed THEN Shared ELSE {x.outcome} :
              op' = [op EXCEPT ![o].bound = TRUE,
                               ![o].pc = CASE propertyOps[x.key] # o -> "drop"
                                           [] propertyOps[x.key] = o /\ x.replayed -> "release"
                                           [] propertyOps[x.key] = o /\ ~x.replayed /\ x.old # None
                                                  -> "resolveSuperseded"
                                           [] OTHER -> "optimistic",
                               ![o].outcome = outcome]
       /\ UNCHANGED <<vars, values, propertyOps, propertyMu, gate, report, reports, scanned>>

\* Mutant: the command of a replaced operation is left running.
DropForgets(o) ==
    /\ At(o, "drop")
    /\ op' = [op EXCEPT ![o].pc = "release", ![o].outcome = "superseded"]
    /\ UNCHANGED <<vars, values, propertyOps, propertyMu, gate, report, reports, scanned>>

\* The operation was replaced before its command existed: the command it got, which
\* may be one that it shares, is superseded.
Drop(o) ==
    /\ At(o, "drop")
    /\ SupersedeOrNothing(op[o].command)
    /\ op' = [op EXCEPT ![o].pc = "release", ![o].outcome = "superseded"]
    /\ UNCHANGED <<values, propertyOps, propertyMu, gate, report, reports, scanned>>

ResolveSuperseded(o) ==
    /\ At(o, "resolveSuperseded")
    /\ values' = resolve(op[o].old, None)
    /\ op' = [op EXCEPT ![o].pc = "reread", ![o].old = None]
    /\ UNCHANGED <<vars, propertyOps, propertyMu, gate, report, reports, scanned>>

Reread(o) ==
    /\ At(o, "reread")
    /\ op' = [op EXCEPT ![o].pc = "optimistic", ![o].previous = values[op[o].key]]
    /\ UNCHANGED <<vars, values, propertyOps, propertyMu, gate, report, reports, scanned>>

\* The times are those of the command as it was begun: by now the tracker may have
\* superseded and evicted it.
applyOptimisticState(o) ==
    LET x == op[o]
        p == IF x.previous = None THEN CommandProvider ELSE x.previous.provider
        c == x.record
    IN /\ At(o, "optimistic")
       /\ values' = [values EXCEPT ![x.key] = Unversioned(
              SV!Over(@, SV!Optimistic(p, x.expected, x.command, c.created, c.deadline)))]
       /\ op' = [op EXCEPT ![o].pc = "send"]
       /\ UNCHANGED <<vars, propertyOps, propertyMu, gate, report, reports, scanned>>

Send(o) ==
    /\ At(o, "send")
    /\ TransitionOrNothing(op[o].command, "sent")
    /\ op' = [op EXCEPT ![o].pc = "write"]
    /\ UNCHANGED <<values, propertyOps, propertyMu, gate, report, reports, scanned>>

\* WriteProperty of the provider returns; it may or may not heed the context.
WriteReturns(o, ok) ==
    /\ At(o, "write")
    /\ op' = [op EXCEPT ![o].pc = IF ok THEN "written" ELSE "failed"]
    /\ UNCHANGED <<vars, values, propertyOps, propertyMu, gate, report, reports, scanned>>

\* The tracker still has command c, and has it as superseded.
KnownSuperseded(c) == commands[c] # None /\ commands[c].status = "superseded"

\* The command is looked up after the write: superseded, or still this operation's.
LookUp(o, from, to) ==
    /\ At(o, from)
    /\ op' = IF KnownSuperseded(op[o].command)
             THEN [op EXCEPT ![o].pc = "rollback", ![o].outcome = "superseded"]
             ELSE [op EXCEPT ![o].pc = to]
    /\ UNCHANGED <<vars, values, propertyOps, propertyMu, gate, report, reports, scanned>>

\* Mutant: a failed write rolls back and leaves its command to the scanner.
rejectPropertyWriteLater(o) ==
    /\ At(o, "reject")
    /\ op' = [op EXCEPT ![o].pc = "rollback", ![o].outcome = "error"]
    /\ UNCHANGED <<vars, values, propertyOps, propertyMu, gate, report, reports, scanned>>

rejectPropertyWrite(o) ==
    /\ At(o, "reject")
    /\ TransitionOrNothing(op[o].command, "rejected")
    /\ op' = [op EXCEPT ![o].pc = "rollback", ![o].outcome = "error"]
    /\ UNCHANGED <<values, propertyOps, propertyMu, gate, report, reports, scanned>>

\* Mutant: the value is rolled back whoever owns it.
rollbackAnyOwner(o) ==
    /\ At(o, "rollback")
    /\ values' = [values EXCEPT ![op[o].key] = op[o].previous]
    /\ op' = [op EXCEPT ![o].pc = "release"]
    /\ UNCHANGED <<vars, propertyOps, propertyMu, gate, report, reports, scanned>>

rollbackOptimistic(o) ==
    /\ At(o, "rollback")
    /\ values' = resolve(op[o].command, op[o].previous)
    /\ op' = [op EXCEPT ![o].pc = "release"]
    /\ UNCHANGED <<vars, propertyOps, propertyMu, gate, report, reports, scanned>>

\* The write was accepted; its confirmation is left to the reports that follow.
Accept(o) ==
    /\ At(o, "accept")
    /\ TransitionOrNothing(op[o].command, "accepted")
    /\ op' = [op EXCEPT ![o].pc = "release", ![o].outcome = "ok"]
    /\ UNCHANGED <<values, propertyOps, propertyMu, gate, report, reports, scanned>>

\* Mutant: an operation that leaves without its command keeps the gate.
ReleaseUnlessReplaced(o) ==
    /\ At(o, "release")
    /\ gate' = IF op[o].outcome = "superseded" THEN gate ELSE None
    /\ op' = [op EXCEPT ![o].pc = "finish"]
    /\ UNCHANGED <<vars, values, propertyOps, propertyMu, report, reports, scanned>>

Release(o) ==
    /\ At(o, "release")
    /\ gate' = None
    /\ op' = [op EXCEPT ![o].pc = "finish"]
    /\ UNCHANGED <<vars, values, propertyOps, propertyMu, report, reports, scanned>>

\* finishPropertyOperation looks the command up ...
FinalAnswer(o) ==
    LET x == op[o]
        late == x.command # None /\ KnownSuperseded(x.command)
    IN /\ At(o, "finish")
       /\ op' = [op EXCEPT ![o].pc = "close", ![o].outcome = IF late THEN "superseded" ELSE @]
       /\ UNCHANGED <<vars, values, propertyOps, propertyMu, gate, report, reports, scanned>>

\* ... and then, under propertyMu, leaves the table and wakes the joined requests.
finishPropertyOperation(o) ==
    LET x == op[o]
    IN /\ At(o, "close") /\ propertyMu = None
       /\ op' = [op EXCEPT ![o] = [NoOperation EXCEPT
              !.pc = "done", !.command = x.command, !.outcome = x.outcome]]
       /\ propertyOps' = [propertyOps EXCEPT ![x.key] = IF @ = o THEN None ELSE @]
       /\ UNCHANGED <<vars, values, propertyMu, gate, report, reports, scanned>>

\* A joined request gets the result of the operation, or its own context ends.
JoinedReturns(o) ==
    LET x == op[o]
    IN /\ At(o, "joined")
       /\ \E outcome \in Outcome :
              /\ \/ At(x.joined, "done") /\ outcome = op[x.joined].outcome
                 \/ x.cancelled /\ outcome = "error"
              /\ op' = [op EXCEPT ![o] = [NoOperation EXCEPT !.pc = "done", !.outcome = outcome]]
       /\ UNCHANGED <<vars, values, propertyOps, propertyMu, gate, report, reports, scanned>>

\* The client of o goes away.  Once the request has its gate nothing looks at the
\* context any more but the provider, whose answer is open anyway.
CallerGone(o) ==
    /\ op[o].pc \in {"joined", "cancel", "resolveOld", "acquire"} /\ ~op[o].cancelled
    /\ op' = [op EXCEPT ![o].cancelled = TRUE]
    /\ UNCHANGED <<vars, values, propertyOps, propertyMu, gate, report, reports, scanned>>
-----------------------------------------------------------------------------
\* The dispatcher's worker handles an online snapshot: it stores the values ...
ApplySnapshot(vs) ==
    /\ report.left = {} /\ reports < MaxReports
    /\ reports' = reports + 1
    /\ values' = [k \in Key |-> Reported(k, values[k], vs[k], reports + 1)]
    /\ report' = [values |-> vs, left |-> Key]
    /\ UNCHANGED <<vars, op, propertyOps, propertyMu, gate, scanned>>

\* ... and then confirms the commands they answer, property by property.
ConfirmReported(k) ==
    /\ k \in report.left
    /\ IF pending[k] # None /\ commands[pending[k]].expected = report.values[k]
       THEN Confirm(k, report.values[k]) ELSE SameStatus
    /\ report' = [report EXCEPT !.left = @ \ {k}]
    /\ UNCHANGED <<values, op, propertyOps, propertyMu, gate, reports, scanned>>

\* The worker handles an offline snapshot.
DeviceOffline ==
    /\ report.left = {}
    /\ values' = [k \in Key |-> Unversioned(SV!MadeUnavailable(values[k], "device-offline"))]
    /\ values' # values
    /\ UNCHANGED <<vars, op, propertyOps, propertyMu, gate, report, reports, scanned>>

\* A tick of the scanner first marks expired values ...
ScanValues ==
    /\ scanned = 0 /\ clock > 0
    /\ Overdue(clock) # {} \/ \E k \in Key : SV!Expired(values[k], clock)
    /\ values' = [k \in Key |-> IF SV!Expired(values[k], clock)
                                THEN Unversioned(SV!MarkedStale(values[k])) ELSE values[k]]
    /\ scanned' = clock
    /\ UNCHANGED <<vars, op, propertyOps, propertyMu, gate, report, reports>>

\* ... and then times commands out.
ScanCommands ==
    /\ scanned > 0
    /\ IF Overdue(scanned) # {} THEN Expire(scanned) ELSE SameStatus
    /\ scanned' = 0
    /\ UNCHANGED <<values, op, propertyOps, propertyMu, gate, report, reports>>

\* The clock stops at MaxClock, and before that it waits for requests that have
\* still to get a command whose deadline it can reach.
Pass ==
    /\ Tick
    /\ \/ clock + 1 + timeout <= MaxClock
       \/ \A o \in Op : op[o].pc \notin {"cancel", "resolveOld", "acquire", "get", "begin"}
    /\ UNCHANGED own

\* The steps that the goroutine of request o takes by itself.
Proceed(o) ==
    \/ CancelReplaced(o) \/ ResolveOld(o) \/ Acquire(o) \/ AcquireCancelled(o)
    \/ GetPrevious(o) \/ BeginReplayed(o) \/ (\E id \in Id : BeginCommand(o, id))
    \/ Attach(o) \/ Drop(o) \/ ResolveSuperseded(o) \/ Reread(o) \/ applyOptimisticState(o)
    \/ Send(o) \/ (\E ok \in BOOLEAN : WriteReturns(o, ok))
    \/ LookUp(o, "failed", "reject") \/ rejectPropertyWrite(o) \/ rollbackOptimistic(o)
    \/ LookUp(o, "written", "accept") \/ Accept(o)
    \/ Release(o) \/ FinalAnswer(o) \/ finishPropertyOperation(o) \/ JoinedReturns(o)

Arrive(o) == \E k \in Key, v \in Value : Join(o, k, v) \/ Start(o, k, v) \/ Replace(o, k, v)

NextWrites ==
    \/ \E o \in Op : Arrive(o) \/ Proceed(o) \/ CallerGone(o)
    \/ \E vs \in [Key -> Value] : ApplySnapshot(vs)
    \/ \E k \in Key : ConfirmReported(k)
    \/ DeviceOffline
    \/ ScanValues
    \/ ScanCommands
    \/ Pass

SpecWrites == InitWrites /\ [][NextWrites]_allVars

\* Goroutines run, provider calls return, the worker finishes its snapshot, time
\* passes and the scanner ticks.  Clients and devices may do nothing.
FairWrites ==
    /\ SpecWrites
    /\ \A o \in Op : WF_allVars(Proceed(o))
    /\ \A k \in Key : WF_allVars(ConfirmReported(k))
    /\ WF_allVars(ScanValues) /\ WF_allVars(ScanCommands) /\ WF_allVars(Pass)
-----------------------------------------------------------------------------
\* A write that a newer request has replaced is no longer live when the provider
\* works on it: its command was superseded before its context was cancelled, so
\* that a cancelled write never counts as a rejection (comment at lines 1688-1690).
ReplacedIsFinal ==
    \A o \in Op : At(o, "write") /\ propertyOps[op[o].key] # o => ~Live(op[o].command)

\* The requests, the table of operations, the gate and the stored values keep their
\* types, and a replaced write is final, in every interleaving of the two requests.
WritesInv == TypeInvariant /\ ReplacedIsFinal

\* The optimistic value of an unfinished command is replaced by a report or becomes
\* stale; no roll back and no other write touches it.
OptimisticIsOwned ==
    [][\A k \in Key : \A c \in Id :
          (/\ values[k] # None /\ values[k].pending = c /\ Live(c)
           /\ values'[k] # values[k] /\ reports' = reports)
              => values'[k].quality = "stale"]_allVars

\* A reported value gives way to a newer report, a newer write or staleness, never
\* to the fallback of a write that failed: roll backs find the owner gone (store.go
\* lines 293-313).
ReportNotRolledBack ==
    [][\A k \in Key :
          (values[k].quality = "reported" /\ values'[k] # values[k] /\ reports' = reports)
              => values'[k].quality \in {"optimistic", "stale"}]_allVars

\* The tracker has command c as rejected.
Rejected(c) == commands[c] # None /\ commands[c].status = "rejected"

\* The answer of a request agrees with its command: a success is no rejection, and an
\* error or a superseded answer leaves no command that is still running.  The one error
\* that may is that of a request which shares the command of another and finds the
\* device no longer registered (lines 1512-1517): it leaves a command that was sent to
\* the provider and not rejected.
AnswerMatchesCommand ==
    \A o \in Op : At(o, "done") /\ op[o].command # None =>
        IF op[o].outcome \in Shared THEN ~Rejected(op[o].command) ELSE ~Live(op[o].command)

\* Every request returns, whoever joins, replaces or abandons whom.
EveryRequestReturns == \A o \in Op : ~At(o, "idle") ~> At(o, "done")
=============================================================================
