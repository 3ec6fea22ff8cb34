-------------------------- MODULE ProviderManager --------------------------
(***************************************************************************)
(* The lifecycle of providers in                                           *)
(* backend/internal/runtime/providermanager/manager.go: the table of        *)
(* managed providers, hot replacement (Apply), removal, discovery, the      *)
(* retry worker and the subscriptions to the providers' reports.            *)
(*                                                                         *)
(* Callers and the retry worker are goroutines with a program counter.  A   *)
(* step ends where the code releases m.mu or calls a provider; a call of a  *)
(* provider and the locked region that records its result are one step      *)
(* where nothing but that provider is looked at in between.  A provider is  *)
(* abstract: it initializes, closes, reconfigures itself, discovers and     *)
(* reports, or fails to, and any call may be answered in any of the ways    *)
(* the code distinguishes.  Snapshots and device events are subscribed in   *)
(* the same manner; the model has one subscription for both, and every      *)
(* provider discovers devices.  The devices and their routes are left out:  *)
(* that a device belongs to another provider is one of the ways in which a  *)
(* discovery fails.                                                        *)
(***************************************************************************)
EXTENDS FiniteSets, Naturals

CONSTANTS
    Provider,      \* provider ids
    Instance,      \* provider objects; one that nobody holds is used again
    Caller,        \* goroutines that call the operations
    Worker,        \* the goroutine of retryLoop
    None,
    MaxCalls,      \* bound on the calls of operations
    MaxFailures,   \* bound on the calls of providers that fail and their invalid reports
    MaxInputs      \* bound on both together

ASSUME WorkerAssumption == Worker \notin Caller
ASSUME NoneAssumption == None \notin Provider \cup Instance \cup Caller \cup {Worker}
ASSUME CallerAssumption == Caller # {}
ASSUME InstanceAssumption ==
    \E f \in [Provider -> Instance] : \A id1, id2 \in Provider : f[id1] = f[id2] => id1 = id2
ASSUME BoundAssumption == MaxCalls \in Nat /\ MaxFailures \in Nat /\ MaxInputs \in Nat

VARIABLES
    table,         \* Manager.providers
    inst,          \* the managedProvider of each instance
    closed,        \* Manager.closed
    op,            \* what each goroutine is doing
    open,          \* the instances whose transport is open
    listening,     \* the number of subscriptions of each instance
    inflight,      \* instances with a report that has left and not arrived yet
    calls,         \* calls of operations so far
    failures,      \* failures so far
    leaked,        \* history: instances given up by a Close that failed
    deaf,          \* history: instances reconfigured while they had no subscription
    overlapped     \* history: providers that two callers have changed at the same time

managerVars == <<table, inst, closed>>
externalVars == <<open, listening, inflight, failures, leaked, deaf>>
callVars == <<calls, overlapped>>
vars == <<managerVars, op, callVars, externalVars>>

Proc == Caller \cup {Worker}
Status == {"unused", "created", "running", "error", "auth_required", "reconfiguring", "retrying", "stopped"}

\* managedProvider; lifecycle is the holder of its mutex.  The status of an
\* instance outside the table is read by nobody and is "unused" here.
Managed == [id: Provider \cup {None}, status: Status, unsubscribe: BOOLEAN, lifecycle: Proc \cup {None}]
Unused == [id |-> None, status |-> "unused", unsubscribe |-> FALSE, lifecycle |-> None]

Place == {"idle", "boot", "applyLock", "reconfigured", "applyClose", "applyInit", "applyInstall", "restore",
          "subscribe", "record", "removeLock", "removeClose", "discover", "fetch",
          "closeWait", "closeNext", "closeLock", "closing", "off", "select", "wait", "exit", "retryClose", "retryInit", "retryInstall"}

\* cur and new are the local variables of the calls, target the instance that
\* attach or a discovery deals with, then what follows attach, left the
\* providers that a loop has still to visit.
Idle == [at |-> "idle", id |-> None, cur |-> None, new |-> None, target |-> None, then |-> "return", left |-> {}]
Off == [Idle EXCEPT !.at = "off"]

TypeOK ==
    /\ table \in [Provider -> Instance \cup {None}]
    /\ inst \in [Instance -> Managed]
    /\ closed \in BOOLEAN
    /\ op \in [Proc -> [at: Place, id: Provider \cup {None}, cur: Instance \cup {None},
                        new: Instance \cup {None}, target: Instance \cup {None},
                        then: {"return", "boot", "discover"}, left: SUBSET Provider]]
    /\ open \in SUBSET Instance
    /\ listening \in [Instance -> Nat]
    /\ inflight \in SUBSET Instance
    /\ calls \in 0 .. MaxCalls
    /\ failures \in 0 .. MaxFailures
    /\ leaked \in SUBSET Instance
    /\ deaf \in SUBSET Instance
    /\ overlapped \in SUBSET Provider

-----------------------------------------------------------------------------
(* Helpers.                                                                *)

Live == {table[id] : id \in Provider} \ {None}
Holders(i) == {p \in Proc : i \in {op[p].cur, op[p].new, op[p].target} \/ inst[i].lifecycle = p}

\* An instance that nobody holds any more may stand for a new one.
Garbage(i) == i \notin Live \cup open \cup inflight /\ Holders(i) = {} /\ listening[i] = 0

\* markFailureLocked: the failure asks for authentication or for a retry.
FailureStatus == {"error", "auth_required"}
markFailureLocked(i, s) == [inst EXCEPT ![i].status = s]

\* The same for an instance that may have left the table meanwhile.
markIfCurrent(i, s) == IF i \in Live THEN markFailureLocked(i, s) ELSE inst

Fail == failures < MaxFailures /\ calls + failures < MaxInputs /\ failures' = failures + 1
Succeed == UNCHANGED failures

Unlock(f, p) == [i \in Instance |-> IF f[i].lifecycle = p THEN [f[i] EXCEPT !.lifecycle = None] ELSE f[i]]

\* startRetryWorker, when op and inst have become o and f.
startRetryWorker(o, f) ==
    IF /\ ~closed
       /\ o[Worker].at = "off"
       /\ \E id \in Provider : table[id] # None /\ f[table[id]].status = "error"
    THEN [o EXCEPT ![Worker] = [Off EXCEPT !.at = "select"]]
    ELSE o

Returned(p) == IF p = Worker THEN [Off EXCEPT !.at = "select"] ELSE Idle

\* A call returns and gives up the mutex it holds; f is what it makes of inst.
Return(p, f) ==
    /\ inst' = Unlock(f, p)
    /\ op' = [op EXCEPT ![p] = Returned(p)]

\* Mutant: the early return forgets the mutex.
MutantReturnAndRetry(p, f) ==
    /\ inst' = f
    /\ op' = startRetryWorker([op EXCEPT ![p] = Returned(p)], f)

ReturnAndRetry(p, f) ==
    /\ inst' = Unlock(f, p)
    /\ op' = startRetryWorker([op EXCEPT ![p] = Returned(p)], f)

Goto(p, place) == op' = [op EXCEPT ![p].at = place]
GotoDiscovery(p) == op' = [op EXCEPT ![p] = [Idle EXCEPT !.at = "discover", !.left = Provider]]
Attach(p, i, after) == [op[p] EXCEPT !.at = "subscribe", !.target = i, !.then = after]

\* The recorded subscription of i ends.
Unsubscribe(i) == listening' = [listening EXCEPT ![i] = IF inst[i].unsubscribe THEN @ - 1 ELSE @]

-----------------------------------------------------------------------------
(* Initialize: the configured providers are started one by one.             *)

InitializeNext(p) ==
    /\ op[p].at = "boot"
    /\ \E id \in op[p].left : LET i == table[id] IN
        /\ inst[i].lifecycle = None
        /\ \/ /\ Succeed
              /\ open' = open \cup {i}
              /\ inst' = [inst EXCEPT ![i].status = "running", ![i].lifecycle = p]
              /\ op' = [op EXCEPT ![p] = [Attach(p, i, "boot") EXCEPT !.id = id, !.left = @ \ {id}]]
           \/ /\ Fail
              /\ \E s \in FailureStatus : inst' = markFailureLocked(i, s)
              /\ op' = [op EXCEPT ![p].left = @ \ {id}]
              /\ UNCHANGED open
    /\ UNCHANGED <<table, closed, listening, inflight, leaked, deaf>>

InitializeDone(p) ==
    /\ op[p].at = "boot"
    /\ op[p].left = {}
    /\ ReturnAndRetry(p, inst)
    /\ UNCHANGED <<table, closed, externalVars>>

-----------------------------------------------------------------------------
(* attach: subscribe, then keep the subscription unless there is one.       *)

Subscribe(p) ==
    /\ op[p].at = "subscribe"
    /\ listening' = [listening EXCEPT ![op[p].target] = @ + 1]
    /\ Goto(p, "record")
    /\ UNCHANGED <<managerVars, open, inflight, failures, leaked, deaf>>

\* What follows attach in Initialize, Apply, restoreAfterFailedReplacement and retryProvider.
AfterAttach(p, f) ==
    \/ /\ op[p].then = "return"
       /\ Return(p, f)
    \/ /\ op[p].then = "boot"
       /\ inst' = Unlock(f, p)
       /\ op' = [op EXCEPT ![p] = [Idle EXCEPT !.at = "boot", !.left = op[p].left]]
    \/ /\ op[p].then = "discover"
       /\ inst' = f
       /\ GotoDiscovery(p)

\* Mutant: the subscription is kept without a look at the one there is.
MutantRecord(p) == LET i == op[p].target IN
    /\ op[p].at = "record"
    /\ UNCHANGED listening
    /\ AfterAttach(p, [inst EXCEPT ![i].unsubscribe = TRUE])
    /\ UNCHANGED <<table, closed, open, inflight, failures, leaked, deaf>>

Record(p) == LET i == op[p].target
                 kept == table[op[p].id] = i /\ ~inst[i].unsubscribe IN
    /\ op[p].at = "record"
    /\ listening' = IF kept THEN listening ELSE [listening EXCEPT ![i] = @ - 1]
    /\ AfterAttach(p, IF kept THEN [inst EXCEPT ![i].unsubscribe = TRUE] ELSE inst)
    /\ UNCHANGED <<table, closed, open, inflight, failures, leaked, deaf>>

-----------------------------------------------------------------------------
(* Apply: a provider is added, reconfigured or replaced.                    *)

Apply(p, id) ==
    /\ op[p].at = "idle"
    /\ \E i \in Instance : Garbage(i)
    /\ LET new == CHOOSE i \in Instance : Garbage(i) IN
        /\ inst' = [inst EXCEPT ![new] = [Unused EXCEPT !.id = id]]
        /\ op' = [op EXCEPT ![p] = [Idle EXCEPT
               !.at = IF table[id] = None THEN "applyInit" ELSE "applyLock",
               !.id = id, !.cur = table[id], !.new = new]]
    /\ UNCHANGED <<table, closed, externalVars>>

\* The provider was removed or replaced while the mutex was awaited.
ApplyChanged(p) ==
    /\ op[p].at = "applyLock"
    /\ inst[op[p].cur].lifecycle = None
    /\ table[op[p].id] # op[p].cur
    /\ Return(p, inst)
    /\ UNCHANGED <<table, closed, externalVars>>

ApplyLocked(p) ==
    /\ op[p].at = "applyLock"
    /\ inst[op[p].cur].lifecycle = None
    /\ table[op[p].id] = op[p].cur

\* Reconfigure fails, or takes the new configuration over.  Nothing asks whether the
\* provider has a connection: the mqtt and the virtual provider take it over without one.
Reconfigure(p) == LET i == op[p].cur IN
    /\ ApplyLocked(p)
    /\ \/ Fail /\ Return(p, inst)
       \/ /\ Succeed
          /\ inst' = [inst EXCEPT ![i].lifecycle = p]
          /\ Goto(p, "reconfigured")
    /\ UNCHANGED <<table, closed, open, listening, inflight, leaked, deaf>>

\* Its discovery fails, or it has been replaced, or it is declared to run.
reconcileReconfigured(p) == LET i == op[p].cur  current == table[op[p].id] = i IN
    /\ op[p].at = "reconfigured"
    /\ \/ Fail /\ Return(p, inst) /\ UNCHANGED deaf
       \/ Succeed /\ ~current /\ Return(p, inst) /\ UNCHANGED deaf
       \/ /\ Succeed /\ current
          /\ inst' = [inst EXCEPT ![i].status = "running"]
          /\ deaf' = IF inst[i].unsubscribe THEN deaf ELSE deaf \cup {i}
          /\ GotoDiscovery(p)
    /\ UNCHANGED <<table, closed, open, listening, inflight, leaked>>

\* Not handled: the current instance is unsubscribed and will be closed.
ReplaceBegin(p) == LET i == op[p].cur IN
    /\ ApplyLocked(p)
    /\ inst' = [inst EXCEPT ![i].status = "reconfiguring", ![i].unsubscribe = FALSE, ![i].lifecycle = p]
    /\ Unsubscribe(i)
    /\ deaf' = deaf \ {i}
    /\ Goto(p, "applyClose")
    /\ UNCHANGED <<table, closed, open, inflight, failures, leaked>>

ReplaceClose(p) == LET i == op[p].cur IN
    /\ op[p].at = "applyClose"
    /\ \/ /\ Succeed
          /\ open' = open \ {i}
          /\ Goto(p, "applyInit")
          /\ UNCHANGED inst
       \/ /\ Fail
          /\ \E s \in FailureStatus : ReturnAndRetry(p, markIfCurrent(i, s))
          /\ UNCHANGED open
    /\ UNCHANGED <<table, closed, listening, inflight, leaked, deaf>>

GiveUpCandidate(p) == op' = [op EXCEPT ![p].at = "restore", ![p].new = None]

ApplyInitialize(p) ==
    /\ op[p].at = "applyInit"
    /\ \/ Succeed /\ open' = open \cup {op[p].new} /\ Goto(p, "applyInstall")
       \/ Fail /\ GiveUpCandidate(p) /\ UNCHANGED open
    /\ UNCHANGED <<managerVars, listening, inflight, leaked, deaf>>

\* Mutant: the candidate is not closed.
MutantCandidateFails(p) ==
    /\ op[p].at = "applyInstall"
    /\ Fail
    /\ GiveUpCandidate(p)
    /\ UNCHANGED <<managerVars, open, listening, inflight, leaked, deaf>>

\* Its discovery fails or names a device of another provider: the candidate is
\* closed, and the result of that is ignored.
CandidateFails(p) ==
    /\ op[p].at = "applyInstall"
    /\ Fail
    /\ \/ open' = open \ {op[p].new} /\ UNCHANGED leaked
       \/ leaked' = leaked \cup {op[p].new} /\ UNCHANGED open
    /\ GiveUpCandidate(p)
    /\ UNCHANGED <<managerVars, listening, inflight, deaf>>

\* The candidate takes the place of whatever is in the table by now.
Install(p) == LET new == op[p].new  old == table[op[p].id] IN
    /\ op[p].at = "applyInstall"
    /\ table' = [table EXCEPT ![op[p].id] = new]
    /\ inst' = [i \in Instance |-> CASE i = new -> [inst[i] EXCEPT !.status = "running"]
                                     [] i = old -> [inst[i] EXCEPT !.status = "unused"]
                                     [] OTHER -> inst[i]]
    /\ deaf' = deaf \ {old}
    /\ op' = [op EXCEPT ![p] = [Attach(p, new, "discover") EXCEPT !.cur = None, !.new = None]]
    /\ UNCHANGED <<closed, open, listening, inflight, failures, leaked>>

restoreAfterFailedReplacement(p) == LET i == op[p].cur IN
    /\ op[p].at = "restore"
    /\ \/ /\ i = None
          /\ Return(p, inst)
          /\ UNCHANGED <<open, failures>>
       \/ /\ i # None
          /\ Succeed
          /\ open' = open \cup {i}
          /\ inst' = IF table[op[p].id] = i THEN [inst EXCEPT ![i].status = "running"] ELSE inst
          /\ op' = [op EXCEPT ![p] = Attach(p, i, "return")]
       \/ /\ i # None
          /\ Fail
          /\ \E s \in FailureStatus : ReturnAndRetry(p, markIfCurrent(i, s))
          /\ UNCHANGED open
    /\ UNCHANGED <<table, closed, listening, inflight, leaked, deaf>>

-----------------------------------------------------------------------------
(* Remove.                                                                 *)

Remove(p, id) ==
    /\ op[p].at = "idle"
    /\ table[id] # None
    /\ op' = [op EXCEPT ![p] = [Idle EXCEPT !.at = "removeLock", !.id = id, !.cur = table[id]]]
    /\ UNCHANGED <<managerVars, externalVars>>

RemoveLocked(p) == LET i == op[p].cur  id == op[p].id IN
    /\ op[p].at = "removeLock"
    /\ inst[i].lifecycle = None
    /\ \/ /\ table[id] # i
          /\ Return(p, inst)
          /\ UNCHANGED <<table, deaf>>
       \/ /\ table[id] = i
          /\ table' = [table EXCEPT ![id] = None]
          /\ inst' = [inst EXCEPT ![i].status = "unused", ![i].lifecycle = p]
          /\ deaf' = deaf \ {i}
          /\ Goto(p, "removeClose")
    /\ UNCHANGED <<closed, open, listening, inflight, failures, leaked>>

\* The subscription ends, then the provider is closed.
RemoveClose(p) == LET i == op[p].cur IN
    /\ op[p].at = "removeClose"
    /\ Unsubscribe(i)
    /\ LET f == [inst EXCEPT ![i].unsubscribe = FALSE] IN
       \/ Succeed /\ open' = open \ {i} /\ inst' = f /\ GotoDiscovery(p) /\ UNCHANGED leaked
       \/ Fail /\ leaked' = leaked \cup {i} /\ Return(p, f) /\ UNCHANGED open
    /\ UNCHANGED <<table, closed, inflight, deaf>>

-----------------------------------------------------------------------------
(* DiscoverDevices, by itself and as broadcastDiscovery at the end of a      *)
(* change.                                                                 *)

DiscoverDevices(p) ==
    /\ op[p].at = "idle"
    /\ GotoDiscovery(p)
    /\ UNCHANGED <<managerVars, externalVars>>

\* A provider that is not running is passed over, and so is one that was added
\* after the list of providers was taken.
DiscoverLook(p) ==
    /\ op[p].at = "discover"
    /\ \E id \in op[p].left :
          \/ op' = [op EXCEPT ![p].left = @ \ {id}]
          \/ /\ table[id] # None
             /\ inst[table[id]].status = "running"
             /\ op' = [op EXCEPT ![p].at = "fetch", ![p].left = @ \ {id}, ![p].target = table[id]]
    /\ UNCHANGED <<managerVars, externalVars>>

\* The provider answers, or it fails and is marked, still in the table or not.
DiscoverFetch(p) == LET next == [op EXCEPT ![p].at = "discover", ![p].target = None] IN
    /\ op[p].at = "fetch"
    /\ \/ Succeed /\ op' = next /\ UNCHANGED inst
       \/ /\ Fail
          /\ \E s \in FailureStatus : inst' = markIfCurrent(op[p].target, s)
          /\ op' = startRetryWorker(next, inst')
    /\ UNCHANGED <<table, closed, open, listening, inflight, leaked, deaf>>

\* All providers were asked, or two of them have answered with the same device.
DiscoverDone(p) ==
    /\ \/ op[p].at = "discover" /\ op[p].left = {}
       \/ op[p].at = "fetch"
    /\ Return(p, inst)
    /\ UNCHANGED <<table, closed, externalVars>>

-----------------------------------------------------------------------------
(* The retry worker.                                                       *)

RetrySelect ==
    /\ op[Worker].at = "select"
    /\ \E id \in Provider :
          /\ table[id] # None
          /\ inst[table[id]].status = "error"
          /\ op' = [op EXCEPT ![Worker] = [Off EXCEPT !.at = "wait", !.id = id, !.cur = table[id]]]
    /\ UNCHANGED <<managerVars, externalVars>>

\* The loop has found nothing to retry, or its context has ended while it waited.
RetryEnd ==
    /\ \/ op[Worker].at = "select" /\ \A id \in Provider : table[id] # None => inst[table[id]].status # "error"
       \/ op[Worker].at = "wait" /\ closed
    /\ op' = [op EXCEPT ![Worker] = [Off EXCEPT !.at = "exit"]]
    /\ UNCHANGED <<managerVars, externalVars>>

\* Mutant: the worker ends without a last look at the table.
MutantRetryExit ==
    /\ op[Worker].at = "exit"
    /\ op' = [op EXCEPT ![Worker] = Off]
    /\ UNCHANGED <<managerVars, externalVars>>

\* The deferred function: a failure recorded since then starts the worker again.
RetryExit ==
    /\ op[Worker].at = "exit"
    /\ op' = startRetryWorker([op EXCEPT ![Worker] = Off], inst)
    /\ UNCHANGED <<managerVars, externalVars>>

retryProvider == LET i == op[Worker].cur IN
    /\ op[Worker].at = "wait"
    /\ inst[i].lifecycle = None
    /\ \/ /\ table[op[Worker].id] # i \/ inst[i].status # "error"
          /\ Return(Worker, inst)
       \/ /\ table[op[Worker].id] = i
          /\ inst[i].status = "error"
          /\ inst' = [inst EXCEPT ![i].status = "retrying", ![i].lifecycle = Worker]
          /\ Goto(Worker, "retryClose")
    /\ UNCHANGED <<table, closed, externalVars>>

\* Close, Initialize or the discovery fails.
RetryFails ==
    /\ op[Worker].at \in {"retryClose", "retryInit", "retryInstall"}
    /\ Fail
    /\ \E s \in FailureStatus : Return(Worker, markIfCurrent(op[Worker].cur, s))
    /\ UNCHANGED <<table, closed, open, listening, inflight, leaked, deaf>>

\* Mutant: the provider is initialized again without having been closed.
MutantRetryClose ==
    /\ op[Worker].at = "retryClose"
    /\ Goto(Worker, "retryInit")
    /\ UNCHANGED <<managerVars, externalVars>>

RetryClose ==
    /\ op[Worker].at = "retryClose"
    /\ open' = open \ {op[Worker].cur}
    /\ Goto(Worker, "retryInit")
    /\ UNCHANGED <<managerVars, listening, inflight, failures, leaked, deaf>>

RetryInitialize ==
    /\ op[Worker].at = "retryInit"
    /\ open' = open \cup {op[Worker].cur}
    /\ Goto(Worker, "retryInstall")
    /\ UNCHANGED <<managerVars, listening, inflight, failures, leaked, deaf>>

RetryInstall == LET i == op[Worker].cur IN
    /\ op[Worker].at = "retryInstall"
    /\ \/ /\ table[op[Worker].id] # i
          /\ Return(Worker, inst)
       \/ /\ table[op[Worker].id] = i
          /\ inst' = [inst EXCEPT ![i].status = "running"]
          /\ op' = [op EXCEPT ![Worker] = Attach(Worker, i, "discover")]
    /\ UNCHANGED <<table, closed, externalVars>>

-----------------------------------------------------------------------------
(* Invalid reports, which mark the provider; valid ones change nothing       *)
(* here.  A report that has left the provider arrives whatever happens.      *)

Report(i) ==
    /\ listening[i] > 0
    /\ Fail
    /\ inflight' = inflight \cup {i}
    /\ UNCHANGED <<managerVars, op, open, listening, leaked, deaf>>

ReportArrives(i) ==
    /\ i \in inflight
    /\ inflight' = inflight \ {i}
    /\ inst' = markIfCurrent(i, "error")
    /\ op' = startRetryWorker(op, inst')
    /\ UNCHANGED <<table, closed, open, listening, failures, leaked, deaf>>

-----------------------------------------------------------------------------
(* Close.                                                                  *)

Close(p) ==
    /\ op[p].at = "idle"
    /\ ~closed
    /\ closed' = TRUE
    /\ op' = [op EXCEPT ![p] = [Idle EXCEPT !.at = "closeWait", !.left = {id \in Provider : table[id] # None}]]
    /\ UNCHANGED <<table, inst, externalVars>>

\* The worker has ended, or the context of the caller has.
CloseWaited(p) ==
    /\ op[p].at = "closeWait"
    /\ Goto(p, "closeNext")
    /\ UNCHANGED <<managerVars, externalVars>>

CloseNext(p) ==
    /\ op[p].at = "closeNext"
    /\ \E id \in op[p].left : LET rest == [op[p] EXCEPT !.left = @ \ {id}] IN
          op' = [op EXCEPT ![p] = IF table[id] = None THEN rest ELSE [rest EXCEPT !.at = "closeLock", !.cur = table[id]]]
    /\ UNCHANGED <<managerVars, externalVars>>

CloseLocked(p) == LET i == op[p].cur IN
    /\ op[p].at = "closeLock"
    /\ inst[i].lifecycle = None
    /\ inst' = [inst EXCEPT ![i].lifecycle = p]
    /\ Unsubscribe(i)
    /\ Goto(p, "closing")
    /\ UNCHANGED <<table, closed, open, inflight, failures, leaked, deaf>>

CloseProvider(p) == LET i == op[p].cur IN
    /\ op[p].at = "closing"
    /\ \/ Succeed /\ open' = open \ {i} /\ UNCHANGED leaked
       \/ Fail /\ leaked' = leaked \cup {i} /\ UNCHANGED open
    /\ inst' = Unlock([inst EXCEPT ![i].status = IF i \in Live THEN "stopped" ELSE "unused", ![i].unsubscribe = FALSE], p)
    /\ op' = [op EXCEPT ![p].at = "closeNext", ![p].cur = None]
    /\ UNCHANGED <<table, closed, listening, inflight, deaf>>

CloseDone(p) ==
    /\ op[p].at = "closeNext"
    /\ op[p].left = {}
    /\ Return(p, inst)
    /\ UNCHANGED <<table, closed, externalVars>>

-----------------------------------------------------------------------------
(* The specification.  New has filled the table; main calls Initialize.     *)

First == CHOOSE f \in [Provider -> Instance] : \A id1, id2 \in Provider : f[id1] = f[id2] => id1 = id2
Main == CHOOSE p \in Caller : TRUE

Init ==
    /\ \E configured \in SUBSET Provider :
          /\ table = [id \in Provider |-> IF id \in configured THEN First[id] ELSE None]
          /\ inst = [i \in Instance |-> IF \E id \in configured : First[id] = i
                        THEN [Unused EXCEPT !.id = CHOOSE id \in Provider : First[id] = i, !.status = "created"]
                        ELSE Unused]
          /\ op = [p \in Proc |-> CASE p = Main -> [Idle EXCEPT !.at = "boot", !.left = configured]
                                   [] p = Worker -> Off
                                   [] OTHER -> Idle]
    /\ closed = FALSE
    /\ open = {}
    /\ listening = [i \in Instance |-> 0]
    /\ inflight = {}
    /\ calls = 0 /\ failures = 0
    /\ leaked = {}
    /\ deaf = {}
    /\ overlapped = {}

\* Steps a goroutine takes by itself once it has been called.
Step(p) ==
    /\ \/ InitializeNext(p) \/ InitializeDone(p) \/ Subscribe(p) \/ Record(p)
       \/ ApplyChanged(p) \/ Reconfigure(p) \/ reconcileReconfigured(p) \/ ReplaceBegin(p) \/ ReplaceClose(p)
       \/ ApplyInitialize(p) \/ CandidateFails(p) \/ Install(p) \/ restoreAfterFailedReplacement(p)
       \/ RemoveLocked(p) \/ RemoveClose(p)
       \/ DiscoverLook(p) \/ DiscoverFetch(p) \/ DiscoverDone(p)
       \/ CloseWaited(p) \/ CloseNext(p) \/ CloseLocked(p) \/ CloseProvider(p) \/ CloseDone(p)
    /\ UNCHANGED callVars

Retry ==
    /\ \/ RetrySelect \/ RetryEnd \/ RetryExit \/ retryProvider
       \/ RetryFails \/ RetryClose \/ RetryInitialize \/ RetryInstall
    /\ UNCHANGED callVars

WorkerStep == Step(Worker) \/ Retry

\* No other call is made before Initialize has returned, and none after Close.
Booted == \A p \in Caller : op[p].at # "boot" /\ op[p].then # "boot"

Call ==
    /\ Booted /\ ~closed
    /\ calls < MaxCalls /\ calls + failures < MaxInputs
    /\ calls' = calls + 1
    /\ \E p \in Caller :
          \/ \E id \in Provider :
                /\ Apply(p, id) \/ Remove(p, id)
                /\ overlapped' = IF \E q \in Caller : op[q].id = id THEN overlapped \cup {id} ELSE overlapped
          \/ (DiscoverDevices(p) \/ Close(p)) /\ UNCHANGED overlapped

Reports ==
    /\ \E i \in Instance : Report(i) \/ ReportArrives(i)
    /\ UNCHANGED callVars

Next == (\E p \in Caller : Step(p)) \/ WorkerStep \/ Call \/ Reports

Spec == Init /\ [][Next]_vars

\* Goroutines run, calls of providers return and reports arrive.
Fairness ==
    /\ \A p \in Caller : WF_vars(Step(p))
    /\ WF_vars(WorkerStep)
    /\ WF_vars(\E i \in Instance : ReportArrives(i) /\ UNCHANGED callVars)

FairSpec == Spec /\ Fairness

-----------------------------------------------------------------------------
(* Properties.                                                             *)

\* A goroutine that holds the lifecycle mutex of a provider is at work on it: it
\* is never back in its caller, never waits for the mutex of another provider,
\* for the worker or for a timer.  So every early return of Apply, Remove,
\* retryProvider and Close has unlocked, and no two of them wait for each other.
Waiting(p) == op[p].at \in {"idle", "boot", "applyLock", "removeLock", "closeWait", "closeNext", "closeLock",
                            "off", "select", "wait", "exit"}
LocksReleased == \A i \in Instance : inst[i].lifecycle # None => ~Waiting(inst[i].lifecycle)

\* No early return and no failure of a lifecycle operation leaves a mutex locked or a
\* goroutine in a place it cannot be.
LifecycleInv == TypeOK /\ LocksReleased

\* "Two connections with the same provider identity can never overlap" (the
\* comment of Apply), as far as it holds: as long as callers change a provider one
\* after the other, whatever the retry worker, discoveries, reports and failures
\* do meanwhile.  A provider that was given up because its Close failed may stay.
OneConnection ==
    \A i, j \in open \ leaked : inst[i].id = inst[j].id /\ inst[i].id \notin overlapped => i = j

\* No provider is initialized while its transport is open, which strict providers
\* refuse as a duplicate initialization (the comment in retryProvider): not by a
\* retry, not as a candidate and not when it is restored.
NeverInitializedTwice == \A p \in Proc :
    /\ op[p].at = "applyInit" => op[p].new \notin open
    /\ op[p].at = "restore" => op[p].cur \notin open
    /\ op[p].at = "retryInit" => op[p].cur \notin open
    /\ op[p].at = "boot" => \A id \in op[p].left : table[id] \notin open

\* Between two attachments a provider has at most one subscription, a running one
\* has exactly one, and one that has left the table and is held by nobody has none:
\* reports are neither doubled nor lost nor sent for removed providers.  The
\* exception is a provider that was reconfigured while it had no subscription:
\* reconcileReconfigured declares it running and does not attach it.
Attaching(i) == \E p \in Proc : op[p].at \in {"subscribe", "record"} /\ op[p].target = i
SubscribedOnce == \A i \in Instance : ~Attaching(i) /\ ~closed /\ inst[i].id \notin overlapped =>
    /\ listening[i] \leq 1
    /\ i \in Live /\ inst[i].status = "running" => listening[i] = 1 \/ i \in deaf
    /\ i \notin Live /\ Holders(i) = {} => listening[i] = 0

\* Once failures stop, every provider comes to rest: it runs and is connected, it waits
\* for the user's credentials, or it was removed.  No failure, recorded at whatever
\* moment of the retry worker's life, is left without a worker that takes it up.  The
\* exception is a provider that has taken a configuration over while it had no
\* connection: line 888 declares it running, the worker drops the failure (line 1682),
\* and nothing connects it.
Settled(id) ==
    \/ closed \/ table[id] = None
    \/ inst[table[id]].status = "auth_required"
    \/ inst[table[id]].status = "running" /\ table[id] \in open
TakenOverUnconnected(id) ==
    \E p \in Caller : op[p].at = "reconfigured" /\ op[p].id = id /\ op[p].cur \notin open
EventuallySettled == \A id \in Provider : <>[]Settled(id) \/ <>TakenOverUnconnected(id)

=============================================================================
