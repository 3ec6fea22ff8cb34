------------------------------ MODULE Targets ------------------------------
(***************************************************************************)
(* Publication targets: the service of                                     *)
(* backend/internal/application/target_service.go, which keeps the          *)
(* configuration and what users are shown, on top of the manager of         *)
(* backend/internal/runtime/targetmanager/manager.go, which keeps the       *)
(* running targets.                                                        *)
(*                                                                         *)
(* One target is modelled: different ones share only mutexes.  Neither      *)
(* part holds a mutex across a call, so the steps of two calls interleave   *)
(* freely.  A step ends where a mutex is released or a channel, the store   *)
(* or a runtime is waited for.  Every start of the target is an instance    *)
(* with a goroutine of its own.  A configuration is a version and whether   *)
(* it is enabled; pairing data, names, QR codes and lists are left out.     *)
(***************************************************************************)
EXTENDS FiniteSets, Naturals

CONSTANTS
    Kinds,         \* the kinds of targets considered, among "hap", "matter", "camera"
    Version,       \* versions of a configuration
    Instance,      \* starts of the target; one that is over is used again
    Caller,        \* goroutines that call the service
    None,
    MaxCalls,      \* bound on the calls
    MaxFailures,   \* bound on failures, timeouts and exits
    MaxInputs      \* bound on both together

ASSUME KindsAssumption == Kinds \subseteq {"hap", "matter", "camera"}
ASSUME NoneAssumption == None \notin Instance \cup Caller /\ Caller # {}
ASSUME BoundsAssumption == {MaxCalls, MaxFailures, MaxInputs} \subseteq Nat
ASSUME VersionAssumption == Version # {}

VARIABLES
    kind,          \* config.Type
    stored,        \* the row of the store
    configs,       \* TargetService.configs
    shown,         \* TargetService.targets: status and configuration of the registration
    wired,         \* whether main has set the status handler
    running,       \* Manager.running
    inst,          \* the goroutine of each instance
    camera,        \* the publication of the camera: its stored stream and owners
    op,            \* what each caller is doing
    calls, failures,
    overlapped,    \* history: two calls were under way at the same time
    raced,         \* history: an instance exited by itself during a call
    slow,          \* history: a stop has not waited for the end
    unreported     \* history: a call failed after it had stopped the target, and left what is shown

serviceVars == <<stored, configs, shown, wired>>
managerVars == <<running, inst, camera>>
historyVars == <<overlapped, raced, slow, unreported>>
vars == <<kind, serviceVars, managerVars, op, calls, failures, historyVars>>

Config == [version: Version, enabled: BOOLEAN]
Status == {"running", "disabled", "error"}
Registration == [status: Status, config: Config]

\* The publication of a camera: whether the stored stream has a publisher, and whether
\* owners and streams name the target.  As history, whether an attempt to take the
\* publisher away has failed since it was last put in or taken away.
Camera == [published: BOOLEAN, owned: BOOLEAN, left: BOOLEAN]
Unpublished == [published |-> FALSE, owned |-> FALSE, left |-> FALSE]

\* A goroutine runs Start, has sent its result to done, has found that it failed
\* and will report that, or is over.
Run == [at: {"over", "up", "ended", "failed"}, config: Config \cup {None}, cancelled: BOOLEAN, ready: BOOLEAN]
Over == [at |-> "over", config |-> None, cancelled |-> FALSE, ready |-> FALSE]

\* A call of the service: where it is, the configuration it applies, the instance it stops
\* and the one it has started, what follows the stop, and its result.
Operation ==
    [at: {"idle", "apply", "stop", "wait", "enable", "start", "await", "reset", "delete", "forget", "answer"},
     what: {"none", "boot", "save", "delete", "refresh", "clear"},
     item: Config \cup {None}, old: Instance \cup {None}, new: Instance \cup {None},
     next: {"none", "disabled", "enable", "start", "aborted", "reset", "forget"}, result: Status]
Idle == [at |-> "idle", what |-> "none", item |-> None, old |-> None, new |-> None, next |-> "none", result |-> "error"]

ASSUME NothingAssumption == None \notin Config \cup Registration

TypeOK ==
    /\ kind \in Kinds
    /\ stored \in Config \cup {None}
    /\ configs \in Config \cup {None}
    /\ shown \in Registration \cup {None}
    /\ wired \in BOOLEAN /\ camera \in Camera
    /\ running \in Instance \cup {None}
    /\ inst \in [Instance -> Run]
    /\ op \in [Caller -> Operation]
    /\ calls \in 0 .. MaxCalls
    /\ failures \in 0 .. MaxFailures
    /\ <<overlapped, raced, slow, unreported>> \in BOOLEAN \X BOOLEAN \X BOOLEAN \X BOOLEAN

-----------------------------------------------------------------------------
(* Helpers.                                                                *)

Fail == failures < MaxFailures /\ calls + failures < MaxInputs /\ failures' = failures + 1
Succeed == UNCHANGED failures

Active(p) == op[p].at # "idle"
Goto(p, place) == op' = [op EXCEPT ![p].at = place]
Stop(p, next) == op' = [op EXCEPT ![p].at = "stop", ![p].next = next]
Answer(p, result) == op' = [op EXCEPT ![p].at = "answer", ![p].result = result]
Return(p) == op' = [op EXCEPT ![p] = Idle]

\* RuntimeInfo: the status the manager gives for a configuration.
RuntimeStatus(config) ==
    IF running # None THEN "running" ELSE IF config.enabled THEN "error" ELSE "disabled"

\* SetStatus: a Matter target takes the rest from the runtime.
SetStatus(status) ==
    shown' = IF shown = None THEN None
             ELSE [status |-> status,
                   config |-> IF kind = "matter" /\ configs # None THEN configs ELSE shown.config]

\* Manager.setStatus: the handler, once main has set it.
setStatus(status) == IF wired THEN SetStatus(status) ELSE UNCHANGED shown

-----------------------------------------------------------------------------
(* The calls of the service, up to their first call of the manager.         *)

\* Save stores the configuration, or returns when that fails.
Save(p, item) ==
    \/ /\ Succeed
       /\ stored' = item
       /\ op' = [op EXCEPT ![p] = [Idle EXCEPT !.at = "apply", !.what = "save", !.item = item]]
    \/ Fail /\ UNCHANGED <<stored, op>>

\* Delete: an independent camera is stopped and reset before its row is deleted.
Delete(p) ==
    /\ op' = [op EXCEPT ![p] =
          IF configs # None /\ kind = "camera"
          THEN [Idle EXCEPT !.at = "stop", !.what = "delete", !.item = configs, !.next = "reset"]
          ELSE [Idle EXCEPT !.at = "delete", !.what = "delete"]]
    /\ Succeed /\ UNCHANGED stored

\* Refresh applies the enabled configurations it has found at its beginning.
Refresh(p) ==
    /\ configs # None /\ configs.enabled
    /\ op' = [op EXCEPT ![p] = [Idle EXCEPT !.at = "apply", !.what = "refresh", !.item = configs]]
    /\ Succeed /\ UNCHANGED stored

\* ClearPairingIdentity: ResetPairing stops, resets and applies.
ClearPairingIdentity(p) ==
    /\ configs # None /\ kind # "matter"
    /\ op' = [op EXCEPT ![p] = [Idle EXCEPT !.at = "stop", !.what = "clear", !.item = configs, !.next = "reset"]]
    /\ Succeed /\ UNCHANGED stored

\* No other call is made before main has built the service.  Callers are all alike:
\* any idle one stands for the goroutine of a request.
Call ==
    /\ wired
    /\ calls < MaxCalls /\ calls + failures < MaxInputs
    /\ calls' = calls + 1
    /\ \E p \in Caller : ~Active(p)
    /\ LET p == CHOOSE p \in Caller : ~Active(p) IN
          \/ \E item \in Config : Save(p, item)
          \/ Delete(p) \/ Refresh(p) \/ ClearPairingIdentity(p)
    /\ overlapped' = (overlapped \/ \E p \in Caller : Active(p))
    /\ raced' = (raced \/ \E i \in Instance : inst[i].at \in {"ended", "failed"} /\ ~inst[i].cancelled)
    /\ UNCHANGED <<kind, configs, shown, wired, managerVars, slow, unreported>>

-----------------------------------------------------------------------------
(* Manager.Apply and Manager.stop.                                          *)

\* A disabled target is stopped.  For an enabled one the address is checked and
\* the next target is built before the old one is stopped, except for a camera.
Apply(p) ==
    /\ op[p].at = "apply"
    /\ \/ Succeed /\ ~op[p].item.enabled /\ Stop(p, "disabled")
       \/ Succeed /\ op[p].item.enabled /\ Stop(p, IF kind = "camera" THEN "enable" ELSE "start")
       \/ Fail /\ op[p].item.enabled /\ Answer(p, "error")
    /\ UNCHANGED <<kind, serviceVars, managerVars, calls, historyVars>>

\* DisableHomeKitCamera, when it succeeds: a target that owns no stream changes nothing.
DisableHomeKitCamera == camera' = IF camera.owned THEN Unpublished ELSE camera

\* What follows a stop that has ended: the rest of Apply, ResetPairing, RemoveTarget or Delete.
Stopped(p) == CASE op[p].next = "disabled" -> Answer(p, "disabled")
                [] op[p].next = "aborted" -> Answer(p, "error")
                [] OTHER -> Goto(p, op[p].next)

\* Mutant: the target is taken out of the table and not cancelled.
MutantTakeDown(p) ==
    /\ op[p].at = "stop"
    /\ running' = None
    /\ IF running = None THEN Stopped(p) ELSE op' = [op EXCEPT ![p].at = "wait", ![p].old = running]
    /\ UNCHANGED <<kind, serviceVars, inst, camera, calls, failures, historyVars>>

\* stop: the target leaves the table and is cancelled.
TakeDown(p) ==
    /\ op[p].at = "stop"
    /\ running' = None
    /\ IF running = None
       THEN Stopped(p) /\ UNCHANGED inst
       ELSE /\ inst' = [inst EXCEPT ![running].cancelled = TRUE]
            /\ op' = [op EXCEPT ![p].at = "wait", ![p].old = running]
    /\ UNCHANGED <<kind, serviceVars, camera, calls, failures, historyVars>>

\* stop: it has ended, or the wait has.  Delete and an aborted start go on anyway.
AwaitEnd(p) ==
    /\ op[p].at = "wait"
    /\ \/ /\ Succeed
          /\ inst[op[p].old].at # "up"
          /\ Stopped(p)
          /\ UNCHANGED slow
       \/ /\ Fail
          /\ inst[op[p].old].at = "up"
          /\ slow' = TRUE
          /\ IF op[p].next \in {"aborted", "forget"} THEN Stopped(p) ELSE Answer(p, "error")
    /\ UNCHANGED <<kind, serviceVars, managerVars, calls, overlapped, raced, unreported>>

\* The stream is found, the target becomes its owner, the publisher is stored and the
\* runtime told.  The first two failures are of the search and of the store; after a
\* failure of the runtime the publisher is taken away again, whether or not that works.
EnableHomeKitCamera(p) ==
    /\ op[p].at = "enable"
    /\ \/ Succeed /\ camera' = [published |-> TRUE, owned |-> TRUE, left |-> FALSE] /\ Goto(p, "start")
       \/ /\ Fail /\ Answer(p, "error")
          /\ \/ UNCHANGED camera
             \/ camera' = [camera EXCEPT !.owned = FALSE]
             \/ \E stays \in BOOLEAN : camera' = [published |-> stays, owned |-> FALSE, left |-> stays]
    /\ UNCHANGED <<kind, serviceVars, running, inst, calls, historyVars>>

\* The new target is entered, whatever the table holds by now, and started.
Start(p) ==
    /\ op[p].at = "start"
    /\ \E i \in Instance : inst[i].at = "over" /\ \A q \in Caller : i \notin {op[q].old, op[q].new}
    /\ LET i == CHOOSE i \in Instance : inst[i].at = "over" /\ \A q \in Caller : i \notin {op[q].old, op[q].new} IN
        /\ running' = i
        /\ inst' = [inst EXCEPT ![i] = [Over EXCEPT !.at = "up", !.config = op[p].item]]
        /\ op' = [op EXCEPT ![p].at = "await", ![p].old = None, ![p].new = i]
    /\ UNCHANGED <<kind, serviceVars, camera, calls, failures, historyVars>>

\* It has ended: the entry of the table is deleted, whoever it belongs to.
StartFailed(p) ==
    /\ op[p].at = "await"
    /\ inst[op[p].new].at # "up"
    /\ running' = None
    /\ Answer(p, "error")
    /\ UNCHANGED <<kind, serviceVars, inst, camera, calls, failures, historyVars>>

\* Mutant: a target that cannot tell that it is ready is waited for as well.
MutantStarted(p) ==
    /\ op[p].at = "await"
    /\ inst[op[p].new].ready
    /\ Answer(p, "running")
    /\ UNCHANGED <<kind, serviceVars, managerVars, calls, failures, historyVars>>

\* It is ready, or, when it cannot tell, the grace period has passed.
Started(p) ==
    /\ op[p].at = "await"
    /\ kind = "matter" => inst[op[p].new].ready
    /\ Answer(p, "running")
    /\ UNCHANGED <<kind, serviceVars, managerVars, calls, failures, historyVars>>

\* The context of the caller has ended before the target was ready.
StartAborted(p) ==
    /\ op[p].at = "await"
    /\ kind = "matter"
    /\ Fail
    /\ Stop(p, "aborted")
    /\ UNCHANGED <<kind, serviceVars, managerVars, calls, historyVars>>

-----------------------------------------------------------------------------
(* The rest of the service's calls.                                         *)

\* ResetPairing and RemoveTarget: the identity is destroyed; a camera is disabled first,
\* and either may fail.
Reset(p) ==
    /\ op[p].at = "reset"
    /\ \/ /\ Succeed
          /\ DisableHomeKitCamera
          /\ Goto(p, IF op[p].what = "delete" THEN "delete" ELSE "apply")
       \/ /\ Fail
          /\ Answer(p, "error")
          /\ DisableHomeKitCamera \/ UNCHANGED camera
    /\ UNCHANGED <<kind, serviceVars, running, inst, calls, historyVars>>

\* DeleteTarget; a camera has been stopped before, the others are stopped now.
DeleteTarget(p) ==
    /\ op[p].at = "delete"
    /\ \/ /\ Succeed
          /\ stored' = None
          /\ IF op[p].item # None THEN Goto(p, "forget") ELSE Stop(p, "forget")
       \/ /\ Fail
          /\ Answer(p, "error")
          /\ UNCHANGED stored
    /\ UNCHANGED <<kind, configs, shown, wired, managerVars, calls, historyVars>>

Forget(p) ==
    /\ op[p].at = "forget"
    /\ configs' = None
    /\ shown' = None
    /\ unreported' = FALSE
    /\ Return(p)
    /\ UNCHANGED <<kind, stored, wired, managerVars, calls, failures, overlapped, raced, slow>>

\* Mutant: a failed reset of the pairing leaves what is shown.
MutantDone(p) ==
    /\ op[p].at = "answer"
    /\ IF op[p].what # "save" /\ op[p].what # "boot" /\ op[p].result = "error"
       THEN UNCHANGED <<shown, configs, wired>>
       ELSE /\ shown' = [status |-> op[p].result, config |-> op[p].item]
            /\ configs' = IF op[p].what \in {"save", "boot"} THEN op[p].item ELSE configs
            /\ wired' = TRUE
    /\ unreported' = (op[p].what \in {"refresh", "delete"} /\ op[p].result = "error")
    /\ Return(p)
    /\ UNCHANGED <<kind, stored, managerVars, calls, failures, overlapped, raced, slow>>

\* The call records its result.  A failed Refresh or Delete leaves what is shown.
Done(p) == LET registration == [status |-> op[p].result, config |-> op[p].item]
               failed == op[p].result = "error" IN
    /\ op[p].at = "answer"
    /\ \/ /\ op[p].what \in {"save", "boot"}
          /\ shown' = registration
          /\ configs' = op[p].item
          /\ wired' = TRUE
          /\ unreported' = FALSE
       \/ /\ op[p].what \in {"refresh", "clear"} /\ ~failed
          /\ shown' = registration
          /\ unreported' = FALSE
          /\ UNCHANGED <<configs, wired>>
       \/ /\ op[p].what = "clear" /\ failed
          /\ SetStatus("error")
          /\ unreported' = FALSE
          /\ UNCHANGED <<configs, wired>>
       \/ /\ op[p].what \in {"refresh", "delete"} /\ failed
          /\ unreported' = TRUE
          /\ UNCHANGED <<shown, configs, wired>>
    /\ Return(p)
    /\ UNCHANGED <<kind, stored, managerVars, calls, failures, overlapped, raced, slow>>

\* List: what is shown of a Matter target is taken from the runtime.
List ==
    /\ wired /\ kind = "matter" /\ shown # None /\ configs # None
    /\ shown' = [status |-> RuntimeStatus(configs), config |-> configs]
    /\ UNCHANGED <<kind, stored, configs, wired, managerVars, op, calls, failures, historyVars>>

-----------------------------------------------------------------------------
(* The goroutines of the instances.                                         *)

\* A Matter runtime is connected, for the first time or again.
Connected(i) ==
    /\ kind = "matter" /\ inst[i].at = "up"
    /\ inst' = [inst EXCEPT ![i].ready = TRUE]
    /\ setStatus("running")
    /\ UNCHANGED <<kind, stored, configs, wired, running, camera, op, calls, failures, historyVars>>

\* Mutant: the end of a camera target leaves the camera published.
MutantEnds(i) ==
    /\ inst[i].at = "up" /\ inst[i].cancelled
    /\ inst' = [inst EXCEPT ![i] = Over]
    /\ UNCHANGED <<kind, serviceVars, running, camera, op, calls, failures, historyVars>>

\* Start returns because it was cancelled; that of a camera disables it, and nobody
\* looks at the error when that fails.
Ends(i) ==
    /\ inst[i].at = "up" /\ inst[i].cancelled
    /\ inst' = [inst EXCEPT ![i] = Over]
    /\ \/ Succeed /\ DisableHomeKitCamera
       \/ Fail /\ camera.owned /\ camera' = [camera EXCEPT !.left = TRUE]
    /\ UNCHANGED <<kind, serviceVars, running, op, calls, historyVars>>

\* Start fails.
Exits(i) ==
    /\ inst[i].at = "up" /\ ~inst[i].cancelled /\ kind # "camera"
    /\ Fail
    /\ inst' = [inst EXCEPT ![i].at = "ended"]
    /\ raced' = (raced \/ \E p \in Caller : Active(p))
    /\ UNCHANGED <<kind, serviceVars, running, camera, op, calls, overlapped, slow, unreported>>

\* Mutant: the failed target stays in the table.
MutantCleansUp(i) ==
    /\ inst[i].at = "ended"
    /\ inst' = [inst EXCEPT ![i] = IF @.cancelled THEN Over ELSE [@ EXCEPT !.at = "failed"]]
    /\ UNCHANGED <<kind, serviceVars, running, camera, op, calls, failures, historyVars>>

\* Unless it was cancelled meanwhile, it takes its own entry out of the table ...
CleansUp(i) ==
    /\ inst[i].at = "ended"
    /\ inst' = [inst EXCEPT ![i] = IF @.cancelled THEN Over ELSE [@ EXCEPT !.at = "failed"]]
    /\ running' = IF ~inst[i].cancelled /\ running = i THEN None ELSE running
    /\ UNCHANGED <<kind, serviceVars, camera, op, calls, failures, historyVars>>

\* ... and reports the failure, whatever has happened since.
Reports(i) ==
    /\ inst[i].at = "failed"
    /\ inst' = [inst EXCEPT ![i] = Over]
    /\ setStatus("error")
    /\ UNCHANGED <<kind, stored, configs, wired, running, camera, op, calls, failures, historyVars>>

-----------------------------------------------------------------------------
(* The specification.  main applies the stored configuration.               *)

Main == CHOOSE p \in Caller : TRUE
First == CHOOSE v \in Version : TRUE

Init ==
    /\ kind \in Kinds
    /\ stored \in [version: {First}, enabled: BOOLEAN]
    /\ configs = None /\ shown = None /\ wired = FALSE
    /\ running = None
    /\ inst = [i \in Instance |-> Over]
    /\ camera = Unpublished
    /\ op = [p \in Caller |-> IF p = Main THEN [Idle EXCEPT !.at = "apply", !.what = "boot", !.item = stored] ELSE Idle]
    /\ calls = 0 /\ failures = 0
    /\ overlapped = FALSE /\ raced = FALSE /\ slow = FALSE /\ unreported = FALSE

Step(p) ==
    \/ Apply(p) \/ TakeDown(p) \/ AwaitEnd(p) \/ EnableHomeKitCamera(p)
    \/ Start(p) \/ StartFailed(p) \/ Started(p) \/ StartAborted(p)
    \/ Reset(p) \/ DeleteTarget(p) \/ Forget(p) \/ Done(p)

Goroutine(i) == Connected(i) \/ Ends(i) \/ Exits(i) \/ CleansUp(i) \/ Reports(i)

Next == Call \/ (\E p \in Caller : Step(p)) \/ List \/ (\E i \in Instance : Goroutine(i))

Spec == Init /\ [][Next]_vars

\* Goroutines run, a cancelled target ends, and a Matter runtime connects or exits
\* (it gives up by itself when the child process does not answer in time).
Fairness ==
    /\ \A p \in Caller : WF_vars(Step(p))
    /\ \A i \in Instance :
          WF_vars(Ends(i)) /\ WF_vars(Connected(i)) /\ WF_vars(CleansUp(i) \/ Reports(i))

FairSpec == Spec /\ Fairness

-----------------------------------------------------------------------------
(* Properties.                                                             *)

\* The table of the manager never names a target that was cancelled or that has
\* reported its failure, whatever calls overlap: stop takes the entry out before it
\* cancels, and a goroutine that fails takes out its own entry and no other.
RegisteredIsLive == running # None => ~inst[running].cancelled /\ inst[running].at \in {"up", "ended"}

\* The table, the instances and the two views keep their types, and the table names
\* only live targets, in every interleaving of calls, exits and reports.
TargetsInv == TypeOK /\ RegisteredIsLive

\* While calls do not overlap, a target that runs and was not told to end is the
\* one in the table, so that a later call can stop it; and unless a stop has given up
\* waiting (5 seconds), the old one has ended before a new one starts on its address.
\* With overlapping calls both fail: Apply overwrites the entry it finds, and the
\* deletion after a failed start takes out the entry of another call.
Up == {i \in Instance : inst[i].at = "up"}
NoOrphan == ~overlapped =>
    /\ \A i \in Up : inst[i].cancelled \/ running = i
    /\ slow \/ Cardinality(Up) \leq 1

Quiet == wired /\ (\A p \in Caller : ~Active(p)) /\ \A i \in Instance : inst[i].at \notin {"ended", "failed"}

\* Between calls, users are shown "running" only for a target that runs, with the
\* configuration shown, and "disabled" or nothing only when none runs.  This needs
\* that calls did not overlap, that no target exited while a call was under way (its
\* report may come before the call's registration or after that of its successor),
\* that no stop gave up waiting, and that no Refresh or Delete failed halfway.  List
\* shows the configuration of a Matter target that could not be applied as running.
ShownIsTrue == Quiet /\ ~overlapped /\ ~raced /\ ~slow /\ ~unreported =>
    /\ shown # None /\ shown.status = "running" =>
          running # None /\ (kind = "matter" \/ inst[running].config = shown.config)
    /\ shown = None \/ shown.status = "disabled" => running = None

\* Between calls that did not overlap, the service knows what is stored, through all
\* failures of the store and of the runtime: the next start of the process will
\* publish what the service says.
StoreIsTrue == Quiet /\ ~overlapped => stored = configs /\ (configs = None <=> shown = None)

\* What the service shows and what it believes to be stored are both true.
ServiceIsTrue == ShownIsTrue /\ StoreIsTrue

\* A camera whose target is in the table is published and owned by it.  One whose target
\* is not stays published only when taking the publisher away has failed: the error of
\* the goroutine's DisableHomeKitCamera is looked at by nobody, and that of the Update
\* after a failed start is dropped.  Of these two, deleting the target makes good the
\* first, whose owner is still known; what stays published of a deleted target is what
\* a failed start has left.  After a stop that gave up waiting nothing of this is sure:
\* the old goroutine disables the camera that a new Apply has enabled
\* (managedCameraPublication.Start allows itself 10 seconds).
PublishedWhileRunning == kind = "camera" /\ Quiet /\ ~overlapped /\ ~slow =>
    /\ running # None => camera.published /\ camera.owned
    /\ running = None /\ camera.published => camera.left
    /\ configs = None => ~camera.owned

\* Every call returns, whatever other calls and exits do meanwhile.
CallsReturn == \A p \in Caller : Active(p) ~> ~Active(p)

=============================================================================
