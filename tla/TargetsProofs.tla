--------------------------- MODULE TargetsProofs ---------------------------
(***************************************************************************)
(* For any number of callers, instances and versions, any kinds of targets *)
(* and any bounds: the state of the target service and of the target       *)
(* manager keeps its types, and the table of the manager never names a     *)
(* target that was cancelled or whose failure is being reported, although  *)
(* calls, exits and late reports interleave without a common lock.  While  *)
(* calls do not overlap, no target runs that the table does not name and   *)
(* nobody has cancelled, and no two run unless a stop gave up waiting;     *)
(* between two calls the service remembers what is stored and shows what   *)
(* runs, and a camera is published while its target is in the table, and   *)
(* afterwards only when taking the publisher away has failed, each under   *)
(* the conditions its property states.                                     *)
(***************************************************************************)
EXTENDS Targets, FiniteSetTheorems, TLAPS

\* A call that applies a configuration has one, and a stop knows what follows it.
GoodOp(r) ==
    /\ r \in Operation
    /\ r.what \in {"boot", "save", "refresh", "clear"} => r.item \in Config
    /\ r.at \in {"stop", "wait"} => r.next # "none"

OpsGood == op \in [Caller -> Operation] /\ \A p \in Caller : GoodOp(op[p])

\* The inductive invariant.
IInv == TypeOK /\ RegisteredIsLive /\ OpsGood

Places == {"idle", "apply", "stop", "wait", "enable", "start", "await", "reset", "delete", "forget", "answer"}
-----------------------------------------------------------------------------
\* A caller without a call has a well-formed record.
LEMMA IdleGood == GoodOp(Idle)
  BY DEF GoodOp, Idle, Operation, Status

\* Replacing the record of one caller by a well-formed one keeps all well formed.
LEMMA SetOp ==
    ASSUME OpsGood, NEW p \in Caller, NEW r, GoodOp(r), op' = [op EXCEPT ![p] = r]
    PROVE  OpsGood'
  BY DEF OpsGood, GoodOp

\* The moves of a call keep its record well formed.
LEMMA GotoGood ==
    ASSUME OpsGood, NEW p \in Caller, NEW place \in Places \ {"stop", "wait"}, Goto(p, place)
    PROVE  OpsGood'
  <1> DEFINE r == [op[p] EXCEPT !.at = place]
  <1>1. GoodOp(op[p]) BY DEF OpsGood
  <1>2. GoodOp(r) BY <1>1 DEF GoodOp, Operation, Places
  <1>3. op' = [op EXCEPT ![p] = r] BY DEF Goto, OpsGood
  <1> HIDE DEF r
  <1>4. QED BY <1>2, <1>3, SetOp

LEMMA StopGood ==
    ASSUME OpsGood, NEW p \in Caller,
           NEW next \in {"disabled", "enable", "start", "aborted", "reset", "forget"}, Stop(p, next)
    PROVE  OpsGood'
  <1> DEFINE r == [op[p] EXCEPT !.at = "stop", !.next = next]
  <1>1. GoodOp(op[p]) BY DEF OpsGood
  <1>2. GoodOp(r)
    <2>1. r \in Operation
      <3> DEFINE s == [op[p] EXCEPT !.at = "stop"]
      <3>1. s \in Operation BY <1>1 DEF GoodOp, Operation
      <3>2. r = [s EXCEPT !.next = next] BY <1>1 DEF GoodOp, Operation
      <3> HIDE DEF s, r
      <3>3. QED BY <3>1, <3>2 DEF Operation
    <2>2. r.what = op[p].what /\ r.item = op[p].item /\ r.next = next
      BY <1>1 DEF GoodOp, Operation
    <2> HIDE DEF r
    <2>3. QED BY <1>1, <2>1, <2>2 DEF GoodOp
  <1>3. op' = [op EXCEPT ![p] = r] BY DEF Stop, OpsGood
  <1> HIDE DEF r
  <1>4. QED BY <1>2, <1>3, SetOp

LEMMA AnswerGood ==
    ASSUME OpsGood, NEW p \in Caller, NEW result \in Status, Answer(p, result)
    PROVE  OpsGood'
  <1> DEFINE r == [op[p] EXCEPT !.at = "answer", !.result = result]
  <1>1. GoodOp(op[p]) BY DEF OpsGood
  <1>2. GoodOp(r)
    <2>1. r \in Operation BY <1>1 DEF GoodOp, Operation
    <2>2. r.what = op[p].what /\ r.item = op[p].item /\ r.at = "answer"
      BY <1>1 DEF GoodOp, Operation
    <2> HIDE DEF r
    <2>3. QED BY <1>1, <2>1, <2>2 DEF GoodOp
  <1>3. op' = [op EXCEPT ![p] = r] BY DEF Answer, OpsGood
  <1> HIDE DEF r
  <1>4. QED BY <1>2, <1>3, SetOp

LEMMA ReturnGood ==
    ASSUME OpsGood, NEW p \in Caller, Return(p)
    PROVE  OpsGood'
  BY IdleGood, SetOp DEF Return

LEMMA StoppedGood ==
    ASSUME OpsGood, NEW p \in Caller, op[p].at \in {"stop", "wait"}, Stopped(p)
    PROVE  OpsGood'
  <1>1. GoodOp(op[p]) BY DEF OpsGood
  <1>2. op[p].next \in {"disabled", "enable", "start", "aborted", "reset", "forget"}
    BY <1>1 DEF GoodOp, Operation
  <1>3. "disabled" \in Status /\ "error" \in Status BY DEF Status
  <1>4. CASE op[p].next = "disabled" BY <1>3, <1>4, AnswerGood DEF Stopped
  <1>5. CASE op[p].next = "aborted" BY <1>3, <1>5, AnswerGood DEF Stopped
  <1>6. CASE op[p].next \in {"enable", "start", "reset", "forget"}
    <2>1. Goto(p, op[p].next) BY <1>6 DEF Stopped
    <2>2. op[p].next \in Places \ {"stop", "wait"} BY <1>6 DEF Places
    <2>3. QED BY <2>1, <2>2, GotoGood
  <1>7. QED BY <1>2, <1>4, <1>5, <1>6
-----------------------------------------------------------------------------
\* One more call or failure stays within its bound.
LEMMA CountCall ==
    ASSUME calls \in 0 .. MaxCalls, calls < MaxCalls PROVE calls + 1 \in 0 .. MaxCalls
  BY BoundsAssumption

LEMMA FailOrNot ==
    ASSUME failures \in 0 .. MaxFailures, Fail \/ Succeed PROVE failures' \in 0 .. MaxFailures
  BY BoundsAssumption DEF Fail, Succeed

\* SetStatus keeps the type of what is shown.
LEMMA SetStatusTyped ==
    ASSUME shown \in Registration \cup {None}, configs \in Config \cup {None},
           NEW status \in Status, setStatus(status) \/ SetStatus(status)
    PROVE  shown' \in Registration \cup {None}
  <1>1. CASE SetStatus(status)
    BY <1>1 DEF SetStatus, Registration
  <1>2. CASE setStatus(status)
    BY <1>2, <1>1 DEF setStatus, SetStatus, Registration
  <1>3. QED BY <1>1, <1>2

\* The three parts of the invariant: what the service keeps and the counters, the
\* table with its goroutines, and the calls.
ServiceTyped ==
    /\ kind \in Kinds
    /\ stored \in Config \cup {None}
    /\ configs \in Config \cup {None}
    /\ shown \in Registration \cup {None}
    /\ wired \in BOOLEAN /\ camera \in Camera
    /\ calls \in 0 .. MaxCalls
    /\ failures \in 0 .. MaxFailures
    /\ overlapped \in BOOLEAN /\ raced \in BOOLEAN /\ slow \in BOOLEAN /\ unreported \in BOOLEAN

TableGood ==
    /\ inst \in [Instance -> Run]
    /\ running \in Instance \cup {None}
    /\ RegisteredIsLive

LEMMA Parts == IInv <=> ServiceTyped /\ TableGood /\ OpsGood
  BY DEF IInv, ServiceTyped, TableGood, OpsGood, TypeOK

LEMMA PartsPrime ==
    ASSUME ServiceTyped', TableGood', OpsGood' PROVE IInv'
  BY DEF IInv, ServiceTyped, TableGood, OpsGood, TypeOK

\* A changed goroutine is still one, and the table names a live one.
LEMMA SetRun ==
    ASSUME TableGood, NEW i \in Instance, NEW r \in Run, inst' = [inst EXCEPT ![i] = r],
           running' = running \/ running' = None \/ running' = i,
           running' = i => ~r.cancelled /\ r.at \in {"up", "ended"}
    PROVE  TableGood'
  BY NoneAssumption DEF TableGood, RegisteredIsLive

LEMMA KeepRuns ==
    ASSUME TableGood, UNCHANGED inst, UNCHANGED running \/ running' = None
    PROVE  TableGood'
  BY DEF TableGood, RegisteredIsLive

\* An operation that leaves the service alone, apart from a failure it counts.
LEMMA KeepService ==
    ASSUME ServiceTyped, UNCHANGED <<kind, serviceVars, calls, historyVars>>,
           camera' \in Camera, Fail \/ Succeed
    PROVE  ServiceTyped'
  BY FailOrNot DEF ServiceTyped, serviceVars, historyVars

\* Whatever is done to the publication of a camera keeps its type.
LEMMA DisableTyped ==
    ASSUME camera \in Camera, DisableHomeKitCamera \/ UNCHANGED camera PROVE camera' \in Camera
  <1>1. Unpublished \in Camera BY DEF Unpublished, Camera
  <1>2. QED BY <1>1 DEF DisableHomeKitCamera

LEMMA EnableTyped ==
    ASSUME camera \in Camera, NEW p \in Caller, EnableHomeKitCamera(p) PROVE camera' \in Camera
  <1>1. CASE camera' = [published |-> TRUE, owned |-> TRUE, left |-> FALSE] BY <1>1 DEF Camera
  <1>2. CASE UNCHANGED camera BY <1>2
  <1>3. CASE camera' = [camera EXCEPT !.owned = FALSE] BY <1>3 DEF Camera
  <1>4. ASSUME NEW stays \in BOOLEAN, camera' = [published |-> stays, owned |-> FALSE, left |-> stays]
        PROVE  camera' \in Camera
    <2>1. [published |-> stays, owned |-> FALSE, left |-> stays] \in Camera BY DEF Camera
    <2>2. QED BY <1>4, <2>1
  <1>5. QED BY <1>1, <1>2, <1>3, <1>4 DEF EnableHomeKitCamera

LEMMA EndsTyped ==
    ASSUME camera \in Camera, NEW i \in Instance, Ends(i) PROVE camera' \in Camera
  <1>1. CASE DisableHomeKitCamera BY <1>1, DisableTyped
  <1>2. CASE camera' = [camera EXCEPT !.left = TRUE] BY <1>2 DEF Camera
  <1>3. QED BY <1>1, <1>2 DEF Ends

\* The names of results and places, as members of their sets.
LEMMA Names ==
    /\ "running" \in Status /\ "disabled" \in Status /\ "error" \in Status
    /\ \A place \in {"idle", "apply", "enable", "start", "await", "reset", "delete", "forget"} :
           place \in Places \ {"stop", "wait"}
  BY DEF Status, Places
-----------------------------------------------------------------------------
\* Starting a call.
LEMMA CallStep == ASSUME IInv, Call PROVE IInv'
  <1>1. ServiceTyped /\ TableGood /\ OpsGood BY Parts
  <1>2. PICK p \in Caller :
            (\E item \in Config : Save(p, item)) \/ Delete(p) \/ Refresh(p) \/ ClearPairingIdentity(p)
    <2> DEFINE q == CHOOSE c \in Caller : ~Active(c)
    <2>1. q \in Caller BY DEF Call
    <2>2. QED BY <2>1 DEF Call
  <1>3. OpsGood' /\ stored' \in Config \cup {None} /\ (Fail \/ Succeed)
    <2>1. CASE \E item \in Config : Save(p, item)
      <3>1. PICK item \in Config : Save(p, item) BY <2>1
      <3>2. CASE Fail /\ UNCHANGED <<stored, op>>
        BY <3>2, <1>1 DEF OpsGood, ServiceTyped
      <3>3. CASE ~(Fail /\ UNCHANGED <<stored, op>>)
        <4> DEFINE r == [Idle EXCEPT !.at = "apply", !.what = "save", !.item = item]
        <4>1. op' = [op EXCEPT ![p] = r] /\ stored' = item /\ Succeed BY <3>1, <3>3 DEF Save
        <4>2. GoodOp(r) BY DEF GoodOp, Idle, Operation, Status
        <4> HIDE DEF r
        <4>3. QED BY <1>1, <4>1, <4>2, SetOp
      <3>4. QED BY <3>2, <3>3
    <2>2. CASE Delete(p)
      <3> DEFINE r == [Idle EXCEPT !.at = "stop", !.what = "delete", !.item = configs, !.next = "reset"]
                 s == [Idle EXCEPT !.at = "delete", !.what = "delete"]
      <3>1. op' = [op EXCEPT ![p] = r] \/ op' = [op EXCEPT ![p] = s] BY <2>2 DEF Delete
      <3>2. configs \in Config \cup {None} BY <1>1 DEF ServiceTyped
      <3>3. GoodOp(r) BY <3>2 DEF GoodOp, Idle, Operation, Status
      <3>4. GoodOp(s) BY DEF GoodOp, Idle, Operation, Status
      <3>5. stored' \in Config \cup {None} /\ Succeed BY <1>1, <2>2 DEF Delete, ServiceTyped
      <3> HIDE DEF r, s
      <3>6. QED BY <1>1, <3>1, <3>3, <3>4, <3>5, SetOp
    <2>3. CASE Refresh(p)
      <3> DEFINE r == [Idle EXCEPT !.at = "apply", !.what = "refresh", !.item = configs]
      <3>1. op' = [op EXCEPT ![p] = r] /\ configs # None BY <2>3 DEF Refresh
      <3>2. configs \in Config BY <1>1, <3>1 DEF ServiceTyped
      <3>3. GoodOp(r) BY <3>2 DEF GoodOp, Idle, Operation, Status
      <3>4. stored' \in Config \cup {None} /\ Succeed BY <1>1, <2>3 DEF Refresh, ServiceTyped
      <3> HIDE DEF r
      <3>5. QED BY <1>1, <3>1, <3>3, <3>4, SetOp
    <2>4. CASE ClearPairingIdentity(p)
      <3> DEFINE r == [Idle EXCEPT !.at = "stop", !.what = "clear", !.item = configs, !.next = "reset"]
      <3>1. op' = [op EXCEPT ![p] = r] /\ configs # None BY <2>4 DEF ClearPairingIdentity
      <3>2. configs \in Config BY <1>1, <3>1 DEF ServiceTyped
      <3>3. GoodOp(r) BY <3>2 DEF GoodOp, Idle, Operation, Status
      <3>4. stored' \in Config \cup {None} /\ Succeed
        BY <1>1, <2>4 DEF ClearPairingIdentity, ServiceTyped
      <3> HIDE DEF r
      <3>5. QED BY <1>1, <3>1, <3>3, <3>4, SetOp
    <2>5. QED BY <1>2, <2>1, <2>2, <2>3, <2>4
  <1>4. overlapped' \in BOOLEAN /\ raced' \in BOOLEAN BY DEF Call
  <1>5. calls' \in 0 .. MaxCalls BY <1>1, CountCall DEF Call, ServiceTyped
  <1>6. failures' \in 0 .. MaxFailures BY <1>1, <1>3, FailOrNot DEF ServiceTyped
  <1>7. ServiceTyped' BY <1>1, <1>3, <1>4, <1>5, <1>6 DEF Call, ServiceTyped, managerVars
  <1>8. TableGood' BY <1>1, KeepRuns DEF Call, managerVars
  <1>9. QED BY <1>3, <1>7, <1>8, PartsPrime
-----------------------------------------------------------------------------
\* Apply and stop.
LEMMA ApplyStep == ASSUME IInv, NEW p \in Caller, Apply(p) PROVE IInv'
  <1>1. ServiceTyped /\ TableGood /\ OpsGood BY Parts
  <1>2. OpsGood'
    <2>1. CASE Stop(p, "disabled") BY <1>1, <2>1, StopGood
    <2>2. CASE Stop(p, "enable") BY <1>1, <2>2, StopGood
    <2>3. CASE Stop(p, "start") BY <1>1, <2>3, StopGood
    <2>4. CASE Answer(p, "error") BY <1>1, <2>4, AnswerGood, Names
    <2>5. QED BY <2>1, <2>2, <2>3, <2>4 DEF Apply
  <1>3. ServiceTyped' BY <1>1, KeepService DEF Apply, managerVars, ServiceTyped
  <1>4. TableGood' BY <1>1, KeepRuns DEF Apply, managerVars
  <1>5. QED BY <1>2, <1>3, <1>4, PartsPrime

LEMMA TakeDownStep == ASSUME IInv, NEW p \in Caller, TakeDown(p) PROVE IInv'
  <1>1. ServiceTyped /\ TableGood /\ OpsGood BY Parts
  <1>2. ServiceTyped' BY <1>1, KeepService DEF TakeDown, ServiceTyped, Succeed
  <1>3. CASE running = None
    <2>1. OpsGood' BY <1>1, <1>3, StoppedGood DEF TakeDown
    <2>2. TableGood' BY <1>1, <1>3, KeepRuns DEF TakeDown
    <2>3. QED BY <1>2, <2>1, <2>2, PartsPrime
  <1>4. CASE running # None
    <2>1. running \in Instance BY <1>1, <1>4 DEF TableGood
    <2> DEFINE run == [inst[running] EXCEPT !.cancelled = TRUE]
               r == [op[p] EXCEPT !.at = "wait", !.old = running]
    <2>2. run \in Run BY <1>1, <2>1 DEF TableGood, Run
    <2>3. inst' = [inst EXCEPT ![running] = run] /\ running' = None
      BY <1>1, <1>4, <2>1 DEF TakeDown, TableGood
    <2>4. op' = [op EXCEPT ![p] = r] BY <1>1, <1>4 DEF TakeDown, OpsGood
    <2>5. GoodOp(op[p]) /\ op[p].at = "stop" BY <1>1 DEF OpsGood, TakeDown
    <2>6. GoodOp(r) BY <2>1, <2>5 DEF GoodOp, Operation
    <2> HIDE DEF r, run
    <2>7. running' # running BY <2>1, <2>3, NoneAssumption
    <2>8. OpsGood' BY <1>1, <2>4, <2>6, SetOp
    <2>9. TableGood' BY <1>1, <2>1, <2>2, <2>3, <2>7, SetRun
    <2>10. QED BY <1>2, <2>8, <2>9, PartsPrime
  <1>5. QED BY <1>3, <1>4

LEMMA AwaitEndStep == ASSUME IInv, NEW p \in Caller, AwaitEnd(p) PROVE IInv'
  <1>1. ServiceTyped /\ TableGood /\ OpsGood BY Parts
  <1>2. OpsGood'
    <2>1. CASE Stopped(p) BY <1>1, <2>1, StoppedGood DEF AwaitEnd
    <2>2. CASE Answer(p, "error") BY <1>1, <2>2, AnswerGood, Names
    <2>3. QED BY <2>1, <2>2 DEF AwaitEnd
  <1>3. Fail \/ Succeed BY DEF AwaitEnd
  <1>4. slow' \in BOOLEAN BY <1>1 DEF AwaitEnd, ServiceTyped
  <1>5. ServiceTyped'
    BY <1>1, <1>3, <1>4, FailOrNot DEF AwaitEnd, ServiceTyped, serviceVars, managerVars
  <1>6. TableGood' BY <1>1, KeepRuns DEF AwaitEnd, managerVars
  <1>7. QED BY <1>2, <1>5, <1>6, PartsPrime

LEMMA EnableStep == ASSUME IInv, NEW p \in Caller, EnableHomeKitCamera(p) PROVE IInv'
  <1>1. ServiceTyped /\ TableGood /\ OpsGood BY Parts
  <1>2. OpsGood'
    <2>1. CASE Goto(p, "start") BY <1>1, <2>1, GotoGood, Names
    <2>2. CASE Answer(p, "error") BY <1>1, <2>2, AnswerGood, Names
    <2>3. QED BY <2>1, <2>2 DEF EnableHomeKitCamera
  <1>3. ServiceTyped' BY <1>1, KeepService, EnableTyped DEF EnableHomeKitCamera, ServiceTyped
  <1>4. TableGood' BY <1>1, KeepRuns DEF EnableHomeKitCamera
  <1>5. QED BY <1>2, <1>3, <1>4, PartsPrime

LEMMA StartStep == ASSUME IInv, NEW p \in Caller, Start(p) PROVE IInv'
  <1>1. ServiceTyped /\ TableGood /\ OpsGood BY Parts
  <1>2. PICK i \in Instance :
            /\ running' = i
            /\ inst' = [inst EXCEPT ![i] = [Over EXCEPT !.at = "up", !.config = op[p].item]]
            /\ op' = [op EXCEPT ![p].at = "await", ![p].old = None, ![p].new = i]
    <2> DEFINE j == CHOOSE i \in Instance :
                        inst[i].at = "over" /\ \A q \in Caller : i \notin {op[q].old, op[q].new}
    <2>1. j \in Instance BY DEF Start
    <2>2. QED BY <2>1 DEF Start
  <1> DEFINE run == [Over EXCEPT !.at = "up", !.config = op[p].item]
             r == [op[p] EXCEPT !.at = "await", !.old = None, !.new = i]
  <1>3. GoodOp(op[p]) BY <1>1 DEF OpsGood
  <1>4. run \in Run /\ ~run.cancelled /\ run.at = "up" BY <1>3 DEF Run, Over, GoodOp, Operation
  <1>5. GoodOp(r) BY <1>3 DEF GoodOp, Operation
  <1>6. op' = [op EXCEPT ![p] = r] BY <1>1, <1>2 DEF OpsGood
  <1> HIDE DEF r
  <1>7. OpsGood' BY <1>1, <1>5, <1>6, SetOp
  <1>8. inst' = [inst EXCEPT ![i] = run] BY <1>2
  <1> HIDE DEF run
  <1>9. TableGood' BY <1>1, <1>2, <1>4, <1>8, SetRun
  <1>10. ServiceTyped' BY <1>1, KeepService DEF Start, ServiceTyped, Succeed
  <1>11. QED BY <1>7, <1>9, <1>10, PartsPrime

LEMMA StartFailedStep == ASSUME IInv, NEW p \in Caller, StartFailed(p) PROVE IInv'
  <1>1. ServiceTyped /\ TableGood /\ OpsGood BY Parts
  <1>2. OpsGood' BY <1>1, AnswerGood, Names DEF StartFailed
  <1>3. ServiceTyped' BY <1>1, KeepService DEF StartFailed, ServiceTyped, Succeed
  <1>4. TableGood' BY <1>1, KeepRuns DEF StartFailed
  <1>5. QED BY <1>2, <1>3, <1>4, PartsPrime

LEMMA StartedStep == ASSUME IInv, NEW p \in Caller, Started(p) PROVE IInv'
  <1>1. ServiceTyped /\ TableGood /\ OpsGood BY Parts
  <1>2. OpsGood' BY <1>1, AnswerGood, Names DEF Started
  <1>3. ServiceTyped' BY <1>1, KeepService DEF Started, ServiceTyped, Succeed, managerVars
  <1>4. TableGood' BY <1>1, KeepRuns DEF Started, managerVars
  <1>5. QED BY <1>2, <1>3, <1>4, PartsPrime

LEMMA StartAbortedStep == ASSUME IInv, NEW p \in Caller, StartAborted(p) PROVE IInv'
  <1>1. ServiceTyped /\ TableGood /\ OpsGood BY Parts
  <1>2. OpsGood' BY <1>1, StopGood DEF StartAborted
  <1>3. ServiceTyped' BY <1>1, KeepService DEF StartAborted, ServiceTyped, managerVars
  <1>4. TableGood' BY <1>1, KeepRuns DEF StartAborted, managerVars
  <1>5. QED BY <1>2, <1>3, <1>4, PartsPrime
-----------------------------------------------------------------------------
\* The rest of the service's calls.
LEMMA ResetStep == ASSUME IInv, NEW p \in Caller, Reset(p) PROVE IInv'
  <1>1. ServiceTyped /\ TableGood /\ OpsGood BY Parts
  <1>2. OpsGood'
    <2>1. CASE Goto(p, "delete") BY <1>1, <2>1, GotoGood, Names
    <2>2. CASE Goto(p, "apply") BY <1>1, <2>2, GotoGood, Names
    <2>3. CASE Answer(p, "error") BY <1>1, <2>3, AnswerGood, Names
    <2>4. QED BY <2>1, <2>2, <2>3 DEF Reset
  <1>3. ServiceTyped' BY <1>1, KeepService, DisableTyped DEF Reset, ServiceTyped
  <1>4. TableGood' BY <1>1, KeepRuns DEF Reset
  <1>5. QED BY <1>2, <1>3, <1>4, PartsPrime

LEMMA DeleteTargetStep == ASSUME IInv, NEW p \in Caller, DeleteTarget(p) PROVE IInv'
  <1>1. ServiceTyped /\ TableGood /\ OpsGood BY Parts
  <1>2. OpsGood'
    <2>1. CASE Goto(p, "forget") BY <1>1, <2>1, GotoGood, Names
    <2>2. CASE Stop(p, "forget") BY <1>1, <2>2, StopGood
    <2>3. CASE Answer(p, "error") BY <1>1, <2>3, AnswerGood, Names
    <2>4. QED BY <2>1, <2>2, <2>3 DEF DeleteTarget
  <1>3. stored' \in Config \cup {None} /\ (Fail \/ Succeed)
    BY <1>1 DEF DeleteTarget, ServiceTyped
  <1>4. ServiceTyped'
    BY <1>1, <1>3, FailOrNot DEF DeleteTarget, ServiceTyped, managerVars, historyVars
  <1>5. TableGood' BY <1>1, KeepRuns DEF DeleteTarget, managerVars
  <1>6. QED BY <1>2, <1>4, <1>5, PartsPrime

LEMMA ForgetStep == ASSUME IInv, NEW p \in Caller, Forget(p) PROVE IInv'
  <1>1. ServiceTyped /\ TableGood /\ OpsGood BY Parts
  <1>2. OpsGood' BY <1>1, ReturnGood DEF Forget
  <1>3. ServiceTyped' BY <1>1 DEF Forget, ServiceTyped, managerVars
  <1>4. TableGood' BY <1>1, KeepRuns DEF Forget, managerVars
  <1>5. QED BY <1>2, <1>3, <1>4, PartsPrime

\* What a call registers has a configuration, since only Delete may have none.
LEMMA DoneStep == ASSUME IInv, NEW p \in Caller, Done(p) PROVE IInv'
  <1>1. ServiceTyped /\ TableGood /\ OpsGood BY Parts
  <1>2. OpsGood' BY <1>1, ReturnGood DEF Done
  <1> DEFINE registration == [status |-> op[p].result, config |-> op[p].item]
  <1>3. GoodOp(op[p]) BY <1>1 DEF OpsGood
  <1>4. op[p].what \in {"boot", "save", "refresh", "clear"} =>
            op[p].item \in Config /\ registration \in Registration
    BY <1>3 DEF GoodOp, Operation, Registration
  <1>5. /\ shown' \in Registration \cup {None}
        /\ configs' \in Config \cup {None}
        /\ wired' \in BOOLEAN /\ unreported' \in BOOLEAN
    <2>1. CASE op[p].what \in {"save", "boot"}
      BY <1>4, <2>1 DEF Done
    <2>2. CASE op[p].what \in {"refresh", "clear"} /\ op[p].result # "error"
      BY <1>1, <1>4, <2>2 DEF Done, ServiceTyped
    <2>3. CASE op[p].what = "clear" /\ op[p].result = "error"
      <3>1. SetStatus("error") /\ unreported' = FALSE /\ UNCHANGED <<configs, wired>>
        BY <2>3 DEF Done
      <3>2. QED BY <1>1, <3>1, SetStatusTyped, Names DEF ServiceTyped
    <2>4. CASE op[p].what \in {"refresh", "delete"} /\ op[p].result = "error"
      BY <1>1, <2>4 DEF Done, ServiceTyped
    <2>5. QED BY <2>1, <2>2, <2>3, <2>4 DEF Done
  <1>6. ServiceTyped' BY <1>1, <1>5 DEF Done, ServiceTyped, managerVars
  <1>7. TableGood' BY <1>1, KeepRuns DEF Done, managerVars
  <1>8. QED BY <1>2, <1>6, <1>7, PartsPrime

LEMMA ListStep == ASSUME IInv, List PROVE IInv'
  <1>1. ServiceTyped /\ TableGood /\ OpsGood BY Parts
  <1>2. RuntimeStatus(configs) \in Status BY DEF RuntimeStatus, Status
  <1>3. shown' \in Registration
    BY <1>1, <1>2 DEF List, ServiceTyped, Registration
  <1>4. ServiceTyped' BY <1>1, <1>3 DEF List, ServiceTyped, managerVars, historyVars
  <1>5. TableGood' BY <1>1, KeepRuns DEF List, managerVars
  <1>6. OpsGood' BY <1>1 DEF List, OpsGood
  <1>7. QED BY <1>4, <1>5, <1>6, PartsPrime
-----------------------------------------------------------------------------
\* The goroutines of the instances.
LEMMA ConnectedStep == ASSUME IInv, NEW i \in Instance, Connected(i) PROVE IInv'
  <1>1. ServiceTyped /\ TableGood /\ OpsGood BY Parts
  <1> DEFINE run == [inst[i] EXCEPT !.ready = TRUE]
  <1>2. run \in Run /\ run.at = inst[i].at /\ run.cancelled = inst[i].cancelled
    BY <1>1 DEF TableGood, Run
  <1>3. inst' = [inst EXCEPT ![i] = run] /\ UNCHANGED running
    BY <1>1 DEF Connected, TableGood
  <1> HIDE DEF run
  <1>4. running' = i => ~run.cancelled /\ run.at \in {"up", "ended"}
    BY <1>1, <1>2, <1>3, NoneAssumption DEF TableGood, RegisteredIsLive
  <1>5. TableGood' BY <1>1, <1>2, <1>3, <1>4, SetRun
  <1>6. shown' \in Registration \cup {None}
    BY <1>1, SetStatusTyped, Names DEF Connected, ServiceTyped
  <1>7. ServiceTyped' BY <1>1, <1>6 DEF Connected, ServiceTyped, historyVars
  <1>8. OpsGood' BY <1>1 DEF Connected, OpsGood
  <1>9. QED BY <1>5, <1>7, <1>8, PartsPrime

\* A target that was cancelled is not in the table, so its end changes nothing there.
LEMMA EndsStep == ASSUME IInv, NEW i \in Instance, Ends(i) PROVE IInv'
  <1>1. ServiceTyped /\ TableGood /\ OpsGood BY Parts
  <1>2. Over \in Run BY DEF Over, Run
  <1>3. inst' = [inst EXCEPT ![i] = Over] /\ UNCHANGED running BY DEF Ends
  <1>4. running' # i BY <1>1, <1>3, NoneAssumption DEF Ends, TableGood, RegisteredIsLive
  <1>5. TableGood' BY <1>1, <1>2, <1>3, <1>4, SetRun
  <1>6. ServiceTyped' BY <1>1, KeepService, EndsTyped DEF Ends, ServiceTyped
  <1>7. OpsGood' BY <1>1 DEF Ends, OpsGood
  <1>8. QED BY <1>5, <1>6, <1>7, PartsPrime

LEMMA ExitsStep == ASSUME IInv, NEW i \in Instance, Exits(i) PROVE IInv'
  <1>1. ServiceTyped /\ TableGood /\ OpsGood BY Parts
  <1> DEFINE run == [inst[i] EXCEPT !.at = "ended"]
  <1>2. run \in Run /\ run.at = "ended" /\ ~run.cancelled
    BY <1>1 DEF TableGood, Run, Exits
  <1>3. inst' = [inst EXCEPT ![i] = run] /\ UNCHANGED running
    BY <1>1 DEF Exits, TableGood
  <1> HIDE DEF run
  <1>4. TableGood' BY <1>1, <1>2, <1>3, SetRun
  <1>5. raced' \in BOOLEAN BY DEF Exits
  <1>6. ServiceTyped' BY <1>1, <1>5, FailOrNot DEF Exits, ServiceTyped, serviceVars
  <1>7. OpsGood' BY <1>1 DEF Exits, OpsGood
  <1>8. QED BY <1>4, <1>6, <1>7, PartsPrime

\* A failed target takes out its own entry, or was cancelled and has none.
LEMMA CleansUpStep == ASSUME IInv, NEW i \in Instance, CleansUp(i) PROVE IInv'
  <1>1. ServiceTyped /\ TableGood /\ OpsGood BY Parts
  <1> DEFINE run == IF inst[i].cancelled THEN Over ELSE [inst[i] EXCEPT !.at = "failed"]
  <1>2. run \in Run BY <1>1 DEF TableGood, Run, Over
  <1>3. inst' = [inst EXCEPT ![i] = run] BY <1>1 DEF CleansUp, TableGood
  <1> HIDE DEF run
  <1>4. running' \in {running, None} /\ running' # i
    BY <1>1, NoneAssumption DEF CleansUp, TableGood, RegisteredIsLive
  <1>5. TableGood' BY <1>1, <1>2, <1>3, <1>4, SetRun
  <1>6. ServiceTyped' BY <1>1, KeepService DEF CleansUp, ServiceTyped, Succeed
  <1>7. OpsGood' BY <1>1 DEF CleansUp, OpsGood
  <1>8. QED BY <1>5, <1>6, <1>7, PartsPrime

LEMMA ReportsStep == ASSUME IInv, NEW i \in Instance, Reports(i) PROVE IInv'
  <1>1. ServiceTyped /\ TableGood /\ OpsGood BY Parts
  <1>2. Over \in Run BY DEF Over, Run
  <1>3. inst' = [inst EXCEPT ![i] = Over] /\ UNCHANGED running BY DEF Reports
  <1>4. running' # i BY <1>1, <1>3, NoneAssumption DEF Reports, TableGood, RegisteredIsLive
  <1>5. TableGood' BY <1>1, <1>2, <1>3, <1>4, SetRun
  <1>6. shown' \in Registration \cup {None}
    BY <1>1, SetStatusTyped, Names DEF Reports, ServiceTyped
  <1>7. ServiceTyped' BY <1>1, <1>6 DEF Reports, ServiceTyped, historyVars
  <1>8. OpsGood' BY <1>1 DEF Reports, OpsGood
  <1>9. QED BY <1>5, <1>7, <1>8, PartsPrime
-----------------------------------------------------------------------------
\* main applies the stored configuration with an empty table.
LEMMA InitIInv == ASSUME Init PROVE IInv
  <1>1. First \in Version BY VersionAssumption DEF First
  <1>2. stored \in Config BY <1>1 DEF Init, Config
  <1>3. ServiceTyped
    <2>1. 0 \in 0 .. MaxCalls /\ 0 \in 0 .. MaxFailures BY BoundsAssumption
    <2>2. /\ kind \in Kinds /\ configs = None /\ shown = None /\ calls = 0 /\ failures = 0
          /\ wired = FALSE /\ camera = Unpublished
          /\ overlapped = FALSE /\ raced = FALSE /\ slow = FALSE /\ unreported = FALSE
      BY DEF Init
    <2>3. camera \in Camera BY <2>2 DEF Camera, Unpublished
    <2>4. QED BY <1>2, <2>1, <2>2, <2>3 DEF ServiceTyped
  <1>4. Over \in Run BY DEF Over, Run
  <1>5. TableGood BY <1>4 DEF Init, TableGood, RegisteredIsLive
  <1> DEFINE r == [Idle EXCEPT !.at = "apply", !.what = "boot", !.item = stored]
  <1>6. GoodOp(r) BY <1>2 DEF GoodOp, Idle, Operation, Status
  <1>7. op = [p \in Caller |-> IF p = Main THEN r ELSE Idle] BY DEF Init
  <1> HIDE DEF r
  <1>8. OpsGood BY <1>6, <1>7, IdleGood DEF OpsGood, GoodOp
  <1>9. QED BY <1>3, <1>5, <1>8, Parts

\* Every step preserves the invariant, whichever calls and goroutines interleave.
LEMMA StepIInv == ASSUME IInv, [Next]_vars PROVE IInv'
  <1>1. CASE Call BY <1>1, CallStep
  <1>2. CASE \E p \in Caller : Step(p)
    BY <1>2, ApplyStep, TakeDownStep, AwaitEndStep, EnableStep, StartStep, StartFailedStep,
       StartedStep, StartAbortedStep, ResetStep, DeleteTargetStep, ForgetStep, DoneStep
    DEF Step
  <1>3. CASE List BY <1>3, ListStep
  <1>4. CASE \E i \in Instance : Goroutine(i)
    BY <1>4, ConnectedStep, EndsStep, ExitsStep, CleansUpStep, ReportsStep DEF Goroutine
  <1>5. CASE UNCHANGED vars
    <2>1. ServiceTyped /\ TableGood /\ OpsGood BY Parts
    <2>2. ServiceTyped' BY <2>1, <1>5 DEF vars, serviceVars, managerVars, historyVars, ServiceTyped
    <2>3. TableGood' BY <2>1, <1>5, KeepRuns DEF vars, managerVars
    <2>4. OpsGood' BY <2>1, <1>5 DEF vars, OpsGood
    <2>5. QED BY <2>2, <2>3, <2>4, PartsPrime
  <1>6. QED BY <1>1, <1>2, <1>3, <1>4, <1>5 DEF Next

\* The inductive invariant: types, a table of live targets, and calls that know what
\* they apply and what follows their stop.
THEOREM InductiveInvariant == Spec => []IInv
  <1>1. Init => IInv BY InitIInv
  <1>2. IInv /\ [Next]_vars => IInv' BY StepIInv
  <1>3. QED BY <1>1, <1>2, PTL DEF Spec

\* The table of the target manager names only targets that were not cancelled and have
\* not reported a failure, and the service's views keep their types: stop takes an entry
\* out in the critical section in which it cancels, and a goroutine that fails removes
\* only its own entry.
THEOREM TableIsLive == Spec => []TargetsInv
  <1>1. IInv => TargetsInv BY DEF IInv, TargetsInv
  <1>2. QED BY <1>1, InductiveInvariant, PTL
-----------------------------------------------------------------------------
\* While calls have not overlapped: there is one call at a time; a target that runs is
\* cancelled or in the table; the table is empty from the moment a call has taken its
\* target down until it starts the next one, and names no other while it waits for that
\* one; and a target that is up is in the table or being waited for, unless a wait has
\* been given up.
OneCall == \A p, q \in Caller : Active(p) /\ Active(q) => p = q
Owned == \A i \in Instance : inst[i].at = "up" => inst[i].cancelled \/ running = i
TakenDown == \A p \in Caller : op[p].at \in {"wait", "enable", "start"} => running = None
Awaited == \A p \in Caller : op[p].at = "await" => running \in {None, op[p].new}
Single ==
    ~slow => \A i \in Instance : inst[i].at = "up" =>
        running = i \/ \E p \in Caller : op[p].at = "wait" /\ op[p].old = i

Calm == ~overlapped => OneCall /\ Owned /\ TakenDown /\ Awaited /\ Single

\* Only the call of p moves.
Frame(p) == \A q \in Caller \ {p} : op'[q] = op[q]

\* What the moves of a call make of its record.
LEMMA Moves ==
    ASSUME OpsGood, NEW p \in Caller
    PROVE  /\ \A place : Goto(p, place) => Frame(p) /\ op'[p].at = place
           /\ \A next : Stop(p, next) => Frame(p) /\ op'[p].at = "stop"
           /\ \A result : Answer(p, result) => Frame(p) /\ op'[p].at = "answer"
           /\ Return(p) => Frame(p) /\ op'[p].at = "idle"
  <1>1. op \in [Caller -> Operation] /\ op[p] \in Operation BY DEF OpsGood
  <1>2. ASSUME NEW place, Goto(p, place) PROVE Frame(p) /\ op'[p].at = place
    BY <1>1, <1>2 DEF Goto, Frame, Operation
  <1>3. ASSUME NEW next, Stop(p, next) PROVE Frame(p) /\ op'[p].at = "stop"
    BY <1>1, <1>3 DEF Stop, Frame, Operation
  <1>4. ASSUME NEW result, Answer(p, result) PROVE Frame(p) /\ op'[p].at = "answer"
    BY <1>1, <1>4 DEF Answer, Frame, Operation
  <1>5. ASSUME Return(p) PROVE Frame(p) /\ op'[p].at = "idle"
    BY <1>1, <1>5 DEF Return, Frame, Idle
  <1>6. QED BY <1>2, <1>3, <1>4, <1>5

LEMMA StoppedMoves ==
    ASSUME OpsGood, NEW p \in Caller, op[p].at \in {"stop", "wait"}, Stopped(p)
    PROVE  Frame(p) /\ op'[p].at \in {"answer", "enable", "start", "reset", "forget"}
  <1>1. GoodOp(op[p]) BY DEF OpsGood
  <1>2. op[p].next \in {"disabled", "enable", "start", "aborted", "reset", "forget"}
    BY <1>1 DEF GoodOp, Operation
  <1>3. CASE op[p].next = "disabled" BY <1>3, Moves DEF Stopped
  <1>4. CASE op[p].next = "aborted" BY <1>4, Moves DEF Stopped
  <1>5. CASE op[p].next \in {"enable", "start", "reset", "forget"}
    <2>1. Goto(p, op[p].next) BY <1>5 DEF Stopped
    <2>2. QED BY <2>1, <1>5, Moves
  <1>6. QED BY <1>2, <1>3, <1>4, <1>5

\* A call moves on and leaves the table and the goroutines alone.
LEMMA MoveCalm ==
    ASSUME Calm, NEW p \in Caller, Active(p), Frame(p),
           op'[p].at \notin {"wait", "await"},
           op'[p].at \in {"enable", "start"} => running = None,
           UNCHANGED <<inst, running, overlapped>>, slow => slow',
           op[p].at = "wait" => inst[op[p].old].at # "up" \/ slow'
    PROVE  Calm'
  <1> SUFFICES ASSUME ~overlapped PROVE (OneCall /\ Owned /\ TakenDown /\ Awaited /\ Single)'
    BY DEF Calm
  <1>1. OneCall /\ Owned /\ TakenDown /\ Awaited /\ Single BY DEF Calm
  <1>2. OneCall' BY <1>1 DEF OneCall, Active, Frame
  <1>3. Owned' BY <1>1 DEF Owned
  <1>4. TakenDown' BY <1>1 DEF TakenDown, Frame
  <1>5. Awaited' BY <1>1 DEF Awaited, Frame
  <1>6. Single' BY <1>1 DEF Single, Frame
  <1>7. QED BY <1>2, <1>3, <1>4, <1>5, <1>6

\* A goroutine changes and the calls do not.
LEMMA RunCalm ==
    ASSUME Calm, TableGood, NEW i \in Instance, NEW r, inst' = [inst EXCEPT ![i] = r],
           r.at = "up" => inst[i].at = "up" /\ r.cancelled = inst[i].cancelled,
           UNCHANGED running \/ (running' = None /\ running = i /\ r.at # "up"),
           UNCHANGED <<op, overlapped, slow>>
    PROVE  Calm'
  <1> SUFFICES ASSUME ~overlapped PROVE (OneCall /\ Owned /\ TakenDown /\ Awaited /\ Single)'
    BY DEF Calm
  <1>1. OneCall /\ Owned /\ TakenDown /\ Awaited /\ Single BY DEF Calm
  <1>2. \A j \in Instance : inst'[j].at = "up" =>
            /\ inst[j].at = "up" /\ inst'[j].cancelled = inst[j].cancelled
            /\ running = j => running' = j
    BY DEF TableGood
  <1>3. OneCall' BY <1>1 DEF OneCall, Active
  <1>4. Owned' BY <1>1, <1>2 DEF Owned
  <1>5. TakenDown' BY <1>1 DEF TakenDown
  <1>6. Awaited' BY <1>1 DEF Awaited
  <1>7. Single' BY <1>1, <1>2 DEF Single
  <1>8. QED BY <1>3, <1>4, <1>5, <1>6, <1>7

\* Once a second call has come, nothing is claimed any more: a call that begins is alone.
LEMMA CallCalm == ASSUME IInv, Calm, Call PROVE Calm'
  <1>1. ServiceTyped /\ TableGood /\ OpsGood BY Parts
  <1> SUFFICES ASSUME ~overlapped' PROVE (OneCall /\ Owned /\ TakenDown /\ Awaited /\ Single)'
    BY DEF Calm
  <1>2. ~overlapped /\ \A q \in Caller : ~Active(q) BY DEF Call
  <1>3. OneCall /\ Owned /\ TakenDown /\ Awaited /\ Single BY <1>2 DEF Calm
  <1>4. PICK p \in Caller :
            (\E item \in Config : Save(p, item)) \/ Delete(p) \/ Refresh(p) \/ ClearPairingIdentity(p)
    <2> DEFINE q == CHOOSE c \in Caller : ~Active(c)
    <2>1. q \in Caller BY DEF Call
    <2>2. QED BY <2>1 DEF Call
  <1>5. op' = op \/ (Frame(p) /\ op'[p].at \in {"apply", "stop", "delete"})
    <2>1. CASE \E item \in Config : Save(p, item)
      <3>1. PICK item \in Config : Save(p, item) BY <2>1
      <3> DEFINE r == [Idle EXCEPT !.at = "apply", !.what = "save", !.item = item]
      <3>2. r.at = "apply" BY DEF Idle
      <3>3. op' = op \/ op' = [op EXCEPT ![p] = r] BY <3>1 DEF Save
      <3> HIDE DEF r
      <3>4. op' = op \/ (Frame(p) /\ op'[p] = r) BY <1>1, <3>3 DEF Frame, OpsGood
      <3>5. QED BY <3>2, <3>4
    <2>2. CASE Delete(p)
      <3> DEFINE r == IF configs # None /\ kind = "camera"
                      THEN [Idle EXCEPT !.at = "stop", !.what = "delete", !.item = configs, !.next = "reset"]
                      ELSE [Idle EXCEPT !.at = "delete", !.what = "delete"]
      <3>1. r.at \in {"stop", "delete"} BY DEF Idle
      <3>2. op' = [op EXCEPT ![p] = r] BY <2>2 DEF Delete
      <3> HIDE DEF r
      <3>3. Frame(p) /\ op'[p] = r BY <1>1, <3>2 DEF Frame, OpsGood
      <3>4. QED BY <3>1, <3>3
    <2>3. CASE Refresh(p)
      <3> DEFINE r == [Idle EXCEPT !.at = "apply", !.what = "refresh", !.item = configs]
      <3>1. r.at = "apply" BY DEF Idle
      <3>2. op' = [op EXCEPT ![p] = r] BY <2>3 DEF Refresh
      <3> HIDE DEF r
      <3>3. Frame(p) /\ op'[p] = r BY <1>1, <3>2 DEF Frame, OpsGood
      <3>4. QED BY <3>1, <3>3
    <2>4. CASE ClearPairingIdentity(p)
      <3> DEFINE r == [Idle EXCEPT !.at = "stop", !.what = "clear", !.item = configs, !.next = "reset"]
      <3>1. r.at = "stop" BY DEF Idle
      <3>2. op' = [op EXCEPT ![p] = r] BY <2>4 DEF ClearPairingIdentity
      <3> HIDE DEF r
      <3>3. Frame(p) /\ op'[p] = r BY <1>1, <3>2 DEF Frame, OpsGood
      <3>4. QED BY <3>1, <3>3
    <2>5. QED BY <1>4, <2>1, <2>2, <2>3, <2>4
  <1>6. UNCHANGED <<inst, running, slow>> BY DEF Call, managerVars
  <1>7. OneCall' BY <1>2, <1>5 DEF OneCall, Active, Frame
  <1>8. Owned' BY <1>3, <1>6 DEF Owned
  <1>9. TakenDown' BY <1>3, <1>5, <1>6 DEF TakenDown, Frame
  <1>10. Awaited' BY <1>2, <1>5, <1>6 DEF Awaited, Active, Frame
  <1>11. Single'
    <2>1. \A q \in Caller : op[q].at # "wait" BY <1>2 DEF Active
    <2>2. QED BY <1>3, <1>6, <2>1 DEF Single
  <1>12. QED BY <1>7, <1>8, <1>9, <1>10, <1>11

LEMMA TakeDownCalm == ASSUME IInv, Calm, NEW p \in Caller, TakeDown(p) PROVE Calm'
  <1>1. ServiceTyped /\ TableGood /\ OpsGood BY Parts
  <1>2. op[p].at = "stop" /\ Active(p) /\ UNCHANGED <<overlapped, slow>>
    BY DEF TakeDown, Active, historyVars
  <1>3. CASE running = None
    <2>1. Frame(p) /\ op'[p].at \in {"answer", "enable", "start", "reset", "forget"}
      BY <1>1, <1>2, <1>3, StoppedMoves DEF TakeDown
    <2>2. UNCHANGED <<inst, running>> BY <1>3 DEF TakeDown
    <2>3. QED BY <1>2, <1>3, <2>1, <2>2, MoveCalm
  <1>4. CASE running # None
    <2> SUFFICES ASSUME ~overlapped PROVE (OneCall /\ Owned /\ TakenDown /\ Awaited /\ Single)'
      BY <1>2 DEF Calm
    <2>1. OneCall /\ Owned /\ TakenDown /\ Awaited /\ Single BY DEF Calm
    <2>2. running \in Instance /\ running' = None /\ inst[running] \in Run
      BY <1>1, <1>4 DEF TableGood, TakeDown
    <2>3. op[p] \in Operation /\ op \in [Caller -> Operation] BY <1>1 DEF OpsGood
    <2>4. Frame(p) /\ op'[p].at = "wait" /\ op'[p].old = running
      BY <1>4, <2>3 DEF TakeDown, Frame, Operation
    <2>5. /\ inst'[running].cancelled
          /\ \A i \in Instance \ {running} : inst'[i] = inst[i]
      BY <1>1, <1>4, <2>2 DEF TakeDown, TableGood, Run
    <2>6. \A q \in Caller : q # p => op[q].at = "idle" BY <1>2, <2>1 DEF OneCall, Active
    <2>7. OneCall' BY <2>4, <2>6 DEF OneCall, Active, Frame
    <2>8. Owned' BY <2>1, <2>5 DEF Owned
    <2>9. TakenDown' BY <2>2 DEF TakenDown
    <2>10. Awaited' BY <2>2 DEF Awaited
    <2>11. Single' BY <1>2, <2>1, <2>4, <2>5, <2>6 DEF Single
    <2>12. QED BY <2>7, <2>8, <2>9, <2>10, <2>11
  <1>5. QED BY <1>3, <1>4

LEMMA StartCalm == ASSUME IInv, Calm, NEW p \in Caller, Start(p) PROVE Calm'
  <1>1. ServiceTyped /\ TableGood /\ OpsGood BY Parts
  <1>2. op[p].at = "start" /\ Active(p) /\ UNCHANGED <<overlapped, slow>>
    BY DEF Start, Active, historyVars
  <1> SUFFICES ASSUME ~overlapped PROVE (OneCall /\ Owned /\ TakenDown /\ Awaited /\ Single)'
    BY <1>2 DEF Calm
  <1>3. OneCall /\ Owned /\ TakenDown /\ Awaited /\ Single BY DEF Calm
  <1>4. PICK i \in Instance :
            /\ running' = i
            /\ inst' = [inst EXCEPT ![i] = [Over EXCEPT !.at = "up", !.config = op[p].item]]
            /\ op' = [op EXCEPT ![p].at = "await", ![p].old = None, ![p].new = i]
    <2> DEFINE j == CHOOSE i \in Instance :
                        inst[i].at = "over" /\ \A q \in Caller : i \notin {op[q].old, op[q].new}
    <2>1. j \in Instance BY DEF Start
    <2>2. QED BY <2>1 DEF Start
  <1>5. op[p] \in Operation /\ op \in [Caller -> Operation] BY <1>1 DEF OpsGood
  <1>6. Frame(p) /\ op'[p].at = "await" /\ op'[p].new = i
    BY <1>4, <1>5 DEF Frame, Operation
  <1>7. \A j \in Instance \ {i} : inst'[j] = inst[j] BY <1>1, <1>4 DEF TableGood
  <1>8. \A q \in Caller : q # p => op[q].at = "idle" BY <1>2, <1>3 DEF OneCall, Active
  <1>9. running = None BY <1>2, <1>3 DEF TakenDown
  <1>10. OneCall' BY <1>6, <1>8 DEF OneCall, Active, Frame
  <1>11. Owned' BY <1>3, <1>4, <1>7, <1>9, NoneAssumption DEF Owned
  <1>12. TakenDown' BY <1>6, <1>8 DEF TakenDown, Frame
  <1>13. Awaited' BY <1>4, <1>6, <1>8 DEF Awaited, Frame
  <1>14. Single'
    <2>1. \A q \in Caller : op[q].at # "wait" BY <1>2, <1>8
    <2>2. QED BY <1>2, <1>3, <1>4, <1>7, <1>9, <2>1, NoneAssumption DEF Single
  <1>15. QED BY <1>10, <1>11, <1>12, <1>13, <1>14

\* The deletion by id after a failed start hits the entry of this start or nothing.
LEMMA StartFailedCalm == ASSUME IInv, Calm, NEW p \in Caller, StartFailed(p) PROVE Calm'
  <1>1. ServiceTyped /\ TableGood /\ OpsGood BY Parts
  <1>2. op[p].at = "await" /\ Active(p) /\ UNCHANGED <<overlapped, slow, inst>> /\ running' = None
    BY DEF StartFailed, Active, historyVars
  <1> SUFFICES ASSUME ~overlapped PROVE (OneCall /\ Owned /\ TakenDown /\ Awaited /\ Single)'
    BY <1>2 DEF Calm
  <1>3. OneCall /\ Owned /\ TakenDown /\ Awaited /\ Single BY DEF Calm
  <1>4. Frame(p) /\ op'[p].at = "answer" BY <1>1, Moves DEF StartFailed
  <1>5. \A q \in Caller : q # p => op[q].at = "idle" BY <1>2, <1>3 DEF OneCall, Active
  <1>6. \A i \in Instance : inst[i].at = "up" => running # i
    BY <1>2, <1>3, NoneAssumption DEF Awaited, StartFailed
  <1>7. OneCall' BY <1>4, <1>5 DEF OneCall, Active, Frame
  <1>8. Owned' BY <1>2, <1>3, <1>6 DEF Owned
  <1>9. TakenDown' BY <1>2 DEF TakenDown
  <1>10. Awaited' BY <1>2 DEF Awaited
  <1>11. Single'
    <2>1. \A q \in Caller : op[q].at # "wait" BY <1>2, <1>5
    <2>2. QED BY <1>2, <1>3, <1>6, <2>1 DEF Single
  <1>12. QED BY <1>7, <1>8, <1>9, <1>10, <1>11

\* The other steps of a call.
LEMMA OtherStepsCalm ==
    ASSUME IInv, Calm, NEW p \in Caller, Step(p), ~TakeDown(p), ~Start(p), ~StartFailed(p)
    PROVE  Calm'
  <1>1. ServiceTyped /\ TableGood /\ OpsGood BY Parts
  <1>2. CASE Apply(p)
    <2>1. Active(p) /\ op[p].at # "wait" /\ UNCHANGED <<inst, running, overlapped, slow>>
      BY <1>2 DEF Apply, Active, managerVars, historyVars
    <2>2. Frame(p) /\ op'[p].at \in {"stop", "answer"} BY <1>1, <1>2, Moves DEF Apply
    <2>3. QED BY <2>1, <2>2, MoveCalm
  <1>3. CASE AwaitEnd(p)
    <2>1. op[p].at = "wait" /\ Active(p) /\ UNCHANGED <<inst, running, overlapped>>
      BY <1>3 DEF AwaitEnd, Active, managerVars
    <2>2. Frame(p) /\ op'[p].at \in {"answer", "enable", "start", "reset", "forget"}
      <3>1. CASE Stopped(p) BY <1>1, <2>1, <3>1, StoppedMoves
      <3>2. CASE Answer(p, "error") BY <1>1, <3>2, Moves
      <3>3. QED BY <1>3, <3>1, <3>2 DEF AwaitEnd
    <2>3. (slow => slow') /\ (inst[op[p].old].at # "up" \/ slow')
      BY <1>3 DEF AwaitEnd
    <2>4. CASE overlapped BY <2>1, <2>4 DEF Calm
    <2>5. CASE ~overlapped
      <3>1. running = None BY <2>1, <2>5 DEF Calm, TakenDown
      <3>2. QED BY <2>1, <2>2, <2>3, <3>1, MoveCalm
    <2>6. QED BY <2>4, <2>5
  <1>4. CASE EnableHomeKitCamera(p)
    <2>1. op[p].at = "enable" /\ Active(p) /\ UNCHANGED <<inst, running, overlapped, slow>>
      BY <1>4 DEF EnableHomeKitCamera, Active, historyVars
    <2>2. Frame(p) /\ op'[p].at \in {"start", "answer"} BY <1>1, <1>4, Moves DEF EnableHomeKitCamera
    <2>3. CASE overlapped BY <2>1, <2>3 DEF Calm
    <2>4. CASE ~overlapped
      <3>1. running = None BY <2>1, <2>4 DEF Calm, TakenDown
      <3>2. QED BY <2>1, <2>2, <3>1, MoveCalm
    <2>5. QED BY <2>3, <2>4
  <1>5. CASE Started(p)
    <2>1. Active(p) /\ op[p].at # "wait" /\ UNCHANGED <<inst, running, overlapped, slow>>
      BY <1>5 DEF Started, Active, managerVars, historyVars
    <2>2. Frame(p) /\ op'[p].at = "answer" BY <1>1, <1>5, Moves DEF Started
    <2>3. QED BY <2>1, <2>2, MoveCalm
  <1>6. CASE StartAborted(p)
    <2>1. Active(p) /\ op[p].at # "wait" /\ UNCHANGED <<inst, running, overlapped, slow>>
      BY <1>6 DEF StartAborted, Active, managerVars, historyVars
    <2>2. Frame(p) /\ op'[p].at = "stop" BY <1>1, <1>6, Moves DEF StartAborted
    <2>3. QED BY <2>1, <2>2, MoveCalm
  <1>7. CASE Reset(p)
    <2>1. Active(p) /\ op[p].at # "wait" /\ UNCHANGED <<inst, running, overlapped, slow>>
      BY <1>7 DEF Reset, Active, historyVars
    <2>2. Frame(p) /\ op'[p].at \in {"delete", "apply", "answer"} BY <1>1, <1>7, Moves DEF Reset
    <2>3. QED BY <2>1, <2>2, MoveCalm
  <1>8. CASE DeleteTarget(p)
    <2>1. Active(p) /\ op[p].at # "wait" /\ UNCHANGED <<inst, running, overlapped, slow>>
      BY <1>8 DEF DeleteTarget, Active, managerVars, historyVars
    <2>2. Frame(p) /\ op'[p].at \in {"forget", "stop", "answer"} BY <1>1, <1>8, Moves DEF DeleteTarget
    <2>3. QED BY <2>1, <2>2, MoveCalm
  <1>9. CASE Forget(p)
    <2>1. Active(p) /\ op[p].at # "wait" /\ UNCHANGED <<inst, running, overlapped, slow>>
      BY <1>9 DEF Forget, Active, managerVars
    <2>2. Frame(p) /\ op'[p].at = "idle" BY <1>1, <1>9, Moves DEF Forget
    <2>3. QED BY <2>1, <2>2, MoveCalm
  <1>10. CASE Done(p)
    <2>1. Active(p) /\ op[p].at # "wait" /\ UNCHANGED <<inst, running, overlapped, slow>>
      BY <1>10 DEF Done, Active, managerVars
    <2>2. Frame(p) /\ op'[p].at = "idle" BY <1>1, <1>10, Moves DEF Done
    <2>3. QED BY <2>1, <2>2, MoveCalm
  <1>11. QED BY <1>2, <1>3, <1>4, <1>5, <1>6, <1>7, <1>8, <1>9, <1>10 DEF Step

LEMMA GoroutineCalm == ASSUME IInv, Calm, NEW i \in Instance, Goroutine(i) PROVE Calm'
  <1>1. ServiceTyped /\ TableGood /\ OpsGood BY Parts
  <1>2. inst[i] \in Run /\ inst \in [Instance -> Run] BY <1>1 DEF TableGood
  <1>3. Over.at # "up" BY DEF Over
  <1>4. CASE Connected(i)
    <2> DEFINE r == [inst[i] EXCEPT !.ready = TRUE]
    <2>1. r.at = inst[i].at /\ r.cancelled = inst[i].cancelled BY <1>2 DEF Run
    <2>2. inst' = [inst EXCEPT ![i] = r] /\ UNCHANGED <<running, op, overlapped, slow>>
      BY <1>2, <1>4 DEF Connected, historyVars
    <2> HIDE DEF r
    <2>3. QED BY <1>1, <2>1, <2>2, RunCalm
  <1>5. CASE Ends(i)
    BY <1>1, <1>3, <1>5, RunCalm DEF Ends, historyVars
  <1>6. CASE Exits(i)
    <2> DEFINE r == [inst[i] EXCEPT !.at = "ended"]
    <2>1. r.at # "up" BY <1>2 DEF Run
    <2>2. inst' = [inst EXCEPT ![i] = r] /\ UNCHANGED <<running, op, overlapped, slow>>
      BY <1>2, <1>6 DEF Exits
    <2> HIDE DEF r
    <2>3. QED BY <1>1, <2>1, <2>2, RunCalm
  <1>7. CASE CleansUp(i)
    <2> DEFINE r == IF inst[i].cancelled THEN Over ELSE [inst[i] EXCEPT !.at = "failed"]
    <2>1. r.at # "up" BY <1>2, <1>3 DEF Run
    <2>2. inst' = [inst EXCEPT ![i] = r] /\ UNCHANGED <<op, overlapped, slow>>
      BY <1>2, <1>7 DEF CleansUp, historyVars
    <2>3. UNCHANGED running \/ (running' = None /\ running = i) BY <1>7 DEF CleansUp
    <2> HIDE DEF r
    <2>4. QED BY <1>1, <2>1, <2>2, <2>3, RunCalm
  <1>8. CASE Reports(i)
    BY <1>1, <1>3, <1>8, RunCalm DEF Reports, historyVars
  <1>9. QED BY <1>4, <1>5, <1>6, <1>7, <1>8 DEF Goroutine

LEMMA StepCalm == ASSUME IInv, Calm, [Next]_vars PROVE Calm'
  <1>1. CASE Call BY <1>1, CallCalm
  <1>2. CASE \E p \in Caller : Step(p)
    BY <1>2, TakeDownCalm, StartCalm, StartFailedCalm, OtherStepsCalm
  <1>3. CASE List
    <2>1. UNCHANGED <<inst, running, op, overlapped, slow>> BY <1>3 DEF List, managerVars, historyVars
    <2>2. QED BY <2>1 DEF Calm, OneCall, Owned, TakenDown, Awaited, Single, Active
  <1>4. CASE \E i \in Instance : Goroutine(i) BY <1>4, GoroutineCalm
  <1>5. CASE UNCHANGED vars
    <2>1. UNCHANGED <<inst, running, op, overlapped, slow>> BY <1>5 DEF vars, managerVars, historyVars
    <2>2. QED BY <2>1 DEF Calm, OneCall, Owned, TakenDown, Awaited, Single, Active
  <1>6. QED BY <1>1, <1>2, <1>3, <1>4, <1>5 DEF Next

LEMMA InitCalm == ASSUME Init PROVE Calm
  <1>1. \A i \in Instance : inst[i].at # "up" BY DEF Init, Over
  <1>2. \A p \in Caller : op[p].at = (IF p = Main THEN "apply" ELSE "idle") BY DEF Init, Idle
  <1>3. OneCall BY <1>2 DEF OneCall, Active
  <1>4. TakenDown /\ Awaited BY <1>2 DEF TakenDown, Awaited
  <1>5. QED BY <1>1, <1>3, <1>4 DEF Calm, Owned, Single

\* What Calm says about the targets that run is NoOrphan.
LEMMA CalmNoOrphan == ASSUME IInv, Calm PROVE NoOrphan
  <1> SUFFICES ASSUME ~overlapped
               PROVE  /\ \A i \in Up : inst[i].cancelled \/ running = i
                      /\ slow \/ Cardinality(Up) \leq 1
    BY DEF NoOrphan
  <1>1. OneCall /\ Owned /\ TakenDown /\ Single BY DEF Calm
  <1>2. \A i \in Up : inst[i].cancelled \/ running = i BY <1>1 DEF Up, Owned
  <1>3. ASSUME ~slow PROVE Cardinality(Up) \leq 1
    <2>1. \A i, j \in Up : i = j
      BY <1>1, <1>3, NoneAssumption DEF Up, OneCall, TakenDown, Single, Active
    <2>2. CASE Up = {} BY <2>2, FS_EmptySet
    <2>3. CASE Up # {}
      <3>1. PICK i \in Up : Up = {i} BY <2>1, <2>3
      <3>2. Cardinality({i}) = 1 BY FS_Singleton
      <3>3. Cardinality(Up) = 1 BY <3>1, <3>2
      <3>4. QED BY <3>3
    <2>4. QED BY <2>2, <2>3
  <1>4. QED BY <1>2, <1>3

\* As long as calls do not overlap, for any number of them: a target that runs and was
\* not told to end is the one the table names, so that a later call can stop it, and two
\* run at the same time only after a stop has given up waiting.
THEOREM NoTargetIsOrphaned == Spec => []NoOrphan
  <1>1. Init => IInv /\ Calm BY InitIInv, InitCalm
  <1>2. IInv /\ Calm /\ [Next]_vars => IInv' /\ Calm' BY StepIInv, StepCalm
  <1>3. IInv /\ Calm => NoOrphan BY CalmNoOrphan
  <1>4. QED BY <1>1, <1>2, <1>3, PTL DEF Spec
-----------------------------------------------------------------------------
(* What the service remembers, shows and publishes.                        *)

\* The calls that pass each place, and what the record of a call says of them.
Stopping(r) == r.at \in {"stop", "wait"}
Course(r) ==
    /\ r.at = "idle" <=> r.what = "none"
    /\ r.at \in {"delete", "forget"} => r.what = "delete"
    /\ r.at = "reset" => r.what \in {"delete", "clear"}
    /\ r.at \in {"apply", "enable", "start", "await"} => r.what # "delete"
    /\ Stopping(r) /\ r.next = "forget" => r.what = "delete"
    /\ Stopping(r) /\ r.next = "reset" => r.what \in {"delete", "clear"}
    /\ Stopping(r) /\ r.next \notin {"reset", "forget"} => r.what # "delete"
    /\ Stopping(r) /\ kind = "camera" => r.next # "start"
Courses == \A p \in Caller : Course(op[p])

\* A target that has exited by itself has not been cancelled, and no call is under way,
\* unless the two have raced; the target of a camera does not exit by itself.
Exited(i) == inst[i].at \in {"ended", "failed"}
Unraced ==
    /\ ~raced => \A i \in Instance : Exited(i) => ~inst[i].cancelled /\ \A p \in Caller : ~Active(p)
    /\ kind = "camera" => ~raced /\ \A i \in Instance : ~Exited(i)

\* What is stored, in terms of what the service remembers, during a call.
Erased(r) == r.at = "forget" \/ (Stopping(r) /\ r.next = "forget")
StoredBy(r) ==
    /\ r.what \in {"boot", "save"} => stored = r.item
    /\ r.what \in {"refresh", "clear"} => configs = r.item /\ stored = configs
    /\ r.what = "delete" => IF Erased(r) THEN stored = None ELSE stored = configs
    /\ r.what = "boot" <=> ~wired /\ r.at # "idle"
Remembers ==
    /\ configs = None <=> shown = None
    /\ \A p \in Caller : StoredBy(op[p])
    /\ (\A p \in Caller : ~Active(p)) => wired /\ stored = configs

\* Where a call has emptied the table, and what its answer says about the table.
Emptied == \A p \in Caller :
    op[p].at \in {"reset", "forget"} \/ (op[p].at = "delete" /\ op[p].item # None) => running = None
AnswerOf(p) ==
    /\ op[p].at = "await" =>
          running # None /\ running = op[p].new /\ inst[running].at = "up" /\ inst[running].config = op[p].item
    /\ op[p].at = "answer" /\ op[p].result = "running" => running # None /\ inst[running].config = op[p].item
    /\ op[p].at = "answer" /\ op[p].result = "disabled" => running = None

\* Between calls, what is shown is true or the report of an exit is on its way.
Displayed ==
    /\ shown # None /\ shown.status = "running" =>
          \/ running # None /\ (kind = "matter" \/ inst[running].config = shown.config)
          \/ \E i \in Instance : inst[i].at = "failed"
    /\ shown = None \/ shown.status = "disabled" => running = None

\* A camera is published and owned while it is in the table, and out of the table it is
\* published only if taking the publisher away has failed; between the steps of a call,
\* the old target owns the camera until it has ended and the new one from the moment it
\* is enabled.
Left == camera.published => camera.left
Kept == IF running # None THEN camera.published /\ camera.owned ELSE Left
Publishing ==
    /\ (\A p \in Caller : op[p].at \notin {"wait", "start"}) => Kept
    /\ \A p \in Caller : op[p].at = "start" => camera.published /\ camera.owned
    /\ \A p \in Caller : op[p].at = "wait" => Left \/ (inst[op[p].old].at = "up" /\ camera.owned)

\* The deletion of a camera has disabled it before it deletes the row, and a camera that
\* the service does not know is owned only by the call that adds it.
Disowning(r) == r.at \in {"delete", "forget"} \/ (Stopping(r) /\ r.next = "forget")
Adding(r) == r.what \in {"boot", "save"}
Released ==
    /\ \A p \in Caller : Disowning(op[p]) => ~camera.owned
    /\ configs = None /\ camera.owned => \E p \in Caller : Adding(op[p])

Service ==
    /\ Courses /\ Unraced
    /\ ~overlapped => Remembers /\ Emptied
    /\ ~overlapped /\ ~raced => \A p \in Caller : AnswerOf(p)
    /\ ~overlapped /\ ~raced /\ ~slow /\ ~unreported /\ (\A p \in Caller : ~Active(p)) => Displayed
    /\ ~overlapped /\ ~slow /\ kind = "camera" => Publishing
    /\ ~overlapped /\ kind = "camera" => Released
-----------------------------------------------------------------------------
\* What each move of a call leaves of its record.
LEMMA Records ==
    ASSUME OpsGood, NEW p \in Caller
    PROVE  /\ \A place : Goto(p, place) =>
                 /\ Frame(p) /\ op'[p].at = place /\ op'[p].what = op[p].what
                 /\ op'[p].item = op[p].item /\ op'[p].next = op[p].next
           /\ \A next : Stop(p, next) =>
                 /\ Frame(p) /\ op'[p].at = "stop" /\ op'[p].what = op[p].what
                 /\ op'[p].item = op[p].item /\ op'[p].next = next
           /\ \A result : Answer(p, result) =>
                 /\ Frame(p) /\ op'[p].at = "answer" /\ op'[p].what = op[p].what
                 /\ op'[p].item = op[p].item /\ op'[p].result = result
           /\ Return(p) => Frame(p) /\ op'[p] = Idle
  <1>1. op \in [Caller -> Operation] /\ op[p] \in Operation BY DEF OpsGood
  <1>2. ASSUME NEW place, Goto(p, place)
        PROVE  /\ Frame(p) /\ op'[p].at = place /\ op'[p].what = op[p].what
               /\ op'[p].item = op[p].item /\ op'[p].next = op[p].next
    BY <1>1, <1>2 DEF Goto, Frame, Operation
  <1>3. ASSUME NEW next, Stop(p, next)
        PROVE  /\ Frame(p) /\ op'[p].at = "stop" /\ op'[p].what = op[p].what
               /\ op'[p].item = op[p].item /\ op'[p].next = next
    <2> DEFINE s == [op[p] EXCEPT !.at = "stop"]
               r == [s EXCEPT !.next = next]
    <2>1. op' = [op EXCEPT ![p] = r] BY <1>1, <1>3 DEF Stop
    <2>2. s.at = "stop" /\ s.what = op[p].what /\ s.item = op[p].item /\ s \in Operation
      BY <1>1 DEF Operation
    <2>3. r.at = s.at /\ r.what = s.what /\ r.item = s.item /\ r.next = next
      <3> HIDE DEF s
      <3>1. QED BY <2>2 DEF Operation
    <2> HIDE DEF r, s
    <2>4. Frame(p) /\ op'[p] = r BY <1>1, <2>1 DEF Frame
    <2>5. QED BY <2>2, <2>3, <2>4
  <1>4. ASSUME NEW result, Answer(p, result)
        PROVE  /\ Frame(p) /\ op'[p].at = "answer" /\ op'[p].what = op[p].what
               /\ op'[p].item = op[p].item /\ op'[p].result = result
    <2> DEFINE s == [op[p] EXCEPT !.at = "answer"]
               r == [s EXCEPT !.result = result]
    <2>1. op' = [op EXCEPT ![p] = r] BY <1>1, <1>4 DEF Answer
    <2>2. s.at = "answer" /\ s.what = op[p].what /\ s.item = op[p].item /\ s \in Operation
      BY <1>1 DEF Operation
    <2>3. r.at = s.at /\ r.what = s.what /\ r.item = s.item /\ r.result = result
      <3> HIDE DEF s
      <3>1. QED BY <2>2 DEF Operation
    <2> HIDE DEF r, s
    <2>4. Frame(p) /\ op'[p] = r BY <1>1, <2>1 DEF Frame
    <2>5. QED BY <2>2, <2>3, <2>4
  <1>5. Return(p) => Frame(p) /\ op'[p] = Idle BY <1>1 DEF Return, Frame
  <1>6. QED BY <1>2, <1>3, <1>4, <1>5

\* A call takes the same course after a stop as the stop has been told.
After(r, n) ==
    /\ n.what = r.what /\ n.item = r.item
    /\ \/ n.at = "answer" /\ n.result = "disabled" /\ r.next = "disabled"
       \/ n.at = "answer" /\ n.result = "error" /\ r.next = "aborted"
       \/ n.at = r.next /\ n.next = r.next /\ r.next \in {"enable", "start", "reset", "forget"}

LEMMA StoppedRecord ==
    ASSUME OpsGood, NEW p \in Caller, op[p].at \in {"stop", "wait"}, Stopped(p)
    PROVE  Frame(p) /\ After(op[p], op'[p])
  <1>1. GoodOp(op[p]) BY DEF OpsGood
  <1>2. op[p].next \in {"disabled", "enable", "start", "aborted", "reset", "forget"}
    BY <1>1 DEF GoodOp, Operation
  <1>3. CASE op[p].next = "disabled"
    <2>1. Answer(p, "disabled") BY <1>3 DEF Stopped
    <2>2. QED BY <1>3, <2>1, Records DEF After
  <1>4. CASE op[p].next = "aborted"
    <2>1. Answer(p, "error") BY <1>4 DEF Stopped
    <2>2. QED BY <1>4, <2>1, Records DEF After
  <1>5. CASE op[p].next \in {"enable", "start", "reset", "forget"}
    <2>1. Goto(p, op[p].next) BY <1>5 DEF Stopped
    <2>2. QED BY <2>1, <1>5, Records DEF After
  <1>6. QED BY <1>2, <1>3, <1>4, <1>5

\* The steps of a call: where each begins, and what it makes of the record, the table
\* and what is published.
Same(r, n) == n.what = r.what /\ n.item = r.item
Early(r, n) ==
    \/ r.at = "apply" /\ n.at = "stop" /\ n.next \in {"disabled", "enable", "start"}
                      /\ (kind = "camera" => n.next # "start")
    \/ r.at = "apply" /\ n.at = "answer" /\ n.result = "error"
    \/ r.at = "await" /\ kind = "matter" /\ n.at = "stop" /\ n.next = "aborted"

\* Apply and StartAborted.
LEMMA EarlySteps ==
    ASSUME OpsGood, NEW p \in Caller, Apply(p) \/ StartAborted(p)
    PROVE  /\ Frame(p) /\ Same(op[p], op'[p]) /\ Early(op[p], op'[p])
           /\ UNCHANGED <<kind, stored, configs, shown, wired, running, inst, camera>>
           /\ UNCHANGED <<overlapped, raced, slow, unreported>>
  <1>1. CASE Apply(p)
    <2>1. \/ Stop(p, "disabled") \/ (kind = "camera" /\ Stop(p, "enable"))
          \/ (kind # "camera" /\ Stop(p, "start")) \/ Answer(p, "error")
      BY <1>1 DEF Apply
    <2>2. op[p].at = "apply" BY <1>1 DEF Apply
    <2>3. UNCHANGED <<kind, serviceVars, managerVars, historyVars>> BY <1>1 DEF Apply
    <2>4. CASE Stop(p, "disabled") BY <2>2, <2>3, <2>4, Records DEF Same, Early, serviceVars, managerVars, historyVars
    <2>5. CASE kind = "camera" /\ Stop(p, "enable") BY <2>2, <2>3, <2>5, Records DEF Same, Early, serviceVars, managerVars, historyVars
    <2>6. CASE kind # "camera" /\ Stop(p, "start") BY <2>2, <2>3, <2>6, Records DEF Same, Early, serviceVars, managerVars, historyVars
    <2>7. CASE Answer(p, "error") BY <2>2, <2>3, <2>7, Records DEF Same, Early, serviceVars, managerVars, historyVars
    <2>8. QED BY <2>1, <2>4, <2>5, <2>6, <2>7
  <1>2. CASE StartAborted(p)
    <2>1. op[p].at = "await" /\ kind = "matter" /\ Stop(p, "aborted") BY <1>2 DEF StartAborted
    <2>2. UNCHANGED <<kind, serviceVars, managerVars, historyVars>> BY <1>2 DEF StartAborted
    <2>3. QED BY <2>1, <2>2, Records DEF Same, Early, serviceVars, managerVars, historyVars
  <1>3. QED BY <1>1, <1>2

\* TakeDown.
LEMMA TakeDownRecord ==
    ASSUME OpsGood, TableGood, NEW p \in Caller, TakeDown(p)
    PROVE  /\ Frame(p) /\ Same(op[p], op'[p]) /\ op[p].at = "stop" /\ running' = None
           /\ \/ running = None /\ After(op[p], op'[p]) /\ inst' = inst
              \/ /\ running \in Instance /\ op'[p].at = "wait" /\ op'[p].old = running
                 /\ op'[p].next = op[p].next
                 /\ inst'[running].cancelled /\ inst'[running].at = inst[running].at
                 /\ inst' \in [Instance -> Run]
                 /\ \A i \in Instance \ {running} : inst'[i] = inst[i]
           /\ UNCHANGED <<kind, stored, configs, shown, wired, camera>>
           /\ UNCHANGED <<overlapped, raced, slow, unreported>>
  <1>1. op[p] \in Operation /\ op \in [Caller -> Operation] BY DEF OpsGood
  <1>2. op[p].at = "stop" /\ running' = None BY DEF TakeDown
  <1>3. /\ UNCHANGED <<kind, stored, configs, shown, wired, camera>>
        /\ UNCHANGED <<overlapped, raced, slow, unreported>>
    BY DEF TakeDown, serviceVars, historyVars
  <1>4. CASE running = None
    <2>1. Stopped(p) /\ inst' = inst BY <1>4 DEF TakeDown
    <2>2. QED BY <1>2, <1>3, <1>4, <2>1, StoppedRecord DEF After, Same
  <1>5. CASE running # None
    <2>1. running \in Instance /\ inst[running] \in Run BY <1>5 DEF TableGood
    <2>2. op' = [op EXCEPT ![p].at = "wait", ![p].old = running] BY <1>5 DEF TakeDown
    <2> DEFINE s == [op[p] EXCEPT !.at = "wait"]
               r == [s EXCEPT !.old = running]
    <2>3. s.at = "wait" /\ s.what = op[p].what /\ s.item = op[p].item /\ s.next = op[p].next /\ s \in Operation
      BY <1>1 DEF Operation
    <2>4. op' = [op EXCEPT ![p] = r] BY <1>1, <2>2
    <2>5. r.at = s.at /\ r.what = s.what /\ r.item = s.item /\ r.next = s.next /\ r.old = running
      <3> HIDE DEF s
      <3>1. QED BY <2>3 DEF Operation
    <2> HIDE DEF r, s
    <2>6. Frame(p) /\ op'[p] = r BY <1>1, <2>4 DEF Frame
    <2> DEFINE n == [inst[running] EXCEPT !.cancelled = TRUE]
    <2>7. inst' = [inst EXCEPT ![running] = n] BY <1>5, <2>1 DEF TakeDown, TableGood
    <2>8. n \in Run /\ n.cancelled /\ n.at = inst[running].at BY <2>1 DEF Run
    <2> HIDE DEF n
    <2>9. /\ inst' \in [Instance -> Run] /\ inst'[running] = n
          /\ \A i \in Instance \ {running} : inst'[i] = inst[i]
      BY <2>1, <2>7, <2>8 DEF TableGood
    <2>10. QED BY <1>2, <1>3, <2>1, <2>3, <2>5, <2>6, <2>8, <2>9 DEF Same
  <1>6. QED BY <1>4, <1>5

\* AwaitEnd.
LEMMA AwaitEndRecord ==
    ASSUME OpsGood, NEW p \in Caller, AwaitEnd(p)
    PROVE  /\ Frame(p) /\ Same(op[p], op'[p]) /\ op[p].at = "wait"
           /\ \/ After(op[p], op'[p]) /\ (((slow' <=> slow) /\ inst[op[p].old].at # "up") \/ slow')
              \/ op'[p].at = "answer" /\ op'[p].result = "error" /\ op[p].next # "forget" /\ slow'
           /\ UNCHANGED <<kind, stored, configs, shown, wired, running, inst, camera>>
           /\ UNCHANGED <<overlapped, raced, unreported>>
  <1>1. op[p].at = "wait" /\ UNCHANGED <<kind, serviceVars, managerVars, overlapped, raced, unreported>>
    BY DEF AwaitEnd
  <1>2. /\ UNCHANGED <<kind, stored, configs, shown, wired, running, inst, camera>>
        /\ UNCHANGED <<overlapped, raced, unreported>>
    BY <1>1 DEF serviceVars, managerVars
  <1>3. CASE Stopped(p)
    <2>1. Frame(p) /\ After(op[p], op'[p]) BY <1>1, <1>3, StoppedRecord
    <2>2. ((slow' <=> slow) /\ inst[op[p].old].at # "up") \/ slow' BY DEF AwaitEnd
    <2>3. QED BY <1>1, <1>2, <2>1, <2>2 DEF After, Same
  <1>4. CASE ~Stopped(p)
    <2>1. Answer(p, "error") /\ op[p].next # "forget" /\ slow' BY <1>4 DEF AwaitEnd
    <2>2. QED BY <1>1, <1>2, <2>1, Records DEF Same
  <1>5. QED BY <1>3, <1>4

\* EnableHomeKitCamera and Reset.  What a failed start leaves of the publication.
Unenabled ==
    \/ UNCHANGED camera
    \/ /\ ~camera'.owned
       /\ camera'.published => camera'.left \/ (camera.published /\ camera'.left = camera.left)
LEMMA EnableRecord ==
    ASSUME OpsGood, ServiceTyped, NEW p \in Caller, EnableHomeKitCamera(p)
    PROVE  /\ Frame(p) /\ Same(op[p], op'[p]) /\ op[p].at = "enable"
           /\ \/ op'[p].at = "start" /\ camera'.published /\ camera'.owned
              \/ op'[p].at = "answer" /\ op'[p].result = "error" /\ Unenabled
           /\ UNCHANGED <<kind, stored, configs, shown, wired, running, inst>>
           /\ UNCHANGED <<overlapped, raced, slow, unreported>>
  <1>1. op[p].at = "enable" /\ UNCHANGED <<kind, serviceVars, running, inst, historyVars>>
    BY DEF EnableHomeKitCamera
  <1>2. CASE camera' = [published |-> TRUE, owned |-> TRUE, left |-> FALSE] /\ Goto(p, "start")
    <2>1. camera'.published /\ camera'.owned BY <1>2
    <2>2. QED BY <1>1, <1>2, <2>1, Records DEF Same, serviceVars, historyVars
  <1>3. CASE ~(camera' = [published |-> TRUE, owned |-> TRUE, left |-> FALSE] /\ Goto(p, "start"))
    <2>1. Answer(p, "error") BY <1>3 DEF EnableHomeKitCamera
    <2>2. Unenabled
      <3>1. CASE UNCHANGED camera BY <3>1 DEF Unenabled
      <3>2. CASE camera' = [camera EXCEPT !.owned = FALSE] BY <3>2 DEF Unenabled, ServiceTyped, Camera
      <3>3. CASE \E stays \in BOOLEAN : camera' = [published |-> stays, owned |-> FALSE, left |-> stays]
        BY <3>3 DEF Unenabled
      <3>4. QED BY <1>3, <3>1, <3>2, <3>3 DEF EnableHomeKitCamera
    <2>3. QED BY <1>1, <2>1, <2>2, Records DEF Same, serviceVars, historyVars
  <1>4. QED BY <1>2, <1>3

\* What DisableHomeKitCamera leaves.
Disables == ~camera'.owned /\ (camera'.published => camera.published) /\
            (camera'.published => ~camera.owned /\ camera'.left = camera.left)
LEMMA DisableRecord == ASSUME DisableHomeKitCamera PROVE Disables
  BY DEF DisableHomeKitCamera, Disables, Unpublished

LEMMA ResetRecord ==
    ASSUME OpsGood, NEW p \in Caller, Reset(p)
    PROVE  /\ Frame(p) /\ Same(op[p], op'[p]) /\ op[p].at = "reset"
           /\ \/ op'[p].at = "delete" /\ op[p].what = "delete" /\ Disables
              \/ op'[p].at = "apply" /\ op[p].what # "delete" /\ Disables
              \/ op'[p].at = "answer" /\ op'[p].result = "error" /\ (UNCHANGED camera \/ Disables)
           /\ UNCHANGED <<kind, stored, configs, shown, wired, running, inst>>
           /\ UNCHANGED <<overlapped, raced, slow, unreported>>
  <1>1. op[p].at = "reset" /\ UNCHANGED <<kind, serviceVars, running, inst, historyVars>>
    BY DEF Reset
  <1>2. CASE DisableHomeKitCamera /\ Goto(p, IF op[p].what = "delete" THEN "delete" ELSE "apply")
    <2>1. CASE op[p].what = "delete"
      <3>1. Goto(p, "delete") BY <1>2, <2>1
      <3>2. QED BY <1>1, <1>2, <2>1, <3>1, DisableRecord, Records DEF Same, serviceVars, historyVars
    <2>2. CASE op[p].what # "delete"
      <3>1. Goto(p, "apply") BY <1>2, <2>2
      <3>2. QED BY <1>1, <1>2, <2>2, <3>1, DisableRecord, Records DEF Same, serviceVars, historyVars
    <2>3. QED BY <2>1, <2>2
  <1>3. CASE (DisableHomeKitCamera \/ UNCHANGED camera) /\ Answer(p, "error")
    BY <1>1, <1>3, DisableRecord, Records DEF Same, serviceVars, historyVars
  <1>4. QED BY <1>2, <1>3 DEF Reset

\* Start, and the two ways in which it ends.
LEMMA StartRecord ==
    ASSUME OpsGood, TableGood, NEW p \in Caller, Start(p)
    PROVE  /\ Frame(p) /\ Same(op[p], op'[p]) /\ op[p].at = "start" /\ op'[p].at = "await"
           /\ \E i \in Instance :
                 /\ running' = i /\ op'[p].new = i
                 /\ inst'[i].at = "up" /\ inst'[i].config = op[p].item
                 /\ inst[i].at = "over"
                 /\ \A j \in Instance \ {i} : inst'[j] = inst[j]
           /\ UNCHANGED <<kind, stored, configs, shown, wired, camera>>
           /\ UNCHANGED <<overlapped, raced, slow, unreported>>
  <1>1. op[p] \in Operation /\ op \in [Caller -> Operation] BY DEF OpsGood
  <1>2. PICK i \in Instance :
            /\ inst[i].at = "over"
            /\ running' = i
            /\ inst' = [inst EXCEPT ![i] = [Over EXCEPT !.at = "up", !.config = op[p].item]]
            /\ op' = [op EXCEPT ![p].at = "await", ![p].old = None, ![p].new = i]
    <2> DEFINE Free(i) == inst[i].at = "over" /\ \A q \in Caller : i \notin {op[q].old, op[q].new}
    <2>1. \E i \in Instance : Free(i) BY DEF Start
    <2>2. PICK j \in Instance : j = CHOOSE i \in Instance : Free(i) BY <2>1
    <2>3. Free(j) BY <2>1, <2>2
    <2>4. inst[j].at = "over" BY <2>3
    <2>5. /\ running' = j
          /\ inst' = [inst EXCEPT ![j] = [Over EXCEPT !.at = "up", !.config = op[p].item]]
          /\ op' = [op EXCEPT ![p].at = "await", ![p].old = None, ![p].new = j]
      BY <2>2 DEF Start
    <2>6. QED BY <2>4, <2>5
  <1> DEFINE s == [op[p] EXCEPT !.at = "await"]
             t == [s EXCEPT !.old = None]
             r == [t EXCEPT !.new = i]
  <1>3. s.at = "await" /\ s.what = op[p].what /\ s.item = op[p].item /\ s \in Operation
    BY <1>1 DEF Operation
  <1>4. t.at = s.at /\ t.what = s.what /\ t.item = s.item /\ t \in Operation
    <2> HIDE DEF s
    <2>1. QED BY <1>3 DEF Operation
  <1>5. r.at = t.at /\ r.what = t.what /\ r.item = t.item /\ r.new = i
    <2> HIDE DEF t
    <2>1. QED BY <1>4 DEF Operation
  <1>6. op' = [op EXCEPT ![p] = r] BY <1>1, <1>2
  <1> HIDE DEF r, s, t
  <1>7. Frame(p) /\ op'[p] = r BY <1>1, <1>6 DEF Frame
  <1>8. /\ inst'[i].at = "up" /\ inst'[i].config = op[p].item
        /\ \A j \in Instance \ {i} : inst'[j] = inst[j]
    BY <1>2 DEF Over, TableGood
  <1>9. /\ UNCHANGED <<kind, stored, configs, shown, wired, camera>>
        /\ UNCHANGED <<overlapped, raced, slow, unreported>> /\ op[p].at = "start"
    BY DEF Start, serviceVars, historyVars
  <1>10. Same(op[p], op'[p]) /\ op'[p].at = "await" /\ op'[p].new = i
    BY <1>3, <1>4, <1>5, <1>7 DEF Same
  <1>11. QED BY <1>2, <1>7, <1>8, <1>9, <1>10

LEMMA StartFailedRecord ==
    ASSUME OpsGood, NEW p \in Caller, StartFailed(p)
    PROVE  /\ Frame(p) /\ Same(op[p], op'[p]) /\ op[p].at = "await"
           /\ op'[p].at = "answer" /\ op'[p].result = "error"
           /\ inst[op[p].new].at # "up" /\ running' = None
           /\ UNCHANGED <<kind, stored, configs, shown, wired, inst, camera>>
           /\ UNCHANGED <<overlapped, raced, slow, unreported>>
  <1>1. op[p].at = "await" /\ Answer(p, "error") /\ running' = None /\ inst[op[p].new].at # "up"
    BY DEF StartFailed
  <1>2. UNCHANGED <<kind, serviceVars, inst, camera, historyVars>> BY DEF StartFailed
  <1>3. QED BY <1>1, <1>2, Records DEF Same, serviceVars, historyVars

LEMMA StartedRecord ==
    ASSUME OpsGood, NEW p \in Caller, Started(p)
    PROVE  /\ Frame(p) /\ Same(op[p], op'[p]) /\ op[p].at = "await"
           /\ op'[p].at = "answer" /\ op'[p].result = "running"
           /\ UNCHANGED <<kind, stored, configs, shown, wired, running, inst, camera>>
           /\ UNCHANGED <<overlapped, raced, slow, unreported>>
  <1>1. op[p].at = "await" /\ Answer(p, "running") BY DEF Started
  <1>2. UNCHANGED <<kind, serviceVars, managerVars, historyVars>> BY DEF Started
  <1>3. QED BY <1>1, <1>2, Records DEF Same, serviceVars, managerVars, historyVars

\* DeleteTarget, Forget and Done.
LEMMA DeleteTargetRecord ==
    ASSUME OpsGood, NEW p \in Caller, DeleteTarget(p)
    PROVE  /\ Frame(p) /\ Same(op[p], op'[p]) /\ op[p].at = "delete"
           /\ \/ stored' = None /\ op'[p].at = "forget" /\ op[p].item # None
              \/ stored' = None /\ op'[p].at = "stop" /\ op'[p].next = "forget"
              \/ stored' = stored /\ op'[p].at = "answer" /\ op'[p].result = "error"
           /\ UNCHANGED <<kind, configs, shown, wired, running, inst, camera>>
           /\ UNCHANGED <<overlapped, raced, slow, unreported>>
  <1>1. op[p].at = "delete" /\ UNCHANGED <<kind, configs, shown, wired, managerVars, historyVars>>
    BY DEF DeleteTarget
  <1>2. CASE stored' = None /\ op[p].item # None /\ Goto(p, "forget")
    BY <1>1, <1>2, Records DEF Same, managerVars, historyVars
  <1>3. CASE stored' = None /\ Stop(p, "forget")
    BY <1>1, <1>3, Records DEF Same, managerVars, historyVars
  <1>4. CASE UNCHANGED stored /\ Answer(p, "error")
    BY <1>1, <1>4, Records DEF Same, managerVars, historyVars
  <1>5. QED BY <1>2, <1>3, <1>4 DEF DeleteTarget

LEMMA ForgetRecord ==
    ASSUME OpsGood, NEW p \in Caller, Forget(p)
    PROVE  /\ Frame(p) /\ op'[p] = Idle /\ op[p].at = "forget"
           /\ configs' = None /\ shown' = None /\ ~unreported'
           /\ UNCHANGED <<kind, stored, wired, running, inst, camera>>
           /\ UNCHANGED <<overlapped, raced, slow>>
  BY Records DEF Forget, managerVars

LEMMA DoneRecord ==
    ASSUME OpsGood, NEW p \in Caller, Done(p)
    PROVE  /\ Frame(p) /\ op'[p] = Idle /\ op[p].at = "answer"
           /\ \/ /\ op[p].what \in {"save", "boot"}
                 /\ shown' = [status |-> op[p].result, config |-> op[p].item]
                 /\ configs' = op[p].item /\ wired'
              \/ /\ op[p].what \in {"refresh", "clear"}
                 /\ shown' = [status |-> op[p].result, config |-> op[p].item]
                 /\ UNCHANGED <<configs, wired>>
              \/ op[p].what = "clear" /\ SetStatus("error") /\ UNCHANGED <<configs, wired>>
              \/ op[p].what \in {"refresh", "delete"} /\ unreported' /\ UNCHANGED <<shown, configs, wired>>
           /\ UNCHANGED <<kind, stored, running, inst, camera>>
           /\ UNCHANGED <<overlapped, raced, slow>>
  <1>1. Frame(p) /\ op'[p] = Idle BY Records DEF Done
  <1>2. UNCHANGED <<kind, stored, running, inst, camera, overlapped, raced, slow>>
    BY DEF Done, managerVars
  <1>3. QED BY <1>1, <1>2 DEF Done
-----------------------------------------------------------------------------
\* The calls take their courses.
LEMMA MoveCourse ==
    ASSUME Courses, NEW p \in Caller, Frame(p), UNCHANGED kind, Course(op[p])'
    PROVE  Courses'
  BY DEF Courses, Course, Frame, Stopping

LEMMA StepCourses == ASSUME IInv, Courses, NEW p \in Caller, Step(p) PROVE Courses'
  <1>1. ServiceTyped /\ TableGood /\ OpsGood BY Parts
  <1>2. Course(op[p]) BY DEF Courses
  <1>3. op[p].next \in {"none", "disabled", "enable", "start", "aborted", "reset", "forget"}
    BY <1>1 DEF OpsGood, Operation
  <1>4. CASE Apply(p) \/ StartAborted(p)
    <2>1. Frame(p) /\ Same(op[p], op'[p]) /\ Early(op[p], op'[p]) /\ UNCHANGED kind BY <1>1, <1>4, EarlySteps
    <2>2. Course(op[p])' BY <1>2, <2>1 DEF Course, Stopping, Same, Early
    <2>3. QED BY <2>1, <2>2, MoveCourse
  <1>5. CASE TakeDown(p)
    <2>1. Frame(p) /\ UNCHANGED kind /\ op[p].at = "stop" /\ Same(op[p], op'[p])
      BY <1>1, <1>5, TakeDownRecord
    <2>2. After(op[p], op'[p]) \/ (op'[p].at = "wait" /\ op'[p].next = op[p].next)
      BY <1>1, <1>5, TakeDownRecord
    <2>3. Course(op[p])' BY <1>2, <2>1, <2>2 DEF Course, Stopping, Same, After
    <2>4. QED BY <2>1, <2>3, MoveCourse
  <1>6. CASE AwaitEnd(p)
    <2>1. Frame(p) /\ UNCHANGED kind /\ op[p].at = "wait" /\ Same(op[p], op'[p])
      BY <1>1, <1>6, AwaitEndRecord
    <2>2. After(op[p], op'[p]) \/ op'[p].at = "answer"
      BY <1>1, <1>6, AwaitEndRecord
    <2>3. Course(op[p])' BY <1>2, <2>1, <2>2 DEF Course, Stopping, Same, After
    <2>4. QED BY <2>1, <2>3, MoveCourse
  <1>7. CASE EnableHomeKitCamera(p)
    <2>1. Frame(p) /\ UNCHANGED kind /\ op[p].at = "enable" /\ Same(op[p], op'[p])
          /\ op'[p].at \in {"start", "answer"}
      BY <1>1, <1>7, EnableRecord
    <2>2. Course(op[p])' BY <1>2, <2>1 DEF Course, Stopping, Same
    <2>3. QED BY <2>1, <2>2, MoveCourse
  <1>8. CASE Start(p) \/ StartFailed(p) \/ Started(p)
    <2>1. Frame(p) /\ UNCHANGED kind /\ op[p].at \in {"start", "await"} /\ Same(op[p], op'[p])
          /\ op'[p].at \in {"await", "answer"}
      BY <1>1, <1>8, StartRecord, StartFailedRecord, StartedRecord
    <2>2. Course(op[p])' BY <1>2, <2>1 DEF Course, Stopping, Same
    <2>3. QED BY <2>1, <2>2, MoveCourse
  <1>9. CASE Reset(p)
    <2>1. Frame(p) /\ UNCHANGED kind /\ op[p].at = "reset" /\ Same(op[p], op'[p])
          /\ \/ op'[p].at = "delete" /\ op[p].what = "delete"
             \/ op'[p].at = "apply" /\ op[p].what # "delete"
             \/ op'[p].at = "answer"
      BY <1>1, <1>9, ResetRecord
    <2>2. Course(op[p])' BY <1>2, <2>1 DEF Course, Stopping, Same
    <2>3. QED BY <2>1, <2>2, MoveCourse
  <1>10. CASE DeleteTarget(p)
    <2>1. Frame(p) /\ UNCHANGED kind /\ op[p].at = "delete" /\ Same(op[p], op'[p])
          /\ (op'[p].at \in {"forget", "answer"} \/ (op'[p].at = "stop" /\ op'[p].next = "forget"))
      BY <1>1, <1>10, DeleteTargetRecord
    <2>2. Course(op[p])' BY <1>2, <2>1 DEF Course, Stopping, Same
    <2>3. QED BY <2>1, <2>2, MoveCourse
  <1>11. CASE Forget(p) \/ Done(p)
    <2>1. Frame(p) /\ UNCHANGED kind /\ op'[p] = Idle BY <1>1, <1>11, ForgetRecord, DoneRecord
    <2>2. Course(op[p])' BY <2>1 DEF Course, Stopping, Idle
    <2>3. QED BY <2>1, <2>2, MoveCourse
  <1>12. QED BY <1>4, <1>5, <1>6, <1>7, <1>8, <1>9, <1>10, <1>11 DEF Step

\* How a call begins.
Begun(n) ==
    \/ n.at = "apply" /\ n.what = "save" /\ stored' = n.item
    \/ n.at = "stop" /\ n.what = "delete" /\ n.next = "reset" /\ UNCHANGED stored
    \/ n.at = "delete" /\ n.what = "delete" /\ n.item = None /\ UNCHANGED stored
       /\ (kind = "camera" => configs = None)
    \/ n.at = "apply" /\ n.what = "refresh" /\ n.item = configs /\ UNCHANGED stored
    \/ n.at = "stop" /\ n.what = "clear" /\ n.item = configs /\ n.next = "reset" /\ UNCHANGED stored

LEMMA CallRecord ==
    ASSUME OpsGood, Call
    PROVE  /\ wired /\ UNCHANGED <<kind, configs, shown, wired, running, inst, camera, slow, unreported>>
           /\ overlapped' = (overlapped \/ \E p \in Caller : Active(p))
           /\ raced' = (raced \/ \E i \in Instance : inst[i].at \in {"ended", "failed"} /\ ~inst[i].cancelled)
           /\ \/ UNCHANGED <<op, stored>>
              \/ \E p \in Caller : Frame(p) /\ Begun(op'[p])
  <1>1. op \in [Caller -> Operation] BY DEF OpsGood
  <1>2. /\ wired /\ UNCHANGED <<kind, configs, shown, wired, running, inst, camera, slow, unreported>>
        /\ overlapped' = (overlapped \/ \E p \in Caller : Active(p))
        /\ raced' = (raced \/ \E i \in Instance : inst[i].at \in {"ended", "failed"} /\ ~inst[i].cancelled)
    BY DEF Call, managerVars
  <1>3. PICK p \in Caller :
            (\E item \in Config : Save(p, item)) \/ Delete(p) \/ Refresh(p) \/ ClearPairingIdentity(p)
    <2> DEFINE q == CHOOSE c \in Caller : ~Active(c)
    <2>1. q \in Caller BY DEF Call
    <2>2. QED BY <2>1 DEF Call
  <1>4. UNCHANGED <<op, stored>> \/ (Frame(p) /\ Begun(op'[p]))
    <2>1. CASE \E item \in Config : Save(p, item)
      <3>1. PICK item \in Config : Save(p, item) BY <2>1
      <3> DEFINE r == [Idle EXCEPT !.at = "apply", !.what = "save", !.item = item]
      <3>2. r.at = "apply" /\ r.what = "save" /\ r.item = item BY DEF Idle
      <3>3. UNCHANGED <<op, stored>> \/ (op' = [op EXCEPT ![p] = r] /\ stored' = item) BY <3>1 DEF Save
      <3> HIDE DEF r
      <3>4. UNCHANGED <<op, stored>> \/ (Frame(p) /\ op'[p] = r /\ stored' = item) BY <1>1, <3>3 DEF Frame
      <3>5. QED BY <3>2, <3>4 DEF Begun
    <2>2. CASE Delete(p)
      <3> DEFINE r == [Idle EXCEPT !.at = "stop", !.what = "delete", !.item = configs, !.next = "reset"]
                 s == [Idle EXCEPT !.at = "delete", !.what = "delete"]
      <3>1. r.at = "stop" /\ r.what = "delete" /\ r.next = "reset" BY DEF Idle
      <3>2. s.at = "delete" /\ s.what = "delete" /\ s.item = None BY DEF Idle
      <3>3. /\ op' = [op EXCEPT ![p] = r] \/ (op' = [op EXCEPT ![p] = s] /\ (kind = "camera" => configs = None))
            /\ UNCHANGED stored
        BY <2>2 DEF Delete
      <3> HIDE DEF r, s
      <3>4. Frame(p) /\ (op'[p] = r \/ (op'[p] = s /\ (kind = "camera" => configs = None)))
        BY <1>1, <3>3 DEF Frame
      <3>5. QED BY <3>1, <3>2, <3>3, <3>4 DEF Begun
    <2>3. CASE Refresh(p)
      <3> DEFINE r == [Idle EXCEPT !.at = "apply", !.what = "refresh", !.item = configs]
      <3>1. r.at = "apply" /\ r.what = "refresh" /\ r.item = configs BY DEF Idle
      <3>2. op' = [op EXCEPT ![p] = r] /\ UNCHANGED stored BY <2>3 DEF Refresh
      <3> HIDE DEF r
      <3>3. Frame(p) /\ op'[p] = r BY <1>1, <3>2 DEF Frame
      <3>4. QED BY <3>1, <3>2, <3>3 DEF Begun
    <2>4. CASE ClearPairingIdentity(p)
      <3> DEFINE r == [Idle EXCEPT !.at = "stop", !.what = "clear", !.item = configs, !.next = "reset"]
      <3>1. r.at = "stop" /\ r.what = "clear" /\ r.item = configs /\ r.next = "reset" BY DEF Idle
      <3>2. op' = [op EXCEPT ![p] = r] /\ UNCHANGED stored BY <2>4 DEF ClearPairingIdentity
      <3> HIDE DEF r
      <3>3. Frame(p) /\ op'[p] = r BY <1>1, <3>2 DEF Frame
      <3>4. QED BY <3>1, <3>2, <3>3 DEF Begun
    <2>5. QED BY <1>3, <2>1, <2>2, <2>3, <2>4
  <1>5. QED BY <1>2, <1>4

\* What a goroutine does to its instance, the table and what is shown.
Lives(i) ==
    \/ /\ kind = "matter" /\ inst[i].at = "up" /\ inst'[i].at = "up" /\ running' = running
       /\ inst'[i].config = inst[i].config /\ setStatus("running")
       /\ UNCHANGED <<camera, raced>>
    \/ /\ inst[i].at = "up" /\ inst[i].cancelled /\ inst'[i].at = "over" /\ running' = running
       /\ (Disables \/ (camera.owned /\ camera'.owned /\ camera'.left))
       /\ UNCHANGED <<shown, raced>>
    \/ /\ inst[i].at = "up" /\ ~inst[i].cancelled /\ kind # "camera" /\ inst'[i].at = "ended"
       /\ ~inst'[i].cancelled /\ inst'[i].config = inst[i].config /\ running' = running
       /\ (raced' <=> raced \/ \E p \in Caller : Active(p))
       /\ UNCHANGED <<camera, shown>>
    \/ /\ inst[i].at = "ended" /\ inst[i].cancelled /\ inst'[i].at = "over" /\ running' = running
       /\ UNCHANGED <<camera, shown, raced>>
    \/ /\ inst[i].at = "ended" /\ ~inst[i].cancelled /\ inst'[i].at = "failed" /\ ~inst'[i].cancelled
       /\ running' = (IF running = i THEN None ELSE running)
       /\ UNCHANGED <<camera, shown, raced>>
    \/ /\ inst[i].at = "failed" /\ inst'[i].at = "over" /\ running' = running
       /\ setStatus("error") /\ UNCHANGED <<camera, raced>>

LEMMA GoroutineRecord ==
    ASSUME TableGood, ServiceTyped, NEW i \in Instance, Goroutine(i)
    PROVE  /\ Lives(i)
           /\ \A j \in Instance \ {i} : inst'[j] = inst[j]
           /\ UNCHANGED <<kind, stored, configs, wired, op, overlapped, slow, unreported>>
  <1>1. inst[i] \in Run /\ inst \in [Instance -> Run] BY DEF TableGood
  <1>2. Over.at = "over" BY DEF Over
  <1>3. CASE Connected(i)
    <2> DEFINE r == [inst[i] EXCEPT !.ready = TRUE]
    <2>1. r.at = inst[i].at /\ r.config = inst[i].config BY <1>1 DEF Run
    <2>2. inst' = [inst EXCEPT ![i] = r] BY <1>1, <1>3 DEF Connected
    <2> HIDE DEF r
    <2>3. inst'[i] = r /\ \A j \in Instance \ {i} : inst'[j] = inst[j] BY <1>1, <2>2
    <2>4. QED BY <1>3, <2>1, <2>3 DEF Connected, Lives, historyVars
  <1>4. CASE Ends(i)
    <2>1. inst'[i] = Over /\ \A j \in Instance \ {i} : inst'[j] = inst[j] BY <1>1, <1>4 DEF Ends
    <2>2. Disables \/ (camera.owned /\ camera'.owned /\ camera'.left)
      <3>1. CASE DisableHomeKitCamera BY <3>1, DisableRecord
      <3>2. CASE camera.owned /\ camera' = [camera EXCEPT !.left = TRUE] BY <3>2 DEF ServiceTyped, Camera
      <3>3. QED BY <1>4, <3>1, <3>2 DEF Ends
    <2>3. UNCHANGED <<kind, serviceVars, running, op, historyVars>> /\ inst[i].at = "up" /\ inst[i].cancelled
      BY <1>4 DEF Ends
    <2>4. QED BY <1>2, <2>1, <2>2, <2>3 DEF Lives, serviceVars, historyVars
  <1>5. CASE Exits(i)
    <2> DEFINE r == [inst[i] EXCEPT !.at = "ended"]
    <2>1. r.at = "ended" /\ r.config = inst[i].config /\ r.cancelled = inst[i].cancelled BY <1>1 DEF Run
    <2>2. inst' = [inst EXCEPT ![i] = r] BY <1>1, <1>5 DEF Exits
    <2> HIDE DEF r
    <2>3. inst'[i] = r /\ \A j \in Instance \ {i} : inst'[j] = inst[j] BY <1>1, <2>2
    <2>4. raced' <=> raced \/ \E p \in Caller : Active(p) BY <1>5 DEF Exits
    <2>5. UNCHANGED <<kind, serviceVars, running, camera, op, overlapped, slow, unreported>>
          /\ inst[i].at = "up" /\ ~inst[i].cancelled /\ kind # "camera"
      BY <1>5 DEF Exits
    <2>6. QED BY <2>1, <2>3, <2>4, <2>5 DEF Lives, serviceVars
  <1>6. CASE CleansUp(i)
    <2>1. UNCHANGED <<kind, serviceVars, camera, op, historyVars>> /\ inst[i].at = "ended"
      BY <1>6 DEF CleansUp
    <2>2. CASE inst[i].cancelled
      <3>1. inst'[i] = Over /\ \A j \in Instance \ {i} : inst'[j] = inst[j] BY <1>1, <1>6, <2>2 DEF CleansUp
      <3>2. running' = running BY <1>6, <2>2 DEF CleansUp
      <3>3. QED BY <1>2, <2>1, <2>2, <3>1, <3>2 DEF Lives, serviceVars, historyVars
    <2>3. CASE ~inst[i].cancelled
      <3> DEFINE r == [inst[i] EXCEPT !.at = "failed"]
      <3>1. r.at = "failed" /\ r.cancelled = inst[i].cancelled BY <1>1 DEF Run
      <3>2. inst' = [inst EXCEPT ![i] = r] BY <1>1, <1>6, <2>3 DEF CleansUp
      <3> HIDE DEF r
      <3>3. inst'[i] = r /\ \A j \in Instance \ {i} : inst'[j] = inst[j] BY <1>1, <3>2
      <3>4. running' = (IF running = i THEN None ELSE running) BY <1>6, <2>3 DEF CleansUp
      <3>5. QED BY <2>1, <2>3, <3>1, <3>3, <3>4 DEF Lives, serviceVars, historyVars
    <2>4. QED BY <2>2, <2>3
  <1>7. CASE Reports(i)
    <2>1. inst'[i] = Over /\ \A j \in Instance \ {i} : inst'[j] = inst[j] BY <1>1, <1>7 DEF Reports
    <2>2. QED BY <1>2, <1>7, <2>1 DEF Reports, Lives, historyVars
  <1>8. QED BY <1>3, <1>4, <1>5, <1>6, <1>7 DEF Goroutine

\* The beginning of a call, and steps that leave the calls alone, keep the courses.
LEMMA OtherCourses ==
    ASSUME IInv, Courses, Call \/ List \/ (\E i \in Instance : Goroutine(i)) \/ UNCHANGED vars
    PROVE  Courses'
  <1>1. ServiceTyped /\ TableGood /\ OpsGood BY Parts
  <1>2. CASE UNCHANGED <<op, kind>> BY <1>2 DEF Courses, Course, Stopping
  <1>3. CASE Call
    <2>1. UNCHANGED kind /\ (UNCHANGED op \/ \E p \in Caller : Frame(p) /\ Begun(op'[p]))
      BY <1>1, <1>3, CallRecord
    <2>2. CASE \E p \in Caller : Frame(p) /\ Begun(op'[p])
      <3>1. PICK p \in Caller : Frame(p) /\ Begun(op'[p]) BY <2>2
      <3>2. Course(op[p])' BY <3>1 DEF Course, Stopping, Begun
      <3>3. QED BY <2>1, <3>1, <3>2, MoveCourse
    <2>3. QED BY <1>2, <2>1, <2>2
  <1>4. CASE List BY <1>2, <1>4 DEF List
  <1>5. CASE \E i \in Instance : Goroutine(i)
    BY <1>1, <1>2, <1>5, GoroutineRecord
  <1>6. CASE UNCHANGED vars BY <1>2, <1>6 DEF vars
  <1>7. QED BY <1>3, <1>4, <1>5, <1>6
-----------------------------------------------------------------------------
\* A step of a call lets no target exit and gives up no claim.
LEMMA StepFrame ==
    ASSUME IInv, NEW p \in Caller, Step(p)
    PROVE  /\ Frame(p) /\ Active(p) /\ UNCHANGED <<kind, overlapped, raced>> /\ (slow => slow')
           /\ \A i \in Instance : inst'[i].at = inst[i].at \/ inst'[i].at = "up"
  <1>1. ServiceTyped /\ TableGood /\ OpsGood BY Parts
  <1>2. CASE Apply(p) \/ StartAborted(p)
    BY <1>1, <1>2, EarlySteps DEF Early, Active
  <1>3. CASE TakeDown(p)
    BY <1>1, <1>3, TakeDownRecord DEF Active
  <1>4. CASE AwaitEnd(p)
    BY <1>1, <1>4, AwaitEndRecord DEF Active
  <1>5. CASE EnableHomeKitCamera(p) BY <1>1, <1>5, EnableRecord DEF Active
  <1>6. CASE Start(p) BY <1>1, <1>6, StartRecord DEF Active
  <1>7. CASE StartFailed(p) BY <1>1, <1>7, StartFailedRecord DEF Active
  <1>8. CASE Started(p) BY <1>1, <1>8, StartedRecord DEF Active
  <1>9. CASE Reset(p) BY <1>1, <1>9, ResetRecord DEF Active
  <1>10. CASE DeleteTarget(p) BY <1>1, <1>10, DeleteTargetRecord DEF Active
  <1>11. CASE Forget(p) BY <1>1, <1>11, ForgetRecord DEF Active
  <1>12. CASE Done(p) BY <1>1, <1>12, DoneRecord DEF Active
  <1>13. QED BY <1>2, <1>3, <1>4, <1>5, <1>6, <1>7, <1>8, <1>9, <1>10, <1>11, <1>12 DEF Step

LEMMA StepUnraced == ASSUME IInv, Unraced, [Next]_vars PROVE Unraced'
  <1>1. ServiceTyped /\ TableGood /\ OpsGood BY Parts
  <1>2. ASSUME NEW p \in Caller, Step(p) PROVE Unraced'
    <2>1. /\ Active(p) /\ UNCHANGED <<kind, raced>>
          /\ \A i \in Instance : inst'[i].at = inst[i].at \/ inst'[i].at = "up"
      BY <1>2, StepFrame
    <2>2. ~raced => \A i \in Instance : ~Exited(i) BY <2>1 DEF Unraced
    <2>3. ~raced => \A i \in Instance : ~Exited(i)' BY <2>1, <2>2 DEF Exited
    <2>4. QED BY <2>1, <2>3 DEF Unraced
  <1>3. CASE Call
    <2>1. UNCHANGED <<kind, inst>>
          /\ raced' = (raced \/ \E i \in Instance : inst[i].at \in {"ended", "failed"} /\ ~inst[i].cancelled)
      BY <1>1, <1>3, CallRecord
    <2>2. raced' <=> (raced \/ \E i \in Instance : Exited(i) /\ ~inst[i].cancelled) BY <2>1 DEF Exited
    <2>3. ~raced' => \A i \in Instance : ~Exited(i) BY <2>2 DEF Unraced
    <2>4. kind = "camera" => ~raced' /\ \A i \in Instance : ~Exited(i) BY <2>2 DEF Unraced
    <2>5. \A i \in Instance : Exited(i)' <=> Exited(i) BY <2>1 DEF Exited
    <2>6. QED BY <2>1, <2>3, <2>4, <2>5 DEF Unraced
  <1>4. ASSUME NEW i \in Instance, Goroutine(i) PROVE Unraced'
    <2>1. /\ Lives(i) /\ UNCHANGED <<kind, op>>
          /\ \A j \in Instance \ {i} : inst'[j] = inst[j]
      BY <1>1, <1>4, GoroutineRecord
    <2>2. raced => raced' BY <2>1 DEF Lives
    <2>3. ASSUME ~raced', NEW j \in Instance, Exited(j)' PROVE ~inst'[j].cancelled /\ \A p \in Caller : ~Active(p)'
      <3>1. \A p \in Caller : Active(p)' <=> Active(p) BY <2>1 DEF Active
      <3>2. CASE j # i
        <4>1. inst'[j] = inst[j] /\ Exited(j) BY <2>1, <2>3, <3>2 DEF Exited
        <4>2. QED BY <2>2, <2>3, <3>1, <4>1 DEF Unraced
      <3>3. CASE j = i
        <4>1. CASE inst[i].at = "up"
          BY <2>1, <2>3, <3>1, <3>3, <4>1 DEF Lives, Exited
        <4>2. CASE inst[i].at # "up"
          <5>1. inst[i].at = "ended" /\ ~inst'[i].cancelled BY <2>1, <2>3, <3>3, <4>2 DEF Lives, Exited
          <5>2. Exited(i) BY <5>1 DEF Exited
          <5>3. QED BY <2>2, <2>3, <3>1, <3>3, <5>1, <5>2 DEF Unraced
        <4>3. QED BY <4>1, <4>2
      <3>4. QED BY <3>2, <3>3
    <2>4. ASSUME kind = "camera" PROVE ~raced' /\ \A j \in Instance : ~Exited(j)'
      <3>1. ~raced /\ \A j \in Instance : ~Exited(j) BY <2>4 DEF Unraced
      <3>2. ~raced' /\ ~Exited(i)' BY <2>1, <2>4, <3>1 DEF Lives, Exited
      <3>3. \A j \in Instance \ {i} : ~Exited(j)' BY <2>1, <3>1 DEF Exited
      <3>4. QED BY <3>2, <3>3
    <2>5. QED BY <2>1, <2>3, <2>4 DEF Unraced
  <1>5. CASE UNCHANGED <<kind, inst, op, raced>> BY <1>5 DEF Unraced, Exited, Active
  <1>6. CASE List
    <2>1. UNCHANGED <<kind, inst, op, raced>> BY <1>6 DEF List, managerVars, historyVars
    <2>2. QED BY <1>5, <2>1
  <1>7. CASE UNCHANGED vars
    <2>1. UNCHANGED <<kind, inst, op, raced>> BY <1>7 DEF vars, managerVars, historyVars
    <2>2. QED BY <1>5, <2>1
  <1>8. QED BY <1>2, <1>3, <1>4, <1>6, <1>7 DEF Next
-----------------------------------------------------------------------------
\* While calls do not overlap, the others are idle.
LEMMA Alone ==
    ASSUME Calm, Courses, ~overlapped, NEW p \in Caller, Active(p), Frame(p)
    PROVE  /\ \A q \in Caller \ {p} : op[q].at = "idle" /\ op'[q].at = "idle" /\ op'[q].what = "none"
           /\ OneCall /\ TakenDown /\ Single
  <1>1. OneCall /\ TakenDown /\ Single BY DEF Calm
  <1>2. \A q \in Caller \ {p} : op[q].at = "idle" BY <1>1 DEF OneCall, Active
  <1>3. \A q \in Caller \ {p} : op[q].what = "none" BY <1>2 DEF Courses, Course
  <1>4. QED BY <1>1, <1>2, <1>3 DEF Frame

\* A call goes on, and what is stored is what its place says.
LEMMA MoveRemembers ==
    ASSUME Calm, Courses, ~overlapped, Remembers, NEW p \in Caller, Active(p), Frame(p),
           op'[p].at # "idle", UNCHANGED <<configs, wired>>, configs = None <=> shown' = None,
           StoredBy(op[p])'
    PROVE  Remembers'
  <1>1. \A q \in Caller \ {p} : op'[q].at = "idle" /\ op'[q].what = "none" BY Alone
  <1>2. \A q \in Caller \ {p} : StoredBy(op[q])' BY <1>1 DEF StoredBy
  <1>3. Active(p)' BY DEF Active
  <1>4. QED BY <1>2, <1>3 DEF Remembers

LEMMA StepRemembers ==
    ASSUME IInv, Calm, Courses, ~overlapped, Remembers, NEW p \in Caller, Step(p)
    PROVE  Remembers'
  <1>1. ServiceTyped /\ TableGood /\ OpsGood BY Parts
  <1>2. Course(op[p]) /\ StoredBy(op[p]) BY DEF Courses, Remembers
  <1>3. Active(p) /\ Frame(p) BY StepFrame
  <1>4. ASSUME Same(op[p], op'[p]), op'[p].at # "idle", UNCHANGED <<stored, configs, shown, wired>>,
               op[p].what = "delete" => (Erased(op'[p]) <=> Erased(op[p]))
        PROVE  Remembers'
    <2>1. StoredBy(op[p])' BY <1>2, <1>3, <1>4 DEF StoredBy, Same, Active
    <2>2. configs = None <=> shown' = None BY <1>4 DEF Remembers
    <2>3. QED BY <1>3, <1>4, <2>1, <2>2, MoveRemembers
  <1>5. CASE Apply(p) \/ StartAborted(p)
    <2>1. /\ Same(op[p], op'[p]) /\ Early(op[p], op'[p]) /\ UNCHANGED <<stored, configs, shown, wired>>
      BY <1>1, <1>5, EarlySteps
    <2>2. op'[p].at # "idle" /\ op[p].what # "delete" BY <1>2, <2>1 DEF Early, Course
    <2>3. QED BY <1>4, <2>1, <2>2
  <1>6. CASE TakeDown(p)
    <2>1. /\ Same(op[p], op'[p]) /\ op[p].at = "stop" /\ UNCHANGED <<stored, configs, shown, wired>>
          /\ (After(op[p], op'[p]) \/ (op'[p].at = "wait" /\ op'[p].next = op[p].next))
      BY <1>1, <1>6, TakeDownRecord
    <2>2. op'[p].at # "idle" /\ (Erased(op'[p]) <=> Erased(op[p])) BY <2>1 DEF After, Erased, Stopping
    <2>3. QED BY <1>4, <2>1, <2>2
  <1>7. CASE AwaitEnd(p)
    <2>1. /\ Same(op[p], op'[p]) /\ op[p].at = "wait" /\ UNCHANGED <<stored, configs, shown, wired>>
          /\ (After(op[p], op'[p]) \/ (op'[p].at = "answer" /\ op[p].next # "forget"))
      BY <1>1, <1>7, AwaitEndRecord
    <2>2. op'[p].at # "idle" /\ (Erased(op'[p]) <=> Erased(op[p])) BY <2>1 DEF After, Erased, Stopping
    <2>3. QED BY <1>4, <2>1, <2>2
  <1>8. CASE EnableHomeKitCamera(p)
    <2>1. /\ Same(op[p], op'[p]) /\ op[p].at = "enable" /\ UNCHANGED <<stored, configs, shown, wired>>
          /\ op'[p].at \in {"start", "answer"}
      BY <1>1, <1>8, EnableRecord
    <2>2. op'[p].at # "idle" /\ op[p].what # "delete" BY <1>2, <2>1 DEF Course
    <2>3. QED BY <1>4, <2>1, <2>2
  <1>9. CASE Start(p) \/ StartFailed(p) \/ Started(p)
    <2>1. /\ Same(op[p], op'[p]) /\ op[p].at \in {"start", "await"} /\ UNCHANGED <<stored, configs, shown, wired>>
          /\ op'[p].at \in {"await", "answer"}
      BY <1>1, <1>9, StartRecord, StartFailedRecord, StartedRecord
    <2>2. op'[p].at # "idle" /\ op[p].what # "delete" BY <1>2, <2>1 DEF Course
    <2>3. QED BY <1>4, <2>1, <2>2
  <1>10. CASE Reset(p)
    <2>1. /\ Same(op[p], op'[p]) /\ op[p].at = "reset" /\ UNCHANGED <<stored, configs, shown, wired>>
          /\ op'[p].at \in {"delete", "apply", "answer"}
      BY <1>1, <1>10, ResetRecord
    <2>2. op'[p].at # "idle" /\ (Erased(op'[p]) <=> Erased(op[p])) BY <2>1 DEF Erased, Stopping
    <2>3. QED BY <1>4, <2>1, <2>2
  <1>11. CASE DeleteTarget(p)
    <2>1. /\ Same(op[p], op'[p]) /\ op[p].at = "delete" /\ UNCHANGED <<configs, shown, wired>>
          /\ \/ stored' = None /\ op'[p].at = "forget"
             \/ stored' = None /\ op'[p].at = "stop" /\ op'[p].next = "forget"
             \/ stored' = stored /\ op'[p].at = "answer"
      BY <1>1, <1>11, DeleteTargetRecord
    <2>2. op[p].what = "delete" /\ op'[p].what = "delete" /\ op'[p].at # "idle" /\ ~Erased(op[p])
      BY <1>2, <2>1 DEF Course, Same, Erased, Stopping
    <2>3. IF Erased(op'[p]) THEN stored' = None ELSE stored' = configs
      BY <1>2, <2>1, <2>2 DEF Erased, Stopping, StoredBy
    <2>4. wired BY <1>2, <1>3, <2>2 DEF StoredBy, Active
    <2>5. StoredBy(op[p])' BY <2>1, <2>2, <2>3, <2>4 DEF StoredBy
    <2>6. configs = None <=> shown' = None BY <2>1 DEF Remembers
    <2>7. QED BY <1>3, <2>1, <2>2, <2>5, <2>6, MoveRemembers
  <1>12. ASSUME op'[p] = Idle, wired', stored' = configs', configs' = None <=> shown' = None
         PROVE  Remembers'
    <2>1. \A q \in Caller \ {p} : op'[q].at = "idle" /\ op'[q].what = "none" BY <1>3, Alone
    <2>2. op'[p].at = "idle" /\ op'[p].what = "none" BY <1>12 DEF Idle
    <2>3. \A q \in Caller : op'[q].at = "idle" /\ op'[q].what = "none" BY <2>1, <2>2
    <2>4. \A q \in Caller : StoredBy(op[q])' BY <2>3 DEF StoredBy
    <2>5. QED BY <1>12, <2>4 DEF Remembers
  <1>13. CASE Forget(p)
    <2>1. /\ op'[p] = Idle /\ op[p].at = "forget" /\ configs' = None /\ shown' = None
          /\ UNCHANGED <<stored, wired>>
      BY <1>1, <1>13, ForgetRecord
    <2>2. op[p].what = "delete" /\ Erased(op[p]) BY <1>2, <2>1 DEF Course, Erased
    <2>3. stored = None /\ wired BY <1>2, <1>3, <2>2 DEF StoredBy, Active
    <2>4. QED BY <1>12, <2>1, <2>3
  <1>14. CASE Done(p)
    <2>1. op'[p] = Idle /\ op[p].at = "answer" /\ UNCHANGED stored BY <1>1, <1>14, DoneRecord
    <2>2. ~Erased(op[p]) BY <2>1 DEF Erased, Stopping
    <2>3. GoodOp(op[p]) BY <1>1 DEF OpsGood
    <2> DEFINE g == [status |-> op[p].result, config |-> op[p].item]
    <2>4. op[p].what \in {"save", "boot", "refresh", "clear"} => op[p].item \in Config /\ g \in Registration
      BY <2>3 DEF GoodOp, Operation, Registration
    <2>5. op[p].what \in {"save", "boot", "refresh", "clear"} => op[p].item # None /\ g # None
      BY <2>4, NothingAssumption
    <2>6. \/ /\ op[p].what \in {"save", "boot"} /\ shown' = g /\ configs' = op[p].item /\ wired'
          \/ op[p].what \in {"refresh", "clear"} /\ shown' = g /\ UNCHANGED <<configs, wired>>
          \/ op[p].what = "clear" /\ SetStatus("error") /\ UNCHANGED <<configs, wired>>
          \/ op[p].what \in {"refresh", "delete"} /\ UNCHANGED <<shown, configs, wired>>
      BY <1>1, <1>14, DoneRecord
    <2> HIDE DEF g
    <2>7. CASE op[p].what \in {"save", "boot"} /\ shown' = g /\ configs' = op[p].item /\ wired'
      <3>1. stored = op[p].item BY <1>2, <2>7 DEF StoredBy
      <3>2. QED BY <1>12, <2>1, <2>5, <2>7, <3>1
    <2>8. CASE op[p].what \in {"refresh", "clear"} /\ shown' = g /\ UNCHANGED <<configs, wired>>
      <3>1. stored = configs /\ configs = op[p].item /\ wired BY <1>2, <1>3, <2>8 DEF StoredBy, Active
      <3>2. QED BY <1>12, <2>1, <2>5, <2>8, <3>1
    <2>9. CASE op[p].what = "clear" /\ SetStatus("error") /\ UNCHANGED <<configs, wired>>
      <3>1. stored = configs /\ configs = op[p].item /\ wired BY <1>2, <1>3, <2>9 DEF StoredBy, Active
      <3>2. shown # None /\ configs # None BY <2>5, <2>9, <3>1 DEF Remembers
      <3>3. shown' # None
        <4>1. shown' \in Registration BY <1>1, <2>9, <3>2 DEF SetStatus, ServiceTyped, Registration, Status
        <4>2. QED BY <4>1, NothingAssumption
      <3>4. QED BY <1>12, <2>1, <2>9, <3>1, <3>2, <3>3
    <2>10. CASE op[p].what \in {"refresh", "delete"} /\ UNCHANGED <<shown, configs, wired>>
      <3>1. stored = configs /\ wired BY <1>2, <1>3, <2>2, <2>10 DEF StoredBy, Active
      <3>2. QED BY <1>12, <2>1, <2>10, <3>1 DEF Remembers
    <2>11. QED BY <2>6, <2>7, <2>8, <2>9, <2>10
  <1>15. QED BY <1>5, <1>6, <1>7, <1>8, <1>9, <1>10, <1>11, <1>13, <1>14 DEF Step

\* A status that is set shows something exactly if something was shown.
LEMMA SetStatusShows ==
    ASSUME ServiceTyped, NEW status \in Status, setStatus(status)
    PROVE  /\ shown' = None <=> shown = None
           /\ wired /\ shown # None => shown'.status = status
  <1>1. CASE ~wired \/ shown = None BY <1>1 DEF setStatus, SetStatus
  <1>2. CASE wired /\ shown # None
    <2>1. shown \in Registration /\ configs \in Config \cup {None} BY <1>2 DEF ServiceTyped
    <2> DEFINE c == IF kind = "matter" /\ configs # None THEN configs ELSE shown.config
    <2>2. c \in Config BY <2>1 DEF Registration
    <2>3. shown' = [status |-> status, config |-> c] BY <1>2 DEF setStatus, SetStatus
    <2> HIDE DEF c
    <2>4. shown' \in Registration /\ shown'.status = status BY <2>2, <2>3 DEF Registration
    <2>5. QED BY <1>2, <2>4, NothingAssumption
  <1>3. QED BY <1>1, <1>2

LEMMA OtherRemembers ==
    ASSUME IInv, Calm, Courses, ~overlapped', ~overlapped => Remembers,
           Call \/ List \/ (\E i \in Instance : Goroutine(i)) \/ UNCHANGED vars
    PROVE  Remembers'
  <1>1. ServiceTyped /\ TableGood /\ OpsGood BY Parts
  <1>2. CASE Call
    <2>1. /\ wired /\ UNCHANGED <<configs, shown, wired>>
          /\ ~overlapped /\ \A p \in Caller : ~Active(p)
          /\ UNCHANGED <<op, stored>> \/ \E p \in Caller : Frame(p) /\ Begun(op'[p])
      BY <1>1, <1>2, CallRecord
    <2>2. Remembers BY <2>1
    <2>3. CASE UNCHANGED <<op, stored>>
      <3>1. \A p \in Caller : StoredBy(op[p])' BY <2>1, <2>2, <2>3 DEF Remembers, StoredBy, Erased, Stopping
      <3>2. QED BY <2>1, <2>2, <2>3, <3>1 DEF Remembers, Active
    <2>4. CASE \E p \in Caller : Frame(p) /\ Begun(op'[p])
      <3>1. PICK p \in Caller : Frame(p) /\ Begun(op'[p]) BY <2>4
      <3>2. stored = configs /\ (configs = None <=> shown = None) BY <2>1, <2>2 DEF Remembers
      <3>3. StoredBy(op[p])' BY <2>1, <3>1, <3>2 DEF StoredBy, Begun, Erased, Stopping
      <3>4. \A q \in Caller \ {p} : op'[q].at = "idle" /\ op'[q].what = "none"
        BY <2>1, <3>1 DEF Frame, Active, Courses, Course
      <3>5. \A q \in Caller \ {p} : StoredBy(op[q])' BY <3>4 DEF StoredBy
      <3>6. op'[p].at # "idle" BY <3>1 DEF Begun
      <3>7. QED BY <2>1, <3>2, <3>3, <3>5, <3>6 DEF Remembers, Active
    <2>5. QED BY <2>1, <2>3, <2>4
  <1>3. ASSUME UNCHANGED <<overlapped, op, stored, configs, wired>>, shown' = None <=> shown = None
        PROVE  Remembers'
    <2>1. Remembers BY <1>3
    <2>2. \A p \in Caller : StoredBy(op[p])' BY <1>3, <2>1 DEF Remembers, StoredBy, Erased, Stopping
    <2>3. QED BY <1>3, <2>1, <2>2 DEF Remembers, Active
  <1>4. CASE List
    <2>1. UNCHANGED <<overlapped, op, stored, configs, wired>> /\ shown # None /\ configs # None
      BY <1>4 DEF List, historyVars
    <2>2. shown' \in Registration
      BY <1>1, <1>4, <2>1 DEF List, ServiceTyped, Registration, RuntimeStatus, Status
    <2>3. shown' # None BY <2>2, NothingAssumption
    <2>4. QED BY <1>3, <2>1, <2>3
  <1>5. ASSUME NEW i \in Instance, Goroutine(i) PROVE Remembers'
    <2>1. UNCHANGED <<overlapped, op, stored, configs, wired>> /\ Lives(i) BY <1>1, <1>5, GoroutineRecord
    <2>2. UNCHANGED shown \/ setStatus("running") \/ setStatus("error") BY <2>1 DEF Lives
    <2>3. shown' = None <=> shown = None BY <1>1, <2>2, SetStatusShows, Names
    <2>4. QED BY <1>3, <2>1, <2>3
  <1>6. CASE UNCHANGED vars
    <2>1. UNCHANGED <<overlapped, op, stored, configs, wired, shown>> BY <1>6 DEF vars, serviceVars, historyVars
    <2>2. QED BY <1>3, <2>1
  <1>7. QED BY <1>2, <1>4, <1>5, <1>6
-----------------------------------------------------------------------------
\* Where a call has emptied the table.
LEMMA StepEmptied ==
    ASSUME IInv, Calm, Courses, ~overlapped, Emptied, NEW p \in Caller, Step(p)
    PROVE  Emptied'
  <1>1. ServiceTyped /\ TableGood /\ OpsGood BY Parts
  <1>2. Active(p) /\ Frame(p) BY StepFrame
  <1>3. (\A q \in Caller \ {p} : op'[q].at = "idle") /\ TakenDown BY <1>2, Alone
  <1>4. ASSUME running' = None \/ (/\ op'[p].at \notin {"reset", "forget"}
                                   /\ op'[p].at # "delete" \/ op'[p].item = None)
        PROVE  Emptied'
    BY <1>3, <1>4 DEF Emptied
  <1>5. CASE Apply(p) \/ StartAborted(p)
    <2>1. Early(op[p], op'[p]) BY <1>1, <1>5, EarlySteps
    <2>2. QED BY <1>4, <2>1 DEF Early
  <1>6. CASE TakeDown(p) BY <1>1, <1>4, <1>6, TakeDownRecord
  <1>7. CASE AwaitEnd(p)
    <2>1. op[p].at = "wait" /\ running' = running BY <1>1, <1>7, AwaitEndRecord
    <2>2. QED BY <1>3, <1>4, <2>1 DEF TakenDown
  <1>8. CASE EnableHomeKitCamera(p)
    <2>1. op'[p].at \in {"start", "answer"} BY <1>1, <1>8, EnableRecord
    <2>2. QED BY <1>4, <2>1
  <1>9. CASE Start(p) \/ StartFailed(p) \/ Started(p)
    <2>1. op'[p].at \in {"await", "answer"} BY <1>1, <1>9, StartRecord, StartFailedRecord, StartedRecord
    <2>2. QED BY <1>4, <2>1
  <1>10. CASE Reset(p)
    <2>1. op[p].at = "reset" /\ running' = running BY <1>1, <1>10, ResetRecord
    <2>2. QED BY <1>4, <2>1 DEF Emptied
  <1>11. CASE DeleteTarget(p)
    <2>1. /\ op[p].at = "delete" /\ running' = running
          /\ (op'[p].at = "forget" /\ op[p].item # None) \/ op'[p].at \in {"stop", "answer"}
      BY <1>1, <1>11, DeleteTargetRecord
    <2>2. QED BY <1>4, <2>1 DEF Emptied
  <1>12. CASE Forget(p) \/ Done(p)
    <2>1. op'[p].at = "idle" BY <1>1, <1>12, ForgetRecord, DoneRecord DEF Idle
    <2>2. QED BY <1>4, <2>1
  <1>13. QED BY <1>5, <1>6, <1>7, <1>8, <1>9, <1>10, <1>11, <1>12 DEF Step

LEMMA OtherEmptied ==
    ASSUME IInv, ~overlapped', ~overlapped => Emptied,
           Call \/ List \/ (\E i \in Instance : Goroutine(i)) \/ UNCHANGED vars
    PROVE  Emptied'
  <1>1. ServiceTyped /\ TableGood /\ OpsGood BY Parts
  <1>2. CASE Call
    <2>1. /\ \A p \in Caller : ~Active(p)
          /\ UNCHANGED op \/ \E p \in Caller : Frame(p) /\ Begun(op'[p])
      BY <1>1, <1>2, CallRecord
    <2>2. CASE UNCHANGED op BY <2>1, <2>2 DEF Emptied, Active
    <2>3. CASE \E p \in Caller : Frame(p) /\ Begun(op'[p])
      <3>1. PICK p \in Caller : Frame(p) /\ Begun(op'[p]) BY <2>3
      <3>2. \A q \in Caller \ {p} : op'[q].at = "idle" BY <2>1, <3>1 DEF Frame, Active
      <3>3. op'[p].at \in {"apply", "stop"} \/ (op'[p].at = "delete" /\ op'[p].item = None)
        BY <3>1 DEF Begun
      <3>4. QED BY <3>2, <3>3 DEF Emptied
    <2>4. QED BY <2>1, <2>2, <2>3
  <1>3. ASSUME UNCHANGED <<overlapped, op>>, running' \in {running, None} PROVE Emptied'
    BY <1>3 DEF Emptied
  <1>4. CASE List
    <2>1. UNCHANGED <<overlapped, op, running>> BY <1>4 DEF List, historyVars, managerVars
    <2>2. QED BY <1>3, <2>1
  <1>5. ASSUME NEW i \in Instance, Goroutine(i) PROVE Emptied'
    <2>1. UNCHANGED <<overlapped, op>> /\ Lives(i) BY <1>1, <1>5, GoroutineRecord
    <2>2. running' \in {running, None} BY <2>1 DEF Lives
    <2>3. QED BY <1>3, <2>1, <2>2
  <1>6. CASE UNCHANGED vars
    <2>1. UNCHANGED <<overlapped, op, running>> BY <1>6 DEF vars, managerVars, historyVars
    <2>2. QED BY <1>3, <2>1
  <1>7. QED BY <1>2, <1>4, <1>5, <1>6
-----------------------------------------------------------------------------
\* What the answer of a call says about the table.
LEMMA StepAnswers ==
    ASSUME IInv, Calm, Courses, ~overlapped, \A q \in Caller : AnswerOf(q), NEW p \in Caller, Step(p)
    PROVE  \A q \in Caller : AnswerOf(q)'
  <1>1. ServiceTyped /\ TableGood /\ OpsGood BY Parts
  <1>2. Active(p) /\ Frame(p) BY StepFrame
  <1>3. (\A q \in Caller \ {p} : op'[q].at = "idle") /\ TakenDown BY <1>2, Alone
  <1>4. \A q \in Caller \ {p} : AnswerOf(q)' BY <1>3 DEF AnswerOf
  <1>5. AnswerOf(p)'
    <2>1. ASSUME op'[p].at \notin {"await", "answer"} \/ (op'[p].at = "answer" /\ op'[p].result = "error")
          PROVE  AnswerOf(p)'
      BY <2>1 DEF AnswerOf
    <2>2. ASSUME running' = None, After(op[p], op'[p]) PROVE AnswerOf(p)'
      BY <2>2 DEF AnswerOf, After
    <2>3. CASE Apply(p) \/ StartAborted(p)
      <3>1. Early(op[p], op'[p]) BY <1>1, <2>3, EarlySteps
      <3>2. QED BY <2>1, <3>1 DEF Early
    <2>4. CASE TakeDown(p)
      <3>1. running' = None /\ (After(op[p], op'[p]) \/ op'[p].at = "wait") BY <1>1, <2>4, TakeDownRecord
      <3>2. QED BY <2>1, <2>2, <3>1
    <2>5. CASE AwaitEnd(p)
      <3>1. /\ op[p].at = "wait" /\ running' = running
            /\ After(op[p], op'[p]) \/ (op'[p].at = "answer" /\ op'[p].result = "error")
        BY <1>1, <2>5, AwaitEndRecord
      <3>2. running' = None BY <1>3, <3>1 DEF TakenDown
      <3>3. QED BY <2>1, <2>2, <3>1, <3>2
    <2>6. CASE EnableHomeKitCamera(p)
      <3>1. op'[p].at = "start" \/ (op'[p].at = "answer" /\ op'[p].result = "error")
        BY <1>1, <2>6, EnableRecord
      <3>2. QED BY <2>1, <3>1
    <2>7. CASE Start(p)
      <3>1. /\ op'[p].at = "await" /\ op'[p].item = op[p].item
            /\ \E i \in Instance : /\ running' = i /\ op'[p].new = i
                                   /\ inst'[i].at = "up" /\ inst'[i].config = op[p].item
        BY <1>1, <2>7, StartRecord DEF Same
      <3>2. QED BY <3>1, NoneAssumption DEF AnswerOf
    <2>8. CASE StartFailed(p)
      <3>1. op'[p].at = "answer" /\ op'[p].result = "error" BY <1>1, <2>8, StartFailedRecord
      <3>2. QED BY <2>1, <3>1
    <2>9. CASE Started(p)
      <3>1. /\ op[p].at = "await" /\ op'[p].at = "answer" /\ op'[p].result = "running"
            /\ op'[p].item = op[p].item /\ UNCHANGED <<running, inst>>
        BY <1>1, <2>9, StartedRecord DEF Same
      <3>2. QED BY <3>1 DEF AnswerOf
    <2>10. CASE Reset(p)
      <3>1. op'[p].at \in {"delete", "apply"} \/ (op'[p].at = "answer" /\ op'[p].result = "error")
        BY <1>1, <2>10, ResetRecord
      <3>2. QED BY <2>1, <3>1
    <2>11. CASE DeleteTarget(p)
      <3>1. op'[p].at \in {"forget", "stop"} \/ (op'[p].at = "answer" /\ op'[p].result = "error")
        BY <1>1, <2>11, DeleteTargetRecord
      <3>2. QED BY <2>1, <3>1
    <2>12. CASE Forget(p) \/ Done(p)
      <3>1. op'[p].at = "idle" BY <1>1, <2>12, ForgetRecord, DoneRecord DEF Idle
      <3>2. QED BY <2>1, <3>1
    <2>13. QED BY <2>3, <2>4, <2>5, <2>6, <2>7, <2>8, <2>9, <2>10, <2>11, <2>12 DEF Step
  <1>6. QED BY <1>4, <1>5

LEMMA OtherAnswers ==
    ASSUME IInv, Unraced, ~overlapped', ~raced', ~overlapped /\ ~raced => \A p \in Caller : AnswerOf(p),
           Call \/ List \/ (\E i \in Instance : Goroutine(i)) \/ UNCHANGED vars
    PROVE  \A p \in Caller : AnswerOf(p)'
  <1>1. ServiceTyped /\ TableGood /\ OpsGood BY Parts
  <1>2. CASE Call
    <2>1. /\ \A p \in Caller : ~Active(p)
          /\ UNCHANGED op \/ \E p \in Caller : Frame(p) /\ Begun(op'[p])
      BY <1>1, <1>2, CallRecord
    <2>2. \A p \in Caller : op'[p].at \in {"idle", "apply", "stop", "delete"}
      <3>1. CASE UNCHANGED op BY <2>1, <3>1 DEF Active
      <3>2. CASE \E p \in Caller : Frame(p) /\ Begun(op'[p]) BY <2>1, <3>2 DEF Active, Frame, Begun
      <3>3. QED BY <2>1, <3>1, <3>2
    <2>3. QED BY <2>2 DEF AnswerOf
  <1>3. ASSUME UNCHANGED <<overlapped, raced, op, running, inst>> PROVE \A p \in Caller : AnswerOf(p)'
    BY <1>3 DEF AnswerOf
  <1>4. CASE List
    <2>1. UNCHANGED <<overlapped, raced, op, running, inst>> BY <1>4 DEF List, historyVars, managerVars
    <2>2. QED BY <1>3, <2>1
  <1>5. ASSUME NEW i \in Instance, Goroutine(i), NEW p \in Caller PROVE AnswerOf(p)'
    <2>1. /\ UNCHANGED <<overlapped, op>> /\ Lives(i)
          /\ \A j \in Instance \ {i} : inst'[j] = inst[j]
      BY <1>1, <1>5, GoroutineRecord
    <2>2. CASE op[p].at = "idle" BY <2>1, <2>2 DEF AnswerOf
    <2>3. CASE op[p].at # "idle"
      <3>1. ~raced BY <2>1 DEF Lives
      <3>2. AnswerOf(p) BY <2>1, <3>1
      <3>3. Active(p) BY <2>3 DEF Active
      <3>4. ~Exited(i) BY <3>1, <3>3 DEF Unraced
      <3>5. /\ running' = running
            /\ \/ inst[i].at = "up" /\ inst'[i].at = "up" /\ inst'[i].config = inst[i].config
               \/ inst[i].cancelled
        BY <2>1, <3>1, <3>3, <3>4 DEF Lives, Exited
      <3>6. running # None => running \in Instance /\ ~inst[running].cancelled
        BY <1>1 DEF TableGood, RegisteredIsLive
      <3>7. ASSUME running # None
            PROVE  /\ inst'[running].config = inst[running].config
                   /\ inst[running].at = "up" => inst'[running].at = "up"
        <4>1. CASE running = i BY <3>5, <3>6, <3>7, <4>1
        <4>2. CASE running # i
          <5>1. inst'[running] = inst[running] BY <2>1, <3>6, <3>7, <4>2
          <5>2. QED BY <5>1
        <4>3. QED BY <4>1, <4>2
      <3>8. QED BY <2>1, <3>2, <3>5, <3>7 DEF AnswerOf
    <2>4. QED BY <2>2, <2>3
  <1>6. CASE UNCHANGED vars
    <2>1. UNCHANGED <<overlapped, raced, op, running, inst>> BY <1>6 DEF vars, managerVars, historyVars
    <2>2. QED BY <1>3, <2>1
  <1>7. QED BY <1>2, <1>4, <1>5, <1>6
-----------------------------------------------------------------------------
\* Between calls that have been reported, and that neither overlapped nor raced nor gave
\* up waiting.
Settled == ~overlapped /\ ~raced /\ ~slow /\ ~unreported /\ \A p \in Caller : ~Active(p)

\* The last step of a call shows what it has done.
LEMMA StepDisplayed ==
    ASSUME IInv, Calm, Courses, ~overlapped => Remembers /\ Emptied,
           ~overlapped /\ ~raced => \A p \in Caller : AnswerOf(p),
           NEW p \in Caller, Step(p), Settled'
    PROVE  Displayed'
  <1>1. ServiceTyped /\ TableGood /\ OpsGood BY Parts
  <1>2. ~overlapped /\ ~raced /\ op'[p].at = "idle" /\ ~unreported' BY StepFrame DEF Settled, Active
  <1>3. AnswerOf(p) /\ Remembers /\ Emptied /\ StoredBy(op[p]) BY <1>2 DEF Remembers
  <1>4. CASE Forget(p)
    <2>1. op[p].at = "forget" /\ shown' = None /\ running' = running BY <1>1, <1>4, ForgetRecord
    <2>2. running' = None BY <1>3, <2>1 DEF Emptied
    <2>3. QED BY <2>1, <2>2 DEF Displayed
  <1>5. CASE Done(p)
    <2>1. op[p].at = "answer" /\ UNCHANGED <<kind, running, inst>> BY <1>1, <1>5, DoneRecord
    <2>2. GoodOp(op[p]) BY <1>1 DEF OpsGood
    <2> DEFINE g == [status |-> op[p].result, config |-> op[p].item]
    <2>3. op[p].what \in {"save", "boot", "refresh", "clear"} => op[p].item \in Config /\ g \in Registration
      BY <2>2 DEF GoodOp, Operation, Registration
    <2>4. op[p].what \in {"save", "boot", "refresh", "clear"} => op[p].item # None /\ g # None
      BY <2>3, NothingAssumption
    <2>5. g.status = op[p].result /\ g.config = op[p].item OBVIOUS
    <2>6. \/ op[p].what \in {"save", "boot", "refresh", "clear"} /\ shown' = g
          \/ op[p].what = "clear" /\ SetStatus("error")
      BY <1>1, <1>2, <1>5, DoneRecord
    <2> HIDE DEF g
    <2>7. CASE op[p].what \in {"save", "boot", "refresh", "clear"} /\ shown' = g
      <3>1. op[p].result = "running" => running # None /\ inst[running].config = op[p].item
        BY <1>3, <2>1 DEF AnswerOf
      <3>2. op[p].result = "disabled" => running = None BY <1>3, <2>1 DEF AnswerOf
      <3>3. QED BY <2>1, <2>4, <2>5, <2>7, <3>1, <3>2 DEF Displayed
    <2>8. CASE op[p].what = "clear" /\ SetStatus("error")
      <3>1. configs = op[p].item BY <1>3, <2>8 DEF StoredBy
      <3>2. shown # None /\ configs # None BY <1>3, <2>4, <2>8, <3>1 DEF Remembers
      <3>3. shown' \in Registration /\ shown'.status = "error"
        BY <1>1, <2>8, <3>2 DEF SetStatus, ServiceTyped, Registration, Status
      <3>4. QED BY <3>3, NothingAssumption DEF Displayed
    <2>9. QED BY <2>6, <2>7, <2>8
  <1>6. CASE ~Forget(p) /\ ~Done(p)
    <2>1. op'[p].at # "idle"
      <3>1. CASE Apply(p) \/ StartAborted(p) BY <1>1, <3>1, EarlySteps DEF Early
      <3>2. CASE TakeDown(p) BY <1>1, <3>2, TakeDownRecord DEF After
      <3>3. CASE AwaitEnd(p) BY <1>1, <3>3, AwaitEndRecord DEF After
      <3>4. CASE EnableHomeKitCamera(p) BY <1>1, <3>4, EnableRecord
      <3>5. CASE Start(p) \/ StartFailed(p) \/ Started(p)
        BY <1>1, <3>5, StartRecord, StartFailedRecord, StartedRecord
      <3>6. CASE Reset(p) BY <1>1, <3>6, ResetRecord
      <3>7. CASE DeleteTarget(p) BY <1>1, <3>7, DeleteTargetRecord
      <3>8. QED BY <1>6, <3>1, <3>2, <3>3, <3>4, <3>5, <3>6, <3>7 DEF Step
    <2>2. QED BY <1>2, <2>1
  <1>7. QED BY <1>4, <1>5, <1>6

LEMMA OtherDisplayed ==
    ASSUME IInv, Calm, ~overlapped => Remembers, Settled => Displayed, Settled',
           Call \/ List \/ (\E i \in Instance : Goroutine(i)) \/ UNCHANGED vars
    PROVE  Displayed'
  <1>1. ServiceTyped /\ TableGood /\ OpsGood BY Parts
  <1>2. ASSUME UNCHANGED <<kind, shown, running, inst, op, slow, unreported>>, raced => raced',
               overlapped => overlapped'
        PROVE  Displayed'
    <2>1. Settled BY <1>2 DEF Settled, Active
    <2>2. QED BY <1>2, <2>1 DEF Displayed
  <1>3. CASE Call
    <2>1. /\ UNCHANGED <<kind, shown, running, inst, slow, unreported>>
          /\ (raced => raced') /\ (overlapped => overlapped')
          /\ UNCHANGED op \/ \E p \in Caller : Frame(p) /\ Begun(op'[p])
      BY <1>1, <1>3, CallRecord
    <2>2. ~\E p \in Caller : Frame(p) /\ Begun(op'[p]) BY DEF Settled, Active, Begun
    <2>3. QED BY <1>2, <2>1, <2>2
  <1>4. CASE List
    <2>1. /\ kind = "matter" /\ UNCHANGED <<kind, running, inst>>
          /\ shown' = [status |-> RuntimeStatus(configs), config |-> configs]
      BY <1>4 DEF List, managerVars
    <2>2. shown'.status = RuntimeStatus(configs) BY <2>1
    <2>3. shown' # None
      <3>1. shown' \in Registration
        BY <1>1, <1>4 DEF List, ServiceTyped, Registration, RuntimeStatus, Status
      <3>2. QED BY <3>1, NothingAssumption
    <2>4. QED BY <2>1, <2>2, <2>3 DEF Displayed, RuntimeStatus
  <1>5. ASSUME NEW i \in Instance, Goroutine(i) PROVE Displayed'
    <2>1. /\ UNCHANGED <<kind, stored, configs, wired, op, overlapped, slow, unreported>> /\ Lives(i)
          /\ \A j \in Instance \ {i} : inst'[j] = inst[j]
      BY <1>1, <1>5, GoroutineRecord
    <2>2. Settled
      <3>1. raced => raced' BY <2>1 DEF Lives
      <3>2. QED BY <2>1, <3>1 DEF Settled, Active
    <2>3. Displayed /\ Remembers /\ wired /\ Single BY <2>2 DEF Settled, Remembers, Calm
    <2>4. running # None => running \in Instance /\ ~inst[running].cancelled
      BY <1>1 DEF TableGood, RegisteredIsLive
    <2>5. \A j \in Instance \ {i} : inst[j].at = "failed" => inst'[j].at = "failed" BY <2>1
    <2>6. CASE inst[i].at = "up" /\ kind = "matter" /\ running' = running /\ setStatus("running")
      <3>1. running = i BY <2>2, <2>3, <2>6 DEF Single, Settled, Active
      <3>2. running # None BY <3>1, NoneAssumption
      <3>3. shown # None BY <2>3, <3>2 DEF Displayed
      <3>4. shown' # None /\ shown'.status = "running" BY <1>1, <2>3, <2>6, <3>3, SetStatusShows, Names
      <3>5. QED BY <2>1, <2>6, <3>2, <3>4 DEF Displayed
    <2>7. CASE inst[i].at \in {"up", "ended"} /\ inst[i].cancelled /\ running' = running /\ UNCHANGED shown
      <3>1. running # None => inst'[running] = inst[running] BY <2>1, <2>4, <2>7
      <3>2. \A j \in Instance : inst[j].at = "failed" => inst'[j].at = "failed" BY <2>5, <2>7
      <3>3. QED BY <2>1, <2>3, <2>7, <3>1, <3>2 DEF Displayed
    <2>8. CASE /\ inst[i].at = "up" /\ inst'[i].config = inst[i].config
               /\ running' = running /\ UNCHANGED shown
      <3>1. running # None => inst'[running].config = inst[running].config
        <4>1. CASE running = i BY <2>8, <4>1
        <4>2. CASE running # i
          <5>1. running # None => inst'[running] = inst[running] BY <2>1, <2>4, <4>2
          <5>2. QED BY <5>1
        <4>3. QED BY <4>1, <4>2
      <3>2. \A j \in Instance : inst[j].at = "failed" => inst'[j].at = "failed" BY <2>5, <2>8
      <3>3. QED BY <2>1, <2>3, <2>8, <3>1, <3>2 DEF Displayed
    <2>9. CASE /\ inst'[i].at = "failed" /\ UNCHANGED shown
               /\ running' = (IF running = i THEN None ELSE running)
      BY <2>3, <2>9 DEF Displayed
    <2>10. CASE running' = running /\ setStatus("error")
      <3>1. shown' = None <=> shown = None BY <1>1, <2>10, SetStatusShows, Names
      <3>2. shown # None => shown'.status = "error" BY <1>1, <2>3, <2>10, SetStatusShows, Names
      <3>3. QED BY <2>3, <2>10, <3>1, <3>2 DEF Displayed
    <2>11. QED BY <2>1, <2>6, <2>7, <2>8, <2>9, <2>10 DEF Lives
  <1>6. CASE UNCHANGED vars
    <2>1. UNCHANGED <<kind, shown, running, inst, op, slow, unreported, raced, overlapped>>
      BY <1>6 DEF vars, serviceVars, managerVars, historyVars
    <2>2. QED BY <1>2, <2>1
  <1>7. QED BY <1>3, <1>4, <1>5, <1>6
-----------------------------------------------------------------------------
\* A camera is published while it runs.
LEMMA MovePublishing ==
    ASSUME NEW p \in Caller, \A q \in Caller \ {p} : op'[q].at = "idle",
           op'[p].at \notin {"wait", "start"}, Kept'
    PROVE  Publishing'
  BY DEF Publishing

LEMMA StepPublishing ==
    ASSUME IInv, Calm, Courses, Unraced, ~overlapped, ~slow', kind = "camera", Emptied, Publishing,
           \A q \in Caller : AnswerOf(q), NEW p \in Caller, Step(p)
    PROVE  Publishing'
  <1>1. ServiceTyped /\ TableGood /\ OpsGood BY Parts
  <1>2. Active(p) /\ Frame(p) /\ ~slow /\ Course(op[p]) BY StepFrame DEF Courses
  <1>3. /\ \A q \in Caller \ {p} : op[q].at = "idle" /\ op'[q].at = "idle"
        /\ TakenDown
    BY <1>2, Alone
  <1>4. op[p].at \notin {"wait", "start"} => Kept BY <1>3 DEF Publishing
  <1>5. ASSUME op[p].at \notin {"wait", "start"}, op'[p].at \notin {"wait", "start"},
               UNCHANGED <<camera, running>>
        PROVE  Publishing'
    <2>1. Kept' BY <1>4, <1>5 DEF Kept, Left
    <2>2. QED BY <1>3, <1>5, <2>1, MovePublishing
  <1>6. CASE Apply(p) \/ StartAborted(p)
    <2>1. Early(op[p], op'[p]) /\ UNCHANGED <<camera, running>> BY <1>1, <1>6, EarlySteps
    <2>2. QED BY <1>5, <2>1 DEF Early
  <1>7. CASE TakeDown(p)
    <2>1. op[p].at = "stop" /\ running' = None /\ UNCHANGED camera BY <1>1, <1>7, TakeDownRecord
    <2>2. CASE running = None /\ After(op[p], op'[p])
      <3>1. op'[p].at \notin {"wait", "start"} BY <1>2, <2>1, <2>2 DEF After, Course, Stopping
      <3>2. QED BY <1>5, <2>1, <2>2, <3>1
    <2>3. CASE /\ running \in Instance /\ op'[p].at = "wait" /\ op'[p].old = running
               /\ inst'[running].at = inst[running].at
      <3>1. running # None BY <2>3, NoneAssumption
      <3>2. inst[running].at = "up"
        BY <1>1, <2>3, <3>1 DEF TableGood, RegisteredIsLive, Unraced, Exited
      <3>3. inst'[op'[p].old].at = "up" BY <2>3, <3>2
      <3>4. camera'.owned BY <1>4, <2>1, <3>1 DEF Kept
      <3>5. QED BY <1>3, <2>3, <3>3, <3>4 DEF Publishing
    <2>4. QED BY <1>1, <1>7, <2>2, <2>3, TakeDownRecord
  <1>8. CASE AwaitEnd(p)
    <2>1. /\ op[p].at = "wait" /\ After(op[p], op'[p]) /\ inst[op[p].old].at # "up"
          /\ UNCHANGED <<camera, running>>
      BY <1>1, <1>8, AwaitEndRecord
    <2>2. op'[p].at \notin {"wait", "start"} BY <1>2, <2>1 DEF After, Course, Stopping
    <2>3. Left /\ running = None BY <1>3, <2>1 DEF Publishing, TakenDown
    <2>4. Kept' BY <2>1, <2>3 DEF Kept, Left
    <2>5. QED BY <1>3, <2>1, <2>2, <2>4, MovePublishing
  <1>9. CASE EnableHomeKitCamera(p)
    <2>1. /\ op[p].at = "enable" /\ UNCHANGED running
          /\ \/ op'[p].at = "start" /\ camera'.published /\ camera'.owned
             \/ op'[p].at = "answer" /\ Unenabled
      BY <1>1, <1>9, EnableRecord
    <2>2. running' = None /\ running = None BY <1>3, <2>1 DEF TakenDown
    <2>3. CASE op'[p].at = "start" /\ camera'.published /\ camera'.owned BY <1>3, <2>3 DEF Publishing
    <2>4. CASE op'[p].at = "answer" /\ Unenabled
      <3>1. Left BY <1>4, <2>1, <2>2 DEF Kept
      <3>2. Kept' BY <2>2, <2>4, <3>1 DEF Kept, Left, Unenabled
      <3>3. QED BY <1>3, <2>4, <3>2, MovePublishing
    <2>5. QED BY <2>1, <2>3, <2>4
  <1>10. CASE Start(p)
    <2>1. /\ op[p].at = "start" /\ op'[p].at = "await" /\ UNCHANGED camera
          /\ running' \in Instance
      BY <1>1, <1>10, StartRecord
    <2>2. Kept' BY <2>1, NoneAssumption DEF Publishing, Kept
    <2>3. QED BY <1>3, <2>1, <2>2, MovePublishing
  <1>11. CASE StartFailed(p)
    <2>1. op[p].at = "await" /\ inst[op[p].new].at # "up" BY <1>1, <1>11, StartFailedRecord
    <2>2. QED BY <2>1 DEF AnswerOf
  <1>12. CASE Started(p)
    <2>1. op[p].at = "await" /\ op'[p].at = "answer" /\ UNCHANGED <<camera, running>>
      BY <1>1, <1>12, StartedRecord
    <2>2. QED BY <1>5, <2>1
  <1>13. CASE Reset(p)
    <2>1. /\ op[p].at = "reset" /\ op'[p].at \in {"delete", "apply", "answer"} /\ UNCHANGED running
          /\ UNCHANGED camera \/ Disables
      BY <1>1, <1>13, ResetRecord
    <2>2. running = None /\ Left
      <3>1. running = None BY <2>1 DEF Emptied
      <3>2. QED BY <1>4, <2>1, <3>1 DEF Kept
    <2>3. Kept' BY <2>1, <2>2 DEF Kept, Left, Disables
    <2>4. QED BY <1>3, <2>1, <2>3, MovePublishing
  <1>14. CASE DeleteTarget(p)
    <2>1. op[p].at = "delete" /\ op'[p].at \in {"forget", "stop", "answer"} /\ UNCHANGED <<camera, running>>
      BY <1>1, <1>14, DeleteTargetRecord
    <2>2. QED BY <1>5, <2>1
  <1>15. CASE Forget(p) \/ Done(p)
    <2>1. op[p].at \in {"forget", "answer"} /\ op'[p].at = "idle" /\ UNCHANGED <<camera, running>>
      BY <1>1, <1>15, ForgetRecord, DoneRecord DEF Idle
    <2>2. QED BY <1>5, <2>1
  <1>16. QED BY <1>6, <1>7, <1>8, <1>9, <1>10, <1>11, <1>12, <1>13, <1>14, <1>15 DEF Step

LEMMA OtherPublishing ==
    ASSUME IInv, Calm, Unraced, ~overlapped', ~slow', kind = "camera",
           ~overlapped /\ ~slow => Publishing,
           Call \/ List \/ (\E i \in Instance : Goroutine(i)) \/ UNCHANGED vars
    PROVE  Publishing'
  <1>1. ServiceTyped /\ TableGood /\ OpsGood BY Parts
  <1>2. CASE Call
    <2>1. /\ ~overlapped /\ ~slow /\ UNCHANGED <<camera, running>> /\ \A p \in Caller : ~Active(p)
          /\ UNCHANGED op \/ \E p \in Caller : Frame(p) /\ Begun(op'[p])
      <3>1. /\ overlapped' = (overlapped \/ \E p \in Caller : Active(p))
            /\ UNCHANGED <<camera, running>> /\ slow' = slow
            /\ UNCHANGED op \/ \E p \in Caller : Frame(p) /\ Begun(op'[p])
        BY <1>1, <1>2, CallRecord
      <3>2. ~slow BY <3>1
      <3>3. QED BY <3>1, <3>2
    <2>2. Kept' BY <2>1 DEF Publishing, Kept, Left, Active
    <2>3. \A p \in Caller : op'[p].at \notin {"wait", "start"}
      <3>1. CASE UNCHANGED op BY <2>1, <3>1 DEF Active
      <3>2. CASE \E p \in Caller : Frame(p) /\ Begun(op'[p]) BY <2>1, <3>2 DEF Active, Frame, Begun
      <3>3. QED BY <2>1, <3>1, <3>2
    <2>4. QED BY <2>1, <2>2, <2>3 DEF Publishing
  <1>3. CASE List BY <1>3 DEF List
  <1>4. ASSUME NEW i \in Instance, Goroutine(i) PROVE Publishing'
    <2>1. UNCHANGED <<op, overlapped, slow>> /\ Lives(i) BY <1>1, <1>4, GoroutineRecord
    <2>2. Publishing /\ OneCall /\ Single /\ ~slow BY <2>1 DEF Calm
    <2>3. ~Exited(i) BY DEF Unraced
    <2>4. inst[i].at = "up" /\ inst[i].cancelled /\ running' = running
          /\ (Disables \/ (camera.owned /\ camera'.owned /\ camera'.left))
      BY <2>1, <2>3 DEF Lives, Exited
    <2>5. running # i BY <1>1, <2>4, NoneAssumption DEF TableGood, RegisteredIsLive
    <2>6. PICK p \in Caller : op[p].at = "wait" /\ op[p].old = i BY <2>2, <2>4, <2>5 DEF Single
    <2>7. \A q \in Caller : q # p => op[q].at = "idle" BY <2>2, <2>6 DEF OneCall, Active
    <2>8. \A q \in Caller : op'[q].at # "start" BY <2>1, <2>6, <2>7
    <2>9. Left' BY <2>2, <2>4, <2>6 DEF Publishing, Left, Disables
    <2>10. QED BY <2>1, <2>6, <2>8, <2>9 DEF Publishing
  <1>5. CASE UNCHANGED vars
    <2>1. UNCHANGED <<op, inst, running, camera, overlapped, slow>> BY <1>5 DEF vars, managerVars, historyVars
    <2>2. Publishing BY <2>1
    <2>3. QED BY <2>1, <2>2 DEF Publishing, Kept, Left
  <1>6. QED BY <1>2, <1>3, <1>4, <1>5
-----------------------------------------------------------------------------
\* A deleted camera has no owner.
LEMMA StepReleased ==
    ASSUME IInv, Calm, Courses, ~overlapped, kind = "camera", Remembers, Released,
           NEW p \in Caller, Step(p)
    PROVE  Released'
  <1>1. ServiceTyped /\ TableGood /\ OpsGood BY Parts
  <1>2. Active(p) /\ Frame(p) /\ Course(op[p]) /\ StoredBy(op[p]) BY StepFrame DEF Courses, Remembers
  <1>3. \A q \in Caller \ {p} : op'[q].at = "idle" /\ op'[q].what = "none" /\ op[q].at = "idle"
    BY <1>2, Alone
  <1>4. \A q \in Caller \ {p} : ~Disowning(op[q])' /\ ~Adding(op[q])
    BY <1>3 DEF Disowning, Stopping, Courses, Course, Adding
  <1>5. ASSUME UNCHANGED configs, Same(op[p], op'[p]), camera'.owned => camera.owned,
               Disowning(op'[p]) => Disowning(op[p]) \/ ~camera'.owned
        PROVE  Released'
    <2>1. Adding(op[p]) => Adding(op'[p]) BY <1>5 DEF Same, Adding
    <2>2. QED BY <1>4, <1>5, <2>1 DEF Released
  <1>6. CASE Apply(p) \/ StartAborted(p)
    <2>1. Same(op[p], op'[p]) /\ Early(op[p], op'[p]) /\ UNCHANGED <<configs, camera>>
      BY <1>1, <1>6, EarlySteps
    <2>2. ~Disowning(op'[p]) BY <2>1 DEF Early, Disowning, Stopping
    <2>3. QED BY <1>5, <2>1, <2>2
  <1>7. CASE TakeDown(p)
    <2>1. /\ Same(op[p], op'[p]) /\ op[p].at = "stop" /\ UNCHANGED <<configs, camera>>
          /\ After(op[p], op'[p]) \/ (op'[p].at = "wait" /\ op'[p].next = op[p].next)
      BY <1>1, <1>7, TakeDownRecord
    <2>2. Disowning(op'[p]) => Disowning(op[p]) BY <2>1 DEF After, Disowning, Stopping
    <2>3. QED BY <1>5, <2>1, <2>2
  <1>8. CASE AwaitEnd(p)
    <2>1. /\ Same(op[p], op'[p]) /\ op[p].at = "wait" /\ UNCHANGED <<configs, camera>>
          /\ After(op[p], op'[p]) \/ op'[p].at = "answer"
      BY <1>1, <1>8, AwaitEndRecord
    <2>2. Disowning(op'[p]) => Disowning(op[p]) BY <2>1 DEF After, Disowning, Stopping
    <2>3. QED BY <1>5, <2>1, <2>2
  <1>9. CASE EnableHomeKitCamera(p)
    <2>1. /\ Same(op[p], op'[p]) /\ op[p].at = "enable" /\ UNCHANGED configs
          /\ op'[p].at \in {"start", "answer"}
      BY <1>1, <1>9, EnableRecord
    <2>2. ~Disowning(op'[p]) BY <2>1 DEF Disowning, Stopping
    <2>3. configs = None => Adding(op'[p])
      <3>1. op[p].what \in {"boot", "save", "refresh", "clear"}
        BY <1>1, <1>2, <2>1 DEF Course, OpsGood, GoodOp, Operation
      <3>2. op[p].item # None BY <1>1, <3>1, NothingAssumption DEF OpsGood, GoodOp
      <3>3. QED BY <1>2, <2>1, <3>1, <3>2 DEF StoredBy, Same, Adding
    <2>4. QED BY <1>4, <2>1, <2>2, <2>3 DEF Released
  <1>10. CASE Start(p) \/ StartFailed(p) \/ Started(p)
    <2>1. /\ Same(op[p], op'[p]) /\ UNCHANGED <<configs, camera>> /\ op'[p].at \in {"await", "answer"}
      BY <1>1, <1>10, StartRecord, StartFailedRecord, StartedRecord
    <2>2. ~Disowning(op'[p]) BY <2>1 DEF Disowning, Stopping
    <2>3. QED BY <1>5, <2>1, <2>2
  <1>11. CASE Reset(p)
    <2>1. /\ Same(op[p], op'[p]) /\ UNCHANGED configs
          /\ \/ op'[p].at \in {"delete", "apply"} /\ Disables
             \/ op'[p].at = "answer" /\ (UNCHANGED camera \/ Disables)
      BY <1>1, <1>11, ResetRecord
    <2>2. (camera'.owned => camera.owned) /\ (op'[p].at \in {"delete", "apply"} => ~camera'.owned)
      BY <2>1 DEF Disables
    <2>3. Disowning(op'[p]) => ~camera'.owned BY <2>1, <2>2 DEF Disowning, Stopping
    <2>4. QED BY <1>5, <2>1, <2>2, <2>3
  <1>12. CASE DeleteTarget(p)
    <2>1. Same(op[p], op'[p]) /\ op[p].at = "delete" /\ UNCHANGED <<configs, camera>>
      BY <1>1, <1>12, DeleteTargetRecord
    <2>2. Disowning(op[p]) BY <2>1 DEF Disowning
    <2>3. QED BY <1>5, <2>1, <2>2
  <1>13. CASE Forget(p)
    <2>1. op[p].at = "forget" /\ op'[p] = Idle /\ UNCHANGED camera BY <1>1, <1>13, ForgetRecord
    <2>2. ~camera'.owned BY <2>1 DEF Released, Disowning
    <2>3. QED BY <2>2 DEF Released
  <1>14. CASE Done(p)
    <2>1. /\ op'[p] = Idle /\ UNCHANGED camera
          /\ (Adding(op[p]) /\ configs' = op[p].item) \/ (~Adding(op[p]) /\ UNCHANGED configs)
      BY <1>1, <1>14, DoneRecord DEF Adding
    <2>2. ~Disowning(op'[p]) BY <2>1 DEF Disowning, Stopping, Idle
    <2>3. CASE Adding(op[p]) /\ configs' = op[p].item
      <3>1. configs' # None BY <1>1, <2>3, NothingAssumption DEF OpsGood, GoodOp, Adding
      <3>2. QED BY <1>4, <2>2, <3>1 DEF Released
    <2>4. CASE ~Adding(op[p]) /\ UNCHANGED configs
      <3>1. configs' = None => ~camera'.owned BY <1>4, <2>1, <2>4 DEF Released
      <3>2. QED BY <1>4, <2>2, <3>1 DEF Released
    <2>5. QED BY <2>1, <2>3, <2>4
  <1>15. QED BY <1>6, <1>7, <1>8, <1>9, <1>10, <1>11, <1>12, <1>13, <1>14 DEF Step

LEMMA OtherReleased ==
    ASSUME IInv, Courses, ~overlapped', kind = "camera", ~overlapped => Released,
           Call \/ List \/ (\E i \in Instance : Goroutine(i)) \/ UNCHANGED vars
    PROVE  Released'
  <1>1. ServiceTyped /\ TableGood /\ OpsGood BY Parts
  <1>2. ASSUME UNCHANGED <<overlapped, op, configs>>, camera'.owned => camera.owned PROVE Released'
    BY <1>2 DEF Released, Disowning, Adding, Stopping
  <1>3. CASE Call
    <2>1. /\ ~overlapped /\ UNCHANGED <<configs, camera>> /\ \A p \in Caller : ~Active(p)
          /\ UNCHANGED op \/ \E p \in Caller : Frame(p) /\ Begun(op'[p])
      BY <1>1, <1>3, CallRecord
    <2>2. Released BY <2>1
    <2>3. \A p \in Caller : op[p].at = "idle" /\ ~Adding(op[p])
      BY <2>1 DEF Active, Courses, Course, Adding
    <2>4. configs = None => ~camera.owned BY <2>2, <2>3 DEF Released
    <2>5. CASE UNCHANGED op BY <2>1, <2>2, <2>5 DEF Released, Disowning, Adding, Stopping
    <2>6. CASE \E p \in Caller : Frame(p) /\ Begun(op'[p])
      <3>1. PICK p \in Caller : Frame(p) /\ Begun(op'[p]) BY <2>6
      <3>2. \A q \in Caller \ {p} : ~Disowning(op'[q]) BY <2>3, <3>1 DEF Frame, Disowning, Stopping
      <3>3. Disowning(op'[p]) => configs = None BY <3>1 DEF Begun, Disowning, Stopping
      <3>4. QED BY <2>1, <2>4, <3>2, <3>3 DEF Released
    <2>7. QED BY <2>1, <2>5, <2>6
  <1>4. CASE List BY <1>2, <1>4 DEF List, managerVars, historyVars
  <1>5. ASSUME NEW i \in Instance, Goroutine(i) PROVE Released'
    <2>1. UNCHANGED <<overlapped, op, configs>> /\ Lives(i) BY <1>1, <1>5, GoroutineRecord
    <2>2. camera'.owned => camera.owned BY <2>1 DEF Lives, Disables
    <2>3. QED BY <1>2, <2>1, <2>2
  <1>6. CASE UNCHANGED vars BY <1>2, <1>6 DEF vars, serviceVars, managerVars, historyVars
  <1>7. QED BY <1>3, <1>4, <1>5, <1>6
-----------------------------------------------------------------------------
LEMMA InitService == ASSUME Init PROVE Service
  <1>1. \A i \in Instance : inst[i].at = "over" BY DEF Init, Over
  <1> DEFINE m == [Idle EXCEPT !.at = "apply", !.what = "boot", !.item = stored]
  <1>2. m.at = "apply" /\ m.what = "boot" /\ m.item = stored BY DEF Idle
  <1>3. Idle.at = "idle" /\ Idle.what = "none" BY DEF Idle
  <1>4. \A p \in Caller : op[p] = IF p = Main THEN m ELSE Idle BY DEF Init
  <1>5. Main \in Caller BY NoneAssumption DEF Main
  <1> HIDE DEF m
  <1>6. Courses BY <1>2, <1>3, <1>4 DEF Courses, Course, Stopping
  <1>7. Unraced BY <1>1 DEF Unraced, Exited, Init
  <1>8. configs = None /\ shown = None /\ ~wired /\ running = None
        /\ ~camera.published /\ ~camera.owned
    BY DEF Init, Unpublished
  <1>9. \A p \in Caller : StoredBy(op[p]) BY <1>2, <1>3, <1>4, <1>8 DEF StoredBy
  <1>10. Active(Main) BY <1>2, <1>4, <1>5 DEF Active
  <1>11. Remembers BY <1>5, <1>8, <1>9, <1>10 DEF Remembers
  <1>12. \A p \in Caller : op[p].at \in {"apply", "idle"} BY <1>2, <1>3, <1>4
  <1>13. Emptied BY <1>12 DEF Emptied
  <1>14. \A p \in Caller : AnswerOf(p) BY <1>12 DEF AnswerOf
  <1>15. Publishing BY <1>8, <1>12 DEF Publishing, Kept, Left
  <1>16. Released BY <1>8 DEF Released
  <1>17. QED BY <1>5, <1>6, <1>7, <1>10, <1>11, <1>13, <1>14, <1>15, <1>16 DEF Service

LEMMA StepService == ASSUME IInv, Calm, Service, [Next]_vars PROVE Service'
  <1>1. Courses /\ Unraced /\ (~overlapped => Remembers /\ Emptied)
        /\ (~overlapped /\ ~raced => \A p \in Caller : AnswerOf(p))
        /\ (Settled => Displayed) /\ (~overlapped /\ ~slow /\ kind = "camera" => Publishing)
        /\ (~overlapped /\ kind = "camera" => Released)
    BY DEF Service, Settled
  <1>2. Unraced' BY <1>1, StepUnraced
  <1>3. ASSUME Courses', ~overlapped' => Remembers' /\ Emptied',
               ~overlapped' /\ ~raced' => \A p \in Caller : AnswerOf(p)',
               Settled' => Displayed', ~overlapped' /\ ~slow' /\ kind' = "camera" => Publishing',
               ~overlapped' /\ kind' = "camera" => Released'
        PROVE  Service'
    BY <1>2, <1>3 DEF Service, Settled
  <1>4. ASSUME NEW p \in Caller, Step(p) PROVE Service'
    <2>1. UNCHANGED <<kind, overlapped, raced>> /\ (slow => slow') BY <1>4, StepFrame
    <2>2. Courses' BY <1>1, <1>4, StepCourses
    <2>3. ~overlapped' => Remembers' /\ Emptied' BY <1>1, <1>4, <2>1, StepRemembers, StepEmptied
    <2>4. ~overlapped' /\ ~raced' => \A q \in Caller : AnswerOf(q)' BY <1>1, <1>4, <2>1, StepAnswers
    <2>5. Settled' => Displayed' BY <1>1, <1>4, StepDisplayed
    <2>6. ASSUME ~overlapped', ~slow', kind' = "camera" PROVE Publishing'
      <3>1. ~overlapped /\ ~slow /\ kind = "camera" /\ ~raced BY <1>1, <2>1, <2>6 DEF Unraced
      <3>2. Emptied /\ Publishing /\ \A q \in Caller : AnswerOf(q) BY <1>1, <3>1
      <3>3. QED BY <1>1, <1>4, <2>6, <3>1, <3>2, StepPublishing
    <2>7. ~overlapped' /\ kind' = "camera" => Released' BY <1>1, <1>4, <2>1, StepReleased
    <2>8. QED BY <1>3, <2>2, <2>3, <2>4, <2>5, <2>6, <2>7
  <1>5. ASSUME Call \/ List \/ (\E i \in Instance : Goroutine(i)) \/ UNCHANGED vars PROVE Service'
    <2>1. UNCHANGED kind
      <3>1. CASE Call BY <3>1 DEF Call
      <3>2. CASE List BY <3>2 DEF List
      <3>3. CASE \E i \in Instance : Goroutine(i)
        BY <3>3 DEF Goroutine, Connected, Ends, Exits, CleansUp, Reports
      <3>4. CASE UNCHANGED vars BY <3>4 DEF vars
      <3>5. QED BY <1>5, <3>1, <3>2, <3>3, <3>4
    <2>2. Courses' BY <1>1, <1>5, OtherCourses
    <2>3. ~overlapped' => Remembers' /\ Emptied' BY <1>1, <1>5, OtherRemembers, OtherEmptied
    <2>4. ~overlapped' /\ ~raced' => \A q \in Caller : AnswerOf(q)' BY <1>1, <1>5, OtherAnswers
    <2>5. Settled' => Displayed' BY <1>1, <1>5, OtherDisplayed
    <2>6. ~overlapped' /\ ~slow' /\ kind' = "camera" => Publishing' BY <1>1, <1>5, <2>1, OtherPublishing
    <2>7. ~overlapped' /\ kind' = "camera" => Released' BY <1>1, <1>5, <2>1, OtherReleased
    <2>8. QED BY <1>3, <2>2, <2>3, <2>4, <2>5, <2>6, <2>7
  <1>6. QED BY <1>4, <1>5 DEF Next

\* What the service knows, shows and publishes follows the steps of its one call, for any
\* number of calls, failures, exits and reports.
THEOREM ServiceInvariant == Spec => []Service
  <1>1. Init => IInv /\ Calm /\ Service BY InitIInv, InitCalm, InitService
  <1>2. IInv /\ Calm /\ Service /\ [Next]_vars => IInv' /\ Calm' /\ Service'
    BY StepIInv, StepCalm, StepService
  <1>3. QED BY <1>1, <1>2, PTL DEF Spec

\* Between calls that did not overlap the service knows what is stored; and if besides no
\* target exited during a call, no stop gave up waiting and no Refresh or Delete failed
\* halfway, what users are shown of a target is what runs.
THEOREM ServiceTellsTruth == Spec => []ServiceIsTrue
  <1>1. Service => ServiceIsTrue
    <2> SUFFICES ASSUME Service PROVE ServiceIsTrue OBVIOUS
    <2>1. ASSUME Quiet, ~overlapped, ~raced, ~slow, ~unreported
          PROVE  /\ shown # None /\ shown.status = "running" =>
                        running # None /\ (kind = "matter" \/ inst[running].config = shown.config)
                 /\ shown = None \/ shown.status = "disabled" => running = None
      <3>1. Displayed /\ \A i \in Instance : inst[i].at # "failed" BY <2>1 DEF Service, Quiet
      <3>2. QED BY <3>1 DEF Displayed
    <2>2. ASSUME Quiet, ~overlapped PROVE stored = configs /\ (configs = None <=> shown = None)
      BY <2>2 DEF Service, Remembers, Quiet
    <2>3. QED BY <2>1, <2>2 DEF ServiceIsTrue, ShownIsTrue, StoreIsTrue
  <1>2. QED BY <1>1, ServiceInvariant, PTL

\* Between calls that did not overlap and unless a stop has given up waiting: a camera
\* whose target is in the table is published and owned by it; any other stays published
\* only if taking its publisher away has failed; and one that was deleted is owned no more.
THEOREM CameraIsPublished == Spec => []PublishedWhileRunning
  <1>1. Service => PublishedWhileRunning
    <2> SUFFICES ASSUME Service, kind = "camera", Quiet, ~overlapped, ~slow
                 PROVE  /\ running # None => camera.published /\ camera.owned
                        /\ running = None /\ camera.published => camera.left
                        /\ configs = None => ~camera.owned
      BY DEF PublishedWhileRunning
    <2>1. \A p \in Caller : op[p].at = "idle" /\ op[p].what = "none"
      BY DEF Quiet, Active, Service, Courses, Course
    <2>2. Kept BY <2>1 DEF Service, Publishing
    <2>3. configs = None => ~camera.owned BY <2>1 DEF Service, Released, Adding
    <2>4. QED BY <2>2, <2>3 DEF Kept, Left
  <1>2. QED BY <1>1, ServiceInvariant, PTL
=============================================================================
