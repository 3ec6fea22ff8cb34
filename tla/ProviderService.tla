-------------------------- MODULE ProviderService --------------------------
(***************************************************************************)
(* The configuration of providers:                                         *)
(* backend/internal/application/provider_service.go.                        *)
(*                                                                         *)
(* Administrators edit a provider while a background loop renews its        *)
(* credentials and the running provider itself repairs its address.  One    *)
(* provider is modelled, of the type that does all of this (the Xiaomi      *)
(* central hub).  A step ends where a mutex is released or the store, the   *)
(* vendor or the runtime is waited for.  The runtime is the provider        *)
(* manager, here one register; ProviderManager models what is in it.        *)
(* Identity challenges, references between providers and what List returns  *)
(* are left out.                                                           *)
(***************************************************************************)
EXTENDS Naturals

CONSTANTS
    Edit,          \* what an administrator can write into a document
    Address,       \* addresses of the hub
    Caller,        \* goroutines of administrators' requests
    Maintenance,   \* the goroutine of credentialMaintenanceLoop
    Hook,          \* the goroutine that runs persistRuntimeConfigChange
    None,
    Revoked,       \* the marker of a document without credentials
    MaxCalls,      \* bound on the administrators' calls
    MaxFailures,   \* bound on failures and recovered addresses
    MaxInputs,     \* bound on both together
    MaxIssued      \* bound on the credentials issued: the vendor refuses more

ASSUME ProcessAssumption == /\ Maintenance # Hook
                            /\ Caller \cap {Maintenance, Hook, None} = {}
                            /\ None \notin {Maintenance, Hook, Revoked}
ASSUME BoundsAssumption == MaxCalls \in Nat /\ MaxFailures \in Nat /\ MaxInputs \in Nat /\ MaxIssued \in Nat \ {0} /\ Revoked \notin Nat

VARIABLES
    stored,        \* the row of the store
    configs,       \* ProviderService.configs
    applyPending,  \* credentialRetries: the renewed credentials are still to be applied
    authRun, credentialRun,
    active,        \* the instance in the provider manager (external)
    notices,       \* goroutines that wait to persist a repaired document
    op,            \* what each process is doing
    issued, aged,  \* the last credentials given out, and the last ones that are due (external)
    calls, failures,
    wanted,        \* history: what the last administrator's call has stored
    revoked,       \* history: the credentials were revoked and not replaced since
    renewed,       \* history: the configuration was last written by a renewal
    crossed,       \* history: a renewal and a call with authRun were under way together
    restarted,     \* history: a restart and one of them were
    behind         \* history: the last change has not reached the runtime, or a repair was reported
                   \* too late: by an instance replaced since, or after a later repair

configVars == <<stored, configs, applyPending>>
lockVars == <<authRun, credentialRun>>
vendorVars == <<issued, aged>>
historyVars == <<wanted, revoked, renewed, crossed, restarted, behind>>
vars == <<configVars, lockVars, active, notices, op, vendorVars, calls, failures, historyVars>>

Credentials == 0 .. MaxIssued \cup {Revoked}
Document == [edit: Edit, address: Address, credentials: Credentials]
Config == [enabled: BOOLEAN, doc: Document]
Change == [base: Document, doc: Document]

\* An instance knows its document and, when the service has set no handler yet, the
\* last change it has still to report.
Running == [doc: Document, bound: BOOLEAN, change: Change \cup {None}]

First == CHOOSE edit \in Edit : TRUE

\* The address that the administrators know.
Configured == CHOOSE address \in Address : TRUE

Process == Caller \cup {Maintenance, Hook}

ASSUME NoneAssumption == None \notin Config \cup Running \cup Change

Idle == [at |-> "idle", what |-> "none", base |-> None, item |-> None]

TypeOK ==
    /\ stored \in Config \cup {None} /\ configs \in Config \cup {None}
    /\ applyPending \in BOOLEAN
    /\ authRun \in Process \cup {None} /\ credentialRun \in Process \cup {None}
    /\ active \in Running \cup {None}
    /\ notices \subseteq Change
    /\ op \in [Process -> [at: {"idle", "credential", "read", "revoke", "store", "remember", "apply", "bind", "remove",
                                "erase", "forget", "retry", "status", "renew", "compare"},
                           what: {"none", "save", "delete", "revoke", "restart", "renewal", "retry", "notice"},
                           base: Config \cup {None}, item: Config \cup {None}]]
    /\ issued \in 0 .. MaxIssued /\ aged \in 0 .. MaxIssued
    /\ calls \in 0 .. MaxCalls /\ failures \in 0 .. MaxFailures
    /\ wanted \in [enabled: BOOLEAN, edit: Edit] \cup {None}
    /\ <<revoked, renewed, crossed, restarted, behind>> \in BOOLEAN \X BOOLEAN \X BOOLEAN \X BOOLEAN \X BOOLEAN

-----------------------------------------------------------------------------
(* Helpers.                                                                *)

Fail == failures < MaxFailures /\ calls + failures < MaxInputs /\ failures' = failures + 1
Succeed == UNCHANGED failures

Active(p) == op[p].at # "idle"
Restarting == \E p \in Process : op[p].what = "restart"
Renewing == Active(Maintenance)
Editing == authRun # None /\ op[authRun].what # "revoke"

\* Mutexes are released when a call returns.
Return(p) ==
    /\ op' = [op EXCEPT ![p] = Idle]
    /\ authRun' = IF authRun = p THEN None ELSE authRun
    /\ credentialRun' = IF credentialRun = p THEN None ELSE credentialRun

Goto(p, place) == op' = [op EXCEPT ![p].at = place] /\ UNCHANGED lockVars

Wanted(config) == IF config = None THEN None ELSE [enabled |-> config.enabled, edit |-> config.doc.edit]

Due(config) == config.doc.credentials # Revoked /\ config.doc.credentials <= aged

-----------------------------------------------------------------------------
(* The calls of administrators.                                             *)

\* Save takes authRun and completes the item: secrets that the client has not
\* changed are those of the configuration it finds, and a client that sends no document
\* keeps the one it finds, a repaired address included.  Of the addresses that a client
\* may send, the configured one is modelled.
SaveItems ==
    {item \in Config :
        /\ item.doc.address = Configured \/ (configs # None /\ item.doc = configs.doc)
        /\ \/ configs # None /\ item.doc.credentials = configs.doc.credentials
           \/ /\ configs = None \/ configs.doc.credentials = Revoked
              /\ issued < MaxIssued /\ item.doc.credentials = issued + 1}

Save(p) ==
    /\ authRun = None
    /\ \E item \in SaveItems :
          /\ op' = [op EXCEPT ![p] = [at |-> "store", what |-> "save", base |-> configs, item |-> item]]
          /\ issued' = IF item.doc.credentials = issued + 1 THEN issued + 1 ELSE issued
    /\ authRun' = p
    /\ crossed' = (crossed \/ Renewing)
    /\ restarted' = (restarted \/ Restarting)
    /\ UNCHANGED <<credentialRun, aged>>

\* Delete stops an enabled provider before it deletes it.
Delete(p) ==
    /\ authRun = None /\ configs # None
    /\ op' = [op EXCEPT ![p] = [at |-> IF configs.enabled THEN "remove" ELSE "erase",
                                what |-> "delete", base |-> configs, item |-> None]]
    /\ authRun' = p
    /\ crossed' = (crossed \/ Renewing)
    /\ restarted' = (restarted \/ Restarting)
    /\ UNCHANGED <<credentialRun, vendorVars>>

\* RevokeXiaomiCredentials takes authRun, waits for credentialRun ...
RevokeXiaomiCredentials(p) ==
    /\ authRun = None
    /\ op' = [op EXCEPT ![p] = [Idle EXCEPT !.at = "credential", !.what = "revoke"]]
    /\ authRun' = p
    /\ restarted' = (restarted \/ Restarting)
    /\ UNCHANGED <<credentialRun, crossed, vendorVars>>

\* Restart takes no mutex.
Restart(p) ==
    /\ configs # None /\ configs.enabled
    /\ op' = [op EXCEPT ![p] = [at |-> "apply", what |-> "restart", base |-> None, item |-> configs]]
    /\ restarted' = (restarted \/ authRun # None \/ Renewing)
    /\ UNCHANGED <<lockVars, crossed, vendorVars>>

\* Callers are all alike: any idle one stands for the goroutine of a request.
Call ==
    /\ calls < MaxCalls /\ calls + failures < MaxInputs /\ calls' = calls + 1
    /\ \E p \in Caller : ~Active(p)
    /\ LET p == CHOOSE p \in Caller : ~Active(p)
       IN Save(p) \/ Delete(p) \/ RevokeXiaomiCredentials(p) \/ Restart(p)
    /\ UNCHANGED <<configVars, active, notices, failures, wanted, revoked, renewed, behind>>

\* Mutant: the revocation does not wait for a renewal.
MutantLockCredentials(p) ==
    /\ op[p].at = "credential"
    /\ Goto(p, "read")
    /\ UNCHANGED <<configVars, active, notices, vendorVars, calls, failures, historyVars>>

\* ... and reads the configuration with both held.
LockCredentials(p) ==
    /\ op[p].at = "credential" /\ credentialRun = None
    /\ credentialRun' = p
    /\ op' = [op EXCEPT ![p].at = "read"]
    /\ UNCHANGED <<configVars, authRun, active, notices, vendorVars, calls, failures, historyVars>>

\* The provider clears its document, or fails to.
RevokeCredentials(p) ==
    /\ op[p].at = "read"
    /\ \/ /\ configs # None
          /\ op' = [op EXCEPT ![p] = [@ EXCEPT !.at = "store", !.base = configs,
                        !.item = [enabled |-> FALSE, doc |-> [configs.doc EXCEPT !.credentials = Revoked]]]]
          /\ Succeed
          /\ UNCHANGED lockVars
       \/ configs = None /\ Succeed /\ Return(p)
       \/ configs # None /\ Fail /\ Return(p)
    /\ UNCHANGED <<configVars, active, notices, vendorVars, calls, historyVars>>

-----------------------------------------------------------------------------
(* Writing a configuration: to the store, then to memory, then to the runtime. *)

\* A failed renewal may be repeated later; what was to be applied is forgotten.
SaveProvider(p) ==
    /\ op[p].at = "store"
    /\ \/ /\ stored' = op[p].item
          /\ Succeed
          /\ Goto(p, "remember")
          /\ wanted' = IF p \in Caller THEN Wanted(op[p].item) ELSE wanted
          /\ revoked' = (revoked /\ (op[p].what = "save" => op[p].item.doc.credentials = Revoked))
          /\ UNCHANGED <<applyPending, behind>>
       \/ /\ Fail
          /\ Return(p)
          /\ applyPending' = (applyPending /\ op[p].what # "renewal")
          /\ behind' = (behind \/ op[p].what = "notice")
          /\ UNCHANGED <<stored, wanted, revoked>>
    /\ UNCHANGED <<configs, active, notices, vendorVars, calls, renewed, crossed, restarted>>

\* Mutant: a provider that was disabled is left running.
MutantAfterwards(p) == IF op[p].item.enabled THEN "apply" ELSE "return"

\* What follows: an enabled provider is applied, one that was enabled is removed.
Afterwards(p) == CASE op[p].item.enabled -> "apply"
                   [] ~op[p].item.enabled /\ op[p].base # None /\ op[p].base.enabled -> "remove"
                   [] OTHER -> "return"

\* The map takes the item.  A change that came from the running provider needs no
\* further call, and is dropped when the map has changed meanwhile.
Remember(p) ==
    /\ op[p].at = "remember"
    /\ IF op[p].what = "notice"
       THEN /\ configs' = IF configs # None /\ configs.doc = op[p].base.doc THEN op[p].item ELSE configs
            /\ Return(p)
            /\ UNCHANGED <<applyPending, revoked, renewed>>
       ELSE /\ configs' = op[p].item
            /\ applyPending' = FALSE
            /\ revoked' = (revoked \/ op[p].what = "revoke")
            /\ renewed' = (op[p].what = "renewal")
            /\ IF Afterwards(p) = "return" THEN Return(p)
               ELSE op' = [op EXCEPT ![p].at = Afterwards(p), ![p].base = None] /\ UNCHANGED lockVars
    /\ UNCHANGED <<stored, active, notices, vendorVars, calls, failures, wanted, crossed, restarted, behind>>

\* Mutant: a renewal whose application has failed is not taken up again.
MutantRecordFailure(p) ==
    /\ applyPending' = applyPending
    /\ Return(p)

\* recordCredentialFailure after a failed Apply.
RecordFailure(p) ==
    /\ applyPending' = (applyPending \/ op[p].what \in {"renewal", "retry"})
    /\ Return(p)

\* Apply of the manager: the instance takes the document as it runs, or is replaced
\* by one without a handler.  A failure leaves what was there, or comes after the
\* installation.  A document without credentials cannot be started.
Apply(p) == LET doc == op[p].item.doc
                installed == \/ active' = [doc |-> doc, bound |-> FALSE, change |-> None]
                             \/ /\ active # None /\ active.doc.address = doc.address
                                /\ active' = [active EXCEPT !.doc = doc] IN
    /\ op[p].at = "apply"
    /\ \/ /\ doc.credentials # Revoked /\ installed
          /\ Succeed
          /\ IF op[p].what = "retry"
             THEN applyPending' = FALSE /\ Goto(p, "status")
             ELSE /\ op' = [op EXCEPT ![p] = [Idle EXCEPT !.at = "bind", !.what = op[p].what]]
                  /\ UNCHANGED <<applyPending, lockVars>>
          /\ behind' = FALSE
       \/ /\ doc.credentials # Revoked /\ (installed \/ UNCHANGED active)
          /\ Fail
          /\ RecordFailure(p)
          /\ behind' = TRUE
       \/ /\ doc.credentials = Revoked
          /\ Succeed
          /\ RecordFailure(p)
          /\ behind' = TRUE
          /\ UNCHANGED active
    /\ UNCHANGED <<stored, configs, notices, vendorVars, calls, wanted, revoked, renewed, crossed, restarted>>

\* bindRuntimeConfigChanges: the handler is set, and a change that waits is reported.
Bind(p) ==
    /\ op[p].at = "bind"
    /\ IF active = None
       THEN UNCHANGED <<active, notices>>
       ELSE /\ active' = [active EXCEPT !.bound = TRUE, !.change = None]
            /\ notices' = IF active.change = None THEN notices ELSE notices \cup {active.change}
    /\ Return(p)
    /\ UNCHANGED <<configVars, vendorVars, calls, failures, historyVars>>

\* Remove of the manager: the instance leaves the table even when its end fails.  A
\* provider that is not in the table is an error, too.  The error of an instance that was
\* replaced while the removal waited for its mutex (manager.go lines 915-918) is left
\* out: it needs an application under way at the same time, of a restart or a renewal.
Remove(p) == LET after == CASE op[p].what = "delete" -> "erase" [] OTHER -> "return" IN
    /\ op[p].at = "remove"
    /\ active' = None
    /\ \/ /\ active # None /\ Succeed
          /\ IF after = "return" THEN Return(p) ELSE Goto(p, after)
       \/ (IF active = None THEN Succeed ELSE Fail) /\ Return(p)
    /\ behind' = TRUE
    /\ renewed' = FALSE
    /\ UNCHANGED <<configVars, notices, vendorVars, calls, wanted, revoked, crossed, restarted>>

DeleteProvider(p) ==
    /\ op[p].at = "erase"
    /\ \/ Succeed /\ stored' = None /\ wanted' = None /\ revoked' = FALSE /\ Goto(p, "forget")
       \/ Fail /\ UNCHANGED <<stored, wanted, revoked>> /\ Return(p)
    /\ UNCHANGED <<configs, applyPending, active, notices, vendorVars, calls, renewed, crossed, restarted, behind>>

Forget(p) ==
    /\ op[p].at = "forget"
    /\ configs' = None
    /\ applyPending' = FALSE
    /\ Return(p)
    /\ UNCHANGED <<stored, active, notices, vendorVars, calls, failures, historyVars>>

-----------------------------------------------------------------------------
(* RefreshDueCredentials.                                                   *)

\* A pass begins with a copy of the enabled configurations.
RefreshDueCredentials(p) ==
    /\ ~Active(p) /\ credentialRun = None
    /\ configs # None /\ configs.enabled
    /\ op' = [op EXCEPT ![p] = [at |-> "retry", what |-> "renewal", base |-> configs, item |-> configs]]
    /\ credentialRun' = p
    /\ crossed' = (crossed \/ Editing)
    /\ restarted' = (restarted \/ Restarting)
    /\ UNCHANGED <<configVars, authRun, active, notices, vendorVars, calls, failures, wanted, revoked, renewed, behind>>

\* What was renewed before and not applied is applied first.
RetryApply(p) ==
    /\ op[p].at = "retry"
    /\ op' = [op EXCEPT ![p].at = IF applyPending THEN "apply" ELSE "status",
                        ![p].what = IF applyPending THEN "retry" ELSE "renewal"]
    /\ UNCHANGED <<configVars, lockVars, active, notices, vendorVars, calls, failures, historyVars>>

CredentialStatus(p) ==
    /\ op[p].at = "status"
    /\ IF Due(op[p].item)
       THEN op' = [op EXCEPT ![p].at = "renew", ![p].what = "renewal"] /\ UNCHANGED lockVars
       ELSE Return(p)
    /\ UNCHANGED <<configVars, active, notices, vendorVars, calls, failures, historyVars>>

\* The vendor issues new credentials, or refuses.
RenewCredentials(p) ==
    /\ op[p].at = "renew"
    /\ \/ /\ Succeed
          /\ issued < MaxIssued
          /\ issued' = issued + 1
          /\ op' = [op EXCEPT ![p].at = "compare", ![p].item.doc.credentials = issued + 1]
          /\ UNCHANGED <<lockVars, applyPending>>
       \/ /\ IF issued < MaxIssued THEN Fail ELSE Succeed
          /\ Return(p)
          /\ applyPending' = FALSE
          /\ UNCHANGED issued
    /\ UNCHANGED <<stored, configs, active, notices, aged, calls, historyVars>>

\* The renewed credentials are dropped when the document has changed meanwhile.
Compare(p) ==
    /\ op[p].at = "compare"
    /\ IF configs # None /\ configs.doc = op[p].base.doc THEN Goto(p, "store") ELSE Return(p)
    /\ UNCHANGED <<configVars, active, notices, vendorVars, calls, failures, historyVars>>

Age ==
    /\ aged < issued
    /\ aged' = issued
    /\ UNCHANGED <<configVars, lockVars, active, notices, op, issued, calls, failures, historyVars>>

-----------------------------------------------------------------------------
(* Repairs of the running provider.                                         *)

\* Initialize, called by Apply or by the manager's retry worker, finds the hub at
\* another address, and reports the change in a goroutine of its own.
Recover == \E address \in Address :
    /\ active # None /\ active.doc.address # address
    /\ Fail
    /\ LET change == [base |-> active.doc, doc |-> [active.doc EXCEPT !.address = address]] IN
          IF active.bound
          THEN active' = [active EXCEPT !.doc = change.doc] /\ notices' = notices \cup {change}
          ELSE active' = [active EXCEPT !.doc = change.doc, !.change = change] /\ UNCHANGED notices
    /\ UNCHANGED <<configVars, lockVars, op, vendorVars, calls, historyVars>>

\* Mutant: the change is written without a look at the configuration it was made of.
MutantFits(notice) == configs # None

Fits(notice) == configs # None /\ configs.doc = notice.base

\* persistRuntimeConfigChange takes authRun and drops a change of another document.
PersistRuntimeConfigChange(p, notice) ==
    /\ ~Active(p) /\ authRun = None /\ notice \in notices
    /\ notices' = notices \ {notice}
    /\ IF Fits(notice)
       THEN /\ op' = [op EXCEPT ![p] = [at |-> "store", what |-> "notice", base |-> configs,
                                         item |-> [configs EXCEPT !.doc = notice.doc]]]
            /\ authRun' = p
            /\ crossed' = (crossed \/ Renewing)
            /\ restarted' = (restarted \/ Restarting)
       ELSE UNCHANGED <<op, authRun, crossed, restarted>>
    /\ behind' = (behind \/ Fits(notice) # (active # None /\ active.doc = notice.doc))
    /\ UNCHANGED <<configVars, credentialRun, active, vendorVars, calls, failures, wanted, revoked, renewed>>

-----------------------------------------------------------------------------
(* The specification.                                                      *)

\* main has applied the stored configuration before it builds the service, which sets
\* the handler of a running provider.
Init ==
    /\ stored \in {None} \cup {config \in Config : config.doc = [edit |-> First, address |-> Configured, credentials |-> 1]}
    /\ configs = stored
    /\ active = IF stored = None \/ ~stored.enabled THEN None ELSE [doc |-> stored.doc, bound |-> TRUE, change |-> None]
    /\ applyPending = FALSE /\ authRun = None /\ credentialRun = None /\ notices = {}
    /\ op = [p \in Process |-> Idle]
    /\ issued = 1 /\ aged = 0 /\ calls = 0 /\ failures = 0
    /\ wanted = Wanted(stored) /\ revoked = FALSE /\ renewed = FALSE /\ crossed = FALSE /\ restarted = FALSE /\ behind = FALSE

Step(p) ==
    \/ LockCredentials(p) \/ RevokeCredentials(p) \/ SaveProvider(p) \/ Remember(p)
    \/ Apply(p) \/ Bind(p) \/ Remove(p) \/ DeleteProvider(p) \/ Forget(p)
    \/ RetryApply(p) \/ CredentialStatus(p) \/ RenewCredentials(p) \/ Compare(p)

Next ==
    \/ Call \/ RefreshDueCredentials(Maintenance) \/ Age \/ Recover
    \/ \E p \in Process : Step(p)
    \/ \E notice \in notices : PersistRuntimeConfigChange(Hook, notice)

Spec == Init /\ [][Next]_vars

\* Goroutines run and get the mutexes they wait for in the end, the loop of the
\* maintenance passes again and again, and calls of the store, the vendor and the
\* runtime return.
Fairness ==
    /\ \A p \in Process : WF_vars(Step(p))
    /\ \A p \in Caller : SF_vars(LockCredentials(p))
    /\ SF_vars(RefreshDueCredentials(Maintenance))
    /\ WF_vars(\E notice \in notices : PersistRuntimeConfigChange(Hook, notice))

FairSpec == Spec /\ Fairness

-----------------------------------------------------------------------------
(* Properties.                                                             *)

Quiet == notices = {} /\ \A p \in Process : ~Active(p)

\* Between calls, unless a renewal was under way together with an administrator's
\* call or a repair, memory and store agree, through all failures, and hold the last
\* edit: neither renewed credentials nor a repaired address write back an older
\* configuration.  A renewal that crosses a Save can: it compares the document and
\* not whether the provider is enabled, and it compares before it writes.
ConfigsAreTrue == TypeOK /\ (Quiet /\ ~crossed => configs = stored /\ Wanted(stored) = wanted)

\* After a revocation no credentials come back, in the store or in memory, before an
\* administrator has supplied new ones, whatever renewals, repairs, restarts and
\* calls overlap with it.
RevokedStaysRevoked == revoked =>
    /\ stored # None /\ stored.doc.credentials = Revoked
    /\ configs # None => configs.doc.credentials = Revoked

\* Between calls a provider that is disabled, deleted or revoked does not run,
\* whatever has failed; and one that is enabled runs the stored document, unless the
\* last call that changed it has reported a failure, or it holds a repair that nobody
\* has asked it for: the retry of RefreshDueCredentials applies without
\* bindRuntimeConfigChanges (line 780), or a repair was reported too late: by an instance
\* replaced since, or after a later repair (behind).  A restart or a renewal that crosses
\* a call applies an older configuration after it.
RuntimeFollows == Quiet /\ ~crossed /\ ~restarted =>
    /\ configs = None \/ ~configs.enabled => active = None
    /\ configs # None /\ configs.enabled /\ ~behind =>
          active # None /\ (active.change = None => active.doc = configs.doc)

\* Every call returns, and renewed credentials that were stored run in the end,
\* although applying them has failed (docs/xiaomi-provider.md line 70), unless a later
\* call has written the configuration: there is always a later moment at which nobody
\* waits and what was renewed is running.
Progress == []<>
    /\ notices = {} /\ \A p \in Caller \cup {Hook} : ~Active(p)
    /\ renewed /\ ~crossed /\ ~restarted =>
          active # None /\ active.doc.credentials = configs.doc.credentials

=============================================================================
