----------------------- MODULE ProviderServiceProofs -----------------------
(***************************************************************************)
(* For any administrators, documents, addresses and bounds: revoked        *)
(* credentials do not come back; between calls memory and store agree on   *)
(* the last edit, unless a renewal was under way together with one; and    *)
(* the runtime follows them, unless a restart was.                         *)
(***************************************************************************)
EXTENDS ProviderService, TLAPS

At == {"idle", "credential", "read", "revoke", "store", "remember", "apply", "bind", "remove",
       "erase", "forget", "retry", "status", "renew", "compare"}
What == {"none", "save", "delete", "revoke", "restart", "renewal", "retry", "notice"}
Operation == [at: At, what: What, base: Config \cup {None}, item: Config \cup {None}]

\* Calls that hold authRun, calls that change the configuration and can cross a
\* renewal, and the passes of the maintenance.
AuthOps == {"save", "delete", "revoke", "notice"}
EditOps == {"save", "delete", "notice"}
RenewOps == {"renewal", "retry"}

\* Where a call can be, and whose it is.
InPlace(r) ==
    /\ r.what = "none" => r.at = "idle"
    /\ r.what = "save" => r.at \in {"store", "remember", "apply", "bind", "remove"}
    /\ r.what = "delete" => r.at \in {"remove", "erase", "forget"}
    /\ r.what = "revoke" => r.at \in {"credential", "read", "store", "remember", "remove"}
    /\ r.what = "restart" => r.at \in {"apply", "bind"}
    /\ r.what = "renewal" => r.at \in {"retry", "status", "renew", "compare", "store", "remember", "apply", "bind"}
    /\ r.what = "retry" => r.at \in {"apply", "status"}
    /\ r.what = "notice" => r.at \in {"store", "remember"}

Performs(p, r) ==
    /\ r.what \in {"save", "delete", "revoke", "restart"} => p \in Caller
    /\ r.what \in RenewOps => p = Maintenance
    /\ r.what = "notice" => p = Hook

SameButAddress(d, e) == d.edit = e.edit /\ d.credentials = e.credentials

\* What a call carries with it.
Carries(r) ==
    /\ r.at \in {"store", "remember", "apply", "retry", "status", "renew", "compare"} => r.item \in Config
    /\ r.at \in {"store", "remember"} /\ r.what # "save" => r.base \in Config
    /\ r.at = "apply" => r.item.enabled = TRUE
    /\ r.what = "notice" => r.item.enabled = r.base.enabled /\ SameButAddress(r.base.doc, r.item.doc)
    /\ r.what = "revoke" /\ r.at \in {"store", "remember"} =>
           r.item.enabled = FALSE /\ r.item.doc.credentials = Revoked
    /\ r.at \in {"retry", "status", "renew", "compare"} => r.base \in Config
    /\ r.at \in {"retry", "status", "renew"} \/ r.what = "retry" => r.base = r.item /\ r.item.enabled = TRUE
    /\ r.at \in {"renew", "compare"} \/ (r.what = "renewal" /\ r.at \in {"store", "remember"}) =>
           /\ r.base.enabled = TRUE /\ r.item.enabled = TRUE
           /\ r.base.doc.edit = r.item.doc.edit /\ r.base.doc.credentials # Revoked

Good(p, r) == r \in Operation /\ InPlace(r) /\ Performs(p, r) /\ Carries(r)

OpsGood == op \in [Process -> Operation] /\ \A p \in Process : Good(p, op[p])

\* The state apart from op.
RestTyped ==
    /\ stored \in Config \cup {None} /\ configs \in Config \cup {None}
    /\ applyPending \in BOOLEAN
    /\ authRun \in Process \cup {None} /\ credentialRun \in Process \cup {None}
    /\ active \in Running \cup {None}
    /\ notices \subseteq Change
    /\ issued \in 0 .. MaxIssued /\ aged \in 0 .. MaxIssued
    /\ calls \in 0 .. MaxCalls /\ failures \in 0 .. MaxFailures
    /\ wanted \in [enabled: BOOLEAN, edit: Edit] \cup {None}
    /\ revoked \in BOOLEAN /\ renewed \in BOOLEAN /\ crossed \in BOOLEAN
    /\ restarted \in BOOLEAN /\ behind \in BOOLEAN

\* Who holds the mutexes.
LocksOf(p) ==
    /\ op[p].what \in AuthOps => authRun = p
    /\ op[p].what \in RenewOps => credentialRun = p
    /\ op[p].what = "revoke" /\ op[p].at # "credential" => credentialRun = p

\* Calls that are under way together are noted in crossed and restarted.
Apart ==
    \A p, q \in Process :
       /\ ~crossed /\ op[p].what \in RenewOps => op[q].what \notin EditOps
       /\ ~restarted /\ op[p].what = "restart" => op[q].what \notin AuthOps \cup RenewOps

\* A repair changes nothing but the address.
Repair(n) == SameButAddress(n.base, n.doc)
Repairs == /\ \A n \in notices : Repair(n)
           /\ active # None /\ active.change # None => Repair(active.change)

Basic == RestTyped /\ OpsGood /\ (\A p \in Process : LocksOf(p)) /\ Apart /\ Repairs
-----------------------------------------------------------------------------
LEMMA Typed == RestTyped /\ OpsGood => TypeOK
  <1> SUFFICES ASSUME RestTyped, OpsGood PROVE TypeOK OBVIOUS
  <1>1. <<revoked, renewed, crossed, restarted, behind>> \in BOOLEAN \X BOOLEAN \X BOOLEAN \X BOOLEAN \X BOOLEAN
    BY DEF RestTyped
  <1>2. QED BY <1>1 DEF TypeOK, RestTyped, OpsGood, Operation, At, What

\* Only the record of p changes.
Others(p) == op' = [q \in Process |-> IF q = p THEN op'[p] ELSE op[q]]

\* Only p takes or releases mutexes.
OwnLocks(p) ==
    \A q \in Process \ {p} : /\ authRun = q => authRun' = q
                             /\ credentialRun = q => credentialRun' = q

LEMMA OpsStep ==
    ASSUME OpsGood, NEW p \in Process, Others(p), Good(p, op'[p])
    PROVE  OpsGood'
  <1>1. \A q \in Process : Good(q, op'[q]) BY DEF OpsGood, Others
  <1>2. op' \in [Process -> Operation] BY <1>1 DEF Others, Good
  <1>3. QED BY <1>1, <1>2 DEF OpsGood, Good, InPlace, Performs, Carries, SameButAddress

\* A step of p that begins no new call.
Moves(p) ==
    /\ Others(p) /\ OwnLocks(p) /\ Good(p, op'[p]) /\ LocksOf(p)'
    /\ \/ op'[p].what = op[p].what \/ op'[p].what = "none"
       \/ (op'[p].what \in RenewOps /\ op[p].what \in RenewOps)
    /\ UNCHANGED <<crossed, restarted>>

LEMMA BasicStep ==
    ASSUME Basic, NEW p \in Process, Moves(p), RestTyped', Repairs'
    PROVE  Basic'
  <1>1. OpsGood' BY OpsStep DEF Basic, Moves
  <1>2. ASSUME NEW q \in Process PROVE LocksOf(q)'
    <2>1. CASE q = p BY <2>1 DEF Moves
    <2>2. CASE q # p
      <3>1. op'[q] = op[q] /\ LocksOf(q) BY <2>2 DEF Others, Basic, Moves
      <3>2. QED BY <2>2, <3>1 DEF LocksOf, OwnLocks, Moves
    <2>3. QED BY <2>1, <2>2
  <1>3. Apart' BY DEF Basic, Apart, Others, AuthOps, EditOps, RenewOps, Moves
  <1>4. QED BY <1>1, <1>2, <1>3 DEF Basic
-----------------------------------------------------------------------------
(* The two moves that most steps end with.                                 *)

LEMMA IdleGood == ASSUME NEW p \in Process PROVE Good(p, Idle)
  BY DEF Good, Idle, Operation, At, What, InPlace, Performs, Carries, RenewOps

LEMMA Returning ==
    ASSUME RestTyped, OpsGood, NEW p \in Process, Return(p)
    PROVE  /\ Others(p) /\ op'[p] = Idle /\ OwnLocks(p) /\ Good(p, op'[p]) /\ LocksOf(p)'
           /\ authRun' \in Process \cup {None} /\ credentialRun' \in Process \cup {None}
  <1>1. op' = [op EXCEPT ![p] = Idle] BY DEF Return
  <1>2. Others(p) /\ op'[p] = Idle BY <1>1 DEF OpsGood, Others
  <1>3. OwnLocks(p) BY DEF Return, OwnLocks
  <1>4. LocksOf(p)' BY <1>2 DEF LocksOf, Idle, AuthOps, RenewOps
  <1>5. authRun' \in Process \cup {None} /\ credentialRun' \in Process \cup {None}
    BY DEF Return, RestTyped
  <1>6. QED BY <1>2, <1>3, <1>4, <1>5, IdleGood

LEMMA Going ==
    ASSUME OpsGood, NEW p \in Process, NEW place \in At, Goto(p, place)
    PROVE  /\ Others(p) /\ OwnLocks(p) /\ UNCHANGED <<authRun, credentialRun>>
           /\ op'[p] \in Operation
           /\ op'[p].at = place /\ op'[p].what = op[p].what
           /\ op'[p].base = op[p].base /\ op'[p].item = op[p].item
  <1>1. op[p] \in Operation BY DEF OpsGood
  <1>2. op' = [op EXCEPT ![p] = [op[p] EXCEPT !.at = place]] BY DEF Goto, OpsGood
  <1>3. Others(p) /\ op'[p] = [op[p] EXCEPT !.at = place] BY <1>2 DEF OpsGood, Others
  <1>4. OwnLocks(p) /\ UNCHANGED <<authRun, credentialRun>> BY DEF Goto, lockVars, OwnLocks
  <1>5. QED BY <1>1, <1>3, <1>4 DEF Operation
-----------------------------------------------------------------------------
(* Every step keeps the types, the mutexes and what the calls carry.       *)

\* What a call is at one of its places.
LEMMA Known ==
    ASSUME Basic, NEW p \in Process
    PROVE  /\ RestTyped /\ OpsGood /\ Good(p, op[p]) /\ op[p] \in Operation /\ LocksOf(p)
           /\ op[p].what \in What /\ op[p].at \in At
           /\ op[p].base \in Config \cup {None} /\ op[p].item \in Config \cup {None}
           /\ op[p].at = "idle" <=> op[p].what = "none"
  <1>1. RestTyped /\ OpsGood /\ Good(p, op[p]) /\ op[p] \in Operation /\ LocksOf(p)
    BY DEF Basic, OpsGood, Good
  <1>2. QED BY <1>1 DEF Operation, Good, InPlace, What

LEMMA ReturnMoves ==
    ASSUME Basic, NEW p \in Process, Return(p), UNCHANGED <<crossed, restarted>>
    PROVE  /\ Moves(p) /\ op'[p] = Idle
           /\ authRun' \in Process \cup {None} /\ credentialRun' \in Process \cup {None}
  BY Returning DEF Basic, Moves, Idle

LEMMA LockCredentialsMoves ==
    ASSUME Basic, NEW p \in Process, LockCredentials(p)
    PROVE  Moves(p) /\ RestTyped' /\ Repairs' /\ op'[p].at = "read" /\ op'[p].what = "revoke"
  <1>1. RestTyped /\ OpsGood /\ Good(p, op[p]) /\ LocksOf(p) BY Known
  <1>2. Others(p) /\ op'[p] = [op[p] EXCEPT !.at = "read"]
    BY <1>1 DEF LockCredentials, OpsGood, Others
  <1>3. Good(p, op'[p]) /\ op'[p].what = "revoke" /\ op[p].what = "revoke" /\ op'[p].at = "read"
    BY <1>1, <1>2 DEF LockCredentials, Good, Operation, At, What, InPlace, Performs, Carries, RenewOps
  <1>4. OwnLocks(p) BY ProcessAssumption DEF LockCredentials, OwnLocks, Process
  <1>5. LocksOf(p)' BY <1>1, <1>2, <1>3 DEF LockCredentials, LocksOf, AuthOps, RenewOps
  <1>6. RestTyped' BY <1>1 DEF RestTyped, LockCredentials, configVars, vendorVars, historyVars
  <1>7. Repairs' BY DEF Basic, Repairs, LockCredentials
  <1>8. QED BY <1>2, <1>3, <1>4, <1>5, <1>6, <1>7 DEF LockCredentials, historyVars, Moves

LEMMA RevokeCredentialsMoves ==
    ASSUME Basic, NEW p \in Process, RevokeCredentials(p)
    PROVE  /\ Moves(p) /\ RestTyped' /\ Repairs'
           /\ \/ op'[p] = Idle
              \/ /\ op'[p].at = "store" /\ op'[p].what = "revoke" /\ op'[p].base = configs
                 /\ configs \in Config
  <1>1. RestTyped /\ OpsGood /\ Good(p, op[p]) /\ LocksOf(p) /\ op[p] \in Operation BY Known
  <1>2. op[p].what = "revoke" BY <1>1 DEF RevokeCredentials, Good, Operation, What, InPlace
  <1>3. Repairs' BY DEF Basic, Repairs, RevokeCredentials
  <1>4. UNCHANGED <<crossed, restarted>> BY DEF RevokeCredentials, historyVars
  <1>5. CASE Return(p)
    <2>1. /\ Moves(p) /\ op'[p] = Idle
          /\ authRun' \in Process \cup {None} /\ credentialRun' \in Process \cup {None}
      BY <1>4, <1>5, ReturnMoves
    <2>2. failures' \in 0 .. MaxFailures
      BY <1>1, BoundsAssumption DEF RevokeCredentials, Fail, Succeed, RestTyped
    <2>3. RestTyped' BY <1>1, <2>1, <2>2 DEF RestTyped, RevokeCredentials, configVars, vendorVars, historyVars
    <2>4. QED BY <1>3, <2>1, <2>3
  <1>6. CASE /\ configs # None
             /\ op' = [op EXCEPT ![p] = [@ EXCEPT !.at = "store", !.base = configs,
                           !.item = [enabled |-> FALSE, doc |-> [configs.doc EXCEPT !.credentials = Revoked]]]]
             /\ Succeed
             /\ UNCHANGED lockVars
    <2> DEFINE d == [configs.doc EXCEPT !.credentials = Revoked]
               c == [enabled |-> FALSE, doc |-> d]
    <2>1. configs \in Config BY <1>1, <1>6 DEF RestTyped
    <2>2. d \in Document /\ d.credentials = Revoked BY <2>1 DEF Config, Document, Credentials
    <2> HIDE DEF d
    <2>3. c \in Config /\ c.enabled = FALSE /\ c.doc.credentials = Revoked BY <2>2 DEF Config
    <2> HIDE DEF c
    <2>4. op' = [op EXCEPT ![p] = [op[p] EXCEPT !.at = "store", !.base = configs, !.item = c]]
      BY <1>1, <1>6 DEF OpsGood, c, d
    <2>5. Others(p) /\ op'[p] = [op[p] EXCEPT !.at = "store", !.base = configs, !.item = c]
      BY <1>1, <2>4 DEF OpsGood, Others
    <2>6. /\ op'[p] \in Operation /\ op'[p].at = "store" /\ op'[p].what = "revoke"
          /\ op'[p].base = configs /\ op'[p].item = c
      BY <1>1, <1>2, <2>1, <2>3, <2>5 DEF Operation, At
    <2>7. Good(p, op'[p])
      BY <1>1, <1>2, <2>1, <2>3, <2>6 DEF Good, InPlace, Performs, Carries, RenewOps
    <2>8. OwnLocks(p) /\ LocksOf(p)'
      BY <1>1, <1>2, <1>6, <2>6 DEF lockVars, OwnLocks, LocksOf, RevokeCredentials, AuthOps, RenewOps
    <2>9. RestTyped'
      BY <1>1, <1>6 DEF RestTyped, RevokeCredentials, configVars, lockVars, vendorVars, historyVars, Succeed
    <2>10. QED BY <1>2, <1>3, <1>4, <2>1, <2>5, <2>6, <2>7, <2>8, <2>9 DEF Moves
  <1>7. QED BY <1>5, <1>6 DEF RevokeCredentials

LEMMA SaveProviderMoves ==
    ASSUME Basic, NEW p \in Process, SaveProvider(p)
    PROVE  /\ Moves(p) /\ RestTyped' /\ Repairs'
           /\ op[p].what \in {"save", "revoke", "renewal", "notice"} /\ op[p].item \in Config
           /\ \/ op'[p] = Idle /\ UNCHANGED <<stored, wanted, revoked>>
                 /\ behind' = (behind \/ op[p].what = "notice")
              \/ /\ op'[p].at = "remember" /\ op'[p].what = op[p].what
                 /\ op'[p].base = op[p].base /\ op'[p].item = op[p].item
                 /\ stored' = op[p].item
                 /\ wanted' = IF p \in Caller THEN Wanted(op[p].item) ELSE wanted
                 /\ revoked' = (revoked /\ (op[p].what = "save" => op[p].item.doc.credentials = Revoked))
                 /\ UNCHANGED behind
  <1>1. RestTyped /\ OpsGood /\ Good(p, op[p]) /\ LocksOf(p) /\ op[p] \in Operation BY Known
  <1>2. op[p].what \in {"save", "revoke", "renewal", "notice"} /\ op[p].item \in Config
    BY <1>1 DEF SaveProvider, Good, Operation, What, InPlace, Carries
  <1>3. Repairs' BY DEF Basic, Repairs, SaveProvider
  <1>4. UNCHANGED <<crossed, restarted>> BY DEF SaveProvider
  <1>5. CASE /\ Fail
             /\ Return(p)
             /\ applyPending' = (applyPending /\ op[p].what # "renewal")
             /\ behind' = (behind \/ op[p].what = "notice")
             /\ UNCHANGED <<stored, wanted, revoked>>
    <2>1. /\ Moves(p) /\ op'[p] = Idle
          /\ authRun' \in Process \cup {None} /\ credentialRun' \in Process \cup {None}
      BY <1>4, <1>5, ReturnMoves
    <2>2. failures' \in 0 .. MaxFailures BY <1>1, <1>5, BoundsAssumption DEF Fail, RestTyped
    <2>3. applyPending' \in BOOLEAN /\ behind' \in BOOLEAN BY <1>5
    <2>4. RestTyped' BY <1>1, <1>5, <2>1, <2>2, <2>3 DEF RestTyped, SaveProvider, vendorVars
    <2>5. QED BY <1>2, <1>3, <1>5, <2>1, <2>4
  <1>6. CASE /\ stored' = op[p].item
             /\ Succeed
             /\ Goto(p, "remember")
             /\ wanted' = IF p \in Caller THEN Wanted(op[p].item) ELSE wanted
             /\ revoked' = (revoked /\ (op[p].what = "save" => op[p].item.doc.credentials = Revoked))
             /\ UNCHANGED <<applyPending, behind>>
    <2>1. "remember" \in At BY DEF At
    <2>2. /\ Others(p) /\ OwnLocks(p) /\ UNCHANGED <<authRun, credentialRun>>
          /\ op'[p] \in Operation
          /\ op'[p].at = "remember" /\ op'[p].what = op[p].what
          /\ op'[p].base = op[p].base /\ op'[p].item = op[p].item
      BY <1>1, <1>6, <2>1, Going
    <2>3. Good(p, op'[p])
      BY <1>1, <1>2, <2>2 DEF Good, InPlace, Performs, Carries, RenewOps, SaveProvider
    <2>4. LocksOf(p)' BY <1>1, <2>2 DEF LocksOf, SaveProvider
    <2>5. wanted' \in [enabled: BOOLEAN, edit: Edit] \cup {None}
      <3>1. Wanted(op[p].item) \in [enabled: BOOLEAN, edit: Edit] \cup {None}
        BY <1>2 DEF Wanted, Config, Document
      <3>2. QED BY <1>1, <1>6, <3>1 DEF RestTyped
    <2>6. revoked' \in BOOLEAN BY <1>6
    <2>7. RestTyped' BY <1>1, <1>2, <1>6, <2>2, <2>5, <2>6 DEF RestTyped, SaveProvider, vendorVars, Succeed
    <2>8. QED BY <1>2, <1>3, <1>4, <1>6, <2>2, <2>3, <2>4, <2>7 DEF Moves
  <1>7. QED BY <1>5, <1>6 DEF SaveProvider

LEMMA RememberMoves ==
    ASSUME Basic, NEW p \in Process, Remember(p)
    PROVE  /\ Moves(p) /\ RestTyped' /\ Repairs'
           /\ op[p].what \in {"save", "revoke", "renewal", "notice"} /\ op[p].item \in Config
           /\ IF op[p].what = "notice"
              THEN /\ configs' = IF configs # None /\ configs.doc = op[p].base.doc THEN op[p].item ELSE configs
                   /\ op'[p] = Idle /\ UNCHANGED revoked
              ELSE /\ configs' = op[p].item
                   /\ revoked' = (revoked \/ op[p].what = "revoke")
                   /\ \/ op'[p] = Idle /\ op[p].item.enabled = FALSE
                         /\ (op[p].base # None => op[p].base.enabled = FALSE)
                      \/ op'[p].at = "apply" /\ op'[p].item = op[p].item /\ op'[p].what = op[p].what
                         /\ op[p].item.enabled = TRUE
                      \/ op'[p].at = "remove" /\ op[p].item.enabled = FALSE /\ op'[p].what = op[p].what
  <1>1. RestTyped /\ OpsGood /\ Good(p, op[p]) /\ LocksOf(p) /\ op[p] \in Operation BY Known
  <1>2. op[p].what \in {"save", "revoke", "renewal", "notice"} /\ op[p].item \in Config
    BY <1>1 DEF Remember, Good, Operation, What, InPlace, Carries
  <1>3. Repairs' BY DEF Basic, Repairs, Remember
  <1>4. UNCHANGED <<crossed, restarted>> BY DEF Remember
  <1>5. op[p].item.enabled \in BOOLEAN BY <1>2 DEF Config
  <1>6. op[p].base # None => op[p].base.enabled \in BOOLEAN BY <1>1 DEF Operation, Config
  <1>7. CASE op[p].what = "notice"
    <2>1. Return(p) BY <1>7 DEF Remember
    <2>2. /\ Moves(p) /\ op'[p] = Idle
          /\ authRun' \in Process \cup {None} /\ credentialRun' \in Process \cup {None}
      BY <1>4, <2>1, ReturnMoves
    <2>3. configs' = IF configs # None /\ configs.doc = op[p].base.doc THEN op[p].item ELSE configs
      BY <1>7 DEF Remember
    <2>4. configs' \in Config \cup {None} BY <1>1, <1>2, <2>3 DEF RestTyped
    <2>5. UNCHANGED <<applyPending, revoked, renewed>> BY <1>7 DEF Remember
    <2>6. RestTyped' BY <1>1, <2>2, <2>4, <2>5 DEF RestTyped, Remember, vendorVars
    <2>7. QED BY <1>2, <1>3, <1>7, <2>2, <2>3, <2>5, <2>6
  <1>8. CASE op[p].what # "notice"
    <2>1. /\ configs' = op[p].item
          /\ applyPending' = FALSE
          /\ revoked' = (revoked \/ op[p].what = "revoke")
          /\ renewed' = (op[p].what = "renewal")
          /\ IF Afterwards(p) = "return" THEN Return(p)
             ELSE op' = [op EXCEPT ![p].at = Afterwards(p), ![p].base = None] /\ UNCHANGED lockVars
      BY <1>8 DEF Remember
    <2>2. applyPending' \in BOOLEAN /\ revoked' \in BOOLEAN /\ renewed' \in BOOLEAN BY <2>1
    <2>3. CASE Afterwards(p) = "return"
      <3>1. /\ Moves(p) /\ op'[p] = Idle
            /\ authRun' \in Process \cup {None} /\ credentialRun' \in Process \cup {None}
        BY <1>4, <2>1, <2>3, ReturnMoves
      <3>2. RestTyped' BY <1>1, <1>2, <2>1, <2>2, <3>1 DEF RestTyped, Remember, vendorVars
      <3>3. op[p].item.enabled = FALSE /\ (op[p].base # None => op[p].base.enabled = FALSE)
        BY <1>5, <1>6, <2>3 DEF Afterwards
      <3>4. QED BY <1>2, <1>3, <1>8, <2>1, <3>1, <3>2, <3>3
    <2>4. CASE Afterwards(p) # "return"
      <3> DEFINE a == Afterwards(p)
      <3>1. \/ a = "apply" /\ op[p].item.enabled = TRUE
            \/ a = "remove" /\ op[p].item.enabled = FALSE /\ op[p].base # None /\ op[p].base.enabled = TRUE
        BY <1>5, <1>6, <2>4 DEF Afterwards
      <3> HIDE DEF a
      <3>2. op' = [op EXCEPT ![p].at = a, ![p].base = None] /\ UNCHANGED lockVars BY <2>1, <2>4 DEF a
      <3>3. Others(p) BY <1>1, <3>2 DEF OpsGood, Others
      <3>4. /\ op'[p] \in Operation /\ op'[p].at = a /\ op'[p].what = op[p].what
            /\ op'[p].item = op[p].item /\ op'[p].base = None
        BY <1>1, <3>1, <3>2 DEF OpsGood, Operation, At
      <3>5. op[p].what = "renewal" => op[p].item.enabled = TRUE
        BY <1>1 DEF Good, Carries, Remember
      <3>6. op[p].what = "revoke" => op[p].item.enabled = FALSE
        BY <1>1 DEF Good, Carries, Remember
      <3>7. Good(p, op'[p])
        BY <1>1, <1>2, <1>8, <3>1, <3>4, <3>5, <3>6 DEF Good, InPlace, Performs, Carries, RenewOps
      <3>8. OwnLocks(p) /\ LocksOf(p)'
        BY <1>1, <3>2, <3>4 DEF lockVars, OwnLocks, LocksOf, Remember
      <3>9. RestTyped' BY <1>1, <1>2, <2>1, <2>2, <3>2 DEF RestTyped, Remember, vendorVars, lockVars
      <3>10. Moves(p) BY <1>4, <3>3, <3>4, <3>7, <3>8 DEF Moves
      <3>11. QED BY <1>2, <1>3, <1>8, <2>1, <3>1, <3>4, <3>9, <3>10
    <2>5. QED BY <2>3, <2>4
  <1>9. QED BY <1>7, <1>8

LEMMA ApplyMoves ==
    ASSUME Basic, NEW p \in Process, Apply(p)
    PROVE  /\ Moves(p) /\ RestTyped' /\ Repairs'
           /\ op[p].what \in {"save", "restart", "renewal", "retry"}
           /\ op[p].item \in Config /\ op[p].item.enabled = TRUE
           /\ \/ op'[p] = Idle /\ behind' = TRUE
              \/ /\ behind' = FALSE /\ active' # None /\ active'.doc = op[p].item.doc
                 /\ \/ op'[p].at = "bind" /\ op'[p].what = op[p].what
                    \/ op'[p].at = "status" /\ op'[p].what = "retry" /\ op'[p].base = op[p].base
                       /\ op'[p].item = op[p].item /\ op[p].what = "retry"
  <1> DEFINE doc == op[p].item.doc
             installed == \/ active' = [doc |-> doc, bound |-> FALSE, change |-> None]
                          \/ /\ active # None /\ active.doc.address = doc.address
                             /\ active' = [active EXCEPT !.doc = doc]
  <1>1. RestTyped /\ OpsGood /\ Good(p, op[p]) /\ LocksOf(p) /\ op[p] \in Operation BY Known
  <1>2. /\ op[p].what \in {"save", "restart", "renewal", "retry"}
        /\ op[p].item \in Config /\ op[p].item.enabled = TRUE
    BY <1>1 DEF Apply, Good, Operation, What, InPlace, Carries
  <1>3. doc \in Document BY <1>2 DEF Config
  <1>4. UNCHANGED <<stored, configs, notices, issued, aged, calls, wanted, revoked, renewed, crossed, restarted>>
    BY DEF Apply, vendorVars
  <1>5. installed \/ UNCHANGED active BY DEF Apply
  <1>6. installed => /\ active' \in Running /\ active'.doc = doc /\ active' # None
                     /\ \/ active'.change = None
                        \/ active # None /\ active'.change = active.change
    <2>1. CASE active' = [doc |-> doc, bound |-> FALSE, change |-> None]
      <3>1. active' \in Running BY <1>3, <2>1 DEF Running
      <3>2. QED BY <2>1, <3>1, NoneAssumption
    <2>2. CASE active # None /\ active' = [active EXCEPT !.doc = doc]
      <3>1. active \in Running BY <1>1, <2>2 DEF RestTyped
      <3>2. active' \in Running /\ active'.doc = doc /\ active'.change = active.change
        BY <1>3, <2>2, <3>1 DEF Running
      <3>3. QED BY <2>2, <3>2, NoneAssumption
    <2>3. QED BY <2>1, <2>2
  <1> HIDE DEF installed
  <1>7. active' \in Running \cup {None} BY <1>1, <1>5, <1>6 DEF RestTyped
  <1>8. Repairs'
    <2>1. \A n \in notices' : Repair(n) BY DEF Basic, Repairs, Apply
    <2>2. active' # None /\ active'.change # None => Repair(active'.change)
      BY <1>5, <1>6 DEF Basic, Repairs
    <2>3. QED BY <2>1, <2>2 DEF Repairs, Repair, SameButAddress
  <1>9. failures' \in 0 .. MaxFailures BY <1>1, BoundsAssumption DEF Apply, RestTyped, Fail, Succeed
  <1>10. CASE RecordFailure(p) /\ behind' = TRUE
    <2>1. Return(p) /\ applyPending' \in BOOLEAN BY <1>10 DEF RecordFailure
    <2>2. /\ Moves(p) /\ op'[p] = Idle
          /\ authRun' \in Process \cup {None} /\ credentialRun' \in Process \cup {None}
      BY <1>4, <2>1, ReturnMoves
    <2>3. RestTyped' BY <1>1, <1>4, <1>7, <1>9, <1>10, <2>1, <2>2 DEF RestTyped
    <2>4. QED BY <1>2, <1>8, <1>10, <2>2, <2>3
  <1>11. CASE /\ installed
              /\ op[p].what = "retry"
              /\ applyPending' = FALSE /\ Goto(p, "status")
              /\ behind' = FALSE
    <2>1. "status" \in At BY DEF At
    <2>2. /\ Others(p) /\ OwnLocks(p) /\ UNCHANGED <<authRun, credentialRun>>
          /\ op'[p] \in Operation
          /\ op'[p].at = "status" /\ op'[p].what = op[p].what
          /\ op'[p].base = op[p].base /\ op'[p].item = op[p].item
      BY <1>1, <1>11, <2>1, Going
    <2>3. op[p].base \in Config BY <1>1, <1>2, <1>11 DEF Good, Carries
    <2>4. Good(p, op'[p])
      BY <1>1, <1>2, <1>11, <2>2, <2>3 DEF Good, InPlace, Performs, Carries, RenewOps
    <2>5. LocksOf(p)' BY <1>1, <1>11, <2>2 DEF LocksOf, AuthOps
    <2>6. RestTyped' BY <1>1, <1>4, <1>7, <1>9, <1>11, <2>2 DEF RestTyped
    <2>7. Moves(p) BY <1>4, <2>2, <2>4, <2>5 DEF Moves
    <2>8. QED BY <1>2, <1>6, <1>8, <1>11, <2>2, <2>6, <2>7
  <1>12. CASE /\ installed
              /\ op[p].what # "retry"
              /\ op' = [op EXCEPT ![p] = [Idle EXCEPT !.at = "bind", !.what = op[p].what]]
              /\ UNCHANGED <<applyPending, lockVars>>
              /\ behind' = FALSE
    <2>1. Others(p) /\ op'[p] = [Idle EXCEPT !.at = "bind", !.what = op[p].what]
      BY <1>1, <1>12 DEF OpsGood, Others
    <2>2. op'[p] \in Operation /\ op'[p].at = "bind" /\ op'[p].what = op[p].what
      BY <1>1, <2>1 DEF Idle, Operation, At
    <2>3. Good(p, op'[p]) BY <1>1, <1>2, <1>12, <2>2 DEF Good, InPlace, Performs, Carries, RenewOps
    <2>4. OwnLocks(p) /\ LocksOf(p)'
      BY <1>1, <1>2, <1>12, <2>2 DEF lockVars, OwnLocks, LocksOf, AuthOps, RenewOps
    <2>5. RestTyped'
      <3>1. UNCHANGED <<applyPending, authRun, credentialRun>> /\ behind' \in BOOLEAN BY <1>12 DEF lockVars
      <3>2. RestTyped BY <1>1
      <3>3. QED BY <1>4, <1>7, <1>9, <3>1, <3>2 DEF RestTyped
    <2>6. Moves(p) BY <1>4, <2>1, <2>2, <2>3, <2>4 DEF Moves
    <2>7. QED BY <1>2, <1>6, <1>8, <1>12, <2>2, <2>5, <2>6
  <1>13. QED BY <1>10, <1>11, <1>12 DEF Apply, installed

LEMMA BindMoves ==
    ASSUME Basic, NEW p \in Process, Bind(p)
    PROVE  /\ Moves(p) /\ RestTyped' /\ Repairs' /\ op'[p] = Idle
           /\ \/ active = None /\ UNCHANGED <<active, notices>>
              \/ /\ active # None /\ active' # None /\ active'.doc = active.doc /\ active'.change = None
                 /\ notices' = IF active.change = None THEN notices ELSE notices \cup {active.change}
  <1>1. RestTyped BY Known
  <1>2. UNCHANGED <<crossed, restarted>> /\ Return(p) BY DEF Bind, historyVars
  <1>3. /\ Moves(p) /\ op'[p] = Idle
        /\ authRun' \in Process \cup {None} /\ credentialRun' \in Process \cup {None}
    BY <1>2, ReturnMoves
  <1>4. CASE active = None
    <2>1. UNCHANGED <<active, notices>> BY <1>4 DEF Bind
    <2>2. RestTyped' BY <1>1, <1>3, <2>1 DEF RestTyped, Bind, configVars, vendorVars, historyVars
    <2>3. Repairs' BY <2>1 DEF Basic, Repairs
    <2>4. QED BY <1>3, <1>4, <2>1, <2>2, <2>3
  <1>5. CASE active # None
    <2>1. active' = [active EXCEPT !.bound = TRUE, !.change = None]
          /\ notices' = IF active.change = None THEN notices ELSE notices \cup {active.change}
      BY <1>5 DEF Bind
    <2>2. active \in Running BY <1>1, <1>5 DEF RestTyped
    <2>3. active' \in Running /\ active'.doc = active.doc /\ active'.change = None
      BY <2>1, <2>2 DEF Running
    <2>4. active.change \in Change \cup {None} BY <2>2 DEF Running
    <2>5. notices' \subseteq Change BY <1>1, <2>1, <2>4 DEF RestTyped
    <2>6. RestTyped' BY <1>1, <1>3, <2>3, <2>5 DEF RestTyped, Bind, configVars, vendorVars, historyVars
    <2>7. \A n \in notices' : Repair(n) BY <1>5, <2>1 DEF Basic, Repairs
    <2>8. Repairs' BY <2>3, <2>7 DEF Repairs, Repair, SameButAddress
    <2>9. active' # None BY <2>3, NoneAssumption
    <2>10. QED BY <1>3, <1>5, <2>1, <2>3, <2>6, <2>8, <2>9
  <1>6. QED BY <1>4, <1>5

LEMMA RemoveMoves ==
    ASSUME Basic, NEW p \in Process, Remove(p)
    PROVE  /\ Moves(p) /\ RestTyped' /\ Repairs' /\ active' = None /\ behind' = TRUE
           /\ \/ op'[p] = Idle
              \/ op'[p].at = "erase" /\ op[p].what = "delete" /\ op'[p].what = "delete"
  <1> DEFINE after == CASE op[p].what = "delete" -> "erase" [] OTHER -> "return"
  <1>1. RestTyped /\ OpsGood /\ Good(p, op[p]) /\ LocksOf(p) /\ op[p] \in Operation BY Known
  <1>2. UNCHANGED <<crossed, restarted>> BY DEF Remove
  <1>3. active' = None /\ behind' = TRUE /\ renewed' = FALSE BY DEF Remove
  <1>4. failures' \in 0 .. MaxFailures BY <1>1, BoundsAssumption DEF Remove, RestTyped, Fail, Succeed
  <1>5. Repairs' BY <1>3 DEF Basic, Repairs, Remove
  <1>6. CASE Return(p)
    <2>1. /\ Moves(p) /\ op'[p] = Idle
          /\ authRun' \in Process \cup {None} /\ credentialRun' \in Process \cup {None}
      BY <1>2, <1>6, ReturnMoves
    <2>2. RestTyped' BY <1>1, <1>3, <1>4, <2>1 DEF RestTyped, Remove, configVars, vendorVars
    <2>3. QED BY <1>3, <1>5, <2>1, <2>2
  <1>7. CASE op[p].what = "delete" /\ Goto(p, "erase")
    <2>1. "erase" \in At BY DEF At
    <2>2. /\ Others(p) /\ OwnLocks(p) /\ UNCHANGED <<authRun, credentialRun>>
          /\ op'[p] \in Operation
          /\ op'[p].at = "erase" /\ op'[p].what = op[p].what
          /\ op'[p].base = op[p].base /\ op'[p].item = op[p].item
      BY <1>1, <1>7, <2>1, Going
    <2>3. Good(p, op'[p])
      BY <1>1, <1>7, <2>2 DEF Good, InPlace, Performs, Carries, RenewOps
    <2>4. LocksOf(p)' BY <1>1, <1>7, <2>2 DEF LocksOf
    <2>5. RestTyped' BY <1>1, <1>3, <1>4, <2>2 DEF RestTyped, Remove, configVars, vendorVars
    <2>6. Moves(p) BY <1>2, <2>2, <2>3, <2>4 DEF Moves
    <2>7. QED BY <1>3, <1>5, <1>7, <2>2, <2>5, <2>6
  <1>8. QED BY <1>6, <1>7 DEF Remove

LEMMA DeleteProviderMoves ==
    ASSUME Basic, NEW p \in Process, DeleteProvider(p)
    PROVE  /\ Moves(p) /\ RestTyped' /\ Repairs' /\ op[p].what = "delete"
           /\ \/ op'[p] = Idle /\ UNCHANGED <<stored, wanted, revoked>>
              \/ /\ op'[p].at = "forget" /\ op'[p].what = "delete"
                 /\ stored' = None /\ wanted' = None /\ revoked' = FALSE
  <1>1. RestTyped /\ OpsGood /\ Good(p, op[p]) /\ LocksOf(p) /\ op[p] \in Operation BY Known
  <1>2. op[p].what = "delete" BY <1>1 DEF DeleteProvider, Good, Operation, What, InPlace
  <1>3. UNCHANGED <<crossed, restarted>> BY DEF DeleteProvider
  <1>4. Repairs' BY DEF Basic, Repairs, DeleteProvider
  <1>5. failures' \in 0 .. MaxFailures BY <1>1, BoundsAssumption DEF DeleteProvider, RestTyped, Fail, Succeed
  <1>6. CASE UNCHANGED <<stored, wanted, revoked>> /\ Return(p)
    <2>1. /\ Moves(p) /\ op'[p] = Idle
          /\ authRun' \in Process \cup {None} /\ credentialRun' \in Process \cup {None}
      BY <1>3, <1>6, ReturnMoves
    <2>2. RestTyped' BY <1>1, <1>5, <1>6, <2>1 DEF RestTyped, DeleteProvider, vendorVars
    <2>3. QED BY <1>2, <1>4, <1>6, <2>1, <2>2
  <1>7. CASE stored' = None /\ wanted' = None /\ revoked' = FALSE /\ Goto(p, "forget")
    <2>1. "forget" \in At BY DEF At
    <2>2. /\ Others(p) /\ OwnLocks(p) /\ UNCHANGED <<authRun, credentialRun>>
          /\ op'[p] \in Operation
          /\ op'[p].at = "forget" /\ op'[p].what = op[p].what
          /\ op'[p].base = op[p].base /\ op'[p].item = op[p].item
      BY <1>1, <1>7, <2>1, Going
    <2>3. Good(p, op'[p])
      BY <1>1, <1>2, <2>2 DEF Good, InPlace, Performs, Carries, RenewOps
    <2>4. LocksOf(p)' BY <1>1, <1>2, <2>2 DEF LocksOf
    <2>5. RestTyped' BY <1>1, <1>5, <1>7, <2>2 DEF RestTyped, DeleteProvider, vendorVars
    <2>6. Moves(p) BY <1>3, <2>2, <2>3, <2>4 DEF Moves
    <2>7. QED BY <1>2, <1>4, <1>7, <2>2, <2>5, <2>6
  <1>8. QED BY <1>6, <1>7 DEF DeleteProvider

LEMMA ForgetMoves ==
    ASSUME Basic, NEW p \in Process, Forget(p)
    PROVE  Moves(p) /\ RestTyped' /\ Repairs' /\ op[p].what = "delete" /\ op'[p] = Idle
  <1>1. RestTyped /\ OpsGood /\ Good(p, op[p]) /\ op[p] \in Operation BY Known
  <1>2. op[p].what = "delete" BY <1>1 DEF Forget, Good, Operation, What, InPlace
  <1>3. UNCHANGED <<crossed, restarted>> /\ Return(p) BY DEF Forget, historyVars
  <1>4. /\ Moves(p) /\ op'[p] = Idle
        /\ authRun' \in Process \cup {None} /\ credentialRun' \in Process \cup {None}
    BY <1>3, ReturnMoves
  <1>5. RestTyped' BY <1>1, <1>4 DEF RestTyped, Forget, vendorVars, historyVars
  <1>6. Repairs' BY DEF Basic, Repairs, Forget
  <1>7. QED BY <1>2, <1>4, <1>5, <1>6

LEMMA RetryApplyMoves ==
    ASSUME Basic, NEW p \in Process, RetryApply(p)
    PROVE  /\ Moves(p) /\ RestTyped' /\ Repairs'
           /\ op[p].what = "renewal" /\ op[p].base = op[p].item
           /\ op'[p].at \in {"apply", "status"} /\ op'[p].what \in RenewOps
           /\ op'[p].base = op[p].base /\ op'[p].item = op[p].item
  <1> DEFINE a == IF applyPending THEN "apply" ELSE "status"
             w == IF applyPending THEN "retry" ELSE "renewal"
  <1>1. RestTyped /\ OpsGood /\ Good(p, op[p]) /\ LocksOf(p) /\ op[p] \in Operation BY Known
  <1>2. op[p].what = "renewal" BY <1>1 DEF RetryApply, Good, Operation, What, InPlace
  <1>3. UNCHANGED <<crossed, restarted, authRun, credentialRun>> BY DEF RetryApply, historyVars, lockVars
  <1>4. op' = [op EXCEPT ![p].at = a, ![p].what = w] BY DEF RetryApply
  <1>5. \/ a = "apply" /\ w = "retry"
        \/ a = "status" /\ w = "renewal"
    OBVIOUS
  <1> HIDE DEF a, w
  <1>6. Others(p) BY <1>1, <1>4 DEF OpsGood, Others
  <1>7. /\ op'[p] \in Operation /\ op'[p].at = a /\ op'[p].what = w
        /\ op'[p].base = op[p].base /\ op'[p].item = op[p].item
    BY <1>1, <1>4, <1>5 DEF OpsGood, Operation, At, What
  <1>8. op[p].base = op[p].item /\ op[p].item \in Config /\ op[p].item.enabled = TRUE /\ p = Maintenance
    BY <1>1, <1>2 DEF RetryApply, Good, Carries, Performs, RenewOps
  <1>9. Good(p, op'[p]) BY <1>5, <1>7, <1>8 DEF Good, InPlace, Performs, Carries, RenewOps
  <1>10. OwnLocks(p) /\ LocksOf(p)'
    BY <1>1, <1>2, <1>3, <1>5, <1>7 DEF OwnLocks, LocksOf, AuthOps, RenewOps
  <1>11. RestTyped' BY <1>1 DEF RestTyped, RetryApply, configVars, lockVars, vendorVars, historyVars
  <1>12. Repairs' BY DEF Basic, Repairs, RetryApply
  <1>13. Moves(p) BY <1>2, <1>3, <1>5, <1>6, <1>7, <1>9, <1>10 DEF Moves, RenewOps
  <1>14. QED BY <1>2, <1>5, <1>7, <1>8, <1>11, <1>12, <1>13 DEF RenewOps

LEMMA CredentialStatusMoves ==
    ASSUME Basic, NEW p \in Process, CredentialStatus(p)
    PROVE  /\ Moves(p) /\ RestTyped' /\ Repairs' /\ op[p].what \in RenewOps
           /\ \/ op'[p] = Idle
              \/ /\ op'[p].at = "renew" /\ op'[p].what = "renewal"
                 /\ op'[p].base = op[p].base /\ op'[p].item = op[p].item
  <1>1. RestTyped /\ OpsGood /\ Good(p, op[p]) /\ LocksOf(p) /\ op[p] \in Operation BY Known
  <1>2. op[p].what \in RenewOps BY <1>1 DEF CredentialStatus, Good, Operation, What, InPlace, RenewOps
  <1>3. UNCHANGED <<crossed, restarted>> BY DEF CredentialStatus, historyVars
  <1>4. Repairs' BY DEF Basic, Repairs, CredentialStatus
  <1>5. CASE Return(p)
    <2>1. /\ Moves(p) /\ op'[p] = Idle
          /\ authRun' \in Process \cup {None} /\ credentialRun' \in Process \cup {None}
      BY <1>3, <1>5, ReturnMoves
    <2>2. RestTyped' BY <1>1, <2>1 DEF RestTyped, CredentialStatus, configVars, vendorVars, historyVars
    <2>3. QED BY <1>2, <1>4, <2>1, <2>2
  <1>6. CASE /\ Due(op[p].item)
             /\ op' = [op EXCEPT ![p].at = "renew", ![p].what = "renewal"] /\ UNCHANGED lockVars
    <2>1. Others(p) BY <1>1, <1>6 DEF OpsGood, Others
    <2>2. /\ op'[p] \in Operation /\ op'[p].at = "renew" /\ op'[p].what = "renewal"
          /\ op'[p].base = op[p].base /\ op'[p].item = op[p].item
      BY <1>1, <1>6 DEF OpsGood, Operation, At, What
    <2>3. op[p].base = op[p].item /\ op[p].item \in Config /\ op[p].item.enabled = TRUE /\ p = Maintenance
      BY <1>1, <1>2 DEF CredentialStatus, Good, Carries, Performs
    <2>4. op[p].item.doc.credentials # Revoked BY <1>6 DEF Due
    <2>5. Good(p, op'[p]) BY <2>2, <2>3, <2>4 DEF Good, InPlace, Performs, Carries, RenewOps
    <2>6. OwnLocks(p) /\ LocksOf(p)'
      BY <1>1, <1>2, <1>6, <2>2 DEF OwnLocks, LocksOf, AuthOps, RenewOps, lockVars
    <2>7. RestTyped'
      BY <1>1, <1>6 DEF RestTyped, CredentialStatus, configVars, lockVars, vendorVars, historyVars
    <2>8. Moves(p) BY <1>2, <1>3, <2>1, <2>2, <2>5, <2>6 DEF Moves, RenewOps
    <2>9. QED BY <1>2, <1>4, <2>2, <2>7, <2>8
  <1>7. QED BY <1>5, <1>6 DEF CredentialStatus

LEMMA RenewCredentialsMoves ==
    ASSUME Basic, NEW p \in Process, RenewCredentials(p)
    PROVE  /\ Moves(p) /\ RestTyped' /\ Repairs' /\ op[p].what = "renewal"
           /\ \/ op'[p] = Idle
              \/ op'[p].at = "compare" /\ op'[p].what = "renewal" /\ op'[p].base = op[p].base
  <1>1. RestTyped /\ OpsGood /\ Good(p, op[p]) /\ LocksOf(p) /\ op[p] \in Operation BY Known
  <1>2. op[p].what = "renewal" BY <1>1 DEF RenewCredentials, Good, Operation, What, InPlace
  <1>3. /\ UNCHANGED <<stored, configs, active, notices, aged, calls>>
        /\ UNCHANGED <<wanted, revoked, renewed, crossed, restarted, behind>>
    BY DEF RenewCredentials, historyVars
  <1>4. Repairs' BY DEF Basic, Repairs, RenewCredentials
  <1>5. failures' \in 0 .. MaxFailures BY <1>1, BoundsAssumption DEF RenewCredentials, RestTyped, Fail, Succeed
  <1>6. CASE Return(p) /\ applyPending' = FALSE /\ UNCHANGED issued
    <2>1. /\ Moves(p) /\ op'[p] = Idle
          /\ authRun' \in Process \cup {None} /\ credentialRun' \in Process \cup {None}
      BY <1>3, <1>6, ReturnMoves
    <2>2. RestTyped' BY <1>1, <1>3, <1>5, <1>6, <2>1 DEF RestTyped
    <2>3. QED BY <1>2, <1>4, <2>1, <2>2
  <1>7. CASE /\ issued < MaxIssued
             /\ issued' = issued + 1
             /\ op' = [op EXCEPT ![p].at = "compare", ![p].item.doc.credentials = issued + 1]
             /\ UNCHANGED <<lockVars, applyPending>>
    <2> DEFINE d == [op[p].item.doc EXCEPT !.credentials = issued + 1]
               c == [op[p].item EXCEPT !.doc = d]
    <2>1. op[p].base = op[p].item /\ op[p].item \in Config /\ op[p].item.enabled = TRUE /\ p = Maintenance
          /\ op[p].base.doc.credentials # Revoked
      BY <1>1, <1>2 DEF RenewCredentials, Good, Carries, Performs, RenewOps
    <2>2. issued' \in 0 .. MaxIssued BY <1>1, <1>7, BoundsAssumption DEF RestTyped
    <2>3. op[p].item.doc \in Document BY <2>1 DEF Config
    <2>4. issued + 1 \in Credentials BY <1>7, <2>2 DEF Credentials
    <2>5. d \in Document /\ d.edit = op[p].item.doc.edit BY <2>3, <2>4 DEF Document
    <2>6. op' = [op EXCEPT ![p] = [op[p] EXCEPT !.at = "compare", !.item = c]]
      BY <1>1, <1>7, <2>1, <2>3 DEF OpsGood, Operation, Config, Document
    <2> HIDE DEF d
    <2>7. c \in Config /\ c.enabled = TRUE /\ c.doc = d BY <2>1, <2>5 DEF Config
    <2> HIDE DEF c
    <2>8. Others(p) BY <1>1, <2>6 DEF OpsGood, Others
    <2>9. op'[p] = [op[p] EXCEPT !.at = "compare", !.item = c] BY <1>1, <2>6 DEF OpsGood
    <2>10. /\ op'[p] \in Operation /\ op'[p].at = "compare" /\ op'[p].what = "renewal"
           /\ op'[p].base = op[p].base /\ op'[p].item = c
      <3>1. "compare" \in At BY DEF At
      <3>2. QED BY <1>1, <1>2, <2>7, <2>9, <3>1 DEF Operation
    <2>11. Good(p, op'[p])
      BY <2>1, <2>5, <2>7, <2>10 DEF Good, InPlace, Performs, Carries, RenewOps
    <2>12. OwnLocks(p) /\ LocksOf(p)'
      BY <1>1, <1>2, <1>7, <2>10 DEF OwnLocks, LocksOf, AuthOps, RenewOps, lockVars
    <2>13. RestTyped'
      <3>1. UNCHANGED <<applyPending, authRun, credentialRun>> BY <1>7 DEF lockVars
      <3>2. QED BY <1>1, <1>3, <1>5, <2>2, <3>1 DEF RestTyped
    <2>14. Moves(p) BY <1>2, <1>3, <2>8, <2>10, <2>11, <2>12 DEF Moves
    <2>15. QED BY <1>2, <1>4, <2>10, <2>13, <2>14
  <1>8. QED BY <1>6, <1>7 DEF RenewCredentials

LEMMA CompareMoves ==
    ASSUME Basic, NEW p \in Process, Compare(p)
    PROVE  /\ Moves(p) /\ RestTyped' /\ Repairs' /\ op[p].what = "renewal"
           /\ \/ op'[p] = Idle
              \/ /\ op'[p].at = "store" /\ op'[p].what = "renewal"
                 /\ op'[p].base = op[p].base /\ op'[p].item = op[p].item
                 /\ configs # None /\ configs.doc = op[p].base.doc
                 /\ op[p].base.doc.credentials # Revoked
  <1>1. RestTyped /\ OpsGood /\ Good(p, op[p]) /\ LocksOf(p) /\ op[p] \in Operation BY Known
  <1>2. op[p].what = "renewal" BY <1>1 DEF Compare, Good, Operation, What, InPlace
  <1>3. UNCHANGED <<crossed, restarted>> BY DEF Compare, historyVars
  <1>4. Repairs' BY DEF Basic, Repairs, Compare
  <1>5. CASE Return(p)
    <2>1. /\ Moves(p) /\ op'[p] = Idle
          /\ authRun' \in Process \cup {None} /\ credentialRun' \in Process \cup {None}
      BY <1>3, <1>5, ReturnMoves
    <2>2. RestTyped' BY <1>1, <2>1 DEF RestTyped, Compare, configVars, vendorVars, historyVars
    <2>3. QED BY <1>2, <1>4, <2>1, <2>2
  <1>6. CASE configs # None /\ configs.doc = op[p].base.doc /\ Goto(p, "store")
    <2>1. "store" \in At BY DEF At
    <2>2. /\ Others(p) /\ OwnLocks(p) /\ UNCHANGED <<authRun, credentialRun>>
          /\ op'[p] \in Operation
          /\ op'[p].at = "store" /\ op'[p].what = op[p].what
          /\ op'[p].base = op[p].base /\ op'[p].item = op[p].item
      BY <1>1, <1>6, <2>1, Going
    <2>3. /\ op[p].base \in Config /\ op[p].item \in Config /\ p = Maintenance
          /\ op[p].base.enabled = TRUE /\ op[p].item.enabled = TRUE
          /\ op[p].base.doc.edit = op[p].item.doc.edit /\ op[p].base.doc.credentials # Revoked
      BY <1>1, <1>2 DEF Compare, Good, Carries, Performs, RenewOps
    <2>4. Good(p, op'[p]) BY <1>2, <2>2, <2>3 DEF Good, InPlace, Performs, Carries, RenewOps
    <2>5. LocksOf(p)' BY <1>1, <1>2, <2>2 DEF LocksOf
    <2>6. RestTyped' BY <1>1, <2>2 DEF RestTyped, Compare, configVars, vendorVars, historyVars
    <2>7. Moves(p) BY <1>3, <2>2, <2>4, <2>5 DEF Moves
    <2>8. QED BY <1>2, <1>4, <1>6, <2>2, <2>3, <2>6, <2>7
  <1>7. QED BY <1>5, <1>6 DEF Compare
-----------------------------------------------------------------------------
(* Calls that begin.                                                       *)

Begins(p) ==
    /\ op[p].what = "none" /\ Others(p) /\ OwnLocks(p) /\ Good(p, op'[p]) /\ LocksOf(p)'
    /\ RestTyped' /\ Repairs'
    /\ crossed => crossed'
    /\ restarted => restarted'
    /\ ~crossed' /\ op'[p].what \in RenewOps => \A q \in Process : op[q].what \notin EditOps
    /\ ~crossed' /\ op'[p].what \in EditOps => \A q \in Process : op[q].what \notin RenewOps
    /\ ~restarted' /\ op'[p].what = "restart" => \A q \in Process : op[q].what \notin AuthOps \cup RenewOps
    /\ ~restarted' /\ op'[p].what \in AuthOps \cup RenewOps => \A q \in Process : op[q].what # "restart"

LEMMA BeginStep ==
    ASSUME Basic, NEW p \in Process, Begins(p)
    PROVE  Basic'
  <1>1. OpsGood' BY OpsStep DEF Basic, Begins
  <1>2. ASSUME NEW q \in Process PROVE LocksOf(q)'
    <2>1. CASE q = p BY <2>1 DEF Begins
    <2>2. CASE q # p
      <3>1. op'[q] = op[q] /\ LocksOf(q) BY <2>2 DEF Others, Basic, Begins
      <3>2. QED BY <2>2, <3>1 DEF LocksOf, OwnLocks, Begins
    <2>3. QED BY <2>1, <2>2
  <1>3. Apart'
    <2>1. \A q \in Process : q = p \/ op'[q] = op[q] BY DEF Begins, Others
    <2>2. op'[p].what \in RenewOps => op'[p].what \notin EditOps BY DEF RenewOps, EditOps
    <2>3. op'[p].what = "restart" => op'[p].what \notin AuthOps \cup RenewOps BY DEF RenewOps, AuthOps
    <2>4. QED BY <2>1, <2>2, <2>3 DEF Basic, Apart, Begins
  <1>4. QED BY <1>1, <1>2, <1>3 DEF Basic, Begins

LEMMA WhoRuns ==
    ASSUME Basic
    PROVE  /\ ~Renewing => \A q \in Process : op[q].what \notin RenewOps
           /\ ~Restarting => \A q \in Process : op[q].what # "restart"
           /\ ~Editing => \A q \in Process : op[q].what \notin EditOps
           /\ authRun = None => \A q \in Process : op[q].what \notin AuthOps
           /\ credentialRun = None =>
                  \A q \in Process : op[q].what \notin RenewOps /\ (op[q].what = "revoke" => op[q].at = "credential")
  <1>1. \A q \in Process : q # None BY ProcessAssumption DEF Process
  <1>2. \A q \in Process : LocksOf(q) /\ Good(q, op[q]) BY DEF Basic, OpsGood
  <1>3. ASSUME ~Renewing, NEW q \in Process PROVE op[q].what \notin RenewOps
    <2>1. op[Maintenance].at = "idle" BY <1>3 DEF Renewing, Active
    <2>2. Maintenance \in Process BY DEF Process
    <2>3. op[Maintenance].what \notin RenewOps BY <2>1, <2>2, <1>2 DEF Good, InPlace, RenewOps
    <2>4. QED BY <1>2, <2>3 DEF Good, Performs
  <1>4. ~Restarting => \A q \in Process : op[q].what # "restart" BY DEF Restarting
  <1>5. ASSUME ~Editing, NEW q \in Process PROVE op[q].what \notin EditOps
    BY <1>1, <1>2, <1>5 DEF Editing, LocksOf, EditOps, AuthOps
  <1>6. authRun = None => \A q \in Process : op[q].what \notin AuthOps BY <1>1, <1>2 DEF LocksOf
  <1>7. credentialRun = None =>
            \A q \in Process : op[q].what \notin RenewOps /\ (op[q].what = "revoke" => op[q].at = "credential")
    BY <1>1, <1>2 DEF LocksOf
  <1>8. QED BY <1>3, <1>4, <1>5, <1>6, <1>7

\* The rest of a call of an administrator.
CallRest == /\ calls' \in 0 .. MaxCalls
            /\ UNCHANGED <<configVars, active, notices, failures, wanted, revoked, renewed, behind>>

LEMMA SaveBegins ==
    ASSUME Basic, NEW p \in Caller, op[p].what = "none", Save(p), CallRest
    PROVE  /\ Begins(p) /\ op'[p].at = "store" /\ op'[p].what = "save" /\ op'[p].base = configs
           /\ authRun = None
  <1>1. p \in Process BY DEF Process
  <1>2. RestTyped /\ OpsGood /\ Good(p, op[p]) BY <1>1, Known
  <1>3. PICK item \in SaveItems :
          /\ op' = [op EXCEPT ![p] = [at |-> "store", what |-> "save", base |-> configs, item |-> item]]
          /\ issued' = IF item.doc.credentials = issued + 1 THEN issued + 1 ELSE issued
    BY DEF Save
  <1>4. item \in Config BY DEF SaveItems
  <1>5. Others(p) /\ op'[p] = [at |-> "store", what |-> "save", base |-> configs, item |-> item]
    BY <1>1, <1>2, <1>3 DEF OpsGood, Others
  <1>6. op'[p] \in Operation BY <1>2, <1>4, <1>5 DEF Operation, At, What, RestTyped
  <1>7. Good(p, op'[p]) BY <1>4, <1>5, <1>6 DEF Good, InPlace, Performs, Carries, RenewOps
  <1>8. authRun = None /\ authRun' = p /\ UNCHANGED credentialRun BY DEF Save
  <1>9. OwnLocks(p) /\ LocksOf(p)'
    <2>1. OwnLocks(p) BY <1>8, ProcessAssumption DEF OwnLocks, Process
    <2>2. LocksOf(p)' BY <1>5, <1>8 DEF LocksOf, RenewOps
    <2>3. QED BY <2>1, <2>2
  <1>10. issued' \in 0 .. MaxIssued
    <2>1. item.doc.credentials \in Credentials BY <1>4 DEF Config, Document
    <2>2. issued \in 0 .. MaxIssued BY <1>2 DEF RestTyped
    <2>3. issued + 1 # Revoked BY <2>2, BoundsAssumption
    <2>4. item.doc.credentials = issued + 1 => issued + 1 \in 0 .. MaxIssued
      BY <2>1, <2>3 DEF Credentials
    <2>5. QED BY <1>3, <2>2, <2>4
  <1>11. crossed' \in BOOLEAN /\ restarted' \in BOOLEAN BY DEF Save
  <1>12. RestTyped' BY <1>1, <1>2, <1>8, <1>10, <1>11 DEF RestTyped, CallRest, configVars, Save
  <1>13. Repairs' BY DEF Basic, Repairs, CallRest
  <1>14. /\ crossed => crossed'
         /\ restarted => restarted'
         /\ ~crossed' => ~Renewing
         /\ ~restarted' => ~Restarting
    BY DEF Save
  <1>15. op'[p].what = "save" /\ op'[p].at = "store" /\ op'[p].base = configs BY <1>5
  <1>16. Begins(p)
    BY <1>5, <1>7, <1>9, <1>12, <1>13, <1>14, <1>15, WhoRuns DEF Begins, RenewOps, EditOps, AuthOps
  <1>17. QED BY <1>8, <1>15, <1>16

LEMMA DeleteBegins ==
    ASSUME Basic, NEW p \in Caller, op[p].what = "none", Delete(p), CallRest
    PROVE  /\ Begins(p) /\ op'[p].what = "delete" /\ authRun = None
           /\ configs \in Config
           /\ \/ op'[p].at = "remove" /\ configs.enabled
              \/ op'[p].at = "erase" /\ ~configs.enabled
  <1> DEFINE a == IF configs.enabled THEN "remove" ELSE "erase"
  <1>1. p \in Process BY DEF Process
  <1>2. RestTyped /\ OpsGood /\ Good(p, op[p]) BY <1>1, Known
  <1>3. configs \in Config BY <1>2 DEF Delete, RestTyped
  <1>4. \/ a = "remove" /\ configs.enabled
        \/ a = "erase" /\ ~configs.enabled
    OBVIOUS
  <1>5. op' = [op EXCEPT ![p] = [at |-> a, what |-> "delete", base |-> configs, item |-> None]]
    BY DEF Delete
  <1> HIDE DEF a
  <1>6. Others(p) /\ op'[p] = [at |-> a, what |-> "delete", base |-> configs, item |-> None]
    BY <1>1, <1>2, <1>5 DEF OpsGood, Others
  <1>7. op'[p] \in Operation BY <1>3, <1>4, <1>6 DEF Operation, At, What
  <1>8. Good(p, op'[p]) BY <1>4, <1>6, <1>7 DEF Good, InPlace, Performs, Carries, RenewOps
  <1>9. authRun = None /\ authRun' = p /\ UNCHANGED credentialRun BY DEF Delete
  <1>10. OwnLocks(p) BY <1>9, ProcessAssumption DEF OwnLocks, Process
  <1>11. LocksOf(p)' BY <1>6, <1>9 DEF LocksOf, RenewOps
  <1>12. crossed' \in BOOLEAN /\ restarted' \in BOOLEAN BY DEF Delete
  <1>13. RestTyped' BY <1>1, <1>2, <1>9, <1>12 DEF RestTyped, CallRest, configVars, vendorVars, Delete
  <1>14. Repairs' BY DEF Basic, Repairs, CallRest
  <1>15. /\ crossed => crossed'
         /\ restarted => restarted'
         /\ ~crossed' => ~Renewing
         /\ ~restarted' => ~Restarting
    BY DEF Delete
  <1>16. op'[p].what = "delete" /\ op'[p].at = a BY <1>6
  <1>17. Begins(p)
    BY <1>6, <1>8, <1>10, <1>11, <1>13, <1>14, <1>15, <1>16, WhoRuns DEF Begins, RenewOps, EditOps, AuthOps
  <1>18. QED BY <1>3, <1>4, <1>9, <1>16, <1>17

LEMMA RevokeBegins ==
    ASSUME Basic, NEW p \in Caller, op[p].what = "none", RevokeXiaomiCredentials(p), CallRest
    PROVE  Begins(p) /\ op'[p].what = "revoke" /\ op'[p].at = "credential" /\ UNCHANGED crossed
  <1>1. p \in Process BY DEF Process
  <1>2. RestTyped /\ OpsGood /\ Good(p, op[p]) BY <1>1, Known
  <1>3. Others(p) /\ op'[p] = [Idle EXCEPT !.at = "credential", !.what = "revoke"]
    BY <1>1, <1>2 DEF OpsGood, Others, RevokeXiaomiCredentials
  <1>4. op'[p] \in Operation /\ op'[p].at = "credential" /\ op'[p].what = "revoke"
    BY <1>3 DEF Operation, At, What, Idle
  <1>5. Good(p, op'[p]) BY <1>4 DEF Good, InPlace, Performs, Carries, RenewOps
  <1>6. authRun = None /\ authRun' = p /\ UNCHANGED <<credentialRun, crossed>> BY DEF RevokeXiaomiCredentials
  <1>7. OwnLocks(p) BY <1>6, ProcessAssumption DEF OwnLocks, Process
  <1>8. LocksOf(p)' BY <1>4, <1>6 DEF LocksOf, RenewOps
  <1>9. restarted' \in BOOLEAN BY DEF RevokeXiaomiCredentials
  <1>10. RestTyped'
    BY <1>1, <1>2, <1>6, <1>9 DEF RestTyped, CallRest, configVars, vendorVars, RevokeXiaomiCredentials
  <1>11. Repairs' BY DEF Basic, Repairs, CallRest
  <1>12. (restarted => restarted') /\ (~restarted' => ~Restarting) BY DEF RevokeXiaomiCredentials
  <1>13. Begins(p)
    BY <1>3, <1>4, <1>5, <1>6, <1>7, <1>8, <1>10, <1>11, <1>12, WhoRuns DEF Begins, RenewOps, EditOps, AuthOps
  <1>14. QED BY <1>4, <1>6, <1>13

LEMMA RestartBegins ==
    ASSUME Basic, NEW p \in Caller, op[p].what = "none", Restart(p), CallRest
    PROVE  /\ Begins(p) /\ op'[p].what = "restart" /\ op'[p].at = "apply" /\ UNCHANGED crossed
           /\ op'[p].item = configs
  <1>1. p \in Process BY DEF Process
  <1>2. RestTyped /\ OpsGood /\ Good(p, op[p]) BY <1>1, Known
  <1>3. configs \in Config /\ configs.enabled = TRUE BY <1>2 DEF Restart, RestTyped, Config
  <1>4. Others(p) /\ op'[p] = [at |-> "apply", what |-> "restart", base |-> None, item |-> configs]
    BY <1>1, <1>2 DEF OpsGood, Others, Restart
  <1>5. op'[p] \in Operation /\ op'[p].at = "apply" /\ op'[p].what = "restart" /\ op'[p].item = configs
    BY <1>3, <1>4 DEF Operation, At, What
  <1>6. Good(p, op'[p]) BY <1>3, <1>5 DEF Good, InPlace, Performs, Carries, RenewOps
  <1>7. UNCHANGED <<authRun, credentialRun, crossed>> BY DEF Restart, lockVars
  <1>8. OwnLocks(p) BY <1>7 DEF OwnLocks
  <1>9. LocksOf(p)' BY <1>5 DEF LocksOf, RenewOps, AuthOps
  <1>10. restarted' \in BOOLEAN BY DEF Restart
  <1>11. RestTyped' BY <1>2, <1>7, <1>10 DEF RestTyped, CallRest, configVars, vendorVars, Restart
  <1>12. Repairs' BY DEF Basic, Repairs, CallRest
  <1>13. (restarted => restarted') /\ (~restarted' => authRun = None /\ ~Renewing) BY DEF Restart
  <1>14. Begins(p)
    BY <1>4, <1>5, <1>6, <1>7, <1>8, <1>9, <1>11, <1>12, <1>13, WhoRuns DEF Begins, RenewOps, EditOps, AuthOps
  <1>15. QED BY <1>5, <1>7, <1>14

LEMMA RefreshBegins ==
    ASSUME Basic, RefreshDueCredentials(Maintenance)
    PROVE  /\ Begins(Maintenance) /\ op'[Maintenance].what = "renewal" /\ op'[Maintenance].at = "retry"
           /\ op'[Maintenance].base = configs /\ credentialRun = None
  <1> DEFINE p == Maintenance
  <1>1. p \in Process BY DEF Process
  <1>2. RestTyped /\ OpsGood /\ Good(p, op[p]) /\ op[p].what \in What BY <1>1, Known
  <1>3. configs \in Config /\ configs.enabled = TRUE
    BY <1>2 DEF RefreshDueCredentials, RestTyped, Config
  <1>4. Others(p) /\ op'[p] = [at |-> "retry", what |-> "renewal", base |-> configs, item |-> configs]
    BY <1>1, <1>2 DEF OpsGood, Others, RefreshDueCredentials
  <1>5. /\ op'[p] \in Operation /\ op'[p].at = "retry" /\ op'[p].what = "renewal"
        /\ op'[p].base = configs /\ op'[p].item = configs
    BY <1>3, <1>4 DEF Operation, At, What
  <1>6. Good(p, op'[p]) BY <1>3, <1>5 DEF Good, InPlace, Performs, Carries, RenewOps
  <1>7. credentialRun = None /\ credentialRun' = p /\ UNCHANGED authRun /\ op[p].at = "idle"
    BY DEF RefreshDueCredentials, Active
  <1>8. OwnLocks(p) BY <1>7, ProcessAssumption DEF OwnLocks, Process
  <1>9. LocksOf(p)' BY <1>5, <1>7 DEF LocksOf, AuthOps
  <1>10. crossed' \in BOOLEAN /\ restarted' \in BOOLEAN BY DEF RefreshDueCredentials
  <1>11. RestTyped'
    BY <1>1, <1>2, <1>7, <1>10 DEF RestTyped, configVars, vendorVars, RefreshDueCredentials
  <1>12. Repairs' BY DEF Basic, Repairs, RefreshDueCredentials
  <1>13. op[p].what = "none" BY <1>2, <1>7 DEF Good, InPlace, What
  <1>14. /\ crossed => crossed'
         /\ restarted => restarted'
         /\ ~crossed' => ~Editing
         /\ ~restarted' => ~Restarting
    BY DEF RefreshDueCredentials
  <1>15. Begins(p)
    BY <1>4, <1>5, <1>6, <1>8, <1>9, <1>11, <1>12, <1>13, <1>14, WhoRuns DEF Begins, RenewOps, EditOps, AuthOps
  <1>16. QED BY <1>5, <1>7, <1>15

LEMMA PersistBegins ==
    ASSUME Basic, NEW notice \in notices, PersistRuntimeConfigChange(Hook, notice), Fits(notice)
    PROVE  /\ Begins(Hook) /\ op'[Hook].what = "notice" /\ op'[Hook].at = "store"
           /\ op'[Hook].base = configs /\ configs \in Config /\ op'[Hook].item.doc = notice.doc
           /\ op'[Hook].item.doc.credentials = configs.doc.credentials
           /\ authRun = None
  <1> DEFINE p == Hook
             c == [configs EXCEPT !.doc = notice.doc]
  <1>1. p \in Process BY DEF Process
  <1>2. RestTyped /\ OpsGood /\ Good(p, op[p]) /\ op[p].what \in What BY <1>1, Known
  <1>3. configs \in Config /\ configs.doc = notice.base BY <1>2 DEF Fits, RestTyped
  <1>4. notice \in Change /\ Repair(notice) BY <1>2 DEF RestTyped, Basic, Repairs
  <1>5. c \in Config /\ c.enabled = configs.enabled /\ c.doc = notice.doc
    BY <1>3, <1>4 DEF Config, Change
  <1>6. SameButAddress(configs.doc, c.doc) BY <1>3, <1>4, <1>5 DEF Repair
  <1>7. Others(p) /\ op'[p] = [at |-> "store", what |-> "notice", base |-> configs, item |-> c]
    BY <1>1, <1>2 DEF OpsGood, Others, PersistRuntimeConfigChange
  <1> HIDE DEF c
  <1>8. /\ op'[p] \in Operation /\ op'[p].at = "store" /\ op'[p].what = "notice"
        /\ op'[p].base = configs /\ op'[p].item = c
    BY <1>3, <1>5, <1>7 DEF Operation, At, What
  <1>9. Good(p, op'[p]) BY <1>3, <1>5, <1>6, <1>8 DEF Good, InPlace, Performs, Carries, RenewOps
  <1>10. authRun = None /\ authRun' = p /\ UNCHANGED credentialRun /\ op[p].at = "idle"
    BY DEF PersistRuntimeConfigChange, Active
  <1>11. OwnLocks(p) BY <1>10, ProcessAssumption DEF OwnLocks, Process
  <1>12. LocksOf(p)' BY <1>8, <1>10 DEF LocksOf, RenewOps
  <1>13. crossed' \in BOOLEAN /\ restarted' \in BOOLEAN /\ behind' \in BOOLEAN
    BY DEF PersistRuntimeConfigChange
  <1>14. notices' \subseteq Change BY <1>2 DEF PersistRuntimeConfigChange, RestTyped
  <1>15. RestTyped'
    BY <1>1, <1>2, <1>10, <1>13, <1>14 DEF RestTyped, configVars, vendorVars, PersistRuntimeConfigChange
  <1>16. Repairs' BY DEF Basic, Repairs, PersistRuntimeConfigChange
  <1>17. op[p].what = "none" BY <1>2, <1>10 DEF Good, InPlace, What
  <1>18. /\ crossed => crossed'
         /\ restarted => restarted'
         /\ ~crossed' => ~Renewing
         /\ ~restarted' => ~Restarting
    BY DEF PersistRuntimeConfigChange
  <1>19. Begins(p)
    BY <1>7, <1>8, <1>9, <1>11, <1>12, <1>15, <1>16, <1>17, <1>18, WhoRuns DEF Begins, RenewOps, EditOps, AuthOps
  <1>20. QED BY <1>3, <1>5, <1>6, <1>8, <1>10, <1>19 DEF SameButAddress

\* A change that fits no longer is dropped, the running provider repairs its address, and
\* credentials come of age: no call moves.
LEMMA QuietBasic ==
    ASSUME Basic, UNCHANGED <<op, authRun, credentialRun, crossed, restarted>>, RestTyped', Repairs'
    PROVE  Basic'
  <1>1. OpsGood' BY DEF Basic, OpsGood, Good, InPlace, Performs, Carries, SameButAddress
  <1>2. \A q \in Process : LocksOf(q)' BY DEF Basic, LocksOf
  <1>3. Apart' BY DEF Basic, Apart
  <1>4. QED BY <1>1, <1>2, <1>3 DEF Basic

LEMMA DropQuiet ==
    ASSUME Basic, NEW notice \in notices, PersistRuntimeConfigChange(Hook, notice), ~Fits(notice)
    PROVE  /\ UNCHANGED <<op, authRun, credentialRun, crossed, restarted>>
           /\ RestTyped' /\ Repairs'
  <1>1. RestTyped BY DEF Basic
  <1>2. UNCHANGED <<op, authRun, credentialRun, crossed, restarted>> BY DEF PersistRuntimeConfigChange
  <1>3. behind' \in BOOLEAN BY DEF PersistRuntimeConfigChange
  <1>4. notices' \subseteq Change BY <1>1 DEF PersistRuntimeConfigChange, RestTyped
  <1>5. RestTyped'
    BY <1>1, <1>2, <1>3, <1>4 DEF RestTyped, configVars, vendorVars, PersistRuntimeConfigChange
  <1>6. Repairs' BY DEF Basic, Repairs, PersistRuntimeConfigChange
  <1>7. QED BY <1>2, <1>5, <1>6

LEMMA RecoverQuiet ==
    ASSUME Basic, Recover
    PROVE  /\ UNCHANGED <<op, authRun, credentialRun, crossed, restarted>>
           /\ RestTyped' /\ Repairs'
           /\ UNCHANGED <<configVars, vendorVars, calls, historyVars>>
           /\ active # None /\ active' # None
           /\ \/ \E n \in notices' : n.doc = active'.doc
              \/ active'.change # None /\ active'.change.doc = active'.doc
           /\ notices \subseteq notices'
  <1>1. RestTyped BY DEF Basic
  <1>2. UNCHANGED <<op, authRun, credentialRun, crossed, restarted>>
        /\ UNCHANGED <<configVars, vendorVars, calls, historyVars>>
    BY DEF Recover, lockVars, historyVars
  <1>3. PICK address \in Address :
          /\ active # None
          /\ Fail
          /\ LET change == [base |-> active.doc, doc |-> [active.doc EXCEPT !.address = address]] IN
                IF active.bound
                THEN active' = [active EXCEPT !.doc = change.doc] /\ notices' = notices \cup {change}
                ELSE active' = [active EXCEPT !.doc = change.doc, !.change = change] /\ UNCHANGED notices
    BY DEF Recover
  <1> DEFINE d == [active.doc EXCEPT !.address = address]
             change == [base |-> active.doc, doc |-> d]
  <1>4. active \in Running /\ active.doc \in Document BY <1>1, <1>3 DEF RestTyped, Running
  <1>5. d \in Document /\ SameButAddress(active.doc, d) BY <1>4 DEF Document, SameButAddress
  <1>6. \/ active' = [active EXCEPT !.doc = d] /\ notices' = notices \cup {change}
        \/ active' = [active EXCEPT !.doc = d, !.change = change] /\ UNCHANGED notices
    BY <1>3
  <1> HIDE DEF d
  <1>7. change \in Change /\ change.doc = d /\ Repair(change) /\ change # None
    BY <1>4, <1>5, NoneAssumption DEF Change, Repair
  <1> HIDE DEF change
  <1>8. failures' \in 0 .. MaxFailures BY <1>1, <1>3, BoundsAssumption DEF RestTyped, Fail
  <1>9. CASE active' = [active EXCEPT !.doc = d] /\ notices' = notices \cup {change}
    <2>1. active' \in Running /\ active'.doc = d /\ active'.change = active.change
      BY <1>4, <1>5, <1>9 DEF Running
    <2>2. notices' \subseteq Change BY <1>1, <1>7, <1>9 DEF RestTyped
    <2>3. RestTyped'
      BY <1>1, <1>2, <1>8, <2>1, <2>2 DEF RestTyped, configVars, vendorVars, historyVars
    <2>4. \A n \in notices' : Repair(n) BY <1>7, <1>9 DEF Basic, Repairs
    <2>5. Repairs' BY <1>3, <2>1, <2>4 DEF Basic, Repairs, Repair, SameButAddress
    <2>6. active' # None BY <2>1, NoneAssumption
    <2>7. \E n \in notices' : n.doc = active'.doc BY <1>7, <1>9, <2>1
    <2>8. QED BY <1>2, <1>3, <1>9, <2>3, <2>5, <2>6, <2>7
  <1>10. CASE active' = [active EXCEPT !.doc = d, !.change = change] /\ UNCHANGED notices
    <2>1. active' \in Running /\ active'.doc = d /\ active'.change = change
      BY <1>4, <1>5, <1>7, <1>10 DEF Running
    <2>2. RestTyped' BY <1>1, <1>2, <1>8, <1>10, <2>1 DEF RestTyped, configVars, vendorVars, historyVars
    <2>3. Repairs' BY <1>7, <1>10, <2>1 DEF Basic, Repairs, Repair, SameButAddress
    <2>4. active' # None BY <2>1, NoneAssumption
    <2>5. QED BY <1>2, <1>3, <1>7, <1>10, <2>1, <2>2, <2>3, <2>4
  <1>11. QED BY <1>6, <1>9, <1>10

LEMMA AgeQuiet ==
    ASSUME Basic, Age
    PROVE  /\ UNCHANGED <<op, authRun, credentialRun, crossed, restarted>>
           /\ RestTyped' /\ Repairs'
           /\ UNCHANGED <<configVars, active, notices, historyVars>>
  <1>1. RestTyped BY DEF Basic
  <1>2. UNCHANGED <<op, authRun, credentialRun, crossed, restarted>> BY DEF Age, lockVars, historyVars
  <1>3. RestTyped' BY <1>1 DEF RestTyped, Age, configVars, lockVars, historyVars
  <1>4. Repairs' BY DEF Basic, Repairs, Age
  <1>5. QED BY <1>2, <1>3, <1>4 DEF Age

LEMMA StutterQuiet ==
    ASSUME Basic, UNCHANGED vars
    PROVE  /\ UNCHANGED <<op, authRun, credentialRun, crossed, restarted>>
           /\ RestTyped' /\ Repairs'
           /\ UNCHANGED <<configVars, active, notices, historyVars>>
  <1>1. RestTyped BY DEF Basic
  <1>2. UNCHANGED <<op, authRun, credentialRun, crossed, restarted>> BY DEF vars, lockVars, historyVars
  <1>3. RestTyped' BY <1>1 DEF RestTyped, vars, configVars, lockVars, vendorVars, historyVars
  <1>4. Repairs' BY DEF Basic, Repairs, vars
  <1>5. QED BY <1>2, <1>3, <1>4 DEF vars

\* Who calls: an administrator without a call.
LEMMA CallBegins ==
    ASSUME Basic, Call
    PROVE  CallRest /\ \E p \in Caller :
               op[p].what = "none" /\ (Save(p) \/ Delete(p) \/ RevokeXiaomiCredentials(p) \/ Restart(p))
  <1> DEFINE p == CHOOSE p \in Caller : ~Active(p)
  <1>1. p \in Caller /\ ~Active(p) BY DEF Call
  <1>2. Save(p) \/ Delete(p) \/ RevokeXiaomiCredentials(p) \/ Restart(p) BY DEF Call
  <1> HIDE DEF p
  <1>3. p \in Process BY <1>1 DEF Process
  <1>4. op[p].what = "none" BY <1>1, <1>3, Known DEF Active
  <1>5. RestTyped BY DEF Basic
  <1>6. calls' \in 0 .. MaxCalls BY <1>5, BoundsAssumption DEF Call, RestTyped
  <1>7. CallRest BY <1>6 DEF Call, CallRest
  <1>8. QED BY <1>1, <1>2, <1>4, <1>7

LEMMA StepMoves ==
    ASSUME Basic, NEW p \in Process, Step(p)
    PROVE  Moves(p) /\ RestTyped' /\ Repairs'
  <1>1. CASE LockCredentials(p) BY <1>1, LockCredentialsMoves
  <1>2. CASE RevokeCredentials(p) BY <1>2, RevokeCredentialsMoves
  <1>3. CASE SaveProvider(p) BY <1>3, SaveProviderMoves
  <1>4. CASE Remember(p) BY <1>4, RememberMoves
  <1>5. CASE Apply(p) BY <1>5, ApplyMoves
  <1>6. CASE Bind(p) BY <1>6, BindMoves
  <1>7. CASE Remove(p) BY <1>7, RemoveMoves
  <1>8. CASE DeleteProvider(p) BY <1>8, DeleteProviderMoves
  <1>9. CASE Forget(p) BY <1>9, ForgetMoves
  <1>10. CASE RetryApply(p) BY <1>10, RetryApplyMoves
  <1>11. CASE CredentialStatus(p) BY <1>11, CredentialStatusMoves
  <1>12. CASE RenewCredentials(p) BY <1>12, RenewCredentialsMoves
  <1>13. CASE Compare(p) BY <1>13, CompareMoves
  <1>14. QED
    BY <1>1, <1>2, <1>3, <1>4, <1>5, <1>6, <1>7, <1>8, <1>9, <1>10, <1>11, <1>12, <1>13 DEF Step

LEMMA BasicNext == ASSUME Basic, [Next]_vars PROVE Basic'
  <1>1. ASSUME NEW p \in Process, Step(p) PROVE Basic' BY <1>1, StepMoves, BasicStep
  <1>2. CASE Call
    <2>1. PICK p \in Caller :
               op[p].what = "none" /\ (Save(p) \/ Delete(p) \/ RevokeXiaomiCredentials(p) \/ Restart(p))
      BY <1>2, CallBegins
    <2>2. CallRest BY <1>2, CallBegins
    <2>3. Begins(p) BY <2>1, <2>2, SaveBegins, DeleteBegins, RevokeBegins, RestartBegins
    <2>4. p \in Process BY DEF Process
    <2>5. QED BY <2>3, <2>4, BeginStep
  <1>3. CASE RefreshDueCredentials(Maintenance)
    <2>1. Maintenance \in Process BY DEF Process
    <2>2. QED BY <1>3, <2>1, RefreshBegins, BeginStep
  <1>4. ASSUME NEW notice \in notices, PersistRuntimeConfigChange(Hook, notice) PROVE Basic'
    <2>1. Hook \in Process BY DEF Process
    <2>2. CASE Fits(notice) BY <1>4, <2>1, <2>2, PersistBegins, BeginStep
    <2>3. CASE ~Fits(notice) BY <1>4, <2>3, DropQuiet, QuietBasic
    <2>4. QED BY <2>2, <2>3
  <1>5. CASE Age BY <1>5, AgeQuiet, QuietBasic
  <1>6. CASE Recover BY <1>6, RecoverQuiet, QuietBasic
  <1>7. CASE UNCHANGED vars BY <1>7, StutterQuiet, QuietBasic
  <1>8. QED BY <1>1, <1>2, <1>3, <1>4, <1>5, <1>6, <1>7 DEF Next
-----------------------------------------------------------------------------
(* Revocation.                                                             *)

RevocationOf(p) ==
    /\ op[p].at \in {"store", "remember"} /\ op[p].what = "renewal" => revoked = FALSE
    /\ op[p].at = "remember" /\ op[p].what = "save" /\ revoked => op[p].item.doc.credentials = Revoked
    /\ op[p].what = "notice" /\ revoked => op[p].item.doc.credentials = Revoked
    /\ op[p].at = "remember" /\ op[p].what = "revoke" => stored \in Config /\ stored.doc.credentials = Revoked

\* A renewal that is about to write has seen credentials that nobody has revoked since; an
\* edit or a repair that is about to write brings new credentials or none; and nothing comes
\* between the two writes of a revocation, because it holds both mutexes.
Revocation == RevokedStaysRevoked /\ \A p \in Process : RevocationOf(p)

LEMMA RevocationKept ==
    ASSUME Revocation, NEW p \in Process, Others(p), UNCHANGED <<stored, configs, revoked>>, RevocationOf(p)'
    PROVE  Revocation'
  <1>1. ASSUME NEW q \in Process, q # p PROVE RevocationOf(q)'
    <2>1. op'[q] = op[q] /\ RevocationOf(q) BY <1>1 DEF Others, Revocation
    <2>2. QED BY <2>1 DEF RevocationOf
  <1>2. RevokedStaysRevoked' BY DEF Revocation, RevokedStaysRevoked
  <1>3. QED BY <1>1, <1>2 DEF Revocation

LEMMA RevocationElsewhere ==
    ASSUME Revocation, NEW p \in Process, Others(p), Good(p, op'[p]), UNCHANGED <<stored, configs, revoked>>,
           op'[p].at \notin {"store", "remember"}
    PROVE  Revocation'
  <1>1. RevocationOf(p)' BY DEF RevocationOf, Good, InPlace
  <1>2. QED BY <1>1, RevocationKept

LEMMA RevocationIdle ==
    ASSUME Revocation, NEW p \in Process, Others(p), op'[p] = Idle, UNCHANGED <<stored, configs, revoked>>
    PROVE  Revocation'
  <1>1. RevocationOf(p)' BY DEF RevocationOf, Idle
  <1>2. QED BY <1>1, RevocationKept

LEMMA SaveProviderRevocation ==
    ASSUME Basic, Revocation, NEW p \in Process, SaveProvider(p)
    PROVE  Revocation'
  <1>1. /\ Moves(p)
        /\ op[p].what \in {"save", "revoke", "renewal", "notice"} /\ op[p].item \in Config
    BY SaveProviderMoves
  <1>2. UNCHANGED configs /\ op[p].at = "store" BY DEF SaveProvider
  <1>3. Others(p) BY <1>1 DEF Moves
  <1>4. CASE op'[p] = Idle /\ UNCHANGED <<stored, wanted, revoked>>
    BY <1>2, <1>3, <1>4, RevocationIdle
  <1>5. CASE /\ op'[p].at = "remember" /\ op'[p].what = op[p].what /\ op'[p].item = op[p].item
             /\ stored' = op[p].item
             /\ revoked' = (revoked /\ (op[p].what = "save" => op[p].item.doc.credentials = Revoked))
    <2>1. RevocationOf(p) /\ LocksOf(p) /\ Good(p, op[p]) BY Known DEF Revocation
    <2>2. op[p].what = "revoke" => op[p].item.doc.credentials = Revoked
      BY <1>2, <2>1 DEF Good, Carries
    <2>3. revoked' => revoked BY <1>5
    <2>4. revoked' => op[p].item.doc.credentials = Revoked
      BY <1>1, <1>2, <1>5, <2>1, <2>2 DEF RevocationOf
    <2>5. RevocationOf(p)'
      BY <1>1, <1>2, <1>5, <2>1, <2>2, <2>3, <2>4 DEF RevocationOf
    <2>6. RevokedStaysRevoked'
      BY <1>1, <1>2, <1>5, <2>3, <2>4, NoneAssumption DEF RevokedStaysRevoked, Revocation
    <2>7. ASSUME NEW q \in Process, q # p PROVE RevocationOf(q)'
      <3>1. op'[q] = op[q] /\ RevocationOf(q) /\ LocksOf(q) BY <1>3, <2>7 DEF Others, Revocation, Basic
      <3>2. ~(op[q].at = "remember" /\ op[q].what = "revoke")
        BY <1>1, <1>2, <2>1, <2>7, <3>1 DEF LocksOf, AuthOps, RenewOps
      <3>3. QED BY <2>3, <3>1, <3>2 DEF RevocationOf
    <2>8. QED BY <2>5, <2>6, <2>7 DEF Revocation
  <1>6. QED BY <1>4, <1>5, SaveProviderMoves

LEMMA RememberRevocation ==
    ASSUME Basic, Revocation, NEW p \in Process, Remember(p)
    PROVE  Revocation'
  <1>1. Moves(p) /\ op[p].what \in {"save", "revoke", "renewal", "notice"} /\ op[p].item \in Config
    BY RememberMoves
  <1>2. UNCHANGED stored /\ op[p].at = "remember" BY DEF Remember
  <1>3. Others(p) BY <1>1 DEF Moves
  <1>4. RevocationOf(p) /\ LocksOf(p) /\ Good(p, op[p]) BY Known DEF Revocation
  <1>5. op'[p].at \notin {"store", "remember"} /\ op'[p].what # "notice"
    <2>1. Idle.at = "idle" /\ Idle.what = "none" BY DEF Idle
    <2>2. op'[p] = Idle \/ (op'[p].at \in {"apply", "remove"} /\ op[p].what # "notice" /\ op'[p].what = op[p].what)
      BY RememberMoves
    <2>3. QED BY <2>1, <2>2
  <1>6. RevocationOf(p)' BY <1>5 DEF RevocationOf
  <1>7. revoked' = (revoked \/ op[p].what = "revoke") \/ (op[p].what = "notice" /\ revoked' = revoked)
    BY <1>1, RememberMoves
  <1>8. configs' = op[p].item \/ configs' = configs BY RememberMoves
  <1>9. op[p].what = "revoke" => /\ op[p].item.doc.credentials = Revoked
                                 /\ stored \in Config /\ stored.doc.credentials = Revoked
    BY <1>2, <1>4 DEF Good, Carries, RevocationOf
  <1>10. op[p].what # "revoke" /\ revoked => op[p].item.doc.credentials = Revoked
    BY <1>1, <1>2, <1>4 DEF RevocationOf
  <1>11. op[p].what = "revoke" => configs' = op[p].item BY RememberMoves
  <1>12. op[p].what # "revoke" => (revoked' <=> revoked) BY <1>7
  <1>13. RevokedStaysRevoked'
    BY <1>2, <1>8, <1>9, <1>10, <1>11, <1>12, NoneAssumption DEF RevokedStaysRevoked, Revocation
  <1>14. ASSUME NEW q \in Process, q # p PROVE RevocationOf(q)'
    <2>1. op'[q] = op[q] /\ RevocationOf(q) /\ LocksOf(q) BY <1>3, <1>14 DEF Others, Revocation, Basic
    <2>2. CASE op[p].what = "revoke"
      <3>1. authRun = p /\ credentialRun = p BY <1>2, <1>4, <2>2 DEF LocksOf, AuthOps
      <3>2. op[q].what \notin AuthOps \cup RenewOps BY <1>14, <2>1, <3>1 DEF LocksOf
      <3>3. QED BY <2>1, <3>2 DEF RevocationOf, AuthOps, RenewOps
    <2>3. CASE op[p].what # "revoke"
      <3>1. revoked' = FALSE \/ revoked' = TRUE BY StepMoves DEF RestTyped, Step
      <3>2. revoked = FALSE => revoked' = FALSE BY <1>12, <2>3, <3>1
      <3>3. QED BY <1>2, <1>12, <2>1, <2>3, <3>2 DEF RevocationOf
    <2>4. QED BY <2>2, <2>3
  <1>15. QED BY <1>6, <1>13, <1>14 DEF Revocation

LEMMA DeleteProviderRevocation ==
    ASSUME Basic, Revocation, NEW p \in Process, DeleteProvider(p)
    PROVE  Revocation'
  <1>1. Moves(p) /\ op[p].what = "delete" BY DeleteProviderMoves
  <1>2. UNCHANGED configs BY DEF DeleteProvider
  <1>3. Others(p) BY <1>1 DEF Moves
  <1>4. CASE op'[p] = Idle /\ UNCHANGED <<stored, wanted, revoked>>
    BY <1>2, <1>3, <1>4, RevocationIdle
  <1>5. CASE op'[p].at = "forget" /\ op'[p].what = "delete" /\ stored' = None /\ revoked' = FALSE
    <2>1. RevocationOf(p)' BY <1>5 DEF RevocationOf
    <2>2. RevokedStaysRevoked' BY <1>5 DEF RevokedStaysRevoked
    <2>3. ASSUME NEW q \in Process, q # p PROVE RevocationOf(q)'
      <3>1. op'[q] = op[q] /\ LocksOf(q) /\ LocksOf(p) BY <1>3, <2>3 DEF Others, Basic
      <3>2. op[q].what # "revoke" BY <1>1, <2>3, <3>1 DEF LocksOf, AuthOps
      <3>3. QED BY <1>5, <3>1, <3>2 DEF RevocationOf
    <2>4. QED BY <2>1, <2>2, <2>3 DEF Revocation
  <1>6. QED BY <1>4, <1>5, DeleteProviderMoves

LEMMA ForgetRevocation ==
    ASSUME Basic, Revocation, NEW p \in Process, Forget(p)
    PROVE  Revocation'
  <1>1. Others(p) /\ op'[p] = Idle BY ForgetMoves DEF Moves
  <1>2. configs' = None /\ UNCHANGED <<stored, revoked>> BY DEF Forget, historyVars
  <1>3. RevokedStaysRevoked' BY <1>2 DEF RevokedStaysRevoked, Revocation
  <1>4. RevocationOf(p)' BY <1>1 DEF RevocationOf, Idle
  <1>5. ASSUME NEW q \in Process, q # p PROVE RevocationOf(q)'
    <2>1. op'[q] = op[q] /\ RevocationOf(q) BY <1>1, <1>5 DEF Others, Revocation
    <2>2. QED BY <1>2, <2>1 DEF RevocationOf
  <1>6. QED BY <1>3, <1>4, <1>5 DEF Revocation

LEMMA CompareRevocation ==
    ASSUME Basic, Revocation, NEW p \in Process, Compare(p)
    PROVE  Revocation'
  <1>1. Others(p) BY CompareMoves DEF Moves
  <1>2. UNCHANGED <<stored, configs, revoked>> BY DEF Compare, configVars, historyVars
  <1>3. CASE op'[p] = Idle BY <1>1, <1>2, <1>3, RevocationIdle
  <1>4. CASE /\ op'[p].at = "store" /\ op'[p].what = "renewal"
             /\ configs # None /\ configs.doc = op[p].base.doc
             /\ op[p].base.doc.credentials # Revoked
    <2>1. ~revoked BY <1>4 DEF Revocation, RevokedStaysRevoked
    <2>2. revoked = FALSE BY <2>1 DEF Basic, RestTyped
    <2>3. RevocationOf(p)' BY <1>2, <1>4, <2>2 DEF RevocationOf
    <2>4. QED BY <1>1, <1>2, <2>3, RevocationKept
  <1>5. QED BY <1>3, <1>4, CompareMoves

LEMMA StepRevocation ==
    ASSUME Basic, Revocation, NEW p \in Process, Step(p)
    PROVE  Revocation'
  <1>1. Moves(p) BY StepMoves
  <1>2. Others(p) /\ Good(p, op'[p]) BY <1>1 DEF Moves
  <1>3. CASE LockCredentials(p)
    <2>1. UNCHANGED <<stored, configs, revoked>> BY <1>3 DEF LockCredentials, configVars, historyVars
    <2>2. op'[p].at = "read" BY <1>3, LockCredentialsMoves
    <2>3. QED BY <1>2, <2>1, <2>2, RevocationElsewhere
  <1>4. CASE RevokeCredentials(p)
    <2>1. UNCHANGED <<stored, configs, revoked>> BY <1>4 DEF RevokeCredentials, configVars, historyVars
    <2>2. op'[p] = Idle \/ (op'[p].at = "store" /\ op'[p].what = "revoke") BY <1>4, RevokeCredentialsMoves
    <2>3. RevocationOf(p)' BY <2>2 DEF RevocationOf, Idle
    <2>4. QED BY <1>2, <2>1, <2>3, RevocationKept
  <1>5. CASE SaveProvider(p) BY <1>5, SaveProviderRevocation
  <1>6. CASE Remember(p) BY <1>6, RememberRevocation
  <1>7. CASE Apply(p)
    <2>1. UNCHANGED <<stored, configs, revoked>> BY <1>7 DEF Apply
    <2>2. op'[p] = Idle \/ op'[p].at \in {"bind", "status"} BY <1>7, ApplyMoves
    <2>3. QED BY <1>2, <2>1, <2>2, RevocationElsewhere, RevocationIdle
  <1>8. CASE Bind(p)
    <2>1. UNCHANGED <<stored, configs, revoked>> BY <1>8 DEF Bind, configVars, historyVars
    <2>2. op'[p] = Idle BY <1>8, BindMoves
    <2>3. QED BY <1>2, <2>1, <2>2, RevocationIdle
  <1>9. CASE Remove(p)
    <2>1. UNCHANGED <<stored, configs, revoked>> BY <1>9 DEF Remove, configVars
    <2>2. op'[p] = Idle \/ op'[p].at = "erase" BY <1>9, RemoveMoves
    <2>3. QED BY <1>2, <2>1, <2>2, RevocationElsewhere, RevocationIdle
  <1>10. CASE DeleteProvider(p) BY <1>10, DeleteProviderRevocation
  <1>11. CASE Forget(p) BY <1>11, ForgetRevocation
  <1>12. CASE RetryApply(p)
    <2>1. UNCHANGED <<stored, configs, revoked>> BY <1>12 DEF RetryApply, configVars, historyVars
    <2>2. op'[p].at \in {"apply", "status"} BY <1>12, RetryApplyMoves
    <2>3. QED BY <1>2, <2>1, <2>2, RevocationElsewhere
  <1>13. CASE CredentialStatus(p)
    <2>1. UNCHANGED <<stored, configs, revoked>> BY <1>13 DEF CredentialStatus, configVars, historyVars
    <2>2. op'[p] = Idle \/ op'[p].at = "renew" BY <1>13, CredentialStatusMoves
    <2>3. QED BY <1>2, <2>1, <2>2, RevocationElsewhere, RevocationIdle
  <1>14. CASE RenewCredentials(p)
    <2>1. UNCHANGED <<stored, configs, revoked>> BY <1>14 DEF RenewCredentials, historyVars
    <2>2. op'[p] = Idle \/ op'[p].at = "compare" BY <1>14, RenewCredentialsMoves
    <2>3. QED BY <1>2, <2>1, <2>2, RevocationElsewhere, RevocationIdle
  <1>15. CASE Compare(p) BY <1>15, CompareRevocation
  <1>16. QED BY <1>3, <1>4, <1>5, <1>6, <1>7, <1>8, <1>9, <1>10, <1>11, <1>12, <1>13, <1>14, <1>15 DEF Step

LEMMA RevocationQuiet ==
    ASSUME Revocation, UNCHANGED <<op, stored, configs, revoked>>
    PROVE  Revocation'
  <1>1. \A q \in Process : RevocationOf(q)' BY DEF Revocation, RevocationOf
  <1>2. RevokedStaysRevoked' BY DEF Revocation, RevokedStaysRevoked
  <1>3. QED BY <1>1, <1>2 DEF Revocation

LEMMA RevocationNext == ASSUME Basic, Revocation, [Next]_vars PROVE Revocation'
  <1>1. ASSUME NEW p \in Process, Step(p) PROVE Revocation' BY <1>1, StepRevocation
  <1>2. CASE Call
    <2>1. PICK p \in Caller :
               op[p].what = "none" /\ (Save(p) \/ Delete(p) \/ RevokeXiaomiCredentials(p) \/ Restart(p))
      BY <1>2, CallBegins
    <2>2. CallRest BY <1>2, CallBegins
    <2>3. p \in Process BY DEF Process
    <2>4. UNCHANGED <<stored, configs, revoked>> BY <2>2 DEF CallRest, configVars
    <2>5. Begins(p) BY <2>1, <2>2, SaveBegins, DeleteBegins, RevokeBegins, RestartBegins
    <2>6. Others(p) BY <2>5 DEF Begins
    <2>7. \/ op'[p].at = "store" /\ op'[p].what = "save"
          \/ op'[p].what # "notice" /\ op'[p].at \notin {"store", "remember"}
      BY <2>1, <2>2, SaveBegins, DeleteBegins, RevokeBegins, RestartBegins
    <2>8. RevocationOf(p)' BY <2>7 DEF RevocationOf
    <2>9. QED BY <2>3, <2>4, <2>6, <2>8, RevocationKept
  <1>3. CASE RefreshDueCredentials(Maintenance)
    <2>1. Maintenance \in Process BY DEF Process
    <2>2. UNCHANGED <<stored, configs, revoked>> BY <1>3 DEF RefreshDueCredentials, configVars
    <2>3. Others(Maintenance) /\ Good(Maintenance, op'[Maintenance]) /\ op'[Maintenance].at = "retry"
      BY <1>3, RefreshBegins DEF Begins
    <2>4. QED BY <2>1, <2>2, <2>3, RevocationElsewhere
  <1>4. ASSUME NEW notice \in notices, PersistRuntimeConfigChange(Hook, notice) PROVE Revocation'
    <2>1. Hook \in Process BY DEF Process
    <2>2. UNCHANGED <<stored, configs, revoked>> BY <1>4 DEF PersistRuntimeConfigChange, configVars
    <2>3. CASE Fits(notice)
      <3>1. Begins(Hook) BY <1>4, <2>3, PersistBegins
      <3>2. Others(Hook) BY <3>1 DEF Begins
      <3>3. /\ op'[Hook].what = "notice" /\ op'[Hook].at = "store" /\ configs \in Config
            /\ op'[Hook].item.doc.credentials = configs.doc.credentials
        BY <1>4, <2>3, PersistBegins
      <3>4. revoked => configs.doc.credentials = Revoked
        BY <3>3, NoneAssumption DEF Revocation, RevokedStaysRevoked
      <3>5. RevocationOf(Hook)' BY <2>2, <3>3, <3>4 DEF RevocationOf
      <3>6. QED BY <2>1, <2>2, <3>2, <3>5, RevocationKept
    <2>4. CASE ~Fits(notice)
      <3>1. UNCHANGED op BY <1>4, <2>4, DropQuiet
      <3>2. QED BY <2>2, <3>1, RevocationQuiet
    <2>5. QED BY <2>3, <2>4
  <1>5. CASE Age
    <2>1. UNCHANGED <<op, stored, configs, revoked>> BY <1>5, AgeQuiet DEF configVars, historyVars
    <2>2. QED BY <2>1, RevocationQuiet
  <1>6. CASE Recover
    <2>1. UNCHANGED <<op, stored, configs, revoked>> BY <1>6, RecoverQuiet DEF configVars, historyVars
    <2>2. QED BY <2>1, RevocationQuiet
  <1>7. CASE UNCHANGED vars
    <2>1. UNCHANGED <<op, stored, configs, revoked>> BY <1>7, StutterQuiet DEF configVars, historyVars
    <2>2. QED BY <2>1, RevocationQuiet
  <1>8. QED BY <1>1, <1>2, <1>3, <1>4, <1>5, <1>6, <1>7 DEF Next
-----------------------------------------------------------------------------
LEMMA InitBasic == ASSUME Init PROVE Basic
  <1>1. \A p \in Process : op[p] = Idle BY DEF Init
  <1>2. Idle.what = "none" /\ Idle.at = "idle" BY DEF Idle
  <1>3. OpsGood
    <2>1. \A p \in Process : Good(p, op[p]) BY <1>1, IdleGood
    <2>2. op \in [Process -> Operation] BY <1>1, <2>1 DEF Init, Good
    <2>3. QED BY <2>1, <2>2 DEF OpsGood
  <1>4. stored \in Config \cup {None} BY DEF Init
  <1>5. RestTyped
    <2>1. active \in Running \cup {None}
      <3>1. CASE stored = None BY <3>1 DEF Init
      <3>2. CASE stored # None
        <4>1. stored.doc \in Document BY <1>4, <3>2 DEF Config
        <4>2. [doc |-> stored.doc, bound |-> TRUE, change |-> None] \in Running BY <4>1 DEF Running
        <4>3. QED BY <4>2 DEF Init
      <3>3. QED BY <3>1, <3>2
    <2>2. wanted \in [enabled: BOOLEAN, edit: Edit] \cup {None}
      BY <1>4 DEF Init, Wanted, Config, Document
    <2>3. issued \in 0 .. MaxIssued /\ aged \in 0 .. MaxIssued /\ calls \in 0 .. MaxCalls
          /\ failures \in 0 .. MaxFailures
      BY BoundsAssumption DEF Init
    <2>4. QED BY <1>4, <2>1, <2>2, <2>3 DEF Init, RestTyped
  <1>6. \A p \in Process : LocksOf(p) BY <1>1, <1>2 DEF LocksOf, AuthOps, RenewOps
  <1>7. Apart BY <1>1, <1>2 DEF Apart, RenewOps
  <1>8. Repairs
    <2>1. active # None => active.change = None BY DEF Init
    <2>2. QED BY <2>1 DEF Init, Repairs
  <1>9. QED BY <1>3, <1>5, <1>6, <1>7, <1>8 DEF Basic

LEMMA InitRevocation == ASSUME Init PROVE Revocation
  <1>1. revoked = FALSE /\ \A p \in Process : op[p] = Idle BY DEF Init
  <1>2. \A p \in Process : RevocationOf(p) BY <1>1 DEF RevocationOf, Idle
  <1>3. QED BY <1>1, <1>2 DEF Revocation, RevokedStaysRevoked

\* Types, mutexes and what the calls carry with them.
THEOREM BasicInvariant == Spec => []Basic
BY InitBasic, BasicNext, PTL DEF Spec

\* Credentials that were revoked stay revoked in the store and in memory until an
\* administrator supplies new ones, whatever renewals, repairs, restarts and failures overlap.
THEOREM Revocations == Spec => []RevokedStaysRevoked
  <1>1. Spec => []Revocation BY InitRevocation, BasicInvariant, RevocationNext, PTL DEF Spec
  <1>2. Revocation => RevokedStaysRevoked BY DEF Revocation
  <1>3. QED BY <1>1, <1>2, PTL
-----------------------------------------------------------------------------
(* Memory and store.                                                       *)

TruthOf(p) ==
    /\ op[p].at = "remember" => stored = op[p].item
    /\ op[p].at = "forget" => stored = None
    /\ op[p].at \in {"store", "remember", "retry", "status", "renew", "compare"} \/ op[p].what = "retry" =>
           configs = op[p].base

\* Unless a renewal has crossed an edit, memory is behind the store only between the two
\* writes of a call, and every call still has the configuration it began with.
Truth == ~crossed =>
    /\ Wanted(stored) = wanted
    /\ (\A p \in Process : op[p].at \notin {"remember", "forget"}) => configs = stored
    /\ \A p \in Process : TruthOf(p)

\* A call that holds what it needs to write.
Writing(r) == r.what \in EditOps \cup RenewOps \/ (r.what = "revoke" /\ r.at # "credential")

LEMMA OneWriter ==
    ASSUME Basic, ~crossed, NEW p \in Process, Writing(op[p]), NEW q \in Process, q # p
    PROVE  ~Writing(op[q])
  <1>1. LocksOf(p) /\ LocksOf(q) BY DEF Basic
  <1>2. ~(op[p].what \in RenewOps /\ op[q].what \in EditOps) /\ ~(op[q].what \in RenewOps /\ op[p].what \in EditOps)
    BY DEF Basic, Apart
  <1>3. QED BY <1>1, <1>2 DEF Writing, LocksOf, AuthOps, EditOps, RenewOps

LEMMA NotWriting ==
    ASSUME Basic, NEW q \in Process, ~Writing(op[q])
    PROVE  op[q].at \in {"idle", "credential"} \/ (op[q].what = "restart" /\ op[q].at \in {"apply", "bind"})
  <1>1. Good(q, op[q]) /\ op[q].what \in What BY Known
  <1>2. QED BY <1>1 DEF Writing, Good, InPlace, What, EditOps, RenewOps

\* What a writer knows, and what it has to establish.
LEMMA TruthReader ==
    ASSUME Basic, Truth, ~crossed, NEW p \in Process, Writing(op[p])
    PROVE  /\ Wanted(stored) = wanted /\ TruthOf(p)
           /\ op[p].at \notin {"remember", "forget"} => configs = stored
  <1>1. \A q \in Process \ {p} : op[q].at \notin {"remember", "forget"} BY OneWriter, NotWriting
  <1>2. QED BY <1>1 DEF Truth

LEMMA TruthWriter ==
    ASSUME Basic, NEW p \in Process, Writing(op[p]), Moves(p),
           ~crossed => /\ Wanted(stored') = wanted' /\ TruthOf(p)'
                       /\ op'[p].at \notin {"remember", "forget"} => configs' = stored'
    PROVE  Truth'
  <1> SUFFICES ASSUME ~crossed PROVE Truth' BY DEF Moves, Truth
  <1>1. ASSUME NEW q \in Process, q # p PROVE TruthOf(q)'
    <2>1. op'[q] = op[q] BY <1>1 DEF Moves, Others
    <2>2. op[q].at \in {"idle", "credential"} \/ (op[q].what = "restart" /\ op[q].at \in {"apply", "bind"})
      BY <1>1, OneWriter, NotWriting
    <2>3. Good(q, op[q]) BY Known
    <2>4. op[q].what # "retry" BY <2>2, <2>3 DEF Good, InPlace
    <2>5. QED BY <2>1, <2>2, <2>4 DEF TruthOf
  <1>2. QED BY <1>1 DEF Truth, Wanted

LEMMA TruthKept ==
    ASSUME Truth, NEW p \in Process, Others(p), UNCHANGED <<stored, configs, wanted>>, crossed => crossed',
           op[p].at \notin {"remember", "forget"}, ~crossed' => TruthOf(p)'
    PROVE  Truth'
  <1> SUFFICES ASSUME ~crossed' PROVE Truth' BY DEF Truth
  <1>1. ASSUME NEW q \in Process, q # p PROVE TruthOf(q)'
    <2>1. op'[q] = op[q] /\ TruthOf(q) BY <1>1 DEF Others, Truth
    <2>2. QED BY <2>1 DEF TruthOf
  <1>2. (\A q \in Process : op'[q].at \notin {"remember", "forget"}) => configs' = stored'
    BY DEF Truth, Others
  <1>3. QED BY <1>1, <1>2 DEF Truth, Wanted

LEMMA TruthQuiet ==
    ASSUME Truth, UNCHANGED <<op, stored, configs, wanted, crossed>>
    PROVE  Truth'
  <1>1. \A q \in Process : TruthOf(q)' <=> TruthOf(q) BY DEF TruthOf
  <1>2. QED BY <1>1 DEF Truth, Wanted

LEMMA SaveProviderTruth ==
    ASSUME Basic, Truth, NEW p \in Process, SaveProvider(p)
    PROVE  Truth'
  <1>1. Moves(p) /\ op[p].what \in {"save", "revoke", "renewal", "notice"} /\ op[p].item \in Config
    BY SaveProviderMoves
  <1>2. op[p].at = "store" /\ UNCHANGED configs BY DEF SaveProvider
  <1>3. Writing(op[p]) BY <1>1, <1>2 DEF Writing, EditOps, RenewOps
  <1>4. SUFFICES ASSUME ~crossed
                 PROVE  /\ Wanted(stored') = wanted' /\ TruthOf(p)'
                        /\ op'[p].at \notin {"remember", "forget"} => configs' = stored'
    BY <1>1, <1>3, TruthWriter
  <1>5. Wanted(stored) = wanted /\ TruthOf(p) /\ configs = stored BY <1>2, <1>3, <1>4, TruthReader
  <1>6. CASE op'[p] = Idle /\ UNCHANGED <<stored, wanted, revoked>>
    BY <1>2, <1>5, <1>6 DEF TruthOf, Idle
  <1>7. CASE /\ op'[p].at = "remember" /\ op'[p].what = op[p].what
             /\ op'[p].base = op[p].base /\ op'[p].item = op[p].item
             /\ stored' = op[p].item
             /\ wanted' = IF p \in Caller THEN Wanted(op[p].item) ELSE wanted
    <2>1. TruthOf(p)' BY <1>2, <1>5, <1>7 DEF TruthOf
    <2>2. configs = op[p].base BY <1>2, <1>5 DEF TruthOf
    <2>3. CASE p \in Caller BY <1>7, <2>1, <2>3
    <2>4. CASE p \notin Caller
      <3>1. Good(p, op[p]) BY Known
      <3>2. op[p].what \in {"renewal", "notice"} BY <1>1, <2>4, <3>1 DEF Good, Performs
      <3>3. /\ op[p].base \in Config /\ op[p].base.enabled = op[p].item.enabled
            /\ op[p].base.doc.edit = op[p].item.doc.edit
        BY <1>2, <3>1, <3>2 DEF Good, Carries, SameButAddress
      <3>4. Wanted(op[p].item) = Wanted(op[p].base)
        BY <1>1, <3>3, NoneAssumption DEF Wanted
      <3>5. QED BY <1>5, <1>7, <2>1, <2>2, <2>4, <3>4
    <2>5. QED BY <2>3, <2>4
  <1>8. QED BY <1>6, <1>7, SaveProviderMoves

LEMMA RememberTruth ==
    ASSUME Basic, Truth, NEW p \in Process, Remember(p)
    PROVE  Truth'
  <1>1. Moves(p) /\ op[p].what \in {"save", "revoke", "renewal", "notice"} /\ op[p].item \in Config
    BY RememberMoves
  <1>2. op[p].at = "remember" /\ UNCHANGED <<stored, wanted>> BY DEF Remember
  <1>3. Writing(op[p]) BY <1>1, <1>2 DEF Writing, EditOps, RenewOps
  <1>4. SUFFICES ASSUME ~crossed
                 PROVE  /\ Wanted(stored') = wanted' /\ TruthOf(p)'
                        /\ op'[p].at \notin {"remember", "forget"} => configs' = stored'
    BY <1>1, <1>3, TruthWriter
  <1>5. Wanted(stored) = wanted /\ stored = op[p].item /\ configs = op[p].base
    BY <1>2, <1>3, <1>4, TruthReader DEF TruthOf
  <1>6. op[p].what = "notice" => op[p].base \in Config BY <1>2, Known DEF Good, Carries
  <1>7. configs' = op[p].item BY <1>5, <1>6, RememberMoves, NoneAssumption
  <1>8. op'[p] = Idle \/ (op'[p].at \in {"apply", "remove"} /\ op'[p].what = op[p].what) BY RememberMoves
  <1>9. TruthOf(p)' BY <1>1, <1>8 DEF TruthOf, Idle
  <1>10. QED BY <1>2, <1>5, <1>7, <1>9

LEMMA DeleteProviderTruth ==
    ASSUME Basic, Truth, NEW p \in Process, DeleteProvider(p)
    PROVE  Truth'
  <1>1. Moves(p) /\ op[p].what = "delete" BY DeleteProviderMoves
  <1>2. op[p].at = "erase" /\ UNCHANGED configs BY DEF DeleteProvider
  <1>3. Writing(op[p]) BY <1>1 DEF Writing, EditOps
  <1>4. SUFFICES ASSUME ~crossed
                 PROVE  /\ Wanted(stored') = wanted' /\ TruthOf(p)'
                        /\ op'[p].at \notin {"remember", "forget"} => configs' = stored'
    BY <1>1, <1>3, TruthWriter
  <1>5. Wanted(stored) = wanted /\ configs = stored BY <1>2, <1>3, <1>4, TruthReader
  <1>6. CASE op'[p] = Idle /\ UNCHANGED <<stored, wanted, revoked>>
    BY <1>2, <1>5, <1>6 DEF TruthOf, Idle
  <1>7. CASE op'[p].at = "forget" /\ op'[p].what = "delete" /\ stored' = None /\ wanted' = None
    BY <1>7 DEF TruthOf, Wanted
  <1>8. QED BY <1>6, <1>7, DeleteProviderMoves

LEMMA ForgetTruth ==
    ASSUME Basic, Truth, NEW p \in Process, Forget(p)
    PROVE  Truth'
  <1>1. Moves(p) /\ op[p].what = "delete" /\ op'[p] = Idle BY ForgetMoves
  <1>2. op[p].at = "forget" /\ configs' = None /\ UNCHANGED <<stored, wanted>> BY DEF Forget, historyVars
  <1>3. Writing(op[p]) BY <1>1 DEF Writing, EditOps
  <1>4. SUFFICES ASSUME ~crossed
                 PROVE  /\ Wanted(stored') = wanted' /\ TruthOf(p)'
                        /\ op'[p].at \notin {"remember", "forget"} => configs' = stored'
    BY <1>1, <1>3, TruthWriter
  <1>5. Wanted(stored) = wanted /\ stored = None BY <1>2, <1>3, <1>4, TruthReader DEF TruthOf
  <1>6. QED BY <1>1, <1>2, <1>5 DEF TruthOf, Idle

\* The other steps write neither to the store nor to memory.
LEMMA StepTruth ==
    ASSUME Basic, Truth, NEW p \in Process, Step(p)
    PROVE  Truth'
  <1>1. Moves(p) BY StepMoves
  <1>2. Others(p) /\ (crossed => crossed') /\ (~crossed' => ~crossed) BY <1>1 DEF Moves
  <1>3. ~crossed => TruthOf(p) BY DEF Truth
  <1>4. Idle.at = "idle" /\ Idle.what = "none" BY DEF Idle
  <1>5. CASE LockCredentials(p)
    <2>1. UNCHANGED <<stored, configs, wanted>> /\ op[p].at = "credential"
      BY <1>5 DEF LockCredentials, configVars, historyVars
    <2>2. TruthOf(p)' BY <1>5, LockCredentialsMoves DEF TruthOf
    <2>3. QED BY <1>2, <2>1, <2>2, TruthKept
  <1>6. CASE RevokeCredentials(p)
    <2>1. UNCHANGED <<stored, configs, wanted>> /\ op[p].at = "read"
      BY <1>6 DEF RevokeCredentials, configVars, historyVars
    <2>2. op'[p] = Idle \/ (op'[p].at = "store" /\ op'[p].what = "revoke" /\ op'[p].base = configs)
      BY <1>6, RevokeCredentialsMoves
    <2>3. TruthOf(p)' BY <1>4, <2>1, <2>2 DEF TruthOf
    <2>4. QED BY <1>2, <2>1, <2>3, TruthKept
  <1>7. CASE SaveProvider(p) BY <1>7, SaveProviderTruth
  <1>8. CASE Remember(p) BY <1>8, RememberTruth
  <1>9. CASE Apply(p)
    <2>1. UNCHANGED <<stored, configs, wanted>> /\ op[p].at = "apply" BY <1>9 DEF Apply
    <2>2. \/ op'[p] = Idle
          \/ op'[p].at = "bind" /\ op'[p].what # "retry"
          \/ op'[p].at = "status" /\ op'[p].base = op[p].base /\ op[p].what = "retry"
      <3>1. Good(p, op'[p]) BY <1>1 DEF Moves
      <3>2. op'[p].at = "bind" => op'[p].what # "retry" BY <3>1 DEF Good, InPlace
      <3>3. QED BY <1>9, <3>2, ApplyMoves
    <2>3. ~crossed' => TruthOf(p)' BY <1>2, <1>3, <1>4, <2>1, <2>2 DEF TruthOf
    <2>4. QED BY <1>2, <2>1, <2>3, TruthKept
  <1>10. CASE Bind(p)
    <2>1. UNCHANGED <<stored, configs, wanted>> /\ op[p].at = "bind" BY <1>10 DEF Bind, configVars, historyVars
    <2>2. TruthOf(p)' BY <1>4, <1>10, BindMoves DEF TruthOf
    <2>3. QED BY <1>2, <2>1, <2>2, TruthKept
  <1>11. CASE Remove(p)
    <2>1. UNCHANGED <<stored, configs, wanted>> /\ op[p].at = "remove" BY <1>11 DEF Remove, configVars
    <2>2. op'[p] = Idle \/ (op'[p].at = "erase" /\ op'[p].what = "delete") BY <1>11, RemoveMoves
    <2>3. TruthOf(p)' BY <1>4, <2>2 DEF TruthOf
    <2>4. QED BY <1>2, <2>1, <2>3, TruthKept
  <1>12. CASE DeleteProvider(p) BY <1>12, DeleteProviderTruth
  <1>13. CASE Forget(p) BY <1>13, ForgetTruth
  <1>14. CASE RetryApply(p)
    <2>1. UNCHANGED <<stored, configs, wanted>> /\ op[p].at = "retry"
      BY <1>14 DEF RetryApply, configVars, historyVars
    <2>2. op'[p].at \in {"apply", "status"} /\ op'[p].base = op[p].base BY <1>14, RetryApplyMoves
    <2>3. ~crossed' => TruthOf(p)' BY <1>2, <1>3, <2>1, <2>2 DEF TruthOf
    <2>4. QED BY <1>2, <2>1, <2>3, TruthKept
  <1>15. CASE CredentialStatus(p)
    <2>1. UNCHANGED <<stored, configs, wanted>> /\ op[p].at = "status"
      BY <1>15 DEF CredentialStatus, configVars, historyVars
    <2>2. op'[p] = Idle \/ (op'[p].at = "renew" /\ op'[p].base = op[p].base)
      BY <1>15, CredentialStatusMoves
    <2>3. ~crossed' => TruthOf(p)' BY <1>2, <1>3, <1>4, <2>1, <2>2 DEF TruthOf
    <2>4. QED BY <1>2, <2>1, <2>3, TruthKept
  <1>16. CASE RenewCredentials(p)
    <2>1. UNCHANGED <<stored, configs, wanted>> /\ op[p].at = "renew"
      BY <1>16 DEF RenewCredentials, historyVars
    <2>2. op'[p] = Idle \/ (op'[p].at = "compare" /\ op'[p].base = op[p].base)
      BY <1>16, RenewCredentialsMoves
    <2>3. ~crossed' => TruthOf(p)' BY <1>2, <1>3, <1>4, <2>1, <2>2 DEF TruthOf
    <2>4. QED BY <1>2, <2>1, <2>3, TruthKept
  <1>17. CASE Compare(p)
    <2>1. UNCHANGED <<stored, configs, wanted>> /\ op[p].at = "compare"
      BY <1>17 DEF Compare, configVars, historyVars
    <2>2. op'[p] = Idle \/ (op'[p].at = "store" /\ op'[p].base = op[p].base) BY <1>17, CompareMoves
    <2>3. ~crossed' => TruthOf(p)' BY <1>2, <1>3, <1>4, <2>1, <2>2 DEF TruthOf
    <2>4. QED BY <1>2, <2>1, <2>3, TruthKept
  <1>18. QED
    BY <1>5, <1>6, <1>7, <1>8, <1>9, <1>10, <1>11, <1>12, <1>13, <1>14, <1>15, <1>16, <1>17 DEF Step

\* A call that begins finds the configuration in memory as it is.
LEMMA TruthBegins ==
    ASSUME Basic, Truth, NEW p \in Process, Begins(p), UNCHANGED <<stored, configs, wanted>>,
           op'[p].at \notin {"remember", "forget"}, op'[p].what # "retry",
           op'[p].at \in {"store", "retry", "status", "renew", "compare"} => op'[p].base = configs
    PROVE  Truth'
  <1>1. Others(p) /\ op[p].what = "none" /\ (crossed => crossed') BY DEF Begins
  <1>2. op[p].at = "idle" BY <1>1, Known
  <1>3. TruthOf(p)' BY DEF TruthOf
  <1>4. QED BY <1>1, <1>2, <1>3, TruthKept

LEMMA TruthNext == ASSUME Basic, Truth, [Next]_vars PROVE Truth'
  <1>1. ASSUME NEW p \in Process, Step(p) PROVE Truth' BY <1>1, StepTruth
  <1>2. CASE Call
    <2>1. PICK p \in Caller :
               op[p].what = "none" /\ (Save(p) \/ Delete(p) \/ RevokeXiaomiCredentials(p) \/ Restart(p))
      BY <1>2, CallBegins
    <2>2. CallRest BY <1>2, CallBegins
    <2>3. p \in Process BY DEF Process
    <2>4. UNCHANGED <<stored, configs, wanted>> BY <2>2 DEF CallRest, configVars
    <2>5. Begins(p) BY <2>1, <2>2, SaveBegins, DeleteBegins, RevokeBegins, RestartBegins
    <2>6. \/ op'[p].at = "store" /\ op'[p].what = "save" /\ op'[p].base = configs
          \/ op'[p].what # "retry" /\ op'[p].at \in {"remove", "erase", "credential", "apply"}
      BY <2>1, <2>2, SaveBegins, DeleteBegins, RevokeBegins, RestartBegins
    <2>7. QED BY <2>3, <2>4, <2>5, <2>6, TruthBegins
  <1>3. CASE RefreshDueCredentials(Maintenance)
    <2>1. Maintenance \in Process BY DEF Process
    <2>2. UNCHANGED <<stored, configs, wanted>> BY <1>3 DEF RefreshDueCredentials, configVars
    <2>3. QED BY <1>3, <2>1, <2>2, RefreshBegins, TruthBegins
  <1>4. ASSUME NEW notice \in notices, PersistRuntimeConfigChange(Hook, notice) PROVE Truth'
    <2>1. Hook \in Process BY DEF Process
    <2>2. UNCHANGED <<stored, configs, wanted>> BY <1>4 DEF PersistRuntimeConfigChange, configVars
    <2>3. CASE Fits(notice) BY <1>4, <2>1, <2>2, <2>3, PersistBegins, TruthBegins
    <2>4. CASE ~Fits(notice)
      <3>1. UNCHANGED <<op, crossed>> BY <1>4, <2>4, DropQuiet
      <3>2. QED BY <2>2, <3>1, TruthQuiet
    <2>5. QED BY <2>3, <2>4
  <1>5. CASE Age
    <2>1. UNCHANGED <<op, stored, configs, wanted, crossed>> BY <1>5, AgeQuiet DEF configVars, historyVars
    <2>2. QED BY <2>1, TruthQuiet
  <1>6. CASE Recover
    <2>1. UNCHANGED <<op, stored, configs, wanted, crossed>> BY <1>6, RecoverQuiet DEF configVars, historyVars
    <2>2. QED BY <2>1, TruthQuiet
  <1>7. CASE UNCHANGED vars
    <2>1. UNCHANGED <<op, stored, configs, wanted, crossed>> BY <1>7, StutterQuiet DEF configVars, historyVars
    <2>2. QED BY <2>1, TruthQuiet
  <1>8. QED BY <1>1, <1>2, <1>3, <1>4, <1>5, <1>6, <1>7 DEF Next

LEMMA InitTruth == ASSUME Init PROVE Truth
  <1>1. \A p \in Process : op[p] = Idle BY DEF Init
  <1>2. \A p \in Process : TruthOf(p) BY <1>1 DEF TruthOf, Idle
  <1>3. QED BY <1>2 DEF Init, Truth

\* Memory is behind the store only between the two writes of one call.
THEOREM TruthInvariant == Spec => []Truth
BY InitTruth, BasicInvariant, TruthNext, PTL DEF Spec

\* Between calls memory and store agree and hold the last edit of an administrator, unless
\* a renewal was under way together with an edit or a repair.
THEOREM Configurations == Spec => []ConfigsAreTrue
  <1>1. Basic /\ Truth => ConfigsAreTrue
    <2> SUFFICES ASSUME Basic, Truth PROVE ConfigsAreTrue OBVIOUS
    <2>1. TypeOK BY Typed DEF Basic
    <2>2. ASSUME Quiet, ~crossed PROVE configs = stored /\ Wanted(stored) = wanted
      <3>1. \A p \in Process : op[p].at = "idle" BY <2>2 DEF Quiet, Active
      <3>2. QED BY <2>2, <3>1 DEF Truth
    <2>3. QED BY <2>1, <2>2 DEF ConfigsAreTrue
  <1>2. QED BY <1>1, BasicInvariant, TruthInvariant, PTL
-----------------------------------------------------------------------------
(* The runtime.                                                            *)

RuntimeOf(p) ==
    /\ op[p].at = "apply" => configs = op[p].item
    /\ op[p].at \in {"erase", "forget"} => active = None

\* The document that is about to be in memory.
Target == IF op[Hook].what = "notice" THEN op[Hook].item.doc ELSE configs.doc

\* The instance has the document, or has made a change to it that waits to be reported or
\* to be persisted.
Shown ==
    /\ active # None
    /\ \/ active.doc = Target
       \/ \E n \in notices : n.doc = active.doc
       \/ active.change # None /\ active.change.doc = active.doc

Stops == configs = None \/ ~configs.enabled => active = None \/ \E p \in Process : op[p].at = "remove"
Runs == configs # None /\ configs.enabled /\ ~behind /\ (\A p \in Process : op[p].at # "apply") => Shown

\* Unless calls have crossed, what is applied is what is in memory, and a provider that
\* memory does not want is stopped or about to be.
Runtime == ~crossed /\ ~restarted => Stops /\ Runs /\ \A p \in Process : RuntimeOf(p)

\* Calls that work at the same time are restarts.
LEMMA Alone ==
    ASSUME Basic, ~crossed, ~restarted, NEW p \in Process, Writing(op[p]) \/ op[p].what = "restart",
           NEW q \in Process, q # p
    PROVE  /\ op[q].what # "notice"
           /\ \/ op[q].at \in {"idle", "credential"}
              \/ op[p].what = "restart" /\ op[q].at \in {"apply", "bind"}
  <1>1. /\ op[p].what = "restart" => op[q].what \notin AuthOps \cup RenewOps
        /\ op[q].what = "restart" => op[p].what \notin AuthOps \cup RenewOps
    BY DEF Basic, Apart
  <1>2. Writing(op[p]) => ~Writing(op[q]) BY OneWriter
  <1>3. ~Writing(op[q]) BY <1>1, <1>2 DEF Writing, AuthOps, EditOps, RenewOps
  <1>4. op[q].at \in {"idle", "credential"} \/ (op[q].what = "restart" /\ op[q].at \in {"apply", "bind"})
    BY <1>3, NotWriting
  <1>5. op[p].what # "restart" => op[p].what \in AuthOps \cup RenewOps
    BY DEF Writing, AuthOps, EditOps, RenewOps
  <1>6. op[q].what # "notice" BY <1>3 DEF Writing, EditOps
  <1>7. QED BY <1>1, <1>4, <1>5, <1>6

LEMMA TargetKept ==
    ASSUME NEW p \in Process, Others(p), UNCHANGED configs, p # Hook
    PROVE  Target' = Target
  <1>1. Hook \in Process BY DEF Process
  <1>2. op'[Hook] = op[Hook] BY <1>1 DEF Others
  <1>3. QED BY <1>2 DEF Target

\* A step that neither writes memory nor changes the instance.
Aside(p) ==
    /\ Others(p) /\ UNCHANGED <<configs, active, notices>>
    /\ crossed => crossed'
    /\ restarted => restarted'
    /\ behind => behind'
    /\ op[p].at \notin {"apply", "remove"}

LEMMA RuntimeKept ==
    ASSUME Runtime, NEW p \in Process, Aside(p), ~behind' => Target' = Target,
           ~crossed' /\ ~restarted' => RuntimeOf(p)'
    PROVE  Runtime'
  <1> SUFFICES ASSUME ~crossed', ~restarted' PROVE Runtime' BY DEF Runtime
  <1>1. ~crossed /\ ~restarted BY DEF Aside
  <1>2. \A q \in Process : q = p \/ op'[q] = op[q] BY DEF Aside, Others
  <1>3. \A q \in Process : RuntimeOf(q)' BY <1>1, <1>2 DEF Runtime, RuntimeOf, Aside
  <1>4. Stops' BY <1>1, <1>2 DEF Runtime, Stops, Aside
  <1>5. Runs'
    <2>1. SUFFICES ASSUME configs' # None, configs'.enabled, ~behind', \A q \in Process : op'[q].at # "apply"
                   PROVE  Shown'
      BY DEF Runs
    <2>2. \A q \in Process : op[q].at # "apply" BY <1>2, <2>1 DEF Aside
    <2>3. Shown BY <1>1, <2>1, <2>2 DEF Runtime, Runs, Aside
    <2>4. QED BY <2>1, <2>3 DEF Shown, Aside
  <1>6. QED BY <1>3, <1>4, <1>5 DEF Runtime

LEMMA RuntimeBegins ==
    ASSUME Basic, Runtime, NEW p \in Process, Begins(p), p # Hook, UNCHANGED <<configs, active, notices, behind>>,
           ~crossed' /\ ~restarted' => RuntimeOf(p)'
    PROVE  Runtime'
  <1>1. op[p].at = "idle" BY Known DEF Begins
  <1>2. Aside(p) BY <1>1 DEF Aside, Begins
  <1>3. Target' = Target BY TargetKept DEF Begins
  <1>4. QED BY <1>2, <1>3, RuntimeKept

LEMMA RememberRuntime ==
    ASSUME Basic, Truth, Runtime, NEW p \in Process, Remember(p)
    PROVE  Runtime'
  <1>1. /\ Moves(p) /\ op[p].what \in {"save", "revoke", "renewal", "notice"} /\ op[p].item \in Config
    BY RememberMoves
  <1>2. op[p].at = "remember" /\ UNCHANGED <<active, notices, behind>> BY DEF Remember
  <1> SUFFICES ASSUME ~crossed, ~restarted PROVE Stops' /\ Runs' /\ \A q \in Process : RuntimeOf(q)'
    BY <1>1 DEF Moves, Runtime
  <1>3. Writing(op[p]) /\ op[p].what # "restart" BY <1>1, <1>2 DEF Writing, EditOps, RenewOps
  <1>4. \A q \in Process \ {p} : op'[q] = op[q] /\ op[q].at \in {"idle", "credential"} /\ op[q].what # "notice"
    BY <1>1, <1>3, Alone DEF Moves, Others
  <1>5. configs = op[p].base BY <1>2, <1>3, TruthReader DEF TruthOf
  <1>6. op[p].what = "notice" =>
            op[p].base \in Config /\ op[p].item.enabled = op[p].base.enabled
    BY <1>2, Known DEF Good, Carries
  <1>7. configs' = op[p].item BY <1>5, <1>6, RememberMoves, NoneAssumption
  <1>8. configs' # None /\ op[p].item.enabled \in BOOLEAN BY <1>1, <1>7, NoneAssumption DEF Config
  <1>9. /\ (configs = None \/ ~configs.enabled => active = None)
        /\ (configs # None /\ configs.enabled /\ ~behind => Shown)
    BY <1>2, <1>4 DEF Runtime, Stops, Runs
  <1>10. Idle.at = "idle" /\ Idle.what = "none" BY DEF Idle
  <1>11. CASE op[p].what = "notice"
    <2>1. op'[p] = Idle BY <1>11, RememberMoves
    <2>2. \A q \in Process : RuntimeOf(q)' BY <1>4, <1>10, <2>1 DEF RuntimeOf
    <2>3. Stops' BY <1>2, <1>5, <1>6, <1>7, <1>8, <1>9, <1>11 DEF Stops
    <2>4. p = Hook BY <1>11, Known DEF Good, Performs
    <2>5. Target' = Target BY <1>7, <1>10, <1>11, <2>1, <2>4 DEF Target
    <2>6. configs # None BY <1>5, <1>6, <1>11, NoneAssumption
    <2>7. Runs' BY <1>2, <1>5, <1>6, <1>7, <1>9, <1>11, <2>5, <2>6 DEF Runs, Shown
    <2>8. QED BY <2>2, <2>3, <2>7
  <1>12. CASE op[p].what # "notice"
    <2>1. \/ op'[p] = Idle /\ op[p].item.enabled = FALSE /\ (op[p].base # None => op[p].base.enabled = FALSE)
          \/ op'[p].at = "apply" /\ op'[p].item = op[p].item /\ op[p].item.enabled = TRUE
          \/ op'[p].at = "remove" /\ op[p].item.enabled = FALSE
      BY <1>12, RememberMoves
    <2>2. RuntimeOf(p)' BY <1>7, <1>10, <2>1 DEF RuntimeOf
    <2>3. \A q \in Process : RuntimeOf(q)' BY <1>4, <2>2 DEF RuntimeOf
    <2>4. Stops' BY <1>2, <1>5, <1>7, <1>8, <1>9, <2>1 DEF Stops
    <2>5. Runs' BY <1>7, <2>1 DEF Runs
    <2>6. QED BY <2>3, <2>4, <2>5
  <1>13. QED BY <1>11, <1>12

LEMMA ApplyRuntime ==
    ASSUME Basic, Runtime, NEW p \in Process, Apply(p)
    PROVE  Runtime'
  <1>1. /\ Moves(p) /\ op[p].what \in {"save", "restart", "renewal", "retry"}
        /\ op[p].item \in Config /\ op[p].item.enabled = TRUE
    BY ApplyMoves
  <1>2. op[p].at = "apply" /\ UNCHANGED <<configs, notices>> BY DEF Apply
  <1> SUFFICES ASSUME ~crossed, ~restarted PROVE Stops' /\ Runs' /\ \A q \in Process : RuntimeOf(q)'
    BY <1>1 DEF Moves, Runtime
  <1>3. Writing(op[p]) \/ op[p].what = "restart" BY <1>1 DEF Writing, EditOps, RenewOps
  <1>4. \A q \in Process \ {p} :
            op'[q] = op[q] /\ op[q].at \notin {"erase", "forget"} /\ op[q].what # "notice"
    BY <1>1, <1>3, Alone DEF Moves, Others
  <1>5. configs = op[p].item BY <1>2 DEF Runtime, RuntimeOf
  <1>6. op'[p].at \in {"idle", "bind", "status"}
    <2>1. Idle.at = "idle" BY DEF Idle
    <2>2. QED BY <2>1, ApplyMoves
  <1>7. \A q \in Process : RuntimeOf(q)' BY <1>2, <1>4, <1>6 DEF Runtime, RuntimeOf
  <1>8. configs' # None /\ configs'.enabled BY <1>1, <1>2, <1>5, NoneAssumption
  <1>9. Stops' BY <1>8 DEF Stops
  <1>10. Runs'
    <2>1. behind' \/ (active' # None /\ active'.doc = op[p].item.doc) BY ApplyMoves
    <2>2. Hook \in Process BY DEF Process
    <2>3. op'[p].what # "notice" BY <1>1 DEF Moves, RenewOps
    <2>4. Target' = configs'.doc BY <1>4, <2>2, <2>3 DEF Target
    <2>5. QED BY <1>2, <1>5, <2>1, <2>4 DEF Runs, Shown
  <1>11. QED BY <1>7, <1>9, <1>10

LEMMA BindRuntime ==
    ASSUME Basic, Runtime, NEW p \in Process, Bind(p)
    PROVE  Runtime'
  <1>1. Moves(p) /\ op'[p] = Idle BY BindMoves
  <1>2. op[p].at = "bind" /\ UNCHANGED <<configs, behind>> BY DEF Bind, configVars, historyVars
  <1>3. p # Hook
    <2>1. op[p].what # "notice" /\ op[p].what # "none" /\ op[p].what \in What BY <1>2, Known DEF Good, InPlace
    <2>2. QED BY <2>1, Known, ProcessAssumption DEF Good, Performs, What, RenewOps
  <1>4. Target' = Target BY <1>1, <1>2, <1>3, TargetKept DEF Moves
  <1>5. op'[p].at = "idle" BY <1>1 DEF Idle
  <1>6. RuntimeOf(p)' BY <1>5 DEF RuntimeOf
  <1>7. CASE active = None /\ UNCHANGED <<active, notices>>
    <2>1. Aside(p) BY <1>1, <1>2, <1>7 DEF Aside, Moves
    <2>2. QED BY <1>4, <1>6, <2>1, RuntimeKept
  <1>8. CASE /\ active # None /\ active' # None /\ active'.doc = active.doc /\ active'.change = None
             /\ notices' = IF active.change = None THEN notices ELSE notices \cup {active.change}
    <2> SUFFICES ASSUME ~crossed, ~restarted PROVE Stops' /\ Runs' /\ \A q \in Process : RuntimeOf(q)'
      BY <1>1 DEF Moves, Runtime
    <2>1. \A q \in Process : q = p \/ op'[q] = op[q] BY <1>1 DEF Moves, Others
    <2>2. \A q \in Process : RuntimeOf(q)' BY <1>2, <1>6, <1>8, <2>1 DEF Runtime, RuntimeOf
    <2>3. Stops' BY <1>2, <1>8, <2>1 DEF Runtime, Stops
    <2>4. Runs'
      <3>1. SUFFICES ASSUME configs' # None, configs'.enabled, ~behind', \A q \in Process : op'[q].at # "apply"
                     PROVE  Shown'
        BY DEF Runs
      <3>2. \A q \in Process : op[q].at # "apply" BY <1>2, <2>1, <3>1
      <3>3. Shown BY <1>2, <3>1, <3>2 DEF Runtime, Runs
      <3>4. QED BY <1>4, <1>8, <3>3 DEF Shown
    <2>5. QED BY <2>2, <2>3, <2>4
  <1>9. QED BY <1>7, <1>8, BindMoves

LEMMA RemoveRuntime ==
    ASSUME Basic, Runtime, NEW p \in Process, Remove(p)
    PROVE  Runtime'
  <1>1. Moves(p) /\ active' = None /\ behind' = TRUE BY RemoveMoves
  <1>2. UNCHANGED configs BY DEF Remove, configVars
  <1> SUFFICES ASSUME ~crossed, ~restarted PROVE Stops' /\ Runs' /\ \A q \in Process : RuntimeOf(q)'
    BY <1>1 DEF Moves, Runtime
  <1>3. \A q \in Process : q = p \/ op'[q] = op[q] BY <1>1 DEF Moves, Others
  <1>4. op'[p].at \in {"idle", "erase"}
    <2>1. Idle.at = "idle" BY DEF Idle
    <2>2. QED BY <2>1, RemoveMoves
  <1>5. \A q \in Process : RuntimeOf(q)' BY <1>1, <1>2, <1>3, <1>4 DEF Runtime, RuntimeOf
  <1>6. QED BY <1>1, <1>5 DEF Stops, Runs

LEMMA ForgetRuntime ==
    ASSUME Basic, Runtime, NEW p \in Process, Forget(p)
    PROVE  Runtime'
  <1>1. Moves(p) /\ op[p].what = "delete" /\ op'[p] = Idle BY ForgetMoves
  <1>2. op[p].at = "forget" /\ configs' = None /\ UNCHANGED active BY DEF Forget
  <1> SUFFICES ASSUME ~crossed, ~restarted PROVE Stops' /\ Runs' /\ \A q \in Process : RuntimeOf(q)'
    BY <1>1 DEF Moves, Runtime
  <1>3. active = None BY <1>2 DEF Runtime, RuntimeOf
  <1>4. Writing(op[p]) BY <1>1 DEF Writing, EditOps
  <1>5. \A q \in Process \ {p} : op'[q] = op[q] /\ op[q].at \in {"idle", "credential"}
    BY <1>1, <1>4, Alone DEF Moves, Others
  <1>6. op'[p].at = "idle" BY <1>1 DEF Idle
  <1>7. \A q \in Process : RuntimeOf(q)' BY <1>5, <1>6 DEF RuntimeOf
  <1>8. QED BY <1>2, <1>3, <1>7 DEF Stops, Runs

\* The other steps neither write memory nor change the instance.
LEMMA StepRuntime ==
    ASSUME Basic, Truth, Runtime, NEW p \in Process, Step(p)
    PROVE  Runtime'
  <1>1. Moves(p) BY StepMoves
  <1>2. Idle.at = "idle" /\ Idle.what = "none" BY DEF Idle
  <1>3. Others(p) /\ UNCHANGED <<crossed, restarted>> BY <1>1 DEF Moves
  <1>4. ~crossed /\ ~restarted => RuntimeOf(p) BY DEF Runtime
  <1>5. ASSUME op[p].what # "notice", op[p].what # "none" PROVE p # Hook
    <2>1. op[p].what \in What BY Known
    <2>2. QED BY <1>5, <2>1, Known, ProcessAssumption DEF Good, Performs, What, RenewOps
  <1>6. op[p].at # "idle" => op[p].what # "none" BY Known
  <1>7. ASSUME op[p].at \notin {"apply", "remove", "idle"}, op[p].what # "notice",
               UNCHANGED <<configs, active, notices, behind>>, ~crossed /\ ~restarted => RuntimeOf(p)'
        PROVE  Runtime'
    <2>1. Aside(p) BY <1>3, <1>7 DEF Aside
    <2>2. Target' = Target BY <1>3, <1>5, <1>6, <1>7, TargetKept
    <2>3. QED BY <1>3, <1>7, <2>1, <2>2, RuntimeKept
  <1>8. CASE LockCredentials(p)
    <2>1. op[p].at = "credential" /\ UNCHANGED <<configs, active, notices, behind>>
      BY <1>8 DEF LockCredentials, configVars, historyVars
    <2>2. op[p].what # "notice" BY <2>1, Known DEF Good, InPlace
    <2>3. RuntimeOf(p)' BY <1>8, LockCredentialsMoves DEF RuntimeOf
    <2>4. QED BY <1>7, <2>1, <2>2, <2>3
  <1>9. CASE RevokeCredentials(p)
    <2>1. op[p].at = "read" /\ UNCHANGED <<configs, active, notices, behind>>
      BY <1>9 DEF RevokeCredentials, configVars, historyVars
    <2>2. op[p].what # "notice" BY <2>1, Known DEF Good, InPlace
    <2>3. RuntimeOf(p)' BY <1>2, <1>9, RevokeCredentialsMoves DEF RuntimeOf
    <2>4. QED BY <1>7, <2>1, <2>2, <2>3
  <1>10. CASE SaveProvider(p)
    <2>1. op[p].at = "store" /\ UNCHANGED <<configs, active, notices>> BY <1>10 DEF SaveProvider
    <2>2. \/ op'[p] = Idle /\ behind' = (behind \/ op[p].what = "notice")
          \/ /\ op'[p].at = "remember" /\ op'[p].what = op[p].what /\ op'[p].item = op[p].item
             /\ UNCHANGED behind
      BY <1>10, SaveProviderMoves
    <2>3. Aside(p)
      <3>1. behind => behind' BY <2>2
      <3>2. QED BY <1>3, <2>1, <3>1 DEF Aside
    <2>4. RuntimeOf(p)' BY <1>2, <2>2 DEF RuntimeOf
    <2>5. ASSUME ~behind' PROVE Target' = Target
      <3>1. CASE op[p].what # "notice" BY <1>3, <1>5, <1>6, <2>1, <3>1, TargetKept
      <3>2. CASE op[p].what = "notice"
        <4>1. op'[p].what = op[p].what /\ op'[p].item = op[p].item BY <2>2, <2>5, <3>2
        <4>2. p = Hook BY <3>2, Known DEF Good, Performs
        <4>3. QED BY <2>1, <4>1, <4>2 DEF Target
      <3>3. QED BY <3>1, <3>2
    <2>6. QED BY <2>3, <2>4, <2>5, RuntimeKept
  <1>11. CASE Remember(p) BY <1>11, RememberRuntime
  <1>12. CASE Apply(p) BY <1>12, ApplyRuntime
  <1>13. CASE Bind(p) BY <1>13, BindRuntime
  <1>14. CASE Remove(p) BY <1>14, RemoveRuntime
  <1>15. CASE DeleteProvider(p)
    <2>1. op[p].at = "erase" /\ UNCHANGED <<configs, active, notices, behind>> BY <1>15 DEF DeleteProvider
    <2>2. op[p].what = "delete" /\ (op'[p] = Idle \/ op'[p].at = "forget") BY <1>15, DeleteProviderMoves
    <2>3. ~crossed /\ ~restarted => RuntimeOf(p)' BY <1>2, <1>4, <2>1, <2>2 DEF RuntimeOf
    <2>4. QED BY <1>7, <2>1, <2>2, <2>3
  <1>16. CASE Forget(p) BY <1>16, ForgetRuntime
  <1>17. CASE RetryApply(p)
    <2>1. op[p].at = "retry" /\ UNCHANGED <<configs, active, notices, behind>>
      BY <1>17 DEF RetryApply, configVars, historyVars
    <2>2. /\ op[p].what = "renewal" /\ op[p].base = op[p].item
          /\ op'[p].at \in {"apply", "status"} /\ op'[p].item = op[p].item
      BY <1>17, RetryApplyMoves
    <2>3. ~crossed => configs = op[p].base BY <2>1 DEF Truth, TruthOf
    <2>4. ~crossed /\ ~restarted => RuntimeOf(p)' BY <2>1, <2>2, <2>3 DEF RuntimeOf
    <2>5. QED BY <1>7, <2>1, <2>2, <2>4
  <1>18. CASE CredentialStatus(p)
    <2>1. op[p].at = "status" /\ UNCHANGED <<configs, active, notices, behind>>
      BY <1>18 DEF CredentialStatus, configVars, historyVars
    <2>2. op[p].what # "notice" BY <2>1, Known DEF Good, InPlace
    <2>3. RuntimeOf(p)' BY <1>2, <1>18, CredentialStatusMoves DEF RuntimeOf
    <2>4. QED BY <1>7, <2>1, <2>2, <2>3
  <1>19. CASE RenewCredentials(p)
    <2>1. op[p].at = "renew" /\ UNCHANGED <<configs, active, notices, behind>>
      BY <1>19 DEF RenewCredentials, historyVars
    <2>2. op[p].what # "notice" BY <2>1, Known DEF Good, InPlace
    <2>3. RuntimeOf(p)' BY <1>2, <1>19, RenewCredentialsMoves DEF RuntimeOf
    <2>4. QED BY <1>7, <2>1, <2>2, <2>3
  <1>20. CASE Compare(p)
    <2>1. op[p].at = "compare" /\ UNCHANGED <<configs, active, notices, behind>>
      BY <1>20 DEF Compare, configVars, historyVars
    <2>2. op[p].what # "notice" BY <2>1, Known DEF Good, InPlace
    <2>3. RuntimeOf(p)' BY <1>2, <1>20, CompareMoves DEF RuntimeOf
    <2>4. QED BY <1>7, <2>1, <2>2, <2>3
  <1>21. QED
    BY <1>8, <1>9, <1>10, <1>11, <1>12, <1>13, <1>14, <1>15, <1>16, <1>17, <1>18, <1>19, <1>20 DEF Step

\* A provider that is deleted while it is disabled does not run.
LEMMA DeleteRuntime ==
    ASSUME Basic, Runtime, NEW p \in Caller, op[p].what = "none", Delete(p), CallRest
    PROVE  Runtime'
  <1>1. p \in Process /\ p # Hook BY ProcessAssumption DEF Process
  <1>2. UNCHANGED <<configs, active, notices, behind>> BY DEF CallRest, configVars
  <1>3. /\ Begins(p) /\ authRun = None
        /\ op'[p].at = "remove" \/ (op'[p].at = "erase" /\ ~configs.enabled)
    BY DeleteBegins
  <1>4. ASSUME ~crossed', ~restarted', op'[p].at = "erase" PROVE active = None
    <2>1. ASSUME NEW q \in Process PROVE op[q].at # "remove"
      <3>1. op[q].what \notin AuthOps /\ op[q].what \in What BY <1>3, WhoRuns, Known
      <3>2. QED BY <3>1, Known DEF Good, InPlace, What, AuthOps
    <2>2. ~crossed /\ ~restarted BY <1>3, <1>4 DEF Begins
    <2>3. QED BY <1>3, <1>4, <2>1, <2>2 DEF Runtime, Stops
  <1>5. ~crossed' /\ ~restarted' => RuntimeOf(p)' BY <1>2, <1>3, <1>4 DEF RuntimeOf
  <1>6. QED BY <1>1, <1>2, <1>3, <1>5, RuntimeBegins

LEMMA PersistRuntime ==
    ASSUME Basic, Runtime, NEW notice \in notices, PersistRuntimeConfigChange(Hook, notice)
    PROVE  Runtime'
  <1>1. /\ UNCHANGED <<configs, active>> /\ notices' = notices \ {notice}
        /\ behind' = (behind \/ Fits(notice) # (active # None /\ active.doc = notice.doc))
    BY DEF PersistRuntimeConfigChange, configVars
  <1>2. Hook \in Process BY DEF Process
  <1>3. CASE Fits(notice)
    <2>1. /\ Begins(Hook) /\ op'[Hook].what = "notice" /\ op'[Hook].at = "store"
          /\ op'[Hook].item.doc = notice.doc
      BY <1>3, PersistBegins
    <2> SUFFICES ASSUME ~crossed', ~restarted' PROVE Stops' /\ Runs' /\ \A q \in Process : RuntimeOf(q)'
      BY DEF Runtime
    <2>2. ~crossed /\ ~restarted BY <2>1 DEF Begins
    <2>3. op[Hook].at = "idle" BY <1>2, <2>1, Known DEF Begins
    <2>4. \A q \in Process : q = Hook \/ op'[q] = op[q] BY <2>1 DEF Begins, Others
    <2>5. \A q \in Process : RuntimeOf(q)' BY <1>1, <2>1, <2>2, <2>4 DEF Runtime, RuntimeOf
    <2>6. Stops' BY <1>1, <2>2, <2>3, <2>4 DEF Runtime, Stops
    <2>7. ~behind' => active' # None /\ active'.doc = Target' BY <1>1, <1>3, <2>1 DEF Target
    <2>8. QED BY <2>5, <2>6, <2>7 DEF Runs, Shown
  <1>4. CASE ~Fits(notice)
    <2>1. UNCHANGED <<op, crossed, restarted>> BY <1>4, DropQuiet
    <2> SUFFICES ASSUME ~crossed, ~restarted PROVE Stops' /\ Runs' /\ \A q \in Process : RuntimeOf(q)'
      BY <2>1 DEF Runtime
    <2>2. \A q \in Process : RuntimeOf(q)' BY <1>1, <2>1 DEF Runtime, RuntimeOf
    <2>3. Stops' BY <1>1, <2>1 DEF Runtime, Stops
    <2>4. Target' = Target BY <1>1, <2>1 DEF Target
    <2>5. Runs'
      <3>1. SUFFICES ASSUME configs' # None, configs'.enabled, ~behind', \A q \in Process : op'[q].at # "apply"
                     PROVE  Shown'
        BY DEF Runs
      <3>2. Shown BY <1>1, <2>1, <3>1 DEF Runtime, Runs
      <3>3. active # None /\ active.doc # notice.doc BY <1>1, <1>4, <3>1, <3>2 DEF Shown
      <3>4. QED BY <1>1, <2>4, <3>2, <3>3 DEF Shown
    <2>6. QED BY <2>2, <2>3, <2>5
  <1>5. QED BY <1>3, <1>4

\* A repair is to be reported.
LEMMA RecoverRuntime ==
    ASSUME Basic, Runtime, Recover
    PROVE  Runtime'
  <1>1. UNCHANGED <<op, crossed, restarted, configs, behind>> BY RecoverQuiet DEF configVars, historyVars
  <1>2. active # None /\ Shown' BY RecoverQuiet DEF Shown
  <1> SUFFICES ASSUME ~crossed, ~restarted PROVE Stops' /\ Runs' /\ \A q \in Process : RuntimeOf(q)'
    BY <1>1 DEF Runtime
  <1>3. \A q \in Process : RuntimeOf(q)' BY <1>1, <1>2 DEF Runtime, RuntimeOf
  <1>4. Stops' BY <1>1, <1>2 DEF Runtime, Stops
  <1>5. QED BY <1>2, <1>3, <1>4 DEF Runs

LEMMA RuntimeQuiet ==
    ASSUME Runtime, UNCHANGED <<op, configs, active, notices, crossed, restarted, behind>>
    PROVE  Runtime'
  <1>1. \A q \in Process : RuntimeOf(q)' <=> RuntimeOf(q) BY DEF RuntimeOf
  <1>2. Stops' <=> Stops BY DEF Stops
  <1>3. Target' = Target BY DEF Target
  <1>4. Runs' <=> Runs BY <1>3 DEF Runs, Shown
  <1>5. QED BY <1>1, <1>2, <1>4 DEF Runtime

LEMMA RuntimeNext == ASSUME Basic, Truth, Runtime, [Next]_vars PROVE Runtime'
  <1>1. ASSUME NEW p \in Process, Step(p) PROVE Runtime' BY <1>1, StepRuntime
  <1>2. CASE Call
    <2>1. PICK p \in Caller :
               op[p].what = "none" /\ (Save(p) \/ Delete(p) \/ RevokeXiaomiCredentials(p) \/ Restart(p))
      BY <1>2, CallBegins
    <2>2. CallRest BY <1>2, CallBegins
    <2>3. p \in Process /\ p # Hook BY ProcessAssumption DEF Process
    <2>4. UNCHANGED <<configs, active, notices, behind>> BY <2>2 DEF CallRest, configVars
    <2>5. CASE Delete(p) BY <2>1, <2>2, <2>5, DeleteRuntime
    <2>6. CASE Save(p) \/ RevokeXiaomiCredentials(p) \/ Restart(p)
      <3>1. Begins(p) BY <2>1, <2>2, <2>6, SaveBegins, RevokeBegins, RestartBegins
      <3>2. op'[p].at \in {"store", "credential"} \/ (op'[p].at = "apply" /\ op'[p].item = configs)
        BY <2>1, <2>2, <2>6, SaveBegins, RevokeBegins, RestartBegins
      <3>3. RuntimeOf(p)' BY <2>4, <3>2 DEF RuntimeOf
      <3>4. QED BY <2>3, <2>4, <3>1, <3>3, RuntimeBegins
    <2>7. QED BY <2>1, <2>5, <2>6
  <1>3. CASE RefreshDueCredentials(Maintenance)
    <2>1. Maintenance \in Process /\ Maintenance # Hook BY ProcessAssumption DEF Process
    <2>2. UNCHANGED <<configs, active, notices, behind>> BY <1>3 DEF RefreshDueCredentials, configVars
    <2>3. Begins(Maintenance) /\ op'[Maintenance].at = "retry" BY <1>3, RefreshBegins
    <2>4. RuntimeOf(Maintenance)' BY <2>3 DEF RuntimeOf
    <2>5. QED BY <2>1, <2>2, <2>3, <2>4, RuntimeBegins
  <1>4. ASSUME NEW notice \in notices, PersistRuntimeConfigChange(Hook, notice) PROVE Runtime'
    BY <1>4, PersistRuntime
  <1>5. CASE Age
    <2>1. UNCHANGED <<op, configs, active, notices, crossed, restarted, behind>>
      BY <1>5, AgeQuiet DEF configVars, historyVars
    <2>2. QED BY <2>1, RuntimeQuiet
  <1>6. CASE Recover BY <1>6, RecoverRuntime
  <1>7. CASE UNCHANGED vars
    <2>1. UNCHANGED <<op, configs, active, notices, crossed, restarted, behind>>
      BY <1>7, StutterQuiet DEF configVars, historyVars
    <2>2. QED BY <2>1, RuntimeQuiet
  <1>8. QED BY <1>1, <1>2, <1>3, <1>4, <1>5, <1>6, <1>7 DEF Next

LEMMA InitRuntime == ASSUME Init PROVE Runtime
  <1>1. \A p \in Process : op[p].at = "idle" /\ op[p].what = "none" BY DEF Init, Idle
  <1>2. Hook \in Process BY DEF Process
  <1>3. \A p \in Process : RuntimeOf(p) BY <1>1 DEF RuntimeOf
  <1>4. Target = configs.doc BY <1>1, <1>2 DEF Target
  <1>5. Stops BY DEF Init, Stops
  <1>6. Runs
    <2>1. SUFFICES ASSUME configs # None, configs.enabled PROVE Shown BY DEF Runs
    <2>2. configs = stored /\ configs \in Config BY <2>1 DEF Init
    <2>3. active = [doc |-> configs.doc, bound |-> TRUE, change |-> None] BY <2>1, <2>2 DEF Init
    <2>4. active \in Running /\ active.doc = configs.doc BY <2>2, <2>3 DEF Running, Config
    <2>5. QED BY <1>4, <2>4, NoneAssumption DEF Shown
  <1>7. QED BY <1>3, <1>5, <1>6 DEF Runtime

\* What is applied is what is in memory, and what memory does not want is being stopped.
THEOREM RuntimeInvariant == Spec => []Runtime
BY InitRuntime, BasicInvariant, TruthInvariant, RuntimeNext, PTL DEF Spec

\* Between calls a provider that memory does not want does not run, and one that it wants
\* runs what memory holds, unless calls have crossed, the last change has not reached the
\* runtime, or a repair waits in the instance.
THEOREM RunningFollows == Spec => []RuntimeFollows
  <1>1. Basic /\ Runtime => RuntimeFollows
    <2> SUFFICES ASSUME Basic, Runtime, Quiet, ~crossed, ~restarted
                 PROVE  /\ configs = None \/ ~configs.enabled => active = None
                        /\ configs # None /\ configs.enabled /\ ~behind =>
                               active # None /\ (active.change = None => active.doc = configs.doc)
      BY DEF RuntimeFollows
    <2>1. \A p \in Process : op[p].at = "idle" BY DEF Quiet, Active
    <2>2. Hook \in Process BY DEF Process
    <2>3. op[Hook].what = "none" BY <2>1, <2>2, Known
    <2>4. Target = configs.doc BY <2>3 DEF Target
    <2>5. QED BY <2>1, <2>4 DEF Runtime, Stops, Runs, Shown, Quiet
  <1>2. QED BY <1>1, BasicInvariant, RuntimeInvariant, PTL
=============================================================================
