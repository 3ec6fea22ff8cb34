------------------------ MODULE ProviderManagerProofs ------------------------
(***************************************************************************)
(* TLAPS proofs about ProviderManager, for any providers, callers and      *)
(* failures.                                                               *)
(*                                                                         *)
(* The first invariant, Sound, says of each goroutine what its place means:*)
(* which mutex it holds, what it has closed, and that nobody else knows of *)
(* its candidate.  The second, Orderly, says what a provider that no two   *)
(* callers have changed at a time adds to that: who may replace it, open   *)
(* it and subscribe to it.  A step of goroutine p touches what p can reach,*)
(* so that the facts about every other goroutine are proved once.          *)
(***************************************************************************)
EXTENDS ProviderManager, FiniteSetTheorems, TLAPS

\* Places of the retry worker, and the ones it shares with callers.
WorkerOnly == {"off", "select", "wait", "exit", "retryClose", "retryInit", "retryInstall"}
Shared == {"subscribe", "record", "discover", "fetch"}

\* The places at which the id, the current instance, the candidate and the target of
\* a call are set.
Named == {"applyLock", "reconfigured", "applyClose", "applyInit", "applyInstall", "restore",
          "removeLock", "removeClose", "subscribe", "record",
          "wait", "retryClose", "retryInit", "retryInstall"}
OnCurrent == {"applyLock", "reconfigured", "applyClose", "removeLock", "removeClose",
              "closeLock", "closing", "wait", "retryClose", "retryInit", "retryInstall"}
WithCandidate == {"applyLock", "reconfigured", "applyClose", "applyInit", "applyInstall"}
Targeting == {"subscribe", "record", "fetch"}
ClosePlace == {"closeWait", "closeNext", "closeLock", "closing"}
Nameless == {"discover", "fetch", "closeWait", "closeNext", "closeLock", "closing"}

\* The places at which the mutex of the current instance is held, without and with a
\* current instance that has been closed.
OnLocked == {"reconfigured", "applyClose", "removeClose", "retryClose", "retryInit",
             "retryInstall", "closing"}
OnClosed == {"applyInit", "applyInstall", "restore"}

Op == [at: Place, id: Provider \cup {None}, cur: Instance \cup {None},
       new: Instance \cup {None}, target: Instance \cup {None},
       then: {"return", "boot", "discover"}, left: SUBSET Provider]
Refs(o) == {o.cur, o.new, o.target}
Selecting == [Off EXCEPT !.at = "select"]

\* The local variables a place needs are set.
Proper(p) == LET o == op[p] IN
    /\ IF p = Worker THEN o.at \in WorkerOnly \cup Shared ELSE o.at \notin WorkerOnly
    /\ o.at \in Named => o.id \in Provider
    /\ o.at \in OnCurrent => o.cur \in Instance
    /\ o.at \in WithCandidate => o.new \in Instance
    /\ o.at \in Targeting => o.target \in Instance
    /\ o.new # None => o.at \in WithCandidate
    /\ o.at \in ClosePlace => closed
    /\ o.at \in Nameless => o.id = None

\* What p refers to belongs to the provider it works on.
Identity(p) == LET o == op[p] IN
    \A i \in Refs(o) \ {None} :
        /\ inst[i].id \in Provider
        /\ o.id # None => inst[i].id = o.id

\* The mutexes p holds and what it has closed under one.
Locked(p) == LET o == op[p] IN
    /\ o.at \in OnLocked => inst[o.cur].lifecycle = p
    /\ o.at \in OnClosed /\ o.cur # None => inst[o.cur].lifecycle = p /\ o.cur \notin open
    /\ o.at = "retryInit" => o.cur \notin open
    /\ p = Worker /\ o.at \in {"subscribe", "record"} => inst[o.target].lifecycle = p
    /\ o.at = "removeClose" => o.cur \notin Live

\* Nobody but p knows of its candidate, which is open once it is initialized.
Candidate(p) == LET o == op[p]  n == o.new IN n # None =>
    /\ n \notin Live \cup inflight /\ listening[n] = 0
    /\ inst[n] = [Unused EXCEPT !.id = o.id]
    /\ o.at # "applyInstall" => n \notin open
    /\ n \notin {o.cur, o.target}
    /\ \A q \in Proc \ {p} : n \notin Refs(op[q])

\* The table names instances by their ids.
TableIds == \A id \in Provider : table[id] # None => inst[table[id]].id = id

\* A configured provider that Initialize has not come to.
Pristine(id) == LET i == table[id] IN
    /\ i \in Instance
    /\ inst[i] = [Unused EXCEPT !.id = id, !.status = "created"]
    /\ i \notin open \cup inflight /\ listening[i] = 0
    /\ \A q \in Proc : i \notin Refs(op[q])

\* Initialize runs alone, but for the retry worker that a report has started.
Booting(p) == op[p].at = "boot" \/ op[p].then = "boot"
BootAt(p) ==
    /\ p \in Caller
    /\ op[p].at \in {"boot", "subscribe", "record"}
    /\ op[p].at = "boot" => op[p] = [Idle EXCEPT !.at = "boot", !.left = op[p].left]
    /\ \A q \in Caller \ {p} : op[q] = Idle
    /\ \A id \in op[p].left : Pristine(id)
Boot == \A p \in Proc : Booting(p) => BootAt(p)

\* A subscription is recorded, or somebody is about to record it or to end it.
Recorders(i) == {p \in Proc : op[p].at = "record" /\ op[p].target = i}
ClosedBy(i) == \E p \in Proc : op[p].at = "closing" /\ op[p].cur = i
Count == \A i \in Instance :
    /\ IsFiniteSet(Recorders(i))
    /\ listening[i] >= Cardinality(Recorders(i))
                          + IF inst[i].unsubscribe /\ ~ClosedBy(i) THEN 1 ELSE 0
    /\ ~closed => listening[i] = Cardinality(Recorders(i)) + IF inst[i].unsubscribe THEN 1 ELSE 0

Sound ==
    /\ TypeOK /\ LocksReleased /\ TableIds /\ Boot /\ Count
    /\ \A p \in Proc : Proper(p) /\ Identity(p) /\ Locked(p) /\ Candidate(p)
-----------------------------------------------------------------------------
(* What a step of p may do.                                                *)

\* p goes on with o; the retry worker may be started.
Moved(p, o) ==
    /\ op' \in [Proc -> Op]
    /\ op'[p] = o
    /\ \A q \in Proc \ {p} :
          op'[q] = op[q] \/ (q = Worker /\ op[q].at = "off" /\ op'[q] = Selecting)

\* The instances a step of p may touch.
Reach(p) ==
    {i \in Instance :
        \/ inst[i].lifecycle = p
        \/ i \in Refs(op[p])
        \/ listening[i] > 0 \/ i \in inflight
        \/ i \in Live /\ inst[i].status # "created"
        \/ p \in Caller /\ (i \in Live \/ Garbage(i))}

\* p takes and gives up mutexes for itself only; a new instance gets its id.
Changed(p, i) ==
    /\ inst'[i].id = inst[i].id \/ Garbage(i)
    /\ \/ inst'[i].lifecycle = inst[i].lifecycle
       \/ inst[i].lifecycle \in {None, p} /\ inst'[i].lifecycle \in {None, p}

Untouched(i) ==
    /\ inst'[i] = inst[i]
    /\ listening'[i] = listening[i]
    /\ i \in open' => i \in open
    /\ i \in inflight' => i \in inflight

\* The instances.
Local(p) ==
    /\ inst' \in [Instance -> Managed]
    /\ \A i \in Instance : Changed(p, i)
    /\ \A i \in Instance \ Reach(p) : Untouched(i)
    /\ \A i \in open' \ open : inst[i].lifecycle \in {None, p}
    /\ Live' \subseteq Live \cup ({op[p].new} \ {None})
    /\ p = Worker => table' = table
    /\ closed => closed'

\* The other variables.
OthersTyped ==
    /\ table \in [Provider -> Instance \cup {None}]
    /\ closed \in BOOLEAN
    /\ open \in SUBSET Instance
    /\ listening \in [Instance -> Nat]
    /\ inflight \in SUBSET Instance
    /\ calls \in 0 .. MaxCalls
    /\ failures \in 0 .. MaxFailures
    /\ leaked \in SUBSET Instance
    /\ deaf \in SUBSET Instance
    /\ overlapped \in SUBSET Provider

\* p waits only when it holds no mutex.
Released(p) == Waiting(p) => \A i \in Instance : inst[i].lifecycle # p

\* The parts of the type invariant.
LEMMA TypeParts ==
    TypeOK <=> OthersTyped /\ inst \in [Instance -> Managed] /\ op \in [Proc -> Op]
  BY DEF TypeOK, OthersTyped, Op

\* The idle records are well formed and refer to nothing.
LEMMA IdleFacts ==
    /\ Idle \in Op /\ Off \in Op /\ Selecting \in Op
    /\ Idle.at = "idle" /\ Off.at = "off" /\ Selecting.at = "select"
    /\ Refs(Idle) = {None} /\ Refs(Off) = {None} /\ Refs(Selecting) = {None}
    /\ Idle.then = "return" /\ Off.then = "return" /\ Selecting.then = "return"
    /\ Idle.id = None /\ Off.id = None /\ Selecting.id = None
  BY DEF Idle, Off, Selecting, Op, Place, Refs

\* Neither a candidate nor an untouched provider of Initialize is in reach of another
\* goroutine.
LEMMA CandidateOutOfReach ==
    ASSUME Sound, NEW p \in Proc, NEW q \in Proc \ {p}, op[q].new # None
    PROVE  op[q].new \in Instance \ Reach(p) /\ ~Garbage(op[q].new)
  <1> DEFINE n == op[q].new
  <1>1. n \in Instance BY DEF Sound, TypeOK
  <1>2. Candidate(q) BY DEF Sound
  <1>3. /\ n \notin Live \cup inflight /\ listening[n] = 0
        /\ n \notin Refs(op[p])
    BY <1>2 DEF Candidate
  <1>4. inst[n].lifecycle = None BY <1>2 DEF Candidate, Unused
  <1>5. p # None BY NoneAssumption DEF Proc
  <1>6. ~Garbage(n) BY <1>1 DEF Garbage, Holders
  <1> HIDE DEF n
  <1>7. n \notin Reach(p) BY <1>3, <1>4, <1>5, <1>6 DEF Reach
  <1>8. QED BY <1>1, <1>6, <1>7 DEF n

LEMMA PristineOutOfReach ==
    ASSUME Sound, NEW id \in Provider, Pristine(id)
    PROVE  table[id] \in Instance \ Reach(Worker)
  <1> DEFINE i == table[id]
  <1>1. /\ i \in Instance /\ i \notin inflight /\ listening[i] = 0 /\ i \notin Refs(op[Worker])
    BY DEF Pristine, Proc
  <1>2. inst[i].lifecycle = None /\ inst[i].status = "created" BY DEF Pristine, Unused
  <1>3. Worker # None /\ Worker \notin Caller BY NoneAssumption, WorkerAssumption
  <1> HIDE DEF i
  <1>4. i \notin Reach(Worker) BY <1>1, <1>2, <1>3 DEF Reach
  <1>5. QED BY <1>1, <1>4 DEF i

\* A step of p keeps what is known of every other goroutine.
LEMMA OthersKept ==
    ASSUME Sound, NEW p \in Proc, NEW o, Moved(p, o), Local(p), Refs(o) \ {None} \subseteq Reach(p),
           NEW q \in Proc \ {p}
    PROVE  Proper(q)' /\ Identity(q)' /\ Locked(q)' /\ Candidate(q)'
  <1>0. Proper(q) /\ Identity(q) /\ Locked(q) /\ Candidate(q) /\ Candidate(p) BY DEF Sound
  <1>1. CASE op'[q] = op[q]
    <2>1. Proper(q)' BY <1>0, <1>1 DEF Proper, Local
    <2>2. Identity(q)'
      <3>1. ASSUME NEW i \in Refs(op[q]) \ {None} PROVE inst'[i].id = inst[i].id
        <4>1. i \in Instance BY DEF Sound, TypeOK, Refs
        <4>2. ~Garbage(i) BY <4>1 DEF Garbage, Holders, Refs
        <4>3. QED BY <4>1, <4>2 DEF Local, Changed
      <3>2. QED BY <1>0, <1>1, <3>1 DEF Identity
    <2>3. Locked(q)'
      <3>1. q # None BY NoneAssumption DEF Proc
      <3>2. ASSUME NEW i \in Instance, inst[i].lifecycle = q
            PROVE  inst'[i].lifecycle = q /\ (i \notin open => i \notin open')
        BY <3>1, <3>2 DEF Local, Changed
      <3>3. op[q].cur \in Instance \cup {None} /\ op[q].target \in Instance \cup {None}
        BY DEF Sound, TypeOK
      <3>4. op[q].at = "removeClose" => op[q].cur \notin Live'
        <4>1. op[p].new # None => op[p].new \notin Refs(op[q]) BY <1>0 DEF Candidate
        <4>2. QED BY <1>0, <4>1 DEF Locked, Local, Refs
      <3>5. /\ op[q].at \in OnLocked => op[q].cur \in Instance
            /\ op[q].at \in {"subscribe", "record"} => op[q].target \in Instance
        BY <1>0 DEF Proper, OnLocked, OnCurrent, Targeting
      <3>6. QED BY <1>0, <1>1, <3>2, <3>3, <3>4, <3>5 DEF Locked, OnLocked
    <2>4. Candidate(q)'
      <3>1. SUFFICES ASSUME op[q].new # None PROVE Candidate(q)'
        BY <1>1 DEF Candidate
      <3> DEFINE n == op[q].new
      <3>2. n \in Instance \ Reach(p) BY <3>1, CandidateOutOfReach
      <3>3. Untouched(n) BY <3>2 DEF Local
      <3>4. n # op[p].new BY <1>0, <3>1 DEF Candidate, Refs
      <3>5. n \notin Live' BY <1>0, <3>1, <3>4 DEF Candidate, Local
      <3>6. ASSUME NEW r \in Proc \ {q} PROVE n \notin Refs(op'[r])
        <4>1. CASE r = p BY <3>1, <3>2, <4>1 DEF Moved
        <4>2. CASE r # p
          BY <1>0, <3>1, <4>2, IdleFacts DEF Moved, Candidate
        <4>3. QED BY <4>1, <4>2
      <3>7. QED BY <1>0, <1>1, <3>3, <3>5, <3>6 DEF Candidate, Untouched
    <2>5. QED BY <2>1, <2>2, <2>3, <2>4
  <1>2. CASE q = Worker /\ op'[q] = Selecting
    <2>1. op'[q].at = "select" /\ Refs(op'[q]) = {None} BY <1>2, IdleFacts
    <2>2. op'[q].new = None BY <2>1 DEF Refs
    <2>3. Proper(q)'
      BY <1>2, <2>1, <2>2 DEF Proper, WorkerOnly, Named, OnCurrent, Targeting, WithCandidate, ClosePlace, Nameless
    <2>4. Identity(q)' BY <2>1 DEF Identity
    <2>5. Locked(q)' BY <2>1 DEF Locked, OnLocked, OnClosed
    <2>6. Candidate(q)' BY <2>2 DEF Candidate
    <2>7. QED BY <2>3, <2>4, <2>5, <2>6
  <1>3. QED BY <1>1, <1>2 DEF Moved

\* A step of p keeps the mutexes in order and the table named by ids.
LEMMA LocksKept ==
    ASSUME Sound, NEW p \in Proc, NEW o, Moved(p, o), Local(p), Released(p)'
    PROVE  LocksReleased'
  <1>1. SUFFICES ASSUME NEW i \in Instance, NEW q \in Proc, inst'[i].lifecycle = q
                 PROVE  ~Waiting(q)'
    <2>1. \A i \in Instance : inst'[i].lifecycle \in Proc \cup {None} BY DEF Local, Managed
    <2>2. QED BY <1>1, <2>1 DEF LocksReleased, Waiting
  <1>2. CASE q = p BY <1>1, <1>2 DEF Released
  <1>3. CASE q # p
    <2>1. inst[i].lifecycle = q /\ q # None
      BY <1>1, <1>3, NoneAssumption DEF Local, Changed, Proc
    <2>2. ~Waiting(q) BY <2>1 DEF Sound, LocksReleased
    <2>3. op'[q] = op[q] BY <1>3, <2>2 DEF Moved, Waiting
    <2>4. QED BY <2>2, <2>3 DEF Waiting
  <1>4. QED BY <1>2, <1>3

LEMMA TableKept ==
    ASSUME Sound, NEW p \in Proc, Local(p), \A id \in Provider : table'[id] \in {table[id], None}
    PROVE  TableIds'
  <1>1. ASSUME NEW id \in Provider, table[id] # None
        PROVE  inst'[table[id]].id = id
    <2>1. table[id] \in Instance /\ table[id] \in Live
      BY <1>1 DEF Sound, TypeOK, Live
    <2>2. ~Garbage(table[id]) BY <2>1 DEF Garbage
    <2>3. QED BY <1>1, <2>1, <2>2 DEF Local, Changed, Sound, TableIds
  <1>2. QED BY <1>1 DEF TableIds

\* Initialize is not disturbed by the retry worker and by reports ...
LEMMA BootBesideWorker ==
    ASSUME Sound, NEW o, Moved(Worker, o), Local(Worker),
           Refs(o) \ {None} \subseteq Reach(Worker), o.at # "boot", o.then # "boot"
    PROVE  Boot'
  <1>0. Worker \in Proc /\ Worker \notin Caller /\ Caller \subseteq Proc
    BY WorkerAssumption DEF Proc
  <1>1. SUFFICES ASSUME NEW p \in Proc, Booting(p)' PROVE BootAt(p)'
    BY DEF Boot
  <1>2. p # Worker /\ op'[p] = op[p]
    BY <1>1 DEF Moved, Booting
  <1>3. Booting(p) /\ BootAt(p) BY <1>1, <1>2 DEF Booting, Sound, Boot
  <1>4. \A q \in Caller : op'[q] = op[q] BY <1>0 DEF Moved
  <1>5. ASSUME NEW id \in op[p].left PROVE Pristine(id)'
    <2>1. id \in Provider BY DEF Sound, TypeOK
    <2>2. Pristine(id) BY <1>3 DEF BootAt
    <2> DEFINE i == table[id]
    <2>3. i \in Instance \ Reach(Worker) BY <2>1, <2>2, PristineOutOfReach
    <2>4. table' = table /\ Untouched(i) BY <2>3 DEF Local
    <2>5. i # None BY <2>3, NoneAssumption
    <2>6. ASSUME NEW q \in Proc PROVE i \notin Refs(op'[q])
      <3>1. CASE q = Worker BY <2>3, <2>5, <3>1 DEF Moved
      <3>2. CASE q # Worker BY <2>2, <3>2 DEF Moved, Pristine
      <3>3. QED BY <3>1, <3>2
    <2>7. QED BY <2>2, <2>3, <2>4, <2>6 DEF Pristine, Untouched
  <1>6. QED BY <1>2, <1>3, <1>4, <1>5 DEF BootAt

\* ... and is over when a caller does anything else.
LEMMA BootOver ==
    ASSUME Sound, NEW p \in Caller, NEW o, Moved(p, o),
           ~Booting(p), op[p].at # "idle" \/ Booted, o.at # "boot", o.then # "boot"
    PROVE  Boot'
  <1>0. Worker \notin Caller /\ Worker \in Proc /\ p \in Proc /\ Proc = Caller \cup {Worker}
    BY WorkerAssumption DEF Proc
  <1>1. \A q \in Proc : ~Booting(q)
    <2>1. ASSUME NEW q \in Proc, Booting(q) PROVE FALSE
      <3>1. BootAt(q) BY <2>1 DEF Sound, Boot
      <3>2. q \in Caller /\ q # p BY <2>1, <3>1 DEF BootAt
      <3>3. op[p].at = "idle" BY <3>1, <3>2, IdleFacts DEF BootAt
      <3>4. QED BY <2>1, <3>2, <3>3 DEF Booted, Booting
    <2>2. QED BY <2>1
  <1>2. ASSUME NEW q \in Proc PROVE ~Booting(q)'
    <2>1. CASE q = p BY <2>1 DEF Booting, Moved
    <2>2. CASE q # p BY <1>1, <2>2, IdleFacts DEF Booting, Moved
    <2>3. QED BY <2>1, <2>2
  <1>3. QED BY <1>2 DEF Boot

\* A step that neither records nor ends a subscription keeps the count.
LEMMA CountKept ==
    ASSUME Sound, NEW p \in Proc, NEW o, Moved(p, o), closed => closed', listening' = listening,
           \A i \in Instance : inst'[i].unsubscribe = inst[i].unsubscribe,
           op[p].at \notin {"record", "closing"}, o.at \notin {"record", "closing"}
    PROVE  Count'
  <1>1. \A q \in Proc : /\ op'[q].at = "record" <=> op[q].at = "record"
                        /\ op'[q].at = "closing" <=> op[q].at = "closing"
                        /\ op[q].at \in {"record", "closing"} => op'[q] = op[q]
    BY IdleFacts DEF Moved
  <1>2. ASSUME NEW i \in Instance
        PROVE  Recorders(i)' = Recorders(i) /\ (ClosedBy(i)' <=> ClosedBy(i))
    BY <1>1 DEF Recorders, ClosedBy
  <1>3. QED BY <1>2 DEF Sound, Count

\* The mutexes and marks of a step that leaves subscriptions and ids alone.
InstQuiet(p) ==
    /\ inst' \in [Instance -> Managed]
    /\ \A i \in Instance :
          /\ inst'[i].id = inst[i].id
          /\ inst'[i].unsubscribe = inst[i].unsubscribe
          /\ \/ inst'[i].lifecycle = inst[i].lifecycle
             \/ inst[i].lifecycle \in {None, p} /\ inst'[i].lifecycle \in {None, p}
          /\ i \notin Reach(p) => inst'[i] = inst[i]

\* What it does to the other variables.
Elsewhere(p) ==
    /\ OthersTyped'
    /\ \A i \in open' \ open : i \in Reach(p) /\ inst[i].lifecycle \in {None, p}
    /\ \A i \in inflight' \ inflight : i \in Reach(p)
    /\ \A id \in Provider : table'[id] \in {table[id], None}
    /\ p = Worker => table' = table
    /\ closed => closed'

LEMMA QuietLocal ==
    ASSUME Sound, NEW p \in Proc, InstQuiet(p), Elsewhere(p),
           \A i \in Instance \ Reach(p) : listening'[i] = listening[i]
    PROVE  Local(p)
  <1>1. \A i \in Instance : Changed(p, i) BY DEF InstQuiet, Changed
  <1>2. \A i \in Instance \ Reach(p) : Untouched(i) BY DEF InstQuiet, Elsewhere, Untouched
  <1>3. Live' \subseteq Live BY DEF Live, Elsewhere
  <1>4. QED BY <1>1, <1>2, <1>3 DEF Local, InstQuiet, Elsewhere

\* What is to be shown of p itself.
Mine(p) == Proper(p) /\ Identity(p) /\ Locked(p) /\ Candidate(p) /\ Released(p)

LEMMA SoundFromParts ==
    ASSUME Sound, NEW p \in Proc, NEW o, Moved(p, o), Local(p), Refs(o) \ {None} \subseteq Reach(p),
           OthersTyped', TableIds', Boot', Count', Mine(p)'
    PROVE  Sound'
  <1>1. TypeOK' BY TypeParts DEF Moved, Local, TypeOK, OthersTyped, Op
  <1>2. LocksReleased' BY LocksKept DEF Mine
  <1>3. \A q \in Proc : Proper(q)' /\ Identity(q)' /\ Locked(q)' /\ Candidate(q)'
    BY OthersKept DEF Mine
  <1>4. QED BY <1>1, <1>2, <1>3 DEF Sound

\* A step outside Initialize that leaves subscriptions and ids alone.
LEMMA QuietStep ==
    ASSUME Sound, NEW p \in Proc, NEW o, Moved(p, o), Refs(o) \ {None} \subseteq Reach(p),
           InstQuiet(p), Elsewhere(p), listening' = listening,
           op[p].at \notin {"record", "closing"}, o.at \notin {"record", "closing"},
           ~Booting(p), p \in Caller => op[p].at # "idle" \/ Booted,
           o.at # "boot", o.then # "boot", Mine(p)'
    PROVE  Sound'
  <1>1. Local(p) BY QuietLocal
  <1>2. TableIds' BY <1>1, TableKept DEF Elsewhere
  <1>3. Boot'
    <2>1. CASE p = Worker BY <1>1, <2>1, BootBesideWorker
    <2>2. CASE p \in Caller BY <2>2, BootOver
    <2>3. QED BY <2>1, <2>2 DEF Proc
  <1>4. Count' BY CountKept DEF InstQuiet, Elsewhere
  <1>5. QED BY <1>1, <1>2, <1>3, <1>4, SoundFromParts DEF Elsewhere
-----------------------------------------------------------------------------
(* The forms the steps are built from.                                     *)

\* What Sound says of one goroutine.
LEMMA SoundAt ==
    ASSUME Sound, NEW p \in Proc
    PROVE  /\ op[p] \in Op /\ Mine(p)
           /\ Refs(op[p]) \ {None} \subseteq Reach(p)
           /\ \A i \in Refs(op[p]) \ {None} : i \in Instance /\ ~Garbage(i)
  <1>1. op[p] \in Op BY TypeParts DEF Sound
  <1>2. p # None BY NoneAssumption DEF Proc
  <1>3. Released(p) BY <1>2 DEF Sound, LocksReleased, Released
  <1>4. \A i \in Refs(op[p]) \ {None} : i \in Instance BY <1>1 DEF Op, Refs
  <1>5. \A i \in Refs(op[p]) \ {None} : ~Garbage(i) BY <1>4 DEF Garbage, Holders, Refs
  <1>6. Refs(op[p]) \ {None} \subseteq Reach(p) BY <1>4 DEF Reach
  <1>7. QED BY <1>1, <1>3, <1>4, <1>5, <1>6 DEF Sound, Mine

\* What it says of the table.
LEMMA SoundTable ==
    ASSUME Sound, NEW id \in Provider, table[id] # None
    PROVE  /\ table[id] \in Instance /\ table[id] \in Live /\ ~Garbage(table[id])
           /\ inst[table[id]].id = id
  BY DEF Sound, TypeOK, TableIds, Live, Garbage

LEMMA MoveOp ==
    ASSUME Sound, NEW p \in Proc, NEW o \in Op, op' = [op EXCEPT ![p] = o]
    PROVE  Moved(p, o)
  BY TypeParts DEF Sound, Moved

LEMMA MoveRetry ==
    ASSUME Sound, NEW p \in Proc, NEW o \in Op, NEW f, o.at # "off" \/ p # Worker,
           op' = startRetryWorker([op EXCEPT ![p] = o], f)
    PROVE  Moved(p, o)
  <1> DEFINE n == [op EXCEPT ![p] = o]
  <1>1. n \in [Proc -> Op] /\ n[p] = o /\ \A q \in Proc \ {p} : n[q] = op[q]
    BY TypeParts DEF Sound
  <1>2. op' = n \/ (n[Worker].at = "off" /\ op' = [n EXCEPT ![Worker] = Selecting])
    BY DEF startRetryWorker, Selecting
  <1>3. Worker \in Proc BY DEF Proc
  <1> HIDE DEF n
  <1>4. QED BY <1>1, <1>2, <1>3, IdleFacts DEF Moved

\* The record p goes on with when it only changes its place.
LEMMA GoOp ==
    ASSUME Sound, NEW p \in Proc, NEW place \in Place, Goto(p, place)
    PROVE  \E o \in Op : /\ Moved(p, o) /\ o.at = place
                         /\ o.id = op[p].id /\ o.cur = op[p].cur /\ o.new = op[p].new
                         /\ o.target = op[p].target /\ o.then = op[p].then /\ o.left = op[p].left
  <1> DEFINE o == [op[p] EXCEPT !.at = place]
  <1>1. op[p] \in Op BY SoundAt
  <1>2. /\ o \in Op /\ o.at = place
        /\ o.id = op[p].id /\ o.cur = op[p].cur /\ o.new = op[p].new
        /\ o.target = op[p].target /\ o.then = op[p].then /\ o.left = op[p].left
    BY <1>1 DEF Op
  <1>3. op' = [op EXCEPT ![p] = o] BY DEF Goto
  <1> HIDE DEF o
  <1>4. QED BY <1>2, <1>3, MoveOp

\* Marks: f is inst with another status of an instance in reach.
Marked(p, f) ==
    /\ f \in [Instance -> Managed]
    /\ \A i \in Instance :
          /\ f[i].id = inst[i].id /\ f[i].unsubscribe = inst[i].unsubscribe
          /\ f[i].lifecycle = inst[i].lifecycle
          /\ i \notin Reach(p) => f[i] = inst[i]

LEMMA MarkedSame ==
    ASSUME Sound, NEW p \in Proc
    PROVE  Marked(p, inst)
  BY DEF Sound, TypeOK, Marked

LEMMA MarkedStatus ==
    ASSUME Sound, NEW p \in Proc, NEW i \in Reach(p), NEW s \in Status
    PROVE  Marked(p, [inst EXCEPT ![i].status = s])
  <1>1. inst \in [Instance -> Managed] BY DEF Sound, TypeOK
  <1>2. i \in Instance BY DEF Reach
  <1>3. QED BY <1>1, <1>2 DEF Marked, Managed

LEMMA MarkedIfCurrent ==
    ASSUME Sound, NEW p \in Proc, NEW i \in Reach(p), NEW s \in FailureStatus
    PROVE  Marked(p, markIfCurrent(i, s)) /\ Marked(p, markFailureLocked(i, s))
  <1>1. s \in Status BY DEF FailureStatus, Status
  <1>2. QED BY <1>1, MarkedSame, MarkedStatus DEF markIfCurrent, markFailureLocked

LEMMA MarkedQuiet ==
    ASSUME Sound, NEW p \in Proc, Marked(p, inst')
    PROVE  InstQuiet(p)
  BY DEF Marked, InstQuiet

\* p gives up what it holds and changes nothing else.
LEMMA UnlockFacts ==
    ASSUME NEW p \in Proc, NEW f \in [Instance -> Managed], inst' = Unlock(f, p)
    PROVE  /\ inst' \in [Instance -> Managed]
           /\ \A i \in Instance :
                 /\ inst'[i].lifecycle # p
                 /\ inst'[i].id = f[i].id /\ inst'[i].unsubscribe = f[i].unsubscribe
                 /\ inst'[i].status = f[i].status
                 /\ \/ inst'[i] = f[i]
                    \/ f[i].lifecycle = p /\ inst'[i].lifecycle = None
  <1>1. p # None BY NoneAssumption DEF Proc
  <1>2. ASSUME NEW i \in Instance
        PROVE  /\ inst'[i] \in Managed /\ inst'[i].lifecycle # p
               /\ inst'[i].id = f[i].id /\ inst'[i].unsubscribe = f[i].unsubscribe
               /\ inst'[i].status = f[i].status
               /\ \/ inst'[i] = f[i]
                  \/ f[i].lifecycle = p /\ inst'[i].lifecycle = None
    <2>1. inst'[i] = IF f[i].lifecycle = p THEN [f[i] EXCEPT !.lifecycle = None] ELSE f[i]
      BY DEF Unlock
    <2>2. f[i] \in Managed OBVIOUS
    <2>3. QED BY <1>1, <2>1, <2>2 DEF Managed
  <1>3. inst' \in [Instance -> Managed] BY <1>2 DEF Unlock
  <1>4. QED BY <1>2, <1>3

LEMMA UnlockQuiet ==
    ASSUME Sound, NEW p \in Proc, NEW f, Marked(p, f), inst' = Unlock(f, p)
    PROVE  InstQuiet(p) /\ \A i \in Instance : inst'[i].lifecycle # p
  <1>1. f \in [Instance -> Managed] BY DEF Marked
  <1>2. \A i \in Instance : i \notin Reach(p) => inst[i].lifecycle # p BY DEF Reach
  <1>3. QED BY <1>1, <1>2, UnlockFacts DEF InstQuiet, Marked

\* p takes the mutex of an instance in reach and may mark it.
LEMMA LockQuiet ==
    ASSUME Sound, NEW p \in Proc, NEW i \in Reach(p), inst[i].lifecycle = None,
           \/ inst' = [inst EXCEPT ![i].lifecycle = p]
           \/ \E s \in Status : inst' = [inst EXCEPT ![i].status = s, ![i].lifecycle = p]
    PROVE  /\ InstQuiet(p) /\ i \in Instance /\ inst'[i].lifecycle = p
           /\ \A j \in Instance : j # i => inst'[j] = inst[j]
  <1>1. inst \in [Instance -> Managed] BY DEF Sound, TypeOK
  <1>2. i \in Instance BY DEF Reach
  <1>3. PICK s \in Status : inst' = [inst EXCEPT ![i] = [inst[i] EXCEPT !.status = s, !.lifecycle = p]]
    <2>1. CASE inst' = [inst EXCEPT ![i].lifecycle = p]
      <3>1. inst[i] \in Managed /\ inst[i].status \in Status BY <1>1, <1>2 DEF Managed
      <3>2. [inst[i] EXCEPT !.lifecycle = p]
              = [inst[i] EXCEPT !.status = inst[i].status, !.lifecycle = p]
        BY <3>1 DEF Managed
      <3>3. QED BY <2>1, <3>1, <3>2
    <2>2. CASE \E s \in Status : inst' = [inst EXCEPT ![i].status = s, ![i].lifecycle = p]
      BY <2>2
    <2>3. QED BY <2>1, <2>2
  <1> DEFINE m == [inst[i] EXCEPT !.status = s, !.lifecycle = p]
  <1>4. /\ m \in Managed /\ m.id = inst[i].id /\ m.unsubscribe = inst[i].unsubscribe
        /\ m.lifecycle = p
    BY <1>1, <1>2 DEF Managed
  <1>5. inst' = [inst EXCEPT ![i] = m] BY <1>3
  <1> HIDE DEF m
  <1>6. inst'[i] = m /\ \A j \in Instance : j # i => inst'[j] = inst[j]
    BY <1>1, <1>2, <1>5
  <1>7. QED BY <1>1, <1>2, <1>4, <1>5, <1>6 DEF InstQuiet

\* What p refers to, when it refers to nothing new.
LEMMA MineKept ==
    ASSUME Sound, NEW p \in Proc, NEW o, Moved(p, o), Local(p), o.id \in {op[p].id, None},
           o.cur \in {op[p].cur, op[p].target, None}, o.target \in {op[p].cur, op[p].target, None},
           \/ o.new = None
           \/ /\ o.new = op[p].new /\ o.id = op[p].id
              /\ inst'[o.new] = inst[o.new] /\ listening'[o.new] = listening[o.new]
              /\ o.new \notin inflight' /\ o.new \notin Live'
              /\ o.new \in open' => o.at = "applyInstall"
    PROVE  Identity(p)' /\ Candidate(p)' /\ Refs(o) \ {None} \subseteq Reach(p)
  <1>1. Refs(o) \ {None} \subseteq Refs(op[p]) \ {None} BY DEF Refs
  <1>2. Refs(o) \ {None} \subseteq Reach(p) BY <1>1, SoundAt
  <1>3. Identity(p) /\ Candidate(p) BY DEF Sound
  <1>4. op'[p] = o BY DEF Moved
  <1>5. Identity(p)'
    <2>1. ASSUME NEW i \in Refs(o) \ {None} PROVE inst'[i].id = inst[i].id
      BY <1>1, SoundAt DEF Local, Changed
    <2>2. QED BY <1>1, <1>3, <1>4, <2>1 DEF Identity
  <1>6. Candidate(p)'
    <2>1. SUFFICES ASSUME o.new # None PROVE Candidate(p)' BY <1>4 DEF Candidate
    <2>2. \A q \in Proc \ {p} : o.new \notin Refs(op'[q])
      BY <1>3, <2>1, IdleFacts DEF Candidate, Moved
    <2>3. o.new \notin {o.cur, o.target} BY <1>3, <2>1 DEF Candidate
    <2>4. QED BY <1>3, <1>4, <2>1, <2>2, <2>3 DEF Candidate
  <1>7. QED BY <1>2, <1>5, <1>6

\* A goroutine back in its caller or its loop refers to nothing and holds nothing.
LEMMA ReturnedMine ==
    ASSUME NEW p \in Proc, op'[p] = Returned(p),
           \A i \in Instance : inst'[i].lifecycle # p
    PROVE  Mine(p)' /\ Returned(p) \in Op /\ Refs(Returned(p)) = {None}
           /\ Returned(p).at \in {"idle", "select"} /\ Returned(p).then = "return"
           /\ Returned(p).id = None /\ (p # Worker => Returned(p) = Idle)
  <1>1. Returned(p) = IF p = Worker THEN Selecting ELSE Idle BY DEF Returned, Selecting
  <1>2. /\ Returned(p) \in Op /\ Refs(Returned(p)) = {None}
        /\ Returned(p).at = IF p = Worker THEN "select" ELSE "idle"
        /\ Returned(p).then = "return" /\ Returned(p).id = None
    BY <1>1, IdleFacts
  <1>3. Returned(p).new = None BY <1>2 DEF Refs
  <1>4. Proper(p)'
    BY <1>2, <1>3 DEF Proper, WorkerOnly, Named, OnCurrent, Targeting, WithCandidate, ClosePlace, Nameless
  <1>5. Identity(p)' BY <1>2 DEF Identity
  <1>6. Locked(p)' BY <1>2 DEF Locked, OnLocked, OnClosed
  <1>7. Candidate(p)' BY <1>3 DEF Candidate
  <1>8. Released(p)' BY DEF Released
  <1>9. QED BY <1>1, <1>2, <1>4, <1>5, <1>6, <1>7, <1>8 DEF Mine

\* A call that returns.
LEMMA ReturnStep ==
    ASSUME Sound, NEW p \in Proc, NEW f, Marked(p, f), Return(p, f) \/ ReturnAndRetry(p, f),
           Elsewhere(p), listening' = listening,
           op[p].at \notin {"record", "closing", "idle"}, ~Booting(p)
    PROVE  Sound'
  <1> DEFINE o == Returned(p)
  <1>1. InstQuiet(p) /\ \A i \in Instance : inst'[i].lifecycle # p
    BY UnlockQuiet DEF Return, ReturnAndRetry
  <1>2. o \in Op /\ o.at # "off" BY IdleFacts DEF Returned, Selecting
  <1>3. Moved(p, o)
    BY <1>2, MoveOp, MoveRetry DEF Return, ReturnAndRetry
  <1>4. Mine(p)' /\ Refs(o) = {None} /\ o.at \in {"idle", "select"} /\ o.then = "return"
    BY <1>1, <1>3, ReturnedMine DEF Moved
  <1> HIDE DEF o
  <1>5. QED BY <1>1, <1>3, <1>4, QuietStep

\* A change that ends with a discovery.
LEMMA DiscoveryMine ==
    ASSUME Sound, NEW p \in Proc, GotoDiscovery(p)
    PROVE  \E o \in Op : /\ Moved(p, o) /\ Mine(p)' /\ Refs(o) = {None} /\ o.id = None
                         /\ o.at = "discover" /\ o.then = "return"
  <1> DEFINE o == [Idle EXCEPT !.at = "discover", !.left = Provider]
  <1>1. /\ o \in Op /\ Refs(o) = {None} /\ o.at = "discover" /\ o.then = "return" /\ o.new = None
        /\ o.id = None
    BY DEF Idle, Op, Place, Refs
  <1>2. op' = [op EXCEPT ![p] = o] BY DEF GotoDiscovery
  <1> HIDE DEF o
  <1>3. Moved(p, o) /\ op'[p] = o BY <1>1, <1>2, MoveOp DEF Moved
  <1>4. Proper(p)'
    BY <1>1, <1>3 DEF Proper, WorkerOnly, Shared, Named, OnCurrent, Targeting, WithCandidate, ClosePlace, Nameless
  <1>5. Identity(p)' BY <1>1, <1>3 DEF Identity
  <1>6. Locked(p)' BY <1>1, <1>3 DEF Locked, OnLocked, OnClosed
  <1>7. Candidate(p)' BY <1>1, <1>3 DEF Candidate
  <1>8. Released(p)' BY <1>1, <1>3 DEF Released, Waiting
  <1>9. QED BY <1>1, <1>3, <1>4, <1>5, <1>6, <1>7, <1>8 DEF Mine

LEMMA DiscoveryStep ==
    ASSUME Sound, NEW p \in Proc, GotoDiscovery(p), InstQuiet(p), Elsewhere(p),
           listening' = listening, op[p].at \notin {"record", "closing"}, ~Booting(p),
           p \in Caller => op[p].at # "idle" \/ Booted
    PROVE  Sound'
  <1>1. PICK o \in Op : /\ Moved(p, o) /\ Mine(p)' /\ Refs(o) = {None}
                        /\ o.at = "discover" /\ o.then = "return"
    BY DiscoveryMine
  <1>2. QED BY <1>1, QuietStep

\* A call that goes on to another place.
LEMMA GoStep ==
    ASSUME Sound, NEW p \in Proc, NEW place \in Place, Goto(p, place), InstQuiet(p), Elsewhere(p),
           listening' = listening, op[p].at \notin {"record", "closing", "idle"}, ~Booting(p),
           place \notin {"record", "closing", "boot"}, Proper(p)', Locked(p)', Released(p)',
           op[p].new # None =>
               /\ inst'[op[p].new] = inst[op[p].new] /\ op[p].new \notin inflight'
               /\ op[p].new \in open' => place = "applyInstall"
    PROVE  Sound'
  <1>1. PICK o \in Op : /\ Moved(p, o) /\ o.at = place
                        /\ o.id = op[p].id /\ o.cur = op[p].cur /\ o.new = op[p].new
                        /\ o.target = op[p].target /\ o.then = op[p].then
    BY GoOp
  <1>2. Local(p) BY QuietLocal
  <1>3. op[p].new # None => op[p].new \notin Live'
    <2>1. Candidate(p) BY DEF Sound
    <2>2. QED BY <2>1 DEF Candidate, Elsewhere, Live
  <1>4. Identity(p)' /\ Candidate(p)' /\ Refs(o) \ {None} \subseteq Reach(p)
    BY <1>1, <1>2, <1>3, MineKept
  <1>5. Mine(p)' BY <1>4 DEF Mine
  <1>6. o.then # "boot" BY <1>1 DEF Booting
  <1>7. QED BY <1>1, <1>4, <1>5, <1>6, QuietStep

\* The conditions on the other variables that most steps meet.
LEMMA ElsewhereSame ==
    ASSUME Sound, NEW p \in Proc, UNCHANGED <<table, closed, inflight, calls, overlapped>>,
           open' \in SUBSET Instance, listening' \in [Instance -> Nat],
           \A i \in open' \ open : i \in Reach(p) /\ inst[i].lifecycle \in {None, p},
           leaked' \in SUBSET Instance, deaf' \in SUBSET Instance, Succeed \/ Fail
    PROVE  Elsewhere(p)
  <1>1. failures' \in 0 .. MaxFailures
    BY BoundAssumption DEF Sound, TypeOK, Succeed, Fail
  <1>2. OthersTyped' BY <1>1 DEF Sound, TypeOK, OthersTyped
  <1>3. QED BY <1>2 DEF Elsewhere

\* Being at a place of its own p is not in Initialize.
LEMMA NotBooting ==
    ASSUME Sound, NEW p \in Proc, op[p].at \notin {"boot", "subscribe", "record"}
    PROVE  ~Booting(p)
  BY DEF Sound, Boot, BootAt, Booting
-----------------------------------------------------------------------------
(* The steps of Apply.                                                     *)

\* No variable but inst and op changes in these; the failures may.
Externals == UNCHANGED <<table, closed, open, listening, inflight, leaked, deaf, callVars>>

LEMMA ElsewhereExternals ==
    ASSUME Sound, NEW p \in Proc, Externals, Succeed \/ Fail
    PROVE  Elsewhere(p) /\ listening' = listening
  <1>1. /\ open \in SUBSET Instance /\ listening \in [Instance -> Nat]
        /\ leaked \in SUBSET Instance /\ deaf \in SUBSET Instance
    BY DEF Sound, TypeOK
  <1>2. QED BY <1>1, ElsewhereSame DEF Externals, callVars

LEMMA ApplyChangedStep ==
    ASSUME Sound, NEW p \in Proc, ApplyChanged(p), UNCHANGED callVars
    PROVE  Sound'
  <1>1. Externals /\ Succeed BY DEF ApplyChanged, Externals, externalVars, Succeed
  <1>2. QED
    BY <1>1, ElsewhereExternals, MarkedSame, NotBooting, ReturnStep DEF ApplyChanged

LEMMA ReconfigureStep ==
    ASSUME Sound, NEW p \in Proc, Reconfigure(p), UNCHANGED callVars
    PROVE  Sound'
  <1> DEFINE i == op[p].cur
  <1>1. /\ op[p].at = "applyLock" /\ inst[i].lifecycle = None /\ Externals
    BY DEF Reconfigure, ApplyLocked, Externals
  <1>2. Mine(p) /\ ~Booting(p) BY <1>1, SoundAt, NotBooting
  <1>3. i \in Instance /\ i # None BY <1>1, <1>2, NoneAssumption DEF Mine, Proper, OnCurrent
  <1>4. i \in Reach(p) BY <1>3, SoundAt DEF Refs
  <1>5. CASE Fail /\ Return(p, inst)
    BY <1>1, <1>2, <1>5, ElsewhereExternals, MarkedSame, ReturnStep
  <1>6. CASE Succeed /\ inst' = [inst EXCEPT ![i].lifecycle = p] /\ Goto(p, "reconfigured")
    <2>4. InstQuiet(p) /\ inst'[i].lifecycle = p /\ \A j \in Instance : j # i => inst'[j] = inst[j]
      BY <1>1, <1>4, <1>6, LockQuiet
    <2>5. "reconfigured" \in Place BY DEF Place
    <2>6. op'[p].at = "reconfigured" /\ op'[p].cur = i /\ op'[p].id = op[p].id /\ op'[p].new = op[p].new
      BY <1>6, <2>5, GoOp DEF Moved
    <2>7. Proper(p)'
      BY <1>1, <1>2, <2>6 DEF Mine, Proper, WorkerOnly, Shared, Named, OnCurrent, Targeting,
                              WithCandidate, ClosePlace, Nameless
    <2>8. Locked(p)' BY <2>4, <2>6 DEF Locked, OnLocked, OnClosed
    <2>9. Released(p)' BY <2>6 DEF Released, Waiting
    <2>10. ASSUME op[p].new # None
           PROVE  inst'[op[p].new] = inst[op[p].new] /\ op[p].new \notin inflight'
                  /\ op[p].new \notin open'
      <3>1. op[p].new # i /\ op[p].new \notin inflight \cup open
        BY <1>1, <1>2, <2>10 DEF Mine, Candidate
      <3>2. op[p].new \in Instance BY <2>10, SoundAt DEF Refs
      <3>3. QED BY <1>1, <2>4, <3>1, <3>2 DEF Externals
    <2>11. QED
      BY <1>1, <1>2, <1>6, <2>4, <2>5, <2>7, <2>8, <2>9, <2>10, ElsewhereExternals, GoStep
  <1>7. QED BY <1>5, <1>6 DEF Reconfigure

\* What p knows of its candidate.
LEMMA CandidateFacts ==
    ASSUME Sound, NEW p \in Proc, op[p].new # None
    PROVE  /\ op[p].new \in Instance /\ op[p].new \notin inflight \cup Live /\ op[p].new # op[p].cur
           /\ op[p].at # "applyInstall" => op[p].new \notin open
           /\ listening[op[p].new] = 0 /\ inst[op[p].new].lifecycle = None
           /\ inst[op[p].new].id = op[p].id /\ op[p].new \in Reach(p)
           /\ ~inst[op[p].new].unsubscribe /\ inst[op[p].new].status = "unused"
  <1>1. Candidate(p) /\ op[p].new \in Instance /\ op[p].new \in Reach(p)
    BY SoundAt DEF Mine, Refs
  <1>2. /\ inst[op[p].new].lifecycle = None /\ inst[op[p].new].id = op[p].id
        /\ ~inst[op[p].new].unsubscribe /\ inst[op[p].new].status = "unused"
    BY <1>1 DEF Candidate, Unused
  <1>3. QED BY <1>1, <1>2 DEF Candidate

\* The instance that p works on.
LEMMA CurrentFacts ==
    ASSUME Sound, NEW p \in Proc, op[p].at \in OnCurrent
    PROVE  /\ op[p].cur \in Instance /\ op[p].cur # None /\ op[p].cur \in Reach(p)
           /\ op[p].at \in OnLocked => inst[op[p].cur].lifecycle = p
           /\ inst[op[p].cur].id \in Provider
           /\ op[p].id # None => inst[op[p].cur].id = op[p].id
           /\ ~Garbage(op[p].cur)
  <1>1. Mine(p) BY SoundAt
  <1>2. op[p].cur \in Instance /\ op[p].cur # None
    BY <1>1, NoneAssumption DEF Mine, Proper
  <1>3. op[p].cur \in Reach(p) /\ op[p].cur \in Refs(op[p]) /\ ~Garbage(op[p].cur)
    BY <1>2, SoundAt DEF Refs
  <1>4. QED BY <1>1, <1>2, <1>3 DEF Mine, Locked, Identity

LEMMA ReconciledStep ==
    ASSUME Sound, NEW p \in Proc, reconcileReconfigured(p), UNCHANGED callVars
    PROVE  Sound'
  <1> DEFINE i == op[p].cur
  <1>1. op[p].at = "reconfigured" /\ ~Booting(p)
    BY NotBooting DEF reconcileReconfigured
  <1>2. i \in Instance /\ i \in Reach(p) BY <1>1, CurrentFacts DEF OnCurrent
  <1>3. /\ UNCHANGED <<table, closed, open, listening, inflight, leaked, calls, overlapped>>
        /\ deaf' \in SUBSET Instance /\ (Succeed \/ Fail)
    BY <1>2 DEF reconcileReconfigured, callVars, Sound, TypeOK
  <1>4. Elsewhere(p) /\ listening' = listening
    <2>1. /\ open \in SUBSET Instance /\ listening \in [Instance -> Nat]
          /\ leaked \in SUBSET Instance
      BY DEF Sound, TypeOK
    <2>2. QED BY <1>3, <2>1, ElsewhereSame
  <1>5. CASE Return(p, inst)
    BY <1>1, <1>4, <1>5, MarkedSame, ReturnStep
  <1>6. CASE inst' = [inst EXCEPT ![i].status = "running"] /\ GotoDiscovery(p)
    <2>1. "running" \in Status BY DEF Status
    <2>2. InstQuiet(p) BY <1>2, <1>6, <2>1, MarkedStatus, MarkedQuiet
    <2>3. QED BY <1>1, <1>4, <1>6, <2>2, DiscoveryStep
  <1>7. QED BY <1>5, <1>6 DEF reconcileReconfigured

LEMMA ReplaceCloseStep ==
    ASSUME Sound, NEW p \in Proc, ReplaceClose(p), UNCHANGED callVars
    PROVE  Sound'
  <1> DEFINE i == op[p].cur
  <1>1. op[p].at = "applyClose" /\ ~Booting(p) BY NotBooting DEF ReplaceClose
  <1>2. i \in Instance /\ i \in Reach(p) /\ inst[i].lifecycle = p /\ i # None
    BY <1>1, CurrentFacts DEF OnCurrent, OnLocked
  <1>3. Elsewhere(p) /\ listening' = listening
    <2>1. /\ UNCHANGED <<table, closed, listening, inflight, leaked, deaf, calls, overlapped>>
          /\ open' \subseteq open /\ (Succeed \/ Fail)
      BY DEF ReplaceClose, callVars
    <2>2. /\ open' \in SUBSET Instance /\ listening \in [Instance -> Nat]
          /\ leaked \in SUBSET Instance /\ deaf \in SUBSET Instance
      BY <2>1 DEF Sound, TypeOK
    <2>3. QED BY <2>1, <2>2, ElsewhereSame
  <1>4. CASE open' = open \ {i} /\ Goto(p, "applyInit") /\ UNCHANGED inst
    <2>1. "applyInit" \in Place BY DEF Place
    <2>2. /\ op'[p].at = "applyInit" /\ op'[p].cur = i /\ op'[p].id = op[p].id
          /\ op'[p].new = op[p].new
      BY <1>4, <2>1, GoOp DEF Moved
    <2>3. Proper(p) /\ op[p].new # None
      BY <1>1, SoundAt, NoneAssumption DEF Mine, Proper, WithCandidate
    <2>4. Proper(p)'
      BY <1>1, <2>2, <2>3 DEF Proper, WorkerOnly, Shared, Named, OnCurrent, Targeting,
                              WithCandidate, ClosePlace, Nameless
    <2>5. Locked(p)' BY <1>2, <1>4, <2>2 DEF Locked, OnLocked, OnClosed
    <2>6. Released(p)' BY <2>2 DEF Released, Waiting
    <2>7. inst'[op[p].new] = inst[op[p].new] /\ op[p].new \notin inflight' /\ op[p].new \notin open'
      BY <1>1, <1>4, <2>3, CandidateFacts DEF ReplaceClose
    <2>8. InstQuiet(p) BY <1>4, MarkedSame, MarkedQuiet
    <2>9. QED BY <1>1, <1>3, <1>4, <2>1, <2>4, <2>5, <2>6, <2>7, <2>8, GoStep
  <1>5. CASE \E s \in FailureStatus : ReturnAndRetry(p, markIfCurrent(i, s))
    BY <1>1, <1>2, <1>3, <1>5, MarkedIfCurrent, ReturnStep
  <1>6. QED BY <1>4, <1>5 DEF ReplaceClose

\* The candidate is given up.
LEMMA GiveUpStep ==
    ASSUME Sound, NEW p \in Proc, op[p].at \in {"applyInit", "applyInstall"}, GiveUpCandidate(p),
           UNCHANGED inst, open' \subseteq open, Elsewhere(p), InstQuiet(p), listening' = listening
    PROVE  Sound'
  <1>1. op[p] \in Op /\ Mine(p) BY SoundAt
  <1> DEFINE o == [op[p] EXCEPT !.at = "restore", !.new = None]
  <1>2. /\ o \in Op /\ o.at = "restore" /\ o.new = None /\ o.cur = op[p].cur
        /\ o.id = op[p].id /\ o.target = op[p].target /\ o.then = op[p].then
    BY <1>1 DEF Op, Place
  <1>3. op' = [op EXCEPT ![p] = o] BY <1>1 DEF GiveUpCandidate, Op
  <1> HIDE DEF o
  <1>4. Moved(p, o) /\ op'[p] = o BY <1>2, <1>3, MoveOp DEF Moved
  <1>5. Local(p) BY QuietLocal
  <1>6. Identity(p)' /\ Candidate(p)' /\ Refs(o) \ {None} \subseteq Reach(p)
    BY <1>2, <1>4, <1>5, MineKept
  <1>7. Proper(p)'
    BY <1>1, <1>2, <1>4 DEF Mine, Proper, WorkerOnly, Shared, Named, OnCurrent, Targeting,
                            WithCandidate, ClosePlace, Nameless
  <1>8. Locked(p)' BY <1>1, <1>2, <1>4 DEF Mine, Locked, OnLocked, OnClosed
  <1>9. Released(p)' BY <1>2, <1>4 DEF Released, Waiting
  <1>10. Mine(p)' BY <1>6, <1>7, <1>8, <1>9 DEF Mine
  <1>11. ~Booting(p) BY NotBooting
  <1>12. o.then # "boot" BY <1>2, <1>11 DEF Booting
  <1>13. QED BY <1>2, <1>4, <1>6, <1>10, <1>11, <1>12, QuietStep

LEMMA ApplyInitializeStep ==
    ASSUME Sound, NEW p \in Proc, ApplyInitialize(p), UNCHANGED callVars
    PROVE  Sound'
  <1> DEFINE n == op[p].new
  <1>1. op[p].at = "applyInit" /\ ~Booting(p) BY NotBooting DEF ApplyInitialize
  <1>2. Mine(p) BY SoundAt
  <1>3. n \in Instance /\ n # None
    BY <1>1, <1>2, NoneAssumption DEF Mine, Proper, WithCandidate
  <1>4. n \in Reach(p) /\ inst[n].lifecycle = None /\ n # op[p].cur /\ n \notin inflight
    BY <1>3, CandidateFacts
  <1>5. UNCHANGED <<table, inst, closed, listening, inflight, leaked, deaf, calls, overlapped>>
    BY DEF ApplyInitialize, managerVars, callVars
  <1>6. open' = open \cup {n} \/ open' = open BY DEF ApplyInitialize
  <1>7. Elsewhere(p) /\ listening' = listening
    <2>1. /\ open' \in SUBSET Instance /\ listening \in [Instance -> Nat]
          /\ leaked \in SUBSET Instance /\ deaf \in SUBSET Instance
      BY <1>3, <1>6 DEF Sound, TypeOK
    <2>2. Succeed \/ Fail BY DEF ApplyInitialize
    <2>3. QED BY <1>4, <1>5, <1>6, <2>1, <2>2, ElsewhereSame
  <1>8. InstQuiet(p) BY <1>5, MarkedSame, MarkedQuiet
  <1>9. CASE open' = open \cup {n} /\ Goto(p, "applyInstall")
    <2>1. "applyInstall" \in Place BY DEF Place
    <2>2. /\ op'[p].at = "applyInstall" /\ op'[p].cur = op[p].cur /\ op'[p].id = op[p].id
          /\ op'[p].new = n
      BY <1>9, <2>1, GoOp DEF Moved
    <2>3. Proper(p)'
      BY <1>1, <1>2, <2>2 DEF Mine, Proper, WorkerOnly, Shared, Named, OnCurrent, Targeting,
                              WithCandidate, ClosePlace, Nameless
    <2>4. Locked(p)'
      BY <1>1, <1>2, <1>4, <1>5, <1>9, <2>2 DEF Mine, Locked, OnLocked, OnClosed
    <2>5. Released(p)' BY <2>2 DEF Released, Waiting
    <2>6. QED BY <1>1, <1>4, <1>5, <1>7, <1>8, <1>9, <2>1, <2>3, <2>4, <2>5, GoStep
  <1>10. CASE GiveUpCandidate(p) /\ open' = open
    BY <1>1, <1>5, <1>7, <1>8, <1>10, GiveUpStep
  <1>11. QED BY <1>9, <1>10 DEF ApplyInitialize

LEMMA CandidateFailsStep ==
    ASSUME Sound, NEW p \in Proc, CandidateFails(p), UNCHANGED callVars
    PROVE  Sound'
  <1>1. op[p].at = "applyInstall" /\ ~Booting(p) BY NotBooting DEF CandidateFails
  <1>2. op[p].new \in Instance BY <1>1, SoundAt DEF Mine, Proper, WithCandidate
  <1>3. /\ UNCHANGED <<table, inst, closed, listening, inflight, deaf, calls, overlapped>>
        /\ open' \subseteq open /\ leaked' \in SUBSET Instance /\ Fail /\ GiveUpCandidate(p)
    BY <1>2 DEF CandidateFails, managerVars, callVars, Sound, TypeOK
  <1>4. Elsewhere(p) /\ listening' = listening
    <2>1. /\ open' \in SUBSET Instance /\ listening \in [Instance -> Nat]
          /\ deaf \in SUBSET Instance
      BY <1>3 DEF Sound, TypeOK
    <2>2. QED BY <1>3, <2>1, ElsewhereSame
  <1>5. InstQuiet(p) BY <1>3, MarkedSame, MarkedQuiet
  <1>6. QED BY <1>1, <1>3, <1>4, <1>5, GiveUpStep

\* Where goroutine p can be.
LEMMA CallerPlaces ==
    ASSUME Sound, NEW p \in Proc, op[p].at \notin WorkerOnly \cup Shared
    PROVE  p \in Caller /\ p # Worker
  BY WorkerAssumption DEF Sound, Proper, Proc

\* The candidate takes its place in the table.
LEMMA InstallStep ==
    ASSUME Sound, NEW p \in Proc, Install(p), UNCHANGED callVars
    PROVE  Sound'
  <1> DEFINE n == op[p].new
             id == op[p].id
             old == table[id]
             o == [Attach(p, n, "discover") EXCEPT !.cur = None, !.new = None]
  <1>1. op[p].at = "applyInstall" /\ ~Booting(p) BY NotBooting DEF Install
  <1>2. op[p] \in Op /\ Mine(p) BY SoundAt
  <1>3. p \in Caller /\ p # Worker BY <1>1, CallerPlaces DEF WorkerOnly, Shared
  <1>4. n \in Instance /\ n # None /\ id \in Provider /\ id # None
    BY <1>1, <1>2, NoneAssumption DEF Mine, Proper, WithCandidate, Named
  <1>5. n \in Reach(p) /\ n \notin Live /\ inst[n].id = id BY <1>4, CandidateFacts
  <1>6. old # n /\ (old # None => old \in Reach(p))
    BY <1>3, <1>4, <1>5, SoundTable DEF Reach
  <1>7. /\ o \in Op /\ o.at = "subscribe" /\ o.then = "discover" /\ o.new = None /\ o.id = id
        /\ Refs(o) = {None, n} /\ o.target = n
    BY <1>2, <1>4 DEF Op, Place, Attach, Refs
  <1>8. Moved(p, o) /\ op'[p] = o BY <1>7, MoveOp DEF Install, Moved
  <1>9. UNCHANGED <<closed, open, listening, inflight, failures, leaked, calls, overlapped>>
    BY DEF Install, callVars
  <1>10. table' = [table EXCEPT ![id] = n] /\ deaf' \in SUBSET Instance
    BY DEF Install, Sound, TypeOK
  <1>11. Marked(p, inst')
    <2>1. ASSUME NEW i \in Instance
          PROVE  /\ inst'[i] \in Managed
                 /\ inst'[i].id = inst[i].id /\ inst'[i].unsubscribe = inst[i].unsubscribe
                 /\ inst'[i].lifecycle = inst[i].lifecycle
                 /\ i \notin Reach(p) => inst'[i] = inst[i]
      <3>1. inst[i] \in Managed /\ i # None BY NoneAssumption DEF Sound, TypeOK
      <3>2. CASE i = n
        <4>1. inst'[i] = [inst[i] EXCEPT !.status = "running"] BY <1>6, <3>2 DEF Install
        <4>2. QED BY <1>5, <3>1, <3>2, <4>1 DEF Managed, Status
      <3>3. CASE i # n /\ i = old
        <4>1. inst'[i] = [inst[i] EXCEPT !.status = "unused"] BY <3>3 DEF Install
        <4>2. QED BY <1>6, <3>1, <3>3, <4>1 DEF Managed, Status
      <3>4. CASE i # n /\ i # old
        <4>1. inst'[i] = inst[i] BY <3>4 DEF Install
        <4>2. QED BY <3>1, <4>1
      <3>5. QED BY <3>2, <3>3, <3>4
    <2>2. inst' \in [Instance -> Managed] BY <2>1 DEF Install
    <2>3. QED BY <2>1, <2>2 DEF Marked
  <1> HIDE DEF o
  <1>12. InstQuiet(p) BY <1>11, MarkedQuiet
  <1>13. table \in [Provider -> Instance \cup {None}] BY DEF Sound, TypeOK
  <1>14. OthersTyped' BY <1>4, <1>9, <1>10 DEF Sound, TypeOK, OthersTyped
  <1>15. Local(p)
    <2>1. \A i \in Instance : Changed(p, i) BY <1>12 DEF InstQuiet, Changed
    <2>2. \A i \in Instance \ Reach(p) : Untouched(i) BY <1>9, <1>12 DEF InstQuiet, Untouched
    <2>3. Live' \subseteq Live \cup {n} BY <1>10, <1>13 DEF Live
    <2>4. QED BY <1>3, <1>4, <1>9, <1>12, <2>1, <2>2, <2>3 DEF Local, InstQuiet
  <1>16. TableIds'
    <2>1. ASSUME NEW d \in Provider, table'[d] # None PROVE inst'[table'[d]].id = d
      <3>1. CASE d = id
        BY <1>4, <1>5, <1>10, <1>12, <1>13, <3>1 DEF InstQuiet
      <3>2. CASE d # id
        <4>1. table'[d] = table[d] BY <1>10, <1>13, <3>2
        <4>2. QED BY <1>12, <2>1, <4>1, SoundTable DEF InstQuiet
      <3>3. QED BY <3>1, <3>2
    <2>2. QED BY <2>1 DEF TableIds
  <1>17. Boot' BY <1>1, <1>3, <1>7, <1>8, BootOver
  <1>18. Count' BY <1>1, <1>7, <1>8, <1>9, <1>12, CountKept DEF InstQuiet
  <1>19. Mine(p)'
    <2>1. Proper(p)'
      BY <1>3, <1>4, <1>7, <1>8 DEF Proper, WorkerOnly, Named, OnCurrent, Targeting, WithCandidate,
                                    ClosePlace, Nameless
    <2>2. Identity(p)' BY <1>4, <1>5, <1>7, <1>8, <1>12 DEF Identity, InstQuiet
    <2>3. Locked(p)' BY <1>3, <1>7, <1>8 DEF Locked, OnLocked, OnClosed
    <2>4. Candidate(p)' BY <1>7, <1>8 DEF Candidate
    <2>5. Released(p)' BY <1>7, <1>8 DEF Released, Waiting
    <2>6. QED BY <2>1, <2>2, <2>3, <2>4, <2>5 DEF Mine
  <1>20. Refs(o) \ {None} \subseteq Reach(p) BY <1>5, <1>7
  <1>21. QED BY <1>8, <1>14, <1>15, <1>16, <1>17, <1>18, <1>19, <1>20, SoundFromParts

\* The old provider comes back, or its failure is recorded.
LEMMA RestoreStep ==
    ASSUME Sound, NEW p \in Proc, restoreAfterFailedReplacement(p), UNCHANGED callVars
    PROVE  Sound'
  <1> DEFINE i == op[p].cur
             o == Attach(p, i, "return")
  <1>1. op[p].at = "restore" /\ ~Booting(p) BY NotBooting DEF restoreAfterFailedReplacement
  <1>2. op[p] \in Op /\ Mine(p) BY SoundAt
  <1>3. p \in Caller /\ p # Worker BY <1>1, CallerPlaces DEF WorkerOnly, Shared
  <1>4. i # None => i \in Instance /\ i \in Reach(p) /\ inst[i].lifecycle = p
    BY <1>1, <1>2, SoundAt DEF Refs, Mine, Locked, OnClosed
  <1>5. /\ UNCHANGED <<table, closed, listening, inflight, leaked, deaf, calls, overlapped>>
        /\ open' = open \/ (i # None /\ open' = open \cup {i})
        /\ Succeed \/ Fail
    BY DEF restoreAfterFailedReplacement, callVars, Succeed
  <1>6. Elsewhere(p) /\ listening' = listening
    <2>1. /\ open' \in SUBSET Instance /\ listening \in [Instance -> Nat]
          /\ leaked \in SUBSET Instance /\ deaf \in SUBSET Instance
      BY <1>4, <1>5 DEF Sound, TypeOK
    <2>2. \A j \in open' \ open : j \in Reach(p) /\ inst[j].lifecycle \in {None, p}
      BY <1>4, <1>5
    <2>3. QED BY <1>5, <2>1, <2>2, ElsewhereSame
  <1>7. CASE i = None /\ Return(p, inst)
    BY <1>1, <1>6, <1>7, MarkedSame, ReturnStep
  <1>8. CASE i # None /\ \E s \in FailureStatus : ReturnAndRetry(p, markIfCurrent(i, s))
    BY <1>1, <1>4, <1>6, <1>8, MarkedIfCurrent, ReturnStep
  <1>9. CASE /\ i # None /\ op' = [op EXCEPT ![p] = o]
             /\ inst' = IF table[op[p].id] = i THEN [inst EXCEPT ![i].status = "running"] ELSE inst
    <2>1. Marked(p, inst')
      <3>1. "running" \in Status BY DEF Status
      <3>2. QED BY <1>4, <1>9, <3>1, MarkedSame, MarkedStatus
    <2>2. InstQuiet(p) BY <2>1, MarkedQuiet
    <2>3. Local(p) BY <1>6, <2>2, QuietLocal
    <2>4. op[p].new = None BY <1>1, <1>2 DEF Mine, Proper, WithCandidate
    <2>5. /\ o \in Op /\ o.at = "subscribe" /\ o.then = "return" /\ o.new = None
          /\ o.id = op[p].id /\ o.cur = i /\ o.target = i
      BY <1>2, <1>4, <1>9, <2>4 DEF Op, Place, Attach
    <2> HIDE DEF o
    <2>6. Moved(p, o) /\ op'[p] = o BY <1>9, <2>5, MoveOp DEF Moved
    <2>7. Identity(p)' /\ Candidate(p)' /\ Refs(o) \ {None} \subseteq Reach(p)
      BY <2>3, <2>5, <2>6, MineKept
    <2>8. Proper(p)'
      BY <1>1, <1>2, <1>4, <1>9, <2>5, <2>6
      DEF Mine, Proper, WorkerOnly, Shared, Named, OnCurrent, Targeting, WithCandidate, ClosePlace, Nameless
    <2>9. Locked(p)' BY <1>3, <2>5, <2>6 DEF Locked, OnLocked, OnClosed
    <2>10. Released(p)' BY <2>5, <2>6 DEF Released, Waiting
    <2>11. Mine(p)' BY <2>7, <2>8, <2>9, <2>10 DEF Mine
    <2>12. QED BY <1>1, <1>6, <2>2, <2>5, <2>6, <2>7, <2>11, QuietStep
  <1>10. QED BY <1>7, <1>8, <1>9 DEF restoreAfterFailedReplacement
-----------------------------------------------------------------------------
(* The end of a subscription.                                              *)

\* An instance whose mutex is free or held by p is closed by nobody else.
LEMMA NotClosed ==
    ASSUME Sound, NEW p \in Proc, NEW i \in Instance, inst[i].lifecycle \in {None, p},
           op[p].at # "closing"
    PROVE  ~ClosedBy(i)
  <1>1. ASSUME NEW q \in Proc, op[q].at = "closing", op[q].cur = i PROVE FALSE
    <2>1. inst[i].lifecycle = q BY <1>1, SoundAt DEF Mine, Locked, OnLocked
    <2>2. q # None BY NoneAssumption DEF Proc
    <2>3. QED BY <1>1, <2>1, <2>2
  <1>2. QED BY <1>1 DEF ClosedBy

\* The recorded subscription of i ends; it is forgotten now, or by p when it has
\* closed the provider.
LEMMA CountUnsubscribed ==
    ASSUME Sound, NEW p \in Proc, NEW o, Moved(p, o), NEW i \in Instance, ~ClosedBy(i),
           Unsubscribe(i), UNCHANGED closed,
           \A j \in Instance : j # i => inst'[j].unsubscribe = inst[j].unsubscribe,
           op[p].at \notin {"record", "closing"}, o.at # "record",
           \/ inst'[i].unsubscribe = FALSE /\ o.at # "closing"
           \/ o.at = "closing" /\ o.cur = i /\ closed
    PROVE  Count' /\ listening' \in [Instance -> Nat]
           /\ \A j \in Instance : j # i => listening'[j] = listening[j]
  <1>1. \A q \in Proc \ {p} : /\ op'[q].at = "record" <=> op[q].at = "record"
                              /\ op'[q].at = "closing" <=> op[q].at = "closing"
                              /\ op[q].at \in {"record", "closing"} => op'[q] = op[q]
    BY IdleFacts DEF Moved
  <1>2. op'[p] = o BY DEF Moved
  <1>3. ASSUME NEW j \in Instance
        PROVE  /\ Recorders(j)' = Recorders(j)
               /\ j # i => (ClosedBy(j)' <=> ClosedBy(j))
    BY <1>1, <1>2 DEF Recorders, ClosedBy
  <1>4. o.at = "closing" => ClosedBy(i)' BY <1>2 DEF ClosedBy
  <1>5. ASSUME NEW j \in Instance
        PROVE  IsFiniteSet(Recorders(j)) /\ Cardinality(Recorders(j)) \in Nat
    BY FS_CardinalityType DEF Sound, Count
  <1>6. listening \in [Instance -> Nat] BY DEF Sound, TypeOK
  <1>7. inst[i].unsubscribe => listening[i] >= Cardinality(Recorders(i)) + 1
    BY DEF Sound, Count
  <1>8. listening[i] >= Cardinality(Recorders(i)) BY <1>5, <1>6 DEF Sound, Count
  <1>9. /\ \A j \in Instance : j # i => listening'[j] = listening[j]
        /\ listening'[i] = IF inst[i].unsubscribe THEN listening[i] - 1 ELSE listening[i]
        /\ listening' \in [Instance -> Nat]
    BY <1>5, <1>6, <1>7 DEF Unsubscribe
  <1>10. listening'[i] >= Cardinality(Recorders(i))
    BY <1>5, <1>6, <1>7, <1>8, <1>9
  <1>11. ASSUME ~closed
         PROVE  listening'[i] = Cardinality(Recorders(i))
    <2>1. listening[i] = Cardinality(Recorders(i)) + IF inst[i].unsubscribe THEN 1 ELSE 0
      BY <1>11 DEF Sound, Count
    <2>2. QED BY <1>5, <1>6, <1>9, <2>1
  <1>12. inst'[i].unsubscribe = FALSE \/ (closed /\ ClosedBy(i)') BY <1>4
  <1>13. Count'
    <2>1. ASSUME NEW j \in Instance, j # i
          PROVE  /\ listening'[j] >= Cardinality(Recorders(j)')
                                       + IF inst'[j].unsubscribe /\ ~ClosedBy(j)' THEN 1 ELSE 0
                 /\ ~closed' => listening'[j] = Cardinality(Recorders(j)')
                                                  + IF inst'[j].unsubscribe THEN 1 ELSE 0
      BY <1>3, <1>9, <2>1 DEF Sound, Count
    <2>2. /\ listening'[i] >= Cardinality(Recorders(i)')
                                + IF inst'[i].unsubscribe /\ ~ClosedBy(i)' THEN 1 ELSE 0
          /\ ~closed' => listening'[i] = Cardinality(Recorders(i)')
                                           + IF inst'[i].unsubscribe THEN 1 ELSE 0
      BY <1>3, <1>5, <1>10, <1>11, <1>12
    <2>3. QED BY <1>3, <1>5, <2>1, <2>2 DEF Count
  <1>14. QED BY <1>9, <1>13

LEMMA ElsewhereLocal ==
    ASSUME Sound, NEW p \in Proc, inst' \in [Instance -> Managed], \A i \in Instance : Changed(p, i),
           \A i \in Instance \ Reach(p) : inst'[i] = inst[i] /\ listening'[i] = listening[i],
           Elsewhere(p)
    PROVE  Local(p)
  <1>1. \A i \in Instance \ Reach(p) : Untouched(i) BY DEF Elsewhere, Untouched
  <1>2. Live' \subseteq Live BY DEF Live, Elsewhere
  <1>3. QED BY <1>1, <1>2 DEF Local, Elsewhere

\* A step outside Initialize that ends a subscription.
LEMMA UnsubscribeStep ==
    ASSUME Sound, NEW p \in Proc, NEW o, Moved(p, o), Local(p), Refs(o) \ {None} \subseteq Reach(p),
           Elsewhere(p), Count', ~Booting(p), op[p].at # "idle", o.at # "boot", o.then # "boot",
           Mine(p)'
    PROVE  Sound'
  <1>1. TableIds' BY TableKept DEF Elsewhere
  <1>2. Boot'
    <2>1. CASE p = Worker BY <2>1, BootBesideWorker
    <2>2. CASE p \in Caller BY <2>2, BootOver
    <2>3. QED BY <2>1, <2>2 DEF Proc
  <1>3. QED BY <1>1, <1>2, SoundFromParts DEF Elsewhere

LEMMA ReplaceBeginStep ==
    ASSUME Sound, NEW p \in Proc, ReplaceBegin(p), UNCHANGED callVars
    PROVE  Sound'
  <1> DEFINE i == op[p].cur
             m == [inst[i] EXCEPT !.status = "reconfiguring", !.unsubscribe = FALSE, !.lifecycle = p]
  <1>1. op[p].at = "applyLock" /\ inst[i].lifecycle = None /\ ~Booting(p)
    BY NotBooting DEF ReplaceBegin, ApplyLocked
  <1>2. op[p] \in Op /\ Mine(p) BY SoundAt
  <1>3. i \in Instance /\ i \in Reach(p) /\ ~Garbage(i) BY <1>1, CurrentFacts DEF OnCurrent
  <1>4. inst \in [Instance -> Managed] BY DEF Sound, TypeOK
  <1>5. m \in Managed /\ m.id = inst[i].id /\ m.unsubscribe = FALSE /\ m.lifecycle = p
    BY <1>3, <1>4 DEF Managed, Status
  <1>6. inst' = [inst EXCEPT ![i] = m] BY DEF ReplaceBegin
  <1> HIDE DEF m
  <1>7. inst'[i] = m /\ inst' \in [Instance -> Managed]
        /\ \A j \in Instance : j # i => inst'[j] = inst[j]
    BY <1>3, <1>4, <1>5, <1>6
  <1>8. "applyClose" \in Place BY DEF Place
  <1>9. PICK o \in Op : /\ Moved(p, o) /\ o.at = "applyClose"
                        /\ o.id = op[p].id /\ o.cur = op[p].cur /\ o.new = op[p].new
                        /\ o.target = op[p].target /\ o.then = op[p].then
    BY <1>8, GoOp DEF ReplaceBegin
  <1>10. /\ UNCHANGED <<table, closed, open, inflight, failures, leaked, calls, overlapped>>
         /\ deaf' \in SUBSET Instance
    BY DEF ReplaceBegin, callVars, Sound, TypeOK
  <1>11. ~ClosedBy(i) /\ Unsubscribe(i) BY <1>1, <1>3, NotClosed DEF ReplaceBegin
  <1>12. Count' /\ listening' \in [Instance -> Nat]
         /\ \A j \in Instance : j # i => listening'[j] = listening[j]
    <2>1. /\ \A j \in Instance : j # i => inst'[j].unsubscribe = inst[j].unsubscribe
          /\ inst'[i].unsubscribe = FALSE /\ UNCHANGED closed
      BY <1>5, <1>7, <1>10
    <2>2. QED BY <1>1, <1>3, <1>9, <1>11, <2>1, CountUnsubscribed
  <1>13. Elsewhere(p)
    <2>1. open \in SUBSET Instance /\ leaked \in SUBSET Instance BY DEF Sound, TypeOK
    <2>2. QED BY <1>10, <1>12, <2>1, ElsewhereSame DEF Succeed
  <1>14. Local(p)
    <2>1. \A j \in Instance : Changed(p, j) BY <1>1, <1>5, <1>7 DEF Changed
    <2>2. QED BY <1>3, <1>7, <1>12, <1>13, <2>1, ElsewhereLocal
  <1>15. op[p].new # None /\ op[p].new \in Instance
    BY <1>1, <1>2, NoneAssumption DEF Mine, Proper, WithCandidate
  <1>16. /\ op[p].new \notin inflight \cup Live /\ op[p].new # i /\ op[p].new \notin open
    BY <1>1, <1>15, CandidateFacts
  <1>17. op[p].new \notin Live' BY <1>10, <1>16 DEF Live
  <1>18. Identity(p)' /\ Candidate(p)' /\ Refs(o) \ {None} \subseteq Reach(p)
    BY <1>7, <1>9, <1>10, <1>12, <1>14, <1>15, <1>16, <1>17, MineKept
  <1>19. op'[p] = o BY <1>9 DEF Moved
  <1>20. Proper(p)'
    BY <1>1, <1>2, <1>9, <1>10, <1>19
    DEF Mine, Proper, WorkerOnly, Shared, Named, OnCurrent, Targeting, WithCandidate, ClosePlace, Nameless
  <1>21. Locked(p)' BY <1>5, <1>7, <1>9, <1>19 DEF Locked, OnLocked, OnClosed
  <1>22. Released(p)' BY <1>9, <1>19 DEF Released, Waiting
  <1>23. Mine(p)' BY <1>18, <1>20, <1>21, <1>22 DEF Mine
  <1>24. o.then # "boot" BY <1>1, <1>9 DEF Booting
  <1>25. QED BY <1>1, <1>9, <1>12, <1>13, <1>14, <1>18, <1>23, <1>24, UnsubscribeStep
-----------------------------------------------------------------------------
(* Calls, Remove and the discoveries.                                      *)

\* What a call leaves alone besides what it does.
CallFrame == /\ calls' \in 0 .. MaxCalls /\ overlapped' \in SUBSET Provider
             /\ UNCHANGED externalVars

\* An instance that nobody holds has no mutex and no subscription.
LEMMA GarbageFacts ==
    ASSUME Sound, NEW i \in Instance, Garbage(i)
    PROVE  /\ i \notin Live \cup open \cup inflight /\ listening[i] = 0
           /\ inst[i].lifecycle = None /\ inst[i].unsubscribe = FALSE
           /\ \A q \in Proc : i \notin Refs(op[q])
  <1>1. i \notin Live \cup open \cup inflight /\ listening[i] = 0 BY DEF Garbage
  <1>2. ASSUME NEW q \in Proc PROVE i \notin Refs(op[q]) /\ inst[i].lifecycle # q
    BY DEF Garbage, Holders, Refs
  <1>3. inst[i].lifecycle = None BY <1>2 DEF Sound, TypeOK, Managed
  <1>4. inst[i].unsubscribe = FALSE
    <2>1. ~ClosedBy(i) BY <1>2 DEF ClosedBy, Refs
    <2>2. IsFiniteSet(Recorders(i)) /\ Cardinality(Recorders(i)) \in Nat
      BY FS_CardinalityType DEF Sound, Count
    <2>3. inst[i].unsubscribe \in BOOLEAN BY DEF Sound, TypeOK, Managed
    <2>4. inst[i].unsubscribe => listening[i] >= Cardinality(Recorders(i)) + 1
      BY <2>1 DEF Sound, Count
    <2>5. QED BY <1>1, <2>2, <2>3, <2>4
  <1>5. QED BY <1>1, <1>2, <1>3, <1>4

LEMMA ApplyStep ==
    ASSUME Sound, NEW p \in Caller, NEW id \in Provider, Booted, Apply(p, id), CallFrame
    PROVE  Sound'
  <1> DEFINE n == CHOOSE i \in Instance : Garbage(i)
             m == [Unused EXCEPT !.id = id]
             o == [Idle EXCEPT !.at = IF table[id] = None THEN "applyInit" ELSE "applyLock",
                               !.id = id, !.cur = table[id], !.new = n]
  <1>1. p \in Proc /\ p # Worker BY WorkerAssumption DEF Proc
  <1>2. op[p].at = "idle" /\ ~Booting(p) BY <1>1, NotBooting DEF Apply
  <1>3. n \in Instance /\ Garbage(n) BY DEF Apply
  <1>4. inst' = [inst EXCEPT ![n] = m] /\ op' = [op EXCEPT ![p] = o] BY DEF Apply
  <1>5. UNCHANGED <<table, closed, open, listening, inflight, failures, leaked, deaf>>
    BY DEF Apply, externalVars
  <1>6. /\ m \in Managed /\ m.id = id /\ m.lifecycle = None /\ m.unsubscribe = FALSE
    BY DEF Unused, Managed, Status
  <1> HIDE DEF n, m
  <1>7. table[id] \in Instance \cup {None} /\ inst \in [Instance -> Managed] BY DEF Sound, TypeOK
  <1>8. n # None /\ id # None BY <1>3, NoneAssumption
  <1>9. /\ o \in Op /\ o.at = (IF table[id] = None THEN "applyInit" ELSE "applyLock")
        /\ o.id = id /\ o.cur = table[id] /\ o.new = n /\ o.target = None /\ o.then = "return"
    BY <1>3, <1>7 DEF Idle, Op, Place
  <1> HIDE DEF o
  <1>10. Moved(p, o) /\ op'[p] = o BY <1>1, <1>4, <1>9, MoveOp DEF Moved
  <1>11. /\ n \notin Live \cup open \cup inflight /\ listening[n] = 0
         /\ inst[n].lifecycle = None /\ inst[n].unsubscribe = FALSE
         /\ \A q \in Proc : n \notin Refs(op[q])
    BY <1>3, GarbageFacts
  <1>12. /\ inst' \in [Instance -> Managed] /\ inst'[n] = m
         /\ \A i \in Instance : i # n => inst'[i] = inst[i]
    BY <1>3, <1>4, <1>6, <1>7
  <1>13. n \in Reach(p) BY <1>3 DEF Reach
  <1>14. table[id] # None => /\ table[id] \in Instance /\ table[id] # n /\ table[id] \in Reach(p)
                             /\ inst[table[id]].id = id
    BY <1>11, SoundTable DEF Reach
  <1>15. OthersTyped' BY <1>5 DEF CallFrame, Sound, TypeOK, OthersTyped
  <1>16. Live' = Live BY <1>5 DEF Live
  <1>17. Local(p)
    <2>1. \A i \in Instance : Changed(p, i) BY <1>3, <1>6, <1>11, <1>12 DEF Changed
    <2>2. \A i \in Instance \ Reach(p) : Untouched(i) BY <1>5, <1>12, <1>13 DEF Untouched
    <2>3. QED BY <1>1, <1>5, <1>12, <1>16, <2>1, <2>2 DEF Local
  <1>18. TableIds' BY <1>1, <1>5, <1>17, TableKept
  <1>19. Boot' BY <1>2, <1>9, <1>10, BootOver
  <1>20. Count'
    <2>1. \A i \in Instance : inst'[i].unsubscribe = inst[i].unsubscribe
      BY <1>6, <1>11, <1>12
    <2>2. QED BY <1>1, <1>2, <1>5, <1>9, <1>10, <2>1, CountKept
  <1>21. Mine(p)'
    <2>1. Proper(p)'
      BY <1>1, <1>3, <1>8, <1>9, <1>10, <1>14
      DEF Proper, WorkerOnly, Named, OnCurrent, Targeting, WithCandidate, ClosePlace, Nameless
    <2>2. Identity(p)' BY <1>6, <1>9, <1>10, <1>12, <1>14 DEF Identity, Refs
    <2>3. Locked(p)' BY <1>1, <1>9, <1>10 DEF Locked, OnLocked, OnClosed
    <2>4. Candidate(p)'
      <3>1. \A q \in Proc \ {p} : n \notin Refs(op'[q])
        BY <1>8, <1>10, <1>11, IdleFacts DEF Moved
      <3>2. n \notin {o.cur, o.target} BY <1>8, <1>9, <1>14
      <3>3. QED BY <1>5, <1>9, <1>10, <1>11, <1>12, <1>16, <3>1, <3>2 DEF Candidate, m
    <2>5. Released(p)'
      <3>1. Released(p) BY <1>1, SoundAt DEF Mine
      <3>2. \A i \in Instance : inst[i].lifecycle # p BY <1>2, <3>1 DEF Released, Waiting
      <3>3. p # None BY <1>1, NoneAssumption DEF Proc
      <3>4. QED BY <1>6, <1>12, <3>2, <3>3 DEF Released
    <2>6. QED BY <2>1, <2>2, <2>3, <2>4, <2>5 DEF Mine
  <1>22. Refs(o) \ {None} \subseteq Reach(p) BY <1>9, <1>13, <1>14 DEF Refs
  <1>23. QED BY <1>1, <1>10, <1>15, <1>17, <1>18, <1>19, <1>20, <1>21, <1>22, SoundFromParts

\* Steps that change only op and the call counters.
LEMMA OpOnly ==
    ASSUME Sound, NEW p \in Proc, UNCHANGED <<table, inst>>, closed => closed', closed' \in BOOLEAN,
           CallFrame
    PROVE  Elsewhere(p) /\ InstQuiet(p) /\ listening' = listening
  <1>1. OthersTyped' BY DEF CallFrame, externalVars, Sound, TypeOK, OthersTyped
  <1>2. Elsewhere(p) BY <1>1 DEF Elsewhere, CallFrame, externalVars
  <1>3. InstQuiet(p) BY MarkedSame, MarkedQuiet
  <1>4. QED BY <1>2, <1>3 DEF CallFrame, externalVars

LEMMA RemoveStep ==
    ASSUME Sound, NEW p \in Caller, NEW id \in Provider, Booted, Remove(p, id), CallFrame
    PROVE  Sound'
  <1> DEFINE o == [Idle EXCEPT !.at = "removeLock", !.id = id, !.cur = table[id]]
  <1>1. p \in Proc /\ p # Worker BY WorkerAssumption DEF Proc
  <1>2. op[p].at = "idle" /\ ~Booting(p) BY <1>1, NotBooting DEF Remove
  <1>3. table[id] # None /\ op' = [op EXCEPT ![p] = o] BY DEF Remove
  <1>4. table[id] \in Instance /\ inst[table[id]].id = id /\ table[id] \in Reach(p)
    BY <1>3, SoundTable DEF Reach
  <1>5. /\ o \in Op /\ o.at = "removeLock" /\ o.id = id /\ o.cur = table[id]
        /\ o.new = None /\ o.target = None /\ o.then = "return"
    BY <1>4 DEF Idle, Op, Place
  <1> HIDE DEF o
  <1>6. Moved(p, o) /\ op'[p] = o BY <1>1, <1>3, <1>5, MoveOp DEF Moved
  <1>7. UNCHANGED <<table, inst, closed>> /\ closed \in BOOLEAN
    BY DEF Remove, managerVars, Sound, TypeOK
  <1>8. Elsewhere(p) /\ InstQuiet(p) /\ listening' = listening BY <1>1, <1>7, OpOnly
  <1>9. Proper(p)'
    BY <1>1, <1>4, <1>5, <1>6
    DEF Proper, WorkerOnly, Named, OnCurrent, Targeting, WithCandidate, ClosePlace, Nameless
  <1>10. Identity(p)' BY <1>4, <1>5, <1>6, <1>7 DEF Identity, Refs
  <1>11. Locked(p)' BY <1>1, <1>5, <1>6 DEF Locked, OnLocked, OnClosed
  <1>12. Candidate(p)' BY <1>5, <1>6 DEF Candidate
  <1>13. Released(p)'
    <2>1. Released(p) BY <1>1, SoundAt DEF Mine
    <2>2. QED BY <1>2, <1>7, <2>1 DEF Released, Waiting
  <1>14. Mine(p)' BY <1>9, <1>10, <1>11, <1>12, <1>13 DEF Mine
  <1>15. Refs(o) \ {None} \subseteq Reach(p) BY <1>4, <1>5 DEF Refs
  <1>16. QED BY <1>1, <1>2, <1>5, <1>6, <1>8, <1>14, <1>15, QuietStep

LEMMA DiscoverDevicesStep ==
    ASSUME Sound, NEW p \in Caller, Booted, DiscoverDevices(p), CallFrame
    PROVE  Sound'
  <1>1. p \in Proc BY DEF Proc
  <1>2. op[p].at = "idle" /\ ~Booting(p) BY <1>1, NotBooting DEF DiscoverDevices
  <1>3. UNCHANGED <<table, inst, closed>> /\ closed \in BOOLEAN
    BY DEF DiscoverDevices, managerVars, Sound, TypeOK
  <1>4. Elsewhere(p) /\ InstQuiet(p) /\ listening' = listening BY <1>1, <1>3, OpOnly
  <1>5. QED BY <1>1, <1>2, <1>4, DiscoveryStep DEF DiscoverDevices

LEMMA CloseStep ==
    ASSUME Sound, NEW p \in Caller, Booted, Close(p), CallFrame
    PROVE  Sound'
  <1> DEFINE o == [Idle EXCEPT !.at = "closeWait", !.left = {id \in Provider : table[id] # None}]
  <1>1. p \in Proc /\ p # Worker BY WorkerAssumption DEF Proc
  <1>2. op[p].at = "idle" /\ ~Booting(p) BY <1>1, NotBooting DEF Close
  <1>3. UNCHANGED <<table, inst>> /\ closed' = TRUE /\ op' = [op EXCEPT ![p] = o] BY DEF Close
  <1>4. Elsewhere(p) /\ InstQuiet(p) /\ listening' = listening BY <1>1, <1>3, OpOnly
  <1>5. /\ o \in Op /\ o.at = "closeWait" /\ o.new = None /\ Refs(o) = {None} /\ o.then = "return"
        /\ o.id = None
    BY DEF Idle, Op, Place, Refs
  <1> HIDE DEF o
  <1>6. Moved(p, o) /\ op'[p] = o BY <1>1, <1>3, <1>5, MoveOp DEF Moved
  <1>7. Proper(p)'
    BY <1>1, <1>3, <1>5, <1>6
    DEF Proper, WorkerOnly, Named, OnCurrent, Targeting, WithCandidate, ClosePlace, Nameless
  <1>8. Identity(p)' BY <1>5, <1>6 DEF Identity
  <1>9. Locked(p)' BY <1>1, <1>5, <1>6 DEF Locked, OnLocked, OnClosed
  <1>10. Candidate(p)' BY <1>5, <1>6 DEF Candidate
  <1>11. Released(p)'
    <2>1. Released(p) BY <1>1, SoundAt DEF Mine
    <2>2. QED BY <1>2, <1>3, <2>1 DEF Released, Waiting
  <1>12. Mine(p)' BY <1>7, <1>8, <1>9, <1>10, <1>11 DEF Mine
  <1>13. QED BY <1>1, <1>2, <1>4, <1>5, <1>6, <1>12, QuietStep

LEMMA RemoveLockedStep ==
    ASSUME Sound, NEW p \in Proc, RemoveLocked(p), UNCHANGED callVars
    PROVE  Sound'
  <1> DEFINE i == op[p].cur
             id == op[p].id
  <1>1. op[p].at = "removeLock" /\ inst[i].lifecycle = None /\ ~Booting(p)
    BY NotBooting DEF RemoveLocked
  <1>2. Mine(p) /\ p \in Caller /\ p # Worker
    BY <1>1, SoundAt, CallerPlaces DEF WorkerOnly, Shared
  <1>3. i \in Instance /\ i # None /\ i \in Reach(p) BY <1>1, CurrentFacts DEF OnCurrent
  <1>4. id \in Provider BY <1>1, <1>2 DEF Mine, Proper, Named
  <1>5. /\ UNCHANGED <<closed, open, listening, inflight, failures, leaked, calls, overlapped>>
        /\ deaf' \in SUBSET Instance
    BY DEF RemoveLocked, callVars, Sound, TypeOK
  <1>6. CASE Return(p, inst) /\ UNCHANGED <<table, deaf>>
    <2>1. Externals /\ Succeed BY <1>5, <1>6 DEF Externals, callVars, Succeed
    <2>2. QED BY <1>1, <1>6, <2>1, ElsewhereExternals, MarkedSame, ReturnStep
  <1>7. CASE /\ table[id] = i
             /\ table' = [table EXCEPT ![id] = None]
             /\ inst' = [inst EXCEPT ![i].status = "unused", ![i].lifecycle = p]
             /\ Goto(p, "removeClose")
    <2>1. table \in [Provider -> Instance \cup {None}] BY DEF Sound, TypeOK
    <2>2. \A d \in Provider : table'[d] = IF d = id THEN None ELSE table[d] BY <1>4, <1>7, <2>1
    <2>3. OthersTyped' BY <1>5, <1>7, <2>1 DEF Sound, TypeOK, OthersTyped
    <2>4. Elsewhere(p) BY <1>2, <1>5, <2>2, <2>3 DEF Elsewhere
    <2>5. "unused" \in Status /\ "removeClose" \in Place BY DEF Status, Place
    <2>6. InstQuiet(p) /\ inst'[i].lifecycle = p BY <1>1, <1>3, <1>7, <2>5, LockQuiet
    <2>7. /\ op'[p].at = "removeClose" /\ op'[p].cur = i /\ op'[p].id = op[p].id
          /\ op'[p].new = op[p].new
      BY <1>7, <2>5, GoOp DEF Moved
    <2>8. op[p].new = None BY <1>1, <1>2 DEF Mine, Proper, WithCandidate
    <2>9. Proper(p)'
      BY <1>1, <1>2, <2>7 DEF Mine, Proper, WorkerOnly, Shared, Named, OnCurrent, Targeting,
                              WithCandidate, ClosePlace, Nameless
    <2>10. i \notin Live'
      <3>1. ASSUME NEW d \in Provider, table'[d] = i PROVE FALSE
        <4>1. d # id /\ table[d] = i BY <1>3, <2>2, <3>1
        <4>2. inst[i].id = d /\ inst[i].id = id BY <1>3, <1>4, <1>7, <4>1, SoundTable
        <4>3. QED BY <4>1, <4>2
      <3>2. QED BY <3>1 DEF Live
    <2>11. Locked(p)' BY <1>2, <2>6, <2>7, <2>10 DEF Locked, OnLocked, OnClosed
    <2>12. Released(p)' BY <2>7 DEF Released, Waiting
    <2>13. QED BY <1>1, <1>5, <1>7, <2>4, <2>5, <2>6, <2>8, <2>9, <2>11, <2>12, GoStep
  <1>8. QED BY <1>6, <1>7 DEF RemoveLocked

LEMMA RemoveCloseStep ==
    ASSUME Sound, NEW p \in Proc, RemoveClose(p), UNCHANGED callVars
    PROVE  Sound'
  <1> DEFINE i == op[p].cur
             f == [inst EXCEPT ![i].unsubscribe = FALSE]
  <1>1. op[p].at = "removeClose" /\ ~Booting(p) BY NotBooting DEF RemoveClose
  <1>2. i \in Instance /\ i # None /\ i \in Reach(p) /\ inst[i].lifecycle = p
    BY <1>1, CurrentFacts DEF OnCurrent, OnLocked
  <1>3. /\ UNCHANGED <<table, closed, inflight, deaf, calls, overlapped>>
        /\ open' \subseteq open /\ leaked' \in SUBSET Instance /\ (Succeed \/ Fail)
        /\ Unsubscribe(i)
    BY <1>2 DEF RemoveClose, callVars, Sound, TypeOK
  <1>4. inst \in [Instance -> Managed] BY DEF Sound, TypeOK
  <1>5. /\ f \in [Instance -> Managed] /\ f[i].unsubscribe = FALSE
        /\ f[i].id = inst[i].id /\ f[i].lifecycle = inst[i].lifecycle
        /\ \A j \in Instance : j # i => f[j] = inst[j]
    BY <1>2, <1>4 DEF Managed
  <1>6. (inst' = f /\ GotoDiscovery(p)) \/ Return(p, f) BY DEF RemoveClose
  <1> HIDE DEF f
  <1>7. ~ClosedBy(i) BY <1>1, <1>2, NotClosed
  <1>9. /\ inst' \in [Instance -> Managed] /\ inst'[i].unsubscribe = FALSE
        /\ \A j \in Instance : /\ inst'[j].id = inst[j].id
                               /\ j # i => inst'[j].unsubscribe = inst[j].unsubscribe
                               /\ \/ inst'[j].lifecycle = inst[j].lifecycle
                                  \/ inst[j].lifecycle = p /\ inst'[j].lifecycle = None
                               /\ j \notin Reach(p) => inst'[j] = inst[j]
        /\ Return(p, f) => \A j \in Instance : inst'[j].lifecycle # p
    <2>1. CASE inst' = f /\ ~Return(p, f) BY <1>2, <1>5, <2>1
    <2>2. CASE inst' = Unlock(f, p)
      <3>1. \A j \in Instance : j \notin Reach(p) => inst[j].lifecycle # p BY DEF Reach
      <3>2. QED BY <1>2, <1>5, <2>2, <3>1, UnlockFacts
    <2>3. QED BY <1>6, <2>1, <2>2 DEF Return
  <1>10. PICK o \in Op : /\ Moved(p, o) /\ Mine(p)' /\ Refs(o) = {None} /\ o.then = "return"
                         /\ o.at \notin {"record", "closing", "boot"}
    <2>1. CASE GotoDiscovery(p) BY <2>1, DiscoveryMine
    <2>2. CASE Return(p, f)
      <3>1. Returned(p) \in Op BY IdleFacts DEF Returned, Selecting
      <3>2. Moved(p, Returned(p)) BY <2>2, <3>1, MoveOp DEF Return
      <3>3. op'[p] = Returned(p) BY <3>2 DEF Moved
      <3>4. QED BY <1>9, <2>2, <3>1, <3>2, <3>3, ReturnedMine
    <2>3. QED BY <1>6, <2>1, <2>2
  <1>11. Count' /\ listening' \in [Instance -> Nat]
         /\ \A j \in Instance : j # i => listening'[j] = listening[j]
    <2>1. /\ \A j \in Instance : j # i => inst'[j].unsubscribe = inst[j].unsubscribe
          /\ inst'[i].unsubscribe = FALSE
      BY <1>9
    <2>2. /\ op[p].at \notin {"record", "closing"} /\ UNCHANGED closed /\ Unsubscribe(i)
          /\ ~ClosedBy(i) /\ i \in Instance
      BY <1>1, <1>2, <1>3, <1>7
    <2>3. Moved(p, o) /\ o.at \notin {"record", "closing"} BY <1>10
    <2> HIDE DEF i
    <2>4. QED BY <2>1, <2>2, <2>3, CountUnsubscribed
  <1>12. Elsewhere(p)
    <2>1. open' \in SUBSET Instance /\ deaf \in SUBSET Instance BY <1>3 DEF Sound, TypeOK
    <2>2. QED BY <1>3, <1>11, <2>1, ElsewhereSame
  <1>13. Local(p)
    <2>1. \A j \in Instance : Changed(p, j) BY <1>9 DEF Changed
    <2>2. QED BY <1>2, <1>9, <1>11, <1>12, <2>1, ElsewhereLocal
  <1>14. QED BY <1>1, <1>10, <1>11, <1>12, <1>13, UnsubscribeStep

LEMMA DiscoverLookStep ==
    ASSUME Sound, NEW p \in Proc, DiscoverLook(p), UNCHANGED callVars
    PROVE  Sound'
  <1>1. op[p].at = "discover" /\ ~Booting(p) BY NotBooting DEF DiscoverLook
  <1>2. op[p] \in Op /\ Mine(p) BY SoundAt
  <1>3. UNCHANGED <<table, inst, closed>> /\ closed \in BOOLEAN /\ CallFrame
    BY DEF DiscoverLook, managerVars, callVars, CallFrame, Sound, TypeOK
  <1>4. Elsewhere(p) /\ InstQuiet(p) /\ listening' = listening BY <1>3, OpOnly
  <1>5. PICK id \in op[p].left :
            \/ op' = [op EXCEPT ![p].left = @ \ {id}]
            \/ /\ table[id] # None /\ inst[table[id]].status = "running"
               /\ op' = [op EXCEPT ![p].at = "fetch", ![p].left = @ \ {id}, ![p].target = table[id]]
    BY DEF DiscoverLook
  <1>6. id \in Provider BY <1>2 DEF Op
  <1>7. /\ op[p].new = None /\ op[p].id = None /\ op[p].then # "boot"
        /\ p = Worker \/ p \in Caller
    BY <1>1, <1>2 DEF Mine, Proper, WithCandidate, Nameless, Booting, Proc
  <1>8. PICK o \in Op : /\ op' = [op EXCEPT ![p] = o] /\ o.id = None /\ o.new = None
                        /\ o.cur = op[p].cur /\ o.then = op[p].then
                        /\ \/ o.at = "discover" /\ o.target = op[p].target
                           \/ /\ o.at = "fetch" /\ o.target = table[id]
                              /\ table[id] # None /\ inst[table[id]].status = "running"
    <2>1. CASE op' = [op EXCEPT ![p].left = @ \ {id}]
      <3> DEFINE o == [op[p] EXCEPT !.left = @ \ {id}]
      <3>1. /\ o \in Op /\ o.id = None /\ o.new = None /\ o.cur = op[p].cur
            /\ o.then = op[p].then /\ o.at = "discover" /\ o.target = op[p].target
        BY <1>1, <1>2, <1>7 DEF Op
      <3>2. op' = [op EXCEPT ![p] = o] BY <2>1
      <3> HIDE DEF o
      <3>3. QED BY <3>1, <3>2
    <2>2. CASE /\ table[id] # None /\ inst[table[id]].status = "running"
               /\ op' = [op EXCEPT ![p].at = "fetch", ![p].left = @ \ {id}, ![p].target = table[id]]
      <3> DEFINE o == [op[p] EXCEPT !.at = "fetch", !.left = @ \ {id}, !.target = table[id]]
      <3>1. /\ o \in Op /\ o.id = None /\ o.new = None /\ o.cur = op[p].cur
            /\ o.then = op[p].then /\ o.at = "fetch" /\ o.target = table[id]
        BY <1>2, <1>6, <1>7, <2>2, SoundTable DEF Op, Place
      <3>2. op' = [op EXCEPT ![p] = o] BY <1>2, <2>2 DEF Op
      <3> HIDE DEF o
      <3>3. QED BY <2>2, <3>1, <3>2
    <2>3. QED BY <1>5, <2>1, <2>2
  <1>9. Moved(p, o) /\ op'[p] = o BY <1>8, MoveOp DEF Moved
  <1>10. o.at = "fetch" => /\ table[id] \in Instance /\ inst[table[id]].id \in Provider
                           /\ table[id] \in Reach(p)
    <2>1. SUFFICES ASSUME table[id] # None, inst[table[id]].status = "running"
                   PROVE  /\ table[id] \in Instance /\ inst[table[id]].id \in Provider
                          /\ table[id] \in Reach(p)
      BY <1>8
    <2>2. QED BY <1>6, <2>1, SoundTable DEF Reach
  <1>11. Refs(o) \ {None} \subseteq Reach(p)
    <2>1. Refs(op[p]) \ {None} \subseteq Reach(p) BY SoundAt
    <2>2. QED BY <1>8, <1>10, <2>1 DEF Refs
  <1>12. Identity(p)'
    <2>1. Identity(p) BY <1>2 DEF Mine
    <2>2. QED BY <1>3, <1>8, <1>9, <1>10, <2>1 DEF Identity, Refs
  <1>13. Proper(p)'
    BY <1>7, <1>8, <1>9, <1>10, WorkerAssumption
    DEF Proper, WorkerOnly, Shared, Named, OnCurrent, Targeting, WithCandidate, ClosePlace, Nameless
  <1>14. Locked(p)' BY <1>8, <1>9 DEF Locked, OnLocked, OnClosed
  <1>15. Candidate(p)' BY <1>8, <1>9 DEF Candidate
  <1>16. Released(p)' BY <1>8, <1>9 DEF Released, Waiting
  <1>17. Mine(p)' BY <1>12, <1>13, <1>14, <1>15, <1>16 DEF Mine
  <1>18. QED BY <1>1, <1>4, <1>7, <1>8, <1>9, <1>11, <1>17, QuietStep

LEMMA DiscoverFetchStep ==
    ASSUME Sound, NEW p \in Proc, DiscoverFetch(p), UNCHANGED callVars
    PROVE  Sound'
  <1> DEFINE o == [op[p] EXCEPT !.at = "discover", !.target = None]
  <1>1. op[p].at = "fetch" /\ ~Booting(p) BY NotBooting DEF DiscoverFetch
  <1>2. op[p] \in Op /\ Mine(p) BY SoundAt
  <1>3. Externals /\ (Succeed \/ Fail) BY DEF DiscoverFetch, Externals
  <1>4. Elsewhere(p) /\ listening' = listening BY <1>3, ElsewhereExternals
  <1>5. op[p].target \in Reach(p)
    BY <1>1, <1>2, SoundAt, NoneAssumption DEF Mine, Proper, Targeting, Refs
  <1>6. Marked(p, inst') BY <1>5, MarkedSame, MarkedIfCurrent DEF DiscoverFetch
  <1>7. /\ o \in Op /\ o.at = "discover" /\ o.target = None /\ o.id = op[p].id /\ o.cur = op[p].cur
        /\ o.new = op[p].new /\ o.then = op[p].then
    BY <1>2 DEF Op, Place
  <1>8. [op EXCEPT ![p].at = "discover", ![p].target = None] = [op EXCEPT ![p] = o]
    BY <1>2 DEF Op
  <1>9. op' = [op EXCEPT ![p] = o] \/ op' = startRetryWorker([op EXCEPT ![p] = o], inst')
    BY <1>8 DEF DiscoverFetch
  <1> HIDE DEF o
  <1>10. Moved(p, o) BY <1>7, <1>9, MoveOp, MoveRetry
  <1>11. op'[p] = o BY <1>10 DEF Moved
  <1>12. InstQuiet(p) /\ Local(p) BY <1>4, <1>6, MarkedQuiet, QuietLocal
  <1>13. op[p].new = None BY <1>1, <1>2 DEF Mine, Proper, WithCandidate
  <1>14. Identity(p)' /\ Candidate(p)' /\ Refs(o) \ {None} \subseteq Reach(p)
    BY <1>7, <1>10, <1>12, <1>13, MineKept
  <1>15. Proper(p)'
    BY <1>1, <1>2, <1>7, <1>11
    DEF Mine, Proper, WorkerOnly, Shared, Named, OnCurrent, Targeting, WithCandidate, ClosePlace,
        Nameless
  <1>16. Locked(p)' BY <1>7, <1>11 DEF Locked, OnLocked, OnClosed
  <1>17. Released(p)' BY <1>7, <1>11 DEF Released, Waiting
  <1>18. Mine(p)' BY <1>14, <1>15, <1>16, <1>17 DEF Mine
  <1>19. o.then # "boot" BY <1>1, <1>7 DEF Booting
  <1>20. QED BY <1>1, <1>4, <1>7, <1>10, <1>12, <1>14, <1>18, <1>19, QuietStep

LEMMA DiscoverDoneStep ==
    ASSUME Sound, NEW p \in Proc, DiscoverDone(p), UNCHANGED callVars
    PROVE  Sound'
  <1>1. op[p].at \in {"discover", "fetch"} /\ ~Booting(p) BY NotBooting DEF DiscoverDone
  <1>2. Externals /\ Succeed BY DEF DiscoverDone, Externals, externalVars, Succeed
  <1>3. QED BY <1>1, <1>2, ElsewhereExternals, MarkedSame, ReturnStep DEF DiscoverDone
-----------------------------------------------------------------------------
(* Close.                                                                  *)

LEMMA CloseWaitedStep ==
    ASSUME Sound, NEW p \in Proc, CloseWaited(p), UNCHANGED callVars
    PROVE  Sound'
  <1>1. op[p].at = "closeWait" /\ ~Booting(p) BY NotBooting DEF CloseWaited
  <1>2. Mine(p) BY SoundAt
  <1>3. UNCHANGED <<table, inst, closed>> /\ closed \in BOOLEAN /\ CallFrame
    BY DEF CloseWaited, managerVars, callVars, CallFrame, Sound, TypeOK
  <1>4. Elsewhere(p) /\ InstQuiet(p) /\ listening' = listening BY <1>3, OpOnly
  <1>5. "closeNext" \in Place /\ Goto(p, "closeNext") BY DEF Place, CloseWaited
  <1>6. op'[p].at = "closeNext" /\ op'[p].id = op[p].id /\ op'[p].new = op[p].new
    BY <1>5, GoOp DEF Moved
  <1>7. op[p].new = None BY <1>1, <1>2 DEF Mine, Proper, WithCandidate
  <1>8. Proper(p)'
    BY <1>1, <1>2, <1>3, <1>6 DEF Mine, Proper, WorkerOnly, Shared, Named, OnCurrent, Targeting,
                                  WithCandidate, ClosePlace, Nameless
  <1>9. Locked(p)' BY <1>6 DEF Locked, OnLocked, OnClosed
  <1>10. Released(p)' BY <1>1, <1>2, <1>3 DEF Mine, Released, Waiting
  <1>11. QED BY <1>1, <1>4, <1>5, <1>7, <1>8, <1>9, <1>10, GoStep

LEMMA CloseNextStep ==
    ASSUME Sound, NEW p \in Proc, CloseNext(p), UNCHANGED callVars
    PROVE  Sound'
  <1>1. op[p].at = "closeNext" /\ ~Booting(p) BY NotBooting DEF CloseNext
  <1>2. op[p] \in Op /\ Mine(p) BY SoundAt
  <1>3. UNCHANGED <<table, inst, closed>> /\ closed \in BOOLEAN /\ CallFrame
    BY DEF CloseNext, managerVars, callVars, CallFrame, Sound, TypeOK
  <1>4. Elsewhere(p) /\ InstQuiet(p) /\ listening' = listening BY <1>3, OpOnly
  <1>5. /\ op[p].new = None /\ op[p].id = None /\ op[p].then # "boot" /\ closed
        /\ p \in Caller /\ p # Worker
    BY <1>1, <1>2, CallerPlaces
    DEF Mine, Proper, WithCandidate, Nameless, ClosePlace, Booting, WorkerOnly, Shared
  <1>6. PICK id \in op[p].left :
            LET rest == [op[p] EXCEPT !.left = @ \ {id}]
            IN  op' = [op EXCEPT ![p] = IF table[id] = None THEN rest
                                        ELSE [rest EXCEPT !.at = "closeLock", !.cur = table[id]]]
    BY DEF CloseNext
  <1>7. id \in Provider BY <1>2 DEF Op
  <1>8. PICK o \in Op : /\ op' = [op EXCEPT ![p] = o] /\ o.id = None /\ o.new = None
                        /\ o.target = op[p].target /\ o.then = op[p].then
                        /\ \/ o.at = "closeNext" /\ o.cur = op[p].cur
                           \/ o.at = "closeLock" /\ o.cur = table[id] /\ table[id] # None
    <2> DEFINE r == [op[p] EXCEPT !.left = @ \ {id}]
               s == [r EXCEPT !.at = "closeLock", !.cur = table[id]]
    <2>1. /\ r \in Op /\ r.id = None /\ r.new = None /\ r.target = op[p].target
          /\ r.then = op[p].then /\ r.at = "closeNext" /\ r.cur = op[p].cur
      BY <1>1, <1>2, <1>5 DEF Op
    <2>2. table[id] \in Instance \cup {None} BY <1>7 DEF Sound, TypeOK
    <2> HIDE DEF r
    <2>3. /\ s \in Op /\ s.id = None /\ s.new = None /\ s.target = op[p].target
          /\ s.then = op[p].then /\ s.at = "closeLock" /\ s.cur = table[id]
      BY <2>1, <2>2 DEF Op, Place
    <2>4. op' = [op EXCEPT ![p] = IF table[id] = None THEN r ELSE s] BY <1>6 DEF r
    <2> HIDE DEF s
    <2>5. QED BY <2>1, <2>3, <2>4
  <1>9. Moved(p, o) /\ op'[p] = o BY <1>8, MoveOp DEF Moved
  <1>10. o.at = "closeLock" => /\ table[id] \in Instance /\ inst[table[id]].id \in Provider
                               /\ table[id] \in Reach(p)
    BY <1>5, <1>7, <1>8, SoundTable DEF Reach
  <1>11. Refs(o) \ {None} \subseteq Reach(p)
    <2>1. Refs(op[p]) \ {None} \subseteq Reach(p) BY SoundAt
    <2>2. QED BY <1>8, <1>10, <2>1 DEF Refs
  <1>12. Identity(p)'
    <2>1. Identity(p) BY <1>2 DEF Mine
    <2>2. QED BY <1>3, <1>8, <1>9, <1>10, <2>1 DEF Identity, Refs
  <1>13. Proper(p)'
    BY <1>3, <1>5, <1>8, <1>9, <1>10
    DEF Proper, WorkerOnly, Named, OnCurrent, Targeting, WithCandidate, ClosePlace, Nameless
  <1>14. Locked(p)' BY <1>5, <1>8, <1>9 DEF Locked, OnLocked, OnClosed
  <1>15. Candidate(p)' BY <1>8, <1>9 DEF Candidate
  <1>16. Released(p)' BY <1>1, <1>2, <1>3 DEF Mine, Released, Waiting
  <1>17. Mine(p)' BY <1>12, <1>13, <1>14, <1>15, <1>16 DEF Mine
  <1>18. QED BY <1>1, <1>4, <1>5, <1>8, <1>9, <1>11, <1>17, QuietStep

LEMMA CloseDoneStep ==
    ASSUME Sound, NEW p \in Proc, CloseDone(p), UNCHANGED callVars
    PROVE  Sound'
  <1>1. op[p].at = "closeNext" /\ ~Booting(p) BY NotBooting DEF CloseDone
  <1>2. Externals /\ Succeed BY DEF CloseDone, Externals, externalVars, Succeed
  <1>3. QED BY <1>1, <1>2, ElsewhereExternals, MarkedSame, ReturnStep DEF CloseDone

LEMMA CloseLockedStep ==
    ASSUME Sound, NEW p \in Proc, CloseLocked(p), UNCHANGED callVars
    PROVE  Sound'
  <1> DEFINE i == op[p].cur
  <1>1. op[p].at = "closeLock" /\ inst[i].lifecycle = None /\ ~Booting(p)
    BY NotBooting DEF CloseLocked
  <1>2. op[p] \in Op /\ Mine(p) BY SoundAt
  <1>3. i \in Instance /\ i \in Reach(p) /\ closed
    BY <1>1, <1>2, CurrentFacts DEF OnCurrent, Mine, Proper, ClosePlace
  <1>4. /\ UNCHANGED <<table, closed, open, inflight, failures, leaked, deaf, calls, overlapped>>
        /\ Unsubscribe(i) /\ inst' = [inst EXCEPT ![i].lifecycle = p] /\ Goto(p, "closing")
    BY DEF CloseLocked, callVars
  <1>5. /\ InstQuiet(p) /\ inst'[i].lifecycle = p
        /\ \A j \in Instance : j # i => inst'[j] = inst[j]
    BY <1>1, <1>3, <1>4, LockQuiet
  <1>6. "closing" \in Place BY DEF Place
  <1>7. PICK o \in Op : /\ Moved(p, o) /\ o.at = "closing"
                        /\ o.id = op[p].id /\ o.cur = i /\ o.new = op[p].new
                        /\ o.target = op[p].target /\ o.then = op[p].then
    BY <1>4, <1>6, GoOp
  <1>8. Count' /\ listening' \in [Instance -> Nat]
        /\ \A j \in Instance : j # i => listening'[j] = listening[j]
    <2>1. \A j \in Instance : j # i => inst'[j].unsubscribe = inst[j].unsubscribe
      BY <1>5
    <2>2. /\ op[p].at \notin {"record", "closing"} /\ UNCHANGED closed /\ Unsubscribe(i)
          /\ ~ClosedBy(i) /\ i \in Instance /\ closed
      BY <1>1, <1>3, <1>4, NotClosed
    <2>3. Moved(p, o) /\ o.at = "closing" /\ o.cur = i BY <1>7
    <2> HIDE DEF i
    <2>4. QED BY <2>1, <2>2, <2>3, CountUnsubscribed
  <1>9. Elsewhere(p)
    <2>1. open \in SUBSET Instance /\ leaked \in SUBSET Instance /\ deaf \in SUBSET Instance
      BY DEF Sound, TypeOK
    <2>2. QED BY <1>4, <1>8, <2>1, ElsewhereSame DEF Succeed
  <1>10. Local(p) BY <1>3, <1>5, <1>8, <1>9, QuietLocal
  <1>11. op[p].new = None BY <1>1, <1>2 DEF Mine, Proper, WithCandidate
  <1>12. Identity(p)' /\ Candidate(p)' /\ Refs(o) \ {None} \subseteq Reach(p)
    BY <1>7, <1>10, <1>11, MineKept
  <1>13. op'[p] = o BY <1>7 DEF Moved
  <1>14. Proper(p)'
    BY <1>1, <1>2, <1>4, <1>7, <1>13 DEF Mine, Proper, WorkerOnly, Shared, Named, OnCurrent,
                                         Targeting, WithCandidate, ClosePlace, Nameless
  <1>15. Locked(p)' BY <1>5, <1>7, <1>13 DEF Locked, OnLocked, OnClosed
  <1>16. Released(p)' BY <1>7, <1>13 DEF Released, Waiting
  <1>17. Mine(p)' BY <1>12, <1>14, <1>15, <1>16 DEF Mine
  <1>18. o.then # "boot" BY <1>1, <1>7 DEF Booting
  <1>19. QED BY <1>1, <1>7, <1>8, <1>9, <1>10, <1>12, <1>17, <1>18, UnsubscribeStep

LEMMA CloseProviderStep ==
    ASSUME Sound, NEW p \in Proc, CloseProvider(p), UNCHANGED callVars
    PROVE  Sound'
  <1> DEFINE i == op[p].cur
             s == IF i \in Live THEN "stopped" ELSE "unused"
             f == [inst EXCEPT ![i].status = s, ![i].unsubscribe = FALSE]
             o == [op[p] EXCEPT !.at = "closeNext", !.cur = None]
  <1>1. op[p].at = "closing" /\ ~Booting(p) BY NotBooting DEF CloseProvider
  <1>2. op[p] \in Op /\ Mine(p) BY SoundAt
  <1>3. /\ i \in Instance /\ i # None /\ i \in Reach(p) /\ inst[i].lifecycle = p /\ closed
        /\ op[p].new = None
    BY <1>1, <1>2, CurrentFacts DEF OnCurrent, OnLocked, Mine, Proper, ClosePlace, WithCandidate
  <1>4. /\ UNCHANGED <<table, closed, listening, inflight, deaf, calls, overlapped>>
        /\ open' \subseteq open /\ leaked' \in SUBSET Instance /\ (Succeed \/ Fail)
        /\ inst' = Unlock(f, p)
    BY <1>3 DEF CloseProvider, callVars, Sound, TypeOK
  <1>5. inst \in [Instance -> Managed] BY DEF Sound, TypeOK
  <1>6. /\ f \in [Instance -> Managed] /\ f[i].unsubscribe = FALSE
        /\ f[i].id = inst[i].id /\ f[i].lifecycle = inst[i].lifecycle
        /\ \A j \in Instance : j # i => f[j] = inst[j]
    <2>1. s \in Status BY DEF Status
    <2> HIDE DEF s
    <2> DEFINE m == [inst[i] EXCEPT !.status = s, !.unsubscribe = FALSE]
    <2>2. inst[i] \in Managed BY <1>3, <1>5
    <2>3. /\ m \in Managed /\ m.unsubscribe = FALSE /\ m.id = inst[i].id
          /\ m.lifecycle = inst[i].lifecycle
      BY <2>1, <2>2 DEF Managed
    <2>4. f = [inst EXCEPT ![i] = m] BY <1>3, <1>5, <2>2 DEF Managed
    <2> HIDE DEF m, f
    <2>5. QED BY <1>3, <1>5, <2>3, <2>4
  <1> HIDE DEF f
  <1>7. /\ inst' \in [Instance -> Managed] /\ inst'[i].unsubscribe = FALSE
        /\ \A j \in Instance : /\ inst'[j].id = inst[j].id /\ inst'[j].lifecycle # p
                               /\ j # i => inst'[j].unsubscribe = inst[j].unsubscribe
                               /\ \/ inst'[j].lifecycle = inst[j].lifecycle
                                  \/ inst[j].lifecycle = p /\ inst'[j].lifecycle = None
                               /\ j \notin Reach(p) => inst'[j] = inst[j]
    <2>1. \A j \in Instance : j \notin Reach(p) => inst[j].lifecycle # p BY DEF Reach
    <2>2. QED BY <1>3, <1>4, <1>6, <2>1, UnlockFacts
  <1>8. /\ o \in Op /\ o.at = "closeNext" /\ o.cur = None /\ o.id = op[p].id /\ o.new = None
        /\ o.target = op[p].target /\ o.then = op[p].then
    <2>1. "closeNext" \in Place BY DEF Place
    <2>2. op[p].new = None BY <1>3
    <2>3. QED BY <1>2, <2>1, <2>2 DEF Op
  <1>9. op' = [op EXCEPT ![p] = o] BY <1>2 DEF CloseProvider, Op
  <1> HIDE DEF o
  <1>10. Moved(p, o) /\ op'[p] = o BY <1>8, <1>9, MoveOp DEF Moved
  <1>11. Elsewhere(p)
    <2>1. /\ open' \in SUBSET Instance /\ deaf \in SUBSET Instance
          /\ listening \in [Instance -> Nat]
      BY <1>4 DEF Sound, TypeOK
    <2>2. QED BY <1>4, <2>1, ElsewhereSame
  <1>12. Local(p)
    <2>1. \A j \in Instance : Changed(p, j) BY <1>7 DEF Changed
    <2>2. QED BY <1>4, <1>7, <1>11, <2>1, ElsewhereLocal
  <1>13. Count'
    <2>1. \A q \in Proc \ {p} : /\ op'[q].at = "record" <=> op[q].at = "record"
                                /\ op'[q].at = "closing" <=> op[q].at = "closing"
                                /\ op[q].at \in {"record", "closing"} => op'[q] = op[q]
      BY <1>10, IdleFacts DEF Moved
    <2>2. ASSUME NEW j \in Instance
          PROVE  Recorders(j)' = Recorders(j) /\ (j # i => (ClosedBy(j)' <=> ClosedBy(j)))
      BY <1>1, <1>8, <1>10, <2>1 DEF Recorders, ClosedBy
    <2>3. \A j \in Instance : Cardinality(Recorders(j)) \in Nat
      BY FS_CardinalityType DEF Sound, Count
    <2>4. \A j \in Instance :
              /\ IsFiniteSet(Recorders(j))
              /\ listening[j] >= Cardinality(Recorders(j))
                                   + IF inst[j].unsubscribe /\ ~ClosedBy(j) THEN 1 ELSE 0
      BY DEF Sound, Count
    <2>5. listening \in [Instance -> Nat] BY DEF Sound, TypeOK
    <2>6. listening[i] >= Cardinality(Recorders(i)) BY <1>3, <2>3, <2>4, <2>5
    <2>7. ASSUME NEW j \in Instance
          PROVE  /\ IsFiniteSet(Recorders(j)')
                 /\ listening'[j] >= Cardinality(Recorders(j)')
                                       + IF inst'[j].unsubscribe /\ ~ClosedBy(j)' THEN 1 ELSE 0
      <3>1. CASE j = i BY <1>3, <1>4, <1>7, <2>2, <2>3, <2>4, <2>5, <2>6, <3>1
      <3>2. CASE j # i BY <1>4, <1>7, <2>2, <2>4, <3>2
      <3>3. QED BY <3>1, <3>2
    <2>8. closed' BY <1>3, <1>4
    <2>9. QED BY <2>7, <2>8 DEF Count
  <1>14. Identity(p)' /\ Candidate(p)' /\ Refs(o) \ {None} \subseteq Reach(p)
    BY <1>8, <1>10, <1>12, MineKept
  <1>15. Proper(p)'
    BY <1>1, <1>2, <1>4, <1>8, <1>10 DEF Mine, Proper, WorkerOnly, Shared, Named, OnCurrent,
                                         Targeting, WithCandidate, ClosePlace, Nameless
  <1>16. Locked(p)' BY <1>8, <1>10 DEF Locked, OnLocked, OnClosed
  <1>17. Released(p)' BY <1>7 DEF Released
  <1>18. Mine(p)' BY <1>14, <1>15, <1>16, <1>17 DEF Mine
  <1>19. o.then # "boot" BY <1>1, <1>8 DEF Booting
  <1>20. QED BY <1>1, <1>8, <1>10, <1>11, <1>12, <1>13, <1>14, <1>18, <1>19, UnsubscribeStep
-----------------------------------------------------------------------------
(* The retry worker and the reports.                                       *)

LEMMA WorkerFacts ==
    ASSUME Sound
    PROVE  Worker \in Proc /\ Worker \notin Caller /\ ~Booting(Worker) /\ Mine(Worker)
           /\ op[Worker] \in Op
  <1>1. Worker \in Proc /\ Worker \notin Caller BY WorkerAssumption DEF Proc
  <1>2. QED BY <1>1, SoundAt DEF Sound, Boot, BootAt

\* A worker that waits in its loop, with nothing or with the failed provider it has found.
LEMMA WorkerStep1 ==
    ASSUME Sound, NEW o \in Op, op' = [op EXCEPT ![Worker] = o], Waiting(Worker),
           o.at \in {"off", "select", "wait", "exit"}, o.then = "return",
           o.new = None, o.target = None,
           \/ o.cur = None /\ o.at # "wait"
           \/ /\ o.id \in Provider /\ o.cur = table[o.id] /\ table[o.id] # None
              /\ inst[o.cur].status = "error",
           UNCHANGED <<managerVars, externalVars, callVars>>
    PROVE  Sound'
  <1>1. Worker \in Proc /\ ~Booting(Worker) /\ Mine(Worker) /\ Worker \notin Caller
    BY WorkerFacts
  <1>2. Moved(Worker, o) /\ op'[Worker] = o BY <1>1, MoveOp DEF Moved
  <1>3. UNCHANGED <<table, inst, closed>> /\ closed \in BOOLEAN /\ CallFrame
    BY DEF managerVars, callVars, CallFrame, Sound, TypeOK
  <1>4. Elsewhere(Worker) /\ InstQuiet(Worker) /\ listening' = listening BY <1>1, <1>3, OpOnly
  <1>5. o.cur # None => /\ o.cur \in Instance /\ inst[o.cur].id = o.id /\ o.id \in Provider
                        /\ o.cur \in Reach(Worker)
    BY SoundTable DEF Reach
  <1>6. Proper(Worker)'
    BY <1>2, <1>5, NoneAssumption
    DEF Proper, WorkerOnly, Named, OnCurrent, Targeting, WithCandidate, ClosePlace, Nameless
  <1>7. Identity(Worker)' BY <1>2, <1>3, <1>5 DEF Identity, Refs
  <1>8. Locked(Worker)' BY <1>2 DEF Locked, OnLocked, OnClosed
  <1>9. Candidate(Worker)' BY <1>2 DEF Candidate
  <1>10. Released(Worker)' BY <1>1, <1>3 DEF Mine, Released
  <1>11. Mine(Worker)' BY <1>6, <1>7, <1>8, <1>9, <1>10 DEF Mine
  <1>12. Refs(o) \ {None} \subseteq Reach(Worker) BY <1>5 DEF Refs
  <1>13. op[Worker].at \notin {"record", "closing"} BY DEF Waiting
  <1>14. QED BY <1>1, <1>2, <1>4, <1>11, <1>12, <1>13, QuietStep

LEMMA RetryLoopStep ==
    ASSUME Sound, RetrySelect \/ RetryEnd \/ RetryExit, UNCHANGED callVars
    PROVE  Sound'
  <1>1. CASE RetrySelect
    <2>1. PICK id \in Provider :
              /\ table[id] # None /\ inst[table[id]].status = "error"
              /\ op' = [op EXCEPT ![Worker] = [Off EXCEPT !.at = "wait", !.id = id, !.cur = table[id]]]
      BY <1>1 DEF RetrySelect
    <2> DEFINE o == [Off EXCEPT !.at = "wait", !.id = id, !.cur = table[id]]
    <2>2. table[id] \in Instance BY <2>1, SoundTable
    <2>3. /\ o \in Op /\ o.at = "wait" /\ o.id = id /\ o.cur = table[id] /\ o.then = "return"
          /\ o.new = None /\ o.target = None
      BY <2>2 DEF Off, Idle, Op, Place
    <2>4. op' = [op EXCEPT ![Worker] = o] BY <2>1
    <2> HIDE DEF o
    <2>5. Waiting(Worker) /\ UNCHANGED <<managerVars, externalVars, callVars>>
      BY <1>1 DEF RetrySelect, Waiting
    <2>6. QED BY <2>1, <2>3, <2>4, <2>5, WorkerStep1
  <1>2. CASE RetryEnd
    <2> DEFINE o == [Off EXCEPT !.at = "exit"]
    <2>1. /\ o \in Op /\ o.at = "exit" /\ o.cur = None /\ o.then = "return"
          /\ o.new = None /\ o.target = None
      BY DEF Off, Idle, Op, Place
    <2>2. op' = [op EXCEPT ![Worker] = o] BY <1>2 DEF RetryEnd
    <2> HIDE DEF o
    <2>3. Waiting(Worker) /\ UNCHANGED <<managerVars, externalVars, callVars>>
      BY <1>2 DEF RetryEnd, Waiting
    <2>4. QED BY <2>1, <2>2, <2>3, WorkerStep1
  <1>3. CASE RetryExit
    <2>1. Worker \in Proc BY WorkerFacts
    <2>2. op \in [Proc -> Op] BY TypeParts DEF Sound
    <2>3. op' = startRetryWorker([op EXCEPT ![Worker] = Off], inst) BY <1>3 DEF RetryExit
    <2>4. op' = [op EXCEPT ![Worker] = Off] \/ op' = [op EXCEPT ![Worker] = Selecting]
      BY <2>1, <2>2, <2>3 DEF startRetryWorker, Selecting
    <2>5. /\ Off.cur = None /\ Off.new = None /\ Off.target = None
          /\ Selecting.cur = None /\ Selecting.new = None /\ Selecting.target = None
      BY IdleFacts DEF Refs
    <2>6. Waiting(Worker) /\ UNCHANGED <<managerVars, externalVars, callVars>>
      BY <1>3 DEF RetryExit, Waiting
    <2>7. CASE op' = [op EXCEPT ![Worker] = Off]
      BY <2>5, <2>6, <2>7, IdleFacts, WorkerStep1
    <2>8. CASE op' = [op EXCEPT ![Worker] = Selecting]
      BY <2>5, <2>6, <2>8, IdleFacts, WorkerStep1
    <2>9. QED BY <2>4, <2>7, <2>8
  <1>4. QED BY <1>1, <1>2, <1>3

LEMMA retryProviderStep ==
    ASSUME Sound, retryProvider, UNCHANGED callVars
    PROVE  Sound'
  <1> DEFINE i == op[Worker].cur
  <1>1. op[Worker].at = "wait" /\ inst[i].lifecycle = None BY DEF retryProvider
  <1>2. Worker \in Proc /\ ~Booting(Worker) /\ Mine(Worker) /\ op[Worker] \in Op BY WorkerFacts
  <1>3. i \in Instance /\ i \in Reach(Worker) /\ op[Worker].new = None
    BY <1>1, <1>2, CurrentFacts DEF OnCurrent, Mine, Proper, WithCandidate
  <1>4. Externals /\ Succeed BY DEF retryProvider, Externals, externalVars, Succeed
  <1>5. Elsewhere(Worker) /\ listening' = listening BY <1>2, <1>4, ElsewhereExternals
  <1>6. CASE Return(Worker, inst)
    BY <1>1, <1>2, <1>5, <1>6, MarkedSame, ReturnStep
  <1>7. CASE /\ inst' = [inst EXCEPT ![i].status = "retrying", ![i].lifecycle = Worker]
             /\ Goto(Worker, "retryClose")
    <2>1. "retrying" \in Status /\ "retryClose" \in Place BY DEF Status, Place
    <2>2. \E s \in Status : inst' = [inst EXCEPT ![i].status = s, ![i].lifecycle = Worker]
      BY <1>7, <2>1
    <2>3. InstQuiet(Worker) /\ inst'[i].lifecycle = Worker BY <1>1, <1>2, <1>3, <2>2, LockQuiet
    <2>4. /\ op'[Worker].at = "retryClose" /\ op'[Worker].cur = i /\ op'[Worker].id = op[Worker].id
          /\ op'[Worker].new = None
      BY <1>2, <1>3, <1>7, <2>1, GoOp DEF Moved
    <2>5. Proper(Worker)'
      BY <1>1, <1>2, <2>4 DEF Mine, Proper, WorkerOnly, Shared, Named, OnCurrent, Targeting,
                              WithCandidate, ClosePlace, Nameless
    <2>6. Locked(Worker)' BY <2>3, <2>4 DEF Locked, OnLocked, OnClosed
    <2>7. Released(Worker)' BY <2>4 DEF Released, Waiting
    <2>8. QED BY <1>1, <1>2, <1>3, <1>5, <1>7, <2>1, <2>3, <2>5, <2>6, <2>7, GoStep
  <1>8. QED BY <1>6, <1>7 DEF retryProvider

\* The worker at work on a provider whose mutex it holds.
LEMMA RetryingFacts ==
    ASSUME Sound, op[Worker].at \in {"retryClose", "retryInit", "retryInstall"}
    PROVE  /\ op[Worker].cur \in Instance /\ op[Worker].cur \in Reach(Worker)
           /\ inst[op[Worker].cur].lifecycle = Worker /\ op[Worker].new = None
           /\ op[Worker].id \in Provider
           /\ Worker \in Proc /\ ~Booting(Worker) /\ Mine(Worker) /\ op[Worker] \in Op
  <1>1. Worker \in Proc /\ ~Booting(Worker) /\ Mine(Worker) /\ op[Worker] \in Op BY WorkerFacts
  <1>2. op[Worker].new = None /\ op[Worker].id \in Provider
    BY <1>1 DEF Mine, Proper, WithCandidate, Named
  <1>3. QED BY <1>1, <1>2, CurrentFacts DEF OnCurrent, OnLocked

LEMMA RetryFailsStep ==
    ASSUME Sound, RetryFails, UNCHANGED callVars
    PROVE  Sound'
  <1>1. /\ op[Worker].at \in {"retryClose", "retryInit", "retryInstall"}
        /\ Externals /\ Fail
    BY DEF RetryFails, Externals
  <1>2. op[Worker].cur \in Reach(Worker) /\ Worker \in Proc /\ ~Booting(Worker)
    BY <1>1, RetryingFacts
  <1>3. Elsewhere(Worker) /\ listening' = listening BY <1>1, <1>2, ElsewhereExternals
  <1>4. PICK s \in FailureStatus : Return(Worker, markIfCurrent(op[Worker].cur, s))
    BY DEF RetryFails
  <1>5. Marked(Worker, markIfCurrent(op[Worker].cur, s)) BY <1>2, MarkedIfCurrent
  <1>6. QED BY <1>1, <1>2, <1>3, <1>4, <1>5, ReturnStep

LEMMA RetryCloseStep ==
    ASSUME Sound, RetryClose \/ RetryInitialize, UNCHANGED callVars
    PROVE  Sound'
  <1> DEFINE i == op[Worker].cur
             place == IF RetryClose THEN "retryInit" ELSE "retryInstall"
  <1>1. op[Worker].at \in {"retryClose", "retryInit"} BY DEF RetryClose, RetryInitialize
  <1>2. /\ i \in Instance /\ i \in Reach(Worker) /\ inst[i].lifecycle = Worker
        /\ op[Worker].new = None /\ op[Worker].id \in Provider
        /\ Worker \in Proc /\ ~Booting(Worker) /\ Mine(Worker) /\ op[Worker] \in Op
    BY <1>1, RetryingFacts
  <1>3. /\ place \in {"retryInit", "retryInstall"} /\ place \in Place /\ Goto(Worker, place)
        /\ place = "retryInit" => open' = open \ {i}
        /\ open' \subseteq open \cup {i}
        /\ UNCHANGED <<table, inst, closed, listening, inflight, failures, leaked, deaf, calls, overlapped>>
    BY DEF RetryClose, RetryInitialize, Place, managerVars, callVars
  <1> HIDE DEF place
  <1>4. Elsewhere(Worker) /\ listening' = listening
    <2>1. /\ open' \in SUBSET Instance /\ listening \in [Instance -> Nat]
          /\ leaked \in SUBSET Instance /\ deaf \in SUBSET Instance
      BY <1>2, <1>3 DEF Sound, TypeOK
    <2>2. Succeed BY <1>3 DEF Succeed
    <2>3. QED BY <1>2, <1>3, <2>1, <2>2, ElsewhereSame
  <1>5. InstQuiet(Worker) BY <1>2, <1>3, MarkedSame, MarkedQuiet
  <1>6. /\ op'[Worker].at = place /\ op'[Worker].cur = i /\ op'[Worker].id = op[Worker].id
        /\ op'[Worker].new = None
    BY <1>2, <1>3, GoOp DEF Moved
  <1>7. Proper(Worker)'
    BY <1>2, <1>3, <1>6 DEF Proper, WorkerOnly, Shared, Named, OnCurrent, Targeting,
                            WithCandidate, ClosePlace, Nameless
  <1>8. Locked(Worker)' BY <1>2, <1>3, <1>6 DEF Locked, OnLocked, OnClosed
  <1>9. Released(Worker)' BY <1>3, <1>6 DEF Released, Waiting
  <1>10. QED BY <1>1, <1>2, <1>3, <1>4, <1>5, <1>7, <1>8, <1>9, GoStep

LEMMA RetryInstallStep ==
    ASSUME Sound, RetryInstall, UNCHANGED callVars
    PROVE  Sound'
  <1> DEFINE i == op[Worker].cur
             o == Attach(Worker, i, "discover")
  <1>1. op[Worker].at = "retryInstall" BY DEF RetryInstall
  <1>2. /\ i \in Instance /\ i \in Reach(Worker) /\ inst[i].lifecycle = Worker
        /\ op[Worker].new = None /\ op[Worker].id \in Provider
        /\ Worker \in Proc /\ ~Booting(Worker) /\ Mine(Worker) /\ op[Worker] \in Op
    BY <1>1, RetryingFacts
  <1>3. Externals /\ Succeed BY DEF RetryInstall, Externals, externalVars, Succeed
  <1>4. Elsewhere(Worker) /\ listening' = listening BY <1>2, <1>3, ElsewhereExternals
  <1>5. CASE Return(Worker, inst)
    BY <1>1, <1>2, <1>4, <1>5, MarkedSame, ReturnStep
  <1>6. CASE inst' = [inst EXCEPT ![i].status = "running"] /\ op' = [op EXCEPT ![Worker] = o]
    <2>1. "running" \in Status BY DEF Status
    <2>2. Marked(Worker, inst') BY <1>2, <1>6, <2>1, MarkedStatus
    <2>3. InstQuiet(Worker) /\ inst'[i].lifecycle = Worker BY <1>2, <2>2, MarkedQuiet DEF Marked
    <2>4. Local(Worker) BY <1>2, <1>4, <2>3, QuietLocal
    <2>5. /\ o \in Op /\ o.at = "subscribe" /\ o.then = "discover" /\ o.new = None
          /\ o.id = op[Worker].id /\ o.cur = i /\ o.target = i
      BY <1>2 DEF Op, Place, Attach
    <2> HIDE DEF o
    <2>6. Moved(Worker, o) /\ op'[Worker] = o BY <1>2, <1>6, <2>5, MoveOp DEF Moved
    <2>7. Identity(Worker)' /\ Candidate(Worker)' /\ Refs(o) \ {None} \subseteq Reach(Worker)
      BY <1>2, <2>4, <2>5, <2>6, MineKept
    <2>8. Proper(Worker)'
      BY <1>2, <2>5, <2>6
      DEF Proper, WorkerOnly, Shared, Named, OnCurrent, Targeting, WithCandidate, ClosePlace, Nameless
    <2>9. Locked(Worker)' BY <2>3, <2>5, <2>6 DEF Locked, OnLocked, OnClosed
    <2>10. Released(Worker)' BY <2>5, <2>6 DEF Released, Waiting
    <2>11. Mine(Worker)' BY <2>7, <2>8, <2>9, <2>10 DEF Mine
    <2>12. Worker \notin Caller BY WorkerAssumption
    <2>13. QED BY <1>1, <1>2, <1>4, <2>3, <2>5, <2>6, <2>7, <2>11, <2>12, QuietStep
  <1>7. QED BY <1>5, <1>6 DEF RetryInstall

\* A report marks an instance that somebody may hear of and starts the worker.
LEMMA ReportStep ==
    ASSUME Sound, NEW i \in Instance, Report(i) \/ ReportArrives(i), UNCHANGED callVars
    PROVE  Sound'
  <1>1. Worker \in Proc /\ ~Booting(Worker) /\ Mine(Worker) /\ op[Worker] \in Op BY WorkerFacts
  <1>2. /\ UNCHANGED <<table, closed, open, listening, leaked, deaf, calls, overlapped>>
        /\ (Succeed \/ Fail) /\ inflight' \subseteq inflight \cup {i}
    BY DEF Report, ReportArrives, managerVars, callVars, Succeed
  <1>3. i \in Reach(Worker)
    BY DEF Report, ReportArrives, Reach
  <1>4. Marked(Worker, inst')
    <2>1. "error" \in FailureStatus BY DEF FailureStatus
    <2>2. CASE Report(i) BY <1>1, <2>2, MarkedSame DEF Report, managerVars
    <2>3. CASE ReportArrives(i) BY <1>1, <1>3, <2>1, <2>3, MarkedIfCurrent DEF ReportArrives
    <2>4. QED BY <2>2, <2>3
  <1>5. InstQuiet(Worker) BY <1>1, <1>4, MarkedQuiet
  <1>6. Elsewhere(Worker)
    <2>1. failures' \in 0 .. MaxFailures
      BY <1>2, BoundAssumption DEF Sound, TypeOK, Succeed, Fail
    <2>2. OthersTyped' BY <1>2, <2>1 DEF Sound, TypeOK, OthersTyped
    <2>3. QED BY <1>2, <1>3, <2>2 DEF Elsewhere
  <1>7. Local(Worker) BY <1>1, <1>2, <1>5, <1>6, QuietLocal
  <1>8. TableIds' BY <1>1, <1>2, <1>7, TableKept
  <1> DEFINE o == op'[Worker]
  <1>9. op \in [Proc -> Op] BY TypeParts DEF Sound
  <1>10. \/ op' = op
         \/ op[Worker].at = "off" /\ op' = [op EXCEPT ![Worker] = Selecting]
    BY DEF Report, ReportArrives, startRetryWorker, Selecting
  <1>11. /\ Moved(Worker, o) /\ \A q \in Proc \ {Worker} : op'[q] = op[q]
         /\ o = op[Worker] \/ (op[Worker].at = "off" /\ o = Selecting)
    BY <1>1, <1>9, <1>10, IdleFacts DEF Moved
  <1>12. Count'
    <2>1. \A q \in Proc : /\ op'[q].at = "record" <=> op[q].at = "record"
                          /\ op'[q].at = "closing" <=> op[q].at = "closing"
                          /\ op[q].at \in {"record", "closing"} => op'[q] = op[q]
      BY <1>11, IdleFacts
    <2>2. ASSUME NEW j \in Instance
          PROVE  Recorders(j)' = Recorders(j) /\ (ClosedBy(j)' <=> ClosedBy(j))
      BY <2>1 DEF Recorders, ClosedBy
    <2>3. QED BY <1>2, <1>5, <2>2 DEF Sound, Count, InstQuiet
  <1>13. op[Worker].new = None BY <1>1 DEF Mine, Proper, WorkerOnly, Shared, WithCandidate
  <1>14. /\ o.id \in {op[Worker].id, None} /\ o.new = None
         /\ o.cur \in {op[Worker].cur, None} /\ o.target \in {op[Worker].target, None}
         /\ o.at # "boot" /\ o.then # "boot"
    BY <1>1, <1>11, <1>13, IdleFacts DEF Refs, Booting
  <1>15. Identity(Worker)' /\ Candidate(Worker)' /\ Refs(o) \ {None} \subseteq Reach(Worker)
    <2> HIDE DEF o
    <2>1. QED BY <1>1, <1>7, <1>11, <1>14, MineKept
  <1>16. Proper(Worker)' /\ Locked(Worker)'
    <2>1. CASE o = op[Worker]
      <3>1. Live' = Live BY <1>2 DEF Live
      <3>2. Locked(Worker)'
        <4>1. \A j \in Instance : inst'[j].lifecycle = inst[j].lifecycle BY <1>4 DEF Marked
        <4>2. /\ o.at \in OnLocked => o.cur \in Instance
              /\ o.at \in {"subscribe", "record"} => o.target \in Instance
              /\ o.cur \in Instance \cup {None}
          BY <1>1, <2>1 DEF Mine, Proper, OnLocked, OnCurrent, Targeting, Op
        <4>3. QED BY <1>1, <1>2, <2>1, <3>1, <4>1, <4>2 DEF Mine, Locked
      <3>3. QED BY <1>1, <1>2, <2>1, <3>2 DEF Mine, Proper
    <2>2. CASE o = Selecting
      BY <1>14, <2>2, IdleFacts
      DEF Proper, WorkerOnly, Named, OnCurrent, Targeting, WithCandidate, ClosePlace, Nameless,
          Locked, OnLocked, OnClosed
    <2>3. QED BY <1>11, <2>1, <2>2
  <1>17. Released(Worker)'
    <2>1. Waiting(Worker)' => Waiting(Worker) BY <1>11, IdleFacts DEF Waiting
    <2>2. QED BY <1>1, <1>4, <2>1 DEF Mine, Released, Marked
  <1>18. Mine(Worker)' BY <1>15, <1>16, <1>17 DEF Mine
  <1> HIDE DEF o
  <1>19. Boot' BY <1>7, <1>11, <1>14, <1>15, BootBesideWorker
  <1>20. QED BY <1>1, <1>6, <1>7, <1>8, <1>11, <1>12, <1>15, <1>18, <1>19, SoundFromParts DEF Elsewhere
-----------------------------------------------------------------------------
(* attach.                                                                 *)

\* p at the two places of attach.
LEMMA AttachFacts ==
    ASSUME Sound, NEW p \in Proc, op[p].at \in {"subscribe", "record"}
    PROVE  /\ op[p].target \in Instance /\ op[p].target \in Reach(p) /\ op[p].target # None
           /\ op[p].new = None /\ op[p].id \in Provider /\ op[p].id # None
           /\ inst[op[p].target].id = op[p].id /\ op[p] \in Op /\ Mine(p)
           /\ p = Worker => inst[op[p].target].lifecycle = Worker
           /\ ~Garbage(op[p].target)
  <1>1. op[p] \in Op /\ Mine(p) BY SoundAt
  <1>2. op[p].target \in Instance /\ op[p].new = None /\ op[p].id \in Provider
    BY <1>1 DEF Mine, Proper, Targeting, WithCandidate, Named
  <1>3. op[p].target # None /\ op[p].id # None BY <1>2, NoneAssumption
  <1>4. op[p].target \in Refs(op[p]) \ {None} BY <1>3 DEF Refs
  <1>5. op[p].target \in Reach(p) /\ ~Garbage(op[p].target) BY <1>4, SoundAt
  <1>6. QED BY <1>1, <1>2, <1>3, <1>4, <1>5 DEF Mine, Identity, Locked

\* A provider that Initialize has not come to is no target.
LEMMA BootKept ==
    ASSUME Sound, NEW p \in Caller, NEW o, Moved(p, o), Booting(p), p \in Proc,
           op[p].at \in {"subscribe", "record"}, o.left = op[p].left,
           o.at \in {"record", "boot"}, o.at = "boot" => o = [Idle EXCEPT !.at = "boot", !.left = o.left],
           Refs(o) \ {None} \subseteq Refs(op[p]), table' = table, open' = open, inflight' = inflight,
           \A i \in Instance : i \notin Refs(op[p]) /\ inst[i].lifecycle # p
                                  => inst'[i] = inst[i] /\ listening'[i] = listening[i]
    PROVE  Boot'
  <1>0. Worker \in Proc /\ Worker \notin Caller /\ p # Worker /\ Proc = Caller \cup {Worker}
    BY WorkerAssumption DEF Proc
  <1>1. BootAt(p) BY <1>0 DEF Sound, Boot
  <1>2. \A q \in Caller \ {p} : op[q] = Idle /\ op'[q] = op[q] BY <1>0, <1>1 DEF BootAt, Moved
  <1>3. op'[p] = o BY DEF Moved
  <1>4. ASSUME NEW id \in op[p].left PROVE Pristine(id)'
    <2>1. Pristine(id) BY <1>1 DEF BootAt
    <2> DEFINE i == table[id]
    <2>2. i \in Instance /\ i \notin Refs(op[p]) /\ i # None BY <2>1, NoneAssumption DEF Pristine
    <2>3. inst[i].lifecycle # p BY <2>1, NoneAssumption DEF Pristine, Unused, Proc
    <2>4. inst'[i] = inst[i] /\ listening'[i] = listening[i] BY <2>2, <2>3
    <2>5. ASSUME NEW q \in Proc PROVE i \notin Refs(op'[q])
      <3>1. CASE q = p BY <1>3, <2>2, <3>1
      <3>2. CASE q # p BY <2>1, <2>2, <3>2, IdleFacts DEF Pristine, Moved
      <3>3. QED BY <3>1, <3>2
    <2>6. QED BY <2>1, <2>4, <2>5 DEF Pristine
  <1>5. BootAt(p)' BY <1>2, <1>3, <1>4 DEF BootAt
  <1>6. ASSUME NEW q \in Proc, Booting(q)' PROVE q = p
    <2>1. CASE q \in Caller \ {p} BY <1>2, <1>6, <2>1, IdleFacts DEF Booting
    <2>2. CASE q = Worker
      <3>1. ~Booting(q) BY <2>2, WorkerFacts
      <3>2. op'[q] = op[q] \/ op'[q] = Selecting BY <1>0, <2>2 DEF Moved
      <3>3. QED BY <1>6, <3>1, <3>2, IdleFacts DEF Booting
    <2>3. QED BY <1>0, <2>1, <2>2
  <1>7. QED BY <1>5, <1>6 DEF Boot

\* What the count says of one instance.
LEMMA CountAt ==
    ASSUME Sound, NEW i \in Instance
    PROVE  /\ IsFiniteSet(Recorders(i)) /\ Cardinality(Recorders(i)) \in Nat /\ listening[i] \in Nat
           /\ inst[i].unsubscribe \in BOOLEAN
           /\ listening[i] >= Cardinality(Recorders(i))
           /\ inst[i].unsubscribe /\ ~ClosedBy(i) => listening[i] >= Cardinality(Recorders(i)) + 1
           /\ ~closed /\ inst[i].unsubscribe => listening[i] = Cardinality(Recorders(i)) + 1
           /\ ~closed /\ ~inst[i].unsubscribe => listening[i] = Cardinality(Recorders(i))
  <1>1. IsFiniteSet(Recorders(i)) /\ Cardinality(Recorders(i)) \in Nat
    BY FS_CardinalityType DEF Sound, Count
  <1>2. listening[i] \in Nat /\ inst[i].unsubscribe \in BOOLEAN BY DEF Sound, TypeOK, Managed
  <1>3. /\ listening[i] >= Cardinality(Recorders(i))
                             + IF inst[i].unsubscribe /\ ~ClosedBy(i) THEN 1 ELSE 0
        /\ ~closed => listening[i] = Cardinality(Recorders(i)) + IF inst[i].unsubscribe THEN 1 ELSE 0
    BY DEF Sound, Count
  <1>4. QED BY <1>1, <1>2, <1>3

\* p joins or leaves the goroutines that attach to i; nobody starts or ends a Close.
LEMMA RecordersMoved ==
    ASSUME Sound, NEW p \in Proc, NEW o, Moved(p, o), NEW i \in Instance,
           \/ op[p].at = "subscribe" /\ o.at = "record" /\ o.target = i
           \/ op[p].at = "record" /\ op[p].target = i /\ o.at \notin {"record", "closing"}
    PROVE  /\ \A j \in Instance \ {i} : Recorders(j)' = Recorders(j)
           /\ \A j \in Instance : ClosedBy(j)' <=> ClosedBy(j)
           /\ op[p].at = "subscribe" => Recorders(i)' = Recorders(i) \cup {p} /\ p \notin Recorders(i)
           /\ op[p].at = "record" => Recorders(i)' = Recorders(i) \ {p} /\ p \in Recorders(i)
  <1>1. \A q \in Proc \ {p} : /\ op'[q].at = "record" <=> op[q].at = "record"
                              /\ op'[q].at = "closing" <=> op[q].at = "closing"
                              /\ op[q].at \in {"record", "closing"} => op'[q] = op[q]
    BY IdleFacts DEF Moved
  <1>2. op'[p] = o BY DEF Moved
  <1>3. \A j \in Instance : ClosedBy(j)' <=> ClosedBy(j) BY <1>1, <1>2 DEF ClosedBy
  <1>4. ASSUME NEW j \in Instance \ {i} PROVE Recorders(j)' = Recorders(j)
    BY <1>1, <1>2 DEF Recorders
  <1>5. ASSUME op[p].at = "subscribe"
        PROVE  Recorders(i)' = Recorders(i) \cup {p} /\ p \notin Recorders(i)
    BY <1>1, <1>2, <1>5 DEF Recorders
  <1>6. ASSUME op[p].at = "record"
        PROVE  Recorders(i)' = Recorders(i) \ {p} /\ p \in Recorders(i)
    BY <1>1, <1>2, <1>6 DEF Recorders
  <1>7. QED BY <1>3, <1>4, <1>5, <1>6

LEMMA SubscribeStep ==
    ASSUME Sound, NEW p \in Proc, Subscribe(p), UNCHANGED callVars
    PROVE  Sound'
  <1>1. op[p].at = "subscribe" BY DEF Subscribe
  <1>0. PICK i \in Instance : i = op[p].target BY <1>1, AttachFacts
  <1>2. /\ i \in Instance /\ i \in Reach(p) /\ op[p].new = None /\ op[p].id \in Provider
        /\ op[p] \in Op /\ Mine(p) /\ (p = Worker => inst[i].lifecycle = Worker)
    BY <1>0, <1>1, AttachFacts
  <1>3. /\ UNCHANGED <<table, inst, closed, open, inflight, failures, leaked, deaf, calls, overlapped>>
        /\ listening' = [listening EXCEPT ![i] = @ + 1] /\ Goto(p, "record")
    BY <1>0 DEF Subscribe, managerVars, callVars
  <1>4. listening \in [Instance -> Nat] BY DEF Sound, TypeOK
  <1>5. /\ listening' \in [Instance -> Nat] /\ listening'[i] = listening[i] + 1
        /\ \A j \in Instance \ {i} : listening'[j] = listening[j]
    BY <1>2, <1>3, <1>4
  <1>6. "record" \in Place BY DEF Place
  <1>7. PICK o \in Op : /\ Moved(p, o) /\ o.at = "record"
                        /\ o.id = op[p].id /\ o.cur = op[p].cur /\ o.new = op[p].new
                        /\ o.target = i /\ o.then = op[p].then /\ o.left = op[p].left
    BY <1>0, <1>3, <1>6, GoOp
  <1>8. op'[p] = o BY <1>7 DEF Moved
  <1>9. Elsewhere(p)
    <2>1. open \in SUBSET Instance /\ leaked \in SUBSET Instance /\ deaf \in SUBSET Instance
      BY DEF Sound, TypeOK
    <2>2. QED BY <1>3, <1>5, <2>1, ElsewhereSame DEF Succeed
  <1>10. InstQuiet(p) /\ Local(p)
    BY <1>2, <1>3, <1>5, <1>9, MarkedSame, MarkedQuiet, QuietLocal
  <1>11. Count'
    <2>1. /\ \A j \in Instance \ {i} : Recorders(j)' = Recorders(j)
          /\ \A j \in Instance : ClosedBy(j)' <=> ClosedBy(j)
          /\ Recorders(i)' = Recorders(i) \cup {p} /\ p \notin Recorders(i)
      BY <1>1, <1>7, RecordersMoved
    <2>2. /\ IsFiniteSet(Recorders(i)')
          /\ Cardinality(Recorders(i)') = Cardinality(Recorders(i)) + 1
      <3>1. IsFiniteSet(Recorders(i)) BY <1>2, CountAt
      <3>2. QED BY <2>1, <3>1, FS_AddElement
    <2>3. ASSUME NEW j \in Instance \ {i}
          PROVE  /\ IsFiniteSet(Recorders(j)')
                 /\ listening'[j] >= Cardinality(Recorders(j)')
                                       + IF inst'[j].unsubscribe /\ ~ClosedBy(j)' THEN 1 ELSE 0
                 /\ ~closed' => listening'[j] = Cardinality(Recorders(j)')
                                                  + IF inst'[j].unsubscribe THEN 1 ELSE 0
      BY <1>3, <1>5, <2>1, <2>3 DEF Sound, Count
    <2>4. /\ listening'[i] >= Cardinality(Recorders(i)')
                                + IF inst'[i].unsubscribe /\ ~ClosedBy(i)' THEN 1 ELSE 0
          /\ ~closed' => listening'[i] = Cardinality(Recorders(i)')
                                           + IF inst'[i].unsubscribe THEN 1 ELSE 0
      <3> DEFINE c == Cardinality(Recorders(i))
      <3>1. /\ c \in Nat /\ listening[i] \in Nat /\ inst[i].unsubscribe \in BOOLEAN
            /\ listening[i] >= c /\ (inst[i].unsubscribe /\ ~ClosedBy(i) => listening[i] >= c + 1)
            /\ ~closed /\ inst[i].unsubscribe => listening[i] = c + 1
            /\ ~closed /\ ~inst[i].unsubscribe => listening[i] = c
        BY <1>2, CountAt
      <3>2. /\ Cardinality(Recorders(i)') = c + 1 /\ inst'[i] = inst[i] /\ closed' = closed
            /\ listening'[i] = listening[i] + 1 /\ (ClosedBy(i)' <=> ClosedBy(i))
        BY <1>2, <1>3, <1>5, <2>1, <2>2
      <3> HIDE DEF c
      <3>3. QED BY <3>1, <3>2
    <2>5. QED BY <2>2, <2>3, <2>4 DEF Count
  <1>12. Identity(p)' /\ Candidate(p)' /\ Refs(o) \ {None} \subseteq Reach(p)
    <2>1. o.target \in {op[p].cur, op[p].target, None} /\ o.cur \in {op[p].cur, op[p].target, None}
      BY <1>0, <1>7
    <2>2. QED BY <1>2, <1>7, <1>10, <2>1, MineKept
  <1>13. Mine(p)'
    <2>1. Proper(p)'
      BY <1>1, <1>2, <1>7, <1>8 DEF Mine, Proper, WorkerOnly, Shared, Named, OnCurrent, Targeting,
                                    WithCandidate, ClosePlace, Nameless
    <2>2. Locked(p)' BY <1>2, <1>3, <1>7, <1>8 DEF Locked, OnLocked, OnClosed
    <2>3. Released(p)' BY <1>7, <1>8 DEF Released, Waiting
    <2>4. QED BY <1>12, <2>1, <2>2, <2>3 DEF Mine
  <1>14. TableIds' BY <1>3, <1>10, TableKept
  <1>15. Boot'
    <2>1. CASE p = Worker
      <3>1. o.then # "boot" BY <1>7, <2>1, WorkerFacts DEF Booting
      <3>2. QED BY <1>7, <1>10, <1>12, <2>1, <3>1, BootBesideWorker
    <2>2. CASE p \in Caller /\ ~Booting(p)
      <3>1. o.then # "boot" BY <1>7, <2>2 DEF Booting
      <3>2. QED BY <1>1, <1>7, <2>2, <3>1, BootOver
    <2>3. CASE p \in Caller /\ Booting(p)
      <3>1. o.then = "boot" BY <1>1, <1>7, <2>3 DEF Booting
      <3>2. Refs(o) \ {None} \subseteq Refs(op[p]) BY <1>0, <1>7 DEF Refs
      <3>3. ASSUME NEW j \in Instance, j \notin Refs(op[p])
            PROVE  inst'[j] = inst[j] /\ listening'[j] = listening[j]
        BY <1>0, <1>3, <1>5, <3>3 DEF Refs
      <3>4. QED BY <1>1, <1>3, <1>7, <2>3, <3>1, <3>2, <3>3, BootKept
    <2>4. QED BY <2>1, <2>2, <2>3 DEF Proc
  <1>16. QED BY <1>7, <1>9, <1>10, <1>11, <1>12, <1>13, <1>14, <1>15, SoundFromParts DEF Elsewhere

\* Where p goes when it has attached: to nothing of its own.
LEMMA AttachedMine ==
    ASSUME Sound, NEW p \in Proc, NEW f, op[p].at = "record", AfterAttach(p, f), f \in [Instance -> Managed]
    PROVE  \E o \in Op : /\ Moved(p, o) /\ Mine(p)' /\ Refs(o) = {None} /\ o.then = "return"
                         /\ o.at \in {"idle", "select", "boot", "discover"}
                         /\ o.at # "discover" => inst' = Unlock(f, p)
                         /\ o.at = "discover" => inst' = f
                         /\ Booting(p) <=> o.at = "boot"
                         /\ o.at = "boot" => /\ o = [Idle EXCEPT !.at = "boot", !.left = o.left]
                                             /\ o.left = op[p].left
  <1>1. op[p] \in Op /\ Mine(p) BY SoundAt
  <1>2. CASE op[p].then = "return" /\ Return(p, f)
    <2> DEFINE o == Returned(p)
    <2>1. inst' = Unlock(f, p) /\ \A i \in Instance : inst'[i].lifecycle # p
      BY <1>2, UnlockFacts DEF Return
    <2>2. o \in Op BY IdleFacts DEF Returned, Selecting
    <2>3. Moved(p, o) BY <1>2, <2>2, MoveOp DEF Return
    <2>4. Mine(p)' /\ Refs(o) = {None} /\ o.at \in {"idle", "select"} /\ o.then = "return"
      BY <2>1, <2>3, ReturnedMine DEF Moved
    <2>5. ~Booting(p) BY <1>2 DEF Booting
    <2> HIDE DEF o
    <2>6. QED BY <2>1, <2>2, <2>3, <2>4, <2>5
  <1>3. CASE op[p].then = "discover" /\ inst' = f /\ GotoDiscovery(p)
    <2>1. PICK o \in Op : /\ Moved(p, o) /\ Mine(p)' /\ Refs(o) = {None}
                          /\ o.at = "discover" /\ o.then = "return"
      BY <1>3, DiscoveryMine
    <2>2. ~Booting(p) BY <1>3 DEF Booting
    <2>3. QED BY <1>3, <2>1, <2>2
  <1>4. CASE /\ op[p].then = "boot" /\ inst' = Unlock(f, p)
             /\ op' = [op EXCEPT ![p] = [Idle EXCEPT !.at = "boot", !.left = op[p].left]]
    <2> DEFINE o == [Idle EXCEPT !.at = "boot", !.left = op[p].left]
    <2>1. /\ o \in Op /\ Refs(o) = {None} /\ o.then = "return" /\ o.at = "boot" /\ o.new = None
          /\ o.left = op[p].left /\ o = [Idle EXCEPT !.at = "boot", !.left = o.left] /\ o.id = None
      BY <1>1 DEF Idle, Op, Place, Refs
    <2>2. \A i \in Instance : inst'[i].lifecycle # p BY <1>4, UnlockFacts
    <2>3. op' = [op EXCEPT ![p] = o] BY <1>4
    <2>4. Booting(p) /\ p # Worker BY <1>4, WorkerFacts DEF Booting
    <2> HIDE DEF o
    <2>5. Moved(p, o) /\ op'[p] = o BY <2>1, <2>3, MoveOp DEF Moved
    <2>6. Proper(p)'
      BY <2>1, <2>4, <2>5
      DEF Proper, WorkerOnly, Named, OnCurrent, Targeting, WithCandidate, ClosePlace, Nameless
    <2>7. Identity(p)' BY <2>1, <2>5 DEF Identity
    <2>8. Locked(p)' BY <2>1, <2>5 DEF Locked, OnLocked, OnClosed
    <2>9. Candidate(p)' BY <2>1, <2>5 DEF Candidate
    <2>10. Released(p)' BY <2>2 DEF Released
    <2>11. Mine(p)' BY <2>6, <2>7, <2>8, <2>9, <2>10 DEF Mine
    <2>12. QED BY <1>4, <2>1, <2>4, <2>5, <2>11
  <1>5. QED BY <1>2, <1>3, <1>4 DEF AfterAttach

LEMMA RecordStep ==
    ASSUME Sound, NEW p \in Proc, Record(p), UNCHANGED callVars
    PROVE  Sound'
  <1>1. op[p].at = "record" BY DEF Record
  <1>2. PICK i \in Instance : i = op[p].target BY <1>1, AttachFacts
  <1>3. i \in Reach(p) BY <1>1, <1>2, AttachFacts
  <1> DEFINE kept == table[op[p].id] = i /\ ~inst[i].unsubscribe
             f == IF kept THEN [inst EXCEPT ![i].unsubscribe = TRUE] ELSE inst
  <1>4. /\ UNCHANGED <<table, closed, open, inflight, failures, leaked, deaf, calls, overlapped>>
        /\ listening' = IF kept THEN listening ELSE [listening EXCEPT ![i] = @ - 1]
        /\ AfterAttach(p, f)
    BY <1>2 DEF Record, callVars
  <1>5. inst \in [Instance -> Managed] /\ listening \in [Instance -> Nat] BY DEF Sound, TypeOK
  <1>6. kept \in BOOLEAN /\ (kept => ~inst[i].unsubscribe) OBVIOUS
  <1>7. /\ f \in [Instance -> Managed] /\ f[i].id = inst[i].id /\ f[i].lifecycle = inst[i].lifecycle
        /\ f[i].unsubscribe = (kept \/ inst[i].unsubscribe)
        /\ \A j \in Instance \ {i} : f[j] = inst[j]
    <2>1. inst[i] \in Managed BY <1>5
    <2> HIDE DEF kept
    <2>2. CASE kept BY <1>5, <2>1, <2>2 DEF Managed
    <2>3. CASE ~kept BY <1>5, <2>1, <2>3 DEF Managed
    <2>4. QED BY <2>2, <2>3
  <1> HIDE DEF f, kept
  <1>8. PICK o \in Op : /\ Moved(p, o) /\ Mine(p)' /\ Refs(o) = {None} /\ o.then = "return"
                        /\ o.at \in {"idle", "select", "boot", "discover"}
                        /\ o.at # "discover" => inst' = Unlock(f, p)
                        /\ o.at = "discover" => inst' = f
                        /\ Booting(p) <=> o.at = "boot"
                        /\ o.at = "boot" => /\ o = [Idle EXCEPT !.at = "boot", !.left = o.left]
                                            /\ o.left = op[p].left
    BY <1>1, <1>4, <1>7, AttachedMine
  <1>9. /\ inst' \in [Instance -> Managed]
        /\ \A j \in Instance : /\ inst'[j].id = f[j].id /\ inst'[j].unsubscribe = f[j].unsubscribe
                               /\ \/ inst'[j] = f[j]
                                  \/ f[j].lifecycle = p /\ inst'[j].lifecycle = None
    BY <1>7, <1>8, UnlockFacts
  <1>10. \A j \in Instance : j \notin Reach(p) => inst[j].lifecycle # p BY DEF Reach
  <1>11. /\ \A j \in Instance : Changed(p, j)
         /\ \A j \in Instance \ Reach(p) : inst'[j] = inst[j]
         /\ \A j \in Instance \ {i} : inst'[j].unsubscribe = inst[j].unsubscribe
         /\ inst'[i].unsubscribe = (kept \/ inst[i].unsubscribe)
         /\ \A j \in Instance \ {i} : inst[j].lifecycle # p => inst'[j] = inst[j]
    BY <1>3, <1>7, <1>9, <1>10 DEF Changed
  <1>12. /\ \A j \in Instance \ {i} : Recorders(j)' = Recorders(j)
         /\ \A j \in Instance : ClosedBy(j)' <=> ClosedBy(j)
         /\ Recorders(i)' = Recorders(i) \ {p} /\ p \in Recorders(i)
    BY <1>1, <1>2, <1>8, RecordersMoved
  <1>13. /\ IsFiniteSet(Recorders(i)') /\ Cardinality(Recorders(i)') \in Nat
         /\ Cardinality(Recorders(i)) = Cardinality(Recorders(i)') + 1
    <2>1. IsFiniteSet(Recorders(i)) /\ Cardinality(Recorders(i)) \in Nat BY CountAt
    <2>2. /\ IsFiniteSet(Recorders(i) \ {p})
          /\ Cardinality(Recorders(i) \ {p}) = Cardinality(Recorders(i)) - 1
      BY <1>12, <2>1, FS_RemoveElement
    <2>3. Cardinality(Recorders(i) \ {p}) \in Nat BY <2>2, FS_CardinalityType
    <2>4. QED BY <1>12, <2>1, <2>2, <2>3
  <1>14. listening[i] \in Nat /\ listening[i] >= 1 BY <1>13, CountAt
  <1>15. /\ listening' \in [Instance -> Nat]
         /\ listening'[i] = IF kept THEN listening[i] ELSE listening[i] - 1
         /\ \A j \in Instance \ {i} : listening'[j] = listening[j]
    BY <1>4, <1>5, <1>14
  <1>16. Count'
    <2>1. ASSUME NEW j \in Instance \ {i}
          PROVE  /\ IsFiniteSet(Recorders(j)')
                 /\ listening'[j] >= Cardinality(Recorders(j)')
                                       + IF inst'[j].unsubscribe /\ ~ClosedBy(j)' THEN 1 ELSE 0
                 /\ ~closed' => listening'[j] = Cardinality(Recorders(j)')
                                                  + IF inst'[j].unsubscribe THEN 1 ELSE 0
      BY <1>4, <1>11, <1>12, <1>15, <2>1 DEF Sound, Count
    <2>2. /\ listening'[i] >= Cardinality(Recorders(i)')
                                + IF inst'[i].unsubscribe /\ ~ClosedBy(i)' THEN 1 ELSE 0
          /\ ~closed' => listening'[i] = Cardinality(Recorders(i)')
                                           + IF inst'[i].unsubscribe THEN 1 ELSE 0
      <3> DEFINE c == Cardinality(Recorders(i))
                 d == Cardinality(Recorders(i)')
      <3>1. /\ listening[i] \in Nat /\ inst[i].unsubscribe \in BOOLEAN
            /\ listening[i] >= c /\ (inst[i].unsubscribe /\ ~ClosedBy(i) => listening[i] >= c + 1)
            /\ ~closed /\ inst[i].unsubscribe => listening[i] = c + 1
            /\ ~closed /\ ~inst[i].unsubscribe => listening[i] = c
        BY CountAt
      <3>2. d \in Nat /\ c = d + 1 /\ (ClosedBy(i)' <=> ClosedBy(i)) /\ closed' = closed
        BY <1>4, <1>12, <1>13
      <3> HIDE DEF c, d
      <3>3. CASE kept
        <4>1. listening'[i] = listening[i] /\ inst'[i].unsubscribe = TRUE /\ ~inst[i].unsubscribe
          BY <1>6, <1>11, <1>15, <3>3
        <4>2. QED BY <3>1, <3>2, <4>1 DEF d
      <3>4. CASE ~kept
        <4>1. listening'[i] = listening[i] - 1 /\ inst'[i].unsubscribe = inst[i].unsubscribe
          BY <1>11, <1>15, <3>1, <3>4
        <4>2. QED BY <3>1, <3>2, <4>1 DEF d
      <3>5. QED BY <3>3, <3>4
    <2>3. QED BY <1>13, <2>1, <2>2 DEF Count
  <1>17. Elsewhere(p)
    <2>1. open \in SUBSET Instance /\ leaked \in SUBSET Instance /\ deaf \in SUBSET Instance
      BY DEF Sound, TypeOK
    <2>2. QED BY <1>4, <1>15, <2>1, ElsewhereSame DEF Succeed
  <1>18. Local(p)
    <2>1. \A j \in Instance \ Reach(p) : listening'[j] = listening[j] BY <1>3, <1>15
    <2>2. QED BY <1>9, <1>11, <1>17, <2>1, ElsewhereLocal
  <1>19. TableIds' BY <1>4, <1>18, TableKept
  <1>20. Refs(o) \ {None} \subseteq Reach(p) BY <1>8
  <1>21. Boot'
    <2>1. CASE p = Worker
      <3>1. o.at # "boot" BY <1>8, <2>1, WorkerFacts
      <3>2. QED BY <1>8, <1>18, <1>20, <2>1, <3>1, BootBesideWorker
    <2>2. CASE p \in Caller /\ ~Booting(p)
      BY <1>1, <1>8, <2>2, BootOver
    <2>3. CASE p \in Caller /\ Booting(p)
      <3>1. Refs(o) \ {None} \subseteq Refs(op[p]) BY <1>8
      <3>2. ASSUME NEW j \in Instance, j \notin Refs(op[p]), inst[j].lifecycle # p
            PROVE  inst'[j] = inst[j] /\ listening'[j] = listening[j]
        BY <1>2, <1>11, <1>15, <3>2 DEF Refs
      <3>3. QED BY <1>1, <1>4, <1>8, <2>3, <3>1, <3>2, BootKept
    <2>4. QED BY <2>1, <2>2, <2>3 DEF Proc
  <1>22. QED BY <1>8, <1>16, <1>17, <1>18, <1>19, <1>20, <1>21, SoundFromParts DEF Elsewhere
-----------------------------------------------------------------------------
(* Initialize.                                                             *)

\* Initialize has dealt with the provider id and goes on with o.
LEMMA BootStep ==
    ASSUME Sound, NEW p \in Caller, p \in Proc, op[p].at = "boot", NEW id \in op[p].left,
           NEW i \in Instance, i = table[id], NEW o, Moved(p, o),
           InstQuiet(p), \A j \in Instance \ {i} : inst'[j] = inst[j],
           Elsewhere(p), UNCHANGED <<table, inflight, listening>>, open' \subseteq open \cup {i},
           Refs(o) \ {None} \subseteq {i}, o.left = op[p].left \ {id}, o.at \in {"boot", "subscribe"},
           o.at = "boot" => o = [Idle EXCEPT !.at = "boot", !.left = o.left], Mine(p)'
    PROVE  Sound'
  <1>1. Worker \in Proc /\ Worker \notin Caller /\ p # Worker /\ Proc = Caller \cup {Worker}
    BY WorkerAssumption DEF Proc
  <1>2. BootAt(p) BY DEF Sound, Boot, Booting
  <1>3. op[p] \in Op BY SoundAt
  <1>4. id \in Provider /\ i # None BY <1>3, NoneAssumption DEF Op
  <1>5. i \in Live /\ inst[i].id = id BY <1>4, SoundTable
  <1>6. Local(p) BY QuietLocal
  <1>7. TableIds' BY <1>6, TableKept
  <1>8. Count' BY CountKept DEF InstQuiet, Elsewhere
  <1>9. Refs(o) \ {None} \subseteq Reach(p) BY <1>5 DEF Reach
  <1>10. \A q \in Caller \ {p} : op[q] = Idle /\ op'[q] = op[q] BY <1>1, <1>2 DEF BootAt, Moved
  <1>11. op'[p] = o BY DEF Moved
  <1>12. ASSUME NEW d \in o.left PROVE Pristine(d)'
    <2>1. d \in Provider /\ d # id /\ Pristine(d) BY <1>2, <1>3 DEF BootAt, Op
    <2> DEFINE j == table[d]
    <2>2. j \in Instance /\ j # None BY <2>1, NoneAssumption DEF Pristine
    <2>3. j # i BY <1>5, <2>1, <2>2, SoundTable
    <2>4. inst'[j] = inst[j] /\ listening'[j] = listening[j] BY <2>2, <2>3
    <2>5. ASSUME NEW q \in Proc PROVE j \notin Refs(op'[q])
      <3>1. CASE q = p BY <1>11, <2>2, <2>3, <3>1
      <3>2. CASE q # p BY <2>1, <2>2, <3>2, IdleFacts DEF Pristine, Moved
      <3>3. QED BY <3>1, <3>2
    <2>6. QED BY <2>1, <2>3, <2>4, <2>5 DEF Pristine
  <1>13. BootAt(p)' BY <1>10, <1>11, <1>12 DEF BootAt
  <1>14. ASSUME NEW q \in Proc, Booting(q)' PROVE q = p
    <2>1. CASE q \in Caller \ {p} BY <1>10, <1>14, <2>1, IdleFacts DEF Booting
    <2>2. CASE q = Worker
      <3>1. ~Booting(q) BY <2>2, WorkerFacts
      <3>2. op'[q] = op[q] \/ op'[q] = Selecting BY <1>1, <2>2 DEF Moved
      <3>3. QED BY <1>14, <3>1, <3>2, IdleFacts DEF Booting
    <2>3. QED BY <1>1, <2>1, <2>2
  <1>15. Boot' BY <1>13, <1>14 DEF Boot
  <1>16. QED BY <1>6, <1>7, <1>8, <1>9, <1>15, SoundFromParts DEF Elsewhere

LEMMA InitializeNextStep ==
    ASSUME Sound, NEW p \in Proc, InitializeNext(p), UNCHANGED callVars
    PROVE  Sound'
  <1>1. op[p].at = "boot" BY DEF InitializeNext
  <1>2. BootAt(p) BY <1>1 DEF Sound, Boot, Booting
  <1>3. p \in Caller /\ p # Worker /\ op[p] \in Op /\ Mine(p)
    BY <1>2, WorkerAssumption, SoundAt DEF BootAt
  <1>4. op[p] = [Idle EXCEPT !.at = "boot", !.left = op[p].left] BY <1>1, <1>2 DEF BootAt
  <1>5. op[p].id = None /\ op[p].cur = None /\ op[p].new = None /\ op[p].target = None
    BY <1>4 DEF Idle
  <1>6. PICK id \in op[p].left :
          /\ inst[table[id]].lifecycle = None
          /\ \/ /\ Succeed
                /\ open' = open \cup {table[id]}
                /\ inst' = [inst EXCEPT ![table[id]].status = "running", ![table[id]].lifecycle = p]
                /\ op' = [op EXCEPT ![p] = [Attach(p, table[id], "boot") EXCEPT !.id = id, !.left = @ \ {id}]]
             \/ /\ Fail
                /\ \E s \in FailureStatus : inst' = markFailureLocked(table[id], s)
                /\ op' = [op EXCEPT ![p].left = @ \ {id}]
                /\ UNCHANGED open
    BY DEF InitializeNext
  <1>7. PICK i \in Instance : i = table[id] /\ Pristine(id) BY <1>2 DEF BootAt, Pristine
  <1>8. id \in Provider /\ id # None /\ i # None BY <1>3, NoneAssumption DEF Op
  <1>9. i \in Live /\ inst[i].id = id /\ inst[i].lifecycle = None BY <1>6, <1>7, <1>8, SoundTable
  <1>10. i \in Reach(p) BY <1>3, <1>9 DEF Reach
  <1>11. UNCHANGED <<table, closed, listening, inflight, leaked, deaf, calls, overlapped>>
    BY DEF InitializeNext, callVars
  <1>12. (Succeed \/ Fail) /\ open' \subseteq open \cup {i} BY <1>6, <1>7
  <1>13. Elsewhere(p)
    <2>1. /\ open' \in SUBSET Instance /\ listening \in [Instance -> Nat]
          /\ leaked \in SUBSET Instance /\ deaf \in SUBSET Instance
      BY <1>12 DEF Sound, TypeOK
    <2>2. QED BY <1>9, <1>10, <1>11, <1>12, <2>1, ElsewhereSame
  <1>14. inst \in [Instance -> Managed] BY DEF Sound, TypeOK
  <1>15. CASE /\ inst' = [inst EXCEPT ![i].status = "running", ![i].lifecycle = p]
              /\ op' = [op EXCEPT ![p] = [Attach(p, i, "boot") EXCEPT !.id = id, !.left = @ \ {id}]]
    <2>1. "running" \in Status BY DEF Status
    <2>2. \E s \in Status : inst' = [inst EXCEPT ![i].status = s, ![i].lifecycle = p]
      BY <1>15, <2>1
    <2>3. /\ InstQuiet(p) /\ inst'[i].lifecycle = p
          /\ \A j \in Instance : j # i => inst'[j] = inst[j]
      BY <1>9, <1>10, <2>2, LockQuiet
    <2> DEFINE o == [Attach(p, i, "boot") EXCEPT !.id = id, !.left = @ \ {id}]
    <2>4. /\ o \in Op /\ o.at = "subscribe" /\ o.id = id /\ o.cur = None /\ o.new = None
          /\ o.target = i /\ o.left = op[p].left \ {id}
      BY <1>3, <1>5, <1>8 DEF Op, Place, Attach
    <2>5. op' = [op EXCEPT ![p] = o] BY <1>15
    <2> HIDE DEF o
    <2>6. Moved(p, o) /\ op'[p] = o BY <2>4, <2>5, MoveOp DEF Moved
    <2>7. Mine(p)'
      <3>1. Proper(p)'
        BY <1>3, <1>8, <2>4, <2>6
        DEF Proper, WorkerOnly, Named, OnCurrent, Targeting, WithCandidate, ClosePlace, Nameless
      <3>2. Identity(p)' BY <1>8, <1>9, <2>3, <2>4, <2>6 DEF Identity, Refs, InstQuiet
      <3>3. Locked(p)' BY <1>3, <2>4, <2>6 DEF Locked, OnLocked, OnClosed
      <3>4. Candidate(p)' BY <2>4, <2>6 DEF Candidate
      <3>5. Released(p)' BY <2>4, <2>6 DEF Released, Waiting
      <3>6. QED BY <3>1, <3>2, <3>3, <3>4, <3>5 DEF Mine
    <2>8. Refs(o) \ {None} \subseteq {i} BY <2>4 DEF Refs
    <2>9. /\ \A j \in Instance \ {i} : inst'[j] = inst[j]
          /\ o.at = "boot" => o = [Idle EXCEPT !.at = "boot", !.left = o.left]
          /\ o.at \in {"boot", "subscribe"}
      BY <2>3, <2>4
    <2>10. QED BY <1>1, <1>3, <1>7, <1>11, <1>12, <1>13, <2>3, <2>4, <2>6, <2>7, <2>8, <2>9, BootStep
  <1>16. CASE /\ \E s \in FailureStatus : inst' = markFailureLocked(i, s)
              /\ op' = [op EXCEPT ![p].left = @ \ {id}]
    <2>1. PICK s \in FailureStatus : inst' = markFailureLocked(i, s) BY <1>16
    <2>2. Marked(p, inst') BY <1>10, <2>1, MarkedIfCurrent
    <2>3. InstQuiet(p) BY <2>2, MarkedQuiet
    <2>4. \A j \in Instance \ {i} : inst'[j] = inst[j] BY <1>14, <2>1 DEF markFailureLocked
    <2> DEFINE o == [op[p] EXCEPT !.left = @ \ {id}]
    <2>5. /\ o \in Op /\ o.at = "boot" /\ o.id = None /\ o.cur = None /\ o.new = None
          /\ o.target = None /\ o.left = op[p].left \ {id}
      BY <1>1, <1>3, <1>5 DEF Op
    <2>6. o = [Idle EXCEPT !.at = "boot", !.left = o.left] BY <1>4 DEF Idle
    <2>7. op' = [op EXCEPT ![p] = o] BY <1>16
    <2> HIDE DEF o
    <2>8. Moved(p, o) /\ op'[p] = o BY <2>5, <2>7, MoveOp DEF Moved
    <2>9. Mine(p)'
      <3>1. Proper(p)'
        BY <1>3, <2>5, <2>8
        DEF Proper, WorkerOnly, Named, OnCurrent, Targeting, WithCandidate, ClosePlace, Nameless
      <3>2. Identity(p)' BY <2>5, <2>8 DEF Identity, Refs
      <3>3. Locked(p)' BY <2>5, <2>8 DEF Locked, OnLocked, OnClosed
      <3>4. Candidate(p)' BY <2>5, <2>8 DEF Candidate
      <3>5. Released(p)' BY <1>1, <1>3, <2>2 DEF Mine, Released, Waiting, Marked
      <3>6. QED BY <3>1, <3>2, <3>3, <3>4, <3>5 DEF Mine
    <2>10. Refs(o) \ {None} \subseteq {i} BY <2>5 DEF Refs
    <2>11. QED BY <1>1, <1>3, <1>7, <1>11, <1>12, <1>13, <2>3, <2>4, <2>5, <2>6, <2>8, <2>9, <2>10, BootStep
  <1>17. QED BY <1>6, <1>7, <1>15, <1>16

LEMMA InitializeDoneStep ==
    ASSUME Sound, NEW p \in Proc, InitializeDone(p), UNCHANGED callVars
    PROVE  Sound'
  <1> DEFINE o == Returned(p)
  <1>1. op[p].at = "boot" BY DEF InitializeDone
  <1>2. BootAt(p) BY <1>1 DEF Sound, Boot, Booting
  <1>3. p \in Caller /\ p # Worker BY <1>2, WorkerAssumption DEF BootAt
  <1>4. Externals /\ Succeed BY DEF InitializeDone, Externals, externalVars, Succeed
  <1>5. Elsewhere(p) /\ listening' = listening BY <1>4, ElsewhereExternals
  <1>6. InstQuiet(p) /\ \A i \in Instance : inst'[i].lifecycle # p
    BY MarkedSame, UnlockQuiet DEF InitializeDone, ReturnAndRetry
  <1>7. o \in Op /\ o.at # "off" BY IdleFacts DEF Returned, Selecting
  <1>8. Moved(p, o) BY <1>7, MoveRetry DEF InitializeDone, ReturnAndRetry
  <1>9. Mine(p)' /\ Refs(o) = {None} /\ o.at \in {"idle", "select"} /\ o.then = "return"
    BY <1>6, <1>8, ReturnedMine DEF Moved
  <1> HIDE DEF o
  <1>10. Local(p) BY <1>5, <1>6, QuietLocal
  <1>11. TableIds' BY <1>5, <1>10, TableKept DEF Elsewhere
  <1>12. Count' BY <1>1, <1>5, <1>6, <1>8, <1>9, CountKept DEF InstQuiet, Elsewhere
  <1>13. Boot'
    <2>1. ASSUME NEW q \in Proc PROVE ~Booting(q)'
      <3>1. CASE q = p BY <1>8, <1>9, <3>1 DEF Booting, Moved
      <3>2. CASE q \in Caller \ {p}
        <4>1. q # Worker /\ q # p BY <3>2, WorkerAssumption
        <4>2. op[q] = Idle BY <1>2, <3>2 DEF BootAt
        <4>3. op'[q] = Idle BY <1>8, <4>1, <4>2 DEF Moved
        <4>4. QED BY <4>3, IdleFacts DEF Booting
      <3>3. CASE q = Worker
        <4>1. ~Booting(q) BY <3>3, WorkerFacts
        <4>2. op'[q] = op[q] \/ op'[q] = Selecting BY <1>3, <1>8, <3>3 DEF Moved
        <4>3. QED BY <4>1, <4>2, IdleFacts DEF Booting
      <3>4. QED BY <3>1, <3>2, <3>3 DEF Proc
    <2>2. QED BY <2>1 DEF Boot
  <1>14. QED BY <1>5, <1>8, <1>9, <1>10, <1>11, <1>12, <1>13, SoundFromParts DEF Elsewhere
-----------------------------------------------------------------------------
(* The invariant.                                                          *)

LEMMA InitSound == Init => Sound
  <1> SUFFICES ASSUME Init PROVE Sound OBVIOUS
  <1>1. PICK configured \in SUBSET Provider :
          /\ table = [id \in Provider |-> IF id \in configured THEN First[id] ELSE None]
          /\ inst = [i \in Instance |-> IF \E id \in configured : First[id] = i
                        THEN [Unused EXCEPT !.id = CHOOSE id \in Provider : First[id] = i, !.status = "created"]
                        ELSE Unused]
          /\ op = [p \in Proc |-> CASE p = Main -> [Idle EXCEPT !.at = "boot", !.left = configured]
                                   [] p = Worker -> Off
                                   [] OTHER -> Idle]
    BY DEF Init
  <1>2. /\ First \in [Provider -> Instance]
        /\ \A id1, id2 \in Provider : First[id1] = First[id2] => id1 = id2
    BY InstanceAssumption DEF First
  <1>3. Main \in Caller /\ Main # Worker /\ Main \in Proc /\ Worker \in Proc /\ Worker \notin Caller
    BY CallerAssumption, WorkerAssumption DEF Main, Proc
  <1> HIDE DEF First, Main
  <1>4. /\ closed = FALSE /\ open = {} /\ listening = [i \in Instance |-> 0] /\ inflight = {}
        /\ calls = 0 /\ failures = 0 /\ leaked = {} /\ deaf = {} /\ overlapped = {}
    BY DEF Init
  <1> DEFINE boot == [Idle EXCEPT !.at = "boot", !.left = configured]
  <1>5. /\ boot \in Op /\ boot.at = "boot" /\ Refs(boot) = {None} /\ boot.new = None /\ boot.id = None
        /\ boot.left = configured /\ boot = [Idle EXCEPT !.at = "boot", !.left = boot.left]
    BY DEF Idle, Op, Place, Refs
  <1>6. /\ op[Main] = boot /\ op[Worker] = Off
        /\ \A p \in Proc \ {Main, Worker} : op[p] = Idle
    BY <1>1, <1>3
  <1> HIDE DEF boot
  <1>7. op \in [Proc -> Op]
    <2>1. \A p \in Proc : op[p] \in Op BY <1>5, <1>6, IdleFacts
    <2>2. QED BY <1>1, <2>1
  <1>8. ASSUME NEW id \in configured
        PROVE  /\ table[id] = First[id] /\ table[id] \in Instance
               /\ inst[table[id]] = [Unused EXCEPT !.id = id, !.status = "created"]
    <2>1. id \in Provider /\ First[id] \in Instance /\ table[id] = First[id] BY <1>1, <1>2
    <2>2. (CHOOSE d \in Provider : First[d] = First[id]) = id
      BY <1>2, <2>1
    <2>3. inst[First[id]] = [Unused EXCEPT !.id = CHOOSE d \in Provider : First[d] = First[id],
                                           !.status = "created"]
      BY <1>1, <2>1
    <2>4. QED BY <2>1, <2>2, <2>3
  <1>9. ASSUME NEW i \in Instance
        PROVE  inst[i] \in Managed /\ inst[i].lifecycle = None /\ inst[i].unsubscribe = FALSE
    <2>1. CASE \E id \in configured : First[id] = i
      <3>1. PICK id \in configured : First[id] = i BY <2>1
      <3>2. inst[i] = [Unused EXCEPT !.id = id, !.status = "created"] BY <1>8, <3>1
      <3>3. id \in Provider OBVIOUS
      <3>4. QED BY <3>2, <3>3 DEF Unused, Managed, Status
    <2>2. CASE ~\E id \in configured : First[id] = i
      <3>1. inst[i] = Unused BY <1>1, <2>2
      <3>2. QED BY <3>1 DEF Unused, Managed, Status
    <2>3. QED BY <2>1, <2>2
  <1>10. TypeOK
    <2>1. inst \in [Instance -> Managed] BY <1>1, <1>9
    <2>2. table \in [Provider -> Instance \cup {None}] BY <1>1, <1>2
    <2>3. calls \in 0 .. MaxCalls /\ failures \in 0 .. MaxFailures BY <1>4, BoundAssumption
    <2>4. OthersTyped BY <1>4, <2>2, <2>3 DEF OthersTyped
    <2>5. QED BY <1>7, <2>1, <2>4, TypeParts
  <1>11. LocksReleased BY <1>9 DEF LocksReleased
  <1>12. TableIds
    <2>1. ASSUME NEW id \in Provider, table[id] # None PROVE inst[table[id]].id = id
      <3>1. id \in configured BY <1>1, <2>1
      <3>2. inst[table[id]] = [Unused EXCEPT !.id = id, !.status = "created"] BY <1>8, <3>1
      <3>3. QED BY <3>2 DEF Unused
    <2>2. QED BY <2>1 DEF TableIds
  <1>13. \A p \in Proc : Refs(op[p]) = {None} BY <1>5, <1>6, IdleFacts
  <1>14. Boot
    <2>1. ASSUME NEW p \in Proc, Booting(p) PROVE BootAt(p)
      <3>1. p = Main BY <1>6, <2>1, IdleFacts DEF Booting
      <3>2. ASSUME NEW id \in configured PROVE Pristine(id)
        <4>1. /\ table[id] \in Instance /\ table[id] # None
              /\ inst[table[id]] = [Unused EXCEPT !.id = id, !.status = "created"]
          BY <1>8, NoneAssumption
        <4>2. table[id] \notin open \cup inflight /\ listening[table[id]] = 0 BY <1>4, <4>1
        <4>3. \A q \in Proc : table[id] \notin Refs(op[q]) BY <1>13, <4>1
        <4>4. QED BY <4>1, <4>2, <4>3 DEF Pristine
      <3>3. \A q \in Caller \ {Main} : op[q] = Idle BY <1>3, <1>6 DEF Proc
      <3>4. QED BY <1>3, <1>5, <1>6, <3>1, <3>2, <3>3 DEF BootAt
    <2>2. QED BY <2>1 DEF Boot
  <1>15. Count
    <2>1. ASSUME NEW i \in Instance PROVE Recorders(i) = {}
      BY <1>5, <1>6, IdleFacts DEF Recorders
    <2>2. IsFiniteSet({}) /\ Cardinality({}) = 0 BY FS_EmptySet
    <2>3. ASSUME NEW i \in Instance
          PROVE  /\ IsFiniteSet(Recorders(i)) /\ Cardinality(Recorders(i)) = 0
                 /\ listening[i] = 0 /\ ~inst[i].unsubscribe
      BY <1>4, <1>9, <2>1, <2>2
    <2>4. ASSUME NEW i \in Instance
          PROVE  /\ IsFiniteSet(Recorders(i))
                 /\ listening[i] >= Cardinality(Recorders(i))
                                      + IF inst[i].unsubscribe /\ ~ClosedBy(i) THEN 1 ELSE 0
                 /\ listening[i] = Cardinality(Recorders(i)) + IF inst[i].unsubscribe THEN 1 ELSE 0
      BY <2>3
    <2>5. QED BY <2>4 DEF Count
  <1>16. ASSUME NEW p \in Proc PROVE Proper(p) /\ Identity(p) /\ Locked(p) /\ Candidate(p)
    <2>1. /\ p = Main => op[p].at = "boot"
          /\ p = Worker => op[p].at = "off"
          /\ p \notin {Main, Worker} => op[p].at = "idle"
      <3>1. p = Main => op[p] = boot BY <1>6
      <3>2. p = Worker => op[p] = Off BY <1>6
      <3>3. p \notin {Main, Worker} => op[p] = Idle BY <1>6
      <3>4. boot.at = "boot" /\ Off.at = "off" /\ Idle.at = "idle" BY <1>5, IdleFacts
      <3>5. QED BY <3>1, <3>2, <3>3, <3>4
    <2>2. op[p].new = None BY <1>13 DEF Refs
    <2>3. op[p].at \in {"boot", "off", "idle"} /\ (op[p].at = "off" <=> p = Worker)
      BY <1>3, <2>1
    <2>4. Proper(p)
      BY <2>2, <2>3
      DEF Proper, WorkerOnly, Named, OnCurrent, Targeting, WithCandidate, ClosePlace, Nameless
    <2>5. Identity(p) BY <1>13 DEF Identity
    <2>6. Locked(p) BY <2>3 DEF Locked, OnLocked, OnClosed
    <2>7. Candidate(p) BY <2>2 DEF Candidate
    <2>8. QED BY <2>4, <2>5, <2>6, <2>7
  <1>17. QED BY <1>10, <1>11, <1>12, <1>14, <1>15, <1>16 DEF Sound

LEMMA StepSound ==
    ASSUME Sound, NEW p \in Proc, Step(p)
    PROVE  Sound'
  <1>1. UNCHANGED callVars BY DEF Step
  <1>2. CASE InitializeNext(p) BY <1>1, <1>2, InitializeNextStep
  <1>3. CASE InitializeDone(p) BY <1>1, <1>3, InitializeDoneStep
  <1>4. CASE Subscribe(p) BY <1>1, <1>4, SubscribeStep
  <1>5. CASE Record(p) BY <1>1, <1>5, RecordStep
  <1>6. CASE ApplyChanged(p) BY <1>1, <1>6, ApplyChangedStep
  <1>7. CASE Reconfigure(p) BY <1>1, <1>7, ReconfigureStep
  <1>8. CASE reconcileReconfigured(p) BY <1>1, <1>8, ReconciledStep
  <1>9. CASE ReplaceBegin(p) BY <1>1, <1>9, ReplaceBeginStep
  <1>10. CASE ReplaceClose(p) BY <1>1, <1>10, ReplaceCloseStep
  <1>11. CASE ApplyInitialize(p) BY <1>1, <1>11, ApplyInitializeStep
  <1>12. CASE CandidateFails(p) BY <1>1, <1>12, CandidateFailsStep
  <1>13. CASE Install(p) BY <1>1, <1>13, InstallStep
  <1>14. CASE restoreAfterFailedReplacement(p) BY <1>1, <1>14, RestoreStep
  <1>15. CASE RemoveLocked(p) BY <1>1, <1>15, RemoveLockedStep
  <1>16. CASE RemoveClose(p) BY <1>1, <1>16, RemoveCloseStep
  <1>17. CASE DiscoverLook(p) BY <1>1, <1>17, DiscoverLookStep
  <1>18. CASE DiscoverFetch(p) BY <1>1, <1>18, DiscoverFetchStep
  <1>19. CASE DiscoverDone(p) BY <1>1, <1>19, DiscoverDoneStep
  <1>20. CASE CloseWaited(p) BY <1>1, <1>20, CloseWaitedStep
  <1>21. CASE CloseNext(p) BY <1>1, <1>21, CloseNextStep
  <1>22. CASE CloseLocked(p) BY <1>1, <1>22, CloseLockedStep
  <1>23. CASE CloseProvider(p) BY <1>1, <1>23, CloseProviderStep
  <1>24. CASE CloseDone(p) BY <1>1, <1>24, CloseDoneStep
  <1>25. QED
    BY <1>2, <1>3, <1>4, <1>5, <1>6, <1>7, <1>8, <1>9, <1>10, <1>11, <1>12, <1>13, <1>14, <1>15,
       <1>16, <1>17, <1>18, <1>19, <1>20, <1>21, <1>22, <1>23, <1>24 DEF Step

LEMMA RetrySound ==
    ASSUME Sound, Retry
    PROVE  Sound'
  <1>1. UNCHANGED callVars BY DEF Retry
  <1>2. CASE RetrySelect \/ RetryEnd \/ RetryExit BY <1>1, <1>2, RetryLoopStep
  <1>3. CASE retryProvider BY <1>1, <1>3, retryProviderStep
  <1>4. CASE RetryFails BY <1>1, <1>4, RetryFailsStep
  <1>5. CASE RetryClose \/ RetryInitialize BY <1>1, <1>5, RetryCloseStep
  <1>6. CASE RetryInstall BY <1>1, <1>6, RetryInstallStep
  <1>7. QED BY <1>2, <1>3, <1>4, <1>5, <1>6 DEF Retry

LEMMA CallSound ==
    ASSUME Sound, Call
    PROVE  Sound'
  <1>1. Booted /\ ~closed /\ calls < MaxCalls /\ calls' = calls + 1 BY DEF Call
  <1>2. calls' \in 0 .. MaxCalls BY <1>1, BoundAssumption DEF Sound, TypeOK
  <1>3. overlapped \in SUBSET Provider BY DEF Sound, TypeOK
  <1>4. PICK p \in Caller :
          \/ \E id \in Provider :
                /\ Apply(p, id) \/ Remove(p, id)
                /\ overlapped' = IF \E q \in Caller : op[q].id = id THEN overlapped \cup {id} ELSE overlapped
          \/ (DiscoverDevices(p) \/ Close(p)) /\ UNCHANGED overlapped
    BY DEF Call
  <1>5. ASSUME NEW id \in Provider, Apply(p, id) \/ Remove(p, id), overlapped' \in SUBSET Provider
        PROVE  Sound'
    <2>1. CallFrame BY <1>2, <1>5 DEF CallFrame, Apply, Remove
    <2>2. QED BY <1>1, <1>5, <2>1, ApplyStep, RemoveStep
  <1>6. ASSUME DiscoverDevices(p) \/ Close(p), UNCHANGED overlapped
        PROVE  Sound'
    <2>1. CallFrame BY <1>2, <1>3, <1>6 DEF CallFrame, DiscoverDevices, Close
    <2>2. QED BY <1>1, <1>6, <2>1, DiscoverDevicesStep, CloseStep
  <1>7. QED BY <1>3, <1>4, <1>5, <1>6

LEMMA StutterSound ==
    ASSUME Sound, UNCHANGED vars
    PROVE  Sound'
  <1>1. UNCHANGED <<table, inst, closed, op, open, listening, inflight, calls, failures, leaked, deaf, overlapped>>
    BY DEF vars, managerVars, callVars, externalVars
  <1>2. TypeOK' /\ LocksReleased' /\ TableIds'
    BY <1>1 DEF Sound, TypeOK, LocksReleased, Waiting, TableIds
  <1>3. Live' = Live BY <1>1 DEF Live
  <1>4. \A p \in Proc : Proper(p)' /\ Identity(p)' /\ Locked(p)' /\ Candidate(p)'
    BY <1>1, <1>3 DEF Sound, Proper, Identity, Locked, Candidate
  <1>5. Boot' BY <1>1 DEF Sound, Boot, Booting, BootAt, Pristine
  <1>6. Count' BY <1>1 DEF Sound, Count, Recorders, ClosedBy
  <1>7. QED BY <1>2, <1>4, <1>5, <1>6 DEF Sound

LEMMA NextSound ==
    ASSUME Sound, [Next]_vars
    PROVE  Sound'
  <1>1. CASE \E p \in Caller : Step(p) BY <1>1, StepSound DEF Proc
  <1>2. CASE WorkerStep BY <1>2, StepSound, RetrySound DEF WorkerStep, Proc
  <1>3. CASE Call BY <1>3, CallSound
  <1>4. CASE Reports BY <1>4, ReportStep DEF Reports
  <1>5. CASE UNCHANGED vars BY <1>5, StutterSound
  <1>6. QED BY <1>1, <1>2, <1>3, <1>4, <1>5 DEF Next

\* In every state each goroutine is where its local variables, the mutexes, the
\* transports and the subscriptions say it is.
THEOREM SoundInvariant == Spec => []Sound
  <1>1. Init => Sound BY InitSound
  <1>2. Sound /\ [Next]_vars => Sound' BY NextSound
  <1>3. QED BY <1>1, <1>2, PTL DEF Spec

\* Whatever fails and however the calls, the retry worker and the reports interleave,
\* no lifecycle mutex stays with a goroutine that has returned, and nobody waits for
\* one while holding another.
THEOREM LifecycleHolds == Spec => []LifecycleInv
  <1>1. Sound => LifecycleInv BY DEF Sound, LifecycleInv
  <1>2. QED BY <1>1, SoundInvariant, PTL

\* Apply, restoreAfterFailedReplacement, retryProvider and Initialize never initialize
\* a provider whose transport is open.
THEOREM InitializedOnce == Spec => []NeverInitializedTwice
  <1>1. Sound => NeverInitializedTwice
    <2> SUFFICES ASSUME Sound, NEW p \in Proc
                 PROVE  /\ op[p].at = "applyInit" => op[p].new \notin open
                        /\ op[p].at = "restore" => op[p].cur \notin open
                        /\ op[p].at = "retryInit" => op[p].cur \notin open
                        /\ op[p].at = "boot" => \A id \in op[p].left : table[id] \notin open
      BY DEF NeverInitializedTwice
    <2>1. Mine(p) BY SoundAt
    <2>2. open \in SUBSET Instance /\ None \notin open BY NoneAssumption DEF Sound, TypeOK
    <2>3. op[p].at = "applyInit" => op[p].new \notin open BY <2>1, <2>2 DEF Mine, Candidate
    <2>4. op[p].at = "restore" => op[p].cur \notin open BY <2>1, <2>2 DEF Mine, Locked, OnClosed
    <2>5. op[p].at = "retryInit" => op[p].cur \notin open BY <2>1 DEF Mine, Locked
    <2>6. op[p].at = "boot" => \A id \in op[p].left : table[id] \notin open
      BY DEF Sound, Boot, Booting, BootAt, Pristine
    <2>7. QED BY <2>3, <2>4, <2>5, <2>6
  <1>2. QED BY <1>1, SoundInvariant, PTL
-----------------------------------------------------------------------------
(* What holds of a provider as long as no two callers have changed it at   *)
(* the same time.                                                          *)

AttachPlace == {"subscribe", "record"}
MutePlace == {"applyClose", "applyInit", "applyInstall", "restore"}
SolePlace == {"applyLock", "reconfigured", "removeLock", "retryClose", "retryInit", "retryInstall"} \cup MutePlace

\* Callers that change the same provider have overlapped.
Solo == \A p, q \in Caller : p # q /\ op[p].id = op[q].id /\ op[p].id # None => op[p].id \in overlapped

\* What p has found in the table, taken from it or put into it is still so.
Sole(p) == LET o == op[p] IN o.id # None /\ o.id \notin overlapped =>
    /\ o.at \in SolePlace => table[o.id] = o.cur
    /\ o.at = "removeClose" => table[o.id] = None
    /\ o.at \in AttachPlace => table[o.id] = o.target

\* p has a transport in hand that is not, or no longer, that of the table's provider.
InHand(p, i) == /\ op[p].id = inst[i].id
                /\ \/ op[p].at = "applyInstall" /\ op[p].new = i
                   \/ op[p].at = "removeClose" /\ op[p].cur = i

\* An open transport is that of the provider in the table, or a caller has it in hand.
OpenPlace == \A i \in open :
    /\ inst[i].id \in Provider
    /\ i \notin leaked /\ inst[i].id \notin overlapped =>
          table[inst[i].id] = i \/ \E p \in Caller : InHand(p, i)

\* A provider that is being replaced is not subscribed.
Muted(p) == LET o == op[p] IN
    o.id \notin overlapped /\ o.at \in MutePlace /\ o.cur # None => ~inst[o.cur].unsubscribe

\* A provider outside the table is subscribed only until Remove has come to it.
OffTable == \A i \in Instance : i \notin Live /\ inst[i].id \notin overlapped /\ inst[i].unsubscribe =>
    \E p \in Caller : op[p].at = "removeClose" /\ op[p].cur = i

\* A provider in the table that runs is subscribed, or is about to be, or is deaf.
OnTable == \A i \in Live : inst[i].status = "running" => inst[i].unsubscribe \/ i \in deaf \/ Attaching(i)

Orderly ==
    /\ Solo /\ OpenPlace /\ OffTable /\ OnTable
    /\ \A p \in Proc : Sole(p)
    /\ \A p \in Caller : Muted(p)

\* Only p moves, but for the retry worker that it may start.
Stay(p) == \A q \in Proc \ {p} :
    op'[q] = op[q] \/ (q = Worker /\ op[q].at = "off" /\ op'[q] = Selecting)

\* A step of p that leaves the table alone, in what it does to the ids and subscriptions ...
KeptSubscriptions(p) == \A i \in Instance :
    /\ inst'[i].id = inst[i].id \/ (Garbage(i) /\ ~inst'[i].unsubscribe)
    /\ inst'[i].unsubscribe =>
          inst[i].unsubscribe \/ (op[p].at = "record" /\ op[p].target = i /\ i \in Live)

\* ... to the providers that run ...
KeptRunning(p) == \A i \in Live : inst'[i].status = "running" =>
    \/ inst'[i].unsubscribe \/ i \in deaf'
    \/ op'[p].at \in AttachPlace /\ op'[p].target = i
    \/ /\ inst[i].status = "running"
       /\ inst[i].unsubscribe => inst'[i].unsubscribe
       /\ i \in deaf => i \in deaf'
       /\ op[p].at \in AttachPlace => op[p].target # i

\* ... and to the transports.
KeptOpen(p) ==
    /\ leaked \subseteq leaked'
    /\ \A i \in open' : i \notin open =>
          /\ ~Garbage(i)
          /\ inst[i].id \in Provider
          /\ \/ inst[i].id \in overlapped
             \/ table[inst[i].id] = i
             \/ p \in Caller /\ op'[p].at = "applyInstall" /\ op'[p].new = i /\ op'[p].id = inst[i].id
    /\ op[p].at = "applyInstall" => op[p].new \notin open' \/ op[p].new \in leaked'
    /\ op[p].at = "removeClose" =>
          /\ op[p].cur \notin open' \/ op[p].cur \in leaked'
          /\ ~inst'[op[p].cur].unsubscribe

LEMMA OrderlyKept ==
    ASSUME Sound, Orderly, Sound', NEW p \in Proc, Stay(p), table' = table, overlapped \subseteq overlapped',
           KeptSubscriptions(p), KeptRunning(p), KeptOpen(p), Solo', Sole(p)', p \in Caller => Muted(p)'
    PROVE  Orderly'
  <1>0. Worker \in Proc /\ Worker \notin Caller /\ Proc = Caller \cup {Worker}
    BY WorkerAssumption DEF Proc
  <1>1. Live' = Live BY DEF Live
  <1>2. \A i \in Live \cup open : i \in Instance /\ ~Garbage(i)
    BY DEF Sound, TypeOK, Live, Garbage
  <1>3. \A i \in Live \cup open : inst'[i].id = inst[i].id BY <1>2 DEF KeptSubscriptions
  <1>4. \A q \in Caller \ {p} : op'[q] = op[q] BY <1>0 DEF Stay
  <1>5. OpenPlace'
    <2>1. ASSUME NEW i \in open', i \in open PROVE inst'[i].id \in Provider
      BY <1>3, <2>1 DEF Orderly, OpenPlace
    <2>2. ASSUME NEW i \in open', i \in open, i \notin leaked', inst'[i].id \notin overlapped'
          PROVE  table[inst[i].id] = i \/ \E q \in Caller : InHand(q, i)'
      <3>1. i \notin leaked /\ inst'[i].id = inst[i].id /\ inst[i].id \notin overlapped
        BY <1>3, <2>2 DEF KeptOpen
      <3>2. ASSUME NEW q \in Caller, InHand(q, i) PROVE InHand(q, i)'
        <4>1. q # p BY <2>2, <3>2 DEF InHand, KeptOpen
        <4>2. op'[q] = op[q] BY <1>4, <4>1
        <4>3. QED BY <3>1, <3>2, <4>2 DEF InHand
      <3>3. QED BY <2>2, <3>1, <3>2 DEF Orderly, OpenPlace
    <2>3. ASSUME NEW i \in open', i \notin open
          PROVE  /\ inst'[i].id \in Provider
                 /\ inst'[i].id \in overlapped' \/ table[inst[i].id] = i
                                       \/ \E q \in Caller : InHand(q, i)'
      <3>1. i \in Instance BY DEF Sound, TypeOK
      <3>2. inst'[i].id = inst[i].id /\ inst[i].id \in Provider
        BY <2>3, <3>1 DEF KeptOpen, KeptSubscriptions
      <3>3. \/ inst[i].id \in overlapped \/ table[inst[i].id] = i
            \/ p \in Caller /\ op'[p].at = "applyInstall" /\ op'[p].new = i /\ op'[p].id = inst[i].id
        BY <2>3 DEF KeptOpen
      <3>4. QED BY <3>2, <3>3 DEF InHand
    <2>4. ASSUME NEW i \in open'
          PROVE  /\ inst'[i].id \in Provider
                 /\ i \notin leaked' /\ inst'[i].id \notin overlapped' =>
                       table'[inst'[i].id] = i \/ \E q \in Caller : InHand(q, i)'
      <3>1. CASE i \in open BY <1>3, <2>1, <2>2, <3>1
      <3>2. CASE i \notin open
        <4>1. i \in Instance BY DEF Sound, TypeOK
        <4>2. inst'[i].id = inst[i].id BY <3>2, <4>1 DEF KeptOpen, KeptSubscriptions
        <4>3. QED BY <2>3, <3>2, <4>2
      <3>3. QED BY <3>1, <3>2
    <2>5. QED BY <2>4 DEF OpenPlace
  <1>6. OffTable'
    <2>1. SUFFICES ASSUME NEW i \in Instance, i \notin Live', inst'[i].id \notin overlapped',
                          inst'[i].unsubscribe
                   PROVE  \E q \in Caller : op'[q].at = "removeClose" /\ op'[q].cur = i
      BY DEF OffTable
    <2>2. inst'[i].id = inst[i].id /\ inst[i].unsubscribe /\ i \notin Live /\ inst[i].id \notin overlapped
      BY <1>1, <2>1 DEF KeptSubscriptions
    <2>3. PICK q \in Caller : op[q].at = "removeClose" /\ op[q].cur = i
      BY <2>2 DEF Orderly, OffTable
    <2>4. q # p BY <2>1, <2>3 DEF KeptOpen
    <2>5. QED BY <1>4, <2>3, <2>4
  <1>7. OnTable'
    <2>1. SUFFICES ASSUME NEW i \in Live, inst'[i].status = "running"
                   PROVE  inst'[i].unsubscribe \/ i \in deaf' \/ Attaching(i)'
      BY <1>1 DEF OnTable
    <2>2. CASE op'[p].at \in AttachPlace /\ op'[p].target = i BY <2>2 DEF Attaching, AttachPlace
    <2>3. CASE /\ inst[i].status = "running"
               /\ inst[i].unsubscribe => inst'[i].unsubscribe
               /\ i \in deaf => i \in deaf'
               /\ op[p].at \in AttachPlace => op[p].target # i
      <3>1. ASSUME Attaching(i) PROVE Attaching(i)'
        <4>1. PICK q \in Proc : op[q].at \in AttachPlace /\ op[q].target = i
          BY <3>1 DEF Attaching, AttachPlace
        <4>2. q # p BY <2>3, <4>1
        <4>3. op'[q] = op[q] BY <4>1, <4>2 DEF Stay, AttachPlace
        <4>4. QED BY <4>1, <4>3 DEF Attaching, AttachPlace
      <3>2. QED BY <2>3, <3>1 DEF Orderly, OnTable
    <2>4. QED BY <2>1, <2>2, <2>3 DEF KeptRunning
  <1>8. ASSUME NEW q \in Proc \ {p} PROVE Sole(q)'
    <2>1. CASE op'[q] = op[q] BY <2>1 DEF Orderly, Sole
    <2>2. CASE op'[q] = Selecting BY <2>2, IdleFacts DEF Sole
    <2>3. QED BY <2>1, <2>2 DEF Stay
  <1>9. ASSUME NEW q \in Caller \ {p} PROVE Muted(q)'
    <2> DEFINE o == op[q]
    <2>1. op'[q] = o BY <1>4
    <2>2. SUFFICES ASSUME o.id \notin overlapped', o.at \in MutePlace, o.cur # None
                   PROVE  ~inst'[o.cur].unsubscribe
      BY <2>1 DEF Muted
    <2>3. ~inst[o.cur].unsubscribe BY <2>2 DEF Orderly, Muted
    <2>4. q \in Proc /\ o \in Op /\ Mine(q) BY <1>0, SoundAt
    <2>5. o.cur \in Instance /\ o.cur \in Refs(o) BY <2>2, <2>4 DEF Op, Refs
    <2>6. o.id \in Provider /\ o.id # None BY <2>2, <2>4, NoneAssumption DEF Mine, Proper, Named, MutePlace
    <2>7. inst[o.cur].id = o.id /\ inst[o.cur].lifecycle = q
      BY <2>2, <2>4, <2>5, <2>6 DEF Mine, Identity, Locked, OnLocked, OnClosed, MutePlace
    <2>8. ASSUME op[p].at = "record", op[p].target = o.cur PROVE FALSE
      <3>1. inst[o.cur].id = op[p].id /\ (p = Worker => inst[o.cur].lifecycle = Worker)
        BY <2>8, AttachFacts
      <3>2. p \in Caller BY <1>0, <2>7, <3>1
      <3>3. op[p].id = op[q].id BY <2>7, <3>1
      <3>4. QED BY <2>2, <2>6, <3>2, <3>3 DEF Orderly, Solo
    <2>9. QED BY <2>3, <2>5, <2>8 DEF KeptSubscriptions
  <1>10. QED BY <1>0, <1>5, <1>6, <1>7, <1>8, <1>9 DEF Orderly

\* A step of p that opens no transport, makes no subscription and lets no provider run.
Quiet ==
    /\ UNCHANGED <<table, overlapped>> /\ leaked \subseteq leaked' /\ open' \subseteq open
    /\ \A i \in Instance :
          /\ inst'[i].id = inst[i].id
          /\ inst'[i].unsubscribe => inst[i].unsubscribe
          /\ inst'[i].status = "running" =>
                /\ inst[i].status = "running"
                /\ inst[i].unsubscribe => inst'[i].unsubscribe
                /\ i \in deaf => i \in deaf'

LEMMA SoloKept ==
    ASSUME Sound, Orderly, NEW p \in Proc, Stay(p), overlapped \subseteq overlapped',
           p \in Caller => op'[p].id \in {op[p].id, None}
    PROVE  Solo'
  <1>1. \A q \in Caller : op'[q].id \in {op[q].id, None}
    BY WorkerAssumption DEF Stay, Proc
  <1>2. QED BY <1>1 DEF Orderly, Solo

LEMMA QuietOrder ==
    ASSUME Sound, Orderly, Sound', NEW p \in Proc, Stay(p), Quiet,
           op[p].at \notin AttachPlace \cup {"applyInstall", "removeClose"},
           p \in Caller => op'[p].id \in {op[p].id, None}, Sole(p)', p \in Caller => Muted(p)'
    PROVE  Orderly'
  <1>1. Solo' BY SoloKept DEF Quiet
  <1>2. KeptSubscriptions(p) BY DEF KeptSubscriptions, Quiet
  <1>3. KeptRunning(p)
    <2>1. Live \subseteq Instance BY DEF Sound, TypeOK, Live
    <2>2. QED BY <2>1 DEF KeptRunning, Quiet
  <1>4. KeptOpen(p) BY DEF KeptOpen, Quiet
  <1>5. QED BY <1>1, <1>2, <1>3, <1>4, OrderlyKept DEF Quiet

\* p goes on to a place that relies on nothing in the table.
LEMMA QuietEnd ==
    ASSUME Sound, Orderly, Sound', NEW p \in Proc, Stay(p), Quiet,
           op[p].at \notin AttachPlace \cup {"applyInstall", "removeClose"},
           p \in Caller => op'[p].id \in {op[p].id, None},
           op'[p].at \notin SolePlace \cup AttachPlace \cup {"removeClose"}
    PROVE  Orderly'
  <1>1. Sole(p)' BY DEF Sole
  <1>2. Muted(p)' BY DEF Muted, SolePlace
  <1>3. QED BY <1>1, <1>2, QuietOrder

\* p stays where it relies on the table.
LEMMA SoleKept ==
    ASSUME Orderly, NEW p \in Proc, table' = table, overlapped \subseteq overlapped',
           op[p].at \in SolePlace, op'[p].id = op[p].id,
           \/ op'[p].at \in SolePlace /\ op'[p].cur = op[p].cur
           \/ op'[p].at \in AttachPlace /\ op'[p].target = op[p].cur
    PROVE  Sole(p)'
  <1>1. Sole(p) BY DEF Orderly
  <1>2. QED BY <1>1 DEF Sole, SolePlace, MutePlace, AttachPlace

\* The ways in which op changes.
LEMMA StayReturn ==
    ASSUME Sound, NEW p \in Proc, NEW f \in [Instance -> Managed], Return(p, f) \/ ReturnAndRetry(p, f)
    PROVE  /\ Stay(p) /\ op'[p].id = None /\ op'[p].at \in {"idle", "select"}
           /\ \A i \in Instance : /\ inst'[i].id = f[i].id /\ inst'[i].unsubscribe = f[i].unsubscribe
                                  /\ inst'[i].status = f[i].status
  <1>1. \A i \in Instance : /\ inst'[i].id = f[i].id /\ inst'[i].unsubscribe = f[i].unsubscribe
                            /\ inst'[i].status = f[i].status /\ inst'[i].lifecycle # p
    BY UnlockFacts DEF Return, ReturnAndRetry
  <1>2. Returned(p) \in Op /\ Returned(p).at # "off" BY IdleFacts DEF Returned, Selecting
  <1>3. Moved(p, Returned(p)) BY <1>2, MoveOp, MoveRetry DEF Return, ReturnAndRetry
  <1>4. op'[p] = Returned(p) /\ Stay(p) BY <1>3 DEF Moved, Stay
  <1>5. Returned(p).id = None /\ Returned(p).at \in {"idle", "select"}
    BY <1>1, <1>4, ReturnedMine
  <1>6. QED BY <1>1, <1>4, <1>5

LEMMA StayDiscovery ==
    ASSUME Sound, NEW p \in Proc, GotoDiscovery(p)
    PROVE  Stay(p) /\ op'[p].id = None /\ op'[p].at = "discover"
  BY DiscoveryMine DEF Moved, Stay

LEMMA StayGo ==
    ASSUME Sound, NEW p \in Proc, NEW place \in Place, Goto(p, place)
    PROVE  /\ Stay(p) /\ op'[p].at = place
           /\ op'[p].id = op[p].id /\ op'[p].cur = op[p].cur /\ op'[p].new = op[p].new
           /\ op'[p].target = op[p].target
  BY GoOp DEF Moved, Stay

LEMMA StayOp ==
    ASSUME Sound, NEW p \in Proc, NEW o \in Op, op' = [op EXCEPT ![p] = o]
    PROVE  Stay(p) /\ op'[p] = o
  BY MoveOp DEF Moved, Stay

\* A failure is recorded and the call returns.
LEMMA MarkedOrder ==
    ASSUME NEW i, NEW s \in FailureStatus, inst \in [Instance -> Managed]
    PROVE  LET f == markIfCurrent(i, s) IN
           /\ f \in [Instance -> Managed]
           /\ \A j \in Instance : /\ f[j].id = inst[j].id /\ f[j].unsubscribe = inst[j].unsubscribe
                                  /\ f[j].status = "running" => inst[j].status = "running"
  <1>1. s \in Status /\ s # "running" BY DEF FailureStatus, Status
  <1> DEFINE f == markFailureLocked(i, s)
  <1>2. f \in [Instance -> Managed]
    BY <1>1 DEF markFailureLocked, Managed
  <1>3. \A j \in Instance : /\ f[j].id = inst[j].id /\ f[j].unsubscribe = inst[j].unsubscribe
                            /\ f[j].status = "running" => inst[j].status = "running"
    BY <1>1 DEF markFailureLocked, Managed
  <1> HIDE DEF f
  <1>4. markIfCurrent(i, s) \in {f, inst} BY DEF markIfCurrent, f
  <1>5. QED BY <1>2, <1>3, <1>4

\* A call that returns, with or without a failure to record, at a place where it has
\* nothing in hand.
LEMMA ReturnOrder ==
    ASSUME Sound, Orderly, Sound', NEW p \in Proc, NEW f \in [Instance -> Managed],
           Return(p, f) \/ ReturnAndRetry(p, f),
           \A j \in Instance : /\ f[j].id = inst[j].id /\ f[j].unsubscribe = inst[j].unsubscribe
                               /\ f[j].status = "running" => inst[j].status = "running",
           UNCHANGED <<table, overlapped, deaf>>, leaked \subseteq leaked', open' \subseteq open,
           op[p].at \notin AttachPlace \cup {"applyInstall", "removeClose"}
    PROVE  Orderly'
  <1>1. /\ Stay(p) /\ op'[p].id = None /\ op'[p].at \in {"idle", "select"}
        /\ \A i \in Instance : /\ inst'[i].id = f[i].id /\ inst'[i].unsubscribe = f[i].unsubscribe
                               /\ inst'[i].status = f[i].status
    BY StayReturn
  <1>2. Quiet BY <1>1 DEF Quiet
  <1>3. op'[p].at \notin SolePlace \cup AttachPlace \cup {"removeClose"}
    BY <1>1 DEF SolePlace, MutePlace, AttachPlace
  <1>4. QED BY <1>1, <1>2, <1>3, QuietEnd

\* A step that leaves inst and the transports alone and relies on nothing.
LEMMA OpOrder ==
    ASSUME Sound, Orderly, Sound', NEW p \in Proc, Stay(p),
           UNCHANGED <<table, inst, overlapped, open, leaked, deaf>>,
           op[p].at \notin AttachPlace \cup {"applyInstall", "removeClose"},
           p \in Caller => op'[p].id \in {op[p].id, None},
           op'[p].at \notin SolePlace \cup AttachPlace \cup {"removeClose"}
    PROVE  Orderly'
  <1>1. Quiet BY DEF Quiet
  <1>2. QED BY <1>1, QuietEnd
-----------------------------------------------------------------------------
(* Apply keeps the order.                                                  *)

LEMMA ApplyReturnsOrder ==
    ASSUME Sound, Orderly, Sound', NEW p \in Proc, UNCHANGED callVars,
           \/ ApplyChanged(p)
           \/ Reconfigure(p) /\ Return(p, inst)
           \/ reconcileReconfigured(p) /\ Return(p, inst) /\ UNCHANGED deaf
           \/ restoreAfterFailedReplacement(p) /\ op[p].cur = None
           \/ DiscoverDone(p) \/ CloseDone(p)
    PROVE  Orderly'
  <1>1. inst \in [Instance -> Managed] BY DEF Sound, TypeOK
  <1>2. /\ UNCHANGED <<table, overlapped, deaf, open, leaked>> /\ Return(p, inst)
        /\ op[p].at \in {"applyLock", "reconfigured", "restore", "discover", "fetch", "closeNext"}
    BY DEF ApplyChanged, Reconfigure, ApplyLocked, reconcileReconfigured, restoreAfterFailedReplacement,
           DiscoverDone, CloseDone, externalVars, callVars
  <1>3. op[p].at \notin AttachPlace \cup {"applyInstall", "removeClose"}
    BY <1>2 DEF AttachPlace
  <1>4. QED BY <1>1, <1>2, <1>3, ReturnOrder

LEMMA MarkOrder ==
    ASSUME Sound, Orderly, Sound', NEW p \in Proc, UNCHANGED callVars,
           UNCHANGED <<table, closed, open, listening, inflight, leaked, deaf>>,
           NEW i, NEW s \in FailureStatus,
           Return(p, markIfCurrent(i, s)) \/ ReturnAndRetry(p, markIfCurrent(i, s)),
           op[p].at \notin AttachPlace \cup {"applyInstall", "removeClose"}
    PROVE  Orderly'
  <1> DEFINE f == markIfCurrent(i, s)
  <1>1. inst \in [Instance -> Managed] BY DEF Sound, TypeOK
  <1>2. /\ f \in [Instance -> Managed]
        /\ \A j \in Instance : /\ f[j].id = inst[j].id /\ f[j].unsubscribe = inst[j].unsubscribe
                               /\ f[j].status = "running" => inst[j].status = "running"
    BY <1>1, MarkedOrder
  <1>3. Return(p, f) \/ ReturnAndRetry(p, f) OBVIOUS
  <1>4. UNCHANGED <<table, overlapped, deaf, open, leaked>> BY DEF callVars
  <1> HIDE DEF f
  <1>5. QED BY <1>2, <1>3, <1>4, ReturnOrder

\* A call goes on where it relies on the same current instance.
LEMMA GoOrder ==
    ASSUME Sound, Orderly, Sound', NEW p \in Proc, Stay(p), Quiet,
           op[p].at \in SolePlace \ {"applyInstall"}, op'[p].at \in SolePlace,
           op'[p].id = op[p].id, op'[p].cur = op[p].cur, p \in Caller => Muted(p)'
    PROVE  Orderly'
  <1>1. Sole(p)' BY SoleKept DEF Quiet
  <1>2. op[p].at \notin AttachPlace \cup {"applyInstall", "removeClose"}
    BY DEF SolePlace, MutePlace, AttachPlace
  <1>3. QED BY <1>1, <1>2, QuietOrder

LEMMA ReconfigureOrder ==
    ASSUME Sound, Orderly, Sound', NEW p \in Proc, Reconfigure(p), UNCHANGED callVars
    PROVE  Orderly'
  <1> DEFINE i == op[p].cur
  <1>1. op[p].at = "applyLock" /\ inst \in [Instance -> Managed]
    BY DEF Reconfigure, ApplyLocked, Sound, TypeOK
  <1>2. CASE Return(p, inst) BY <1>2, ApplyReturnsOrder
  <1>3. CASE inst' = [inst EXCEPT ![i].lifecycle = p] /\ Goto(p, "reconfigured")
    <2>1. /\ Stay(p) /\ op'[p].at = "reconfigured" /\ op'[p].id = op[p].id /\ op'[p].cur = i
      <3>1. "reconfigured" \in Place BY DEF Place
      <3>2. QED BY <1>3, <3>1, StayGo
    <2>2. Quiet BY <1>1, <1>3 DEF Quiet, Managed, Reconfigure, callVars
    <2>3. Muted(p)' BY <2>1 DEF Muted, MutePlace
    <2>4. QED BY <1>1, <2>1, <2>2, <2>3, GoOrder DEF SolePlace
  <1>4. QED BY <1>2, <1>3 DEF Reconfigure

LEMMA ReconciledOrder ==
    ASSUME Sound, Orderly, Sound', NEW p \in Proc, reconcileReconfigured(p), UNCHANGED callVars
    PROVE  Orderly'
  <1>1. op[p].at = "reconfigured" BY DEF reconcileReconfigured
  <1>2. PICK i \in Instance : i = op[p].cur BY <1>1, CurrentFacts DEF OnCurrent
  <1>3. inst \in [Instance -> Managed] BY DEF Sound, TypeOK
  <1>4. CASE Return(p, inst) /\ UNCHANGED deaf BY <1>4, ApplyReturnsOrder
  <1>5. CASE /\ inst' = [inst EXCEPT ![i].status = "running"] /\ GotoDiscovery(p)
             /\ deaf' = IF inst[i].unsubscribe THEN deaf ELSE deaf \cup {i}
    <2>1. Stay(p) /\ op'[p].id = None /\ op'[p].at = "discover" BY <1>5, StayDiscovery
    <2>2. UNCHANGED <<table, overlapped, open, leaked>> BY DEF reconcileReconfigured, callVars
    <2>3. \A j \in Instance : /\ inst'[j].id = inst[j].id /\ inst'[j].unsubscribe = inst[j].unsubscribe
                              /\ j # i => inst'[j] = inst[j]
      BY <1>3, <1>5 DEF Managed
    <2>4. Solo' BY <2>1, <2>2, SoloKept
    <2>5. KeptSubscriptions(p) BY <2>3 DEF KeptSubscriptions
    <2>6. KeptRunning(p)
      <3>1. Live \subseteq Instance BY DEF Sound, TypeOK, Live
      <3>2. inst'[i].unsubscribe \/ i \in deaf' BY <1>5, <2>3
      <3>3. \A j \in Live : j # i => inst'[j] = inst[j] /\ (j \in deaf => j \in deaf')
        BY <1>5, <2>3, <3>1
      <3>4. op[p].at \notin AttachPlace BY <1>1 DEF AttachPlace
      <3>5. QED BY <3>1, <3>2, <3>3, <3>4 DEF KeptRunning
    <2>7. KeptOpen(p) BY <1>1, <2>2 DEF KeptOpen
    <2>8. Sole(p)' /\ Muted(p)' BY <2>1 DEF Sole, Muted, MutePlace
    <2>9. QED BY <2>1, <2>2, <2>4, <2>5, <2>6, <2>7, <2>8, OrderlyKept
  <1>6. QED BY <1>2, <1>4, <1>5 DEF reconcileReconfigured

LEMMA ReplaceBeginOrder ==
    ASSUME Sound, Orderly, Sound', NEW p \in Proc, ReplaceBegin(p), UNCHANGED callVars
    PROVE  Orderly'
  <1>1. op[p].at = "applyLock" BY DEF ReplaceBegin, ApplyLocked
  <1>2. PICK i \in Instance : i = op[p].cur BY <1>1, CurrentFacts DEF OnCurrent
  <1>3. inst \in [Instance -> Managed] BY DEF Sound, TypeOK
  <1>4. /\ inst' = [inst EXCEPT ![i].status = "reconfiguring", ![i].unsubscribe = FALSE, ![i].lifecycle = p]
        /\ deaf' = deaf \ {i} /\ Goto(p, "applyClose") /\ UNCHANGED <<table, open, leaked, overlapped>>
    BY <1>2 DEF ReplaceBegin, callVars
  <1>5. Stay(p) /\ op'[p].at = "applyClose" /\ op'[p].id = op[p].id /\ op'[p].cur = i
    <2>1. "applyClose" \in Place BY DEF Place
    <2>2. QED BY <1>2, <1>4, <2>1, StayGo
  <1>6. /\ inst'[i].id = inst[i].id /\ inst'[i].unsubscribe = FALSE /\ inst'[i].status = "reconfiguring"
        /\ \A j \in Instance \ {i} : inst'[j] = inst[j]
    BY <1>3, <1>4 DEF Managed
  <1>7. Quiet BY <1>4, <1>6 DEF Quiet
  <1>8. Muted(p)' BY <1>5, <1>6 DEF Muted
  <1>9. QED BY <1>1, <1>2, <1>5, <1>7, <1>8, GoOrder DEF SolePlace, MutePlace

LEMMA ReplaceCloseOrder ==
    ASSUME Sound, Orderly, Sound', NEW p \in Proc, ReplaceClose(p), UNCHANGED callVars
    PROVE  Orderly'
  <1>1. op[p].at = "applyClose" BY DEF ReplaceClose
  <1>2. CASE open' = open \ {op[p].cur} /\ Goto(p, "applyInit") /\ UNCHANGED inst
    <2>1. Stay(p) /\ op'[p].at = "applyInit" /\ op'[p].id = op[p].id /\ op'[p].cur = op[p].cur
      <3>1. "applyInit" \in Place BY DEF Place
      <3>2. QED BY <1>2, <3>1, StayGo
    <2>2. Quiet BY <1>2 DEF Quiet, ReplaceClose, callVars
    <2>3. p \in Caller => Muted(p)'
      BY <1>1, <1>2, <2>1, <2>2 DEF Orderly, Muted, MutePlace, Quiet
    <2>4. QED BY <1>1, <2>1, <2>2, <2>3, GoOrder DEF SolePlace, MutePlace
  <1>3. CASE (\E s \in FailureStatus : ReturnAndRetry(p, markIfCurrent(op[p].cur, s))) /\ UNCHANGED open
    BY <1>1, <1>3, MarkOrder DEF ReplaceClose, AttachPlace
  <1>4. QED BY <1>2, <1>3 DEF ReplaceClose

\* The record a call goes on with when it gives up its candidate.
LEMMA StayGiveUp ==
    ASSUME Sound, NEW p \in Proc, GiveUpCandidate(p)
    PROVE  Stay(p) /\ op'[p].at = "restore" /\ op'[p].id = op[p].id /\ op'[p].cur = op[p].cur
  <1>1. op[p] \in Op BY SoundAt
  <1> DEFINE o == [op[p] EXCEPT !.at = "restore", !.new = None]
  <1>2. o \in Op /\ o.at = "restore" /\ o.cur = op[p].cur /\ o.id = op[p].id
    BY <1>1 DEF Op, Place
  <1>3. op' = [op EXCEPT ![p] = o] BY <1>1 DEF GiveUpCandidate, Op
  <1> HIDE DEF o
  <1>4. QED BY <1>2, <1>3, StayOp

LEMMA ApplyInitializeOrder ==
    ASSUME Sound, Orderly, Sound', NEW p \in Proc, ApplyInitialize(p), UNCHANGED callVars
    PROVE  Orderly'
  <1>1. op[p].at = "applyInit" BY DEF ApplyInitialize
  <1>2. UNCHANGED <<table, inst, leaked, deaf, overlapped>> BY DEF ApplyInitialize, managerVars, callVars
  <1>3. p \in Caller BY <1>1, CallerPlaces DEF WorkerOnly, Shared
  <1>4. CASE GiveUpCandidate(p) /\ UNCHANGED open
    <2>1. Stay(p) /\ op'[p].at = "restore" /\ op'[p].id = op[p].id /\ op'[p].cur = op[p].cur
      BY <1>4, StayGiveUp
    <2>2. Quiet BY <1>2, <1>4 DEF Quiet
    <2>3. Muted(p)' BY <1>1, <1>2, <1>3, <2>1 DEF Orderly, Muted, MutePlace
    <2>4. QED BY <1>1, <2>1, <2>2, <2>3, GoOrder DEF SolePlace, MutePlace
  <1>5. CASE open' = open \cup {op[p].new} /\ Goto(p, "applyInstall")
    <2>1. PICK n \in Instance : n = op[p].new
      BY <1>1, SoundAt DEF Mine, Proper, WithCandidate
    <2>2. n # None /\ op[p].id \in Provider
      BY <1>1, SoundAt, NoneAssumption DEF Mine, Proper, Named
    <2>3. inst[n].id = op[p].id BY <2>1, <2>2, CandidateFacts
    <2>4. ~Garbage(n) BY <2>1, <2>2, SoundAt DEF Refs
    <2>5. /\ Stay(p) /\ op'[p].at = "applyInstall" /\ op'[p].id = op[p].id /\ op'[p].cur = op[p].cur
          /\ op'[p].new = n
      <3>1. "applyInstall" \in Place BY DEF Place
      <3>2. QED BY <1>5, <2>1, <3>1, StayGo
    <2>6. Solo' BY <1>2, <2>5, SoloKept
    <2>7. KeptSubscriptions(p) BY <1>2 DEF KeptSubscriptions
    <2>8. KeptRunning(p) BY <1>1, <1>2 DEF KeptRunning, AttachPlace
    <2>9. KeptOpen(p)
      BY <1>1, <1>2, <1>3, <1>5, <2>1, <2>2, <2>3, <2>4, <2>5 DEF KeptOpen
    <2>10. Sole(p)' BY <1>1, <1>2, <2>5, SoleKept DEF SolePlace, MutePlace
    <2>11. Muted(p)' BY <1>1, <1>2, <1>3, <2>5 DEF Orderly, Muted, MutePlace
    <2>12. QED BY <1>2, <2>5, <2>6, <2>7, <2>8, <2>9, <2>10, <2>11, OrderlyKept
  <1>6. QED BY <1>4, <1>5 DEF ApplyInitialize

LEMMA CandidateFailsOrder ==
    ASSUME Sound, Orderly, Sound', NEW p \in Proc, CandidateFails(p), UNCHANGED callVars
    PROVE  Orderly'
  <1>1. op[p].at = "applyInstall" BY DEF CandidateFails
  <1>2. /\ UNCHANGED <<table, inst, deaf, overlapped>> /\ GiveUpCandidate(p)
        /\ open' \subseteq open /\ leaked \subseteq leaked'
        /\ op[p].new \notin open' \/ op[p].new \in leaked'
    BY DEF CandidateFails, managerVars, callVars
  <1>3. p \in Caller BY <1>1, CallerPlaces DEF WorkerOnly, Shared
  <1>4. Stay(p) /\ op'[p].at = "restore" /\ op'[p].id = op[p].id /\ op'[p].cur = op[p].cur
    BY <1>2, StayGiveUp
  <1>5. Solo' BY <1>2, <1>4, SoloKept
  <1>6. KeptSubscriptions(p) BY <1>2 DEF KeptSubscriptions
  <1>7. KeptRunning(p) BY <1>1, <1>2 DEF KeptRunning, AttachPlace
  <1>8. KeptOpen(p) BY <1>1, <1>2 DEF KeptOpen
  <1>9. Sole(p)' BY <1>1, <1>2, <1>4, SoleKept DEF SolePlace, MutePlace
  <1>10. Muted(p)' BY <1>1, <1>2, <1>3, <1>4 DEF Orderly, Muted, MutePlace
  <1>11. QED BY <1>2, <1>4, <1>5, <1>6, <1>7, <1>8, <1>9, <1>10, OrderlyKept

LEMMA RestoreOrder ==
    ASSUME Sound, Orderly, Sound', NEW p \in Proc, restoreAfterFailedReplacement(p), UNCHANGED callVars
    PROVE  Orderly'
  <1>1. op[p].at = "restore" BY DEF restoreAfterFailedReplacement
  <1>2. op[p] \in Op /\ Mine(p) BY SoundAt
  <1>3. UNCHANGED <<table, leaked, deaf, overlapped>> BY DEF restoreAfterFailedReplacement, callVars
  <1>4. CASE op[p].cur = None BY <1>4, ApplyReturnsOrder
  <1>5. CASE (\E s \in FailureStatus : ReturnAndRetry(p, markIfCurrent(op[p].cur, s))) /\ UNCHANGED open
    BY <1>1, <1>5, MarkOrder DEF restoreAfterFailedReplacement, AttachPlace
  <1>6. ASSUME op[p].cur # None, NEW i, i = op[p].cur, open' = open \cup {i},
               inst' = IF table[op[p].id] = i THEN [inst EXCEPT ![i].status = "running"] ELSE inst,
               op' = [op EXCEPT ![p] = Attach(p, i, "return")]
        PROVE  Orderly'
    <2>1. i \in Instance /\ ~Garbage(i) BY <1>6, SoundAt DEF Refs
    <2>2. op[p].id \in Provider /\ op[p].id # None
      BY <1>1, <1>2, NoneAssumption DEF Mine, Proper, Named
    <2>3. inst[i].id = op[p].id BY <1>2, <1>6, <2>2 DEF Mine, Identity, Refs
    <2>4. Stay(p) /\ op'[p].at = "subscribe" /\ op'[p].id = op[p].id /\ op'[p].target = i
      <3> DEFINE o == Attach(p, i, "return")
      <3>1. o \in Op /\ o.at = "subscribe" /\ o.id = op[p].id /\ o.target = i
        BY <1>2, <2>1 DEF Attach, Op, Place
      <3>2. op' = [op EXCEPT ![p] = o] BY <1>6
      <3> HIDE DEF o
      <3>3. QED BY <3>1, <3>2, StayOp
    <2>5. \A j \in Instance : /\ inst'[j].id = inst[j].id /\ inst'[j].unsubscribe = inst[j].unsubscribe
                              /\ j # i => inst'[j] = inst[j]
      <3>1. inst \in [Instance -> Managed] BY DEF Sound, TypeOK
      <3>2. QED BY <1>6, <3>1 DEF Managed
    <2>6. Solo' BY <1>3, <2>4, SoloKept
    <2>7. KeptSubscriptions(p) BY <2>5 DEF KeptSubscriptions
    <2>8. KeptRunning(p)
      <3>1. Live \subseteq Instance BY DEF Sound, TypeOK, Live
      <3>2. QED BY <1>1, <1>3, <2>4, <2>5, <3>1 DEF KeptRunning, AttachPlace
    <2>9. inst[i].id \in overlapped \/ table[inst[i].id] = i
      BY <1>1, <1>6, <2>2, <2>3 DEF Orderly, Sole, SolePlace, MutePlace
    <2>10. KeptOpen(p) BY <1>1, <1>3, <1>6, <2>1, <2>2, <2>3, <2>9 DEF KeptOpen
    <2>11. Sole(p)' BY <1>1, <1>3, <1>6, <2>4, SoleKept DEF SolePlace, MutePlace, AttachPlace
    <2>12. Muted(p)' BY <2>4 DEF Muted, MutePlace
    <2>13. QED BY <1>3, <2>4, <2>6, <2>7, <2>8, <2>10, <2>11, <2>12, OrderlyKept
  <1>7. QED BY <1>4, <1>5, <1>6 DEF restoreAfterFailedReplacement

\* A caller changes the entry of its provider, whose mutex the retry worker does not hold.
LEMMA TableMoved ==
    ASSUME Sound, Orderly, Sound', NEW p \in Caller, p \in Proc, Stay(p), NEW d \in Provider, d = op[p].id,
           op'[p].id = d, overlapped' = overlapped, op'[p].at \notin SolePlace,
           \A e \in Provider \ {d} : table'[e] = table[e],
           d \in overlapped \/ table[d] = None \/ inst[table[d]].lifecycle \in {None, p},
           \A i \in Instance : inst'[i].id = inst[i].id /\ inst'[i].unsubscribe = inst[i].unsubscribe
    PROVE  /\ Solo' /\ (\A q \in Proc \ {p} : Sole(q)') /\ (\A q \in Caller : Muted(q)')
           /\ d # None /\ (d \notin overlapped => \A q \in Caller \ {p} : op[q].id # d)
  <1>1. Solo' BY SoloKept
  <1>2. d # None /\ Worker # None /\ Worker # p /\ Worker \in Proc
    BY NoneAssumption, WorkerAssumption DEF Proc
  <1>3. d \notin overlapped => \A q \in Caller \ {p} : op[q].id # d
    BY <1>2 DEF Orderly, Solo
  <1>4. ASSUME NEW q \in Proc \ {p} PROVE Sole(q)'
    <2>1. CASE op'[q] = Selecting BY <2>1, IdleFacts DEF Sole
    <2>2. CASE op'[q] = op[q] /\ op[q].id # d
      <3>1. Sole(q) /\ op[q] \in Op BY SoundAt DEF Orderly
      <3>2. op[q].id # None => table'[op[q].id] = table[op[q].id] BY <2>2, <3>1 DEF Op
      <3>3. QED BY <2>2, <3>1, <3>2 DEF Sole
    <2>3. CASE op'[q] = op[q] /\ op[q].id = d /\ d \in overlapped BY <2>3 DEF Sole
    <2>4. CASE op'[q] = op[q] /\ op[q].id = d /\ d \notin overlapped
      <3>1. q = Worker BY <1>3, <2>4 DEF Proc
      <3>2. Mine(Worker) /\ Sole(Worker) BY <1>2, SoundAt DEF Orderly
      <3>3. op[Worker].at \notin {"retryClose", "retryInit", "retryInstall"}
        <4>1. SUFFICES ASSUME op[Worker].at \in {"retryClose", "retryInit", "retryInstall"} PROVE FALSE
          OBVIOUS
        <4>2. op[Worker].cur \in Instance /\ inst[op[Worker].cur].lifecycle = Worker
          BY <4>1, RetryingFacts
        <4>3. table[d] = op[Worker].cur BY <1>2, <2>4, <3>1, <3>2, <4>1 DEF Sole, SolePlace
        <4>4. QED BY <1>2, <2>4, <4>2, <4>3, NoneAssumption
      <3>4. op[Worker].at \notin AttachPlace
        <4>1. SUFFICES ASSUME op[Worker].at \in AttachPlace PROVE FALSE
          OBVIOUS
        <4>2. op[Worker].target \in Instance /\ inst[op[Worker].target].lifecycle = Worker
          BY <1>2, <4>1, AttachFacts DEF AttachPlace
        <4>3. table[d] = op[Worker].target BY <1>2, <2>4, <3>1, <3>2, <4>1 DEF Sole
        <4>4. QED BY <1>2, <2>4, <4>2, <4>3, NoneAssumption
      <3>5. op[Worker].at \in WorkerOnly \cup Shared BY <3>2 DEF Mine, Proper
      <3>6. op[Worker].at \notin SolePlace \cup AttachPlace \cup {"removeClose"}
        BY <3>3, <3>4, <3>5 DEF WorkerOnly, Shared, SolePlace, MutePlace, AttachPlace
      <3>7. QED BY <2>4, <3>1, <3>6 DEF Sole
    <2>5. QED BY <2>1, <2>2, <2>3, <2>4 DEF Stay
  <1>5. ASSUME NEW q \in Caller PROVE Muted(q)'
    <2>1. CASE q = p BY <2>1 DEF Muted, SolePlace
    <2>2. CASE q # p
      <3>1. op'[q] = op[q] /\ q \in Proc BY <2>2, WorkerAssumption DEF Stay, Proc
      <3>2. op[q].cur # None => op[q].cur \in Instance BY <3>1, SoundAt DEF Refs
      <3>3. QED BY <3>1, <3>2 DEF Orderly, Muted
    <2>3. QED BY <2>1, <2>2
  <1>6. QED BY <1>1, <1>2, <1>3, <1>4, <1>5

LEMMA InstallOrder ==
    ASSUME Sound, Orderly, Sound', NEW p \in Proc, Install(p), UNCHANGED callVars
    PROVE  Orderly'
  <1>1. op[p].at = "applyInstall" BY DEF Install
  <1>2. p \in Caller BY <1>1, CallerPlaces DEF WorkerOnly, Shared
  <1>3. op[p] \in Op /\ Mine(p) BY SoundAt
  <1>4. PICK d \in Provider : d = op[p].id BY <1>1, <1>3 DEF Mine, Proper, Named
  <1>5. PICK n \in Instance : n = op[p].new BY <1>1, <1>3 DEF Mine, Proper, WithCandidate
  <1>6. n # None /\ d # None BY NoneAssumption
  <1>7. n \notin Live /\ inst[n].id = d BY <1>4, <1>5, <1>6, CandidateFacts
  <1> DEFINE old == table[d]
  <1>8. old # n BY <1>6, <1>7, SoundTable
  <1>9. /\ table' = [table EXCEPT ![d] = n] /\ deaf' = deaf \ {old}
        /\ UNCHANGED <<open, leaked, overlapped>>
        /\ op' = [op EXCEPT ![p] = [Attach(p, n, "discover") EXCEPT !.cur = None, !.new = None]]
    BY <1>4, <1>5 DEF Install, callVars
  <1>10. table \in [Provider -> Instance \cup {None}] BY DEF Sound, TypeOK
  <1>11. ASSUME NEW i \in Instance
         PROVE  /\ inst'[i].id = inst[i].id /\ inst'[i].unsubscribe = inst[i].unsubscribe
                /\ i \notin {n, old} => inst'[i] = inst[i]
    <2>1. inst[i] \in Managed BY DEF Sound, TypeOK
    <2>2. CASE i = n
      <3>1. inst'[i] = [inst[i] EXCEPT !.status = "running"] BY <1>4, <1>5, <1>8, <2>2 DEF Install
      <3>2. QED BY <2>1, <2>2, <3>1 DEF Managed
    <2>3. CASE i # n /\ i = old
      <3>1. inst'[i] = [inst[i] EXCEPT !.status = "unused"] BY <1>4, <1>5, <2>3 DEF Install
      <3>2. QED BY <2>1, <2>3, <3>1 DEF Managed
    <2>4. CASE i # n /\ i # old BY <1>4, <1>5, <2>4 DEF Install
    <2>5. QED BY <2>2, <2>3, <2>4
  <1>12. /\ Stay(p) /\ op'[p].at = "subscribe" /\ op'[p].id = d /\ op'[p].target = n
    <2> DEFINE o == [Attach(p, n, "discover") EXCEPT !.cur = None, !.new = None]
    <2>1. o \in Op /\ o.at = "subscribe" /\ o.id = d /\ o.target = n
      BY <1>3, <1>4 DEF Attach, Op, Place
    <2>2. op' = [op EXCEPT ![p] = o] BY <1>9
    <2> HIDE DEF o
    <2>3. QED BY <2>1, <2>2, StayOp
  <1>13. d \in overlapped \/ old = op[p].cur
    BY <1>1, <1>4, <1>6 DEF Orderly, Sole, SolePlace, MutePlace
  <1>14. op[p].cur # None => inst[op[p].cur].lifecycle = p /\ op[p].cur \notin open
    BY <1>1, <1>3 DEF Mine, Locked, OnClosed
  <1>15. /\ Solo' /\ (\A q \in Proc \ {p} : Sole(q)') /\ (\A q \in Caller : Muted(q)')
         /\ d \notin overlapped => \A q \in Caller \ {p} : op[q].id # d
    <2>1. op'[p].at \notin SolePlace BY <1>12 DEF SolePlace, MutePlace
    <2>2. \A e \in Provider \ {d} : table'[e] = table[e] BY <1>9, <1>10
    <2>3. d \in overlapped \/ table[d] = None \/ inst[table[d]].lifecycle \in {None, p}
      BY <1>13, <1>14
    <2>4. QED BY <1>2, <1>4, <1>9, <1>11, <1>12, <2>1, <2>2, <2>3, TableMoved
  <1>16. Sole(p)' BY <1>9, <1>10, <1>12 DEF Sole, SolePlace, MutePlace, AttachPlace
  <1>17. /\ \A i \in Live' : i = n \/ (i \in Live /\ i # old)
         /\ \A i \in Live : i # old => i \in Live'
    <2>1. \A e \in Provider : table[e] # None /\ e # d => table[e] # old
      BY SoundTable
    <2>2. QED BY <1>9, <1>10, <2>1 DEF Live
  <1>18. Live \subseteq Instance BY DEF Sound, TypeOK, Live
  <1>19. OpenPlace'
    <2>1. ASSUME NEW i \in open
          PROVE  /\ inst'[i].id \in Provider
                 /\ i \notin leaked /\ inst'[i].id \notin overlapped =>
                       table'[inst'[i].id] = i \/ \E q \in Caller : InHand(q, i)'
      <3>1. i \in Instance /\ inst'[i].id = inst[i].id /\ inst[i].id \in Provider
        BY <1>11 DEF Sound, TypeOK, Orderly, OpenPlace
      <3>2. SUFFICES ASSUME i \notin leaked, inst[i].id \notin overlapped
                     PROVE  table'[inst[i].id] = i \/ \E q \in Caller : InHand(q, i)'
        BY <3>1
      <3>3. table[inst[i].id] = i \/ \E q \in Caller : InHand(q, i)
        BY <3>2 DEF Orderly, OpenPlace
      <3>4. ASSUME NEW q \in Caller, InHand(q, i), q # p PROVE InHand(q, i)'
        <4>1. op'[q] = op[q] BY <1>12, <3>4, WorkerAssumption DEF Stay, Proc
        <4>2. QED BY <3>1, <3>4, <4>1 DEF InHand
      <3>5. InHand(p, i) => i = n /\ inst[i].id = d BY <1>1, <1>4, <1>5 DEF InHand
      <3>6. CASE inst[i].id = d
        <4>1. table[d] # i
          <5>1. ASSUME table[d] = i PROVE FALSE
            <6>1. i = op[p].cur /\ i # None BY <1>13, <3>1, <3>2, <3>6, <5>1, NoneAssumption
            <6>2. QED BY <1>14, <6>1
          <5>2. QED BY <5>1
        <4>2. PICK q \in Caller : InHand(q, i) BY <3>3, <3>6, <4>1
        <4>3. q = p BY <1>15, <3>2, <3>6, <4>2 DEF InHand
        <4>4. i = n BY <3>5, <4>2, <4>3
        <4>5. QED BY <1>9, <1>10, <3>6, <4>4
      <3>7. CASE inst[i].id # d
        <4>1. table'[inst[i].id] = table[inst[i].id] BY <1>9, <1>10, <3>1, <3>7
        <4>2. QED BY <3>3, <3>4, <3>5, <3>7, <4>1
      <3>8. QED BY <3>6, <3>7
    <2>2. QED BY <1>9, <2>1 DEF OpenPlace
  <1>20. OffTable'
    <2>1. SUFFICES ASSUME NEW i \in Instance, i \notin Live', inst'[i].id \notin overlapped',
                          inst'[i].unsubscribe
                   PROVE  \E q \in Caller : op'[q].at = "removeClose" /\ op'[q].cur = i
      BY DEF OffTable
    <2>2. inst[i].id \notin overlapped /\ inst[i].unsubscribe BY <1>9, <1>11, <2>1
    <2>3. CASE i \in Live
      <3>1. i = old /\ i # None BY <1>17, <2>1, <2>3, NoneAssumption
      <3>2. inst[i].id = d BY <3>1, SoundTable
      <3>3. i = op[p].cur BY <1>13, <2>2, <3>1, <3>2
      <3>4. ~inst[i].unsubscribe
        BY <1>1, <1>2, <1>4, <2>2, <3>1, <3>2, <3>3 DEF Orderly, Muted, MutePlace
      <3>5. QED BY <2>2, <3>4
    <2>4. CASE i \notin Live
      <3>1. PICK q \in Caller : op[q].at = "removeClose" /\ op[q].cur = i
        BY <2>2, <2>4 DEF Orderly, OffTable
      <3>2. q # p BY <1>1, <3>1
      <3>3. op'[q] = op[q] BY <1>12, <3>2, WorkerAssumption DEF Stay, Proc
      <3>4. QED BY <3>1, <3>3
    <2>5. QED BY <2>3, <2>4
  <1>21. OnTable'
    <2>1. SUFFICES ASSUME NEW i \in Live', inst'[i].status = "running"
                   PROVE  inst'[i].unsubscribe \/ i \in deaf' \/ Attaching(i)'
      BY DEF OnTable
    <2>2. CASE i = n BY <1>12, <2>2 DEF Attaching
    <2>3. CASE i # n
      <3>1. i \in Live /\ i # old /\ i \in Instance BY <1>17, <1>18, <2>3
      <3>2. inst'[i] = inst[i] /\ (i \in deaf => i \in deaf') BY <1>9, <1>11, <2>3, <3>1
      <3>3. ASSUME Attaching(i) PROVE Attaching(i)'
        <4>1. PICK q \in Proc : op[q].at \in AttachPlace /\ op[q].target = i
          BY <3>3 DEF Attaching, AttachPlace
        <4>2. q # p BY <1>1, <4>1 DEF AttachPlace
        <4>3. op'[q] = op[q] BY <1>12, <4>1, <4>2 DEF Stay, AttachPlace
        <4>4. QED BY <4>1, <4>3 DEF Attaching, AttachPlace
      <3>4. QED BY <2>1, <3>1, <3>2, <3>3 DEF Orderly, OnTable
    <2>4. QED BY <2>2, <2>3
  <1>22. QED BY <1>15, <1>16, <1>19, <1>20, <1>21 DEF Orderly
-----------------------------------------------------------------------------
(* Remove keeps the order.                                                 *)

LEMMA RemoveLockedOrder ==
    ASSUME Sound, Orderly, Sound', NEW p \in Proc, RemoveLocked(p), UNCHANGED callVars
    PROVE  Orderly'
  <1>1. op[p].at = "removeLock" BY DEF RemoveLocked
  <1>2. p \in Caller BY <1>1, CallerPlaces DEF WorkerOnly, Shared
  <1>3. op[p] \in Op /\ Mine(p) BY SoundAt
  <1>4. PICK d \in Provider : d = op[p].id BY <1>1, <1>3 DEF Mine, Proper, Named
  <1>5. PICK c \in Instance : c = op[p].cur BY <1>1, CurrentFacts DEF OnCurrent
  <1>6. UNCHANGED <<open, leaked, overlapped>> /\ inst[c].lifecycle = None
    BY <1>5 DEF RemoveLocked, callVars
  <1>7. inst \in [Instance -> Managed] BY DEF Sound, TypeOK
  <1>8. CASE Return(p, inst) /\ UNCHANGED <<table, deaf>>
    BY <1>1, <1>6, <1>7, <1>8, ReturnOrder DEF AttachPlace
  <1>9. CASE /\ table[d] = c /\ table' = [table EXCEPT ![d] = None]
             /\ inst' = [inst EXCEPT ![c].status = "unused", ![c].lifecycle = p]
             /\ deaf' = deaf \ {c} /\ Goto(p, "removeClose")
    <2>1. table \in [Provider -> Instance \cup {None}] BY DEF Sound, TypeOK
    <2>2. /\ inst'[c].status = "unused"
          /\ \A i \in Instance : /\ inst'[i].id = inst[i].id
                                 /\ inst'[i].unsubscribe = inst[i].unsubscribe
                                 /\ i # c => inst'[i] = inst[i]
      BY <1>7, <1>9 DEF Managed
    <2>3. Stay(p) /\ op'[p].at = "removeClose" /\ op'[p].id = d /\ op'[p].cur = c
      <3>1. "removeClose" \in Place BY DEF Place
      <3>2. QED BY <1>4, <1>5, <1>9, <3>1, StayGo
    <2>4. /\ Solo' /\ (\A q \in Proc \ {p} : Sole(q)') /\ (\A q \in Caller : Muted(q)')
          /\ d \notin overlapped => \A q \in Caller \ {p} : op[q].id # d
      <3>1. op'[p].at \notin SolePlace BY <2>3 DEF SolePlace, MutePlace
      <3>2. \A e \in Provider \ {d} : table'[e] = table[e] BY <1>9, <2>1
      <3>3. inst[table[d]].lifecycle = None BY <1>6, <1>9
      <3>4. QED BY <1>2, <1>4, <1>6, <2>2, <2>3, <3>1, <3>2, <3>3, TableMoved
    <2>5. Sole(p)' BY <1>9, <2>1, <2>3 DEF Sole, SolePlace, MutePlace, AttachPlace
    <2>6. inst[c].id = d /\ c # None BY <1>9, SoundTable, NoneAssumption
    <2>7. Live' \subseteq Live \ {c} /\ Live \ {c} \subseteq Live'
      <3>1. \A e \in Provider : table[e] # None /\ e # d => table[e] # c BY <2>6, SoundTable
      <3>2. QED BY <1>9, <2>1, <3>1 DEF Live
    <2>8. OpenPlace'
      <3>1. ASSUME NEW i \in open
            PROVE  /\ inst'[i].id \in Provider
                   /\ i \notin leaked /\ inst'[i].id \notin overlapped =>
                         table'[inst'[i].id] = i \/ \E q \in Caller : InHand(q, i)'
        <4>1. i \in Instance /\ inst'[i].id = inst[i].id /\ inst[i].id \in Provider
          BY <2>2 DEF Sound, TypeOK, Orderly, OpenPlace
        <4>2. SUFFICES ASSUME i \notin leaked, inst[i].id \notin overlapped
                       PROVE  table'[inst[i].id] = i \/ \E q \in Caller : InHand(q, i)'
          BY <4>1
        <4>3. table[inst[i].id] = i \/ \E q \in Caller : InHand(q, i)
          BY <4>2 DEF Orderly, OpenPlace
        <4>4. ASSUME NEW q \in Caller, InHand(q, i) PROVE InHand(q, i)'
          <5>1. q # p BY <1>1, <4>4 DEF InHand
          <5>2. op'[q] = op[q] BY <2>3, <5>1, WorkerAssumption DEF Stay, Proc
          <5>3. QED BY <4>1, <4>4, <5>2 DEF InHand
        <4>5. CASE i = c BY <1>2, <2>3, <2>6, <4>1, <4>5 DEF InHand
        <4>6. CASE i # c
          <5>1. table[inst[i].id] = i => table'[inst[i].id] = i BY <1>9, <2>1, <4>1, <4>6
          <5>2. QED BY <4>3, <4>4, <5>1
        <4>7. QED BY <4>5, <4>6
      <3>2. QED BY <1>6, <3>1 DEF OpenPlace
    <2>9. OffTable'
      <3>1. SUFFICES ASSUME NEW i \in Instance, i \notin Live', inst'[i].id \notin overlapped',
                            inst'[i].unsubscribe
                     PROVE  \E q \in Caller : op'[q].at = "removeClose" /\ op'[q].cur = i
        BY DEF OffTable
      <3>2. CASE i = c BY <1>2, <2>3, <3>2
      <3>3. CASE i # c
        <4>1. inst[i].id \notin overlapped /\ inst[i].unsubscribe /\ i \notin Live
          BY <1>6, <2>2, <2>7, <3>1, <3>3
        <4>2. PICK q \in Caller : op[q].at = "removeClose" /\ op[q].cur = i
          BY <4>1 DEF Orderly, OffTable
        <4>3. q # p BY <1>1, <4>2
        <4>4. op'[q] = op[q] BY <2>3, <4>3, WorkerAssumption DEF Stay, Proc
        <4>5. QED BY <4>2, <4>4
      <3>4. QED BY <3>2, <3>3
    <2>10. OnTable'
      <3>1. SUFFICES ASSUME NEW i \in Live', inst'[i].status = "running"
                     PROVE  inst'[i].unsubscribe \/ i \in deaf' \/ Attaching(i)'
        BY DEF OnTable
      <3>2. i \in Live /\ i # c /\ i \in Instance
        <4>1. Live \subseteq Instance BY DEF Sound, TypeOK, Live
        <4>2. QED BY <2>7, <3>1, <4>1
      <3>3. inst'[i] = inst[i] /\ (i \in deaf => i \in deaf') BY <1>9, <2>2, <3>2
      <3>4. ASSUME Attaching(i) PROVE Attaching(i)'
        <4>1. PICK q \in Proc : op[q].at \in AttachPlace /\ op[q].target = i
          BY <3>4 DEF Attaching, AttachPlace
        <4>2. q # p BY <1>1, <4>1 DEF AttachPlace
        <4>3. op'[q] = op[q] BY <2>3, <4>1, <4>2 DEF Stay, AttachPlace
        <4>4. QED BY <4>1, <4>3 DEF Attaching, AttachPlace
      <3>5. QED BY <3>1, <3>2, <3>3, <3>4 DEF Orderly, OnTable
    <2>11. QED BY <2>4, <2>5, <2>8, <2>9, <2>10 DEF Orderly
  <1>10. QED BY <1>4, <1>5, <1>8, <1>9 DEF RemoveLocked

LEMMA RemoveCloseOrder ==
    ASSUME Sound, Orderly, Sound', NEW p \in Proc, RemoveClose(p), UNCHANGED callVars
    PROVE  Orderly'
  <1>1. op[p].at = "removeClose" BY DEF RemoveClose
  <1>2. PICK i \in Instance : i = op[p].cur BY <1>1, CurrentFacts DEF OnCurrent
  <1> DEFINE f == [inst EXCEPT ![i].unsubscribe = FALSE]
  <1>3. inst \in [Instance -> Managed] BY DEF Sound, TypeOK
  <1>4. /\ f \in [Instance -> Managed] /\ f[i].id = inst[i].id /\ f[i].unsubscribe = FALSE
        /\ \A j \in Instance \ {i} : f[j] = inst[j]
    BY <1>3 DEF Managed
  <1>5. /\ UNCHANGED <<table, deaf, overlapped>> /\ open' \subseteq open /\ leaked \subseteq leaked'
        /\ i \notin open' \/ i \in leaked'
        /\ (inst' = f /\ GotoDiscovery(p)) \/ Return(p, f)
    BY <1>2 DEF RemoveClose, callVars
  <1> HIDE DEF f
  <1>6. /\ Stay(p) /\ op'[p].id = None /\ op'[p].at \in {"discover", "idle", "select"}
        /\ \A j \in Instance : /\ inst'[j].id = f[j].id /\ inst'[j].unsubscribe = f[j].unsubscribe
                               /\ inst'[j].status = f[j].status
    BY <1>4, <1>5, StayReturn, StayDiscovery
  <1>7. i \notin Live BY <1>1, <1>2, SoundAt DEF Mine, Locked
  <1>8. Solo' BY <1>5, <1>6, SoloKept
  <1>9. KeptSubscriptions(p) BY <1>4, <1>6 DEF KeptSubscriptions
  <1>10. KeptRunning(p)
    <2>1. \A j \in Live : j \in Instance \ {i} BY <1>7 DEF Sound, TypeOK, Live
    <2>2. QED BY <1>1, <1>4, <1>5, <1>6, <2>1 DEF KeptRunning, AttachPlace
  <1>11. KeptOpen(p) BY <1>1, <1>2, <1>4, <1>5, <1>6 DEF KeptOpen
  <1>12. Sole(p)' /\ Muted(p)' BY <1>6 DEF Sole, Muted, MutePlace
  <1>13. QED BY <1>5, <1>6, <1>8, <1>9, <1>10, <1>11, <1>12, OrderlyKept
-----------------------------------------------------------------------------
(* So do discoveries, Close and the retry worker.                          *)

LEMMA DiscoverOrder ==
    ASSUME Sound, Orderly, Sound', NEW p \in Proc, DiscoverLook(p) \/ DiscoverFetch(p), UNCHANGED callVars
    PROVE  Orderly'
  <1>1. op[p] \in Op /\ op \in [Proc -> Op] BY SoundAt, TypeParts DEF Sound
  <1>2. inst \in [Instance -> Managed] BY DEF Sound, TypeOK
  <1>3. UNCHANGED <<table, overlapped, open, leaked, deaf>>
    BY DEF DiscoverLook, DiscoverFetch, managerVars, externalVars, callVars
  <1>4. CASE DiscoverLook(p)
    <2>1. \A q \in Proc \ {p} : op'[q] = op[q] BY <1>1, <1>4 DEF DiscoverLook
    <2>2. op'[p].id = op[p].id /\ op'[p].at \in {"discover", "fetch"} /\ op[p].at = "discover"
      <3>1. op[p].at = "discover" BY <1>4 DEF DiscoverLook
      <3>2. PICK d \in op[p].left :
               \/ op' = [op EXCEPT ![p].left = @ \ {d}]
               \/ op' = [op EXCEPT ![p].at = "fetch", ![p].left = @ \ {d}, ![p].target = table[d]]
        BY <1>4 DEF DiscoverLook
      <3>3. CASE op' = [op EXCEPT ![p].left = @ \ {d}] BY <1>1, <3>1, <3>3 DEF Op
      <3>4. CASE op' = [op EXCEPT ![p].at = "fetch", ![p].left = @ \ {d}, ![p].target = table[d]]
        BY <1>1, <3>1, <3>4 DEF Op
      <3>5. QED BY <3>2, <3>3, <3>4
    <2>3. inst' = inst /\ Stay(p) BY <1>4, <2>1 DEF DiscoverLook, managerVars, Stay
    <2>4. QED BY <1>3, <2>2, <2>3, OpOrder DEF SolePlace, MutePlace, AttachPlace
  <1>5. CASE DiscoverFetch(p)
    <2> DEFINE o == [op[p] EXCEPT !.at = "discover", !.target = None]
    <2>1. o \in Op /\ o.at = "discover" /\ o.id = op[p].id BY <1>1 DEF Op, Place
    <2>2. [op EXCEPT ![p].at = "discover", ![p].target = None] = [op EXCEPT ![p] = o]
      BY <1>1 DEF Op
    <2>3. op' = [op EXCEPT ![p] = o] \/ op' = startRetryWorker([op EXCEPT ![p] = o], inst')
      BY <1>5, <2>2 DEF DiscoverFetch
    <2> HIDE DEF o
    <2>4. Moved(p, o) BY <2>1, <2>3, MoveOp, MoveRetry
    <2>5. Stay(p) /\ op'[p] = o BY <2>4 DEF Moved, Stay
    <2>6. inst' = inst \/ \E s \in FailureStatus : inst' = markIfCurrent(op[p].target, s)
      BY <1>5 DEF DiscoverFetch
    <2>7. \A j \in Instance : /\ inst'[j].id = inst[j].id /\ inst'[j].unsubscribe = inst[j].unsubscribe
                              /\ inst'[j].status = "running" => inst[j].status = "running"
      BY <1>2, <2>6, MarkedOrder
    <2>8. Quiet BY <1>3, <2>7 DEF Quiet
    <2>9. op[p].at = "fetch" BY <1>5 DEF DiscoverFetch
    <2>10. QED BY <2>1, <2>5, <2>8, <2>9, QuietEnd DEF SolePlace, MutePlace, AttachPlace
  <1>6. QED BY <1>4, <1>5

LEMMA CloseOrder ==
    ASSUME Sound, Orderly, Sound', NEW p \in Proc, UNCHANGED callVars,
           CloseWaited(p) \/ CloseNext(p) \/ CloseLocked(p) \/ CloseProvider(p)
    PROVE  Orderly'
  <1>1. op[p] \in Op /\ op \in [Proc -> Op] BY SoundAt, TypeParts DEF Sound
  <1>2. inst \in [Instance -> Managed] BY DEF Sound, TypeOK
  <1>3. UNCHANGED <<table, overlapped, deaf>> /\ open' \subseteq open /\ leaked \subseteq leaked'
    BY DEF CloseWaited, CloseNext, CloseLocked, CloseProvider, managerVars, externalVars, callVars
  <1>4. /\ \A q \in Proc \ {p} : op'[q] = op[q]
        /\ op'[p].id = op[p].id
        /\ op[p].at \in {"closeWait", "closeNext", "closeLock", "closing"}
        /\ op'[p].at \in {"closeNext", "closeLock", "closing"}
    <2>1. CASE CloseWaited(p) BY <1>1, <2>1 DEF CloseWaited, Goto, Op
    <2>2. CASE CloseNext(p)
      <3>1. PICK d \in op[p].left : op' = [op EXCEPT ![p] =
                IF table[d] = None THEN [op[p] EXCEPT !.left = @ \ {d}]
                ELSE [[op[p] EXCEPT !.left = @ \ {d}] EXCEPT !.at = "closeLock", !.cur = table[d]]]
        BY <2>2 DEF CloseNext
      <3>2. op[p].at = "closeNext" BY <2>2 DEF CloseNext
      <3>3. /\ \A q \in Proc \ {p} : op'[q] = op[q]
            /\ op'[p] = IF table[d] = None THEN [op[p] EXCEPT !.left = @ \ {d}]
                ELSE [[op[p] EXCEPT !.left = @ \ {d}] EXCEPT !.at = "closeLock", !.cur = table[d]]
        BY <1>1, <3>1
      <3>4. op'[p].id = op[p].id /\ op'[p].at \in {"closeNext", "closeLock"} BY <1>1, <3>2, <3>3 DEF Op
      <3>5. QED BY <3>2, <3>3, <3>4
    <2>3. CASE CloseLocked(p) BY <1>1, <2>3 DEF CloseLocked, Goto, Op
    <2>4. CASE CloseProvider(p) BY <1>1, <2>4 DEF CloseProvider, Op
    <2>5. QED BY <2>1, <2>2, <2>3, <2>4
  <1>5. Stay(p) BY <1>4 DEF Stay
  <1>6. Quiet
    <2>1. CASE CloseWaited(p) \/ CloseNext(p)
      BY <1>3, <2>1 DEF CloseWaited, CloseNext, managerVars, Quiet
    <2>2. CASE CloseLocked(p)
      BY <1>2, <1>3, <2>2 DEF CloseLocked, Quiet, Managed
    <2>3. CASE CloseProvider(p)
      <3> DEFINE i == op[p].cur
                 s == IF i \in Live THEN "stopped" ELSE "unused"
                 f == [inst EXCEPT ![i].status = s, ![i].unsubscribe = FALSE]
      <3>1. s \in Status /\ s # "running" BY DEF Status
      <3> HIDE DEF s
      <3>2. /\ f \in [Instance -> Managed]
            /\ \A j \in Instance : /\ f[j].id = inst[j].id
                                   /\ f[j].unsubscribe => inst[j].unsubscribe
                                   /\ f[j].status = "running" => f[j] = inst[j]
        <4>1. i \in Instance BY <2>3, CurrentFacts DEF CloseProvider, OnCurrent
        <4> DEFINE m == [inst[i] EXCEPT !.status = s, !.unsubscribe = FALSE]
        <4>2. inst[i] \in Managed BY <1>2, <4>1
        <4>3. m \in Managed /\ m.unsubscribe = FALSE /\ m.id = inst[i].id /\ m.status = s
          BY <3>1, <4>2 DEF Managed
        <4>4. f = [inst EXCEPT ![i] = m] BY <1>2, <4>1, <4>2 DEF Managed
        <4> HIDE DEF m, f
        <4>5. QED BY <1>2, <3>1, <4>1, <4>3, <4>4
      <3>3. inst' = Unlock(f, p) BY <2>3 DEF CloseProvider, s
      <3> HIDE DEF f
      <3>4. \A j \in Instance : /\ inst'[j].id = f[j].id /\ inst'[j].unsubscribe = f[j].unsubscribe
                                /\ inst'[j].status = f[j].status
        BY <3>2, <3>3, UnlockFacts
      <3>5. QED BY <1>3, <3>2, <3>4 DEF Quiet
    <2>4. QED BY <2>1, <2>2, <2>3
  <1>7. QED BY <1>4, <1>5, <1>6, QuietEnd DEF SolePlace, MutePlace, AttachPlace
-----------------------------------------------------------------------------
(* The retry worker keeps the order.                                       *)

LEMMA RetryLoopOrder ==
    ASSUME Sound, Orderly, Sound', RetrySelect \/ RetryEnd \/ RetryExit, UNCHANGED callVars
    PROVE  Orderly'
  <1>1. Worker \in Proc /\ Worker \notin Caller BY WorkerFacts
  <1>2. op \in [Proc -> Op] BY TypeParts DEF Sound
  <1>3. UNCHANGED <<table, inst, overlapped, open, leaked, deaf>>
    BY DEF RetrySelect, RetryEnd, RetryExit, managerVars, externalVars, callVars
  <1>4. op[Worker].at \in {"select", "wait", "exit"} BY DEF RetrySelect, RetryEnd, RetryExit
  <1>5. Stay(Worker) /\ op'[Worker].at \in {"off", "select", "wait", "exit"}
    <2>1. CASE RetrySelect
      <3>1. PICK d \in Provider :
                op' = [op EXCEPT ![Worker] = [Off EXCEPT !.at = "wait", !.id = d, !.cur = table[d]]]
        BY <2>1 DEF RetrySelect
      <3>2. [Off EXCEPT !.at = "wait", !.id = d, !.cur = table[d]].at = "wait" BY DEF Off, Idle
      <3>3. QED BY <1>1, <1>2, <3>1, <3>2 DEF Stay
    <2>2. CASE RetryEnd
      <3>1. [Off EXCEPT !.at = "exit"].at = "exit" BY DEF Off, Idle
      <3>2. QED BY <1>1, <1>2, <2>2, <3>1 DEF RetryEnd, Stay
    <2>3. CASE RetryExit
      <3>1. op' = startRetryWorker([op EXCEPT ![Worker] = Off], inst) BY <2>3 DEF RetryExit
      <3>2. op' = [op EXCEPT ![Worker] = Off] \/ op' = [op EXCEPT ![Worker] = Selecting]
        BY <1>1, <1>2, <3>1 DEF startRetryWorker, Selecting
      <3>3. QED BY <1>1, <1>2, <3>2, IdleFacts DEF Stay
    <2>4. QED BY <2>1, <2>2, <2>3
  <1>6. /\ op[Worker].at \notin AttachPlace \cup {"applyInstall", "removeClose"}
        /\ op'[Worker].at \notin SolePlace \cup AttachPlace \cup {"removeClose"}
    BY <1>4, <1>5 DEF SolePlace, MutePlace, AttachPlace
  <1>7. QED BY <1>1, <1>3, <1>5, <1>6, OpOrder

LEMMA retryProviderOrder ==
    ASSUME Sound, Orderly, Sound', retryProvider, UNCHANGED callVars
    PROVE  Orderly'
  <1>1. op[Worker].at = "wait" BY DEF retryProvider
  <1>2. Worker \in Proc /\ Worker \notin Caller BY WorkerFacts
  <1>3. PICK i \in Instance : i = op[Worker].cur BY <1>1, <1>2, CurrentFacts DEF OnCurrent
  <1>4. UNCHANGED <<table, overlapped, open, leaked, deaf>> /\ inst \in [Instance -> Managed]
    BY DEF retryProvider, externalVars, callVars, Sound, TypeOK
  <1>5. op[Worker].at \notin AttachPlace \cup {"applyInstall", "removeClose"}
    BY <1>1 DEF AttachPlace
  <1>6. CASE Return(Worker, inst) BY <1>2, <1>4, <1>5, <1>6, ReturnOrder
  <1>7. CASE /\ table[op[Worker].id] = i /\ Goto(Worker, "retryClose")
             /\ inst' = [inst EXCEPT ![i].status = "retrying", ![i].lifecycle = Worker]
    <2>1. /\ Stay(Worker) /\ op'[Worker].at = "retryClose" /\ op'[Worker].id = op[Worker].id
          /\ op'[Worker].cur = i
      <3>1. "retryClose" \in Place BY DEF Place
      <3>2. QED BY <1>2, <1>3, <1>7, <3>1, StayGo
    <2>2. Quiet BY <1>4, <1>7 DEF Quiet, Managed
    <2>3. Sole(Worker)' BY <1>4, <1>7, <2>1 DEF Sole, AttachPlace
    <2>4. QED BY <1>2, <1>5, <2>1, <2>2, <2>3, QuietOrder
  <1>8. QED BY <1>3, <1>6, <1>7 DEF retryProvider

LEMMA RetryFailsOrder ==
    ASSUME Sound, Orderly, Sound', RetryFails, UNCHANGED callVars
    PROVE  Orderly'
  <1>1. Worker \in Proc BY WorkerFacts
  <1>2. PICK s \in FailureStatus : Return(Worker, markIfCurrent(op[Worker].cur, s)) BY DEF RetryFails
  <1>3. /\ UNCHANGED <<table, closed, open, listening, inflight, leaked, deaf>>
        /\ op[Worker].at \notin AttachPlace \cup {"applyInstall", "removeClose"}
    BY DEF RetryFails, AttachPlace
  <1>4. QED BY <1>1, <1>2, <1>3, MarkOrder

LEMMA RetryCloseOrder ==
    ASSUME Sound, Orderly, Sound', RetryClose, UNCHANGED callVars
    PROVE  Orderly'
  <1>1. op[Worker].at = "retryClose" /\ Goto(Worker, "retryInit") BY DEF RetryClose
  <1>2. Worker \in Proc /\ Worker \notin Caller BY WorkerFacts
  <1>3. /\ Stay(Worker) /\ op'[Worker].at = "retryInit" /\ op'[Worker].id = op[Worker].id
        /\ op'[Worker].cur = op[Worker].cur
    <2>1. "retryInit" \in Place BY DEF Place
    <2>2. QED BY <1>1, <1>2, <2>1, StayGo
  <1>4. Quiet BY DEF RetryClose, Quiet, managerVars, callVars
  <1>5. QED BY <1>1, <1>2, <1>3, <1>4, GoOrder DEF SolePlace

LEMMA RetryInitializeOrder ==
    ASSUME Sound, Orderly, Sound', RetryInitialize, UNCHANGED callVars
    PROVE  Orderly'
  <1>1. op[Worker].at = "retryInit" /\ Goto(Worker, "retryInstall") BY DEF RetryInitialize
  <1>2. /\ Worker \in Proc /\ Worker \notin Caller /\ op[Worker] \in Op /\ Mine(Worker)
        /\ op[Worker].id \in Provider /\ op[Worker].id # None
    BY <1>1, RetryingFacts, WorkerAssumption, NoneAssumption
  <1>3. PICK i \in Instance : i = op[Worker].cur BY <1>1, RetryingFacts
  <1>4. i # None /\ inst[i].id = op[Worker].id /\ ~Garbage(i)
    BY <1>2, <1>3, SoundAt, NoneAssumption DEF Mine, Identity, Refs
  <1>5. /\ Stay(Worker) /\ op'[Worker].at = "retryInstall" /\ op'[Worker].id = op[Worker].id
        /\ op'[Worker].cur = op[Worker].cur
    <2>1. "retryInstall" \in Place BY DEF Place
    <2>2. QED BY <1>1, <1>2, <2>1, StayGo
  <1>6. UNCHANGED <<table, inst, leaked, deaf, overlapped>> /\ open' = open \cup {i}
    BY <1>3 DEF RetryInitialize, managerVars, callVars
  <1>7. Solo' BY <1>2, <1>5, <1>6, SoloKept
  <1>8. KeptSubscriptions(Worker) BY <1>6 DEF KeptSubscriptions
  <1>9. KeptRunning(Worker) BY <1>1, <1>6 DEF KeptRunning, AttachPlace
  <1>10. inst[i].id \in overlapped \/ table[inst[i].id] = i
    BY <1>1, <1>2, <1>3, <1>4 DEF Orderly, Sole, SolePlace
  <1>11. KeptOpen(Worker) BY <1>1, <1>2, <1>4, <1>6, <1>10 DEF KeptOpen
  <1>12. Sole(Worker)' BY <1>1, <1>2, <1>5, <1>6, SoleKept DEF SolePlace
  <1>13. QED BY <1>2, <1>5, <1>6, <1>7, <1>8, <1>9, <1>11, <1>12, OrderlyKept

LEMMA RetryInstallOrder ==
    ASSUME Sound, Orderly, Sound', RetryInstall, UNCHANGED callVars
    PROVE  Orderly'
  <1>1. op[Worker].at = "retryInstall" BY DEF RetryInstall
  <1>2. Worker \in Proc /\ Worker \notin Caller /\ op[Worker] \in Op
    BY <1>1, RetryingFacts, WorkerAssumption
  <1>3. PICK i \in Instance : i = op[Worker].cur BY <1>1, RetryingFacts
  <1>4. UNCHANGED <<table, overlapped, open, leaked, deaf>> /\ inst \in [Instance -> Managed]
    BY DEF RetryInstall, externalVars, callVars, Sound, TypeOK
  <1>5. op[Worker].at \notin AttachPlace \cup {"applyInstall", "removeClose"}
    BY <1>1 DEF AttachPlace
  <1>6. CASE Return(Worker, inst) BY <1>2, <1>4, <1>5, <1>6, ReturnOrder
  <1>7. CASE /\ inst' = [inst EXCEPT ![i].status = "running"]
             /\ op' = [op EXCEPT ![Worker] = Attach(Worker, i, "discover")]
    <2>1. /\ Stay(Worker) /\ op'[Worker].at = "subscribe" /\ op'[Worker].id = op[Worker].id
          /\ op'[Worker].target = i
      <3> DEFINE o == Attach(Worker, i, "discover")
      <3>1. o \in Op /\ o.at = "subscribe" /\ o.id = op[Worker].id /\ o.target = i
        BY <1>2 DEF Attach, Op, Place
      <3>2. op' = [op EXCEPT ![Worker] = o] BY <1>7
      <3> HIDE DEF o
      <3>3. QED BY <1>2, <3>1, <3>2, StayOp
    <2>2. \A j \in Instance : /\ inst'[j].id = inst[j].id /\ inst'[j].unsubscribe = inst[j].unsubscribe
                              /\ j # i => inst'[j] = inst[j]
      BY <1>4, <1>7 DEF Managed
    <2>3. Solo' BY <1>2, <1>4, <2>1, SoloKept
    <2>4. KeptSubscriptions(Worker) BY <2>2 DEF KeptSubscriptions
    <2>5. KeptRunning(Worker)
      <3>1. Live \subseteq Instance BY DEF Sound, TypeOK, Live
      <3>2. QED BY <1>1, <1>4, <2>1, <2>2, <3>1 DEF KeptRunning, AttachPlace
    <2>6. KeptOpen(Worker) BY <1>1, <1>4 DEF KeptOpen
    <2>7. Sole(Worker)' BY <1>1, <1>2, <1>3, <1>4, <2>1, SoleKept DEF SolePlace, AttachPlace
    <2>8. QED BY <1>2, <1>4, <2>1, <2>3, <2>4, <2>5, <2>6, <2>7, OrderlyKept
  <1>8. QED BY <1>3, <1>6, <1>7 DEF RetryInstall

\* Reports mark providers and start the worker.
LEMMA ReportOrder ==
    ASSUME Sound, Orderly, Sound', NEW i \in Instance, Report(i) \/ ReportArrives(i), UNCHANGED callVars
    PROVE  Orderly'
  <1>1. Worker \in Proc /\ Worker \notin Caller BY WorkerFacts
  <1>2. UNCHANGED <<table, open, leaked, deaf, overlapped>>
    BY DEF Report, ReportArrives, managerVars, callVars
  <1>3. inst \in [Instance -> Managed] /\ op \in [Proc -> Op]
    BY TypeParts DEF Sound
  <1>4. \A j \in Instance : /\ inst'[j].id = inst[j].id /\ inst'[j].unsubscribe = inst[j].unsubscribe
                            /\ inst'[j].status = "running" => inst[j].status = "running"
    <2>1. CASE Report(i) BY <2>1 DEF Report, managerVars
    <2>2. CASE ReportArrives(i)
      <3>1. inst' = markIfCurrent(i, "error") /\ "error" \in FailureStatus
        BY <2>2 DEF ReportArrives, FailureStatus
      <3>2. QED BY <1>3, <3>1, MarkedOrder
    <2>3. QED BY <2>1, <2>2
  <1>5. \/ op' = op
        \/ op[Worker].at = "off" /\ op' = [op EXCEPT ![Worker] = Selecting]
    BY DEF Report, ReportArrives, startRetryWorker, Selecting
  <1>6. /\ \A q \in Proc \ {Worker} : op'[q] = op[q]
        /\ op'[Worker] = op[Worker] \/ (op[Worker].at = "off" /\ op'[Worker] = Selecting)
    BY <1>1, <1>3, <1>5
  <1>7. Stay(Worker) BY <1>6 DEF Stay
  <1>8. Solo' BY <1>1, <1>2, <1>7, SoloKept
  <1>9. KeptSubscriptions(Worker) BY <1>4 DEF KeptSubscriptions
  <1>10. KeptRunning(Worker)
    <2>1. Live \subseteq Instance BY DEF Sound, TypeOK, Live
    <2>2. op[Worker].at \in AttachPlace => op'[Worker] = op[Worker] BY <1>6 DEF AttachPlace
    <2>3. QED BY <1>2, <1>4, <2>1, <2>2 DEF KeptRunning
  <1>11. KeptOpen(Worker)
    <2>1. op[Worker].at \notin {"applyInstall", "removeClose"}
      BY WorkerFacts DEF Mine, Proper, WorkerOnly, Shared
    <2>2. QED BY <1>2, <2>1 DEF KeptOpen
  <1>12. Sole(Worker)'
    <2>1. CASE op'[Worker] = op[Worker] BY <1>1, <1>2, <2>1 DEF Orderly, Sole
    <2>2. CASE op'[Worker] = Selecting BY <2>2, IdleFacts DEF Sole
    <2>3. QED BY <1>6, <2>1, <2>2
  <1>13. QED BY <1>1, <1>2, <1>7, <1>8, <1>9, <1>10, <1>11, <1>12, OrderlyKept
-----------------------------------------------------------------------------
(* attach and Initialize keep the order.                                   *)

LEMMA SubscribeOrder ==
    ASSUME Sound, Orderly, Sound', NEW p \in Proc, Subscribe(p), UNCHANGED callVars
    PROVE  Orderly'
  <1>1. op[p].at = "subscribe" /\ Goto(p, "record") BY DEF Subscribe
  <1>2. UNCHANGED <<table, inst, open, leaked, deaf, overlapped>>
    BY DEF Subscribe, managerVars, callVars
  <1>3. /\ Stay(p) /\ op'[p].at = "record" /\ op'[p].id = op[p].id /\ op'[p].target = op[p].target
    <2>1. "record" \in Place BY DEF Place
    <2>2. QED BY <1>1, <2>1, StayGo
  <1>4. Solo' BY <1>2, <1>3, SoloKept
  <1>5. KeptSubscriptions(p) BY <1>2 DEF KeptSubscriptions
  <1>6. KeptRunning(p) BY <1>2, <1>3 DEF KeptRunning, AttachPlace
  <1>7. KeptOpen(p) BY <1>1, <1>2 DEF KeptOpen
  <1>8. Sole(p)' BY <1>1, <1>2, <1>3 DEF Orderly, Sole, SolePlace, MutePlace, AttachPlace
  <1>9. Muted(p)' BY <1>3 DEF Muted, MutePlace
  <1>10. QED BY <1>2, <1>3, <1>4, <1>5, <1>6, <1>7, <1>8, <1>9, OrderlyKept

LEMMA RecordOrder ==
    ASSUME Sound, Orderly, Sound', NEW p \in Proc, Record(p), UNCHANGED callVars
    PROVE  Orderly'
  <1>1. op[p].at = "record" BY DEF Record
  <1>2. PICK i \in Instance : i = op[p].target BY <1>1, AttachFacts
  <1>3. i # None /\ op[p].id \in Provider /\ inst[i].id = op[p].id BY <1>1, <1>2, AttachFacts
  <1> DEFINE kept == table[op[p].id] = i /\ ~inst[i].unsubscribe
             f == IF kept THEN [inst EXCEPT ![i].unsubscribe = TRUE] ELSE inst
  <1>4. UNCHANGED <<table, open, leaked, deaf, overlapped>> /\ AfterAttach(p, f)
    BY <1>2 DEF Record, callVars
  <1>5. inst \in [Instance -> Managed] BY DEF Sound, TypeOK
  <1>6. i \in Live <=> table[op[p].id] = i
    <2>1. table[op[p].id] = i => i \in Live BY <1>3 DEF Live
    <2>2. i \in Live => table[op[p].id] = i
      <3>1. SUFFICES ASSUME i \in Live PROVE table[op[p].id] = i OBVIOUS
      <3>2. PICK d \in Provider : table[d] = i BY <3>1 DEF Live
      <3>3. inst[i].id = d BY <1>3, <3>2, SoundTable
      <3>4. QED BY <1>3, <3>2, <3>3
    <2>3. QED BY <2>1, <2>2
  <1>7. /\ f \in [Instance -> Managed] /\ f[i].id = inst[i].id /\ f[i].status = inst[i].status
        /\ i \in Live => f[i].unsubscribe
        /\ i \notin Live => f[i].unsubscribe = inst[i].unsubscribe
        /\ \A j \in Instance \ {i} : f[j] = inst[j]
    <2>1. inst[i] \in Managed BY <1>5
    <2>2. CASE kept BY <1>5, <1>6, <2>1, <2>2 DEF Managed
    <2>3. CASE ~kept BY <1>5, <1>6, <2>1, <2>3 DEF Managed
    <2>4. QED BY <2>2, <2>3
  <1> HIDE DEF f, kept
  <1>8. PICK o \in Op : /\ Moved(p, o) /\ o.at \in {"idle", "select", "boot", "discover"}
                        /\ o.at # "discover" => inst' = Unlock(f, p)
                        /\ o.at = "discover" => inst' = f
    BY <1>1, <1>4, <1>7, AttachedMine
  <1>9. Stay(p) /\ op'[p] = o BY <1>8 DEF Moved, Stay
  <1>10. op'[p].id = None
    <2>1. CASE Return(p, f) BY <1>7, <2>1, StayReturn
    <2>2. CASE GotoDiscovery(p) BY <2>2, StayDiscovery
    <2>3. CASE op' = [op EXCEPT ![p] = [Idle EXCEPT !.at = "boot", !.left = op[p].left]]
      <3>1. [Idle EXCEPT !.at = "boot", !.left = op[p].left].id = None BY DEF Idle
      <3>2. op \in [Proc -> Op] BY TypeParts DEF Sound
      <3>3. QED BY <2>3, <3>1, <3>2
    <2>4. QED BY <1>4, <2>1, <2>2, <2>3 DEF AfterAttach
  <1>11. \A j \in Instance : /\ inst'[j].id = f[j].id /\ inst'[j].unsubscribe = f[j].unsubscribe
                             /\ inst'[j].status = f[j].status
    BY <1>7, <1>8, UnlockFacts
  <1>12. Solo' BY <1>4, <1>9, <1>10, SoloKept
  <1>13. KeptSubscriptions(p) BY <1>1, <1>2, <1>7, <1>11 DEF KeptSubscriptions
  <1>14. KeptRunning(p)
    <2>1. Live \subseteq Instance BY DEF Sound, TypeOK, Live
    <2>2. QED BY <1>2, <1>4, <1>7, <1>11, <2>1 DEF KeptRunning
  <1>15. KeptOpen(p) BY <1>1, <1>4 DEF KeptOpen
  <1>16. Sole(p)' /\ Muted(p)' BY <1>8, <1>9, <1>10 DEF Sole, Muted, MutePlace
  <1>17. QED BY <1>4, <1>9, <1>12, <1>13, <1>14, <1>15, <1>16, OrderlyKept

LEMMA InitializeNextOrder ==
    ASSUME Sound, Orderly, Sound', NEW p \in Proc, InitializeNext(p), UNCHANGED callVars
    PROVE  Orderly'
  <1>1. op[p].at = "boot" BY DEF InitializeNext
  <1>2. BootAt(p) BY <1>1 DEF Sound, Boot, Booting
  <1>3. p \in Caller /\ op[p] \in Op BY <1>2, SoundAt DEF BootAt
  <1>4. PICK id \in op[p].left :
          \/ /\ open' = open \cup {table[id]}
             /\ inst' = [inst EXCEPT ![table[id]].status = "running", ![table[id]].lifecycle = p]
             /\ op' = [op EXCEPT ![p] = [Attach(p, table[id], "boot") EXCEPT !.id = id, !.left = @ \ {id}]]
          \/ /\ \E s \in FailureStatus : inst' = markFailureLocked(table[id], s)
             /\ op' = [op EXCEPT ![p].left = @ \ {id}]
             /\ UNCHANGED open
    BY DEF InitializeNext
  <1>5. PICK i \in Instance : i = table[id] BY <1>2 DEF BootAt, Pristine
  <1>6. id \in Provider /\ id # None /\ i # None BY <1>3, NoneAssumption DEF Op
  <1>7. i \in Live /\ inst[i].id = id /\ ~Garbage(i)
    <2>1. i \in Live /\ inst[i].id = id BY <1>5, <1>6, SoundTable
    <2>2. QED BY <2>1 DEF Garbage
  <1>8. UNCHANGED <<table, leaked, deaf, overlapped>> BY DEF InitializeNext, callVars
  <1>9. inst \in [Instance -> Managed] /\ op \in [Proc -> Op] BY TypeParts DEF Sound
  <1>10. op[p].at \notin AttachPlace \cup {"applyInstall", "removeClose"} BY <1>1 DEF AttachPlace
  <1>11. CASE /\ open' = open \cup {i}
              /\ inst' = [inst EXCEPT ![i].status = "running", ![i].lifecycle = p]
              /\ op' = [op EXCEPT ![p] = [Attach(p, i, "boot") EXCEPT !.id = id, !.left = @ \ {id}]]
    <2>1. Stay(p) /\ op'[p].at = "subscribe" /\ op'[p].id = id /\ op'[p].target = i
      <3> DEFINE o == [Attach(p, i, "boot") EXCEPT !.id = id, !.left = @ \ {id}]
      <3>1. o \in Op /\ o.at = "subscribe" /\ o.id = id /\ o.target = i
        BY <1>3, <1>6 DEF Op, Place, Attach
      <3>2. op' = [op EXCEPT ![p] = o] BY <1>11
      <3> HIDE DEF o
      <3>3. QED BY <3>1, <3>2, StayOp
    <2>2. \A j \in Instance : /\ inst'[j].id = inst[j].id /\ inst'[j].unsubscribe = inst[j].unsubscribe
                              /\ j # i => inst'[j] = inst[j]
      BY <1>9, <1>11 DEF Managed
    <2>3. Solo'
      <3>1. \A q \in Caller \ {p} : op[q] = Idle BY <1>2 DEF BootAt
      <3>2. \A q \in Caller \ {p} : op'[q] = Idle
        BY <2>1, <3>1, WorkerAssumption DEF Stay, Proc
      <3>3. QED BY <1>6, <2>1, <3>2, IdleFacts DEF Solo
    <2>4. KeptSubscriptions(p) BY <2>2 DEF KeptSubscriptions
    <2>5. KeptRunning(p)
      <3>1. Live \subseteq Instance BY DEF Sound, TypeOK, Live
      <3>2. QED BY <1>8, <1>10, <2>1, <2>2, <3>1 DEF KeptRunning, AttachPlace
    <2>6. KeptOpen(p) BY <1>1, <1>5, <1>6, <1>7, <1>8, <1>11 DEF KeptOpen
    <2>7. Sole(p)' BY <1>5, <1>8, <2>1 DEF Sole, SolePlace, MutePlace
    <2>8. Muted(p)' BY <2>1 DEF Muted, MutePlace
    <2>9. QED BY <1>8, <2>1, <2>3, <2>4, <2>5, <2>6, <2>7, <2>8, OrderlyKept
  <1>12. CASE /\ \E s \in FailureStatus : inst' = markFailureLocked(i, s)
              /\ op' = [op EXCEPT ![p].left = @ \ {id}] /\ UNCHANGED open
    <2>1. PICK s \in FailureStatus : inst' = markIfCurrent(i, s) BY <1>7, <1>12 DEF markIfCurrent
    <2>2. Quiet
      <3>1. \A j \in Instance : /\ inst'[j].id = inst[j].id /\ inst'[j].unsubscribe = inst[j].unsubscribe
                                /\ inst'[j].status = "running" => inst[j].status = "running"
        BY <1>9, <2>1, MarkedOrder
      <3>2. QED BY <1>8, <1>12, <3>1 DEF Quiet
    <2>3. Stay(p) /\ op'[p].at = "boot" /\ op'[p].id = op[p].id
      <3>1. \A q \in Proc \ {p} : op'[q] = op[q] BY <1>9, <1>12
      <3>2. op'[p] = [op[p] EXCEPT !.left = @ \ {id}] BY <1>9, <1>12
      <3>3. op'[p].at = "boot" /\ op'[p].id = op[p].id BY <1>1, <1>3, <3>2 DEF Op
      <3>4. QED BY <3>1, <3>3 DEF Stay
    <2>4. op'[p].at \notin SolePlace \cup AttachPlace \cup {"removeClose"}
      BY <2>3 DEF SolePlace, MutePlace, AttachPlace
    <2>5. QED BY <1>10, <2>2, <2>3, <2>4, QuietEnd
  <1>13. QED BY <1>4, <1>5, <1>11, <1>12

LEMMA InitializeDoneOrder ==
    ASSUME Sound, Orderly, Sound', NEW p \in Proc, InitializeDone(p), UNCHANGED callVars
    PROVE  Orderly'
  <1>1. inst \in [Instance -> Managed] BY DEF Sound, TypeOK
  <1>2. /\ UNCHANGED <<table, overlapped, deaf, open, leaked>> /\ ReturnAndRetry(p, inst)
        /\ op[p].at \notin AttachPlace \cup {"applyInstall", "removeClose"}
    BY DEF InitializeDone, externalVars, callVars, AttachPlace
  <1>3. QED BY <1>1, <1>2, ReturnOrder
-----------------------------------------------------------------------------
(* The calls keep the order.  One that changes a provider which another     *)
(* caller is changing makes the two overlap.                                *)

LEMMA ChangeOrder ==
    ASSUME Sound, Orderly, Sound', NEW p \in Caller, NEW d \in Provider, Apply(p, d) \/ Remove(p, d),
           overlapped' = IF \E q \in Caller : op[q].id = d THEN overlapped \cup {d} ELSE overlapped
    PROVE  Orderly'
  <1>1. p \in Proc /\ op[p].at = "idle" /\ d # None
    BY NoneAssumption DEF Proc, Apply, Remove
  <1>2. /\ UNCHANGED <<table, open, leaked, deaf>> /\ overlapped \subseteq overlapped'
    BY DEF Apply, Remove, managerVars, externalVars
  <1>3. inst \in [Instance -> Managed] /\ table[d] \in Instance \cup {None} BY DEF Sound, TypeOK
  <1>4. \A j \in Instance : inst'[j] = inst[j] \/ (Garbage(j) /\ ~inst'[j].unsubscribe)
    <2>1. CASE Remove(p, d) BY <2>1 DEF Remove, managerVars
    <2>2. CASE Apply(p, d)
      <3> DEFINE n == CHOOSE i \in Instance : Garbage(i)
                 m == [Unused EXCEPT !.id = d]
      <3>1. n \in Instance /\ Garbage(n) BY <2>2 DEF Apply
      <3>2. inst' = [inst EXCEPT ![n] = m] BY <2>2 DEF Apply
      <3>3. ~m.unsubscribe BY DEF Unused
      <3> HIDE DEF n, m
      <3>4. QED BY <1>3, <3>1, <3>2, <3>3
    <2>3. QED BY <2>1, <2>2
  <1>5. /\ Stay(p) /\ op'[p].id = d /\ op'[p].cur = table[d]
        /\ op'[p].at \in {"applyInit", "applyLock", "removeLock"}
        /\ op'[p].at = "applyInit" => table[d] = None
    <2>1. CASE Remove(p, d)
      <3> DEFINE o == [Idle EXCEPT !.at = "removeLock", !.id = d, !.cur = table[d]]
      <3>1. o \in Op /\ o.at = "removeLock" /\ o.id = d /\ o.cur = table[d]
        BY <1>3 DEF Idle, Op, Place
      <3>2. op' = [op EXCEPT ![p] = o] BY <2>1 DEF Remove
      <3> HIDE DEF o
      <3>3. QED BY <1>1, <3>1, <3>2, StayOp
    <2>2. CASE Apply(p, d)
      <3> DEFINE n == CHOOSE i \in Instance : Garbage(i)
                 o == [Idle EXCEPT !.at = IF table[d] = None THEN "applyInit" ELSE "applyLock",
                                   !.id = d, !.cur = table[d], !.new = n]
      <3>1. n \in Instance BY <2>2 DEF Apply
      <3>2. op' = [op EXCEPT ![p] = o] BY <2>2 DEF Apply
      <3> HIDE DEF n
      <3>3. /\ o \in Op /\ o.at = (IF table[d] = None THEN "applyInit" ELSE "applyLock")
            /\ o.id = d /\ o.cur = table[d]
        BY <1>3, <3>1 DEF Idle, Op, Place
      <3> HIDE DEF o
      <3>4. Stay(p) /\ op'[p] = o BY <1>1, <3>2, <3>3, StayOp
      <3>5. QED BY <3>3, <3>4
    <2>3. QED BY <2>1, <2>2
  <1>6. Solo'
    <2>1. \A q \in Caller \ {p} : op'[q] = op[q] BY <1>5, WorkerAssumption DEF Stay, Proc
    <2>2. \A q \in Caller \ {p} : op[q].id = d => d \in overlapped' OBVIOUS
    <2>3. QED BY <1>2, <1>5, <2>1, <2>2 DEF Orderly, Solo
  <1>7. KeptSubscriptions(p) BY <1>4 DEF KeptSubscriptions
  <1>8. KeptRunning(p)
    <2>1. \A j \in Live : j \in Instance /\ ~Garbage(j) BY DEF Sound, TypeOK, Live, Garbage
    <2>2. \A j \in Live : inst'[j] = inst[j] BY <1>4, <2>1
    <2>3. QED BY <1>1, <1>2, <2>2 DEF KeptRunning, AttachPlace
  <1>9. KeptOpen(p) BY <1>1, <1>2 DEF KeptOpen
  <1>10. Sole(p)' BY <1>2, <1>5 DEF Sole, AttachPlace
  <1>11. Muted(p)' BY <1>5 DEF Muted, MutePlace
  <1>12. QED BY <1>1, <1>2, <1>5, <1>6, <1>7, <1>8, <1>9, <1>10, <1>11, OrderlyKept

LEMMA OtherCallOrder ==
    ASSUME Sound, Orderly, Sound', NEW p \in Caller, DiscoverDevices(p) \/ Close(p), UNCHANGED overlapped
    PROVE  Orderly'
  <1>1. p \in Proc /\ op[p].at = "idle" BY DEF Proc, DiscoverDevices, Close
  <1>2. UNCHANGED <<table, inst, overlapped, open, leaked, deaf>>
    BY DEF DiscoverDevices, Close, managerVars, externalVars
  <1>3. Stay(p) /\ op'[p].id = None /\ op'[p].at \in {"discover", "closeWait"}
    <2>1. CASE DiscoverDevices(p) BY <1>1, <2>1, StayDiscovery DEF DiscoverDevices
    <2>2. CASE Close(p)
      <3> DEFINE o == [Idle EXCEPT !.at = "closeWait", !.left = {id \in Provider : table[id] # None}]
      <3>1. o \in Op /\ o.at = "closeWait" /\ o.id = None BY DEF Idle, Op, Place
      <3>2. op' = [op EXCEPT ![p] = o] BY <2>2 DEF Close
      <3> HIDE DEF o
      <3>3. QED BY <1>1, <3>1, <3>2, StayOp
    <2>3. QED BY <2>1, <2>2
  <1>4. /\ op[p].at \notin AttachPlace \cup {"applyInstall", "removeClose"}
        /\ op'[p].at \notin SolePlace \cup AttachPlace \cup {"removeClose"}
    BY <1>1, <1>3 DEF SolePlace, MutePlace, AttachPlace
  <1>5. QED BY <1>1, <1>2, <1>3, <1>4, OpOrder

LEMMA InitOrderly == Init => Orderly
  <1> SUFFICES ASSUME Init PROVE Orderly OBVIOUS
  <1>1. Sound BY InitSound
  <1>2. PICK configured \in SUBSET Provider :
          /\ inst = [i \in Instance |-> IF \E id \in configured : First[id] = i
                        THEN [Unused EXCEPT !.id = CHOOSE id \in Provider : First[id] = i, !.status = "created"]
                        ELSE Unused]
          /\ op = [p \in Proc |-> CASE p = Main -> [Idle EXCEPT !.at = "boot", !.left = configured]
                                   [] p = Worker -> Off
                                   [] OTHER -> Idle]
    BY DEF Init
  <1>3. Main \in Caller /\ Main # Worker BY CallerAssumption, WorkerAssumption DEF Main
  <1> HIDE DEF First, Main
  <1>4. open = {} BY DEF Init
  <1>5. \A p \in Proc : op[p].id = None /\ op[p].at \in {"boot", "off", "idle"}
    <2> DEFINE boot == [Idle EXCEPT !.at = "boot", !.left = configured]
    <2>1. boot.at = "boot" /\ boot.id = None BY DEF Idle
    <2>2. \A p \in Proc : op[p] \in {boot, Off, Idle} BY <1>2, <1>3
    <2> HIDE DEF boot
    <2>3. QED BY <2>1, <2>2, IdleFacts
  <1>6. \A i \in Instance : inst[i].unsubscribe = FALSE /\ inst[i].status \in {"unused", "created"}
    <2>1. ASSUME NEW i \in Instance
          PROVE  inst[i].unsubscribe = FALSE /\ inst[i].status \in {"unused", "created"}
      <3> DEFINE d == CHOOSE id \in Provider : First[id] = i
      <3>1. inst[i] = Unused \/ inst[i] = [Unused EXCEPT !.id = d, !.status = "created"] BY <1>2
      <3> HIDE DEF d
      <3>2. CASE inst[i] = Unused BY <3>2 DEF Unused
      <3>3. CASE inst[i] = [Unused EXCEPT !.id = d, !.status = "created"] BY <3>3 DEF Unused
      <3>4. QED BY <3>1, <3>2, <3>3
    <2>2. QED BY <2>1
  <1>7. Caller \subseteq Proc BY DEF Proc
  <1>8. Solo BY <1>5, <1>7 DEF Solo
  <1>9. OpenPlace BY <1>4 DEF OpenPlace
  <1>10. OffTable BY <1>6 DEF OffTable
  <1>11. OnTable
    <2>1. Live \subseteq Instance BY <1>1 DEF Sound, TypeOK, Live
    <2>2. QED BY <1>6, <2>1 DEF OnTable
  <1>12. \A p \in Proc : Sole(p) BY <1>5 DEF Sole
  <1>13. \A p \in Caller : Muted(p) BY <1>5, <1>7 DEF Muted, MutePlace
  <1>14. QED BY <1>8, <1>9, <1>10, <1>11, <1>12, <1>13 DEF Orderly

LEMMA StepOrder ==
    ASSUME Sound, Orderly, Sound', NEW p \in Proc, Step(p)
    PROVE  Orderly'
  <1>1. UNCHANGED callVars BY DEF Step
  <1>2. CASE InitializeNext(p) BY <1>1, <1>2, InitializeNextOrder
  <1>3. CASE InitializeDone(p) BY <1>1, <1>3, InitializeDoneOrder
  <1>4. CASE Subscribe(p) BY <1>1, <1>4, SubscribeOrder
  <1>5. CASE Record(p) BY <1>1, <1>5, RecordOrder
  <1>6. CASE ApplyChanged(p) \/ DiscoverDone(p) \/ CloseDone(p) BY <1>1, <1>6, ApplyReturnsOrder
  <1>7. CASE Reconfigure(p) BY <1>1, <1>7, ReconfigureOrder
  <1>8. CASE reconcileReconfigured(p) BY <1>1, <1>8, ReconciledOrder
  <1>9. CASE ReplaceBegin(p) BY <1>1, <1>9, ReplaceBeginOrder
  <1>10. CASE ReplaceClose(p) BY <1>1, <1>10, ReplaceCloseOrder
  <1>11. CASE ApplyInitialize(p) BY <1>1, <1>11, ApplyInitializeOrder
  <1>12. CASE CandidateFails(p) BY <1>1, <1>12, CandidateFailsOrder
  <1>13. CASE Install(p) BY <1>1, <1>13, InstallOrder
  <1>14. CASE restoreAfterFailedReplacement(p) BY <1>1, <1>14, RestoreOrder
  <1>15. CASE RemoveLocked(p) BY <1>1, <1>15, RemoveLockedOrder
  <1>16. CASE RemoveClose(p) BY <1>1, <1>16, RemoveCloseOrder
  <1>17. CASE DiscoverLook(p) \/ DiscoverFetch(p) BY <1>1, <1>17, DiscoverOrder
  <1>18. CASE CloseWaited(p) \/ CloseNext(p) \/ CloseLocked(p) \/ CloseProvider(p)
    BY <1>1, <1>18, CloseOrder
  <1>19. QED
    BY <1>2, <1>3, <1>4, <1>5, <1>6, <1>7, <1>8, <1>9, <1>10, <1>11, <1>12, <1>13, <1>14, <1>15,
       <1>16, <1>17, <1>18 DEF Step

LEMMA RetryOrder ==
    ASSUME Sound, Orderly, Sound', Retry
    PROVE  Orderly'
  <1>1. UNCHANGED callVars BY DEF Retry
  <1>2. CASE RetrySelect \/ RetryEnd \/ RetryExit BY <1>1, <1>2, RetryLoopOrder
  <1>3. CASE retryProvider BY <1>1, <1>3, retryProviderOrder
  <1>4. CASE RetryFails BY <1>1, <1>4, RetryFailsOrder
  <1>5. CASE RetryClose BY <1>1, <1>5, RetryCloseOrder
  <1>6. CASE RetryInitialize BY <1>1, <1>6, RetryInitializeOrder
  <1>7. CASE RetryInstall BY <1>1, <1>7, RetryInstallOrder
  <1>8. QED BY <1>2, <1>3, <1>4, <1>5, <1>6, <1>7 DEF Retry

LEMMA StutterOrder ==
    ASSUME Orderly, UNCHANGED vars
    PROVE  Orderly'
  <1>1. UNCHANGED <<table, inst, op, open, leaked, deaf, overlapped>>
    BY DEF vars, managerVars, callVars, externalVars
  <1>2. Live' = Live BY <1>1 DEF Live
  <1>3. Solo' /\ OpenPlace' BY <1>1 DEF Orderly, Solo, OpenPlace, InHand
  <1>4. OffTable' /\ OnTable' BY <1>1, <1>2 DEF Orderly, OffTable, OnTable, Attaching
  <1>5. (\A p \in Proc : Sole(p)') /\ (\A p \in Caller : Muted(p)') BY <1>1 DEF Orderly, Sole, Muted
  <1>6. QED BY <1>3, <1>4, <1>5 DEF Orderly

LEMMA NextOrder ==
    ASSUME Sound, Orderly, [Next]_vars
    PROVE  Sound' /\ Orderly'
  <1>1. Sound' BY NextSound
  <1>2. CASE \E p \in Caller : Step(p) BY <1>1, <1>2, StepOrder DEF Proc
  <1>3. CASE WorkerStep BY <1>1, <1>3, StepOrder, RetryOrder DEF WorkerStep, Proc
  <1>4. CASE Call
    <2>1. PICK p \in Caller :
            \/ \E d \in Provider :
                  /\ Apply(p, d) \/ Remove(p, d)
                  /\ overlapped' = IF \E q \in Caller : op[q].id = d THEN overlapped \cup {d} ELSE overlapped
            \/ (DiscoverDevices(p) \/ Close(p)) /\ UNCHANGED overlapped
      BY <1>4 DEF Call
    <2>2. QED BY <1>1, <2>1, ChangeOrder, OtherCallOrder
  <1>5. CASE Reports BY <1>1, <1>5, ReportOrder DEF Reports
  <1>6. CASE UNCHANGED vars BY <1>1, <1>6, StutterOrder
  <1>7. QED BY <1>1, <1>2, <1>3, <1>4, <1>5, <1>6 DEF Next

\* As long as no two callers change a provider at the same time, what each goroutine
\* has read from the table is still there when it acts on it, although it has waited
\* for mutexes and called providers in between.
THEOREM OrderlyInvariant == Spec => [](Sound /\ Orderly)
  <1>1. Init => Sound /\ Orderly BY InitSound, InitOrderly
  <1>2. Sound /\ Orderly /\ [Next]_vars => (Sound /\ Orderly)' BY NextOrder
  <1>3. QED BY <1>1, <1>2, PTL DEF Spec

\* Apply's promise: two transports of one provider are never open at the same time,
\* whatever fails and whatever the retry worker does, unless callers change the
\* provider concurrently or a Close has failed.
THEOREM OneConnectionHolds == Spec => []OneConnection
  <1>1. Sound /\ Orderly => OneConnection
    <2> SUFFICES ASSUME Sound, Orderly, NEW i \in open \ leaked, NEW j \in open \ leaked,
                        inst[i].id = inst[j].id, inst[i].id \notin overlapped
                 PROVE  i = j
      BY DEF OneConnection
    <2> DEFINE d == inst[i].id
    <2>1. i \in Instance /\ j \in Instance /\ i # None /\ j # None
      BY NoneAssumption DEF Sound, TypeOK
    <2>2. d \in Provider /\ d # None BY NoneAssumption DEF Orderly, OpenPlace
    <2>3. /\ table[d] = i \/ \E p \in Caller : InHand(p, i)
          /\ table[d] = j \/ \E p \in Caller : InHand(p, j)
      BY DEF Orderly, OpenPlace
    <2>4. ASSUME NEW p \in Caller, NEW k \in Instance, InHand(p, k), inst[k].id = d
          PROVE  table[d] \notin open
      <3>1. p \in Proc /\ op[p].id = d BY <2>4 DEF Proc, InHand
      <3>2. Sole(p) /\ Mine(p) BY <3>1, SoundAt DEF Orderly
      <3>3. CASE op[p].at = "applyInstall"
        <4>1. table[d] = op[p].cur BY <2>2, <3>1, <3>2, <3>3 DEF Sole, SolePlace, MutePlace
        <4>2. None \notin open BY NoneAssumption DEF Sound, TypeOK
        <4>3. QED BY <3>2, <3>3, <4>1, <4>2 DEF Mine, Locked, OnClosed
      <3>4. CASE op[p].at = "removeClose"
        <4>1. table[d] = None BY <2>2, <3>1, <3>2, <3>4 DEF Sole
        <4>2. QED BY <4>1, NoneAssumption DEF Sound, TypeOK
      <3>5. QED BY <2>4, <3>3, <3>4 DEF InHand
    <2>5. CASE table[d] = i BY <2>1, <2>3, <2>4, <2>5
    <2>6. CASE table[d] = j BY <2>1, <2>3, <2>4, <2>6
    <2>7. CASE (\E p \in Caller : InHand(p, i)) /\ (\E p \in Caller : InHand(p, j))
      <3>1. PICK p \in Caller, q \in Caller : InHand(p, i) /\ InHand(q, j) BY <2>7
      <3>2. p = q BY <2>2, <3>1 DEF Orderly, Solo, InHand
      <3>3. QED BY <3>1, <3>2 DEF InHand
    <2>8. QED BY <2>3, <2>5, <2>6, <2>7
  <1>2. QED BY <1>1, OrderlyInvariant, PTL

\* attach and the operations that end subscriptions leave a running provider with
\* exactly one, and a provider that was removed or replaced with none.
THEOREM SubscribedOnceHolds == Spec => []SubscribedOnce
  <1>1. Sound /\ Orderly => SubscribedOnce
    <2> SUFFICES ASSUME Sound, Orderly, NEW i \in Instance, ~Attaching(i), ~closed,
                        inst[i].id \notin overlapped
                 PROVE  /\ listening[i] \leq 1
                        /\ i \in Live /\ inst[i].status = "running" => listening[i] = 1 \/ i \in deaf
                        /\ i \notin Live /\ Holders(i) = {} => listening[i] = 0
      BY DEF SubscribedOnce
    <2>1. Recorders(i) = {} BY DEF Recorders, Attaching
    <2>2. Cardinality(Recorders(i)) = 0 BY <2>1, FS_EmptySet
    <2>3. /\ inst[i].unsubscribe => listening[i] = Cardinality(Recorders(i)) + 1
          /\ ~inst[i].unsubscribe => listening[i] = Cardinality(Recorders(i))
      BY CountAt
    <2>4. (inst[i].unsubscribe => listening[i] = 1) /\ (~inst[i].unsubscribe => listening[i] = 0)
      BY <2>2, <2>3
    <2>5. i \in Live /\ inst[i].status = "running" => inst[i].unsubscribe \/ i \in deaf
      BY DEF Orderly, OnTable
    <2>6. i \notin Live /\ Holders(i) = {} => ~inst[i].unsubscribe
      BY DEF Orderly, OffTable, Holders, Proc
    <2>7. QED BY <2>4, <2>5, <2>6
  <1>2. QED BY <1>1, OrderlyInvariant, PTL
=============================================================================
