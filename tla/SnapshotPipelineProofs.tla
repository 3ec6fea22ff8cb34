----------------------- MODULE SnapshotPipelineProofs -----------------------
(***************************************************************************)
(* Proofs about SnapshotPipeline, for every provider, every number of      *)
(* requests, every bound and any interleaving of the worker, a refresh,    *)
(* the requests and the start.                                             *)
(*                                                                         *)
(* Base is the invariant everything rests on: types, the list of steps     *)
(* each goroutine can have left (Control), and what is true of every       *)
(* snapshot on its way and of the value of the store (Sound, Written).     *)
(* On top of it, one invariant per property:                               *)
(*   Ordered   a provider that numbers upwards gives a sequence one value, *)
(*             wherever it has got to                                      *)
(*   Caught    then the store is not behind the registry, or somebody who  *)
(*             carries a snapshot as new is about to store it              *)
(*   Shut      what holds between the disabling of a device and the moment *)
(*             its registry entry and its value show it                    *)
(*   AloneInv  the last sequence is the highest one that was registered,   *)
(*             as long as only the worker changes the device               *)
(*   UpInv     the order of queue, worker, registry and store, as long as  *)
(*             the provider also numbers upwards                           *)
(***************************************************************************)
EXTENDS SnapshotPipeline, SequenceTheorems, TLAPS

\* The lists of steps a goroutine may have left, named for the one they begin with.
Gate == <<"gate", "accept", "register", "store", "mark">>
Accept == <<"accept", "register", "store", "mark">>
Register == <<"register", "store", "mark">>
Store == <<"store", "mark">>
Mark == <<"mark">>
EnableReset == <<"reset", "discover", "register", "note", "store", "mark">>
Discover == <<"discover", "register", "note", "store", "mark">>
EnableRegister == <<"register", "note", "store", "mark">>
Note == <<"note", "store", "mark">>
DisableReset == <<"reset", "register", "mark">>
DisableRegister == <<"register", "mark">>
Take == <<"take", "register", "mark", "reset">>
LoadRegister == <<"register", "mark", "reset">>
LoadMark == <<"mark", "reset">>
LoadReset == <<"reset">>

Handling == {<<>>, HandleSteps, Gate, Accept, Register, Store, Mark}
Refreshing == Handling \cup {RefreshSteps}
Enabling == {<<>>, EnableSteps, EnableReset, Discover, EnableRegister, Note, Store, Mark}
Disabling == {DisableSteps, DisableReset, DisableRegister, Mark}
Loading == {<<>>, LoadSteps, Take, LoadRegister, LoadMark, LoadReset}

Todo(t) == thread[t].todo
Item(t) == thread[t].item

\* A snapshot that shows the device as disabled.
Hidden(s) == s.disabled /\ ~Online(s)

\* What goroutine t may have left to do, and what it carries meanwhile.
Fits(t, g) ==
    /\ g \in Goroutine
    /\ t = "worker" => g.todo \in Handling
    /\ t = "refresh" => g.todo \in Refreshing
    /\ t \in User =>
          \/ g.todo \in Enabling /\ (g.todo # <<>> => ~g.item.disabled)
          \/ g.todo \in Disabling /\ Hidden(g.item)
    /\ t = "main" =>
          /\ g.todo \in Loading
          /\ g.todo \in {LoadRegister, LoadMark, LoadReset} => g.item \in Snapshot /\ Hidden(g.item)
    /\ t # "main" /\ g.todo # <<>> => g.item \in Snapshot

\* While preferences are loaded, neither a refresh nor a request is under way.
Control ==
    /\ thread \in [Thread -> Goroutine]
    /\ \A t \in Thread : Fits(t, thread[t])
    /\ Todo("main") # <<>> => \A u \in User \cup {"refresh"} : Todo(u) = <<>>

\* A step of goroutine t: it goes on with l and i, or it ends.
Goes(t, l, i) == thread' = [thread EXCEPT ![t] = [todo |-> l, item |-> i, late |-> thread[t].late]]
Ends(t) == thread' = [thread EXCEPT ![t] = Idle]
-----------------------------------------------------------------------------
(* The lists.                                                              *)

\* A refresh is a reset followed by the handling of a snapshot.
LEMMA RefreshList == RefreshSteps = <<"reset", "project", "gate", "accept", "register", "store", "mark">>
  <1> DEFINE r == <<"reset", "project", "gate", "accept", "register", "store", "mark">>
             a == <<"reset">>
             h == HandleSteps
             c == a \o h
  <1>1. a \in Seq(Step) /\ h \in Seq(Step) /\ r \in Seq(Step) BY DEF HandleSteps, Step
  <1>2. Len(a) = 1 /\ Len(h) = 6 /\ Len(r) = 7 BY DEF HandleSteps
  <1>3. /\ c \in Seq(Step) /\ Len(c) = Len(a) + Len(h)
        /\ \A i \in 1..(Len(a) + Len(h)) : c[i] = IF i <= Len(a) THEN a[i] ELSE h[i - Len(a)]
    <2> HIDE DEF a, h
    <2> QED BY <1>1, ConcatProperties
  <1>4. Len(c) = 7 /\ \A i \in 1..7 : c[i] = r[i]
    <2> HIDE DEF c
    <2> QED BY <1>2, <1>3 DEF HandleSteps
  <1>5. c = r
    <2> HIDE DEF c, r
    <2> QED BY <1>1, <1>2, <1>3, <1>4, SeqEqual
  <1> QED BY <1>5 DEF RefreshSteps

\* The step each list begins with, the list that follows it, and which have a last step.
LEMMA HandleLists ==
    /\ Head(HandleSteps) = "project" /\ Tail(HandleSteps) = Gate /\ Len(HandleSteps) # 1
    /\ Head(Gate) = "gate" /\ Tail(Gate) = Accept /\ Len(Gate) # 1
    /\ Head(Accept) = "accept" /\ Tail(Accept) = Register /\ Len(Accept) # 1
    /\ Head(Register) = "register" /\ Tail(Register) = Store /\ Len(Register) # 1
    /\ Head(Store) = "store" /\ Tail(Store) = Mark /\ Len(Store) # 1
    /\ Head(Mark) = "mark" /\ Len(Mark) = 1
    /\ Head(RefreshSteps) = "reset" /\ Tail(RefreshSteps) = HandleSteps /\ Len(RefreshSteps) # 1
  BY RefreshList DEF HandleSteps, Gate, Accept, Register, Store, Mark

LEMMA ToggleLists ==
    /\ Head(EnableSteps) = "flag" /\ Tail(EnableSteps) = EnableReset /\ Len(EnableSteps) # 1
    /\ Head(EnableReset) = "reset" /\ Tail(EnableReset) = Discover /\ Len(EnableReset) # 1
    /\ Head(Discover) = "discover" /\ Tail(Discover) = EnableRegister /\ Len(Discover) # 1
    /\ Head(EnableRegister) = "register" /\ Tail(EnableRegister) = Note /\ Len(EnableRegister) # 1
    /\ Head(Note) = "note" /\ Tail(Note) = Store /\ Len(Note) # 1
    /\ Head(DisableSteps) = "flag" /\ Tail(DisableSteps) = DisableReset /\ Len(DisableSteps) # 1
    /\ Head(DisableReset) = "reset" /\ Tail(DisableReset) = DisableRegister /\ Len(DisableReset) # 1
    /\ Head(DisableRegister) = "register" /\ Tail(DisableRegister) = Mark /\ Len(DisableRegister) # 1
  BY DEF EnableSteps, EnableReset, Discover, EnableRegister, Note, Store, DisableSteps, DisableReset,
         DisableRegister, Mark

LEMMA LoadLists ==
    /\ Head(LoadSteps) = "load" /\ Tail(LoadSteps) = Take /\ Len(LoadSteps) # 1
    /\ Head(Take) = "take" /\ Tail(Take) = LoadRegister /\ Len(Take) # 1
    /\ Head(LoadRegister) = "register" /\ Tail(LoadRegister) = LoadMark /\ Len(LoadRegister) # 1
    /\ Head(LoadMark) = "mark" /\ Tail(LoadMark) = LoadReset /\ Len(LoadMark) # 1
    /\ Head(LoadReset) = "reset" /\ Len(LoadReset) = 1
  BY DEF LoadSteps, Take, LoadRegister, LoadMark, LoadReset

\* All of them are lists of steps, and none but the empty one is empty.
LEMMA ListsOfSteps ==
    /\ Refreshing \subseteq Seq(Step) /\ Enabling \subseteq Seq(Step)
    /\ Disabling \subseteq Seq(Step) /\ Loading \subseteq Seq(Step)
  <1>1. Refreshing \subseteq Seq(Step)
    BY RefreshList DEF Refreshing, Handling, HandleSteps, Gate, Accept, Register, Store, Mark, Step
  <1>2. Enabling \subseteq Seq(Step)
    BY DEF Enabling, EnableSteps, EnableReset, Discover, EnableRegister, Note, Store, Mark, Step
  <1>3. Disabling \subseteq Seq(Step)
    BY DEF Disabling, DisableSteps, DisableReset, DisableRegister, Mark, Step
  <1>4. Loading \subseteq Seq(Step)
    BY DEF Loading, LoadSteps, Take, LoadRegister, LoadMark, LoadReset, Step
  <1> QED BY <1>1, <1>2, <1>3, <1>4

LEMMA NotEmpty ==
    /\ \A l \in Refreshing \ {<<>>} : Head(l) \in {"reset", "project", "gate", "accept", "register", "store", "mark"}
    /\ HandleSteps # <<>> /\ Gate # <<>> /\ Accept # <<>> /\ Register # <<>> /\ Store # <<>> /\ Mark # <<>>
    /\ RefreshSteps # <<>> /\ EnableSteps # <<>> /\ EnableReset # <<>> /\ Discover # <<>>
    /\ EnableRegister # <<>> /\ Note # <<>> /\ DisableSteps # <<>> /\ DisableReset # <<>>
    /\ DisableRegister # <<>> /\ LoadSteps # <<>> /\ Take # <<>> /\ LoadRegister # <<>>
    /\ LoadMark # <<>> /\ LoadReset # <<>>
  <1>1. \A l \in Refreshing \ {<<>>} : Head(l) \in {"reset", "project", "gate", "accept", "register", "store", "mark"}
    BY HandleLists DEF Refreshing, Handling
  <1>2. HandleSteps # <<>> /\ Gate # <<>> /\ Accept # <<>> /\ Register # <<>> /\ Store # <<>> /\ Mark # <<>>
    BY DEF HandleSteps, Gate, Accept, Register, Store, Mark
  <1>3. RefreshSteps # <<>> /\ EnableSteps # <<>> /\ EnableReset # <<>> /\ Discover # <<>> /\ EnableRegister # <<>> /\ Note # <<>>
    BY RefreshList DEF EnableSteps, EnableReset, Discover, EnableRegister, Note
  <1>4. DisableSteps # <<>> /\ DisableReset # <<>> /\ DisableRegister # <<>>
    BY DEF DisableSteps, DisableReset, DisableRegister
  <1>5. LoadSteps # <<>> /\ Take # <<>> /\ LoadRegister # <<>> /\ LoadMark # <<>> /\ LoadReset # <<>>
    BY DEF LoadSteps, Take, LoadRegister, LoadMark, LoadReset
  <1> QED BY <1>1, <1>2, <1>3, <1>4, <1>5

\* Lists that begin with the same step differ in what follows.
LEMMA Distinct ==
    /\ Register # EnableRegister /\ Register # DisableRegister /\ EnableRegister # DisableRegister
    /\ LoadRegister # Register /\ LoadRegister # EnableRegister /\ LoadRegister # DisableRegister
    /\ Mark # LoadMark /\ LoadReset # RefreshSteps /\ EnableReset # DisableReset
    /\ LoadReset # EnableReset /\ LoadReset # DisableReset
    /\ RefreshSteps # EnableReset /\ RefreshSteps # DisableReset /\ EnableSteps # DisableSteps
  <1>1. Register # EnableRegister /\ Register # DisableRegister /\ EnableRegister # DisableRegister
    BY DEF Register, EnableRegister, DisableRegister
  <1>2. LoadRegister # Register /\ LoadRegister # EnableRegister /\ LoadRegister # DisableRegister
    BY DEF Register, EnableRegister, DisableRegister, LoadRegister
  <1>3. Mark # LoadMark BY DEF Mark, LoadMark
  <1>4. EnableReset # DisableReset /\ LoadReset # EnableReset /\ LoadReset # DisableReset
    BY DEF LoadReset, EnableReset, DisableReset
  <1>5. RefreshSteps # EnableReset /\ RefreshSteps # DisableReset /\ LoadReset # RefreshSteps
    BY RefreshList DEF LoadReset, EnableReset, DisableReset
  <1>6. EnableSteps # DisableSteps BY DEF EnableSteps, DisableSteps
  <1> QED BY <1>1, <1>2, <1>3, <1>4, <1>5, <1>6
-----------------------------------------------------------------------------
(* The steps.                                                              *)

\* Which goroutine may be at which step, and with which list.
LEMMA Where ==
    ASSUME Control, NEW t \in Thread
    PROVE  /\ At(t, "project") => t \in {"worker", "refresh"} /\ Todo(t) = HandleSteps
           /\ At(t, "gate") => t \in {"worker", "refresh"} /\ Todo(t) = Gate
           /\ At(t, "accept") => t \in {"worker", "refresh"} /\ Todo(t) = Accept
           /\ At(t, "note") => t \in User /\ Todo(t) = Note
           /\ At(t, "reset") => \/ t = "refresh" /\ Todo(t) = RefreshSteps
                                \/ t \in User /\ Todo(t) \in {EnableReset, DisableReset}
                                \/ t = "main" /\ Todo(t) = LoadReset
           /\ At(t, "register") => \/ t \in {"worker", "refresh"} /\ Todo(t) = Register
                                   \/ t \in User /\ Todo(t) \in {EnableRegister, DisableRegister}
                                   \/ t = "main" /\ Todo(t) = LoadRegister
           /\ At(t, "store") => t \in {"worker", "refresh"} \cup User /\ Todo(t) = Store
           /\ At(t, "mark") => \/ t \in {"worker", "refresh"} \cup User /\ Todo(t) = Mark
                               \/ t = "main" /\ Todo(t) = LoadMark
           /\ At(t, "flag") => t \in User /\ Todo(t) \in {EnableSteps, DisableSteps}
           /\ At(t, "discover") => t \in User /\ Todo(t) = Discover
           /\ At(t, "load") => t = "main" /\ Todo(t) = LoadSteps
           /\ At(t, "take") => t = "main" /\ Todo(t) = Take
  <1>1. CASE t = "worker"
    <2>1. Todo(t) \in Handling BY <1>1 DEF Control, Fits, Todo
    <2>2. QED BY <1>1, <2>1, HandleLists, NotEmpty DEF Handling, At, Ready, Todo
  <1>2. CASE t = "refresh"
    <2>1. Todo(t) \in Refreshing BY <1>2 DEF Control, Fits, Todo
    <2>2. QED BY <1>2, <2>1, HandleLists, NotEmpty DEF Refreshing, Handling, At, Ready, Todo
  <1>3. CASE t \in User
    <2>1. Todo(t) \in Enabling \cup Disabling BY <1>3 DEF Control, Fits, Todo
    <2>2. QED BY <1>3, <2>1, HandleLists, ToggleLists, NotEmpty DEF Enabling, Disabling, At, Ready, Todo
  <1>4. CASE t = "main"
    <2>1. Todo(t) \in Loading BY <1>4 DEF Control, Fits, Todo
    <2>2. QED BY <1>4, <2>1, LoadLists, NotEmpty DEF Loading, At, Ready, Todo
  <1> QED BY <1>1, <1>2, <1>3, <1>4 DEF Thread

\* Done, Return and DoneOrReturn change the record of one goroutine.
LEMMA DoneGoes ==
    ASSUME thread \in [Thread -> Goroutine], NEW t \in Thread, NEW i, Done(t, i)
    PROVE  Goes(t, Tail(Todo(t)), i)
  <1> DEFINE l == Tail(Todo(t))
             r == [todo |-> l, item |-> i, late |-> thread[t].late]
             f == [thread EXCEPT ![t].todo = l]
  <1>1. thread' = [f EXCEPT ![t].item = i] BY DEF Done, Todo
  <1>2. f = [thread EXCEPT ![t] = [thread[t] EXCEPT !.todo = l]] OBVIOUS
  <1>3. thread' = [thread EXCEPT ![t] = [[thread[t] EXCEPT !.todo = l] EXCEPT !.item = i]]
    <2> HIDE DEF l
    <2> QED BY <1>1, <1>2
  <1>4. [[thread[t] EXCEPT !.todo = l] EXCEPT !.item = i] = r
    <2>1. PICK a \in Seq(Step), b \in Snapshot \cup {None}, c \in BOOLEAN :
             thread[t] = [todo |-> a, item |-> b, late |-> c]
      BY DEF Goroutine
    <2> HIDE DEF l
    <2>2. [thread[t] EXCEPT !.todo = l] = [todo |-> l, item |-> b, late |-> c] BY <2>1
    <2>3. [[todo |-> l, item |-> b, late |-> c] EXCEPT !.item = i] = [todo |-> l, item |-> i, late |-> c]
      OBVIOUS
    <2>4. thread[t].late = c BY <2>1
    <2> QED BY <2>2, <2>3, <2>4
  <1> QED BY <1>3, <1>4 DEF Goes

LEMMA DoneOrReturnGoes ==
    ASSUME thread \in [Thread -> Goroutine], NEW t \in Thread, DoneOrReturn(t)
    PROVE  IF Len(Todo(t)) = 1 THEN Ends(t) ELSE Goes(t, Tail(Todo(t)), Item(t))
  BY DoneGoes DEF DoneOrReturn, Return, Ends, Todo, Item

\* Replacing the record of a running goroutine by one that fits keeps the control.
LEMMA ReplaceFits ==
    ASSUME Control, NEW t \in Thread, Todo(t) # <<>>, NEW g, Fits(t, g),
           thread' = [thread EXCEPT ![t] = g]
    PROVE  Control'
  <1>1. thread' \in [Thread -> Goroutine] BY DEF Control, Fits
  <1>2. \A u \in Thread : thread'[u] = IF u = t THEN g ELSE thread[u] BY DEF Control
  <1>3. \A u \in Thread : Fits(u, thread'[u])
    BY <1>2 DEF Control
  <1>4. Todo("main")' # <<>> => \A u \in User \cup {"refresh"} : Todo(u)' = <<>>
    BY <1>2 DEF Control, Todo, Thread
  <1> QED BY <1>1, <1>3, <1>4 DEF Control, Fits

\* A goroutine may end anywhere.
LEMMA IdleFits == \A t \in Thread : Fits(t, Idle)
  <1>1. Idle \in Goroutine /\ Idle.todo = <<>> BY DEF Idle, Goroutine
  <1>2. <<>> \in Handling /\ <<>> \in Refreshing /\ <<>> \in Enabling /\ <<>> \in Loading
    BY DEF Handling, Refreshing, Enabling, Loading
  <1>3. <<>> # LoadRegister /\ <<>> # LoadMark /\ <<>> # LoadReset BY NotEmpty
  <1> HIDE DEF Idle
  <1> QED BY <1>1, <1>2, <1>3 DEF Fits

LEMMA EndsKeeps ==
    ASSUME Control, NEW t \in Thread, Todo(t) # <<>>, Ends(t)
    PROVE  Control'
  BY ReplaceFits, IdleFits DEF Ends

\* It goes on with a list and an item that fit it.
LEMMA GoesKeeps ==
    ASSUME Control, NEW t \in Thread, Todo(t) # <<>>, NEW l, NEW i, Goes(t, l, i),
           Fits(t, [todo |-> l, item |-> i, late |-> thread[t].late])
    PROVE  Control'
  BY ReplaceFits DEF Goes

\* What each step does to its goroutine.
LEMMA ProjectMove ==
    ASSUME Control, NEW t \in Thread, projectLatestSnapshot(t)
    PROVE  /\ t \in {"worker", "refresh"} /\ Todo(t) = HandleSteps
           /\ Goes(t, Gate, IF cataloger /\ ~source.removed THEN source ELSE Item(t))
  <1> DEFINE i == IF cataloger /\ ~source.removed THEN source ELSE Item(t)
  <1>1. t \in {"worker", "refresh"} /\ Todo(t) = HandleSteps BY Where DEF projectLatestSnapshot
  <1>2. Done(t, i) BY DEF projectLatestSnapshot, Item
  <1>3. Goes(t, Tail(Todo(t)), i)
    <2> HIDE DEF i
    <2> QED BY <1>2, DoneGoes DEF Control
  <1> QED BY <1>1, <1>3, HandleLists

LEMMA GateMove ==
    ASSUME Control, NEW t \in Thread, isDeviceDisabled(t)
    PROVE  /\ t \in {"worker", "refresh"} /\ Todo(t) = Gate
           /\ Goes(t, Accept, IF disabled THEN Offline([Item(t) EXCEPT !.disabled = TRUE]) ELSE Item(t))
  <1> DEFINE i == IF disabled THEN Offline([Item(t) EXCEPT !.disabled = TRUE]) ELSE Item(t)
  <1>1. t \in {"worker", "refresh"} /\ Todo(t) = Gate BY Where DEF isDeviceDisabled
  <1>2. Done(t, i) BY DEF isDeviceDisabled, Item
  <1>3. Goes(t, Tail(Todo(t)), i)
    <2> HIDE DEF i
    <2> QED BY <1>2, DoneGoes DEF Control
  <1> QED BY <1>1, <1>3, HandleLists

LEMMA AcceptMove ==
    ASSUME Control, NEW t \in Thread, acceptSnapshotSequence(t)
    PROVE  /\ t \in {"worker", "refresh"} /\ Todo(t) = Accept
           /\ IF Online(Item(t)) /\ Item(t).seq > 0 /\ snapshotSeq > 0 /\ Item(t).seq <= snapshotSeq
              THEN Ends(t) ELSE Goes(t, Register, Item(t))
           /\ snapshotSeq' = IF ~Online(Item(t)) THEN 0
                             ELSE IF Item(t).seq > snapshotSeq THEN Item(t).seq ELSE snapshotSeq
  <1> DEFINE refused == Online(Item(t)) /\ Item(t).seq > 0 /\ snapshotSeq > 0 /\ Item(t).seq <= snapshotSeq
             newer == Item(t).seq > snapshotSeq
             on == Online(Item(t))
  <1>1. t \in {"worker", "refresh"} /\ Todo(t) = Accept BY Where DEF acceptSnapshotSequence
  <1>2. snapshotSeq' = CASE ~on -> 0 [] on /\ newer -> Item(t).seq [] OTHER -> snapshotSeq
    BY DEF acceptSnapshotSequence, Item
  <1>3. IF refused THEN Return(t) ELSE DoneOrReturn(t) BY DEF acceptSnapshotSequence, Item
  <1>4. ASSUME ~refused PROVE Goes(t, Register, Item(t))
    BY <1>1, <1>3, <1>4, DoneOrReturnGoes, HandleLists DEF Control
  <1>5. ASSUME refused PROVE Ends(t) BY <1>3, <1>5 DEF Return, Ends
  <1>6. snapshotSeq' = IF ~on THEN 0 ELSE IF newer THEN Item(t).seq ELSE snapshotSeq
    <2> HIDE DEF on, newer
    <2> QED BY <1>2
  <1> QED BY <1>1, <1>4, <1>5, <1>6

LEMMA NoteMove ==
    ASSUME Control, NEW t \in Thread, noteSnapshotSequence(t)
    PROVE  t \in User /\ Todo(t) = Note /\ Goes(t, Store, Item(t))
  <1>1. t \in User /\ Todo(t) = Note BY Where DEF noteSnapshotSequence
  <1> QED BY <1>1, DoneOrReturnGoes, ToggleLists DEF noteSnapshotSequence, Control

LEMMA ResetMove ==
    ASSUME Control, NEW t \in Thread, resetSnapshotSequence(t)
    PROVE  \/ t = "refresh" /\ Todo(t) = RefreshSteps /\ Goes(t, HandleSteps, Item(t))
           \/ t \in User /\ Todo(t) = EnableReset /\ Goes(t, Discover, Item(t))
           \/ t \in User /\ Todo(t) = DisableReset /\ Goes(t, DisableRegister, Item(t))
           \/ t = "main" /\ Todo(t) = LoadReset /\ Ends(t)
  <1>1. \/ t = "refresh" /\ Todo(t) = RefreshSteps
        \/ t \in User /\ Todo(t) \in {EnableReset, DisableReset}
        \/ t = "main" /\ Todo(t) = LoadReset
    BY Where DEF resetSnapshotSequence
  <1>2. IF Len(Todo(t)) = 1 THEN Ends(t) ELSE Goes(t, Tail(Todo(t)), Item(t))
    BY DoneOrReturnGoes DEF resetSnapshotSequence, Control
  <1>3. CASE t = "refresh" /\ Todo(t) = RefreshSteps BY <1>2, <1>3, HandleLists
  <1>4. CASE t \in User /\ Todo(t) = EnableReset BY <1>2, <1>4, ToggleLists
  <1>5. CASE t \in User /\ Todo(t) = DisableReset BY <1>2, <1>5, ToggleLists
  <1>6. CASE t = "main" /\ Todo(t) = LoadReset BY <1>2, <1>6, LoadLists
  <1> QED BY <1>1, <1>3, <1>4, <1>5, <1>6

LEMMA RegisterMove ==
    ASSUME Control, NEW t \in Thread, register(t)
    PROVE  \/ t \in {"worker", "refresh"} /\ Todo(t) = Register /\ Goes(t, Store, Item(t))
           \/ t \in User /\ Todo(t) = EnableRegister /\ Goes(t, Note, Item(t))
           \/ t \in User /\ Todo(t) = DisableRegister /\ Goes(t, Mark, Item(t))
           \/ t = "main" /\ Todo(t) = LoadRegister /\ Goes(t, LoadMark, Item(t))
  <1>1. \/ t \in {"worker", "refresh"} /\ Todo(t) = Register
        \/ t \in User /\ Todo(t) \in {EnableRegister, DisableRegister}
        \/ t = "main" /\ Todo(t) = LoadRegister
    BY Where DEF register
  <1>2. IF Len(Todo(t)) = 1 THEN Ends(t) ELSE Goes(t, Tail(Todo(t)), Item(t))
    BY DoneOrReturnGoes DEF register, Control
  <1>3. CASE t \in {"worker", "refresh"} /\ Todo(t) = Register BY <1>2, <1>3, HandleLists
  <1>4. CASE t \in User /\ Todo(t) = EnableRegister BY <1>2, <1>4, ToggleLists
  <1>5. CASE t \in User /\ Todo(t) = DisableRegister BY <1>2, <1>5, ToggleLists
  <1>6. CASE t = "main" /\ Todo(t) = LoadRegister BY <1>2, <1>6, LoadLists
  <1> QED BY <1>1, <1>3, <1>4, <1>5, <1>6

LEMMA StoreMove ==
    ASSUME Control, NEW t \in Thread, store(t)
    PROVE  /\ t \in {"worker", "refresh"} \cup User /\ Todo(t) = Store
           /\ IF Online(Item(t)) THEN Ends(t) /\ state' = applySnapshot(state, Item(t))
              ELSE Goes(t, Mark, Item(t)) /\ state' = ensureUnknownStates(state, Item(t))
  <1>1. t \in {"worker", "refresh"} \cup User /\ Todo(t) = Store BY Where DEF store
  <1>2. IF Online(Item(t)) THEN Return(t) ELSE DoneOrReturn(t) BY DEF store, Item
  <1>3. ASSUME ~Online(Item(t)) PROVE Goes(t, Mark, Item(t))
    BY <1>1, <1>2, <1>3, DoneOrReturnGoes, HandleLists DEF Control
  <1>4. state' = IF Online(Item(t)) THEN applySnapshot(state, Item(t)) ELSE ensureUnknownStates(state, Item(t))
    BY DEF store, Item
  <1> QED BY <1>1, <1>2, <1>3, <1>4 DEF Return, Ends

LEMMA MarkMove ==
    ASSUME Control, NEW t \in Thread, markDeviceUnavailable(t)
    PROVE  \/ t \in {"worker", "refresh"} \cup User /\ Todo(t) = Mark /\ Ends(t)
           \/ t = "main" /\ Todo(t) = LoadMark /\ Goes(t, LoadReset, Item(t))
  <1>1. \/ t \in {"worker", "refresh"} \cup User /\ Todo(t) = Mark
        \/ t = "main" /\ Todo(t) = LoadMark
    BY Where DEF markDeviceUnavailable
  <1>2. IF Len(Todo(t)) = 1 THEN Ends(t) ELSE Goes(t, Tail(Todo(t)), Item(t))
    BY DoneOrReturnGoes DEF markDeviceUnavailable, Control
  <1> QED BY <1>1, <1>2, HandleLists, LoadLists

LEMMA DiscoverMove ==
    ASSUME Control, NEW t \in Thread, discover(t)
    PROVE  /\ t \in User /\ Todo(t) = Discover
           /\ (~source.removed /\ Goes(t, EnableRegister, source)) \/ Goes(t, EnableRegister, Item(t))
  <1>1. t \in User /\ Todo(t) = Discover BY Where DEF discover
  <1>2. (~source.removed /\ Done(t, source)) \/ Done(t, Item(t)) BY DEF discover, Item
  <1>3. \A i : Done(t, i) => Goes(t, EnableRegister, i) BY <1>1, DoneGoes, ToggleLists DEF Control
  <1> QED BY <1>1, <1>2, <1>3

LEMMA TakeMove ==
    ASSUME Control, NEW t \in Thread, take(t)
    PROVE  /\ t = "main" /\ Todo(t) = Take
           /\ IF registry = None THEN Ends(t)
              ELSE Goes(t, LoadRegister, Offline([registry EXCEPT !.disabled = TRUE]))
  <1>1. t = "main" /\ Todo(t) = Take BY Where DEF take
  <1> DEFINE i == Offline([registry EXCEPT !.disabled = TRUE])
  <1>2. IF registry = None THEN Return(t) ELSE Done(t, i) BY DEF take
  <1>3. ASSUME registry # None PROVE Goes(t, LoadRegister, i)
    <2> HIDE DEF i
    <2> QED BY <1>1, <1>2, <1>3, DoneGoes, LoadLists DEF Control
  <1>4. ASSUME registry = None PROVE Ends(t) BY <1>2, <1>4 DEF Return, Ends
  <1> QED BY <1>1, <1>3, <1>4

\* The lists of a goroutine that has read the disabled flag or set it.
Past == {Accept, Register, Store, Mark, EnableReset, Discover, EnableRegister, Note,
         DisableReset, DisableRegister}

\* Goroutine t goes on with l, and those that have read the flag as clear are late.
Overtakes(t, l) ==
    /\ thread' \in [Thread -> Goroutine]
    /\ thread'[t] = [thread[t] EXCEPT !.todo = l]
    /\ \A u \in Thread \ {t} :
          /\ thread'[u].todo = Todo(u) /\ thread'[u].item = Item(u)
          /\ Todo(u) \in Past /\ ~Item(u).disabled => thread'[u].late

\* Which goroutines MarkLate looks at.
LEMMA CheckedLists ==
    ASSUME Control, NEW u \in Thread, Todo(u) \in Past, u # "main"
    PROVE  Todo(u) # <<>> /\ Head(Todo(u)) \in Checked(u)
  <1>1. CASE u \in {"worker", "refresh"}
    <2>1. Todo(u) \in Refreshing BY <1>1 DEF Control, Fits, Todo, Refreshing
    <2>2. RefreshSteps \notin Past BY HandleLists, Distinct, ToggleLists DEF Past
    <2>3. {<<>>, HandleSteps, Gate} \cap Past = {} BY HandleLists, ToggleLists, NotEmpty DEF Past
    <2>4. Todo(u) \in {Accept, Register, Store, Mark} BY <2>1, <2>2, <2>3 DEF Refreshing, Handling
    <2>5. {"accept", "register", "store", "mark"} \subseteq Checked(u) BY DEF Checked
    <2> QED BY <2>4, <2>5, HandleLists, NotEmpty
  <1>2. CASE u \in User
    <2>1. Checked(u) = {"accept", "register", "store", "mark"} \cup {"reset", "discover", "note"}
      BY <1>2 DEF Checked
    <2>2. CASE Todo(u) \in {Accept, Register, Store, Mark}
      BY <2>1, <2>2, HandleLists, NotEmpty
    <2>3. CASE Todo(u) \in {EnableReset, Discover, EnableRegister, Note}
      BY <2>1, <2>3, ToggleLists, NotEmpty
    <2>4. CASE Todo(u) \in {DisableReset, DisableRegister}
      BY <2>1, <2>4, ToggleLists, NotEmpty
    <2> QED BY <2>2, <2>3, <2>4 DEF Past
  <1> QED BY <1>1, <1>2 DEF Thread

LEMMA MarkLateMove ==
    ASSUME Control, NEW t \in User \cup {"main"}, Todo(t) # <<>>,
           Head(Todo(t)) \in {"flag", "load"}, Tail(Todo(t)) \in Seq(Step),
           thread' = MarkLate([thread EXCEPT ![t].todo = Tail(@)])
    PROVE  Overtakes(t, Tail(Todo(t)))
  <1> DEFINE l == Tail(Todo(t))
             next == [thread EXCEPT ![t].todo = l]
             Reads(u) == ~Ready(u) /\ Head(thread[u].todo) \in Checked(u) /\ ~thread[u].item.disabled
  <1>1. thread' = [u \in Thread |-> IF Reads(u) THEN [next[u] EXCEPT !.late = TRUE] ELSE next[u]]
    BY DEF MarkLate, Todo
  <1>2. \A u \in Thread : next[u] = IF u = t THEN [thread[t] EXCEPT !.todo = l] ELSE thread[u]
    BY DEF Control
  <1>3. ~Reads(t) BY DEF Todo, Checked
  <1> HIDE DEF l, next, Reads
  <1>4. \A u \in Thread : thread'[u] = IF Reads(u) THEN [next[u] EXCEPT !.late = TRUE] ELSE next[u]
    BY <1>1
  <1>5. t \in Thread /\ thread[t] \in Goroutine BY DEF Thread, Control
  <1>6. thread'[t] = [thread[t] EXCEPT !.todo = l] BY <1>2, <1>3, <1>4, <1>5
  <1>7. thread'[t] \in Goroutine BY <1>5, <1>6 DEF Goroutine, l
  <1>8. ASSUME NEW u \in Thread \ {t}, Todo(u) \in Past, ~Item(u).disabled
        PROVE  Reads(u)
    <2>1. u # "main"
      <3> SUFFICES ASSUME u = "main" PROVE FALSE
        OBVIOUS
      <3>1. t \in User BY <1>8
      <3>2. Todo("main") = <<>> BY <3>1 DEF Control
      <3>3. <<>> \notin Past BY NotEmpty DEF Past
      <3> QED BY <1>8, <3>2, <3>3
    <2>2. Todo(u) # <<>> /\ Head(Todo(u)) \in Checked(u) BY <1>8, <2>1, CheckedLists
    <2> QED BY <1>8, <2>2 DEF Reads, Ready, Todo, Item
  <1>9. ASSUME NEW u \in Thread \ {t}
        PROVE  /\ thread'[u] \in Goroutine
               /\ thread'[u].todo = Todo(u) /\ thread'[u].item = Item(u)
               /\ Reads(u) => thread'[u].late
    <2>1. thread[u] \in Goroutine BY DEF Control
    <2>2. CASE Reads(u)
      <3>1. thread'[u] = [thread[u] EXCEPT !.late = TRUE] BY <1>2, <1>4, <2>2
      <3> QED BY <2>1, <2>2, <3>1 DEF Goroutine, Todo, Item
    <2>3. CASE ~Reads(u)
      <3>1. thread'[u] = thread[u] BY <1>2, <1>4, <2>3
      <3> QED BY <2>1, <2>3, <3>1 DEF Todo, Item
    <2> QED BY <2>2, <2>3
  <1>10. thread' \in [Thread -> Goroutine] BY <1>1, <1>7, <1>9
  <1> QED BY <1>6, <1>8, <1>9, <1>10 DEF Overtakes, l

LEMMA FlagMove ==
    ASSUME Control, NEW t \in Thread, SetFlag(t)
    PROVE  /\ t \in User
           /\ \/ Todo(t) \in {EnableSteps, DisableSteps} /\ Ends(t) /\ UNCHANGED <<disabled, persisted, overtaken>>
              \/ /\ Todo(t) = EnableSteps /\ Goes(t, EnableReset, Item(t)) /\ ~Item(t).disabled
                 /\ disabled' = FALSE /\ persisted' = FALSE /\ overtaken' = FALSE
              \/ /\ Todo(t) = DisableSteps /\ Overtakes(t, DisableReset) /\ Hidden(Item(t))
                 /\ disabled' = TRUE /\ persisted' = TRUE /\ overtaken' = FALSE
  <1>1. t \in User /\ Todo(t) \in {EnableSteps, DisableSteps} /\ At(t, "flag") BY Where DEF SetFlag
  <1> DEFINE next == [thread EXCEPT ![t].todo = Tail(@)]
             off == Item(t).disabled
  <1>2. \/ Return(t) /\ UNCHANGED <<disabled, persisted, overtaken>>
        \/ /\ disabled' = off /\ persisted' = off /\ overtaken' = FALSE
           /\ thread' = IF off THEN MarkLate(next) ELSE next
    BY DEF SetFlag, flags, Item
  <1>3. CASE Return(t) /\ UNCHANGED <<disabled, persisted, overtaken>>
    BY <1>1, <1>3 DEF Return, Ends
  <1>4. CASE /\ disabled' = off /\ persisted' = off /\ overtaken' = FALSE
             /\ thread' = IF off THEN MarkLate(next) ELSE next
    <2>1. CASE Todo(t) = EnableSteps
      <3>1. ~off
        BY <1>1, <2>1, Distinct, ToggleLists, HandleLists, NotEmpty DEF Control, Fits, Todo, Item, Disabling
      <3>2. Item(t) \in Snapshot BY <1>1, <2>1, NotEmpty DEF Control, Fits, Todo, Item
      <3>3. off = FALSE BY <3>1, <3>2 DEF Snapshot
      <3>4. disabled' = FALSE /\ persisted' = FALSE BY <1>4, <3>3
      <3>5. thread' = [thread EXCEPT ![t].todo = EnableReset]
        BY <1>4, <2>1, <3>1, ToggleLists DEF Todo
      <3>6. thread' = [thread EXCEPT ![t] = [thread[t] EXCEPT !.todo = EnableReset]] BY <3>5
      <3>7. [thread[t] EXCEPT !.todo = EnableReset] = [todo |-> EnableReset, item |-> Item(t), late |-> thread[t].late]
        <4>1. PICK a \in Seq(Step), b \in Snapshot \cup {None}, c \in BOOLEAN :
                 thread[t] = [todo |-> a, item |-> b, late |-> c]
          BY DEF Goroutine, Control
        <4> QED BY <4>1 DEF Item
      <3> QED BY <1>1, <1>4, <2>1, <3>1, <3>4, <3>6, <3>7 DEF Goes
    <2>2. CASE Todo(t) = DisableSteps
      <3>1. Hidden(Item(t))
        BY <1>1, <2>2, Distinct, ToggleLists, HandleLists, NotEmpty DEF Control, Fits, Todo, Item, Enabling
      <3>2. Item(t) \in Snapshot BY <1>1, <2>2, NotEmpty DEF Control, Fits, Todo, Item
      <3>3. off = TRUE BY <3>1, <3>2 DEF Snapshot, Hidden
      <3>4. disabled' = TRUE /\ persisted' = TRUE BY <1>4, <3>3
      <3>5. thread' = MarkLate(next) BY <1>4, <3>3
      <3>6. DisableReset \in Seq(Step) BY ListsOfSteps DEF Disabling
      <3>7. Overtakes(t, DisableReset)
        BY <1>1, <2>2, <3>5, <3>6, MarkLateMove, ToggleLists, NotEmpty DEF Todo
      <3> QED BY <1>1, <1>4, <2>2, <3>1, <3>4, <3>7
    <2> QED BY <1>1, <2>1, <2>2
  <1> QED BY <1>2, <1>3, <1>4

LEMMA LoadMove ==
    ASSUME Control, NEW t \in Thread, load(t)
    PROVE  /\ t = "main" /\ Todo(t) = LoadSteps
           /\ IF persisted THEN Overtakes(t, Take) ELSE Ends(t)
  <1>1. t = "main" /\ Todo(t) = LoadSteps BY Where DEF load
  <1>2. ASSUME persisted PROVE Overtakes(t, Take)
    <2>1. thread' = MarkLate([thread EXCEPT ![t].todo = Tail(@)]) BY <1>2 DEF load
    <2>2. Take \in Seq(Step) BY ListsOfSteps DEF Loading
    <2> QED BY <1>1, <2>1, <2>2, MarkLateMove, LoadLists, NotEmpty DEF Todo
  <1>3. ASSUME ~persisted PROVE Ends(t) BY <1>3 DEF load, Return, Ends
  <1> QED BY <1>1, <1>2, <1>3

\* A goroutine that goes on while others become late.
LEMMA OvertakesKeeps ==
    ASSUME Control, NEW t \in User \cup {"main"}, Todo(t) # <<>>, NEW l, Overtakes(t, l),
           Fits(t, [thread[t] EXCEPT !.todo = l])
    PROVE  Control'
  <1>1. \A u \in Thread : Fits(u, thread'[u])
    <2> TAKE u \in Thread
    <2>1. CASE u = t BY <2>1 DEF Overtakes
    <2>2. CASE u # t
      <3>1. thread'[u] \in Goroutine /\ thread'[u].todo = Todo(u) /\ thread'[u].item = Item(u)
        BY <2>2 DEF Overtakes
      <3>2. Fits(u, thread[u]) BY DEF Control
      <3> QED BY <3>1, <3>2 DEF Fits, Todo, Item
    <2> QED BY <2>1, <2>2
  <1>2. \A u \in Thread \ {t} : Todo(u)' = Todo(u) BY DEF Overtakes, Todo
  <1>3. Todo("main")' # <<>> => \A u \in User \cup {"refresh"} : Todo(u)' = <<>>
    <2>1. "main" \notin User /\ User \cup {"refresh"} \subseteq Thread BY UserAssumption DEF Thread
    <2> QED BY <1>2, <2>1 DEF Control, Thread
  <1> QED BY <1>1, <1>3 DEF Control, Overtakes, Fits
-----------------------------------------------------------------------------
(* The values.                                                             *)

\* A value that the pipeline has written, not later than `at`.
Written(v, at) ==
    /\ v \in StateValue
    /\ v.provider = hub
    /\ v.quality \in {"reported", "stale", "unknown"}
    /\ v.observed <= at

\* What is true of every snapshot on its way: it is not from the future, and a device that
\* is removed or disabled is not online.
Sound(s, at) ==
    /\ s \in Snapshot
    /\ s.at <= at
    /\ s.removed => ~Online(s)
    /\ s.disabled => ~Online(s)

LEMMA SoundKept ==
    ASSUME NEW s, NEW a \in Int, NEW b \in Int, a <= b, Sound(s, a)
    PROVE  Sound(s, b)
  BY DEF Sound, Snapshot

\* Unversioned only clears the version.
LEMMA UnversionedFacts ==
    ASSUME NEW v \in StateValue
    PROVE  /\ Unversioned(v) \in StateValue
           /\ Unversioned(v).seq = v.seq /\ Unversioned(v).observed = v.observed
           /\ Unversioned(v).available = v.available /\ Unversioned(v).provider = v.provider
           /\ Unversioned(v).quality = v.quality /\ Unversioned(v).value = v.value
  <1>1. Unversioned(v) = [v EXCEPT !.version = 0] BY NoneAssumption DEF Unversioned
  <1> QED BY <1>1 DEF StateValue

\* A report as it is stored.
LEMMA ReportFacts ==
    ASSUME NEW u \in Value, NEW s \in Nat, NEW o \in Nat, NEW r \in Nat
    PROVE  LET n == normalize(Report(hub, u, "reported", s, o, r, 0))
           IN  /\ n \in StateValue /\ n.seq = s /\ n.observed = o /\ n.available
               /\ n.provider = hub /\ n.quality = "reported" /\ n.value = u
  <1> DEFINE p == Report(hub, u, "reported", s, o, r, 0)
             n == [p EXCEPT !.available = TRUE, !.reason = None]
  <1>1. /\ p \in StateValue /\ p.seq = s /\ p.observed = o
        /\ p.provider = hub /\ p.quality = "reported" /\ p.value = u
    BY HubAssumption DEF Report, StateValue, Quality
  <1> HIDE DEF p
  <1>2. normalize(p) = n BY <1>1, NoneAssumption DEF normalize, LiveQuality, Known
  <1>3. /\ n \in StateValue /\ n.seq = s /\ n.observed = o /\ n.available
        /\ n.provider = hub /\ n.quality = "reported" /\ n.value = u
    BY <1>1 DEF StateValue
  <1> HIDE DEF n
  <1>4. LET m == normalize(p)
        IN  /\ m \in StateValue /\ m.seq = s /\ m.observed = o /\ m.available
            /\ m.provider = hub /\ m.quality = "reported" /\ m.value = u
    BY <1>2, <1>3
  <1> QED BY <1>4 DEF p

\* The age of a snapshot is capped.
LEMMA SafeObserved ==
    ASSUME NEW s \in Snapshot, source.at \in Nat
    PROVE  /\ safeObservedAt(s) \in Nat
           /\ safeObservedAt(s) >= s.at
           /\ \A at \in Int : source.at <= at /\ s.at <= at => safeObservedAt(s) <= at
  BY BoundsAssumption DEF safeObservedAt, now, Snapshot

\* applySnapshot: of two numbered values the store keeps the newer one.
LEMMA ApplyFacts ==
    ASSUME NEW v, NEW at \in Nat, v = None \/ Written(v, at), NEW s \in Snapshot,
           source.at \in Nat, source.at <= at, s.at <= at
    PROVE  LET w == applySnapshot(v, s)
           IN  /\ Written(w, at)
               /\ v # None /\ v.seq >= 1 /\ s.seq >= 1 =>
                     /\ v.seq < s.seq => w.available /\ w.seq = s.seq /\ w.value = s.value
                     /\ v.seq >= s.seq => w.available = v.available /\ w.seq = v.seq /\ w.value = v.value
  <1> DEFINE o == safeObservedAt(s)
             r == Report(hub, s.value, "reported", s.seq, o, now, 0)
             n == normalize(r)
             pr == [p \in Provider |-> 0]
             w == Over(v, r)
  <1>1. o \in Nat /\ o >= s.at /\ o <= at BY SafeObserved
  <1>2. s.value \in Value /\ s.seq \in Nat /\ s.at \in Nat /\ now \in Nat BY DEF Snapshot, now
  <1>3. v # None => v \in StateValue /\ v.version \in Nat /\ v.seq \in Nat /\ v.observed \in Nat
    BY DEF Written, StateValue
  <1>4. /\ n \in StateValue /\ n.seq = s.seq /\ n.observed = o /\ n.available
        /\ n.provider = hub /\ n.quality = "reported" /\ n.value = s.value
    <2>1. o \in Nat BY <1>1
    <2> HIDE DEF o
    <2> DEFINE a == s.value
               b == s.seq
               c == now
    <2>2. a \in Value /\ b \in Nat /\ c \in Nat BY <1>2
    <2> HIDE DEF a, b, c
    <2>3. LET q == normalize(Report(hub, a, "reported", b, o, c, 0))
          IN  /\ q \in StateValue /\ q.seq = b /\ q.observed = o /\ q.available
              /\ q.provider = hub /\ q.quality = "reported" /\ q.value = a
      BY <2>1, <2>2, ReportFacts
    <2> QED BY <2>3 DEF a, b, c
  <1>5. /\ w \in StateValue /\ w.seq = s.seq /\ w.observed = o /\ w.available
        /\ w.provider = hub /\ w.quality = "reported" /\ w.value = s.value
    <2> DEFINE k == IF v = None THEN 1 ELSE v.version + 1
    <2>1. k \in Nat BY <1>3
    <2>2. w = [n EXCEPT !.version = k] BY DEF Over
    <2> HIDE DEF k, w, n
    <2> QED BY <1>4, <2>1, <2>2 DEF StateValue
  <1>6. ASSUME v # None, v.seq >= 1, s.seq >= 1 PROVE Accepts(v, n, pr) <=> v.seq < s.seq
    <2> HIDE DEF n, pr
    <2>1. ~ReportOverOptimistic(v, n) BY <1>6 DEF Written, ReportOverOptimistic
    <2>2. ~PriorityDecides(v, n, pr) BY <1>4, <1>6 DEF Written, PriorityDecides
    <2>3. SequenceDecides(v, n) BY <1>2, <1>3, <1>4, <1>6 DEF SequenceDecides, Written
    <2> QED BY <1>4, <2>1, <2>2, <2>3 DEF Accepts
  <1>7. applySnapshot(v, s) = Unversioned(Applied(v, r, pr)) BY DEF applySnapshot
  <1>8. Applied(v, r, pr) = IF v # None /\ ~Accepts(v, n, pr) THEN v ELSE w BY DEF Applied
  <1> HIDE DEF o, r, n, pr, w
  <1> DEFINE x == applySnapshot(v, s)
  <1>9. CASE ~(v # None /\ ~Accepts(v, n, pr))
    <2>1. x = Unversioned(w) BY <1>7, <1>8, <1>9
    <2>2. /\ Unversioned(w) \in StateValue
          /\ Unversioned(w).seq = w.seq /\ Unversioned(w).observed = w.observed
          /\ Unversioned(w).available = w.available /\ Unversioned(w).provider = w.provider
          /\ Unversioned(w).quality = w.quality /\ Unversioned(w).value = w.value
      BY <1>5, UnversionedFacts
    <2> HIDE DEF x
    <2>3. Written(x, at) BY <1>1, <1>5, <2>1, <2>2 DEF Written
    <2>4. x.available /\ x.seq = s.seq /\ x.value = s.value BY <1>5, <2>1, <2>2
    <2>5. v # None /\ v.seq >= 1 /\ s.seq >= 1 => v.seq < s.seq BY <1>6, <1>9
    <2>6. v # None /\ v.seq < s.seq => ~(v.seq >= s.seq) BY <1>2, <1>3
    <2> QED BY <2>3, <2>4, <2>5, <2>6 DEF x
  <1>10. CASE v # None /\ ~Accepts(v, n, pr)
    <2>1. x = Unversioned(v) BY <1>7, <1>8, <1>10
    <2>2. /\ Unversioned(v) \in StateValue
          /\ Unversioned(v).seq = v.seq /\ Unversioned(v).observed = v.observed
          /\ Unversioned(v).available = v.available /\ Unversioned(v).provider = v.provider
          /\ Unversioned(v).quality = v.quality /\ Unversioned(v).value = v.value
      BY <1>3, <1>10, UnversionedFacts
    <2> HIDE DEF x
    <2>3. Written(x, at) BY <1>10, <2>1, <2>2 DEF Written
    <2>4. x.available = v.available /\ x.seq = v.seq /\ x.value = v.value BY <2>1, <2>2
    <2>5. v.seq >= 1 /\ s.seq >= 1 => ~(v.seq < s.seq) BY <1>6, <1>10
    <2> QED BY <2>3, <2>4, <2>5 DEF x
  <1> QED BY <1>9, <1>10

\* markDeviceUnavailable leaves a value that is not available and keeps its sequence.
LEMMA MarkFacts ==
    ASSUME NEW at, NEW v, Written(v, at), NEW s
    PROVE  LET w == Unversioned(MadeUnavailable(v, unavailableReason(s)))
           IN  Written(w, at) /\ ~w.available /\ w.seq = v.seq /\ w.value = v.value
  <1> DEFINE reason == unavailableReason(s)
             m == MadeUnavailable(v, reason)
             q == IF Known(v) THEN "stale" ELSE "unknown"
             u == [v EXCEPT !.quality = q, !.available = FALSE,
                            !.reason = reason, !.pending = None, !.version = v.version + 1]
  <1>1. reason \in Reason BY DEF unavailableReason, Reason
  <1>2. v \in StateValue /\ v # None BY NoneAssumption DEF Written
  <1> HIDE DEF reason
  <1>3. (m = v /\ ~v.available) \/ m = u BY <1>2 DEF MadeUnavailable, Unavailable
  <1>4. CASE m = v /\ ~v.available
    BY <1>2, <1>4, UnversionedFacts DEF Written, reason
  <1>5. CASE m = u
    <2>1. /\ u \in StateValue /\ ~u.available /\ u.seq = v.seq /\ u.observed = v.observed
          /\ u.provider = v.provider /\ u.quality \in {"stale", "unknown"} /\ u.value = v.value
      <3>1. q \in {"stale", "unknown"} /\ v.version + 1 \in Nat BY <1>2 DEF StateValue
      <3> HIDE DEF q
      <3> QED BY <1>1, <1>2, <3>1 DEF StateValue, Quality
    <2> HIDE DEF u, m
    <2>2. /\ Unversioned(u) \in StateValue
          /\ Unversioned(u).seq = u.seq /\ Unversioned(u).observed = u.observed
          /\ Unversioned(u).available = u.available /\ Unversioned(u).provider = u.provider
          /\ Unversioned(u).quality = u.quality /\ Unversioned(u).value = u.value
      BY <2>1, UnversionedFacts
    <2>3. LET w == Unversioned(m)
          IN  Written(w, at) /\ ~w.available /\ w.seq = v.seq /\ w.value = v.value
      BY <1>5, <2>1, <2>2 DEF Written
    <2> QED BY <2>3 DEF m, reason
  <1> QED BY <1>3, <1>4, <1>5

\* A restored value keeps its age and is not available.
LEMMA RestoreFacts ==
    ASSUME NEW at, NEW v, Written(v, at)
    PROVE  LET w == Unversioned(Restored(v))
           IN  Written(w, at) /\ ~w.available /\ w.seq = v.seq /\ w.observed = v.observed
  <1> DEFINE k == IF v.version = 0 THEN 1 ELSE v.version
             u == [v EXCEPT !.quality = "stale", !.available = FALSE, !.reason = "stale",
                            !.pending = None, !.expires = 0, !.version = k]
  <1>1. v \in StateValue /\ v # None /\ v.version \in Nat BY NoneAssumption DEF Written, StateValue
  <1>2. k \in Nat BY <1>1
  <1>3. Restored(v) = normalize(u) BY <1>1 DEF Restored
  <1> HIDE DEF k
  <1>4. /\ u \in StateValue /\ u.seq = v.seq /\ u.observed = v.observed /\ u.provider = v.provider
        /\ u.quality = "stale" /\ u.reason = "stale"
    BY <1>1, <1>2 DEF StateValue, Quality, Reason
  <1> HIDE DEF u
  <1>5. normalize(u) = [u EXCEPT !.available = FALSE, !.reason = ReasonOr(u, "stale")]
    BY <1>4 DEF normalize, LiveQuality
  <1>6. ReasonOr(u, "stale") = "stale" BY <1>4 DEF ReasonOr
  <1> DEFINE n == [u EXCEPT !.available = FALSE, !.reason = "stale"]
  <1>7. /\ n \in StateValue /\ n.seq = u.seq /\ n.observed = u.observed /\ n.provider = u.provider
        /\ n.quality = u.quality /\ ~n.available
    BY <1>4 DEF StateValue, Reason
  <1>8. Restored(v) = n BY <1>3, <1>5, <1>6
  <1> HIDE DEF n
  <1>9. /\ Unversioned(n) \in StateValue
        /\ Unversioned(n).seq = n.seq /\ Unversioned(n).observed = n.observed
        /\ Unversioned(n).available = n.available /\ Unversioned(n).provider = n.provider
        /\ Unversioned(n).quality = n.quality
    BY <1>7, UnversionedFacts
  <1> QED BY <1>4, <1>7, <1>8, <1>9 DEF Written

\* ensureUnknownStates fills the place of a value that is missing.
LEMMA EnsureFacts ==
    ASSUME NEW v, NEW s, source.at \in Nat
    PROVE  /\ v # None => ensureUnknownStates(v, s) = v
           /\ v = None => /\ Written(ensureUnknownStates(v, s), source.at)
                          /\ ~ensureUnknownStates(v, s).available
                          /\ ensureUnknownStates(v, s).seq = 0
                          /\ ensureUnknownStates(v, s).observed = source.at
  <1>1. v # None => ensureUnknownStates(v, s) = v BY DEF ensureUnknownStates
  <1> DEFINE reason == unavailableReason(s)
             u == Unknown(hub, reason, now)
             n == [u EXCEPT !.available = FALSE, !.reason = ReasonOr(u, "never-reported")]
             w == [n EXCEPT !.version = 1]
  <1>2. reason \in Reason BY DEF unavailableReason, Reason
  <1>3. normalize(u) = n BY DEF normalize, Unknown, LiveQuality
  <1>4. Over(None, u) = w BY <1>3 DEF Over
  <1>5. v = None => ensureUnknownStates(v, s) = Unversioned(w) BY <1>4 DEF ensureUnknownStates
  <1> HIDE DEF reason
  <1>6. /\ u \in StateValue /\ u.provider = hub /\ u.quality = "unknown" /\ u.seq = 0
        /\ u.observed = source.at /\ u.reason = reason
    BY <1>2, HubAssumption DEF Unknown, StateValue, Quality, now
  <1> HIDE DEF u
  <1>7. ReasonOr(u, "never-reported") \in Reason
    BY <1>2, <1>6 DEF ReasonOr, Reason
  <1>8. /\ n \in StateValue /\ n.provider = hub /\ n.quality = "unknown" /\ n.seq = 0
        /\ n.observed = source.at /\ ~n.available
    BY <1>6, <1>7 DEF StateValue
  <1> HIDE DEF n
  <1>9. /\ w \in StateValue /\ w.provider = hub /\ w.quality = "unknown" /\ w.seq = 0
        /\ w.observed = source.at /\ ~w.available
    BY <1>8 DEF StateValue
  <1> HIDE DEF w
  <1> QED BY <1>1, <1>5, <1>9, UnversionedFacts DEF Written
-----------------------------------------------------------------------------
(* The types, the control and the values.                                  *)

LocalsSound == \A t \in Thread : Item(t) # None => Sound(Item(t), source.at)

\* The inductive invariant on which the others rest.
Base ==
    /\ TypeOK
    /\ Control
    /\ Sound(source, source.at) /\ ~source.disabled
    /\ \A i \in 1..Len(queue) : Sound(queue[i], source.at)
    /\ LocalsSound
    /\ registry # None => Sound(registry, source.at)
    /\ Written(state, source.at)
    /\ saved # None => Written(saved, source.at)

\* What a goroutine that has something to do carries.
LEMMA Carries ==
    ASSUME Base, NEW t \in Thread, (t # "main" /\ Todo(t) # <<>>) \/ Todo(t) \in {LoadRegister, LoadMark, LoadReset}
    PROVE  Item(t) \in Snapshot /\ Item(t) # None /\ Sound(Item(t), source.at)
  <1>1. Fits(t, thread[t]) BY DEF Base, Control
  <1>2. Item(t) \in Snapshot
    <2>1. CASE t # "main"
      <3>1. Todo(t) # <<>> BY <2>1, NotEmpty
      <3> QED BY <1>1, <2>1, <3>1 DEF Fits, Todo, Item
    <2>2. CASE t = "main" BY <1>1, <2>2 DEF Fits, Todo, Item
    <2> QED BY <2>1, <2>2
  <1> QED BY <1>2, SnapshotAssumption DEF Base, LocalsSound

\* A snapshot that is shown offline or as disabled is still sound.
LEMMA HideSound ==
    ASSUME NEW s, NEW at, Sound(s, at)
    PROVE  /\ Sound(Offline([s EXCEPT !.disabled = TRUE]), at)
           /\ Hidden(Offline([s EXCEPT !.disabled = TRUE]))
           /\ Offline([s EXCEPT !.disabled = TRUE]) \in Snapshot
           /\ Offline([s EXCEPT !.disabled = TRUE]).seq = s.seq
           /\ Offline([s EXCEPT !.disabled = TRUE]).value = s.value
           /\ Offline([s EXCEPT !.disabled = TRUE]).removed = s.removed
           /\ Sound([s EXCEPT !.disabled = FALSE], at)
           /\ ~[s EXCEPT !.disabled = FALSE].disabled
           /\ [s EXCEPT !.disabled = FALSE] \in Snapshot
           /\ [s EXCEPT !.disabled = FALSE].seq = s.seq
           /\ [s EXCEPT !.disabled = FALSE].value = s.value
  <1>1. s \in Snapshot BY DEF Sound
  <1> DEFINE d == [s EXCEPT !.disabled = TRUE]
             o == [d EXCEPT !.availability = "offline"]
             e == [s EXCEPT !.disabled = FALSE]
  <1>2. /\ d \in Snapshot /\ d.disabled /\ d.seq = s.seq /\ d.at = s.at /\ d.removed = s.removed
        /\ d.value = s.value
    BY <1>1 DEF Snapshot
  <1> HIDE DEF d
  <1>3. /\ o \in Snapshot /\ o.disabled /\ o.seq = s.seq /\ o.at = s.at /\ o.removed = s.removed
        /\ o.availability = "offline" /\ o.value = s.value
    BY <1>2 DEF Snapshot
  <1> HIDE DEF o
  <1>4. /\ e \in Snapshot /\ ~e.disabled /\ e.seq = s.seq /\ e.at = s.at /\ e.removed = s.removed
        /\ e.availability = s.availability /\ e.value = s.value
    BY <1>1 DEF Snapshot
  <1> HIDE DEF e
  <1>5. Sound(o, at) /\ Hidden(o) BY <1>3 DEF Sound, Hidden, Online
  <1>6. Sound(e, at) BY <1>4 DEF Sound, Online
  <1>7. Offline(d) = o BY DEF Offline, o
  <1> QED BY <1>3, <1>4, <1>5, <1>6, <1>7 DEF d, e

\* The items after a step of one goroutine, or after the handlers have become late.
LEMMA GoesSound ==
    ASSUME Base, NEW t \in Thread, NEW l, NEW i, Goes(t, l, i), i # None => Sound(i, source.at)
    PROVE  \A u \in Thread : thread'[u].item # None => Sound(thread'[u].item, source.at)
  BY DEF Base, LocalsSound, Goes, Item, Control

LEMMA EndsSound ==
    ASSUME Base, NEW t \in Thread, Ends(t)
    PROVE  \A u \in Thread : thread'[u].item # None => Sound(thread'[u].item, source.at)
  BY DEF Base, LocalsSound, Ends, Idle, Item, Control

LEMMA OvertakesSound ==
    ASSUME Base, NEW t \in Thread, NEW l, Overtakes(t, l)
    PROVE  \A u \in Thread : thread'[u].item # None => Sound(thread'[u].item, source.at)
  <1> TAKE u \in Thread
  <1>1. thread'[u].item = Item(u)
    <2>1. CASE u = t BY <2>1 DEF Overtakes, Item, Base, Control, Goroutine
    <2>2. CASE u # t BY <2>2 DEF Overtakes
    <2> QED BY <2>1, <2>2
  <1> QED BY <1>1 DEF Base, LocalsSound

\* Steps of goroutines leave the provider alone.
LEMMA StepBase ==
    ASSUME Base, Control',
           UNCHANGED <<source, cataloger, queue, lost, saved, count>>,
           \A u \in Thread : thread'[u].item # None => Sound(thread'[u].item, source.at),
           registry' # None => Sound(registry', source.at),
           Written(state', source.at),
           disabled' \in BOOLEAN, persisted' \in BOOLEAN, overtaken' \in BOOLEAN,
           snapshotSeq' \in Nat, top' \in Nat
    PROVE  Base'
  <1>1. TypeOK'
    <2>1. registry' \in Snapshot \cup {None} BY DEF Sound
    <2>2. state' \in StateValue BY DEF Written
    <2>3. thread' \in [Thread -> Goroutine] BY DEF Control
    <2> QED BY <2>1, <2>2, <2>3 DEF Base, TypeOK
  <1>2. LocalsSound' BY DEF LocalsSound, Item
  <1> QED BY <1>1, <1>2 DEF Base

\* The provider's own steps.
LEMMA EnqueueSound ==
    ASSUME NEW s, NEW at, queue \in Seq(Snapshot), Len(queue) <= Capacity, enqueueSnapshot(s),
           Sound(s, at), \A i \in 1..Len(queue) : Sound(queue[i], at)
    PROVE  /\ queue' \in Seq(Snapshot) /\ Len(queue') <= Capacity /\ lost' \in BOOLEAN
           /\ \A i \in 1..Len(queue') : Sound(queue'[i], at)
  <1>1. s \in Snapshot BY DEF Sound
  <1>2. lost' \in BOOLEAN /\ (lost' <=> Len(queue) >= Capacity)
    <2>1. lost' = (Len(queue) >= Capacity) BY DEF enqueueSnapshot
    <2>2. (Len(queue) >= Capacity) \in BOOLEAN OBVIOUS
    <2> QED BY <2>1, <2>2, Zenon
  <1>3. CASE lost' BY <1>2, <1>3 DEF enqueueSnapshot
  <1>4. CASE ~lost'
    <2>1. queue' = Append(queue, s) BY <1>4 DEF enqueueSnapshot
    <2>2. queue' \in Seq(Snapshot) /\ Len(queue') = Len(queue) + 1 BY <1>1, <2>1
    <2>3. \A i \in 1..Len(queue') : queue'[i] = IF i <= Len(queue) THEN queue[i] ELSE s BY <1>1, <2>1
    <2>4. Len(queue') <= Capacity BY <1>2, <1>4, <2>2, BoundsAssumption
    <2>5. \A i \in 1..Len(queue') : Sound(queue'[i], at) BY <2>2, <2>3
    <2> QED BY <1>2, <2>2, <2>4, <2>5
  <1> QED BY <1>3, <1>4

\* A snapshot sent under another sequence than the provider's own.
LEMMA SendBase ==
    ASSUME Base, NEW s \in Snapshot, NEW e \in Snapshot, source' = s, enqueueSnapshot(e), count' \in Count,
           s.at = source.at + 1, s.removed => ~Online(s), ~s.disabled, Sound(e, s.at),
           UNCHANGED <<cataloger, thread, disabled, persisted, snapshotSeq, registry, state, saved, overtaken, top>>
    PROVE  Base'
  <1>1. source.at \in Nat BY DEF Base, TypeOK, Snapshot
  <1>2. Sound(s, s.at) BY <1>1 DEF Sound
  <1>3. \A x : Sound(x, source.at) => Sound(x, s.at)
    <2>1. source.at \in Int /\ s.at \in Int /\ source.at <= s.at BY <1>1
    <2> QED BY <2>1, SoundKept
  <1>4. /\ queue' \in Seq(Snapshot) /\ Len(queue') <= Capacity /\ lost' \in BOOLEAN
        /\ \A i \in 1..Len(queue') : Sound(queue'[i], s.at)
    <2>1. queue \in Seq(Snapshot) /\ Len(queue) <= Capacity BY DEF Base, TypeOK
    <2>2. \A i \in 1..Len(queue) : Sound(queue[i], s.at) BY <1>3 DEF Base
    <2> QED BY <2>1, <2>2, EnqueueSound
  <1>5. TypeOK' BY <1>4 DEF Base, TypeOK
  <1>6. Control' BY DEF Base, Control, Todo
  <1>7. LocalsSound' BY <1>3 DEF Base, LocalsSound, Item
  <1>8. Written(state', source'.at) /\ (saved' # None => Written(saved', source'.at))
    <2>1. \A v : Written(v, source.at) => Written(v, s.at) BY <1>1 DEF Written, StateValue
    <2> QED BY <2>1 DEF Base
  <1> QED BY <1>2, <1>3, <1>4, <1>5, <1>6, <1>7, <1>8 DEF Base

LEMMA EmitBase ==
    ASSUME Base, NEW s \in Snapshot, Emit(s), count' \in Count,
           s.at = source.at + 1, s.removed => ~Online(s), ~s.disabled
    PROVE  Base'
  <1>1. Sound(s, s.at) BY DEF Sound, Snapshot
  <1> QED BY <1>1, SendBase DEF Emit, flags, views

\* The record of a goroutine that starts.
LEMMA StartMove ==
    ASSUME NEW t \in Thread, NEW l, NEW s, Start(t, l, s)
    PROVE  thread' = [thread EXCEPT ![t] = [todo |-> l, item |-> s, late |-> FALSE]]
  <1> DEFINE i == [Idle EXCEPT !.todo = l]
             j == [i EXCEPT !.item = s]
  <1>1. \A a, b, c : [[todo |-> a, item |-> b, late |-> c] EXCEPT !.todo = l] = [todo |-> l, item |-> b, late |-> c]
    OBVIOUS
  <1>2. \A a, b, c : [[todo |-> a, item |-> b, late |-> c] EXCEPT !.item = s] = [todo |-> a, item |-> s, late |-> c]
    OBVIOUS
  <1>3. i = [todo |-> l, item |-> None, late |-> FALSE] BY <1>1 DEF Idle
  <1>4. j = [[todo |-> l, item |-> None, late |-> FALSE] EXCEPT !.item = s] BY <1>3
  <1>5. j = [todo |-> l, item |-> s, late |-> FALSE] BY <1>2, <1>4
  <1>6. thread' = [thread EXCEPT ![t] = j] BY DEF Start
  <1> QED BY <1>5, <1>6

\* A goroutine that starts with a list and an item that fit it.
LEMMA StartBase ==
    ASSUME Base, NEW t \in Thread \ {"main"}, NEW l, NEW s, Start(t, l, s),
           Sound(s, source.at), Fits(t, [todo |-> l, item |-> s, late |-> FALSE]),
           t # "worker" => Ready("main"), count' \in Count, queue' \in Seq(Snapshot),
           Len(queue') <= Capacity, \A i \in 1..Len(queue') : Sound(queue'[i], source.at),
           UNCHANGED <<source, cataloger, lost, disabled, persisted, snapshotSeq, registry, state, saved, overtaken, top>>
    PROVE  Base'
  <1> DEFINE g == [todo |-> l, item |-> s, late |-> FALSE]
  <1>1. thread' = [thread EXCEPT ![t] = g] BY StartMove
  <1> HIDE DEF g
  <1>2. \A u \in Thread : thread'[u] = IF u = t THEN g ELSE thread[u] BY <1>1 DEF Base, Control
  <1>3. g \in Goroutine BY DEF Fits, g
  <1>4. thread' \in [Thread -> Goroutine] BY <1>1, <1>3 DEF Base, Control
  <1>5. Control'
    <2>1. \A u \in Thread : Fits(u, thread'[u]) BY <1>2 DEF Base, Control, g
    <2>2. Todo("main")' # <<>> => \A u \in User \cup {"refresh"} : Todo(u)' = <<>>
      BY <1>2, UserAssumption DEF Base, Control, Todo, Thread, Ready
    <2> QED BY <1>4, <2>1, <2>2 DEF Control, Fits
  <1>6. LocalsSound'
    <2>1. g.item = s BY DEF g
    <2> QED BY <1>2, <2>1 DEF Base, LocalsSound, Item
  <1>7. TypeOK' BY <1>4 DEF Base, TypeOK
  <1> QED BY <1>5, <1>6, <1>7 DEF Base

\* Counting stays within the bounds.
LEMMA CountTyped ==
    ASSUME count \in Count,
           \/ Counted("changes", MaxChanges) \/ Counted("resends", MaxResends) \/ Counted("adds", MaxAdds)
           \/ Counted("refreshes", MaxRefreshes) \/ Counted("toggles", MaxToggles) \/ Counted("boots", MaxBoots)
    PROVE  count' \in Count
  <1>1. CASE Counted("changes", MaxChanges) BY <1>1, BoundsAssumption DEF Counted, Count
  <1>2. CASE Counted("resends", MaxResends) BY <1>2, BoundsAssumption DEF Counted, Count
  <1>3. CASE Counted("adds", MaxAdds) BY <1>3, BoundsAssumption DEF Counted, Count
  <1>4. CASE Counted("refreshes", MaxRefreshes) BY <1>4, BoundsAssumption DEF Counted, Count
  <1>5. CASE Counted("toggles", MaxToggles) BY <1>5, BoundsAssumption DEF Counted, Count
  <1>6. CASE Counted("boots", MaxBoots) BY <1>6, BoundsAssumption DEF Counted, Count
  <1> QED BY <1>1, <1>2, <1>3, <1>4, <1>5, <1>6

LEMMA InitBase == Init => Base
  <1> SUFFICES ASSUME Init PROVE Base
    OBVIOUS
  <1>1. PICK v \in Value, first \in {0, 1} : source = FirstSnapshot(v, first) BY DEF Init
  <1>2. /\ source \in Snapshot /\ source.seq = first /\ source.at = 1 /\ source.value = v
        /\ ~source.disabled /\ ~source.removed
    BY <1>1 DEF FirstSnapshot, Snapshot
  <1> DEFINE n == normalize(Report(hub, source.value, "reported", source.seq, 1, 1, 0))
             w == [n EXCEPT !.version = 1]
  <1>3. /\ n \in StateValue /\ n.observed = 1 /\ n.available
        /\ n.provider = hub /\ n.quality = "reported"
    BY <1>2, ReportFacts
  <1>4. state = Unversioned(w) BY DEF Init, Over
  <1> HIDE DEF n
  <1>5. /\ w \in StateValue /\ w.observed = 1 /\ w.provider = hub /\ w.quality = "reported"
    BY <1>3 DEF StateValue
  <1> HIDE DEF w
  <1>6. Written(state, source.at)
    BY <1>2, <1>4, <1>5, UnversionedFacts DEF Written
  <1>7. Sound(source, source.at) BY <1>2 DEF Sound
  <1>8. \A t \in Thread : thread[t] = Idle BY DEF Init
  <1>9. Idle.todo = <<>> /\ Idle.item = None /\ Idle \in Goroutine BY DEF Idle, Goroutine
  <1>10. thread \in [Thread -> Goroutine] BY <1>9 DEF Init
  <1>11. Control BY <1>8, <1>9, <1>10, IdleFits DEF Control, Todo, Thread
  <1>12. count \in Count BY BoundsAssumption DEF Init, Count
  <1>13. queue \in Seq(Snapshot) /\ Len(queue) = 0 BY DEF Init
  <1>14. TypeOK
    <2>1. Len(queue) <= Capacity BY <1>13, BoundsAssumption
    <2>2. state \in StateValue BY <1>6 DEF Written
    <2>3. registry \in Snapshot /\ snapshotSeq \in Nat /\ top \in Nat BY <1>2 DEF Init
    <2>4. /\ cataloger \in BOOLEAN /\ lost \in BOOLEAN /\ overtaken \in BOOLEAN
          /\ disabled \in BOOLEAN /\ persisted \in BOOLEAN /\ saved = None
      BY DEF Init
    <2> QED BY <1>2, <1>10, <1>12, <1>13, <2>1, <2>2, <2>3, <2>4 DEF TypeOK
  <1>15. LocalsSound BY <1>8, <1>9 DEF LocalsSound, Item
  <1>16. registry = source /\ saved = None BY DEF Init
  <1> QED BY <1>2, <1>6, <1>7, <1>11, <1>13, <1>14, <1>15, <1>16 DEF Base

\* The provider's next sequence, and its first.
LEMMA NextSeqTyped ==
    ASSUME source \in Snapshot
    PROVE  NextSeq \in Nat /\ FirstSeq \in {0, 1}
  BY DEF NextSeq, FirstSeq, Snapshot

LEMMA ChangeBase ==
    ASSUME Base, NEW v \in Value, NEW availability \in Reported, Change(v, availability)
    PROVE  Base'
  <1> DEFINE n == NextSeq
             m == source.at + 1
             s == [source EXCEPT !.seq = n, !.at = m, !.value = v, !.availability = availability]
  <1>1. source \in Snapshot /\ ~source.removed /\ ~source.disabled BY DEF Base, TypeOK, Change
  <1>2. n \in Nat /\ m \in Nat BY <1>1, NextSeqTyped DEF Snapshot
  <1>3. Emit(s) BY DEF Change
  <1>4. count' \in Count BY CountTyped DEF Change, Base, TypeOK
  <1> HIDE DEF n, m
  <1>5. /\ s \in Snapshot /\ s.at = m /\ s.removed = source.removed
        /\ s.disabled = source.disabled
    <2>1. availability \in {"online", "offline", "unknown"} BY ReportedAssumption
    <2> QED BY <1>1, <1>2, <2>1 DEF Snapshot
  <1> HIDE DEF s
  <1> QED BY <1>1, <1>3, <1>4, <1>5, EmitBase DEF m

\* The provider's own snapshot and the one that is sent in its place.
LEMMA ResentSnapshot ==
    ASSUME Base, NEW v \in Value, NEW availability \in Reported, NEW n \in Nat, Resend(v, availability, n)
    PROVE  \E s \in Snapshot, e \in Snapshot :
              /\ source' = s /\ enqueueSnapshot(e) /\ s.at = source.at + 1 /\ s.seq = source.seq
              /\ ~s.removed /\ ~s.disabled /\ Sound(e, s.at) /\ ~e.removed /\ e.seq = n /\ e.value = v
  <1> DEFINE s == [source EXCEPT !.at = @ + 1, !.value = v, !.availability = availability]
             e == [s EXCEPT !.seq = n]
  <1>1. source' = s /\ enqueueSnapshot(e) BY DEF Resend
  <1>2. source \in Snapshot /\ ~source.removed /\ ~source.disabled BY DEF Base, TypeOK, Resend
  <1>3. /\ s \in Snapshot /\ s.at = source.at + 1 /\ s.seq = source.seq /\ ~s.removed /\ ~s.disabled
        /\ s.value = v
    <2> DEFINE m == source.at + 1
               q == [source EXCEPT !.at = m, !.value = v, !.availability = availability]
    <2>1. availability \in {"online", "offline", "unknown"} BY ReportedAssumption
    <2>2. m \in Nat BY <1>2 DEF Snapshot
    <2> HIDE DEF m
    <2>3. /\ q \in Snapshot /\ q.at = m /\ q.seq = source.seq /\ q.removed = source.removed
          /\ q.disabled = source.disabled /\ q.value = v
      BY <1>2, <2>1, <2>2 DEF Snapshot
    <2>4. q = s BY DEF m
    <2> HIDE DEF q, s
    <2> QED BY <1>2, <2>3, <2>4 DEF m
  <1> HIDE DEF s
  <1>4. /\ e \in Snapshot /\ e.at = s.at /\ e.removed = s.removed /\ e.disabled = s.disabled
        /\ e.seq = n /\ e.value = v
    BY <1>3 DEF Snapshot
  <1> HIDE DEF e
  <1>5. Sound(e, s.at) BY <1>3, <1>4 DEF Sound, Snapshot
  <1> QED BY <1>1, <1>3, <1>4, <1>5

LEMMA ResendBase ==
    ASSUME Base, NEW v \in Value, NEW availability \in Reported, NEW n \in Nat, Resend(v, availability, n)
    PROVE  Base'
  <1>1. PICK s \in Snapshot, e \in Snapshot :
            /\ source' = s /\ enqueueSnapshot(e) /\ s.at = source.at + 1 /\ s.seq = source.seq
            /\ ~s.removed /\ ~s.disabled /\ Sound(e, s.at) /\ e.seq = n /\ e.value = v
    BY ResentSnapshot
  <1>2. count' \in Count BY CountTyped DEF Resend, Base, TypeOK
  <1>3. UNCHANGED <<cataloger, thread, disabled, persisted, snapshotSeq, registry, state, saved, overtaken, top>>
    BY DEF Resend, flags, views
  <1> QED BY <1>1, <1>2, <1>3, SendBase

LEMMA RemoveBase ==
    ASSUME Base, Remove
    PROVE  Base'
  <1> DEFINE m == source.at + 1
             d == [source EXCEPT !.removed = TRUE, !.at = m]
             s == [d EXCEPT !.availability = "offline"]
  <1>1. source \in Snapshot /\ ~source.disabled BY DEF Base, TypeOK
  <1>2. /\ d \in Snapshot /\ d.at = source.at + 1 /\ d.seq = source.seq /\ ~d.disabled
    <2>1. m \in Nat BY <1>1 DEF Snapshot
    <2> HIDE DEF m
    <2>2. /\ d \in Snapshot /\ d.at = m /\ d.seq = source.seq /\ d.disabled = source.disabled
      BY <1>1, <2>1 DEF Snapshot
    <2> HIDE DEF d
    <2> QED BY <1>1, <2>2 DEF m
  <1>3. Emit(s) BY DEF Remove, Offline
  <1> HIDE DEF d
  <1>4. /\ s \in Snapshot /\ s.at = source.at + 1 /\ s.seq = source.seq /\ ~s.disabled
        /\ s.availability = "offline"
    BY <1>2 DEF Snapshot
  <1>5. count' \in Count BY CountTyped DEF Remove, Base, TypeOK
  <1> HIDE DEF s
  <1> QED BY <1>1, <1>3, <1>4, <1>5, EmitBase DEF Online

LEMMA AddBase ==
    ASSUME Base, NEW v \in Value, Add(v)
    PROVE  Base'
  <1> DEFINE f == FirstSnapshot(v, FirstSeq)
             s == [f EXCEPT !.at = source.at + 1]
  <1>1. f \in Snapshot /\ ~f.disabled /\ ~f.removed
    <2>1. FirstSeq \in Nat BY NextSeqTyped DEF Base, TypeOK
    <2> QED BY <2>1 DEF FirstSnapshot, Snapshot
  <1>2. Emit(s) /\ count' = count BY DEF Add
  <1>3. source.at \in Nat BY DEF Base, TypeOK, Snapshot
  <1> HIDE DEF f
  <1>4. /\ s \in Snapshot /\ s.at = source.at + 1 /\ ~s.disabled /\ ~s.removed
    BY <1>1, <1>3 DEF Snapshot
  <1>5. count' \in Count BY <1>2 DEF Base, TypeOK
  <1> HIDE DEF s
  <1> QED BY <1>2, <1>4, <1>5, EmitBase

LEMMA handleEventBase ==
    ASSUME Base, handleEvent
    PROVE  Base'
  <1> DEFINE s == Head(queue)
             g == [todo |-> HandleSteps, item |-> s, late |-> FALSE]
  <1>1. queue \in Seq(Snapshot) /\ queue # <<>> /\ Len(queue) <= Capacity /\ queue' = Tail(queue)
    BY DEF Base, TypeOK, handleEvent
  <1>2. s = queue[1] /\ 1 \in 1..Len(queue) /\ s \in Snapshot BY <1>1
  <1>3. Sound(s, source.at) BY <1>2 DEF Base
  <1>4. /\ queue' \in Seq(Snapshot) /\ Len(queue') = Len(queue) - 1
        /\ \A i \in 1..Len(queue') : queue'[i] = queue[i + 1] /\ i + 1 \in 1..Len(queue)
    BY <1>1
  <1>5. Len(queue') <= Capacity BY <1>1, <1>4, BoundsAssumption
  <1>6. \A i \in 1..Len(queue') : Sound(queue'[i], source.at) BY <1>4 DEF Base
  <1>7. Fits("worker", g)
    <2>1. HandleSteps \in Handling /\ HandleSteps \in Seq(Step) BY ListsOfSteps DEF Handling, Refreshing
    <2> QED BY <1>2, <2>1, UserAssumption DEF Fits, Goroutine
  <1>8. Start("worker", HandleSteps, s) BY DEF handleEvent
  <1>9. UNCHANGED <<source, cataloger, lost, disabled, persisted, snapshotSeq, registry, state, saved, overtaken, top>>
        /\ count' = count
    BY DEF handleEvent, flags, views
  <1>10. count' \in Count /\ "worker" \in Thread \ {"main"} BY <1>9 DEF Base, TypeOK, Thread
  <1> HIDE DEF s
  <1> QED BY <1>3, <1>4, <1>5, <1>6, <1>7, <1>8, <1>9, <1>10, StartBase

LEMMA RefreshBase ==
    ASSUME Base, RefreshDevices
    PROVE  Base'
  <1> DEFINE g == [todo |-> RefreshSteps, item |-> source, late |-> FALSE]
  <1>1. Fits("refresh", g)
    <2>1. RefreshSteps \in Refreshing /\ RefreshSteps \in Seq(Step) BY ListsOfSteps DEF Refreshing
    <2> QED BY <2>1, UserAssumption DEF Fits, Goroutine, Base, TypeOK
  <1>2. UNCHANGED <<source, cataloger, queue, lost, disabled, persisted, snapshotSeq, registry, state, saved, overtaken, top>>
        /\ Start("refresh", RefreshSteps, source) /\ Ready("main")
    BY DEF RefreshDevices, provider, flags, views
  <1>3. count' \in Count BY CountTyped DEF RefreshDevices, Base, TypeOK
  <1>4. "refresh" \in Thread \ {"main"} BY DEF Thread
  <1>5. /\ queue' \in Seq(Snapshot) /\ Len(queue') <= Capacity
        /\ \A i \in 1..Len(queue') : Sound(queue'[i], source.at)
        /\ Sound(source, source.at)
    BY <1>2 DEF Base, TypeOK
  <1> QED BY <1>1, <1>2, <1>3, <1>4, <1>5, StartBase

\* The list and the snapshot a request starts with.
LEMMA ToggleMove ==
    ASSUME Base, NEW u \in User, NEW enabled \in BOOLEAN, SetDeviceEnabled(u, enabled)
    PROVE  \E l, s :
              /\ Start(u, l, s) /\ Sound(s, source.at) /\ s.seq = registry.seq /\ s.value = registry.value
              /\ \/ l = EnableSteps /\ ~s.disabled
                 \/ l = DisableSteps /\ Hidden(s)
  <1> DEFINE e == [registry EXCEPT !.disabled = FALSE]
             d == Offline([registry EXCEPT !.disabled = TRUE])
  <1>1. Start(u, IF enabled THEN EnableSteps ELSE DisableSteps, IF enabled THEN e ELSE d)
    BY DEF SetDeviceEnabled
  <1>2. Sound(registry, source.at) BY DEF Base, SetDeviceEnabled
  <1>3. /\ Sound(e, source.at) /\ ~e.disabled /\ e.seq = registry.seq /\ e.value = registry.value
        /\ Sound(d, source.at) /\ Hidden(d) /\ d.seq = registry.seq /\ d.value = registry.value
    BY <1>2, HideSound
  <1> HIDE DEF e, d
  <1>4. CASE enabled
    <2>1. Start(u, EnableSteps, e) BY <1>1, <1>4
    <2> QED BY <1>3, <2>1
  <1>5. CASE ~enabled
    <2>1. Start(u, DisableSteps, d) BY <1>1, <1>5
    <2> QED BY <1>3, <2>1
  <1> QED BY <1>4, <1>5

LEMMA ToggleBase ==
    ASSUME Base, NEW u \in User, NEW enabled \in BOOLEAN, SetDeviceEnabled(u, enabled)
    PROVE  Base'
  <1>1. PICK l, s : /\ Start(u, l, s) /\ Sound(s, source.at)
                    /\ \/ l = EnableSteps /\ ~s.disabled
                       \/ l = DisableSteps /\ Hidden(s)
    BY ToggleMove
  <1>2. s \in Snapshot BY <1>1 DEF Sound
  <1>3. Fits(u, [todo |-> l, item |-> s, late |-> FALSE])
    <2>1. EnableSteps \in Enabling /\ DisableSteps \in Disabling /\ l \in Seq(Step)
      BY <1>1, ListsOfSteps DEF Enabling, Disabling
    <2> QED BY <1>1, <1>2, <2>1, UserAssumption DEF Fits, Goroutine
  <1>4. UNCHANGED <<source, cataloger, queue, lost, disabled, persisted, snapshotSeq, registry, state, saved, overtaken, top>>
        /\ Ready("main")
    BY DEF SetDeviceEnabled, provider, flags, views
  <1>5. count' \in Count BY CountTyped DEF SetDeviceEnabled, Base, TypeOK
  <1>6. u \in Thread \ {"main"} BY UserAssumption DEF Thread
  <1>7. /\ queue' \in Seq(Snapshot) /\ Len(queue') <= Capacity
        /\ \A i \in 1..Len(queue') : Sound(queue'[i], source.at)
    BY <1>4 DEF Base, TypeOK
  <1> QED BY <1>1, <1>3, <1>4, <1>5, <1>6, <1>7, StartBase

LEMMA SaveBase ==
    ASSUME Base, saveStateCheckpoint
    PROVE  Base'
  <1>1. UNCHANGED <<source, cataloger, queue, lost, thread, disabled, persisted, snapshotSeq, registry, state, count, overtaken, top>>
        /\ saved' = state
    BY DEF saveStateCheckpoint, provider, flags, views
  <1>2. TypeOK' BY <1>1 DEF Base, TypeOK
  <1>3. Control' /\ LocalsSound' BY <1>1 DEF Base, Control, Todo, LocalsSound, Item
  <1> QED BY <1>1, <1>2, <1>3 DEF Base

\* The state after a restart.
LEMMA RestartFacts ==
    ASSUME Base, Restart
    PROVE  /\ source' \in Snapshot /\ source'.at = source.at + 1
           /\ ~source'.removed /\ ~source'.disabled
           /\ queue' = <<>> /\ lost' = FALSE
           /\ thread' \in [Thread -> Goroutine]
           /\ \A t \in Thread : /\ thread'[t].item = None /\ ~thread'[t].late
                                /\ thread'[t].todo = IF t = "main" THEN LoadSteps ELSE <<>>
           /\ registry' = source' /\ Written(state', source'.at)
           /\ ~Online(source') => ~state'.available
           /\ disabled' = FALSE /\ overtaken' = FALSE /\ snapshotSeq' \in Nat /\ top' \in Nat
           /\ UNCHANGED <<cataloger, persisted, saved>>
  <1> DEFINE m == source.at + 1
             f == FirstSeq
             s == [source EXCEPT !.seq = f, !.at = m]
             r == Unversioned(Restored(saved))
  <1>1. source \in Snapshot /\ ~source.removed /\ ~source.disabled /\ source.at \in Nat
    BY DEF Base, TypeOK, Snapshot, Restart
  <1>2. source' = s BY DEF Restart
  <1>3. /\ s \in Snapshot /\ s.at = m /\ ~s.removed /\ ~s.disabled
    <2>1. m \in Nat /\ f \in Nat BY <1>1, NextSeqTyped
    <2> HIDE DEF m, f
    <2>2. /\ s \in Snapshot /\ s.at = m /\ s.removed = source.removed
          /\ s.disabled = source.disabled
      BY <1>1, <2>1 DEF Snapshot
    <2> HIDE DEF s
    <2> QED BY <1>1, <2>2
  <1>4. \A t \in Thread : thread'[t] = IF t = "main" THEN [Idle EXCEPT !.todo = LoadSteps] ELSE Idle
    BY DEF Restart
  <1>5. /\ [Idle EXCEPT !.todo = LoadSteps].todo = LoadSteps /\ [Idle EXCEPT !.todo = LoadSteps].item = None
        /\ ~[Idle EXCEPT !.todo = LoadSteps].late /\ [Idle EXCEPT !.todo = LoadSteps] \in Goroutine
        /\ Idle.todo = <<>> /\ Idle.item = None /\ ~Idle.late /\ Idle \in Goroutine
    <2>1. LoadSteps \in Seq(Step) BY ListsOfSteps DEF Loading
    <2>2. Idle.todo = <<>> /\ Idle.item = None /\ ~Idle.late /\ Idle \in Goroutine BY DEF Idle, Goroutine
    <2> HIDE DEF Idle
    <2> QED BY <2>1, <2>2 DEF Goroutine
  <1>6. thread' \in [Thread -> Goroutine]
    <2> DEFINE g == [t \in Thread |-> IF t = "main" THEN [Idle EXCEPT !.todo = LoadSteps] ELSE Idle]
    <2>1. g \in [Thread -> Goroutine] BY <1>5
    <2> QED BY <2>1 DEF Restart
  <1>7. r = None \/ (Written(r, source.at) /\ ~r.available)
    <2>1. CASE saved = None BY <2>1 DEF Restored, Unversioned
    <2>2. CASE saved # None BY <2>2, RestoreFacts DEF Base
    <2> QED BY <2>1, <2>2
  <1>8. r # None => Written(r, m)
    <2>1. r # None => Written(r, source.at) BY <1>7
    <2> HIDE DEF r
    <2> QED BY <1>1, <2>1 DEF Written, StateValue
  <1>9. Construct(source', r) BY DEF Restart
  <1>10. /\ registry' = s
         /\ snapshotSeq' = IF Online(s) THEN s.seq ELSE 0
         /\ top' = snapshotSeq'
         /\ state' = IF Online(s) THEN applySnapshot(r, s) ELSE ensureUnknownStates(r, s)
    <2> HIDE DEF s, r
    <2> QED BY <1>2, <1>9 DEF Construct
  <1> HIDE DEF s, r, m, f
  <1>11. m \in Nat /\ m = source.at + 1 BY <1>1 DEF m
  <1>12. ASSUME Online(s) PROVE Written(state', m)
    <2>1. r = None \/ Written(r, m) BY <1>8
    <2>2. source.at <= m /\ s.at <= m BY <1>1, <1>3, <1>11
    <2>3. Written(applySnapshot(r, s), m) BY <1>1, <1>3, <1>11, <2>1, <2>2, ApplyFacts
    <2> QED BY <1>10, <1>12, <2>3
  <1>13. ASSUME ~Online(s) PROVE Written(state', m) /\ ~state'.available
    <2>1. state' = ensureUnknownStates(r, s) BY <1>10, <1>13
    <2>2. CASE r # None
      <3>1. state' = r BY <1>1, <2>1, <2>2, EnsureFacts
      <3> QED BY <1>7, <1>8, <2>2, <3>1
    <2>3. CASE r = None
      <3>1. Written(state', source.at) /\ ~state'.available BY <1>1, <2>1, <2>3, EnsureFacts
      <3> QED BY <1>1, <1>11, <3>1 DEF Written, StateValue
    <2> QED BY <2>2, <2>3
  <1>14. snapshotSeq' \in Nat /\ top' \in Nat BY <1>3, <1>10 DEF Snapshot
  <1>15. \A t \in Thread : /\ thread'[t].item = None /\ ~thread'[t].late
                           /\ thread'[t].todo = IF t = "main" THEN LoadSteps ELSE <<>>
    BY <1>4, <1>5
  <1>16. /\ queue' = <<>> /\ lost' = FALSE /\ disabled' = FALSE /\ overtaken' = FALSE
         /\ UNCHANGED <<cataloger, persisted, saved>>
    BY DEF Restart
  <1>17. Written(state', source'.at) BY <1>2, <1>3, <1>12, <1>13
  <1> QED BY <1>2, <1>3, <1>6, <1>10, <1>11, <1>12, <1>13, <1>14, <1>15, <1>16, <1>17

LEMMA RestartBase ==
    ASSUME Base, Restart
    PROVE  Base'
  <1>1. /\ source' \in Snapshot /\ source'.at = source.at + 1
        /\ ~source'.removed /\ ~source'.disabled
        /\ queue' = <<>> /\ lost' = FALSE
        /\ thread' \in [Thread -> Goroutine]
        /\ \A t \in Thread : /\ thread'[t].item = None /\ ~thread'[t].late
                             /\ thread'[t].todo = IF t = "main" THEN LoadSteps ELSE <<>>
        /\ registry' = source' /\ Written(state', source'.at)
        /\ disabled' = FALSE /\ overtaken' = FALSE /\ snapshotSeq' \in Nat /\ top' \in Nat
        /\ UNCHANGED <<cataloger, persisted, saved>>
    BY RestartFacts
  <1>2. source.at \in Nat /\ source'.at \in Nat BY <1>1 DEF Base, TypeOK, Snapshot
  <1>3. Sound(source', source'.at) BY <1>1, <1>2 DEF Sound
  <1>4. count' \in Count BY CountTyped DEF Restart, Base, TypeOK
  <1>5. saved' # None => Written(saved', source'.at)
    <2>1. saved # None => Written(saved, source.at) BY DEF Base
    <2> QED BY <1>1, <1>2, <2>1 DEF Written, StateValue
  <1>6. Control'
    <2>1. ASSUME NEW t \in Thread PROVE Fits(t, thread'[t])
      <3>1. CASE t = "main"
        <4>1. LoadSteps \in Loading /\ LoadSteps \notin {LoadRegister, LoadMark, LoadReset}
          BY LoadLists DEF Loading
        <4> QED BY <1>1, <3>1, <4>1, UserAssumption DEF Fits
      <3>2. CASE t # "main"
        <4>1. <<>> \in Handling /\ <<>> \in Refreshing /\ <<>> \in Enabling
          BY DEF Handling, Refreshing, Enabling
        <4> QED BY <1>1, <3>2, <4>1 DEF Fits
      <3> QED BY <3>1, <3>2
    <2> QED BY <1>1, <2>1, UserAssumption DEF Control, Todo, Thread
  <1>7. LocalsSound' BY <1>1 DEF LocalsSound, Item
  <1>8. queue' \in Seq(Snapshot) /\ Len(queue') = 0 BY <1>1
  <1>9. TypeOK'
    <2>1. Len(queue') <= Capacity BY <1>8, BoundsAssumption
    <2>2. state' \in StateValue BY <1>1 DEF Written
    <2>3. lost' \in BOOLEAN /\ disabled' \in BOOLEAN /\ overtaken' \in BOOLEAN BY <1>1
    <2> QED BY <1>1, <1>4, <1>8, <2>1, <2>2, <2>3 DEF Base, TypeOK
  <1> QED BY <1>1, <1>3, <1>5, <1>6, <1>7, <1>8, <1>9 DEF Base

\* The records with which goroutines go on fit them.
LEMMA FitsOn ==
    ASSUME Control, NEW i \in Snapshot, NEW l
    PROVE  /\ \A t \in {"worker", "refresh"} :
                 l \in Handling => Fits(t, [todo |-> l, item |-> i, late |-> thread[t].late])
           /\ \A t \in User :
                 (l \in Enabling /\ ~i.disabled) \/ (l \in Disabling /\ Hidden(i)) =>
                     Fits(t, [todo |-> l, item |-> i, late |-> thread[t].late])
           /\ l \in {LoadRegister, LoadMark, LoadReset} /\ Hidden(i) =>
                 Fits("main", [todo |-> l, item |-> i, late |-> thread["main"].late])
  <1>1. \A t \in Thread : thread[t] \in Goroutine BY DEF Control
  <1>2. ASSUME NEW t \in {"worker", "refresh"}, l \in Handling
        PROVE  Fits(t, [todo |-> l, item |-> i, late |-> thread[t].late])
    <2>1. l \in Seq(Step) /\ l \in Refreshing BY <1>2, ListsOfSteps DEF Refreshing
    <2>2. thread[t].late \in BOOLEAN BY <1>1 DEF Thread, Goroutine
    <2>3. t \notin User BY UserAssumption
    <2> QED BY <1>2, <2>1, <2>2, <2>3 DEF Fits, Goroutine
  <1>3. ASSUME NEW t \in User, (l \in Enabling /\ ~i.disabled) \/ (l \in Disabling /\ Hidden(i))
        PROVE  Fits(t, [todo |-> l, item |-> i, late |-> thread[t].late])
    <2>1. l \in Seq(Step) BY <1>3, ListsOfSteps
    <2>2. thread[t].late \in BOOLEAN BY <1>1 DEF Thread, Goroutine
    <2>3. t \notin {"worker", "refresh", "main"} BY UserAssumption
    <2> QED BY <1>3, <2>1, <2>2, <2>3 DEF Fits, Goroutine
  <1>4. ASSUME l \in {LoadRegister, LoadMark, LoadReset} /\ Hidden(i)
        PROVE  Fits("main", [todo |-> l, item |-> i, late |-> thread["main"].late])
    <2>1. l \in Loading BY <1>4 DEF Loading
    <2>2. l \in Seq(Step) BY <2>1, ListsOfSteps
    <2>3. thread["main"].late \in BOOLEAN BY <1>1 DEF Thread, Goroutine
    <2>4. "main" \notin User BY UserAssumption
    <2> QED BY <1>4, <2>1, <2>2, <2>3, <2>4 DEF Fits, Goroutine
  <1>5. \A t \in {"worker", "refresh"} :
           l \in Handling => Fits(t, [todo |-> l, item |-> i, late |-> thread[t].late])
    BY <1>2
  <1>6. \A t \in User :
           (l \in Enabling /\ ~i.disabled) \/ (l \in Disabling /\ Hidden(i)) =>
               Fits(t, [todo |-> l, item |-> i, late |-> thread[t].late])
    BY <1>3
  <1> QED BY <1>4, <1>5, <1>6

\* What a request and the loading of preferences carry.
LEMMA UserCarries ==
    ASSUME Control
    PROVE  /\ \A u \in User :
                 /\ Todo(u) \in {EnableSteps, EnableReset, Discover, EnableRegister, Note, Store} =>
                        ~Item(u).disabled
                 /\ Todo(u) \in {DisableSteps, DisableReset, DisableRegister} => Hidden(Item(u))
           /\ Todo("main") \in {LoadRegister, LoadMark, LoadReset} => Hidden(Item("main"))
  <1>1. {EnableSteps, EnableReset, Discover, EnableRegister, Note, Store} \cap Disabling = {}
    BY Distinct, ToggleLists, HandleLists DEF Disabling
  <1>2. {DisableSteps, DisableReset, DisableRegister} \cap Enabling = {}
    BY Distinct, ToggleLists, HandleLists, NotEmpty DEF Enabling
  <1>3. ASSUME NEW u \in User
        PROVE  /\ Todo(u) \in {EnableSteps, EnableReset, Discover, EnableRegister, Note, Store} =>
                      ~Item(u).disabled
               /\ Todo(u) \in {DisableSteps, DisableReset, DisableRegister} => Hidden(Item(u))
    <2>1. Fits(u, thread[u]) BY DEF Control, Thread
    <2> QED BY <1>1, <1>2, <2>1, NotEmpty DEF Fits, Todo, Item
  <1>4. Fits("main", thread["main"]) BY DEF Control, Thread
  <1>5. Todo("main") \in {LoadRegister, LoadMark, LoadReset} => Hidden(Item("main"))
    BY <1>4 DEF Fits, Todo, Item
  <1> QED BY <1>3, <1>5

\* A step that goes on, one that ends, and one that makes others late.
LEMMA GoesBase ==
    ASSUME Base, NEW t \in Thread, Todo(t) # <<>>, NEW l, NEW i, Goes(t, l, i),
           i # None => Sound(i, source.at),
           Fits(t, [todo |-> l, item |-> i, late |-> thread[t].late]),
           UNCHANGED <<source, cataloger, queue, lost, saved, count>>,
           registry' # None => Sound(registry', source.at),
           Written(state', source.at),
           disabled' \in BOOLEAN, persisted' \in BOOLEAN, overtaken' \in BOOLEAN,
           snapshotSeq' \in Nat, top' \in Nat
    PROVE  Base'
  <1>1. Control' BY GoesKeeps DEF Base
  <1>2. \A u \in Thread : thread'[u].item # None => Sound(thread'[u].item, source.at) BY GoesSound
  <1> QED BY <1>1, <1>2, StepBase

LEMMA EndsBase ==
    ASSUME Base, NEW t \in Thread, Todo(t) # <<>>, Ends(t),
           UNCHANGED <<source, cataloger, queue, lost, saved, count>>,
           registry' # None => Sound(registry', source.at),
           Written(state', source.at),
           disabled' \in BOOLEAN, persisted' \in BOOLEAN, overtaken' \in BOOLEAN,
           snapshotSeq' \in Nat, top' \in Nat
    PROVE  Base'
  <1>1. Control' BY EndsKeeps DEF Base
  <1>2. \A u \in Thread : thread'[u].item # None => Sound(thread'[u].item, source.at) BY EndsSound
  <1> QED BY <1>1, <1>2, StepBase

LEMMA OvertakesBase ==
    ASSUME Base, NEW t \in User \cup {"main"}, Todo(t) # <<>>, NEW l, Overtakes(t, l),
           Fits(t, [thread[t] EXCEPT !.todo = l]),
           UNCHANGED <<source, cataloger, queue, lost, saved, count, registry, state, snapshotSeq, top>>,
           disabled' \in BOOLEAN, persisted' \in BOOLEAN, overtaken' \in BOOLEAN
    PROVE  Base'
  <1>1. Control' BY OvertakesKeeps DEF Base
  <1>2. t \in Thread BY DEF Thread
  <1>3. \A u \in Thread : thread'[u].item # None => Sound(thread'[u].item, source.at) BY <1>2, OvertakesSound
  <1>4. snapshotSeq' \in Nat /\ top' \in Nat BY DEF Base, TypeOK
  <1>5. Written(state', source.at) /\ (registry' # None => Sound(registry', source.at))
    BY DEF Base
  <1> QED BY <1>1, <1>3, <1>4, <1>5, StepBase

\* What the steps leave alone in common.
LEMMA ProceedFrame ==
    ASSUME NEW t \in Thread, Proceed(t)
    PROVE  UNCHANGED <<source, cataloger, queue, lost, saved, count>>
  BY DEF Proceed, projectLatestSnapshot, isDeviceDisabled, acceptSnapshotSequence, noteSnapshotSequence,
         resetSnapshotSequence, register, store, markDeviceUnavailable, SetFlag, discover, load, take, provider

LEMMA BaseFacts ==
    ASSUME Base
    PROVE  /\ source.at \in Nat /\ snapshotSeq \in Nat /\ top \in Nat
           /\ disabled \in BOOLEAN /\ persisted \in BOOLEAN /\ overtaken \in BOOLEAN
           /\ state \in StateValue /\ state # None /\ state.seq \in Nat /\ state.observed \in Nat
           /\ \A t \in Thread : thread[t].late \in BOOLEAN /\ thread[t] \in Goroutine
           /\ Control
  BY NoneAssumption DEF Base, TypeOK, Snapshot, Written, StateValue, Control, Goroutine

\* The state after it is marked unavailable, and after a snapshot is stored.
LEMMA MarkState ==
    ASSUME Base, NEW t \in Thread, markDeviceUnavailable(t)
    PROVE  /\ Written(state', source.at) /\ ~state'.available
           /\ state'.seq = state.seq /\ state'.value = state.value
  <1>1. state' = Unversioned(MadeUnavailable(state, unavailableReason(thread[t].item)))
    BY DEF markDeviceUnavailable
  <1>2. Written(state, source.at) BY DEF Base
  <1> QED BY <1>1, <1>2, MarkFacts

LEMMA StoreState ==
    ASSUME Base, NEW t \in Thread, store(t)
    PROVE  /\ Written(state', source.at)
           /\ Online(Item(t)) /\ state.seq >= 1 /\ Item(t).seq >= 1 =>
                 /\ state.seq < Item(t).seq =>
                       state'.available /\ state'.seq = Item(t).seq /\ state'.value = Item(t).value
                 /\ state.seq >= Item(t).seq =>
                       /\ state'.available = state.available
                       /\ state'.seq = state.seq /\ state'.value = state.value
           /\ ~Online(Item(t)) => state' = state
  <1>1. /\ t \in {"worker", "refresh"} \cup User /\ Todo(t) = Store
        /\ state' = IF Online(Item(t)) THEN applySnapshot(state, Item(t)) ELSE ensureUnknownStates(state, Item(t))
    BY StoreMove DEF Base
  <1>2. Sound(Item(t), source.at) /\ Item(t) \in Snapshot BY <1>1, Carries, NotEmpty, UserAssumption
  <1>3. Written(state, source.at) BY DEF Base
  <1>4. CASE Online(Item(t))
    <2> DEFINE s == Item(t)
               w == applySnapshot(state, s)
    <2>1. s \in Snapshot /\ s.at <= source.at BY <1>2 DEF Sound
    <2>2. source.at \in Nat /\ source.at <= source.at /\ state # None BY BaseFacts
    <2> HIDE DEF s
    <2>3. /\ Written(w, source.at)
          /\ state.seq >= 1 /\ s.seq >= 1 =>
                /\ state.seq < s.seq => w.available /\ w.seq = s.seq /\ w.value = s.value
                /\ state.seq >= s.seq => w.available = state.available /\ w.seq = state.seq /\ w.value = state.value
      BY <1>3, <2>1, <2>2, ApplyFacts
    <2>4. state' = w BY <1>1, <1>4 DEF s
    <2> QED BY <1>4, <2>3, <2>4 DEF s
  <1>5. CASE ~Online(Item(t))
    <2>1. state' = ensureUnknownStates(state, Item(t)) BY <1>1, <1>5
    <2>2. state' = state BY <2>1, EnsureFacts, BaseFacts
    <2> QED BY <1>3, <1>5, <2>2
  <1> QED BY <1>4, <1>5

\* A step of a handler, of a request or of the loading of preferences keeps it.
LEMMA ProjectBase ==
    ASSUME Base, NEW t \in Thread, projectLatestSnapshot(t)
    PROVE  Base'
  <1>1. PICK i : /\ t \in {"worker", "refresh"} /\ Todo(t) = HandleSteps /\ Goes(t, Gate, i)
                 /\ i \in {source, Item(t)}
    BY ProjectMove, BaseFacts
  <1>2. Todo(t) # <<>> BY <1>1, NotEmpty
  <1>3. Sound(i, source.at) /\ i \in Snapshot BY <1>1, <1>2, Carries, UserAssumption DEF Base, TypeOK
  <1>4. Fits(t, [todo |-> Gate, item |-> i, late |-> thread[t].late])
    BY <1>1, <1>3, FitsOn, BaseFacts DEF Handling
  <1>5. UNCHANGED <<source, cataloger, queue, lost, saved, count, registry, state, disabled, persisted, overtaken, snapshotSeq, top>>
    BY DEF projectLatestSnapshot, provider, flags, views
  <1> QED BY <1>1, <1>2, <1>3, <1>4, <1>5, GoesBase, BaseFacts DEF Base

LEMMA GateBase ==
    ASSUME Base, NEW t \in Thread, isDeviceDisabled(t)
    PROVE  Base'
  <1>1. /\ t \in {"worker", "refresh"} /\ Todo(t) = Gate
        /\ Goes(t, Accept, IF disabled THEN Offline([Item(t) EXCEPT !.disabled = TRUE]) ELSE Item(t))
    BY GateMove, BaseFacts
  <1>2. Todo(t) # <<>> BY <1>1, NotEmpty
  <1>3. Sound(Item(t), source.at) /\ Item(t) \in Snapshot BY <1>1, <1>2, Carries, UserAssumption
  <1> DEFINE i == IF disabled THEN Offline([Item(t) EXCEPT !.disabled = TRUE]) ELSE Item(t)
  <1>4. Sound(i, source.at) /\ i \in Snapshot BY <1>3, HideSound
  <1> HIDE DEF i
  <1>5. Fits(t, [todo |-> Accept, item |-> i, late |-> thread[t].late])
    BY <1>1, <1>4, FitsOn, BaseFacts DEF Handling
  <1>6. UNCHANGED <<source, cataloger, queue, lost, saved, count, registry, state, disabled, persisted, overtaken, snapshotSeq, top>>
    BY DEF isDeviceDisabled, provider, flags, views
  <1>7. Goes(t, Accept, i) BY <1>1 DEF i
  <1> QED BY <1>2, <1>4, <1>5, <1>6, <1>7, GoesBase, BaseFacts DEF Base

LEMMA AcceptBase ==
    ASSUME Base, NEW t \in Thread, acceptSnapshotSequence(t)
    PROVE  Base'
  <1>1. /\ t \in {"worker", "refresh"} /\ Todo(t) = Accept
        /\ Ends(t) \/ Goes(t, Register, Item(t))
        /\ snapshotSeq' \in {0, snapshotSeq, Item(t).seq}
    BY AcceptMove, BaseFacts
  <1>2. Todo(t) # <<>> BY <1>1, NotEmpty
  <1>3. Sound(Item(t), source.at) /\ Item(t) \in Snapshot /\ Item(t).seq \in Nat
    BY <1>1, <1>2, Carries, UserAssumption DEF Snapshot
  <1>4. Fits(t, [todo |-> Register, item |-> Item(t), late |-> thread[t].late])
    BY <1>1, <1>3, FitsOn, BaseFacts DEF Handling
  <1>5. UNCHANGED <<source, cataloger, queue, lost, saved, count, registry, state, disabled, persisted, overtaken, top>>
    BY DEF acceptSnapshotSequence, provider, flags, views
  <1>6. snapshotSeq' \in Nat BY <1>1, <1>3, BaseFacts
  <1>7. CASE Ends(t) BY <1>2, <1>5, <1>6, <1>7, EndsBase, BaseFacts DEF Base
  <1>8. CASE Goes(t, Register, Item(t))
    BY <1>2, <1>3, <1>4, <1>5, <1>6, <1>8, GoesBase, BaseFacts DEF Base
  <1> QED BY <1>1, <1>7, <1>8

LEMMA NoteBase ==
    ASSUME Base, NEW t \in Thread, noteSnapshotSequence(t)
    PROVE  Base'
  <1>1. t \in User /\ Todo(t) = Note /\ Goes(t, Store, Item(t)) BY NoteMove, BaseFacts
  <1>2. Todo(t) # <<>> BY <1>1, NotEmpty
  <1>3. Sound(Item(t), source.at) /\ Item(t) \in Snapshot /\ Item(t).seq \in Nat
    BY <1>1, <1>2, Carries, UserAssumption DEF Snapshot
  <1>4. ~Item(t).disabled BY <1>1, UserCarries, BaseFacts
  <1>5. Fits(t, [todo |-> Store, item |-> Item(t), late |-> thread[t].late])
    BY <1>1, <1>3, <1>4, FitsOn, BaseFacts DEF Enabling
  <1>6. UNCHANGED <<source, cataloger, queue, lost, saved, count, registry, state, disabled, persisted, overtaken, top>>
    BY DEF noteSnapshotSequence, provider, flags, views
  <1>7. snapshotSeq' \in Nat BY <1>3, BaseFacts DEF noteSnapshotSequence, Item
  <1> QED BY <1>1, <1>2, <1>3, <1>5, <1>6, <1>7, GoesBase, BaseFacts DEF Base

LEMMA ResetBase ==
    ASSUME Base, NEW t \in Thread, resetSnapshotSequence(t)
    PROVE  Base'
  <1>1. /\ UNCHANGED <<source, cataloger, queue, lost, saved, count, registry, state, disabled, persisted, overtaken, top>>
        /\ snapshotSeq' = 0
    BY DEF resetSnapshotSequence, provider, flags, views
  <1>2. snapshotSeq' \in Nat BY <1>1
  <1>3. \/ t = "refresh" /\ Todo(t) = RefreshSteps /\ Goes(t, HandleSteps, Item(t))
        \/ t \in User /\ Todo(t) = EnableReset /\ Goes(t, Discover, Item(t))
        \/ t \in User /\ Todo(t) = DisableReset /\ Goes(t, DisableRegister, Item(t))
        \/ t = "main" /\ Todo(t) = LoadReset /\ Ends(t)
    BY ResetMove, BaseFacts
  <1>4. Todo(t) # <<>> BY <1>3, NotEmpty
  <1>5. Sound(Item(t), source.at) /\ Item(t) \in Snapshot BY <1>3, <1>4, Carries, UserAssumption
  <1>6. CASE Ends(t) BY <1>1, <1>2, <1>4, <1>6, EndsBase, BaseFacts DEF Base
  <1>7. ASSUME NEW l, Goes(t, l, Item(t)), Fits(t, [todo |-> l, item |-> Item(t), late |-> thread[t].late])
        PROVE  Base'
    BY <1>1, <1>2, <1>4, <1>5, <1>7, GoesBase, BaseFacts DEF Base
  <1>8. CASE t = "refresh" /\ Todo(t) = RefreshSteps /\ Goes(t, HandleSteps, Item(t))
    BY <1>5, <1>7, <1>8, FitsOn, BaseFacts DEF Handling
  <1>9. CASE t \in User /\ Todo(t) = EnableReset /\ Goes(t, Discover, Item(t))
    BY <1>5, <1>7, <1>9, FitsOn, BaseFacts, UserCarries DEF Enabling
  <1>10. CASE t \in User /\ Todo(t) = DisableReset /\ Goes(t, DisableRegister, Item(t))
    BY <1>5, <1>7, <1>10, FitsOn, BaseFacts, UserCarries DEF Disabling
  <1> QED BY <1>3, <1>6, <1>8, <1>9, <1>10

LEMMA RegisterBase ==
    ASSUME Base, NEW t \in Thread, register(t)
    PROVE  Base'
  <1>1. /\ UNCHANGED <<source, cataloger, queue, lost, saved, count, state, disabled, persisted, snapshotSeq>>
        /\ top' \in {0, top, Item(t).seq} /\ registry' \in {None, Item(t)} /\ overtaken' = (overtaken \/ thread[t].late)
    BY DEF register, provider, flags, Item, Online
  <1>2. overtaken' \in BOOLEAN BY <1>1, BaseFacts
  <1>3. \/ t \in {"worker", "refresh"} /\ Todo(t) = Register /\ Goes(t, Store, Item(t))
        \/ t \in User /\ Todo(t) = EnableRegister /\ Goes(t, Note, Item(t))
        \/ t \in User /\ Todo(t) = DisableRegister /\ Goes(t, Mark, Item(t))
        \/ t = "main" /\ Todo(t) = LoadRegister /\ Goes(t, LoadMark, Item(t))
    BY RegisterMove, BaseFacts
  <1>4. Todo(t) # <<>> BY <1>3, NotEmpty
  <1>5. Sound(Item(t), source.at) /\ Item(t) \in Snapshot BY <1>3, <1>4, Carries, UserAssumption
  <1>6. /\ registry' # None => Sound(registry', source.at)
        /\ top' \in Nat
    BY <1>1, <1>5, BaseFacts DEF Snapshot
  <1>7. ASSUME NEW l, Goes(t, l, Item(t)), Fits(t, [todo |-> l, item |-> Item(t), late |-> thread[t].late])
        PROVE  Base'
    BY <1>1, <1>2, <1>4, <1>5, <1>6, <1>7, GoesBase, BaseFacts DEF Base
  <1>8. CASE t \in {"worker", "refresh"} /\ Todo(t) = Register /\ Goes(t, Store, Item(t))
    BY <1>5, <1>7, <1>8, FitsOn, BaseFacts DEF Handling
  <1>9. CASE t \in User /\ Todo(t) = EnableRegister /\ Goes(t, Note, Item(t))
    BY <1>5, <1>7, <1>9, FitsOn, BaseFacts, UserCarries DEF Enabling
  <1>10. CASE t \in User /\ Todo(t) = DisableRegister /\ Goes(t, Mark, Item(t))
    BY <1>5, <1>7, <1>10, FitsOn, BaseFacts, UserCarries DEF Disabling
  <1>11. CASE t = "main" /\ Todo(t) = LoadRegister /\ Goes(t, LoadMark, Item(t))
    BY <1>5, <1>7, <1>11, FitsOn, BaseFacts, UserCarries
  <1> QED BY <1>3, <1>8, <1>9, <1>10, <1>11

LEMMA StoreBase ==
    ASSUME Base, NEW t \in Thread, store(t)
    PROVE  Base'
  <1>1. /\ UNCHANGED <<source, cataloger, queue, lost, saved, count, registry, disabled, persisted, snapshotSeq, top>>
        /\ overtaken' = (overtaken \/ thread[t].late)
    BY DEF store, provider, flags
  <1>2. overtaken' \in BOOLEAN BY <1>1, BaseFacts
  <1>3. Written(state', source.at) BY StoreState
  <1>4. /\ t \in {"worker", "refresh"} \cup User /\ Todo(t) = Store
        /\ Ends(t) \/ Goes(t, Mark, Item(t))
    BY StoreMove, BaseFacts
  <1>5. Todo(t) # <<>> BY <1>4, NotEmpty
  <1>6. Sound(Item(t), source.at) /\ Item(t) \in Snapshot BY <1>4, <1>5, Carries, UserAssumption
  <1>7. CASE Ends(t) BY <1>1, <1>2, <1>3, <1>5, <1>7, EndsBase, BaseFacts DEF Base
  <1>8. CASE Goes(t, Mark, Item(t))
    <2>1. Fits(t, [todo |-> Mark, item |-> Item(t), late |-> thread[t].late])
      <3>1. CASE t \in {"worker", "refresh"} BY <1>6, <3>1, FitsOn, BaseFacts DEF Handling
      <3>2. CASE t \in User BY <1>4, <1>6, <3>2, FitsOn, BaseFacts, UserCarries DEF Enabling
      <3> QED BY <1>4, <3>1, <3>2
    <2> QED BY <1>1, <1>2, <1>3, <1>5, <1>6, <1>8, <2>1, GoesBase, BaseFacts DEF Base
  <1> QED BY <1>4, <1>7, <1>8

LEMMA MarkBase ==
    ASSUME Base, NEW t \in Thread, markDeviceUnavailable(t)
    PROVE  Base'
  <1>1. UNCHANGED <<source, cataloger, queue, lost, saved, count, registry, disabled, persisted, overtaken, snapshotSeq, top>>
    BY DEF markDeviceUnavailable, provider, flags
  <1>2. Written(state', source.at) BY MarkState
  <1>3. \/ t \in {"worker", "refresh"} \cup User /\ Todo(t) = Mark /\ Ends(t)
        \/ t = "main" /\ Todo(t) = LoadMark /\ Goes(t, LoadReset, Item(t))
    BY MarkMove, BaseFacts
  <1>4. Todo(t) # <<>> BY <1>3, NotEmpty
  <1>5. Sound(Item(t), source.at) /\ Item(t) \in Snapshot BY <1>3, <1>4, Carries, UserAssumption
  <1>6. CASE Ends(t) BY <1>1, <1>2, <1>4, <1>6, EndsBase, BaseFacts DEF Base
  <1>7. CASE t = "main" /\ Todo(t) = LoadMark /\ Goes(t, LoadReset, Item(t))
    <2>1. Fits(t, [todo |-> LoadReset, item |-> Item(t), late |-> thread[t].late])
      BY <1>5, <1>7, FitsOn, BaseFacts, UserCarries
    <2> QED BY <1>1, <1>2, <1>4, <1>5, <1>7, <2>1, GoesBase, BaseFacts DEF Base
  <1> QED BY <1>3, <1>6, <1>7

LEMMA FlagBase ==
    ASSUME Base, NEW t \in Thread, SetFlag(t)
    PROVE  Base'
  <1>1. UNCHANGED <<source, cataloger, queue, lost, saved, count, registry, state, snapshotSeq, top>>
    BY DEF SetFlag, provider, views
  <1>2. /\ t \in User
        /\ \/ Todo(t) \in {EnableSteps, DisableSteps} /\ Ends(t) /\ UNCHANGED <<disabled, persisted, overtaken>>
           \/ /\ Todo(t) = EnableSteps /\ Goes(t, EnableReset, Item(t)) /\ ~Item(t).disabled
              /\ disabled' = FALSE /\ persisted' = FALSE /\ overtaken' = FALSE
           \/ /\ Todo(t) = DisableSteps /\ Overtakes(t, DisableReset) /\ Hidden(Item(t))
              /\ disabled' = TRUE /\ persisted' = TRUE /\ overtaken' = FALSE
    BY FlagMove, BaseFacts
  <1>3. Todo(t) # <<>> BY <1>2, NotEmpty
  <1>4. Sound(Item(t), source.at) /\ Item(t) \in Snapshot BY <1>2, <1>3, Carries, UserAssumption
  <1>5. disabled' \in BOOLEAN /\ persisted' \in BOOLEAN /\ overtaken' \in BOOLEAN /\ snapshotSeq' \in Nat
    BY <1>1, <1>2, BaseFacts
  <1>6. CASE Ends(t) BY <1>1, <1>3, <1>5, <1>6, EndsBase, BaseFacts DEF Base
  <1>7. CASE Goes(t, EnableReset, Item(t)) /\ ~Item(t).disabled
    <2>1. Fits(t, [todo |-> EnableReset, item |-> Item(t), late |-> thread[t].late])
      BY <1>2, <1>4, <1>7, FitsOn, BaseFacts DEF Enabling
    <2> QED BY <1>1, <1>3, <1>4, <1>5, <1>7, <2>1, GoesBase, BaseFacts DEF Base
  <1>8. CASE Overtakes(t, DisableReset) /\ Hidden(Item(t))
    <2>1. Fits(t, [thread[t] EXCEPT !.todo = DisableReset])
      <3> DEFINE g == [thread[t] EXCEPT !.todo = DisableReset]
      <3>1. DisableReset \in Disabling BY DEF Disabling
      <3>2. DisableReset \in Seq(Step) BY <3>1, ListsOfSteps
      <3>3. g \in Goroutine /\ g.todo = DisableReset /\ g.item = Item(t) /\ g.late = thread[t].late
        BY <3>2, BaseFacts DEF Goroutine, Item
      <3> HIDE DEF g
      <3>4. Fits(t, g) BY <1>2, <1>4, <1>8, <3>1, <3>3, UserAssumption DEF Fits
      <3> QED BY <3>4 DEF g
    <2> QED BY <1>1, <1>2, <1>3, <1>5, <1>8, <2>1, OvertakesBase
  <1> QED BY <1>2, <1>6, <1>7, <1>8

LEMMA DiscoverBase ==
    ASSUME Base, NEW t \in Thread, discover(t)
    PROVE  Base'
  <1>1. PICK i \in {source, Item(t)} : t \in User /\ Todo(t) = Discover /\ Goes(t, EnableRegister, i)
    BY DiscoverMove, BaseFacts
  <1>2. Todo(t) # <<>> BY <1>1, NotEmpty
  <1>3. Sound(i, source.at) /\ i \in Snapshot BY <1>1, <1>2, Carries, UserAssumption DEF Base, TypeOK
  <1>4. ~i.disabled BY <1>1, UserCarries, BaseFacts DEF Base
  <1>5. Fits(t, [todo |-> EnableRegister, item |-> i, late |-> thread[t].late])
    BY <1>1, <1>3, <1>4, FitsOn, BaseFacts DEF Enabling
  <1>6. UNCHANGED <<source, cataloger, queue, lost, saved, count, registry, state, disabled, persisted, overtaken, snapshotSeq, top>>
    BY DEF discover, provider, flags, views
  <1> QED BY <1>1, <1>2, <1>3, <1>5, <1>6, GoesBase, BaseFacts DEF Base

LEMMA LoadBase ==
    ASSUME Base, NEW t \in Thread, load(t)
    PROVE  Base'
  <1>1. /\ UNCHANGED <<source, cataloger, queue, lost, saved, count, registry, state, persisted, overtaken, snapshotSeq, top>>
        /\ disabled' = persisted
    BY DEF load, provider, views
  <1>2. t = "main" /\ Todo(t) = LoadSteps /\ IF persisted THEN Overtakes(t, Take) ELSE Ends(t)
    BY LoadMove, BaseFacts
  <1>3. Todo(t) # <<>> BY <1>2, NotEmpty
  <1>4. disabled' \in BOOLEAN BY <1>1, BaseFacts
  <1>5. CASE Ends(t) BY <1>1, <1>3, <1>4, <1>5, EndsBase, BaseFacts DEF Base
  <1>6. CASE Overtakes(t, Take)
    <2>1. Fits(t, [thread[t] EXCEPT !.todo = Take])
      <3> DEFINE g == [thread[t] EXCEPT !.todo = Take]
      <3>1. Take \in Loading /\ Take \notin {LoadRegister, LoadMark, LoadReset} BY LoadLists DEF Loading
      <3>2. Take \in Seq(Step) BY <3>1, ListsOfSteps
      <3>3. g \in Goroutine /\ g.todo = Take /\ g.late = thread[t].late
        BY <3>2, BaseFacts DEF Goroutine
      <3> HIDE DEF g
      <3>4. Fits(t, g) BY <1>2, <3>1, <3>3, UserAssumption DEF Fits
      <3> QED BY <3>4 DEF g
    <2>2. UNCHANGED <<source, cataloger, queue, lost, saved, count, registry, state, snapshotSeq, top>> BY <1>1
    <2> QED BY <1>1, <1>2, <1>3, <1>4, <1>6, <2>1, <2>2, OvertakesBase, BaseFacts
  <1> QED BY <1>2, <1>5, <1>6

LEMMA TakeBase ==
    ASSUME Base, NEW t \in Thread, take(t)
    PROVE  Base'
  <1>1. UNCHANGED <<source, cataloger, queue, lost, saved, count, registry, state, disabled, persisted, overtaken, snapshotSeq, top>>
    BY DEF take, provider, flags, views
  <1> DEFINE i == Offline([registry EXCEPT !.disabled = TRUE])
  <1>2. /\ t = "main" /\ Todo(t) = Take
        /\ IF registry = None THEN Ends(t) ELSE Goes(t, LoadRegister, i)
    BY TakeMove, BaseFacts
  <1>3. Todo(t) # <<>> BY <1>2, NotEmpty
  <1>4. CASE registry = None BY <1>1, <1>2, <1>3, <1>4, EndsBase, BaseFacts DEF Base
  <1>5. CASE registry # None
    <2>1. Sound(i, source.at) /\ Hidden(i) /\ i \in Snapshot BY <1>5, HideSound DEF Base
    <2> HIDE DEF i
    <2>2. Fits(t, [todo |-> LoadRegister, item |-> i, late |-> thread[t].late])
      BY <1>2, <2>1, FitsOn, BaseFacts
    <2> QED BY <1>1, <1>2, <1>3, <1>5, <2>1, <2>2, GoesBase, BaseFacts DEF Base
  <1> QED BY <1>4, <1>5

\* Every step keeps the types, the control and the values.
LEMMA BaseStep ==
    ASSUME Base, [Next]_vars
    PROVE  Base'
  <1>1. CASE UNCHANGED vars
    <2>1. TypeOK' BY <1>1 DEF Base, TypeOK, vars
    <2>2. Control' /\ LocalsSound' BY <1>1 DEF Base, Control, LocalsSound, Todo, Item, vars
    <2> QED BY <1>1, <2>1, <2>2 DEF Base, vars
  <1>2. CASE \E v \in Value, availability \in Reported : Change(v, availability) BY <1>2, ChangeBase
  <1>3. CASE \E v \in Value, availability \in Reported, s \in 0..(MaxChanges + 1) : Resend(v, availability, s)
    BY <1>3, ResendBase, BoundsAssumption
  <1>4. CASE Remove BY <1>4, RemoveBase
  <1>5. CASE \E v \in Value : Add(v) BY <1>5, AddBase
  <1>6. CASE handleEvent BY <1>6, handleEventBase
  <1>7. CASE RefreshDevices BY <1>7, RefreshBase
  <1>8. CASE \E u \in User, enabled \in BOOLEAN : SetDeviceEnabled(u, enabled) BY <1>8, ToggleBase
  <1>9. CASE saveStateCheckpoint BY <1>9, SaveBase
  <1>10. CASE Restart BY <1>10, RestartBase
  <1>11. ASSUME NEW t \in Thread, Proceed(t) PROVE Base'
    BY <1>11, ProjectBase, GateBase, AcceptBase, NoteBase, ResetBase, RegisterBase, StoreBase,
       MarkBase, FlagBase, DiscoverBase, LoadBase, TakeBase DEF Proceed
  <1> QED BY <1>1, <1>2, <1>3, <1>4, <1>5, <1>6, <1>7, <1>8, <1>9, <1>10, <1>11 DEF Next

\* The state of the pipeline keeps its types: the queue stays within its capacity, and
\* what the goroutines read, write and carry are snapshots and state values, in every
\* interleaving and through removals and restarts.
THEOREM PipelineTypes == Spec => []TypeOK
  <1>1. Base => TypeOK BY DEF Base
  <1> QED BY <1>1, InitBase, BaseStep, PTL DEF Spec
-----------------------------------------------------------------------------
(* A provider that numbers upwards gives a sequence one value.             *)

\* The records after a step.
LEMMA GoesFacts ==
    ASSUME Base, NEW t \in Thread, NEW l, NEW i, Goes(t, l, i)
    PROVE  /\ thread'[t].todo = l /\ thread'[t].item = i /\ thread'[t].late = thread[t].late
           /\ \A u \in Thread \ {t} : thread'[u] = thread[u]
  BY BaseFacts DEF Goes, Control

LEMMA EndsFacts ==
    ASSUME Base, NEW t \in Thread, Ends(t)
    PROVE  /\ thread'[t].todo = <<>> /\ thread'[t].item = None
           /\ \A u \in Thread \ {t} : thread'[u] = thread[u]
  <1>1. thread'[t] = Idle /\ \A u \in Thread \ {t} : thread'[u] = thread[u]
    BY BaseFacts DEF Ends, Control
  <1> QED BY <1>1 DEF Idle

\* Snapshot or value x carries what f gives its sequence, which is one of the first n.
Labelled(f, n, x) == x.seq \in 1..n /\ x.value = f[x.seq]

Labels(f) ==
    /\ Labelled(f, source.seq, source)
    /\ \A i \in 1..Len(queue) : Labelled(f, source.seq, queue[i])
    /\ \A t \in Thread : Item(t) # None => Labelled(f, source.seq, Item(t))
    /\ registry # None => Labelled(f, source.seq, registry)
    /\ Labelled(f, source.seq, state)

Ordered ==
    Upwards => /\ ~source.removed
               /\ Numbered => \E f \in [Nat -> Value] : Labels(f)

\* What may happen while the provider numbers upwards.
LEMMA UpwardsNext ==
    ASSUME Base, Ordered, Upwards', [Next]_vars
    PROVE  /\ Upwards
           /\ \/ \E v \in Value, availability \in Reported : Change(v, availability)
              \/ /\ UNCHANGED source
                 /\ \/ UNCHANGED vars
                    \/ handleEvent
                    \/ RefreshDevices
                    \/ \E u \in User, enabled \in BOOLEAN : SetDeviceEnabled(u, enabled)
                    \/ saveStateCheckpoint
                    \/ \E t \in Thread : Proceed(t)
  <1>1. count \in Count BY DEF Base, TypeOK
  <1>2. ASSUME NEW f \in {"changes", "resends", "adds", "refreshes", "toggles", "boots"}, NEW max,
               Counted(f, max)
        PROVE  /\ \A g \in {"changes", "resends", "adds", "refreshes", "toggles", "boots"} \ {f} : count'[g] = count[g]
               /\ count'[f] > 0
    BY <1>1, <1>2 DEF Counted, Count
  <1>3. CASE UNCHANGED vars BY <1>3 DEF vars, Upwards
  <1>4. CASE \E v \in Value, availability \in Reported : Change(v, availability)
    <2>1. Counted("changes", MaxChanges) BY <1>4 DEF Change
    <2> QED BY <1>2, <1>4, <2>1 DEF Upwards
  <1>5. CASE \E v \in Value, availability \in Reported, s \in 0..(MaxChanges + 1) : Resend(v, availability, s)
    <2>1. Counted("resends", MaxResends) BY <1>5 DEF Resend
    <2> QED BY <1>2, <2>1 DEF Upwards
  <1>6. CASE Remove
    <2>1. Counted("adds", MaxAdds) BY <1>6 DEF Remove
    <2> QED BY <1>2, <2>1 DEF Upwards
  <1>7. CASE \E v \in Value : Add(v)
    <2>1. source.removed /\ count' = count BY <1>7 DEF Add
    <2>2. Upwards BY <2>1 DEF Upwards
    <2> QED BY <2>1, <2>2 DEF Ordered
  <1>8. CASE handleEvent
    BY <1>8 DEF handleEvent, Upwards
  <1>9. CASE RefreshDevices
    <2>1. Counted("refreshes", MaxRefreshes) /\ UNCHANGED source BY <1>9 DEF RefreshDevices, provider
    <2> QED BY <1>2, <1>9, <2>1 DEF Upwards
  <1>10. CASE \E u \in User, enabled \in BOOLEAN : SetDeviceEnabled(u, enabled)
    <2>1. Counted("toggles", MaxToggles) /\ UNCHANGED source BY <1>10 DEF SetDeviceEnabled, provider
    <2> QED BY <1>2, <1>10, <2>1 DEF Upwards
  <1>11. CASE saveStateCheckpoint
    BY <1>11 DEF saveStateCheckpoint, provider, Upwards
  <1>12. CASE Restart
    <2>1. Counted("boots", MaxBoots) BY <1>12 DEF Restart
    <2> QED BY <1>2, <2>1 DEF Upwards
  <1>13. ASSUME NEW t \in Thread, Proceed(t) PROVE Upwards /\ UNCHANGED source
    BY <1>13, ProceedFrame DEF Upwards
  <1> QED BY <1>3, <1>4, <1>5, <1>6, <1>7, <1>8, <1>9, <1>10, <1>11, <1>12, <1>13 DEF Next

\* What a snapshot carries comes from another one.
Copies(s, x) == x # None /\ s.seq = x.seq /\ s.value = x.value

\* What the goroutines carry after a step comes from what they carried, from the provider
\* or from the registry.
LEMMA ItemsFrom ==
    ASSUME Base, NEW t \in Thread, Proceed(t)
    PROVE  \A u \in Thread :
              Item(u)' # None => \E x \in {source, registry, Item(u)} : Copies(Item(u)', x)
  <1>1. ASSUME NEW l, NEW i, NEW x \in {source, registry, Item(t)}, Goes(t, l, i), Copies(i, x)
        PROVE  \A u \in Thread : Item(u)' # None => \E y \in {source, registry, Item(u)} : Copies(Item(u)', y)
    <2> TAKE u \in Thread
    <2>1. CASE u = t
      <3>1. Item(u)' = i BY <1>1, <2>1, GoesFacts DEF Item
      <3> QED BY <1>1, <2>1, <3>1
    <2>2. CASE u # t
      <3>1. Item(u)' = Item(u) BY <1>1, <2>2, GoesFacts DEF Item
      <3> QED BY <3>1 DEF Copies
    <2> QED BY <2>1, <2>2
  <1>2. ASSUME Ends(t)
        PROVE  \A u \in Thread : Item(u)' # None => \E y \in {source, registry, Item(u)} : Copies(Item(u)', y)
    <2> TAKE u \in Thread
    <2>1. Item(u)' \in {None, Item(u)} BY <1>2, EndsFacts DEF Item
    <2> QED BY <2>1 DEF Copies
  <1>3. ASSUME NEW l, Overtakes(t, l)
        PROVE  \A u \in Thread : Item(u)' # None => \E y \in {source, registry, Item(u)} : Copies(Item(u)', y)
    <2> TAKE u \in Thread
    <2>1. Item(u)' = Item(u) BY <1>3, BaseFacts DEF Overtakes, Item, Goroutine
    <2> QED BY <2>1 DEF Copies
  <1>4. ASSUME (t # "main" /\ Todo(t) # <<>>) \/ Todo(t) \in {LoadRegister, LoadMark, LoadReset}
        PROVE  Copies(Item(t), Item(t)) /\ Sound(Item(t), source.at)
    BY <1>4, Carries DEF Copies
  <1>5. ASSUME NEW l, Goes(t, l, Item(t)),
               (t # "main" /\ Todo(t) # <<>>) \/ Todo(t) \in {LoadRegister, LoadMark, LoadReset}
        PROVE  \A u \in Thread : Item(u)' # None => \E y \in {source, registry, Item(u)} : Copies(Item(u)', y)
    BY <1>1, <1>4, <1>5
  <1>6. Copies(source, source) BY SnapshotAssumption DEF Base, TypeOK, Copies
  <1>7. t \in {"worker", "refresh"} \cup User => t # "main" BY UserAssumption
  <1>8. CASE projectLatestSnapshot(t)
    <2>1. PICK i \in {source, Item(t)} : t \in {"worker", "refresh"} /\ Todo(t) = HandleSteps /\ Goes(t, Gate, i)
      BY <1>8, ProjectMove, BaseFacts
    <2>2. Copies(i, i) BY <1>4, <1>6, <2>1, NotEmpty
    <2> QED BY <1>1, <2>1, <2>2
  <1>9. CASE isDeviceDisabled(t)
    <2> DEFINE i == IF disabled THEN Offline([Item(t) EXCEPT !.disabled = TRUE]) ELSE Item(t)
    <2>1. t \in {"worker", "refresh"} /\ Todo(t) = Gate /\ Goes(t, Accept, i)
      BY <1>9, GateMove, BaseFacts
    <2>2. Copies(Item(t), Item(t)) /\ Sound(Item(t), source.at) BY <1>4, <2>1, NotEmpty
    <2>3. Copies(i, Item(t)) BY <2>2, HideSound DEF Copies
    <2> HIDE DEF i
    <2> QED BY <1>1, <2>1, <2>3
  <1>10. CASE acceptSnapshotSequence(t)
    <2>1. t \in {"worker", "refresh"} /\ Todo(t) = Accept /\ (Ends(t) \/ Goes(t, Register, Item(t)))
      BY <1>10, AcceptMove, BaseFacts
    <2> QED BY <1>2, <1>5, <2>1, NotEmpty
  <1>11. CASE noteSnapshotSequence(t)
    <2>1. t \in User /\ Todo(t) = Note /\ Goes(t, Store, Item(t)) BY <1>11, NoteMove, BaseFacts
    <2> QED BY <1>5, <1>7, <2>1, NotEmpty
  <1>12. CASE resetSnapshotSequence(t)
    <2>1. \/ t = "refresh" /\ Todo(t) = RefreshSteps /\ Goes(t, HandleSteps, Item(t))
          \/ t \in User /\ Todo(t) = EnableReset /\ Goes(t, Discover, Item(t))
          \/ t \in User /\ Todo(t) = DisableReset /\ Goes(t, DisableRegister, Item(t))
          \/ t = "main" /\ Todo(t) = LoadReset /\ Ends(t)
      BY <1>12, ResetMove, BaseFacts
    <2> QED BY <1>2, <1>5, <1>7, <2>1, NotEmpty
  <1>13. CASE register(t)
    <2>1. \/ t \in {"worker", "refresh"} /\ Todo(t) = Register /\ Goes(t, Store, Item(t))
          \/ t \in User /\ Todo(t) = EnableRegister /\ Goes(t, Note, Item(t))
          \/ t \in User /\ Todo(t) = DisableRegister /\ Goes(t, Mark, Item(t))
          \/ t = "main" /\ Todo(t) = LoadRegister /\ Goes(t, LoadMark, Item(t))
      BY <1>13, RegisterMove, BaseFacts
    <2> QED BY <1>5, <1>7, <2>1, NotEmpty
  <1>14. CASE store(t)
    <2>1. t \in {"worker", "refresh"} \cup User /\ Todo(t) = Store /\ (Ends(t) \/ Goes(t, Mark, Item(t)))
      BY <1>14, StoreMove, BaseFacts
    <2> QED BY <1>2, <1>5, <1>7, <2>1, NotEmpty
  <1>15. CASE markDeviceUnavailable(t)
    <2>1. \/ t \in {"worker", "refresh"} \cup User /\ Todo(t) = Mark /\ Ends(t)
          \/ t = "main" /\ Todo(t) = LoadMark /\ Goes(t, LoadReset, Item(t))
      BY <1>15, MarkMove, BaseFacts
    <2> QED BY <1>2, <1>5, <2>1
  <1>16. CASE SetFlag(t)
    <2>1. /\ t \in User /\ Todo(t) \in {EnableSteps, DisableSteps}
          /\ Ends(t) \/ Goes(t, EnableReset, Item(t)) \/ Overtakes(t, DisableReset)
      BY <1>16, FlagMove, BaseFacts
    <2> QED BY <1>2, <1>3, <1>5, <1>7, <2>1, NotEmpty
  <1>17. CASE discover(t)
    <2>1. PICK i \in {source, Item(t)} : t \in User /\ Todo(t) = Discover /\ Goes(t, EnableRegister, i)
      BY <1>17, DiscoverMove, BaseFacts
    <2>2. Copies(i, i) BY <1>4, <1>6, <1>7, <2>1, NotEmpty
    <2> QED BY <1>1, <2>1, <2>2
  <1>18. CASE load(t)
    <2>1. Ends(t) \/ Overtakes(t, Take) BY <1>18, LoadMove, BaseFacts
    <2> QED BY <1>2, <1>3, <2>1
  <1>19. CASE take(t)
    <2> DEFINE i == Offline([registry EXCEPT !.disabled = TRUE])
    <2>1. IF registry = None THEN Ends(t) ELSE Goes(t, LoadRegister, i) BY <1>19, TakeMove, BaseFacts
    <2>2. registry # None => Copies(i, registry) BY HideSound DEF Base, Copies
    <2> HIDE DEF i
    <2> QED BY <1>1, <1>2, <2>1, <2>2
  <1> QED BY <1>8, <1>9, <1>10, <1>11, <1>12, <1>13, <1>14, <1>15, <1>16, <1>17, <1>18, <1>19 DEF Proceed

\* What is registered is what was carried, and what is stored is one of the two.
LEMMA ViewsFrom ==
    ASSUME Base, NEW t \in Thread, Proceed(t)
    PROVE  /\ registry' \in {registry, None} \/ (registry' = Item(t) /\ Item(t) # None)
           /\ \/ state'.seq = state.seq /\ state'.value = state.value
              \/ /\ store(t) /\ Item(t) # None
                 /\ state.seq >= 1 /\ Item(t).seq >= 1 =>
                       state'.seq = Item(t).seq /\ state'.value = Item(t).value
  <1>1. CASE register(t)
    <2>1. registry' \in {None, Item(t)} /\ state' = state BY <1>1 DEF register, Item
    <2> QED BY <2>1
  <1>2. CASE store(t)
    <2>1. registry' = registry BY <1>2 DEF store
    <2>2. t \in {"worker", "refresh"} \cup User /\ Todo(t) = Store BY <1>2, StoreMove, BaseFacts
    <2>3. Item(t) # None /\ Item(t) \in Snapshot BY <2>2, Carries, NotEmpty, UserAssumption
    <2>4. Item(t).seq \in Nat /\ state.seq \in Nat BY <2>3, BaseFacts DEF Snapshot
    <2>5. CASE ~Online(Item(t)) BY <1>2, <2>1, <2>5, StoreState
    <2>6. CASE Online(Item(t)) /\ state.seq >= 1 /\ Item(t).seq >= 1
      <3>1. CASE state.seq < Item(t).seq BY <1>2, <2>1, <2>3, <2>6, <3>1, StoreState
      <3>2. CASE state.seq >= Item(t).seq BY <1>2, <2>1, <2>6, <3>2, StoreState
      <3> QED BY <2>4, <3>1, <3>2
    <2>7. CASE ~(state.seq >= 1 /\ Item(t).seq >= 1) BY <1>2, <2>1, <2>3, <2>7
    <2> QED BY <2>5, <2>6, <2>7
  <1>3. CASE markDeviceUnavailable(t)
    BY <1>3, MarkState DEF markDeviceUnavailable
  <1>4. CASE ~register(t) /\ ~store(t) /\ ~markDeviceUnavailable(t)
    <2>1. UNCHANGED <<registry, state>>
      BY <1>4 DEF Proceed, projectLatestSnapshot, isDeviceDisabled, acceptSnapshotSequence, noteSnapshotSequence,
                  resetSnapshotSequence, SetFlag, discover, load, take, views
    <2> QED BY <2>1
  <1> QED BY <1>1, <1>2, <1>3, <1>4

\* Everything that is carried, registered or stored comes from what was there before.
LEMMA LabelsKept ==
    ASSUME NEW f, Labels(f), source' = source,
           \A i \in 1..Len(queue') : \E j \in 1..Len(queue) : queue'[i] = queue[j],
           \A u \in Thread : Item(u)' # None =>
              \/ \E x \in {source, registry, Item(u)} : Copies(Item(u)', x)
              \/ \E j \in 1..Len(queue) : Item(u)' = queue[j],
           registry' \in {registry, None} \/ \E t \in Thread : registry' = Item(t) /\ Item(t) # None,
           \/ state'.seq = state.seq /\ state'.value = state.value
           \/ \E t \in Thread : Item(t) # None /\ state'.seq = Item(t).seq /\ state'.value = Item(t).value
    PROVE  Labels(f)'
  <1>1. \A s, x : Copies(s, x) /\ Labelled(f, source.seq, x) => Labelled(f, source.seq, s)
    BY DEF Copies, Labelled
  <1>2. \A i \in 1..Len(queue') : Labelled(f, source.seq, queue'[i]) BY DEF Labels
  <1>3. ASSUME NEW u \in Thread, Item(u)' # None PROVE Labelled(f, source.seq, Item(u)')
    <2>1. CASE \E j \in 1..Len(queue) : Item(u)' = queue[j] BY <2>1 DEF Labels
    <2>2. CASE \E x \in {source, registry, Item(u)} : Copies(Item(u)', x)
      <3>1. PICK x \in {source, registry, Item(u)} : Copies(Item(u)', x) BY <2>2
      <3>2. Labelled(f, source.seq, x) BY <3>1 DEF Copies, Labels
      <3> QED BY <1>1, <3>1, <3>2
    <2> QED BY <1>3, <2>1, <2>2
  <1>4. registry' # None => Labelled(f, source.seq, registry') BY DEF Labels
  <1>5. Labelled(f, source.seq, state')
    <2>1. CASE state'.seq = state.seq /\ state'.value = state.value BY <2>1 DEF Labels, Labelled
    <2>2. CASE \E t \in Thread : Item(t) # None /\ state'.seq = Item(t).seq /\ state'.value = Item(t).value
      BY <2>2 DEF Labels, Labelled
    <2> QED BY <2>1, <2>2
  <1>6. Labelled(f, source.seq, source) BY DEF Labels
  <1> QED BY <1>2, <1>3, <1>4, <1>5, <1>6 DEF Labels, Labelled

\* The numbers of a provider that numbers upwards.
LEMMA LabelsNumbers ==
    ASSUME Base, NEW f, Labels(f)
    PROVE  /\ state.seq >= 1 /\ source.seq >= 1
           /\ \A t \in Thread : Item(t) # None => Item(t).seq >= 1
           /\ registry # None => registry.seq >= 1
  BY DEF Base, TypeOK, Snapshot, Labels, Labelled

\* A new snapshot takes the next number.
LEMMA LabelsChange ==
    ASSUME Base, NEW f \in [Nat -> Value], Labels(f), Numbered,
           NEW v \in Value, NEW availability \in Reported, Change(v, availability)
    PROVE  \E g \in [Nat -> Value] : Labels(g)'
  <1> DEFINE n == source.seq + 1
             m == source.at + 1
             s == [source EXCEPT !.seq = n, !.at = m, !.value = v, !.availability = availability]
  <1>1. source \in Snapshot /\ source.seq \in Nat /\ n \in Nat /\ m \in Nat /\ source.seq > 0
    BY DEF Base, TypeOK, Snapshot, Numbered
  <1>2. NextSeq = n BY <1>1 DEF NextSeq
  <1>3. Emit(s) BY <1>2 DEF Change
  <1> HIDE DEF m
  <1>4. s.seq = n /\ s.value = v /\ s \in Snapshot
    <2>1. availability \in {"online", "offline", "unknown"} BY ReportedAssumption
    <2> HIDE DEF n
    <2> QED BY <1>1, <2>1 DEF Snapshot
  <1> HIDE DEF s
  <1>5. PICK g \in [Nat -> Value] : g = [f EXCEPT ![n] = v] BY <1>1
  <1>6. \A x : Labelled(f, source.seq, x) => Labelled(g, n, x) BY <1>1, <1>5 DEF Labelled
  <1>7. Labelled(g, n, s) BY <1>1, <1>4, <1>5 DEF Labelled
  <1> HIDE DEF n
  <1>8. source' = s /\ enqueueSnapshot(s) /\ UNCHANGED <<thread, registry, state>> BY <1>3 DEF Emit, views
  <1>9. \A i \in 1..Len(queue') : Labelled(g, n, queue'[i])
    <2>1. queue \in Seq(Snapshot) BY DEF Base, TypeOK
    <2>2. queue' = queue \/ queue' = Append(queue, s) BY <1>8 DEF enqueueSnapshot
    <2>3. CASE queue' = queue BY <1>6, <2>3 DEF Labels
    <2>4. CASE queue' = Append(queue, s)
      <3>1. Len(queue') = Len(queue) + 1 BY <1>4, <2>1, <2>4
      <3>2. \A i \in 1..Len(queue') : queue'[i] = IF i <= Len(queue) THEN queue[i] ELSE s BY <1>4, <2>1, <2>4
      <3>3. \A i \in 1..Len(queue) : Labelled(g, n, queue[i]) BY <1>6 DEF Labels
      <3> QED BY <1>7, <2>1, <3>1, <3>2, <3>3
    <2> QED BY <2>2, <2>3, <2>4
  <1>10. \A t \in Thread : Item(t) # None => Labelled(g, n, Item(t)) BY <1>6 DEF Labels
  <1>11. /\ registry # None => Labelled(g, n, registry)
         /\ Labelled(g, n, state)
    BY <1>6 DEF Labels
  <1>12. Labels(g)'
    <2>1. source'.seq = n BY <1>4, <1>8
    <2>2. \A t \in Thread : Item(t)' = Item(t) BY <1>8 DEF Item
    <2> QED BY <1>7, <1>8, <1>9, <1>10, <1>11, <2>1, <2>2 DEF Labels, Labelled
  <1> QED BY <1>12

LEMMA ChangeNumbered ==
    ASSUME Base, NEW v \in Value, NEW availability \in Reported, Change(v, availability)
    PROVE  source'.removed = source.removed /\ (Numbered' => Numbered)
  <1> DEFINE n == NextSeq
             m == source.at + 1
             s == [source EXCEPT !.seq = n, !.at = m, !.value = v, !.availability = availability]
  <1>1. source' = s BY DEF Change, Emit
  <1>2. source \in Snapshot /\ source.seq \in Nat BY DEF Base, TypeOK, Snapshot
  <1>3. s.removed = source.removed /\ s.seq = n
    <2> HIDE DEF n, m
    <2> QED BY <1>2 DEF Snapshot
  <1> HIDE DEF s
  <1>4. Numbered' => Numbered BY <1>1, <1>2, <1>3 DEF Numbered, NextSeq
  <1> QED BY <1>1, <1>3, <1>4

LEMMA OrderedStep ==
    ASSUME Base, Ordered, [Next]_vars
    PROVE  Ordered'
  <1> SUFFICES ASSUME Upwards'
               PROVE  ~source'.removed /\ (Numbered' => \E f \in [Nat -> Value] : Labels(f)')
    BY DEF Ordered
  <1>1. /\ Upwards
        /\ \/ \E v \in Value, availability \in Reported : Change(v, availability)
           \/ /\ UNCHANGED source
              /\ \/ UNCHANGED vars
                 \/ handleEvent
                 \/ RefreshDevices
                 \/ \E u \in User, enabled \in BOOLEAN : SetDeviceEnabled(u, enabled)
                 \/ saveStateCheckpoint
                 \/ \E t \in Thread : Proceed(t)
    BY UpwardsNext
  <1>2. ~source.removed /\ (Numbered => \E f \in [Nat -> Value] : Labels(f)) BY <1>1 DEF Ordered
  <1>3. ASSUME NEW v \in Value, NEW availability \in Reported, Change(v, availability)
        PROVE  ~source'.removed /\ (Numbered' => \E f \in [Nat -> Value] : Labels(f)')
    BY <1>2, <1>3, ChangeNumbered, LabelsChange
  <1>4. CASE /\ UNCHANGED source
             /\ \/ UNCHANGED vars
                \/ handleEvent
                \/ RefreshDevices
                \/ \E u \in User, enabled \in BOOLEAN : SetDeviceEnabled(u, enabled)
                \/ saveStateCheckpoint
                \/ \E t \in Thread : Proceed(t)
    <2>1. ~source'.removed /\ (Numbered' => Numbered) BY <1>2, <1>4 DEF Numbered
    <2>2. SUFFICES ASSUME NEW f \in [Nat -> Value], Labels(f) PROVE Labels(f)'
      BY <1>2, <2>1
    <2>3. queue \in Seq(Snapshot) BY DEF Base, TypeOK
    <2>4. \A u \in Thread : Item(u) # None => Copies(Item(u), Item(u)) BY DEF Copies
    <2>5. ASSUME UNCHANGED <<queue, thread, registry, state>> PROVE Labels(f)'
      <3>1. \A u \in Thread : Item(u)' = Item(u) BY <2>5 DEF Item
      <3>2. \A i \in 1..Len(queue') : \E j \in 1..Len(queue) : queue'[i] = queue[j] BY <2>5
      <3>3. \A u \in Thread : Item(u)' # None => \E x \in {source, registry, Item(u)} : Copies(Item(u)', x)
        BY <2>4, <3>1
      <3> QED BY <1>4, <2>2, <2>5, <3>2, <3>3, LabelsKept
    <2>6. ASSUME NEW t \in Thread, NEW l, NEW s, NEW x \in {source, registry}, Start(t, l, s), Copies(s, x),
                 UNCHANGED <<queue, registry, state>>
          PROVE  Labels(f)'
      <3>1. thread' = [thread EXCEPT ![t] = [todo |-> l, item |-> s, late |-> FALSE]] BY <2>6, StartMove
      <3>2. \A u \in Thread : Item(u)' = IF u = t THEN s ELSE Item(u) BY <3>1, BaseFacts DEF Item, Control
      <3>3. \A i \in 1..Len(queue') : \E j \in 1..Len(queue) : queue'[i] = queue[j] BY <2>6
      <3>4. \A u \in Thread : Item(u)' # None => \E y \in {source, registry, Item(u)} : Copies(Item(u)', y)
        BY <2>4, <2>6, <3>2
      <3> QED BY <1>4, <2>2, <2>6, <3>3, <3>4, LabelsKept
    <2>7. CASE UNCHANGED vars BY <2>5, <2>7 DEF vars
    <2>8. CASE handleEvent
      <3>1. /\ Start("worker", HandleSteps, Head(queue)) /\ queue' = Tail(queue) /\ queue # <<>>
            /\ UNCHANGED <<registry, state>> /\ "worker" \in Thread
        BY <2>8 DEF handleEvent, views, Thread
      <3>2. Head(queue) = queue[1] /\ 1 \in 1..Len(queue) BY <2>3, <3>1
      <3>3. /\ Len(queue') = Len(queue) - 1
            /\ \A i \in 1..Len(queue') : queue'[i] = queue[i + 1] /\ i + 1 \in 1..Len(queue)
        BY <2>3, <3>1
      <3>4. thread' = [thread EXCEPT !["worker"] = [todo |-> HandleSteps, item |-> queue[1], late |-> FALSE]]
        BY <3>1, <3>2, StartMove
      <3>5. \A u \in Thread : Item(u)' = IF u = "worker" THEN queue[1] ELSE Item(u)
        BY <3>4, BaseFacts DEF Item, Control
      <3>6. \A i \in 1..Len(queue') : \E j \in 1..Len(queue) : queue'[i] = queue[j] BY <3>3
      <3>7. \A u \in Thread : Item(u)' # None =>
               \/ \E x \in {source, registry, Item(u)} : Copies(Item(u)', x)
               \/ \E j \in 1..Len(queue) : Item(u)' = queue[j]
        BY <2>4, <3>2, <3>5
      <3> QED BY <1>4, <2>2, <3>1, <3>6, <3>7, LabelsKept
    <2>9. CASE RefreshDevices
      <3>1. Start("refresh", RefreshSteps, source) /\ UNCHANGED <<queue, registry, state>> /\ "refresh" \in Thread
        BY <2>9 DEF RefreshDevices, provider, views, Thread
      <3>2. Copies(source, source) BY SnapshotAssumption DEF Base, TypeOK, Copies
      <3> QED BY <2>6, <3>1, <3>2
    <2>10. CASE \E u \in User, enabled \in BOOLEAN : SetDeviceEnabled(u, enabled)
      <3>1. PICK u \in User, enabled \in BOOLEAN : SetDeviceEnabled(u, enabled) BY <2>10
      <3>2. PICK l, s : Start(u, l, s) /\ s.seq = registry.seq /\ s.value = registry.value BY <3>1, ToggleMove
      <3>3. registry # None /\ UNCHANGED <<queue, registry, state>> /\ u \in Thread
        BY <3>1 DEF SetDeviceEnabled, provider, views, Thread
      <3>4. Copies(s, registry) BY <3>2, <3>3 DEF Copies
      <3> QED BY <2>6, <3>2, <3>3, <3>4
    <2>11. CASE saveStateCheckpoint BY <2>5, <2>11 DEF saveStateCheckpoint, provider, views
    <2>12. ASSUME NEW t \in Thread, Proceed(t) PROVE Labels(f)'
      <3>1. queue' = queue BY <2>12, ProceedFrame
      <3>2. \A u \in Thread : Item(u)' # None => \E x \in {source, registry, Item(u)} : Copies(Item(u)', x)
        BY <2>12, ItemsFrom
      <3>3. registry' \in {registry, None} \/ (registry' = Item(t) /\ Item(t) # None) BY <2>12, ViewsFrom
      <3>4. state.seq >= 1 /\ (Item(t) # None => Item(t).seq >= 1) BY LabelsNumbers, <2>2
      <3>5. \/ state'.seq = state.seq /\ state'.value = state.value
            \/ Item(t) # None /\ state'.seq = Item(t).seq /\ state'.value = Item(t).value
        BY <2>12, <3>4, ViewsFrom
      <3> QED BY <1>4, <2>2, <2>12, <3>1, <3>2, <3>3, <3>5, LabelsKept
    <2> QED BY <1>4, <2>7, <2>8, <2>9, <2>10, <2>11, <2>12
  <1> QED BY <1>1, <1>3, <1>4

LEMMA InitOrdered == Init => Ordered
  <1> SUFFICES ASSUME Init PROVE Ordered
    OBVIOUS
  <1>1. PICK v \in Value, first \in {0, 1} : source = FirstSnapshot(v, first) BY DEF Init
  <1>2. ~source.removed /\ source.seq = first /\ source.value = v BY <1>1 DEF FirstSnapshot
  <1> DEFINE n == normalize(Report(hub, source.value, "reported", source.seq, 1, 1, 0))
             w == [n EXCEPT !.version = 1]
  <1>3. n \in StateValue /\ n.seq = first /\ n.value = v BY <1>2, ReportFacts
  <1>4. state = Unversioned(w) BY DEF Init, Over
  <1> HIDE DEF n
  <1>5. w \in StateValue /\ w.seq = first /\ w.value = v BY <1>3 DEF StateValue
  <1> HIDE DEF w
  <1>6. state.seq = first /\ state.value = v BY <1>4, <1>5, UnversionedFacts
  <1>7. ASSUME Numbered PROVE \E f \in [Nat -> Value] : Labels(f)
    <2> DEFINE f == [k \in Nat |-> v]
    <2>1. first = 1 BY <1>2, <1>7 DEF Numbered
    <2>2. f \in [Nat -> Value] /\ f[1] = v OBVIOUS
    <2> HIDE DEF f
    <2>3. \A t \in Thread : Item(t) = None BY DEF Init, Item, Idle
    <2>4. registry = source /\ Len(queue) = 0 BY DEF Init
    <2>5. Labels(f) BY <1>2, <1>6, <2>1, <2>2, <2>3, <2>4 DEF Labels, Labelled
    <2> QED BY <2>2, <2>5
  <1> QED BY <1>2, <1>7 DEF Ordered
-----------------------------------------------------------------------------
(* The store is not behind the registry.                                   *)

\* Goroutine t has registered an online snapshot and will offer it to the store.
Storing(t) == Todo(t) \in {Note, Store} /\ Online(Item(t))

\* The store is not behind, or somebody is about to bring it up.
CaughtUp ==
    registry # None /\ Online(registry) =>
        \/ state.seq >= registry.seq
        \/ \E t \in Thread : Storing(t) /\ Item(t).seq >= registry.seq

\* The inductive form of StoreNotBehind.
Caught == Upwards /\ Numbered => CaughtUp

\* A step that keeps the registered device, the sequence and whoever is storing.
LEMMA CaughtKept ==
    ASSUME CaughtUp, registry' = registry, state'.seq = state.seq,
           \A u \in Thread : Storing(u) => thread'[u].todo \in {Note, Store} /\ thread'[u].item = Item(u)
    PROVE  CaughtUp'
  BY DEF CaughtUp, Storing, Todo, Item

\* Steps of a goroutine that is not storing, or that stays so.
LEMMA StoringGoes ==
    ASSUME Base, NEW t \in Thread, NEW l, NEW i,
           \/ Goes(t, l, i) /\ (Storing(t) => l \in {Note, Store} /\ i = Item(t))
           \/ Ends(t) /\ ~Storing(t)
           \/ Overtakes(t, l) /\ ~Storing(t)
    PROVE  \A u \in Thread : Storing(u) => thread'[u].todo \in {Note, Store} /\ thread'[u].item = Item(u)
  <1> TAKE u \in Thread
  <1>1. CASE Goes(t, l, i) /\ (Storing(t) => l \in {Note, Store} /\ i = Item(t))
    BY <1>1, BaseFacts DEF Goes, Storing, Todo, Item, Control
  <1>2. CASE Ends(t) /\ ~Storing(t)
    BY <1>2, BaseFacts DEF Ends, Storing, Todo, Item, Control
  <1>3. CASE Overtakes(t, l) /\ ~Storing(t)
    BY <1>3 DEF Overtakes, Storing, Todo, Item
  <1> QED BY <1>1, <1>2, <1>3

\* Steps that leave threads, registry and state alone, or start a goroutine.
LEMMA CaughtStart ==
    ASSUME Base, CaughtUp, NEW t \in Thread, Ready(t), NEW l, NEW s, Start(t, l, s),
           UNCHANGED <<registry, state>>
    PROVE  CaughtUp'
  <1>1. thread' = [thread EXCEPT ![t] = [todo |-> l, item |-> s, late |-> FALSE]] BY StartMove
  <1>2. ~Storing(t) BY NotEmpty DEF Storing, Ready, Todo
  <1>3. \A u \in Thread : Storing(u) => thread'[u].todo \in {Note, Store} /\ thread'[u].item = Item(u)
    BY <1>1, <1>2, BaseFacts DEF Storing, Todo, Item, Control
  <1> QED BY <1>3, CaughtKept

LEMMA CaughtIdle ==
    ASSUME CaughtUp, UNCHANGED <<registry, state, thread>>
    PROVE  CaughtUp'
  BY DEF CaughtUp, Storing, Todo, Item

LEMMA CaughtRegister ==
    ASSUME Base, CaughtUp, NEW t \in Thread, register(t)
    PROVE  CaughtUp'
  <1>1. registry' = IF Item(t).removed THEN None ELSE Item(t) BY DEF register, Item
  <1>2. \/ t \in {"worker", "refresh"} /\ Todo(t) = Register /\ Goes(t, Store, Item(t))
        \/ t \in User /\ Todo(t) = EnableRegister /\ Goes(t, Note, Item(t))
        \/ t \in User /\ Todo(t) = DisableRegister /\ Goes(t, Mark, Item(t))
        \/ t = "main" /\ Todo(t) = LoadRegister /\ Goes(t, LoadMark, Item(t))
    BY RegisterMove, BaseFacts
  <1>3. CASE \E l \in {Note, Store} : Goes(t, l, Item(t))
    <2>1. thread'[t].todo \in {Note, Store} /\ thread'[t].item = Item(t)
      BY <1>3, BaseFacts DEF Goes, Control
    <2>2. Item(t).seq \in Nat
      <3>1. t # "main"
        <4>1. CASE t = "main"
          <5>1. Goes(t, LoadMark, Item(t)) BY <1>2, <4>1, UserAssumption
          <5>2. thread'[t].todo = LoadMark BY <5>1, BaseFacts DEF Goes, Control
          <5> QED BY <2>1, <5>2, ToggleLists, LoadLists, HandleLists
        <4> QED BY <4>1
      <3>2. Todo(t) # <<>> BY <1>2, NotEmpty
      <3> QED BY <3>1, <3>2, Carries DEF Snapshot
    <2> QED BY <1>1, <2>1, <2>2 DEF CaughtUp, Storing, Todo, Item
  <1>4. CASE \/ t \in User /\ Todo(t) = DisableRegister
             \/ t = "main" /\ Todo(t) = LoadRegister
    <2>1. ~Online(Item(t)) BY <1>4, UserCarries, BaseFacts DEF Hidden
    <2> QED BY <1>1, <2>1 DEF CaughtUp
  <1> QED BY <1>2, <1>3, <1>4

LEMMA CaughtStore ==
    ASSUME Base, CaughtUp, NEW t \in Thread, store(t), state.seq >= 1, Item(t) # None => Item(t).seq >= 1
    PROVE  CaughtUp'
  <1>1. /\ t \in {"worker", "refresh"} \cup User /\ Todo(t) = Store
        /\ IF Online(Item(t)) THEN Ends(t) ELSE Goes(t, Mark, Item(t))
    BY StoreMove, BaseFacts
  <1>2. registry' = registry BY DEF store
  <1>3. CASE ~Online(Item(t))
    <2>1. ~Storing(t) BY <1>3 DEF Storing
    <2>2. state' = state BY <1>3, StoreState
    <2>3. Goes(t, Mark, Item(t)) BY <1>1, <1>3
    <2>4. \A u \in Thread : Storing(u) => thread'[u].todo \in {Note, Store} /\ thread'[u].item = Item(u)
      BY <2>1, <2>3, StoringGoes
    <2> QED BY <1>2, <2>2, <2>4, CaughtKept
  <1>4. CASE Online(Item(t))
    <2>1. Item(t) # None /\ Item(t).seq \in Nat /\ state.seq \in Nat
      BY <1>1, Carries, NotEmpty, BaseFacts, UserAssumption DEF Snapshot
    <2>2. state'.seq >= Item(t).seq /\ state'.seq >= state.seq /\ state'.seq \in Nat
      <3>1. CASE state.seq < Item(t).seq BY <1>4, <2>1, <3>1, StoreState
      <3>2. CASE state.seq >= Item(t).seq BY <1>4, <2>1, <3>2, StoreState
      <3> QED BY <2>1, <3>1, <3>2
    <2>3. registry # None => registry.seq \in Nat BY DEF Base, Sound, Snapshot
    <2>4. \A u \in Thread \ {t} : thread'[u] = thread[u] BY <1>1, <1>4, BaseFacts DEF Ends, Control
    <2>5. SUFFICES ASSUME registry # None, Online(registry)
                   PROVE  \/ state'.seq >= registry.seq
                          \/ \E u \in Thread : Storing(u)' /\ Item(u)'.seq >= registry.seq
      BY <1>2 DEF CaughtUp
    <2>6. CASE state.seq >= registry.seq BY <2>1, <2>2, <2>3, <2>5, <2>6
    <2>7. ASSUME NEW u \in Thread, Storing(u), Item(u).seq >= registry.seq
          PROVE  \/ state'.seq >= registry.seq
                 \/ \E w \in Thread : Storing(w)' /\ Item(w)'.seq >= registry.seq
      <3>1. CASE u = t BY <2>1, <2>2, <2>3, <2>5, <2>7, <3>1
      <3>2. CASE u # t
        <4>1. Storing(u)' /\ Item(u)' = Item(u) BY <2>4, <2>7, <3>2 DEF Storing, Todo, Item
        <4> QED BY <2>7, <4>1
      <3> QED BY <3>1, <3>2
    <2> QED BY <2>5, <2>6, <2>7 DEF CaughtUp
  <1> QED BY <1>3, <1>4

\* The other steps of the goroutines.
LEMMA CaughtOther ==
    ASSUME Base, CaughtUp, NEW t \in Thread, Proceed(t), ~register(t), ~store(t)
    PROVE  CaughtUp'
  <1>1. ASSUME registry' = registry, state'.seq = state.seq, NEW l, NEW i,
               \/ Goes(t, l, i) /\ (Storing(t) => l \in {Note, Store} /\ i = Item(t))
               \/ Ends(t) /\ ~Storing(t)
               \/ Overtakes(t, l) /\ ~Storing(t)
        PROVE  CaughtUp'
    <2>1. \A u \in Thread : Storing(u) => thread'[u].todo \in {Note, Store} /\ thread'[u].item = Item(u)
      BY <1>1, StoringGoes
    <2> QED BY <1>1, <2>1, CaughtKept
  <1>2. Todo(t) \notin {Note, Store} => ~Storing(t) BY DEF Storing
  <1>3. CASE projectLatestSnapshot(t)
    <2>1. Todo(t) = HandleSteps /\ \E i : Goes(t, Gate, i) BY <1>3, ProjectMove, BaseFacts
    <2>2. ~Storing(t) BY <1>2, <2>1, HandleLists, ToggleLists
    <2>3. UNCHANGED <<registry, state>> BY <1>3 DEF projectLatestSnapshot, views
    <2> QED BY <1>1, <2>1, <2>2, <2>3
  <1>4. CASE isDeviceDisabled(t)
    <2>1. Todo(t) = Gate /\ \E i : Goes(t, Accept, i) BY <1>4, GateMove, BaseFacts
    <2>2. ~Storing(t) BY <1>2, <2>1, HandleLists, ToggleLists
    <2>3. UNCHANGED <<registry, state>> BY <1>4 DEF isDeviceDisabled, views
    <2> QED BY <1>1, <2>1, <2>2, <2>3
  <1>5. CASE acceptSnapshotSequence(t)
    <2>1. Todo(t) = Accept /\ (Ends(t) \/ Goes(t, Register, Item(t))) BY <1>5, AcceptMove, BaseFacts
    <2>2. ~Storing(t) BY <1>2, <2>1, HandleLists, ToggleLists
    <2>3. UNCHANGED <<registry, state>> BY <1>5 DEF acceptSnapshotSequence, views
    <2> QED BY <1>1, <2>1, <2>2, <2>3
  <1>6. CASE noteSnapshotSequence(t)
    <2>1. Goes(t, Store, Item(t)) BY <1>6, NoteMove, BaseFacts
    <2>2. UNCHANGED <<registry, state>> BY <1>6 DEF noteSnapshotSequence, views
    <2> QED BY <1>1, <2>1, <2>2
  <1>7. CASE resetSnapshotSequence(t)
    <2>1. /\ Todo(t) \in {RefreshSteps, EnableReset, DisableReset, LoadReset}
          /\ Ends(t) \/ \E l : Goes(t, l, Item(t))
      BY <1>7, ResetMove, BaseFacts
    <2>2. ~Storing(t) BY <1>2, <2>1, HandleLists, ToggleLists, LoadLists
    <2>3. UNCHANGED <<registry, state>> BY <1>7 DEF resetSnapshotSequence, views
    <2> QED BY <1>1, <2>1, <2>2, <2>3
  <1>8. CASE markDeviceUnavailable(t)
    <2>1. Todo(t) \in {Mark, LoadMark} /\ (Ends(t) \/ Goes(t, LoadReset, Item(t)))
      BY <1>8, MarkMove, BaseFacts
    <2>2. ~Storing(t) BY <1>2, <2>1, HandleLists, ToggleLists, LoadLists
    <2>3. registry' = registry /\ state'.seq = state.seq BY <1>8, MarkState DEF markDeviceUnavailable
    <2> QED BY <1>1, <2>1, <2>2, <2>3
  <1>9. CASE SetFlag(t)
    <2>1. /\ Todo(t) \in {EnableSteps, DisableSteps}
          /\ Ends(t) \/ Goes(t, EnableReset, Item(t)) \/ Overtakes(t, DisableReset)
      BY <1>9, FlagMove, BaseFacts
    <2>2. ~Storing(t) BY <1>2, <2>1, HandleLists, ToggleLists
    <2>3. UNCHANGED <<registry, state>> BY <1>9 DEF SetFlag, views
    <2> QED BY <1>1, <2>1, <2>2, <2>3
  <1>10. CASE discover(t)
    <2>1. Todo(t) = Discover /\ \E i : Goes(t, EnableRegister, i) BY <1>10, DiscoverMove, BaseFacts
    <2>2. ~Storing(t) BY <1>2, <2>1, HandleLists, ToggleLists
    <2>3. UNCHANGED <<registry, state>> BY <1>10 DEF discover, views
    <2> QED BY <1>1, <2>1, <2>2, <2>3
  <1>11. CASE load(t)
    <2>1. Todo(t) = LoadSteps /\ (Ends(t) \/ Overtakes(t, Take)) BY <1>11, LoadMove, BaseFacts
    <2>2. ~Storing(t) BY <1>2, <2>1, HandleLists, ToggleLists, LoadLists
    <2>3. UNCHANGED <<registry, state>> BY <1>11 DEF load, views
    <2> QED BY <1>1, <2>1, <2>2, <2>3
  <1>12. CASE take(t)
    <2>1. Todo(t) = Take /\ (Ends(t) \/ \E i : Goes(t, LoadRegister, i)) BY <1>12, TakeMove, BaseFacts
    <2>2. ~Storing(t) BY <1>2, <2>1, HandleLists, ToggleLists, LoadLists
    <2>3. UNCHANGED <<registry, state>> BY <1>12 DEF take, views
    <2> QED BY <1>1, <2>1, <2>2, <2>3
  <1> QED BY <1>3, <1>4, <1>5, <1>6, <1>7, <1>8, <1>9, <1>10, <1>11, <1>12 DEF Proceed

LEMMA CaughtStep ==
    ASSUME Base, Ordered, Caught, [Next]_vars
    PROVE  Caught'
  <1> SUFFICES ASSUME Upwards', Numbered' PROVE CaughtUp'
    BY DEF Caught
  <1>1. /\ Upwards
        /\ \/ \E v \in Value, availability \in Reported : Change(v, availability)
           \/ /\ UNCHANGED source
              /\ \/ UNCHANGED vars
                 \/ handleEvent
                 \/ RefreshDevices
                 \/ \E u \in User, enabled \in BOOLEAN : SetDeviceEnabled(u, enabled)
                 \/ saveStateCheckpoint
                 \/ \E t \in Thread : Proceed(t)
    BY UpwardsNext
  <1>2. CASE \E v \in Value, availability \in Reported : Change(v, availability)
    <2>1. PICK v \in Value, availability \in Reported : Change(v, availability) BY <1>2
    <2>2. Numbered BY <2>1, ChangeNumbered
    <2> QED BY <1>1, <2>1, <2>2, CaughtIdle DEF Change, Emit, views, Caught
  <1>3. CASE UNCHANGED source /\ \/ UNCHANGED vars
                                 \/ handleEvent
                                 \/ RefreshDevices
                                 \/ \E u \in User, enabled \in BOOLEAN : SetDeviceEnabled(u, enabled)
                                 \/ saveStateCheckpoint
                                 \/ \E t \in Thread : Proceed(t)
    <2>1. CaughtUp /\ Numbered BY <1>1, <1>3 DEF Caught, Numbered
    <2>2. PICK f \in [Nat -> Value] : Labels(f) BY <1>1, <2>1 DEF Ordered
    <2>3. CASE UNCHANGED vars BY <2>1, <2>3, CaughtIdle DEF vars
    <2>4. CASE handleEvent BY <2>1, <2>4, CaughtStart DEF handleEvent, views, Thread
    <2>5. CASE RefreshDevices BY <2>1, <2>5, CaughtStart DEF RefreshDevices, views, Thread
    <2>6. CASE \E u \in User, enabled \in BOOLEAN : SetDeviceEnabled(u, enabled)
      BY <2>1, <2>6, CaughtStart DEF SetDeviceEnabled, views, Thread
    <2>7. CASE saveStateCheckpoint BY <2>1, <2>7, CaughtIdle DEF saveStateCheckpoint, views
    <2>8. ASSUME NEW t \in Thread, Proceed(t) PROVE CaughtUp'
      <3>1. state.seq >= 1 /\ (Item(t) # None => Item(t).seq >= 1) BY LabelsNumbers, <2>2
      <3> QED BY <2>1, <2>8, <3>1, CaughtRegister, CaughtStore, CaughtOther
    <2> QED BY <1>3, <2>3, <2>4, <2>5, <2>6, <2>7, <2>8
  <1> QED BY <1>1, <1>2, <1>3

\* For every provider that numbers its snapshots upwards and for every interleaving of the
\* worker, refreshes and requests: when nothing is under way, the store holds the value of
\* the registered online snapshot or that of a newer one.  The check, the registration and
\* the store are three critical sections (lines 2038-2063), and whoever registers a
\* snapshot last still offers its value to the store.
THEOREM StoreKeepsUp == Spec => []StoreNotBehind
  <1>1. Init => Caught
    <2> SUFFICES ASSUME Init, Upwards, Numbered PROVE CaughtUp
      BY DEF Caught
    <2>1. PICK f \in [Nat -> Value] : Labels(f) BY InitOrdered DEF Ordered
    <2>2. PICK v \in Value, first \in {0, 1} : source = FirstSnapshot(v, first) BY DEF Init
    <2>3. source.seq = 1 BY <2>2 DEF FirstSnapshot, Numbered
    <2>4. registry = source BY DEF Init
    <2>5. state.seq = 1 BY <2>1, <2>3 DEF Labels, Labelled
    <2> QED BY <2>3, <2>4, <2>5 DEF CaughtUp
  <1>2. Base /\ Ordered /\ Caught => StoreNotBehind
    <2> SUFFICES ASSUME Base, Ordered, Caught, Quiet, Upwards, Numbered, registry # None, Online(registry)
                 PROVE  /\ state # None /\ state.seq >= registry.seq
                        /\ state.seq = registry.seq => state.value = registry.value
      BY DEF StoreNotBehind
    <2>1. \A t \in Thread : ~Storing(t) BY NotEmpty DEF Quiet, Ready, Storing, Todo
    <2>2. PICK f \in [Nat -> Value] : Labels(f) BY DEF Ordered
    <2>3. state.value = f[state.seq] /\ registry.value = f[registry.seq] BY <2>2 DEF Labels, Labelled
    <2> QED BY <2>1, <2>3, BaseFacts DEF Caught, CaughtUp
  <1>3. Base /\ [Next]_vars => Base' BY BaseStep
  <1>4. Base /\ Ordered /\ [Next]_vars => Ordered' BY OrderedStep
  <1>5. Base /\ Ordered /\ Caught /\ [Next]_vars => Caught' BY CaughtStep
  <1> QED BY <1>1, <1>2, <1>3, <1>4, <1>5, InitBase, InitOrdered, PTL DEF Spec
-----------------------------------------------------------------------------
(* A disabled device stays disabled unless something late is written.      *)

\* The lists at whose end the state is marked unavailable, if the snapshot is not online.
Markers == {Accept, Register, Store, Mark, DisableReset, DisableRegister, LoadRegister, LoadMark}

\* Goroutine t will mark the state unavailable.
Marking(t) == Todo(t) \in Markers /\ ~Online(Item(t))

\* The flag is clear until it is loaded.
FlagClear == Todo("main") = LoadSteps => ~disabled

\* Who has seen the flag, or has cleared it before it was set, is late or carries a
\* snapshot of a disabled device.
GateShut == disabled =>
    \A t \in Thread \ {"main"} : Todo(t) \in Past /\ ~thread[t].late => Hidden(Item(t))

\* Once every disabling has registered the device, it stays registered as disabled.
RegistryShut ==
    (/\ disabled /\ ~overtaken
     /\ \A u \in User : Todo(u) \notin {DisableReset, DisableRegister}
     /\ Todo("main") \notin {Take, LoadRegister}
     /\ registry # None) => Hidden(registry)

\* The value of a disabled device is unavailable, or somebody is about to make it so.
StateShut ==
    disabled /\ ~overtaken => ~state.available \/ Todo("main") = Take \/ \E t \in Thread : Marking(t)

\* Until the preferences are applied, only a removal takes the device from the registry.
StartShut ==
    Todo("main") \in {LoadSteps, Take} =>
        /\ registry = None => \/ ~state.available
                              \/ Todo("worker") \in {Store, Mark} /\ ~Online(Item("worker"))
        /\ Todo("worker") = Store /\ Online(Item("worker")) => registry # None

\* The inductive form of DisabledUnlessOvertaken.
Shut == FlagClear /\ GateShut /\ RegistryShut /\ StateShut /\ StartShut

\* Which lists are in which of these sets.
LEMMA Apart ==
    /\ {<<>>, HandleSteps, Gate, RefreshSteps, EnableSteps, DisableSteps} \cap Past = {}
    /\ {<<>>, HandleSteps, Gate, RefreshSteps, EnableSteps, DisableSteps, EnableReset, Discover,
        EnableRegister, Note, LoadSteps, Take, LoadReset} \cap Markers = {}
    /\ {<<>>, HandleSteps, Gate, Accept, Register, Store, Mark, RefreshSteps, EnableSteps, DisableSteps,
        EnableReset, Discover, EnableRegister, Note} \cap {DisableReset, DisableRegister} = {}
    /\ {<<>>, LoadSteps, LoadMark, LoadReset} \cap {Take, LoadRegister} = {}
    /\ {<<>>, LoadRegister, LoadMark, LoadReset} \cap {LoadSteps, Take} = {}
    /\ LoadSteps # Take
    /\ {<<>>, HandleSteps, Gate, Accept, Register, RefreshSteps} \cap {Store, Mark} = {}
    /\ Store # Mark
  <1>1. {<<>>, HandleSteps, Gate, RefreshSteps, EnableSteps, DisableSteps} \cap Past = {}
    BY HandleLists, ToggleLists, NotEmpty, Distinct DEF Past
  <1>2. {<<>>, HandleSteps, Gate, RefreshSteps, EnableSteps, DisableSteps} \cap Markers = {}
    BY HandleLists, ToggleLists, LoadLists, NotEmpty, Distinct DEF Markers
  <1>3. {EnableReset, Discover, EnableRegister, Note} \cap Markers = {}
    BY HandleLists, ToggleLists, LoadLists, NotEmpty, Distinct DEF Markers
  <1>4. {LoadSteps, Take, LoadReset} \cap Markers = {}
    BY HandleLists, ToggleLists, LoadLists, NotEmpty, Distinct DEF Markers
  <1>5. {<<>>, HandleSteps, Gate, Accept, Register, Store, Mark, RefreshSteps, EnableSteps, DisableSteps,
         EnableReset, Discover, EnableRegister, Note} \cap {DisableReset, DisableRegister} = {}
    BY HandleLists, ToggleLists, NotEmpty, Distinct
  <1>6. /\ {<<>>, LoadSteps, LoadMark, LoadReset} \cap {Take, LoadRegister} = {}
        /\ {<<>>, LoadRegister, LoadMark, LoadReset} \cap {LoadSteps, Take} = {}
        /\ LoadSteps # Take
    BY LoadLists, NotEmpty
  <1>7. {<<>>, HandleSteps, Gate, Accept, Register, RefreshSteps} \cap {Store, Mark} = {} /\ Store # Mark
    BY HandleLists, NotEmpty
  <1> QED BY <1>1, <1>2, <1>3, <1>4, <1>5, <1>6, <1>7

\* Nobody but the worker is under way while preferences are loaded.
LEMMA MainAlone ==
    ASSUME Base
    PROVE  \A u \in User \cup {"refresh"} : Todo("main") = <<>> \/ Todo(u) = <<>>
  BY DEF Base, Control

\* Steps that change neither goroutines nor views.
LEMMA ShutIdle ==
    ASSUME Shut, UNCHANGED <<thread, registry, state, disabled, overtaken>>
    PROVE  Shut'
  <1>1. \A t \in Thread : Marking(t) => Marking(t)' BY DEF Marking, Todo, Item
  <1>2. StateShut' BY <1>1 DEF Shut, StateShut, Todo
  <1>3. FlagClear' /\ GateShut' /\ RegistryShut' /\ StartShut'
    BY DEF Shut, FlagClear, GateShut, RegistryShut, StartShut, Todo, Item
  <1> QED BY <1>2, <1>3 DEF Shut

\* Whoever is about to mark the state goes on towards it.
LEMMA MarkingKept ==
    ASSUME NEW t \in Thread, \A u \in Thread \ {t} : thread'[u] = thread[u],
           Marking(t) => thread'[t].todo \in Markers /\ ~Online(thread'[t].item)
    PROVE  \A u \in Thread : Marking(u) => Marking(u)'
  <1> TAKE u \in Thread
  <1>1. CASE u = t BY <1>1 DEF Marking, Todo, Item
  <1>2. CASE u # t BY <1>2 DEF Marking, Todo, Item
  <1> QED BY <1>1, <1>2

LEMMA GateKept ==
    ASSUME GateShut, NEW t \in Thread, disabled' = disabled, \A u \in Thread \ {t} : thread'[u] = thread[u],
           t # "main" /\ disabled /\ thread'[t].todo \in Past /\ ~thread'[t].late => Hidden(thread'[t].item)
    PROVE  GateShut'
  <1>1. ASSUME disabled', NEW u \in Thread \ {"main"}, Todo(u)' \in Past, ~thread'[u].late
        PROVE  Hidden(Item(u)')
    <2>1. CASE u = t BY <1>1, <2>1 DEF Todo, Item
    <2>2. CASE u # t BY <1>1, <2>2 DEF GateShut, Todo, Item
    <2> QED BY <2>1, <2>2
  <1> QED BY <1>1 DEF GateShut, Hidden, Online

\* A step of one goroutine that leaves the views and the flag alone.
LEMMA ShutMoves ==
    ASSUME Base, Shut, NEW t \in Thread \ {"main"},
           \A u \in Thread \ {t} : thread'[u] = thread[u],
           Marking(t) => thread'[t].todo \in Markers /\ ~Online(thread'[t].item),
           disabled /\ thread'[t].todo \in Past /\ ~thread'[t].late => Hidden(thread'[t].item),
           Todo(t) \in {DisableReset, DisableRegister} => thread'[t].todo \in {DisableReset, DisableRegister},
           t = "worker" => Todo(t) \notin {Store, Mark} /\ thread'[t].todo \notin {Store, Mark},
           UNCHANGED <<registry, state, disabled, overtaken>>
    PROVE  Shut'
  <1>1. Todo("main")' = Todo("main") BY DEF Todo, Thread
  <1>2. FlagClear' BY <1>1 DEF Shut, FlagClear
  <1>3. GateShut' BY GateKept DEF Shut
  <1>4. RegistryShut'
    <2>1. ASSUME NEW u \in User, Todo(u) \in {DisableReset, DisableRegister}
          PROVE  Todo(u)' \in {DisableReset, DisableRegister}
      BY <2>1 DEF Todo, Thread
    <2> QED BY <1>1, <2>1 DEF Shut, RegistryShut, Hidden, Online
  <1>5. StateShut'
    <2>1. \A u \in Thread : Marking(u) => Marking(u)' BY MarkingKept
    <2> QED BY <1>1, <2>1 DEF Shut, StateShut
  <1>6. StartShut'
    <2>1. CASE t = "worker" BY <1>1, <2>1, Apart DEF Shut, StartShut, Todo, Item
    <2>2. CASE t # "worker"
      <3>1. thread'["worker"] = thread["worker"] BY <2>2 DEF Thread
      <3> QED BY <1>1, <3>1 DEF Shut, StartShut, Todo, Item
    <2> QED BY <2>1, <2>2
  <1> QED BY <1>2, <1>3, <1>4, <1>5, <1>6 DEF Shut

\* The same of a goroutine that goes on with what it carries.
LEMMA ShutGoes ==
    ASSUME Base, Shut, NEW t \in Thread \ {"main"}, NEW l, Goes(t, l, Item(t)),
           Todo(t) \in Markers => l \in Markers,
           l \in Past => Todo(t) \in Past,
           Todo(t) \in {DisableReset, DisableRegister} => l \in {DisableReset, DisableRegister},
           t = "worker" => Todo(t) \notin {Store, Mark} /\ l \notin {Store, Mark},
           UNCHANGED <<registry, state, disabled, overtaken>>
    PROVE  Shut'
  <1>1. /\ thread'[t].todo = l /\ thread'[t].item = Item(t) /\ thread'[t].late = thread[t].late
        /\ \A u \in Thread \ {t} : thread'[u] = thread[u]
    BY GoesFacts
  <1>2. Marking(t) => thread'[t].todo \in Markers /\ ~Online(thread'[t].item) BY <1>1 DEF Marking
  <1>3. disabled /\ thread'[t].todo \in Past /\ ~thread'[t].late => Hidden(thread'[t].item)
    BY <1>1 DEF Shut, GateShut
  <1> QED BY <1>1, <1>2, <1>3, ShutMoves

\* And of one that ends.
LEMMA ShutEnds ==
    ASSUME Base, Shut, NEW t \in Thread \ {"main"}, Ends(t), ~Marking(t),
           Todo(t) \notin {DisableReset, DisableRegister},
           t = "worker" => Todo(t) \notin {Store, Mark},
           UNCHANGED <<registry, state, disabled, overtaken>>
    PROVE  Shut'
  <1>1. thread'[t].todo = <<>> /\ \A u \in Thread \ {t} : thread'[u] = thread[u] BY EndsFacts
  <1>2. <<>> \notin Past /\ <<>> \notin {Store, Mark} BY Apart
  <1> QED BY <1>1, <1>2, ShutMoves

\* Goroutines that start.
LEMMA ShutStart ==
    ASSUME Base, Shut, NEW t \in Thread \ {"main"}, Ready(t), NEW l, NEW s, Start(t, l, s),
           l \in {HandleSteps, RefreshSteps, EnableSteps, DisableSteps}, t = "worker" => l = HandleSteps,
           UNCHANGED <<registry, state, disabled, overtaken>>
    PROVE  Shut'
  <1>1. thread' = [thread EXCEPT ![t] = [todo |-> l, item |-> s, late |-> FALSE]] BY StartMove
  <1>2. \A u \in Thread \ {t} : thread'[u] = thread[u] BY <1>1, BaseFacts DEF Control
  <1>3. thread'[t].todo = l BY <1>1, BaseFacts DEF Control
  <1>4. Todo(t) = <<>> BY DEF Ready, Todo
  <1>5. <<>> \notin {DisableReset, DisableRegister} /\ <<>> \notin {Store, Mark} /\ HandleSteps \notin {Store, Mark}
    BY Apart
  <1>6. ~Marking(t) /\ l \notin Past BY <1>4, Apart DEF Marking
  <1> QED BY <1>2, <1>3, <1>4, <1>5, <1>6, ShutMoves

LEMMA ShutRestart ==
    ASSUME Base, Restart
    PROVE  Shut'
  <1>1. /\ disabled' = FALSE /\ registry' = source' /\ source' \in Snapshot
        /\ thread'["worker"].todo = <<>> /\ thread'["main"].todo = LoadSteps
    BY RestartFacts DEF Thread
  <1>2. registry' # None BY <1>1, SnapshotAssumption
  <1>3. StartShut' BY <1>1, <1>2, NotEmpty DEF StartShut, Todo
  <1>4. ~disabled' BY <1>1
  <1> QED BY <1>3, <1>4 DEF Shut, FlagClear, GateShut, RegistryShut, StateShut

\* A step of the loading: the others stay as they are.
LEMMA ShutMain ==
    ASSUME Base, Shut, \A u \in Thread \ {"main"} : thread'[u] = thread[u],
           thread'["main"].todo \notin {LoadSteps, Take}, disabled' = disabled,
           disabled => RegistryShut' /\ StateShut'
    PROVE  Shut'
  <1>1. GateShut' BY GateKept DEF Shut, Thread
  <1>2. StartShut' BY DEF StartShut, Todo
  <1>3. FlagClear' BY DEF FlagClear, Todo
  <1>4. RegistryShut' /\ StateShut' BY DEF RegistryShut, StateShut
  <1> QED BY <1>1, <1>2, <1>3, <1>4 DEF Shut

LEMMA ShutProject ==
    ASSUME Base, Shut, NEW t \in Thread, projectLatestSnapshot(t)
    PROVE  Shut'
  <1>1. PICK i : t \in {"worker", "refresh"} /\ Todo(t) = HandleSteps /\ Goes(t, Gate, i)
    BY ProjectMove, BaseFacts
  <1>2. thread'[t].todo = Gate /\ \A u \in Thread \ {t} : thread'[u] = thread[u] BY <1>1, GoesFacts
  <1>3. UNCHANGED <<registry, state, disabled, overtaken>> BY DEF projectLatestSnapshot, views, flags
  <1>4. ~Marking(t) BY <1>1, Apart DEF Marking
  <1>5. Gate \notin Past /\ HandleSteps \notin {DisableReset, DisableRegister} /\ {HandleSteps, Gate} \cap {Store, Mark} = {}
    BY Apart
  <1> QED BY <1>1, <1>2, <1>3, <1>4, <1>5, ShutMoves

LEMMA ShutGate ==
    ASSUME Base, Shut, NEW t \in Thread, isDeviceDisabled(t)
    PROVE  Shut'
  <1> DEFINE i == IF disabled THEN Offline([Item(t) EXCEPT !.disabled = TRUE]) ELSE Item(t)
  <1>1. t \in {"worker", "refresh"} /\ Todo(t) = Gate /\ Goes(t, Accept, i)
    BY GateMove, BaseFacts
  <1>2. Sound(Item(t), source.at) BY <1>1, Carries, NotEmpty
  <1>3. disabled => Hidden(i) BY <1>2, HideSound
  <1> HIDE DEF i
  <1>4. thread'[t].todo = Accept /\ thread'[t].item = i /\ \A u \in Thread \ {t} : thread'[u] = thread[u]
    BY <1>1, GoesFacts
  <1>5. UNCHANGED <<registry, state, disabled, overtaken>> BY DEF isDeviceDisabled, views, flags
  <1>6. ~Marking(t) BY <1>1, Apart DEF Marking
  <1>7. Gate \notin {DisableReset, DisableRegister} /\ {Accept, Gate} \cap {Store, Mark} = {} BY Apart
  <1> QED BY <1>1, <1>3, <1>4, <1>5, <1>6, <1>7, ShutMoves

LEMMA ShutAccept ==
    ASSUME Base, Shut, NEW t \in Thread, acceptSnapshotSequence(t)
    PROVE  Shut'
  <1>1. /\ t \in {"worker", "refresh"} /\ Todo(t) = Accept
        /\ \/ Ends(t) /\ Online(Item(t))
           \/ Goes(t, Register, Item(t))
    BY AcceptMove, BaseFacts
  <1>2. UNCHANGED <<registry, state, disabled, overtaken>> BY DEF acceptSnapshotSequence, views, flags
  <1>3. Accept \notin {DisableReset, DisableRegister} /\ {Accept, Register} \cap {Store, Mark} = {} BY Apart
  <1>4. Accept \in Past /\ Register \in Markers BY DEF Past, Markers
  <1>5. CASE Ends(t) /\ Online(Item(t))
    BY <1>1, <1>2, <1>3, <1>5, ShutEnds DEF Marking
  <1>6. CASE Goes(t, Register, Item(t))
    BY <1>1, <1>2, <1>3, <1>4, <1>6, ShutGoes
  <1> QED BY <1>1, <1>5, <1>6

LEMMA ShutNote ==
    ASSUME Base, Shut, NEW t \in Thread, noteSnapshotSequence(t)
    PROVE  Shut'
  <1>1. t \in User /\ Todo(t) = Note /\ Goes(t, Store, Item(t)) BY NoteMove, BaseFacts
  <1>2. UNCHANGED <<registry, state, disabled, overtaken>> BY DEF noteSnapshotSequence, views, flags
  <1>3. Note \notin {DisableReset, DisableRegister} /\ Note \notin Markers BY Apart
  <1>4. Note \in Past BY DEF Past
  <1> QED BY <1>1, <1>2, <1>3, <1>4, ShutGoes, UserAssumption

LEMMA ShutDiscover ==
    ASSUME Base, Shut, NEW t \in Thread, discover(t)
    PROVE  Shut'
  <1>1. PICK i : t \in User /\ Todo(t) = Discover /\ Goes(t, EnableRegister, i) BY DiscoverMove, BaseFacts
  <1>2. UNCHANGED <<registry, state, disabled, overtaken>> BY DEF discover, views, flags
  <1>3. t # "main" /\ t # "worker" BY <1>1, UserAssumption
  <1>4. /\ thread'[t].todo = EnableRegister /\ thread'[t].late = thread[t].late
        /\ \A u \in Thread \ {t} : thread'[u] = thread[u]
    BY <1>1, GoesFacts
  <1>5. ~Item(t).disabled BY <1>1, UserCarries, BaseFacts
  <1>6. disabled => thread[t].late
    <2>1. Discover \in Past BY DEF Past
    <2> QED BY <1>1, <1>3, <1>5, <2>1 DEF Shut, GateShut, Hidden
  <1>7. ~Marking(t) /\ Discover \notin {DisableReset, DisableRegister} BY <1>1, Apart DEF Marking
  <1> QED BY <1>1, <1>2, <1>3, <1>4, <1>6, <1>7, ShutMoves

LEMMA ShutReset ==
    ASSUME Base, Shut, NEW t \in Thread, resetSnapshotSequence(t)
    PROVE  Shut'
  <1>1. UNCHANGED <<registry, state, disabled, overtaken>> BY DEF resetSnapshotSequence, views, flags
  <1>2. \/ t = "refresh" /\ Todo(t) = RefreshSteps /\ Goes(t, HandleSteps, Item(t))
        \/ t \in User /\ Todo(t) = EnableReset /\ Goes(t, Discover, Item(t))
        \/ t \in User /\ Todo(t) = DisableReset /\ Goes(t, DisableRegister, Item(t))
        \/ t = "main" /\ Todo(t) = LoadReset /\ Ends(t)
    BY ResetMove, BaseFacts
  <1>3. CASE t = "refresh" /\ Todo(t) = RefreshSteps /\ Goes(t, HandleSteps, Item(t))
    <2>1. RefreshSteps \notin Markers /\ HandleSteps \notin Past /\ RefreshSteps \notin {DisableReset, DisableRegister}
      BY Apart
    <2> QED BY <1>1, <1>3, <2>1, ShutGoes
  <1>4. CASE t \in User /\ Todo(t) = EnableReset /\ Goes(t, Discover, Item(t))
    <2>1. EnableReset \notin Markers /\ EnableReset \notin {DisableReset, DisableRegister} BY Apart
    <2>2. EnableReset \in Past BY DEF Past
    <2> QED BY <1>1, <1>4, <2>1, <2>2, ShutGoes, UserAssumption
  <1>5. CASE t \in User /\ Todo(t) = DisableReset /\ Goes(t, DisableRegister, Item(t))
    <2>1. DisableRegister \in Markers /\ DisableReset \in Past BY DEF Markers, Past
    <2> QED BY <1>1, <1>5, <2>1, ShutGoes, UserAssumption
  <1>6. CASE t = "main" /\ Todo(t) = LoadReset /\ Ends(t)
    <2>1. /\ thread'["main"].todo = <<>> /\ \A u \in Thread \ {"main"} : thread'[u] = thread[u]
      BY <1>6, EndsFacts
    <2>2. thread'["main"].todo \notin {LoadSteps, Take} BY <2>1, NotEmpty
    <2>3. RegistryShut'
      <3>1. \A u \in User : Todo(u)' = Todo(u) BY <2>1, UserAssumption DEF Todo, Thread
      <3> QED BY <1>1, <1>6, <3>1, Apart DEF Shut, RegistryShut, Hidden, Online
    <2>4. StateShut'
      <3>1. ~Marking("main") BY <1>6, Apart DEF Marking
      <3>2. \A u \in Thread : Marking(u) => Marking(u)' BY <2>1, <3>1, MarkingKept DEF Thread
      <3>3. Todo("main") # Take BY <1>6, Apart
      <3> QED BY <1>1, <3>2, <3>3 DEF Shut, StateShut
    <2> QED BY <1>1, <2>1, <2>2, <2>3, <2>4, ShutMain
  <1> QED BY <1>2, <1>3, <1>4, <1>5, <1>6

LEMMA ShutRegister ==
    ASSUME Base, Shut, NEW t \in Thread, register(t)
    PROVE  Shut'
  <1>1. /\ UNCHANGED <<state, disabled>>
        /\ registry' = IF Item(t).removed THEN None ELSE Item(t)
        /\ overtaken' = (overtaken \/ thread[t].late)
    BY DEF register, flags, Item
  <1>2. \/ t \in {"worker", "refresh"} /\ Todo(t) = Register /\ Goes(t, Store, Item(t))
        \/ t \in User /\ Todo(t) = EnableRegister /\ Goes(t, Note, Item(t))
        \/ t \in User /\ Todo(t) = DisableRegister /\ Goes(t, Mark, Item(t))
        \/ t = "main" /\ Todo(t) = LoadRegister /\ Goes(t, LoadMark, Item(t))
    BY RegisterMove, BaseFacts
  <1>3. Sound(Item(t), source.at) /\ Item(t) # None BY <1>2, Carries, NotEmpty, UserAssumption
  <1>4. \A u \in Thread \ {t} : thread'[u] = thread[u] BY <1>2, GoesFacts
  <1>5. overtaken' <=> overtaken \/ thread[t].late BY <1>1, BaseFacts
  <1>6. CASE t # "main"
    <2>1. PICK l : /\ Goes(t, l, Item(t)) /\ Todo(t) \in Past
                   /\ Todo(t) \in Markers => l \in Markers
                   /\ t = "worker" => l = Store
      <3>1. {Register, EnableRegister, DisableRegister} \subseteq Past /\ {Store, Mark} \subseteq Markers
        BY DEF Past, Markers
      <3>2. EnableRegister \notin Markers BY Apart
      <3> QED BY <1>2, <1>6, <3>1, <3>2, UserAssumption
    <2>2. thread'[t].todo = l /\ thread'[t].item = Item(t) /\ thread'[t].late = thread[t].late
      BY <2>1, GoesFacts
    <2>3. disabled /\ ~thread[t].late => Hidden(Item(t)) BY <1>6, <2>1 DEF Shut, GateShut
    <2>4. Todo("main")' = Todo("main") BY <1>4, <1>6 DEF Todo, Thread
    <2>5. FlagClear' BY <1>1, <2>4 DEF Shut, FlagClear
    <2>6. GateShut' BY <1>1, <1>4, <2>2, <2>3, GateKept DEF Shut
    <2>7. RegistryShut'
      <3>1. ASSUME disabled', ~overtaken', registry' # None PROVE Hidden(registry')
        BY <1>1, <1>5, <2>3, <3>1
      <3> QED BY <3>1 DEF RegistryShut, Hidden, Online
    <2>8. StateShut'
      <3>1. Marking(t) => thread'[t].todo \in Markers /\ ~Online(thread'[t].item) BY <2>1, <2>2 DEF Marking
      <3>2. \A u \in Thread : Marking(u) => Marking(u)' BY <1>4, <3>1, MarkingKept
      <3> QED BY <1>1, <1>5, <2>4, <3>2 DEF Shut, StateShut
    <2>9. StartShut'
      <3>1. CASE t = "worker"
        <4>1. registry' = None => ~Online(Item(t)) BY <1>1, <1>3 DEF Sound
        <4>2. Online(Item(t)) => registry' # None BY <1>1, <1>3 DEF Sound
        <4> QED BY <2>1, <2>2, <3>1, <4>1, <4>2 DEF StartShut, Todo, Item
      <3>2. CASE t # "worker"
        <4>1. t \in User \cup {"refresh"} BY <1>6, <3>2 DEF Thread
        <4>2. Todo("main") = <<>> BY <1>2, <4>1, MainAlone, NotEmpty
        <4> QED BY <2>4, <4>2, NotEmpty DEF StartShut
      <3> QED BY <3>1, <3>2
    <2> QED BY <2>5, <2>6, <2>7, <2>8, <2>9 DEF Shut
  <1>7. CASE t = "main"
    <2>1. Todo(t) = LoadRegister /\ Goes(t, LoadMark, Item(t)) BY <1>2, <1>7, UserAssumption
    <2>2. thread'["main"].todo = LoadMark /\ thread'["main"].item = Item("main") BY <1>7, <2>1, GoesFacts
    <2>3. thread'["main"].todo \notin {LoadSteps, Take} BY <2>2, Apart
    <2>4. Hidden(Item("main")) BY <1>7, <2>1, UserCarries, BaseFacts
    <2>5. registry' # None => Hidden(registry') BY <1>1, <1>7, <2>4
    <2>6. RegistryShut' BY <2>5 DEF RegistryShut, Hidden, Online
    <2>7. "main" \in Thread /\ Marking("main")' BY <2>2, <2>4 DEF Marking, Markers, Todo, Item, Thread, Hidden
    <2>8. StateShut' BY <2>7 DEF StateShut
    <2> QED BY <1>1, <1>4, <1>7, <2>3, <2>6, <2>8, ShutMain
  <1> QED BY <1>6, <1>7

LEMMA ShutStore ==
    ASSUME Base, Shut, NEW t \in Thread, store(t)
    PROVE  Shut'
  <1>1. UNCHANGED <<registry, disabled>> /\ overtaken' = (overtaken \/ thread[t].late)
    BY DEF store, flags
  <1>2. overtaken' <=> overtaken \/ thread[t].late BY <1>1, BaseFacts
  <1>3. /\ t \in {"worker", "refresh"} \cup User /\ Todo(t) = Store
        /\ IF Online(Item(t)) THEN Ends(t) ELSE Goes(t, Mark, Item(t))
    BY StoreMove, BaseFacts
  <1>4. t # "main" BY <1>3, UserAssumption
  <1>5. \A u \in Thread \ {t} : thread'[u] = thread[u] BY <1>3, GoesFacts, EndsFacts
  <1>6. Store \in Past /\ Mark \in Markers /\ <<>> \notin Past BY Apart DEF Past, Markers
  <1>7. disabled /\ ~thread[t].late => Hidden(Item(t)) BY <1>3, <1>4, <1>6 DEF Shut, GateShut
  <1>8. Todo("main")' = Todo("main") BY <1>4, <1>5 DEF Todo, Thread
  <1>9. FlagClear' BY <1>1, <1>8 DEF Shut, FlagClear
  <1>10. RegistryShut'
    <2>1. \A u \in User : Todo(u) \in {DisableReset, DisableRegister} => Todo(u)' = Todo(u)
      BY <1>3, <1>5, Apart DEF Todo, Thread
    <2> QED BY <1>1, <1>2, <1>8, <2>1 DEF Shut, RegistryShut, Hidden, Online
  <1>11. t # "worker" => Todo("main")' = <<>>
    <2>1. t # "worker" => t \in User \cup {"refresh"} BY <1>3
    <2> QED BY <1>3, <1>8, <2>1, MainAlone, NotEmpty
  <1>12. CASE Online(Item(t))
    <2>1. thread'[t].todo = <<>> BY <1>3, <1>12, EndsFacts
    <2>2. disabled' => overtaken' BY <1>1, <1>2, <1>7, <1>12 DEF Hidden
    <2>3. StateShut' BY <2>2 DEF StateShut
    <2>4. GateShut' BY <1>1, <1>5, <1>6, <2>1, GateKept DEF Shut
    <2>5. StartShut'
      <3>1. CASE t = "worker"
        <4>1. Todo("main") \in {LoadSteps, Take} => registry # None
          BY <1>3, <1>12, <3>1 DEF Shut, StartShut
        <4> QED BY <1>1, <1>8, <4>1 DEF StartShut
      <3>2. CASE t # "worker" BY <1>11, <3>2, NotEmpty DEF StartShut
      <3> QED BY <3>1, <3>2
    <2> QED BY <1>9, <1>10, <2>3, <2>4, <2>5 DEF Shut
  <1>13. CASE ~Online(Item(t))
    <2>1. /\ thread'[t].todo = Mark /\ thread'[t].item = Item(t) /\ thread'[t].late = thread[t].late
      BY <1>3, <1>13, GoesFacts
    <2>2. state' = state BY <1>13, StoreState
    <2>3. StateShut'
      <3>1. \A u \in Thread : Marking(u) => Marking(u)' BY <1>5, <1>6, <1>13, <2>1, MarkingKept
      <3> QED BY <1>1, <1>2, <1>8, <2>2, <3>1 DEF Shut, StateShut
    <2>4. GateShut' BY <1>1, <1>5, <1>7, <2>1, GateKept DEF Shut
    <2>5. StartShut'
      <3>1. CASE t = "worker" BY <1>13, <2>1, <3>1, Apart DEF StartShut, Todo, Item
      <3>2. CASE t # "worker" BY <1>11, <3>2, NotEmpty DEF StartShut
      <3> QED BY <3>1, <3>2
    <2> QED BY <1>9, <1>10, <2>3, <2>4, <2>5 DEF Shut
  <1> QED BY <1>12, <1>13

LEMMA ShutMark ==
    ASSUME Base, Shut, NEW t \in Thread, markDeviceUnavailable(t)
    PROVE  Shut'
  <1>1. UNCHANGED <<registry, disabled, overtaken>> BY DEF markDeviceUnavailable, flags
  <1>2. ~state'.available BY MarkState
  <1>3. \/ t \in {"worker", "refresh"} \cup User /\ Todo(t) = Mark /\ Ends(t)
        \/ t = "main" /\ Todo(t) = LoadMark /\ Goes(t, LoadReset, Item(t))
    BY MarkMove, BaseFacts
  <1>4. \A u \in Thread \ {t} : thread'[u] = thread[u] BY <1>3, GoesFacts, EndsFacts
  <1>5. \/ t # "main" /\ Todo(t) = Mark /\ thread'[t].todo = <<>>
        \/ t = "main" /\ Todo(t) = LoadMark /\ thread'[t].todo = LoadReset
    BY <1>3, GoesFacts, EndsFacts, UserAssumption
  <1>6. StateShut' BY <1>2 DEF StateShut
  <1>7. FlagClear'
    <2>1. CASE t = "main" BY <1>5, <2>1, Apart DEF FlagClear, Todo
    <2>2. CASE t # "main" BY <1>1, <1>4, <2>2 DEF Shut, FlagClear, Todo, Thread
    <2> QED BY <2>1, <2>2
  <1>8. GateShut' BY <1>1, <1>4, <1>5, Apart, GateKept DEF Shut
  <1>9. RegistryShut'
    <2>1. \A u \in User : Todo(u) \in {DisableReset, DisableRegister} => Todo(u)' = Todo(u)
      <3> TAKE u \in User
      <3>1. CASE u = t BY <1>5, <3>1, Apart, UserAssumption
      <3>2. CASE u # t BY <1>4, <3>2 DEF Todo, Thread
      <3> QED BY <3>1, <3>2
    <2>2. Todo("main") \in {Take, LoadRegister} => Todo("main")' = Todo("main")
      <3>1. CASE t = "main" BY <1>5, <3>1, Apart
      <3>2. CASE t # "main" BY <1>4, <3>2 DEF Todo, Thread
      <3> QED BY <3>1, <3>2
    <2> QED BY <1>1, <2>1, <2>2 DEF Shut, RegistryShut, Hidden, Online
  <1>10. StartShut'
    <2>1. CASE t = "main" BY <1>5, <2>1, Apart DEF StartShut, Todo
    <2>2. CASE t # "main"
      <3>1. Todo("main")' = Todo("main") BY <1>4, <2>2 DEF Todo, Thread
      <3>2. Todo("worker")' = Store => Todo("worker") = Store /\ Item("worker")' = Item("worker")
        <4>1. CASE t = "worker" BY <1>5, <4>1, NotEmpty DEF Todo
        <4>2. CASE t # "worker" BY <1>4, <4>2 DEF Todo, Item, Thread
        <4> QED BY <4>1, <4>2
      <3> QED BY <1>1, <1>2, <3>1, <3>2 DEF Shut, StartShut, Online
    <2> QED BY <2>1, <2>2
  <1> QED BY <1>6, <1>7, <1>8, <1>9, <1>10 DEF Shut

\* Who has read the flag before it is set, and has not shown the device as disabled, is late.
LEMMA OvertakesGate ==
    ASSUME Base, NEW t \in User \cup {"main"}, NEW l, Overtakes(t, l),
           t # "main" => Hidden(Item(t))
    PROVE  GateShut'
  <1> SUFFICES ASSUME NEW u \in Thread \ {"main"}, Todo(u)' \in Past, ~thread'[u].late
               PROVE  Hidden(Item(u)')
    BY DEF GateShut, Hidden, Online
  <1>1. CASE u = t
    <2>1. thread[t] \in Goroutine BY <1>1, BaseFacts
    <2>2. Item(u)' = Item(t) BY <1>1, <2>1 DEF Overtakes, Goroutine, Item
    <2> QED BY <1>1, <2>2
  <1>2. CASE u # t
    <2>1. /\ Todo(u)' = Todo(u) /\ Item(u)' = Item(u)
          /\ Todo(u) \in Past /\ ~Item(u).disabled => thread'[u].late
      BY <1>2 DEF Overtakes, Todo, Item
    <2>2. Item(u).disabled BY <2>1
    <2>3. Todo(u) # <<>> BY <2>1, Apart
    <2>4. Sound(Item(u), source.at) BY <2>3, Carries
    <2> QED BY <2>1, <2>2, <2>4 DEF Sound, Hidden
  <1> QED BY <1>1, <1>2

LEMMA ShutFlag ==
    ASSUME Base, Shut, NEW t \in Thread, SetFlag(t)
    PROVE  Shut'
  <1>1. UNCHANGED <<registry, state>> BY DEF SetFlag, views
  <1>2. /\ t \in User /\ Todo(t) \in {EnableSteps, DisableSteps}
        /\ \/ Ends(t) /\ UNCHANGED <<disabled, overtaken>>
           \/ Goes(t, EnableReset, Item(t)) /\ disabled' = FALSE
           \/ Overtakes(t, DisableReset) /\ Hidden(Item(t)) /\ disabled' = TRUE
    BY FlagMove, BaseFacts
  <1>3. t # "main" /\ t # "worker" BY <1>2, UserAssumption
  <1>4. Todo("main") = <<>> BY <1>2, MainAlone, NotEmpty
  <1>5. Todo("main")' = <<>>
    <2>1. CASE Ends(t) BY <1>3, <1>4, <2>1, EndsFacts DEF Todo, Thread
    <2>2. CASE Goes(t, EnableReset, Item(t)) BY <1>3, <1>4, <2>2, GoesFacts DEF Todo, Thread
    <2>3. CASE Overtakes(t, DisableReset) BY <1>3, <1>4, <2>3 DEF Overtakes, Todo, Thread
    <2> QED BY <1>2, <2>1, <2>2, <2>3
  <1>6. StartShut' /\ FlagClear' BY <1>5, NotEmpty DEF StartShut, FlagClear
  <1>7. CASE Ends(t) /\ UNCHANGED <<disabled, overtaken>>
    <2>1. ~Marking(t) /\ Todo(t) \notin {DisableReset, DisableRegister} BY <1>2, Apart DEF Marking
    <2> QED BY <1>1, <1>3, <1>7, <2>1, ShutEnds
  <1>8. CASE Goes(t, EnableReset, Item(t)) /\ disabled' = FALSE
    <2>1. ~disabled' BY <1>8
    <2> QED BY <1>6, <2>1 DEF Shut, GateShut, RegistryShut, StateShut
  <1>9. CASE Overtakes(t, DisableReset) /\ Hidden(Item(t)) /\ disabled' = TRUE
    <2>1. thread[t] \in Goroutine BY BaseFacts
    <2>2. thread'[t].todo = DisableReset /\ thread'[t].item = Item(t)
      BY <1>9, <2>1 DEF Overtakes, Goroutine, Item
    <2>3. GateShut' BY <1>2, <1>9, OvertakesGate
    <2>4. RegistryShut' BY <1>2, <2>2 DEF RegistryShut, Todo
    <2>5. Marking(t)' BY <1>9, <2>2 DEF Marking, Markers, Todo, Item, Hidden
    <2>6. StateShut' BY <2>5 DEF StateShut
    <2> QED BY <1>6, <2>3, <2>4, <2>6 DEF Shut
  <1> QED BY <1>2, <1>7, <1>8, <1>9

LEMMA ShutLoad ==
    ASSUME Base, Shut, NEW t \in Thread, load(t)
    PROVE  Shut'
  <1>1. UNCHANGED <<registry, state, overtaken>> /\ disabled' = persisted BY DEF load, views
  <1>2. t = "main" /\ Todo(t) = LoadSteps /\ IF persisted THEN Overtakes(t, Take) ELSE Ends(t)
    BY LoadMove, BaseFacts
  <1>3. CASE persisted
    <2>1. Overtakes("main", Take) BY <1>2, <1>3
    <2>2. thread["main"] \in Goroutine BY BaseFacts DEF Thread
    <2>3. thread'["main"].todo = Take BY <2>1, <2>2 DEF Overtakes, Goroutine
    <2>4. Todo("worker")' = Todo("worker") /\ Item("worker")' = Item("worker")
      BY <2>1 DEF Overtakes, Todo, Item, Thread
    <2>5. FlagClear' BY <2>3, Apart DEF FlagClear, Todo
    <2>6. GateShut' BY <2>1, OvertakesGate
    <2>7. RegistryShut' /\ StateShut' BY <2>3 DEF RegistryShut, StateShut, Todo
    <2>8. StartShut' BY <1>1, <1>2, <2>4 DEF Shut, StartShut, Online
    <2> QED BY <2>5, <2>6, <2>7, <2>8 DEF Shut
  <1>4. CASE ~persisted
    <2>1. thread'["main"].todo = <<>> BY <1>2, <1>4, EndsFacts
    <2>2. StartShut' BY <2>1, NotEmpty DEF StartShut, Todo
    <2>3. ~disabled' BY <1>1, <1>4
    <2> QED BY <2>2, <2>3 DEF Shut, FlagClear, GateShut, RegistryShut, StateShut
  <1> QED BY <1>3, <1>4

LEMMA ShutTake ==
    ASSUME Base, Shut, NEW t \in Thread, take(t)
    PROVE  Shut'
  <1>1. UNCHANGED <<registry, state, disabled, overtaken>> BY DEF take, views, flags
  <1> DEFINE i == Offline([registry EXCEPT !.disabled = TRUE])
  <1>2. /\ t = "main" /\ Todo(t) = Take
        /\ IF registry = None THEN Ends(t) ELSE Goes(t, LoadRegister, i)
    BY TakeMove, BaseFacts
  <1>3. \A u \in Thread \ {"main"} : thread'[u] = thread[u]
    <2> HIDE DEF i
    <2> QED BY <1>2, GoesFacts, EndsFacts
  <1>4. thread'["worker"] = thread["worker"] BY <1>3 DEF Thread
  <1>5. CASE registry = None
    <2>1. thread'["main"].todo = <<>> BY <1>2, <1>5, EndsFacts
    <2>2. thread'["main"].todo \notin {LoadSteps, Take} BY <2>1, NotEmpty
    <2>3. RegistryShut' BY <1>1, <1>5 DEF RegistryShut
    <2>4. \/ ~state.available
          \/ Todo("worker") \in {Store, Mark} /\ ~Online(Item("worker"))
      BY <1>2, <1>5 DEF Shut, StartShut
    <2>5. Todo("worker") \in {Store, Mark} /\ ~Online(Item("worker")) => Marking("worker")' /\ "worker" \in Thread
      BY <1>4 DEF Marking, Markers, Todo, Item, Thread
    <2>6. StateShut' BY <1>1, <2>4, <2>5 DEF StateShut
    <2> QED BY <1>1, <1>3, <2>2, <2>3, <2>6, ShutMain
  <1>6. CASE registry # None
    <2>1. Hidden(i) BY <1>6, HideSound DEF Base
    <2>2. Goes("main", LoadRegister, i) BY <1>2, <1>6
    <2> HIDE DEF i
    <2>3. thread'["main"].todo = LoadRegister /\ thread'["main"].item = i /\ "main" \in Thread
      BY <2>2, GoesFacts DEF Thread
    <2>4. thread'["main"].todo \notin {LoadSteps, Take} BY <2>3, Apart
    <2>5. RegistryShut' BY <2>3 DEF RegistryShut, Todo
    <2>6. Marking("main")' BY <2>1, <2>3 DEF Marking, Markers, Todo, Item, Hidden
    <2>7. StateShut' BY <2>3, <2>6 DEF StateShut
    <2> QED BY <1>1, <1>3, <2>4, <2>5, <2>7, ShutMain
  <1> QED BY <1>5, <1>6

LEMMA ShutStep ==
    ASSUME Base, Shut, [Next]_vars
    PROVE  Shut'
  <1>1. CASE UNCHANGED vars BY <1>1, ShutIdle DEF vars
  <1>2. CASE \E v \in Value, availability \in Reported : Change(v, availability)
    BY <1>2, ShutIdle DEF Change, Emit, views, flags
  <1>3. CASE \E v \in Value, availability \in Reported, s \in 0..(MaxChanges + 1) : Resend(v, availability, s)
    BY <1>3, ShutIdle DEF Resend, views, flags
  <1>4. CASE Remove BY <1>4, ShutIdle DEF Remove, Emit, views, flags
  <1>5. CASE \E v \in Value : Add(v) BY <1>5, ShutIdle DEF Add, Emit, views, flags
  <1>6. CASE handleEvent
    <2>1. /\ Ready("worker") /\ Start("worker", HandleSteps, Head(queue)) /\ "worker" \in Thread
          /\ UNCHANGED <<registry, state, disabled, overtaken>>
      BY <1>6 DEF handleEvent, views, flags, Thread
    <2> QED BY <2>1, ShutStart
  <1>7. CASE RefreshDevices
    <2>1. /\ Ready("refresh") /\ Start("refresh", RefreshSteps, source) /\ "refresh" \in Thread
          /\ UNCHANGED <<registry, state, disabled, overtaken>>
      BY <1>7 DEF RefreshDevices, views, flags, Thread
    <2> QED BY <2>1, ShutStart
  <1>8. CASE \E u \in User, enabled \in BOOLEAN : SetDeviceEnabled(u, enabled)
    <2>1. PICK u \in User, enabled \in BOOLEAN : SetDeviceEnabled(u, enabled) BY <1>8
    <2>2. PICK l, s : Start(u, l, s) /\ l \in {EnableSteps, DisableSteps} BY <2>1, ToggleMove
    <2>3. Ready(u) /\ UNCHANGED <<registry, state, disabled, overtaken>>
      BY <2>1 DEF SetDeviceEnabled, views, flags
    <2>4. u \in Thread \ {"main"} /\ u # "worker" BY UserAssumption DEF Thread
    <2> QED BY <2>2, <2>3, <2>4, ShutStart
  <1>9. CASE saveStateCheckpoint BY <1>9, ShutIdle DEF saveStateCheckpoint, views, flags
  <1>10. CASE Restart BY <1>10, ShutRestart
  <1>11. ASSUME NEW t \in Thread, Proceed(t) PROVE Shut'
    BY <1>11, ShutProject, ShutGate, ShutAccept, ShutNote, ShutReset, ShutRegister, ShutStore,
       ShutMark, ShutFlag, ShutDiscover, ShutLoad, ShutTake DEF Proceed
  <1> QED BY <1>1, <1>2, <1>3, <1>4, <1>5, <1>6, <1>7, <1>8, <1>9, <1>10, <1>11 DEF Next

\* For every number of overlapping requests and every provider: while no request is under
\* way, a disabled device is registered as disabled and, when nothing is under way, its
\* value is unavailable, unless a snapshot that was checked, or an enabling that cleared
\* the flag, before the flag was set has been written after it.
THEOREM DisabledStaysDisabled == Spec => []DisabledUnlessOvertaken
  <1>1. Init => Shut
    <2> SUFFICES ASSUME Init PROVE Shut
      OBVIOUS
    <2>1. ~disabled /\ Todo("main") = <<>>
      <3>1. thread["main"] = Idle BY DEF Init, Thread
      <3> QED BY <3>1 DEF Init, Idle, Todo
    <2> QED BY <2>1, NotEmpty DEF Shut, FlagClear, GateShut, RegistryShut, StateShut, StartShut
  <1>2. Base /\ Shut => DisabledUnlessOvertaken
    <2> SUFFICES ASSUME Base, Shut, disabled, ~overtaken, \A t \in User \cup {"main"} : Ready(t)
                 PROVE  /\ registry # None => registry.disabled /\ ~Online(registry)
                        /\ Quiet /\ state # None => ~state.available
      BY DEF DisabledUnlessOvertaken
    <2>1. \A t \in User \cup {"main"} : Todo(t) = <<>> BY DEF Ready, Todo
    <2>2. registry # None => Hidden(registry) BY <2>1, Apart DEF Shut, RegistryShut
    <2>3. Quiet => ~state.available
      <3>1. Quiet => \A t \in Thread : Todo(t) = <<>> BY DEF Quiet, Ready, Todo
      <3>2. Quiet => \A t \in Thread : ~Marking(t) BY <3>1, Apart DEF Marking
      <3> QED BY <2>1, <3>2, NotEmpty DEF Shut, StateShut
    <2> QED BY <2>2, <2>3 DEF Hidden
  <1>3. Base /\ [Next]_vars => Base' BY BaseStep
  <1>4. Base /\ Shut /\ [Next]_vars => Shut' BY ShutStep
  <1> QED BY <1>1, <1>2, <1>3, <1>4, InitBase, PTL DEF Spec
-----------------------------------------------------------------------------
(* The worker alone: the registered device never goes back.                *)

\* No refresh, no request, no removal and no restart so far.
Alone == WorkerAlone /\ count.adds = 0 /\ count.boots = 0

\* Then only the worker runs, the device is neither removed nor disabled, and the last
\* sequence is the highest that was registered, except between the acceptance of a
\* snapshot and its registration.
OnlyWorker ==
    /\ \A t \in Thread \ {"worker"} : Todo(t) = <<>>
    /\ ~disabled /\ ~source.removed /\ registry # None
    /\ \A i \in 1..Len(queue) : ~queue[i].removed
    /\ Todo("worker") # <<>> => ~Item("worker").removed

InOrder ==
    /\ Todo("worker") # Register => snapshotSeq = top
    /\ Todo("worker") = Register =>
          /\ ~Online(Item("worker")) => snapshotSeq = 0
          /\ Online(Item("worker")) /\ Item("worker").seq = 0 => snapshotSeq = top
          /\ Online(Item("worker")) /\ Item("worker").seq > 0 =>
                snapshotSeq = Item("worker").seq /\ Item("worker").seq > top
    /\ Todo("worker") \in {Store, Mark} => registry = Item("worker")
    /\ Todo("worker") = Mark => ~Online(Item("worker"))

AloneInv == Alone => OnlyWorker /\ InOrder

\* What may happen while the worker is alone.
LEMMA AloneNext ==
    ASSUME Base, AloneInv, Alone', [Next]_vars
    PROVE  /\ Alone
           /\ \/ UNCHANGED vars
              \/ \E v \in Value, availability \in Reported : Change(v, availability)
              \/ /\ \E v \in Value, availability \in Reported, s \in 0..(MaxChanges + 1) : Resend(v, availability, s)
                 /\ count'.resends > 0
              \/ handleEvent
              \/ saveStateCheckpoint
              \/ projectLatestSnapshot("worker")
              \/ isDeviceDisabled("worker")
              \/ acceptSnapshotSequence("worker")
              \/ register("worker")
              \/ store("worker")
              \/ markDeviceUnavailable("worker")
           /\ count'.resends = 0 => count.resends = 0
  <1>1. count \in Count BY DEF Base, TypeOK
  <1>2. ASSUME NEW f \in {"changes", "resends", "adds", "refreshes", "toggles", "boots"}, NEW max,
               Counted(f, max)
        PROVE  /\ \A g \in {"changes", "resends", "adds", "refreshes", "toggles", "boots"} \ {f} : count'[g] = count[g]
               /\ count'[f] > 0
    BY <1>1, <1>2 DEF Counted, Count
  <1>3. Alone => (\A t \in Thread \ {"worker"} : Todo(t) = <<>>) /\ ~source.removed
    BY DEF AloneInv, OnlyWorker
  <1>4. CASE UNCHANGED vars BY <1>4 DEF vars, Alone, WorkerAlone
  <1>5. CASE \E v \in Value, availability \in Reported : Change(v, availability)
    <2>1. Counted("changes", MaxChanges) BY <1>5 DEF Change
    <2> QED BY <1>2, <1>5, <2>1 DEF Alone, WorkerAlone
  <1>6. CASE \E v \in Value, availability \in Reported, s \in 0..(MaxChanges + 1) : Resend(v, availability, s)
    <2>1. Counted("resends", MaxResends) BY <1>6 DEF Resend
    <2> QED BY <1>2, <1>6, <2>1 DEF Alone, WorkerAlone
  <1>7. CASE Remove
    <2>1. Counted("adds", MaxAdds) BY <1>7 DEF Remove
    <2> QED BY <1>2, <2>1 DEF Alone
  <1>8. CASE \E v \in Value : Add(v)
    <2>1. source.removed /\ count' = count BY <1>8 DEF Add
    <2>2. Alone BY <2>1 DEF Alone, WorkerAlone
    <2> QED BY <1>3, <2>1, <2>2
  <1>9. CASE handleEvent
    <2>1. count' = count BY <1>9 DEF handleEvent
    <2> QED BY <1>9, <2>1 DEF Alone, WorkerAlone
  <1>10. CASE RefreshDevices
    <2>1. Counted("refreshes", MaxRefreshes) BY <1>10 DEF RefreshDevices
    <2> QED BY <1>2, <2>1 DEF Alone, WorkerAlone
  <1>11. CASE \E u \in User, enabled \in BOOLEAN : SetDeviceEnabled(u, enabled)
    <2>1. Counted("toggles", MaxToggles) BY <1>11 DEF SetDeviceEnabled
    <2> QED BY <1>2, <2>1 DEF Alone, WorkerAlone
  <1>12. CASE saveStateCheckpoint
    <2>1. count' = count BY <1>12 DEF saveStateCheckpoint
    <2> QED BY <1>12, <2>1 DEF Alone, WorkerAlone
  <1>13. CASE Restart
    <2>1. Counted("boots", MaxBoots) BY <1>13 DEF Restart
    <2> QED BY <1>2, <2>1 DEF Alone
  <1>14. ASSUME NEW t \in Thread, Proceed(t)
         PROVE  /\ Alone /\ count' = count
                /\ \/ projectLatestSnapshot("worker") \/ isDeviceDisabled("worker")
                   \/ acceptSnapshotSequence("worker") \/ register("worker") \/ store("worker")
                   \/ markDeviceUnavailable("worker")
    <2>1. count' = count BY <1>14, ProceedFrame
    <2>2. Alone BY <2>1 DEF Alone, WorkerAlone
    <2>3. ~Ready(t)
      BY <1>14 DEF Proceed, projectLatestSnapshot, isDeviceDisabled, acceptSnapshotSequence, noteSnapshotSequence,
                   resetSnapshotSequence, register, store, markDeviceUnavailable, SetFlag, discover, load, take, At
    <2>4. t = "worker" BY <1>3, <2>2, <2>3 DEF Ready, Todo
    <2>5. ~noteSnapshotSequence(t) BY <2>4, NoteMove, BaseFacts, UserAssumption
    <2>6. ~resetSnapshotSequence(t) BY <2>4, ResetMove, BaseFacts, UserAssumption
    <2>7. ~SetFlag(t) BY <2>4, FlagMove, BaseFacts, UserAssumption
    <2>8. ~discover(t) BY <2>4, DiscoverMove, BaseFacts, UserAssumption
    <2>9. ~load(t) /\ ~take(t) BY <2>4, LoadMove, TakeMove, BaseFacts
    <2> QED BY <1>14, <2>1, <2>2, <2>4, <2>5, <2>6, <2>7, <2>8, <2>9 DEF Proceed
  <1> QED BY <1>4, <1>5, <1>6, <1>7, <1>8, <1>9, <1>10, <1>11, <1>12, <1>13, <1>14 DEF Next

\* A step of the worker while it is alone.
LEMMA WorkerGoes ==
    ASSUME Base, NEW l, NEW i, Goes("worker", l, i) \/ (Ends("worker") /\ l = <<>>)
    PROVE  /\ Todo("worker")' = l
           /\ Goes("worker", l, i) => Item("worker")' = i
           /\ \A t \in Thread \ {"worker"} : Todo(t)' = Todo(t)
  <1>1. "worker" \in Thread BY DEF Thread
  <1> QED BY <1>1, GoesFacts, EndsFacts DEF Todo, Item

LEMMA AloneStep ==
    ASSUME Base, AloneInv, [Next]_vars
    PROVE  AloneInv'
  <1> SUFFICES ASSUME Alone' PROVE OnlyWorker' /\ InOrder'
    BY DEF AloneInv
  <1>1. Alone BY AloneNext
  <1>2. OnlyWorker /\ InOrder BY <1>1 DEF AloneInv
  <1>3. "worker" \in Thread BY DEF Thread
  <1>4. Todo("worker") # <<>> => Item("worker") \in Snapshot /\ Item("worker") # None /\ Item("worker").seq \in Nat
    BY <1>3, Carries DEF Snapshot
  <1>5. top \in Nat /\ snapshotSeq \in Nat BY BaseFacts
  <1>6. CASE UNCHANGED vars
    BY <1>2, <1>6 DEF vars, OnlyWorker, InOrder, Todo, Item, Online
  <1>7. CASE saveStateCheckpoint
    <2>1. UNCHANGED <<source, queue, thread, disabled, snapshotSeq, registry, top>>
      BY <1>7 DEF saveStateCheckpoint, provider, flags, views
    <2> QED BY <1>2, <2>1 DEF OnlyWorker, InOrder, Todo, Item, Online
  <1>8. ASSUME NEW s, enqueueSnapshot(s), ~s.removed, s \in Snapshot,
               UNCHANGED <<thread, disabled, snapshotSeq, registry, top>>, ~source'.removed
        PROVE  OnlyWorker' /\ InOrder'
    <2>1. \A i \in 1..Len(queue') : ~queue'[i].removed
      <3>1. queue \in Seq(Snapshot) BY DEF Base, TypeOK
      <3>2. CASE queue' = queue BY <1>2, <3>2 DEF OnlyWorker
      <3>3. CASE queue' = Append(queue, s)
        <4>1. Len(queue') = Len(queue) + 1 BY <1>8, <3>1, <3>3
        <4>2. \A i \in 1..Len(queue') : queue'[i] = IF i <= Len(queue) THEN queue[i] ELSE s
          BY <1>8, <3>1, <3>3
        <4> QED BY <1>2, <1>8, <3>1, <4>1, <4>2 DEF OnlyWorker
      <3> QED BY <1>8, <3>2, <3>3 DEF enqueueSnapshot
    <2> QED BY <1>2, <1>8, <2>1 DEF OnlyWorker, InOrder, Todo, Item, Online
  <1>9. ASSUME NEW v \in Value, NEW availability \in Reported, Change(v, availability)
        PROVE  OnlyWorker' /\ InOrder'
    <2> DEFINE n == NextSeq
               m == source.at + 1
               s == [source EXCEPT !.seq = n, !.at = m, !.value = v, !.availability = availability]
    <2>1. source' = s /\ enqueueSnapshot(s) /\ UNCHANGED <<thread, disabled, snapshotSeq, registry, top>>
      BY <1>9 DEF Change, Emit, flags, views
    <2>2. source \in Snapshot /\ n \in Nat /\ m \in Nat /\ availability \in {"online", "offline", "unknown"}
      BY NextSeqTyped, ReportedAssumption DEF Base, TypeOK, Snapshot
    <2> HIDE DEF n, m
    <2>3. s \in Snapshot /\ s.removed = source.removed BY <2>2 DEF Snapshot
    <2> HIDE DEF s
    <2>4. ~s.removed BY <1>2, <2>3 DEF OnlyWorker
    <2> QED BY <1>8, <2>1, <2>3, <2>4
  <1>10. ASSUME NEW v \in Value, NEW availability \in Reported, NEW n \in 0..(MaxChanges + 1),
                Resend(v, availability, n)
         PROVE  OnlyWorker' /\ InOrder'
    <2>1. n \in Nat BY BoundsAssumption
    <2>2. PICK s \in Snapshot, e \in Snapshot : source' = s /\ enqueueSnapshot(e) /\ ~s.removed /\ ~e.removed
      BY <1>10, <2>1, ResentSnapshot
    <2>3. UNCHANGED <<thread, disabled, snapshotSeq, registry, top>> BY <1>10 DEF Resend, flags, views
    <2> QED BY <1>8, <2>2, <2>3
  <1>11. CASE handleEvent
    <2>1. /\ queue \in Seq(Snapshot) /\ queue # <<>> /\ queue' = Tail(queue) /\ Ready("worker")
          /\ Start("worker", HandleSteps, Head(queue))
          /\ UNCHANGED <<source, disabled, snapshotSeq, registry, top>>
      BY <1>11 DEF Base, TypeOK, handleEvent, flags, views
    <2>2. Head(queue) = queue[1] /\ 1 \in 1..Len(queue) BY <2>1
    <2>3. Len(queue') = Len(queue) - 1 /\ \A i \in 1..Len(queue') : queue'[i] = queue[i + 1] /\ i + 1 \in 1..Len(queue)
      BY <2>1
    <2>4. thread' = [thread EXCEPT !["worker"] = [todo |-> HandleSteps, item |-> Head(queue), late |-> FALSE]]
      BY <1>3, <2>1, StartMove
    <2>5. /\ Todo("worker")' = HandleSteps /\ Item("worker")' = Head(queue)
          /\ \A t \in Thread \ {"worker"} : Todo(t)' = Todo(t)
      BY <1>3, <2>4, BaseFacts DEF Todo, Item, Control
    <2>6. OnlyWorker' BY <1>2, <2>1, <2>2, <2>3, <2>5 DEF OnlyWorker
    <2>7. Todo("worker") = <<>> BY <2>1 DEF Ready, Todo
    <2>8. snapshotSeq = top BY <1>2, <2>7, NotEmpty DEF InOrder
    <2>9. HandleSteps \notin {Register, Store, Mark} BY HandleLists
    <2> QED BY <2>1, <2>5, <2>6, <2>8, <2>9 DEF InOrder, Online
  <1>12. CASE projectLatestSnapshot("worker")
    <2>1. PICK i \in {source, Item("worker")} : Todo("worker") = HandleSteps /\ Goes("worker", Gate, i)
      BY <1>3, <1>12, ProjectMove, BaseFacts
    <2>2. Todo("worker")' = Gate /\ Item("worker")' = i /\ \A t \in Thread \ {"worker"} : Todo(t)' = Todo(t)
      BY <2>1, WorkerGoes
    <2>3. UNCHANGED <<source, queue, disabled, snapshotSeq, registry, top>>
      BY <1>12 DEF projectLatestSnapshot, provider, flags, views
    <2>4. ~i.removed BY <1>2, <2>1, NotEmpty DEF OnlyWorker
    <2>5. OnlyWorker' BY <1>2, <2>2, <2>3, <2>4 DEF OnlyWorker
    <2>6. snapshotSeq = top BY <1>2, <2>1, HandleLists DEF InOrder
    <2>7. Gate \notin {Register, Store, Mark} BY HandleLists
    <2> QED BY <2>2, <2>3, <2>5, <2>6, <2>7 DEF InOrder, Online
  <1>13. CASE isDeviceDisabled("worker")
    <2>1. Todo("worker") = Gate /\ Goes("worker", Accept, Item("worker"))
      BY <1>2, <1>3, <1>13, GateMove, BaseFacts DEF OnlyWorker
    <2>2. Todo("worker")' = Accept /\ Item("worker")' = Item("worker") /\ \A t \in Thread \ {"worker"} : Todo(t)' = Todo(t)
      BY <2>1, WorkerGoes
    <2>3. UNCHANGED <<source, queue, disabled, snapshotSeq, registry, top>>
      BY <1>13 DEF isDeviceDisabled, provider, flags, views
    <2>4. OnlyWorker' BY <1>2, <2>1, <2>2, <2>3, NotEmpty DEF OnlyWorker
    <2>5. snapshotSeq = top BY <1>2, <2>1, HandleLists DEF InOrder
    <2>6. Accept \notin {Register, Store, Mark} BY HandleLists
    <2> QED BY <2>2, <2>3, <2>4, <2>5, <2>6 DEF InOrder, Online
  <1>14. CASE acceptSnapshotSequence("worker")
    <2> DEFINE i == Item("worker")
    <2>1. /\ Todo("worker") = Accept
          /\ IF Online(i) /\ i.seq > 0 /\ snapshotSeq > 0 /\ i.seq <= snapshotSeq
             THEN Ends("worker") ELSE Goes("worker", Register, i)
          /\ snapshotSeq' = IF ~Online(i) THEN 0 ELSE IF i.seq > snapshotSeq THEN i.seq ELSE snapshotSeq
      BY <1>3, <1>14, AcceptMove, BaseFacts
    <2>2. UNCHANGED <<source, queue, disabled, registry, top>>
      BY <1>14 DEF acceptSnapshotSequence, provider, flags, views
    <2>3. snapshotSeq = top BY <1>2, <2>1, HandleLists DEF InOrder
    <2>4. i.seq \in Nat /\ ~i.removed BY <1>2, <1>4, <2>1, NotEmpty DEF OnlyWorker
    <2>5. CASE Ends("worker") /\ Online(i) /\ i.seq <= snapshotSeq
      <3>1. Todo("worker")' = <<>> /\ \A t \in Thread \ {"worker"} : Todo(t)' = Todo(t)
        BY <2>5, WorkerGoes
      <3>2. OnlyWorker' BY <1>2, <2>2, <3>1 DEF OnlyWorker
      <3>3. snapshotSeq' = top BY <1>5, <2>1, <2>3, <2>4, <2>5
      <3> QED BY <2>2, <3>1, <3>2, <3>3, NotEmpty DEF InOrder
    <2>6. CASE /\ Goes("worker", Register, i)
               /\ ~(Online(i) /\ i.seq > 0 /\ snapshotSeq > 0 /\ i.seq <= snapshotSeq)
      <3>1. /\ Todo("worker")' = Register /\ Item("worker")' = i
            /\ \A t \in Thread \ {"worker"} : Todo(t)' = Todo(t)
        BY <2>6, WorkerGoes
      <3>2. /\ ~Online(i) => snapshotSeq' = 0
            /\ Online(i) /\ i.seq = 0 => snapshotSeq' = top
            /\ Online(i) /\ i.seq > 0 => snapshotSeq' = i.seq /\ i.seq > top
        BY <1>5, <2>1, <2>3, <2>4, <2>6
      <3>3. Register \notin {Store, Mark} /\ Register # <<>> BY Apart, NotEmpty
      <3> HIDE DEF i
      <3>4. OnlyWorker' BY <1>2, <2>2, <2>4, <3>1 DEF OnlyWorker
      <3> QED BY <2>2, <3>1, <3>2, <3>3, <3>4 DEF InOrder, Online
    <2> QED BY <2>1, <2>5, <2>6
  <1>15. CASE register("worker")
    <2>1. Todo("worker") = Register /\ Goes("worker", Store, Item("worker"))
      BY <1>3, <1>15, RegisterMove, BaseFacts, UserAssumption
    <2>2. /\ Todo("worker")' = Store /\ Item("worker")' = Item("worker")
          /\ \A t \in Thread \ {"worker"} : Todo(t)' = Todo(t)
      BY <2>1, WorkerGoes
    <2>3. ~Item("worker").removed /\ Item("worker") # None BY <1>2, <1>4, <2>1, NotEmpty DEF OnlyWorker
    <2>4. UNCHANGED <<source, queue, disabled, snapshotSeq>> /\ registry' = Item("worker")
      BY <1>15, <2>3 DEF register, provider, flags, Item
    <2>5. OnlyWorker' BY <1>2, <2>2, <2>3, <2>4 DEF OnlyWorker
    <2>6. top' = snapshotSeq
      <3>1. top' = CASE ~Online(Item("worker")) -> 0
                     [] Online(Item("worker")) /\ Item("worker").seq > top -> Item("worker").seq
                     [] OTHER -> top
        BY <1>15 DEF register, Item
      <3>2. CASE ~Online(Item("worker")) BY <1>2, <2>1, <3>1, <3>2 DEF InOrder
      <3>3. CASE Online(Item("worker")) /\ Item("worker").seq > 0
        <4>1. snapshotSeq = Item("worker").seq /\ Item("worker").seq > top BY <1>2, <2>1, <3>3 DEF InOrder
        <4> QED BY <3>1, <3>3, <4>1
      <3>4. CASE Online(Item("worker")) /\ Item("worker").seq = 0
        <4>1. snapshotSeq = top /\ ~(Item("worker").seq > top) BY <1>2, <1>5, <2>1, <3>4 DEF InOrder
        <4> QED BY <3>1, <3>4, <4>1
      <3>5. Item("worker").seq \in Nat BY <1>4, <2>1, NotEmpty
      <3> QED BY <3>2, <3>3, <3>4, <3>5
    <2>7. Store # Register /\ Store # Mark BY Apart
    <2> QED BY <2>2, <2>4, <2>5, <2>6, <2>7 DEF InOrder, Online
  <1>16. CASE store("worker")
    <2>1. /\ Todo("worker") = Store
          /\ IF Online(Item("worker")) THEN Ends("worker") ELSE Goes("worker", Mark, Item("worker"))
      BY <1>3, <1>16, StoreMove, BaseFacts
    <2>2. UNCHANGED <<source, queue, disabled, snapshotSeq, registry, top>>
      BY <1>16 DEF store, provider, flags
    <2>3. snapshotSeq = top /\ registry = Item("worker")
      BY <1>2, <2>1, Apart DEF InOrder
    <2>4. CASE Ends("worker")
      <3>1. Todo("worker")' = <<>> /\ \A t \in Thread \ {"worker"} : Todo(t)' = Todo(t)
        BY <2>4, WorkerGoes
      <3>2. OnlyWorker' BY <1>2, <2>2, <3>1 DEF OnlyWorker
      <3> QED BY <2>2, <2>3, <3>1, <3>2, NotEmpty DEF InOrder, Online
    <2>5. CASE Goes("worker", Mark, Item("worker")) /\ ~Online(Item("worker"))
      <3>1. /\ Todo("worker")' = Mark /\ Item("worker")' = Item("worker")
            /\ \A t \in Thread \ {"worker"} : Todo(t)' = Todo(t)
        BY <2>5, WorkerGoes
      <3>2. OnlyWorker' BY <1>2, <2>1, <2>2, <3>1, NotEmpty DEF OnlyWorker
      <3>3. Mark # Register BY Apart
      <3> QED BY <2>2, <2>3, <2>5, <3>1, <3>2, <3>3 DEF InOrder, Online
    <2> QED BY <2>1, <2>4, <2>5
  <1>17. CASE markDeviceUnavailable("worker")
    <2>1. Todo("worker") = Mark /\ Ends("worker") BY <1>3, <1>17, MarkMove, BaseFacts
    <2>2. UNCHANGED <<source, queue, disabled, snapshotSeq, registry, top>>
      BY <1>17 DEF markDeviceUnavailable, provider, flags
    <2>3. snapshotSeq = top BY <1>2, <2>1, Apart DEF InOrder
    <2>4. Todo("worker")' = <<>> /\ \A t \in Thread \ {"worker"} : Todo(t)' = Todo(t)
      BY <2>1, WorkerGoes
    <2>5. OnlyWorker' BY <1>2, <2>2, <2>4 DEF OnlyWorker
    <2> QED BY <2>2, <2>3, <2>4, <2>5, NotEmpty DEF InOrder, Online
  <1> QED BY <1>6, <1>7, <1>9, <1>10, <1>11, <1>12, <1>13, <1>14, <1>15, <1>16, <1>17, AloneNext

\* Before anything has happened the registered snapshot is the provider's.
LEMMA AloneInit ==
    ASSUME Init
    PROVE  AloneInv
  <1>1. \A t \in Thread : Todo(t) = <<>>
    <2>1. \A t \in Thread : thread[t] = Idle BY DEF Init
    <2> QED BY <2>1 DEF Todo, Idle
  <1>2. PICK v \in Value, first \in {0, 1} : source = FirstSnapshot(v, first) BY DEF Init
  <1>3. source \in Snapshot /\ Online(source) /\ ~source.removed BY <1>2 DEF FirstSnapshot, Snapshot, Online
  <1>4. registry = source /\ registry # None BY <1>3, SnapshotAssumption DEF Init
  <1>5. Len(queue) = 0 /\ ~disabled /\ snapshotSeq = top BY DEF Init
  <1>6. OnlyWorker BY <1>1, <1>3, <1>4, <1>5 DEF OnlyWorker, Thread
  <1>7. InOrder BY <1>1, <1>3, <1>4, <1>5, NotEmpty DEF InOrder, Thread
  <1> QED BY <1>6, <1>7 DEF AloneInv

\* While the worker is alone and the provider does not start again, whatever it repeats,
\* sends out of turn or without a number, and whatever is lost: a numbered snapshot that is
\* registered as online is newer than every numbered one registered since the device was
\* last not online.
THEOREM RegisteredNeverGoesBack == Spec => NeverBackwards
  <1> DEFINE Kept == (/\ registry' # registry /\ registry' # None /\ Online(registry') /\ registry'.seq > 0
                      /\ WorkerAlone' /\ count'.adds = 0 /\ count'.boots = 0)
                         => registry'.seq > top
  <1>1. ASSUME Base, AloneInv, [Next]_vars PROVE Kept
    <2> SUFFICES ASSUME registry' # registry, registry' # None, Online(registry'), registry'.seq > 0, Alone'
                 PROVE  registry'.seq > top
      BY DEF Alone, WorkerAlone
    <2>1. Alone BY <1>1, AloneNext
    <2>2. InOrder /\ OnlyWorker BY <1>1, <2>1 DEF AloneInv
    <2>3. CASE register("worker")
      <3>1. "worker" \in Thread BY DEF Thread
      <3>2. Todo("worker") = Register
        BY <1>1, <2>3, <3>1, RegisterMove, BaseFacts, UserAssumption
      <3>3. ~Item("worker").removed BY <2>2, <3>2, NotEmpty DEF OnlyWorker
      <3>4. registry' = Item("worker") BY <2>3, <3>3 DEF register, Item
      <3> QED BY <2>2, <3>2, <3>4 DEF InOrder, Online
    <2>4. CASE ~register("worker")
      <3>1. registry' = registry
        BY <1>1, <2>4, AloneNext DEF vars, Change, Emit, Resend, handleEvent, saveStateCheckpoint,
               projectLatestSnapshot, isDeviceDisabled, acceptSnapshotSequence, store, markDeviceUnavailable, views
      <3> QED BY <3>1
    <2> QED BY <2>3, <2>4
  <1>2. Base /\ AloneInv /\ [Next]_vars => [Kept]_vars BY <1>1
  <1>3. Base /\ [Next]_vars => Base' BY BaseStep
  <1>4. Base /\ AloneInv /\ [Next]_vars => AloneInv' BY AloneStep
  <1>5. Init => AloneInv BY AloneInit
  <1>6. NeverBackwards <=> [][Kept]_vars BY DEF NeverBackwards
  <1> HIDE DEF Kept
  <1> QED BY <1>2, <1>3, <1>4, <1>5, <1>6, InitBase, PTL DEF Spec
-----------------------------------------------------------------------------
(* The worker alone: the registry and the store agree.                     *)

\* The last sequence while snapshot s of a provider that numbers upwards is registered.
LastOf(s) == IF Online(s) THEN s.seq ELSE 0

\* Snapshot a is older than b, or it is b.
NotAfter(a, b) == a.seq < b.seq \/ a = b

\* The provider has only numbered upwards: its snapshots are queued in that order, and
\* neither they nor the registered one are newer than its own.
QueueUp ==
    /\ \A i \in 1..Len(queue) : NotAfter(queue[i], source)
    /\ \A i, j \in 1..Len(queue) : i < j => queue[i].seq < queue[j].seq
    /\ NotAfter(registry, source)

\* Without a catalog nothing overtakes the queue.
EventsAhead ==
    ~cataloger => \A i \in 1..Len(queue) :
        /\ registry.seq < queue[i].seq
        /\ Todo("worker") # <<>> => Item("worker").seq < queue[i].seq

\* What the worker carries is not older than what is registered.
WorkerUp ==
    /\ Todo("worker") # <<>> => NotAfter(Item("worker"), source)
    /\ Todo("worker") = HandleSteps /\ ~cataloger => registry.seq < Item("worker").seq
    /\ Todo("worker") \in {Gate, Accept, Register} => NotAfter(registry, Item("worker"))

\* The store has nothing newer than the registry, it is strictly behind a device that is
\* offline and an online snapshot about to be stored, and between two events it agrees.
StateUp ==
    /\ state.seq <= registry.seq
    /\ ~Online(registry) => state.seq < registry.seq
    /\ Todo("worker") \in {Register, Store} /\ Online(Item("worker")) => state.seq < Item("worker").seq
    /\ Todo("worker") \notin {Store, Mark} => (state.available <=> Online(registry))
    /\ top = LastOf(registry)

UpInv == Alone /\ count.resends = 0 /\ Numbered => QueueUp /\ EventsAhead /\ WorkerUp /\ StateUp

\* Before anything has happened the store holds the provider's snapshot.
LEMMA UpInit ==
    ASSUME Init
    PROVE  UpInv
  <1> SUFFICES ASSUME Numbered PROVE QueueUp /\ EventsAhead /\ WorkerUp /\ StateUp
    BY DEF UpInv
  <1>1. PICK v \in Value, first \in {0, 1} : source = FirstSnapshot(v, first) BY DEF Init
  <1>2. source.seq = 1 /\ source.value = v /\ Online(source) BY <1>1 DEF FirstSnapshot, Online, Numbered
  <1>3. state.seq = 1 /\ state.available
    <2> DEFINE n == normalize(Report(hub, source.value, "reported", 1, 1, 1, 0))
               w == [n EXCEPT !.version = 1]
    <2>1. n \in StateValue /\ n.seq = 1 /\ n.available BY <1>2, ReportFacts
    <2>2. state = Unversioned(w) BY <1>2 DEF Init, Over
    <2> HIDE DEF n
    <2>3. w \in StateValue /\ w.seq = 1 /\ w.available BY <2>1 DEF StateValue
    <2> HIDE DEF w
    <2> QED BY <2>2, <2>3, UnversionedFacts
  <1>4. Todo("worker") = <<>>
    <2>1. thread["worker"] = Idle BY DEF Init, Thread
    <2> QED BY <2>1 DEF Todo, Idle
  <1>5. registry = source /\ Len(queue) = 0 /\ top = source.seq BY DEF Init
  <1>6. QueueUp BY <1>5 DEF QueueUp, NotAfter
  <1>7. EventsAhead BY <1>5 DEF EventsAhead
  <1>8. WorkerUp BY <1>4, NotEmpty DEF WorkerUp
  <1>9. StateUp BY <1>2, <1>3, <1>4, <1>5, NotEmpty DEF StateUp, LastOf
  <1> QED BY <1>6, <1>7, <1>8, <1>9

\* A new snapshot is newer than everything on its way.
LEMMA UpChange ==
    ASSUME Base, OnlyWorker, Numbered, QueueUp, EventsAhead, WorkerUp, StateUp,
           NEW v \in Value, NEW availability \in Reported, Change(v, availability)
    PROVE  QueueUp' /\ EventsAhead' /\ WorkerUp' /\ StateUp'
  <1> DEFINE n == source.seq + 1
             m == source.at + 1
             s == [source EXCEPT !.seq = n, !.at = m, !.value = v, !.availability = availability]
  <1>1. source \in Snapshot /\ source.seq \in Nat /\ NextSeq = n BY DEF Base, TypeOK, Snapshot, NextSeq, Numbered
  <1>2. n \in Nat /\ m \in Nat /\ availability \in {"online", "offline", "unknown"}
    BY <1>1, ReportedAssumption DEF Snapshot
  <1>3. s \in Snapshot /\ s.seq = source.seq + 1
    <2> HIDE DEF n, m
    <2>1. s \in Snapshot /\ s.seq = n BY <1>1, <1>2 DEF Snapshot
    <2> QED BY <2>1 DEF n
  <1>4. source' = s /\ enqueueSnapshot(s) /\ UNCHANGED <<cataloger, thread, registry, state, top>>
    BY <1>1 DEF Change, Emit, views
  <1> HIDE DEF s
  <1>5. queue \in Seq(Snapshot) BY DEF Base, TypeOK
  <1>6. \A i \in 1..Len(queue) : queue[i].seq \in Nat
    <2>1. \A i \in 1..Len(queue) : queue[i] \in Snapshot BY <1>5
    <2>2. \A x \in Snapshot : x.seq \in Nat BY DEF Snapshot
    <2> QED BY <2>1, <2>2
  <1>7. registry \in Snapshot /\ registry.seq \in Nat BY DEF OnlyWorker, Base, Sound, Snapshot
  <1>8. Todo("worker") # <<>> => Item("worker").seq \in Nat BY Carries DEF Thread, Snapshot
  <1>9. ASSUME NEW a, a.seq \in Nat, NotAfter(a, source) PROVE a.seq < s.seq
    BY <1>1, <1>3, <1>9 DEF NotAfter
  <1>10. /\ \A i \in 1..Len(queue) : queue[i].seq < s.seq
         /\ registry.seq < s.seq
         /\ Todo("worker") # <<>> => Item("worker").seq < s.seq
    BY <1>6, <1>7, <1>8, <1>9 DEF QueueUp, WorkerUp
  <1>11. \/ queue' = queue
         \/ /\ Len(queue') = Len(queue) + 1 /\ Len(queue) \in Nat
            /\ \A i \in 1..Len(queue') : queue'[i] = IF i <= Len(queue) THEN queue[i] ELSE s
    <2>1. queue' = queue \/ queue' = Append(queue, s) BY <1>4 DEF enqueueSnapshot
    <2> QED BY <1>3, <1>5, <2>1
  <1>12. Todo("worker")' = Todo("worker") /\ Item("worker")' = Item("worker") BY <1>4 DEF Todo, Item
  <1>13. QueueUp'
    <2>1. \A i \in 1..Len(queue') : NotAfter(queue'[i], s)
      <3>1. CASE queue' = queue BY <1>10, <3>1 DEF NotAfter
      <3>2. CASE queue' # queue BY <1>10, <1>11, <3>2 DEF NotAfter
      <3> QED BY <3>1, <3>2
    <2>2. \A i, j \in 1..Len(queue') : i < j => queue'[i].seq < queue'[j].seq
      <3>1. CASE queue' = queue BY <3>1 DEF QueueUp
      <3>2. CASE queue' # queue
        <4> SUFFICES ASSUME NEW i \in 1..Len(queue'), NEW j \in 1..Len(queue'), i < j
                     PROVE  queue'[i].seq < queue'[j].seq
          OBVIOUS
        <4>1. i \in 1..Len(queue) /\ queue'[i] = queue[i] BY <1>11, <3>2
        <4>2. CASE j <= Len(queue)
          <5>1. j \in 1..Len(queue) /\ queue'[j] = queue[j] BY <1>11, <3>2, <4>2
          <5> QED BY <4>1, <5>1 DEF QueueUp
        <4>3. CASE ~(j <= Len(queue))
          <5>1. queue'[j] = s BY <1>11, <3>2, <4>3
          <5> QED BY <1>10, <4>1, <5>1
        <4> QED BY <4>2, <4>3
      <3> QED BY <3>1, <3>2
    <2> QED BY <1>4, <1>10, <2>1, <2>2 DEF QueueUp, NotAfter
  <1>14. EventsAhead'
    <2>1. CASE queue' = queue BY <1>4, <1>12, <2>1 DEF EventsAhead
    <2>2. CASE queue' # queue
      <3> SUFFICES ASSUME ~cataloger, NEW i \in 1..Len(queue')
                   PROVE  /\ registry.seq < queue'[i].seq
                          /\ Todo("worker") # <<>> => Item("worker").seq < queue'[i].seq
        BY <1>4, <1>12 DEF EventsAhead
      <3>1. CASE i <= Len(queue)
        <4>1. i \in 1..Len(queue) /\ queue'[i] = queue[i] BY <1>11, <2>2, <3>1
        <4> QED BY <4>1 DEF EventsAhead
      <3>2. CASE ~(i <= Len(queue))
        <4>1. queue'[i] = s BY <1>11, <2>2, <3>2
        <4> QED BY <1>10, <4>1
      <3> QED BY <3>1, <3>2
    <2> QED BY <2>1, <2>2
  <1>15. WorkerUp' BY <1>4, <1>10, <1>12 DEF WorkerUp, NotAfter
  <1>16. StateUp' BY <1>4, <1>12 DEF StateUp, Online, LastOf
  <1> QED BY <1>13, <1>14, <1>15, <1>16

\* The worker takes the oldest event.
LEMMA UpEvent ==
    ASSUME Base, OnlyWorker, QueueUp, EventsAhead, StateUp, handleEvent
    PROVE  QueueUp' /\ EventsAhead' /\ WorkerUp' /\ StateUp'
  <1>1. /\ queue \in Seq(Snapshot) /\ queue # <<>> /\ queue' = Tail(queue) /\ Todo("worker") = <<>>
        /\ Start("worker", HandleSteps, Head(queue))
        /\ UNCHANGED <<source, cataloger, registry, state, top>>
    BY DEF Base, TypeOK, handleEvent, views, Ready, Todo
  <1>2. Head(queue) = queue[1] /\ 1 \in 1..Len(queue) BY <1>1
  <1>3. /\ Len(queue') = Len(queue) - 1
        /\ \A i \in 1..Len(queue') : queue'[i] = queue[i + 1] /\ i + 1 \in 1..Len(queue)
    BY <1>1
  <1>4. "worker" \in Thread BY DEF Thread
  <1>5. thread' = [thread EXCEPT !["worker"] = [todo |-> HandleSteps, item |-> Head(queue), late |-> FALSE]]
    BY <1>1, <1>4, StartMove
  <1>6. Todo("worker")' = HandleSteps /\ Item("worker")' = queue[1]
    BY <1>2, <1>4, <1>5, BaseFacts DEF Todo, Item, Control
  <1>7. \A i \in 1..Len(queue') : queue[1].seq < queue'[i].seq
    <2>1. \A i \in 1..Len(queue') : 1 < i + 1 OBVIOUS
    <2> QED BY <1>2, <1>3, <2>1 DEF QueueUp
  <1>8. QueueUp'
    <2>1. \A i \in 1..Len(queue') : NotAfter(queue'[i], source) BY <1>3 DEF QueueUp
    <2>2. \A i, j \in 1..Len(queue') : i < j => queue'[i].seq < queue'[j].seq
      <3>1. \A i, j \in 1..Len(queue') : i < j => i + 1 < j + 1 OBVIOUS
      <3> QED BY <1>3, <3>1 DEF QueueUp
    <2> QED BY <1>1, <2>1, <2>2 DEF QueueUp, NotAfter
  <1>9. EventsAhead' BY <1>1, <1>3, <1>6, <1>7 DEF EventsAhead
  <1>10. WorkerUp'
    <2>1. HandleSteps \notin {Gate, Accept, Register} BY HandleLists
    <2>2. NotAfter(queue[1], source) /\ (~cataloger => registry.seq < queue[1].seq)
      BY <1>2 DEF QueueUp, EventsAhead
    <2> QED BY <1>1, <1>6, <2>1, <2>2 DEF WorkerUp, NotAfter
  <1>11. StateUp'
    <2>1. HandleSteps \notin {Register, Store, Mark} /\ <<>> \notin {Store, Mark} BY HandleLists, NotEmpty
    <2> QED BY <1>1, <1>6, <2>1 DEF StateUp, Online, LastOf
  <1> QED BY <1>8, <1>9, <1>10, <1>11

\* A step of the worker that moves to list l with item i, or ends: what it must show.
LEMMA UpWorker ==
    ASSUME Base, QueueUp, EventsAhead, NEW l, NEW i,
           Goes("worker", l, i) \/ (Ends("worker") /\ l = <<>>),
           UNCHANGED <<source, cataloger, queue>>,
           registry' # registry => registry' = i,
           l # <<>> \/ registry' # registry =>
              \/ i = Item("worker") /\ Todo("worker") # <<>> /\ NotAfter(i, source)
              \/ i = source /\ cataloger,
           l # HandleSteps,
           l \in {Gate, Accept, Register} => NotAfter(registry', i),
           state'.seq <= registry'.seq,
           ~Online(registry') => state'.seq < registry'.seq,
           l \in {Register, Store} /\ Online(i) => state'.seq < i.seq,
           l \notin {Store, Mark} => (state'.available <=> Online(registry')),
           top' = LastOf(registry')
    PROVE  QueueUp' /\ EventsAhead' /\ WorkerUp' /\ StateUp'
  <1>1. Todo("worker")' = l /\ (Goes("worker", l, i) => Item("worker")' = i) BY WorkerGoes
  <1>2. NotAfter(source, source) BY DEF NotAfter
  <1>3. QueueUp' BY <1>2 DEF QueueUp, NotAfter
  <1>4. EventsAhead' BY <1>1 DEF EventsAhead
  <1>5. WorkerUp' BY <1>1, <1>2, NotEmpty DEF WorkerUp, NotAfter
  <1>6. StateUp' BY <1>1, NotEmpty DEF StateUp, Online, LastOf
  <1> QED BY <1>3, <1>4, <1>5, <1>6

\* The worker's own steps.
LEMMA UpProceed ==
    ASSUME Base, OnlyWorker, InOrder, QueueUp, EventsAhead, WorkerUp, StateUp,
           state.seq >= 1, registry.seq >= 1, Item("worker") # None => Item("worker").seq >= 1,
           \/ projectLatestSnapshot("worker") \/ isDeviceDisabled("worker")
           \/ acceptSnapshotSequence("worker") \/ register("worker") \/ store("worker")
           \/ markDeviceUnavailable("worker")
    PROVE  QueueUp' /\ EventsAhead' /\ WorkerUp' /\ StateUp'
  <1> DEFINE i == Item("worker")
  <1>1. "worker" \in Thread BY DEF Thread
  <1>2. UNCHANGED <<source, cataloger, queue>> BY <1>1, ProceedFrame DEF Proceed
  <1>3. registry \in Snapshot /\ registry.seq \in Nat /\ state.seq \in Nat
    BY BaseFacts DEF OnlyWorker, Base, Sound, Snapshot
  <1>4. Todo("worker") # <<>> => i \in Snapshot /\ i.seq \in Nat /\ i.seq >= 1 /\ NotAfter(i, source)
    BY <1>1, Carries DEF WorkerUp, Snapshot
  <1>5. CASE projectLatestSnapshot("worker")
    <2>1. /\ Todo("worker") = HandleSteps
          /\ Goes("worker", Gate, IF cataloger /\ ~source.removed THEN source ELSE i)
      BY <1>1, <1>5, ProjectMove, BaseFacts
    <2>2. PICK s : s = (IF cataloger /\ ~source.removed THEN source ELSE i) OBVIOUS
    <2>3. (s = i /\ Todo("worker") # <<>> /\ NotAfter(registry, i)) \/ (s = source /\ cataloger)
      BY <2>1, <2>2, NotEmpty DEF WorkerUp, NotAfter, OnlyWorker
    <2>4. NotAfter(registry, s) BY <2>3 DEF QueueUp
    <2>5. UNCHANGED <<registry, state, top>> /\ top = LastOf(registry) BY <1>5 DEF projectLatestSnapshot, views, StateUp
    <2>6. Gate \notin {HandleSteps, Register, Store, Mark} /\ HandleSteps \notin {Store, Mark}
      BY HandleLists
    <2>7. NotAfter(s, source) BY <1>4, <2>3 DEF NotAfter
    <2>8. Goes("worker", Gate, s) BY <2>1, <2>2
    <2>9. /\ state.seq <= registry.seq /\ (~Online(registry) => state.seq < registry.seq)
          /\ state.available <=> Online(registry)
      BY <2>1, <2>6 DEF StateUp
    <2> QED BY <1>2, <2>3, <2>4, <2>5, <2>6, <2>7, <2>8, <2>9, UpWorker
  <1>6. CASE isDeviceDisabled("worker")
    <2>1. Todo("worker") = Gate /\ Goes("worker", Accept, i)
      BY <1>1, <1>6, GateMove, BaseFacts DEF OnlyWorker
    <2>2. UNCHANGED <<registry, state, top>> /\ top = LastOf(registry) BY <1>6 DEF isDeviceDisabled, views, StateUp
    <2>3. Accept \notin {HandleSteps, Register, Store, Mark} /\ Gate \notin {Store, Mark} BY HandleLists
    <2>4. NotAfter(registry, i) BY <2>1 DEF WorkerUp
    <2>5. NotAfter(i, source) /\ Todo("worker") # <<>> BY <1>4, <2>1, NotEmpty
    <2>6. /\ state.seq <= registry.seq /\ (~Online(registry) => state.seq < registry.seq)
          /\ state.available <=> Online(registry)
      BY <2>1, <2>3 DEF StateUp
    <2> HIDE DEF i
    <2>7. i = Item("worker") BY DEF i
    <2> QED BY <1>2, <2>1, <2>2, <2>3, <2>4, <2>5, <2>6, <2>7, UpWorker
  <1>7. CASE acceptSnapshotSequence("worker")
    <2>1. /\ Todo("worker") = Accept
          /\ IF Online(i) /\ i.seq > 0 /\ snapshotSeq > 0 /\ i.seq <= snapshotSeq
             THEN Ends("worker") ELSE Goes("worker", Register, i)
      BY <1>1, <1>7, AcceptMove, BaseFacts
    <2>2. UNCHANGED <<registry, state, top>> /\ top = LastOf(registry) BY <1>7 DEF acceptSnapshotSequence, views, StateUp
    <2>3. Register \notin {HandleSteps, Store, Mark} /\ Accept \notin {Register, Store, Mark}
          /\ <<>> \notin {HandleSteps, Gate, Accept, Register, Store, Mark}
      BY HandleLists, NotEmpty
    <2>4. NotAfter(registry, i) BY <2>1 DEF WorkerUp
    <2>5. NotAfter(i, source) /\ Todo("worker") # <<>> /\ i.seq \in Nat /\ i.seq >= 1 BY <1>4, <2>1, NotEmpty
    <2>6. /\ state.seq <= registry.seq /\ (~Online(registry) => state.seq < registry.seq)
          /\ state.available <=> Online(registry)
      BY <2>1, <2>3 DEF StateUp
    <2>7. snapshotSeq = LastOf(registry) BY <2>1, <2>3 DEF InOrder, StateUp
    <2>8. CASE Ends("worker")
      BY <1>2, <2>2, <2>3, <2>6, <2>8, UpWorker
    <2>9. CASE Goes("worker", Register, i) /\ ~(Online(i) /\ i.seq > 0 /\ snapshotSeq > 0 /\ i.seq <= snapshotSeq)
      <3>1. Online(i) => state.seq < i.seq
        <4>1. CASE Online(registry)
          <5>1. snapshotSeq = registry.seq BY <2>7, <4>1 DEF LastOf
          <5> QED BY <1>3, <2>5, <2>6, <2>9, <5>1
        <4>2. CASE ~Online(registry)
          <5>1. Online(i) => registry.seq < i.seq BY <2>4, <4>2 DEF NotAfter
          <5> QED BY <1>3, <2>5, <2>6, <5>1
        <4> QED BY <4>1, <4>2
      <3> HIDE DEF i
      <3>2. i = Item("worker") BY DEF i
      <3> QED BY <1>2, <2>2, <2>3, <2>4, <2>5, <2>6, <2>9, <3>1, <3>2, UpWorker
    <2> QED BY <2>1, <2>8, <2>9
  <1>8. CASE register("worker")
    <2>1. Todo("worker") = Register /\ Goes("worker", Store, i)
      BY <1>1, <1>8, RegisterMove, BaseFacts, UserAssumption
    <2>2. Store \notin {HandleSteps, Gate, Accept, Register} BY HandleLists
    <2>3. NotAfter(registry, i) BY <2>1 DEF WorkerUp
    <2>4. NotAfter(i, source) /\ Todo("worker") # <<>> /\ i.seq \in Nat /\ i.seq >= 1 BY <1>4, <2>1, NotEmpty
    <2>5. registry' = i /\ state' = state
      BY <1>8, <2>4 DEF register, OnlyWorker, Item
    <2>6. state.seq <= registry.seq /\ (~Online(registry) => state.seq < registry.seq)
      BY DEF StateUp
    <2>7. state.seq <= i.seq BY <1>3, <2>3, <2>4, <2>6 DEF NotAfter
    <2>8. Online(i) => state.seq < i.seq BY <2>1 DEF StateUp
    <2>9. ~Online(i) => state.seq < i.seq BY <1>3, <2>3, <2>4, <2>6 DEF NotAfter
    <2>10. top' = LastOf(i)
      <3>1. top' = CASE ~Online(i) -> 0 [] Online(i) /\ i.seq > top -> i.seq [] OTHER -> top
        BY <1>8 DEF register, Item
      <3>2. CASE ~Online(i) BY <3>1, <3>2 DEF LastOf
      <3>3. CASE Online(i)
        <4>1. i.seq > top BY <2>1, <2>4, <3>3 DEF InOrder
        <4> QED BY <3>1, <3>3, <4>1 DEF LastOf
      <3> QED BY <3>2, <3>3
    <2> HIDE DEF i
    <2>11. i = Item("worker") BY DEF i
    <2>12. (Online(registry') <=> Online(i)) /\ top' = LastOf(registry') BY <2>5, <2>10 DEF LastOf
    <2> QED BY <1>2, <2>1, <2>2, <2>4, <2>5, <2>7, <2>8, <2>9, <2>11, <2>12, UpWorker
  <1>9. CASE store("worker")
    <2>1. Todo("worker") = Store /\ IF Online(i) THEN Ends("worker") ELSE Goes("worker", Mark, i)
      BY <1>1, <1>9, StoreMove, BaseFacts
    <2>2. registry' = registry /\ registry = i /\ top' = top /\ top = LastOf(registry)
      BY <1>9, <2>1 DEF store, InOrder, StateUp
    <2>3. NotAfter(i, source) /\ Todo("worker") # <<>> /\ i.seq \in Nat /\ i.seq >= 1 BY <1>4, <2>1, NotEmpty
    <2>4. Mark \notin {HandleSteps, Gate, Accept, Register, Store}
          /\ <<>> \notin {HandleSteps, Gate, Accept, Register, Store, Mark}
      BY HandleLists, NotEmpty
    <2>5. /\ Online(i) => (state.seq < i.seq => state'.available /\ state'.seq = i.seq)
          /\ ~Online(i) => state' = state
      BY <1>1, <1>9, <2>3, StoreState
    <2>6. /\ Online(i) => state.seq < i.seq
          /\ state.seq <= registry.seq /\ (~Online(registry) => state.seq < registry.seq)
      BY <2>1 DEF StateUp
    <2> HIDE DEF i
    <2>7. i = Item("worker") BY DEF i
    <2>8. CASE Online(i)
      <3>1. Ends("worker") /\ state'.available /\ state'.seq = registry.seq BY <2>1, <2>2, <2>5, <2>6, <2>8
      <3>2. state'.seq <= registry.seq /\ Online(registry) BY <1>3, <2>2, <2>8, <3>1
      <3> QED BY <1>2, <2>2, <2>4, <3>1, <3>2, UpWorker
    <2>9. CASE ~Online(i)
      <3>1. Goes("worker", Mark, i) /\ state' = state BY <2>1, <2>5, <2>9
      <3> QED BY <1>2, <2>2, <2>3, <2>4, <2>6, <2>7, <3>1, UpWorker
    <2> QED BY <2>8, <2>9
  <1>10. CASE markDeviceUnavailable("worker")
    <2>1. Todo("worker") = Mark /\ Ends("worker") BY <1>1, <1>10, MarkMove, BaseFacts
    <2>2. registry' = registry /\ ~Online(registry) /\ top' = top /\ top = LastOf(registry)
      BY <1>10, <2>1 DEF markDeviceUnavailable, InOrder, StateUp
    <2>3. ~state'.available /\ state'.seq = state.seq BY <1>1, <1>10, MarkState
    <2>4. state.seq <= registry.seq /\ state.seq < registry.seq BY <2>2 DEF StateUp
    <2>5. <<>> \notin {HandleSteps, Gate, Accept, Register, Store, Mark} BY NotEmpty
    <2> QED BY <1>2, <2>1, <2>2, <2>3, <2>4, <2>5, UpWorker
  <1> QED BY <1>5, <1>6, <1>7, <1>8, <1>9, <1>10

LEMMA UpStep ==
    ASSUME Base, Ordered, AloneInv, UpInv, [Next]_vars
    PROVE  UpInv'
  <1> SUFFICES ASSUME Alone', count'.resends = 0, Numbered'
               PROVE  QueueUp' /\ EventsAhead' /\ WorkerUp' /\ StateUp'
    BY DEF UpInv
  <1>1. Alone /\ count.resends = 0 /\ Upwards /\ Numbered
    <2>1. Alone /\ count.resends = 0 BY AloneNext
    <2>2. Upwards' BY DEF Alone, Upwards
    <2>3. (\E v \in Value, availability \in Reported : Change(v, availability)) \/ UNCHANGED source
      BY <2>2, UpwardsNext
    <2>4. Numbered BY <2>3, ChangeNumbered DEF Numbered
    <2> QED BY <2>1, <2>4 DEF Alone, Upwards
  <1>2. OnlyWorker /\ InOrder /\ QueueUp /\ EventsAhead /\ WorkerUp /\ StateUp
    BY <1>1 DEF AloneInv, UpInv
  <1>3. state.seq >= 1 /\ registry.seq >= 1 /\ (Item("worker") # None => Item("worker").seq >= 1)
    <2>1. PICK f \in [Nat -> Value] : Labels(f) BY <1>1 DEF Ordered
    <2> QED BY <1>2, <2>1, LabelsNumbers DEF OnlyWorker, Thread
  <1>4. ASSUME UNCHANGED <<source, cataloger, queue, thread, registry, state, top>>
        PROVE  QueueUp' /\ EventsAhead' /\ WorkerUp' /\ StateUp'
    BY <1>2, <1>4 DEF QueueUp, EventsAhead, WorkerUp, StateUp, NotAfter, Todo, Item, Online, LastOf
  <1>5. CASE UNCHANGED vars BY <1>4, <1>5 DEF vars
  <1>6. CASE saveStateCheckpoint BY <1>4, <1>6 DEF saveStateCheckpoint, provider, views
  <1>7. CASE \E v \in Value, availability \in Reported : Change(v, availability)
    BY <1>1, <1>2, <1>7, UpChange
  <1>8. CASE handleEvent BY <1>2, <1>8, UpEvent
  <1>9. ~(count'.resends > 0) OBVIOUS
  <1> QED BY <1>2, <1>5, <1>6, <1>7, <1>8, <1>9, <1>3, AloneNext, UpProceed

\* As long as only the worker changes the device, the provider numbers its snapshots
\* upwards from one and it is neither removed nor started again, for any loss of its
\* events: the queue stays within its capacity, the variables keep their types and, when
\* nothing is under way, the value of the device is available exactly if it is registered
\* as online.
THEOREM ViewsKeepAgreeing == Spec => []PipelineInv
  <1>1. ASSUME Base, AloneInv, UpInv PROVE PipelineInv
    <2>1. TypeOK BY <1>1 DEF Base
    <2>2. ASSUME Quiet, WorkerAlone, Upwards, Numbered, registry # None
          PROVE  state # None /\ (state.available <=> Online(registry))
      <3>1. Alone /\ count.resends = 0 BY <2>2 DEF Alone, Upwards
      <3>2. Todo("worker") = <<>> BY <2>2 DEF Quiet, Ready, Todo, Thread
      <3>3. StateUp BY <1>1, <2>2, <3>1 DEF UpInv
      <3> QED BY <1>1, <3>2, <3>3, BaseFacts, NotEmpty DEF StateUp
    <2> QED BY <2>1, <2>2 DEF PipelineInv, ViewsAgree
  <1>2. Base /\ AloneInv /\ UpInv => PipelineInv BY <1>1
  <1>3. Base /\ [Next]_vars => Base' BY BaseStep
  <1>4. Base /\ Ordered /\ [Next]_vars => Ordered' BY OrderedStep
  <1>5. Base /\ AloneInv /\ [Next]_vars => AloneInv' BY AloneStep
  <1>6. Base /\ Ordered /\ AloneInv /\ UpInv /\ [Next]_vars => UpInv' BY UpStep
  <1>7. Init => AloneInv /\ UpInv BY AloneInit, UpInit
  <1> QED BY <1>2, <1>3, <1>4, <1>5, <1>6, <1>7, InitBase, InitOrdered, PTL DEF Spec
=============================================================================
