-------------------------- MODULE StateStoreProofs --------------------------
(***************************************************************************)
(* TLAPS proofs about StateStore, for every set of keys, values, providers *)
(* and commands.  Every operation replaces a value by one that is honest,  *)
(* owned by nobody and of the next version; the only one that leaves an    *)
(* owner is the optimistic write.  What an operation makes of one value is *)
(* proved once, in the lemmas of the first part.                           *)
(***************************************************************************)
EXTENDS StateStore, TLAPS

MaybeValue == StateValue \cup {None}

\* w may take the place of v.
Succeeds(v, w) ==
    /\ w \in StateValue
    /\ Honest(w)
    /\ v # None => w.version = v.version + 1

\* What a writer took is honest: it may come back as a fallback.
TakenHonest ==
    \A c \in CommandId : taken[c] \notin {None, NotTaken} => Honest(taken[c])

\* The writer that owns a value has read the store: it cannot take another key.
OwnersTook ==
    \A k \in Key : values[k] # None /\ values[k].pending # None =>
        taken[values[k].pending] # NotTaken

IInv == TypeOK /\ AvailabilityHonest /\ OwnerIsOptimistic /\ TakenHonest /\ OwnersTook
-----------------------------------------------------------------------------
(* Operations on one value.                                                *)

\* The version after a value's own is a number.
LEMMA NextVersion ==
    ASSUME NEW v \in StateValue
    PROVE  \E n \in Nat : n = v.version + 1
  BY DEF StateValue

\* A value that is not available has a reason.
LEMMA ReasonOrReason ==
    ASSUME NEW v \in StateValue, NEW r \in Reason
    PROVE  ReasonOr(v, r) \in Reason
  BY DEF ReasonOr, StateValue

\* normalize makes a value honest and keeps its version, quality and owner.
LEMMA NormalizeFacts ==
    ASSUME NEW v \in StateValue
    PROVE  /\ normalize(v) \in StateValue
           /\ Honest(normalize(v))
           /\ normalize(v).version = v.version
           /\ normalize(v).quality = v.quality
           /\ normalize(v).pending = v.pending
  <1> DEFINE n == normalize(v)
             live == v.quality \in LiveQuality /\ Known(v)
  <1>1. CASE live
    <2>1. n = [v EXCEPT !.available = TRUE, !.reason = None]
      BY <1>1 DEF normalize, LiveQuality
    <2>2. /\ n \in StateValue
          /\ n.version = v.version /\ n.quality = v.quality /\ n.pending = v.pending
      BY <2>1 DEF StateValue
    <2>3. n.available = TRUE /\ n.reason = None /\ n.value = v.value
      BY <2>1 DEF StateValue
    <2> HIDE DEF n
    <2>4. Honest(n) BY <1>1, <2>2, <2>3 DEF Honest, Known
    <2>5. QED BY <2>2, <2>4 DEF n
  <1>2. CASE ~live
    <2>1. PICK r \in Reason : n = [v EXCEPT !.available = FALSE, !.reason = r]
      <3>1. ReasonOr(v, "stale") \in Reason /\ ReasonOr(v, "never-reported") \in Reason
        BY ReasonOrReason DEF Reason
      <3>2. CASE v.quality = "stale" BY <1>2, <3>1, <3>2 DEF normalize
      <3>3. CASE v.quality # "stale" BY <1>2, <3>1, <3>3 DEF normalize
      <3>4. QED BY <3>2, <3>3
    <2>2. /\ n \in StateValue
          /\ n.version = v.version /\ n.quality = v.quality /\ n.pending = v.pending
      BY <2>1 DEF StateValue
    <2>3. n.available = FALSE /\ n.reason = r /\ n.value = v.value
      BY <2>1 DEF StateValue
    <2>4. r # None BY NoneAssumption
    <2> HIDE DEF n
    <2>5. Honest(n) BY <1>2, <2>2, <2>3, <2>4 DEF Honest, Known
    <2>6. QED BY <2>2, <2>5 DEF n
  <1>3. QED BY <1>1, <1>2

\* Storing a value over another one.
LEMMA OverFacts ==
    ASSUME NEW v \in MaybeValue, NEW w \in StateValue
    PROVE  /\ Succeeds(v, Over(v, w))
           /\ Over(v, w).quality = w.quality
           /\ Over(v, w).pending = w.pending
  <1> DEFINE n == normalize(w)
             version == IF v = None THEN 1 ELSE v.version + 1
  <1>1. /\ n \in StateValue /\ Honest(n)
        /\ n.quality = w.quality /\ n.pending = w.pending
    BY NormalizeFacts
  <1>2. version \in Nat /\ (v # None => version = v.version + 1)
    BY DEF MaybeValue, StateValue
  <1>3. Over(v, w) = [n EXCEPT !.version = version]
    BY DEF Over
  <1> HIDE DEF n, version
  <1>4. QED BY <1>1, <1>2, <1>3 DEF Succeeds, StateValue, Honest, Known

\* Apply keeps the current value or puts the report in its place.
LEMMA AppliedFacts ==
    ASSUME NEW v \in MaybeValue, NEW w \in StateValue, NEW p, w.pending = None
    PROVE  \/ Applied(v, w, p) = v
           \/ Succeeds(v, Applied(v, w, p)) /\ Applied(v, w, p).pending = None
  BY OverFacts DEF Applied

\* A value that is marked as not current, for a reason, is honest.
LEMMA StaleHonest ==
    ASSUME NEW v, v.available = FALSE, v.quality \in {"stale", "unknown"}, v.reason \in Reason
    PROVE  Honest(v)
  <1>1. v.quality \notin LiveQuality BY DEF LiveQuality
  <1>2. v.reason # None BY NoneAssumption
  <1>3. QED BY <1>1, <1>2 DEF Honest

\* A roll back, with and without a value to go back to.
LEMMA ResolvedFacts ==
    ASSUME NEW v \in StateValue, NEW f \in MaybeValue, f # None => Honest(f)
    PROVE  Succeeds(v, Resolved(v, f)) /\ Resolved(v, f).pending = None
  <1>1. CASE f # None
    <2>1. Resolved(v, f) = [f EXCEPT !.version = v.version + 1, !.pending = None]
      BY <1>1 DEF Resolved
    <2>2. f \in StateValue /\ Honest(f) BY <1>1 DEF MaybeValue
    <2>0. PICK n \in Nat : n = v.version + 1 BY NextVersion
    <2> DEFINE r == Resolved(v, f)
    <2>3. /\ r \in StateValue
          /\ r.version = v.version + 1 /\ r.pending = None
      BY <2>0, <2>1, <2>2 DEF StateValue
    <2>4. /\ r.available = f.available /\ r.reason = f.reason
          /\ r.value = f.value /\ r.quality = f.quality
      BY <2>1, <2>2 DEF StateValue
    <2> HIDE DEF r
    <2>5. Honest(r) BY <2>2, <2>4 DEF Honest, Known
    <2>6. QED BY <2>3, <2>5 DEF Succeeds, r
  <1>2. CASE f = None
    <2>1. Resolved(v, f) =
            [v EXCEPT !.quality = "stale", !.pending = None, !.version = v.version + 1,
                      !.available = FALSE, !.reason = "command-unconfirmed"]
      BY <1>2 DEF Resolved
    <2>0. PICK n \in Nat : n = v.version + 1 BY NextVersion
    <2> DEFINE r == Resolved(v, f)
    <2>2. /\ r \in StateValue
          /\ r.version = v.version + 1 /\ r.pending = None
      BY <2>0, <2>1 DEF StateValue, Quality, Reason
    <2>3. r.available = FALSE /\ r.quality = "stale" /\ r.reason = "command-unconfirmed"
      BY <2>1 DEF StateValue
    <2> HIDE DEF r
    <2>4. Honest(r) BY <2>3, StaleHonest DEF Reason
    <2>5. QED BY <2>2, <2>4 DEF Succeeds, r
  <1>3. QED BY <1>1, <1>2

\* Expiry marks a value and takes its owner away.
LEMMA MarkedStaleFacts ==
    ASSUME NEW v \in StateValue
    PROVE  Succeeds(v, MarkedStale(v)) /\ MarkedStale(v).pending = None
  <1>0. PICK n \in Nat : n = v.version + 1 BY NextVersion
  <1> DEFINE r == MarkedStale(v)
  <1>1. /\ r \in StateValue
        /\ r.version = v.version + 1 /\ r.pending = None
    BY <1>0 DEF MarkedStale, StateValue, Quality, Reason
  <1>2. r.available = FALSE /\ r.quality = "stale" /\ r.reason = "expired"
    BY DEF MarkedStale, StateValue
  <1> HIDE DEF r
  <1>3. Honest(r) BY <1>2, StaleHonest DEF Reason
  <1>4. QED BY <1>1, <1>3 DEF Succeeds, r

\* So does the outage of its device or of its capability ...
LEMMA UnavailableFacts ==
    ASSUME NEW v \in StateValue, NEW r0 \in Reason
    PROVE  Succeeds(v, Unavailable(v, r0)) /\ Unavailable(v, r0).pending = None
  <1>0. PICK n \in Nat : n = v.version + 1 BY NextVersion
  <1> DEFINE r == Unavailable(v, r0)
  <1>1. /\ r \in StateValue
        /\ r.version = v.version + 1 /\ r.pending = None
    BY <1>0 DEF Unavailable, StateValue, Quality
  <1>2. r.available = FALSE /\ r.quality \in {"stale", "unknown"} /\ r.reason = r0
    BY DEF Unavailable, StateValue
  <1> HIDE DEF r
  <1>3. Honest(r) BY <1>2, StaleHonest
  <1>4. QED BY <1>1, <1>3 DEF Succeeds, r

\* ... which leaves a value alone that it has already marked.
LEMMA MadeUnavailableFacts ==
    ASSUME NEW v \in MaybeValue, NEW r \in Reason
    PROVE  \/ MadeUnavailable(v, r) = v
           \/ /\ Succeeds(v, MadeUnavailable(v, r))
              /\ MadeUnavailable(v, r).pending = None
  BY UnavailableFacts DEF MadeUnavailable, MaybeValue

\* A restored value is honest and owned by nobody, whatever the checkpoint held.
LEMMA RestoredFacts ==
    ASSUME NEW v \in StateValue
    PROVE  /\ Restored(v) \in StateValue
           /\ Honest(Restored(v))
           /\ Restored(v).pending = None
  <1> DEFINE w == [v EXCEPT !.quality = "stale", !.available = FALSE, !.reason = "stale",
                            !.pending = None, !.expires = 0,
                            !.version = IF v.version = 0 THEN 1 ELSE v.version]
  <1>1. w \in StateValue /\ w.pending = None
    BY DEF StateValue, Quality, Reason
  <1>2. Restored(v) = normalize(w)
    BY NoneAssumption DEF Restored
  <1> HIDE DEF w
  <1>3. QED BY <1>1, <1>2, NormalizeFacts
-----------------------------------------------------------------------------
(* The values that enter the store.                                        *)

\* The report of a provider is a value nobody owns.
LEMMA ReportFacts ==
    ASSUME NEW p \in Provider, NEW v \in Value, now \in Nat, NEW r \in Reports(p, v)
    PROVE  r \in StateValue /\ r.pending = None
  <1>1. PICK q \in {"reported", "polled"}, s \in 0..MaxSeq, observed \in 1..now,
             expires \in {0, now + 1} : r = Report(p, v, q, s, observed, now, expires)
    BY DEF Reports
  <1>2. q \in Quality /\ s \in Nat /\ observed \in Nat /\ expires \in Nat
    BY BoundAssumption DEF Quality
  <1>3. QED BY <1>1, <1>2 DEF Report, StateValue

\* The optimistic value of a command is owned by it.
LEMMA OptimisticFacts ==
    ASSUME NEW p \in Provider \cup {None}, NEW v \in Value, NEW c \in CommandId,
           NEW created \in Nat, NEW deadline \in Nat
    PROVE  /\ Optimistic(p, v, c, created, deadline) \in StateValue
           /\ Optimistic(p, v, c, created, deadline).quality = "optimistic"
           /\ Optimistic(p, v, c, created, deadline).pending = c
  BY DEF Optimistic, StateValue, Quality

\* The placeholder of a property without report is owned by nobody.
LEMMA UnknownFacts ==
    ASSUME NEW p \in Provider, NEW reason \in Reason, NEW at \in Nat
    PROVE  /\ Unknown(p, reason, at) \in StateValue
           /\ Unknown(p, reason, at).pending = None
  BY DEF Unknown, StateValue, Quality
-----------------------------------------------------------------------------
(* Steps.                                                                  *)

\* The step VersionOrdersChanges allows.
VersionStep ==
    \A k \in Key :
        (values[k] # None /\ values'[k] # values[k] /\ boots' = boots)
            => values'[k] # None /\ values'[k].version = values[k].version + 1

\* The value of k stays, or another one nobody owns takes its place.
Keeps(k) ==
    \/ values'[k] = values[k]
    \/ Succeeds(values[k], values'[k]) /\ values'[k].pending = None

\* A step that keeps the writers preserves the invariant when it does so for every
\* key.
LEMMA KeepsStep ==
    ASSUME IInv, values' \in [Key -> MaybeValue], \A k \in Key : Keeps(k),
           UNCHANGED <<taken, target, written, boots>>,
           priority' \in Priorities, saved' \in [Key -> MaybeValue], now' \in Nat
    PROVE  IInv' /\ VersionStep
  <1>1. TypeOK'
    BY DEF IInv, TypeOK, MaybeValue
  <1>2. AvailabilityHonest'
    BY DEF IInv, AvailabilityHonest, Keeps, Succeeds
  <1>3. OwnerIsOptimistic'
    BY DEF IInv, OwnerIsOptimistic, Keeps
  <1>4. TakenHonest'
    BY DEF IInv, TakenHonest
  <1>5. OwnersTook'
    BY DEF IInv, OwnersTook, Keeps
  <1>6. VersionStep
    BY NoneAssumption DEF VersionStep, Keeps, Succeeds
  <1>7. QED BY <1>1, <1>2, <1>3, <1>4, <1>5, <1>6 DEF IInv

\* The invariant as the facts the steps start from.
LEMMA IInvFacts ==
    ASSUME IInv
    PROVE  /\ values \in [Key -> MaybeValue] /\ saved \in [Key -> MaybeValue]
           /\ priority \in Priorities /\ now \in Nat /\ boots \in Nat
           /\ taken \in [CommandId -> MaybeValue \cup {NotTaken}]
  BY DEF IInv, TypeOK, MaybeValue

\* Steps that leave every value alone.
LEMMA IdleStep ==
    ASSUME IInv, UNCHANGED <<values, taken, target, written, boots>>,
           priority' \in Priorities, saved' \in [Key -> MaybeValue], now' \in Nat
    PROVE  IInv' /\ VersionStep
  <1>1. \A k \in Key : Keeps(k) BY DEF Keeps
  <1>2. values' \in [Key -> MaybeValue] BY IInvFacts
  <1>3. QED BY <1>1, <1>2, KeepsStep

\* A report.
LEMMA ApplyStep ==
    ASSUME IInv, NEW k \in Key, NEW r \in StateValue, r.pending = None, Apply(k, r)
    PROVE  IInv' /\ VersionStep
  <1> DEFINE w == Applied(values[k], r, priority)
  <1>1. values[k] \in MaybeValue BY IInvFacts
  <1>2. w = values[k] \/ (Succeeds(values[k], w) /\ w.pending = None)
    BY <1>1, AppliedFacts
  <1>3. w \in MaybeValue
    BY <1>1, <1>2 DEF Succeeds, MaybeValue
  <1>4. values' = [values EXCEPT ![k] = w]
    BY DEF Apply
  <1> HIDE DEF w
  <1>5. values' \in [Key -> MaybeValue] /\ \A j \in Key : Keeps(j)
    BY <1>2, <1>3, <1>4, IInvFacts DEF Keeps
  <1>6. QED BY <1>5, IInvFacts, KeepsStep DEF Apply

\* The placeholder of a property without report.
LEMMA EnsureUnknownStep ==
    ASSUME IInv, NEW k \in Key, NEW p \in Provider, NEW reason \in Reason,
           EnsureUnknown(k, p, reason)
    PROVE  IInv' /\ VersionStep
  <1> DEFINE w == Over(None, Unknown(p, reason, now))
  <1>1. Unknown(p, reason, now) \in StateValue /\ Unknown(p, reason, now).pending = None
    BY UnknownFacts, IInvFacts
  <1>2. Succeeds(None, w) /\ w.pending = None
    BY <1>1, OverFacts DEF MaybeValue
  <1>3. values[k] = None /\ values' = [values EXCEPT ![k] = w]
    BY DEF EnsureUnknown
  <1> HIDE DEF w
  <1>4. values' \in [Key -> MaybeValue] /\ \A j \in Key : Keeps(j)
    BY <1>2, <1>3, IInvFacts DEF Keeps, Succeeds, MaybeValue
  <1>5. QED BY <1>4, IInvFacts, KeepsStep DEF EnsureUnknown

\* The writer that reads the store owns nothing yet, and what it reads is honest.
LEMMA GetStep ==
    ASSUME IInv, NEW c \in CommandId, NEW k \in Key, Get(c, k)
    PROVE  IInv' /\ VersionStep
  <1>1. TypeOK'
    BY DEF IInv, TypeOK, Get
  <1>2. AvailabilityHonest' /\ VersionStep
    BY DEF IInv, AvailabilityHonest, VersionStep, Get
  <1>3. \A j \in Key : values[j] # None /\ values[j].pending # None => values[j].pending # c
    BY DEF IInv, OwnersTook, Get
  <1>4. \A j \in Key : values[j] # None => values[j].pending \in CommandId \cup {None}
    BY DEF IInv, TypeOK, StateValue
  <1>5. OwnerIsOptimistic'
    BY <1>3, <1>4 DEF IInv, TypeOK, OwnerIsOptimistic, Get
  <1>6. OwnersTook'
    BY <1>3, <1>4 DEF IInv, TypeOK, OwnersTook, Get
  <1>7. TakenHonest'
    BY DEF IInv, TypeOK, TakenHonest, AvailabilityHonest, Get
  <1>8. QED BY <1>1, <1>2, <1>5, <1>6, <1>7 DEF IInv

\* The only step that makes an owner: the value is optimistic and under the key its
\* writer has read.
LEMMA ApplyOptimisticStep ==
    ASSUME IInv, NEW c \in CommandId, NEW v \in Value, NEW ttl \in Nat,
           ApplyOptimistic(c, v, ttl)
    PROVE  IInv' /\ VersionStep
  <1> DEFINE p == IF taken[c] = None THEN CommandProvider ELSE taken[c].provider
             o == Optimistic(p, v, c, now, now + ttl)
             k == target[c]
             w == Over(values[k], o)
  <1>1. p \in Provider \cup {None}
    BY CommandProviderAssumption, IInvFacts DEF ApplyOptimistic, MaybeValue, StateValue
  <1>2. now \in Nat /\ now + ttl \in Nat BY IInvFacts
  <1>3. values' = [values EXCEPT ![k] = w] /\ taken[c] # NotTaken
    BY DEF ApplyOptimistic
  <1> HIDE DEF p
  <1>4. o \in StateValue /\ o.quality = "optimistic" /\ o.pending = c
    BY <1>1, <1>2, OptimisticFacts
  <1> HIDE DEF o
  <1>5. ASSUME k \in Key
        PROVE  Succeeds(values[k], w) /\ w.quality = "optimistic" /\ w.pending = c
    <2>1. values[k] \in MaybeValue BY <1>5, IInvFacts
    <2>2. QED BY <2>1, <1>4, OverFacts
  <1> HIDE DEF w
  <1>6. \A j \in Key : values'[j] = IF j = k THEN w ELSE values[j]
    BY <1>3, IInvFacts
  <1>7. values' \in [Key -> MaybeValue]
    BY <1>3, <1>5, IInvFacts DEF Succeeds, MaybeValue
  <1>8. TypeOK'
    BY <1>7 DEF IInv, TypeOK, MaybeValue, ApplyOptimistic
  <1>9. AvailabilityHonest'
    BY <1>5, <1>6 DEF IInv, AvailabilityHonest, Succeeds
  <1>10. OwnerIsOptimistic'
    BY <1>5, <1>6 DEF IInv, OwnerIsOptimistic, ApplyOptimistic
  <1>11. OwnersTook'
    BY <1>3, <1>5, <1>6 DEF IInv, OwnersTook, ApplyOptimistic
  <1>12. TakenHonest'
    BY DEF IInv, TakenHonest, ApplyOptimistic
  <1>13. VersionStep
    BY <1>5, <1>6, NoneAssumption DEF VersionStep, Succeeds
  <1>14. QED BY <1>8, <1>9, <1>10, <1>11, <1>12, <1>13 DEF IInv

\* The roll back of an optimistic value, or its end without one.
LEMMA ResolveOptimisticStep ==
    ASSUME IInv, NEW c \in CommandId, NEW f \in MaybeValue, f # None => Honest(f),
           ResolveOptimistic(c, f)
    PROVE  IInv' /\ VersionStep
  <1>1. PICK k \in Key : /\ values[k] # None
                         /\ values' = [values EXCEPT ![k] = Resolved(values[k], f)]
    BY DEF ResolveOptimistic
  <1> DEFINE w == Resolved(values[k], f)
  <1>2. values[k] \in StateValue BY <1>1, IInvFacts DEF MaybeValue
  <1>3. Succeeds(values[k], w) /\ w.pending = None
    BY <1>2, ResolvedFacts
  <1>4. values' = [values EXCEPT ![k] = w] BY <1>1
  <1> HIDE DEF w
  <1>5. values' \in [Key -> MaybeValue] /\ \A j \in Key : Keeps(j)
    BY <1>3, <1>4, IInvFacts DEF Keeps, Succeeds, MaybeValue
  <1>6. QED BY <1>5, IInvFacts, KeepsStep DEF ResolveOptimistic

\* The expiry scan.
LEMMA MarkStaleStep ==
    ASSUME IInv, NEW at, MarkStale(at)
    PROVE  IInv' /\ VersionStep
  <1>1. ASSUME NEW k \in Key PROVE Keeps(k) /\ values'[k] \in MaybeValue
    <2>1. values'[k] = IF Expired(values[k], at) THEN MarkedStale(values[k]) ELSE values[k]
      BY DEF MarkStale
    <2>2. CASE ~Expired(values[k], at)
      BY <2>1, <2>2, IInvFacts DEF Keeps
    <2>3. CASE Expired(values[k], at)
      <3>1. values[k] \in StateValue BY <2>3, IInvFacts DEF Expired, MaybeValue
      <3>2. QED BY <2>1, <2>3, <3>1, MarkedStaleFacts DEF Keeps, Succeeds, MaybeValue
    <2>4. QED BY <2>2, <2>3
  <1>2. values' \in [Key -> MaybeValue]
    BY <1>1 DEF MarkStale
  <1>3. QED BY <1>1, <1>2, IInvFacts, KeepsStep DEF MarkStale

\* The outage of a device or of a capability.
LEMMA MarkUnavailableStep ==
    ASSUME IInv, NEW keys, NEW reason \in Reason, MarkUnavailable(keys, reason)
    PROVE  IInv' /\ VersionStep
  <1>1. ASSUME NEW k \in Key PROVE Keeps(k) /\ values'[k] \in MaybeValue
    <2>1. values'[k] = IF k \in keys THEN MadeUnavailable(values[k], reason) ELSE values[k]
      BY DEF MarkUnavailable
    <2>2. values[k] \in MaybeValue BY IInvFacts
    <2>3. QED BY <2>1, <2>2, MadeUnavailableFacts DEF Keeps, Succeeds, MaybeValue
  <1>2. values' \in [Key -> MaybeValue]
    BY <1>1 DEF MarkUnavailable
  <1>3. QED BY <1>1, <1>2, IInvFacts, KeepsStep DEF MarkUnavailable

\* A restart takes the owners away with their writers.
LEMMA RestoreStep ==
    ASSUME IInv, RestoreCheckpoint
    PROVE  IInv' /\ VersionStep
  <1>1. ASSUME NEW k \in Key
        PROVE  \/ values'[k] = None
               \/ values'[k] \in StateValue /\ Honest(values'[k]) /\ values'[k].pending = None
    <2>1. values'[k] = Restored(saved[k]) BY DEF RestoreCheckpoint
    <2>2. CASE saved[k] = None
      BY <2>1, <2>2 DEF Restored
    <2>3. CASE saved[k] # None
      <3>1. saved[k] \in StateValue BY <2>3, IInvFacts DEF MaybeValue
      <3>2. QED BY <2>1, <3>1, RestoredFacts
    <2>4. QED BY <2>2, <2>3
  <1>2. values' \in [Key -> MaybeValue]
    BY <1>1 DEF RestoreCheckpoint, MaybeValue
  <1>3. boots' = boots + 1 /\ boots' \in Nat /\ boots' # boots
    BY IInvFacts DEF RestoreCheckpoint
  <1>4. TypeOK'
    BY <1>2, <1>3 DEF IInv, TypeOK, MaybeValue, RestoreCheckpoint
  <1>5. AvailabilityHonest' /\ OwnerIsOptimistic' /\ OwnersTook'
    BY <1>1 DEF AvailabilityHonest, OwnerIsOptimistic, OwnersTook
  <1>6. TakenHonest'
    BY DEF TakenHonest, RestoreCheckpoint
  <1>7. VersionStep BY <1>3 DEF VersionStep
  <1>8. QED BY <1>4, <1>5, <1>6, <1>7 DEF IInv
-----------------------------------------------------------------------------
\* The store starts empty.
LEMMA InitIInv == Init => IInv
  BY PriorityAssumption DEF Init, IInv, TypeOK, AvailabilityHonest, OwnerIsOptimistic,
                            TakenHonest, OwnersTook

\* Every operation preserves the invariant and orders the change it makes.
LEMMA StepIInv ==
    ASSUME IInv, [Next]_vars
    PROVE  IInv' /\ (VersionStep \/ UNCHANGED vars)
  <1>0. "device-offline" \in Reason /\ "disabled" \in Reason
        /\ "control-provider-offline" \in Reason /\ 1 \in Nat
    BY DEF Reason
  <1>1. CASE \E p \in Priorities : SetPriorityResolver(p)
    BY <1>1, IdleStep, IInvFacts DEF SetPriorityResolver
  <1>2. CASE \E k \in Key, p \in Provider \ {CommandProvider}, v \in Value :
                 \E r \in Reports(p, v) : Apply(k, r)
    BY <1>2, ApplyStep, ReportFacts, IInvFacts
  <1>3. CASE \E k \in Key, p \in Provider \ {CommandProvider} :
                 EnsureUnknown(k, p, "device-offline")
    BY <1>0, <1>3, EnsureUnknownStep
  <1>4. CASE \E c \in CommandId, k \in Key : Get(c, k)
    BY <1>4, GetStep
  <1>5. CASE \E c \in CommandId, v \in Value : ApplyOptimistic(c, v, 1)
    BY <1>0, <1>5, ApplyOptimisticStep
  <1>6. CASE \E c \in CommandId : ResolveOptimistic(c, taken[c]) \/ ResolveOptimistic(c, None)
    <2>1. PICK c \in CommandId : ResolveOptimistic(c, taken[c]) \/ ResolveOptimistic(c, None)
      BY <1>6
    <2>2. taken[c] \in MaybeValue /\ (taken[c] # None => Honest(taken[c]))
      BY <2>1, IInvFacts DEF ResolveOptimistic, IInv, TakenHonest
    <2>3. None \in MaybeValue BY DEF MaybeValue
    <2>4. QED BY <2>1, <2>2, <2>3, ResolveOptimisticStep
  <1>7. CASE \E at \in 1..now : MarkStale(at)
    BY <1>7, MarkStaleStep
  <1>8. CASE \E d \in Device, reason \in {"device-offline", "disabled"} :
                 MarkDeviceUnavailable(d, reason)
    BY <1>0, <1>8, MarkUnavailableStep DEF MarkDeviceUnavailable
  <1>9. CASE \E k \in Key : MarkCapabilityUnavailable(k)
    BY <1>0, <1>9, MarkUnavailableStep DEF MarkCapabilityUnavailable
  <1>10. CASE Checkpoint
    BY <1>10, IdleStep, IInvFacts DEF Checkpoint
  <1>11. CASE RestoreCheckpoint
    BY <1>11, RestoreStep
  <1>12. CASE Tick
    BY <1>12, IdleStep, IInvFacts DEF Tick
  <1>13. CASE UNCHANGED vars
    <2>1. IInv'
      BY <1>13 DEF vars, IInv, TypeOK, AvailabilityHonest, OwnerIsOptimistic, TakenHonest,
                   OwnersTook
    <2>2. QED BY <2>1, <1>13
  <1>14. QED
    BY <1>1, <1>2, <1>3, <1>4, <1>5, <1>6, <1>7, <1>8, <1>9, <1>10, <1>11, <1>12, <1>13
    DEF Next
-----------------------------------------------------------------------------
\* The inductive invariant holds in every reachable state.
THEOREM Inductive == Spec => []IInv
  <1>1. IInv /\ [Next]_vars => IInv' BY StepIInv
  <1>2. QED BY <1>1, InitIInv, PTL DEF Spec

\* The variables of the store keep their types.
THEOREM TypeCorrect == Spec => []TypeOK
  <1>1. IInv => TypeOK BY DEF IInv
  <1>2. QED BY <1>1, Inductive, PTL

\* Every stored value shows itself as current exactly when it is: store.go keeps
\* value, quality, availability and reason consistent through reports, roll backs,
\* expiry, outages and restarts.
THEOREM AvailabilityIsHonest == Spec => []AvailabilityHonest
  <1>1. IInv => AvailabilityHonest BY DEF IInv
  <1>2. QED BY <1>1, Inductive, PTL

\* A value a command owns is its optimistic value under the key it writes, so that
\* ResolveOptimistic never rolls back a value that came after it.
THEOREM OwnersAreOptimistic == Spec => []OwnerIsOptimistic
  <1>1. IInv => OwnerIsOptimistic BY DEF IInv
  <1>2. QED BY <1>1, Inductive, PTL

\* The stored values are well formed, honest and owned only by the command that wrote
\* them, for any properties, providers, writers and times: what the store run checks
\* for one property.
THEOREM StoreIsSound == Spec => []StoreInv
  <1>1. IInv => StoreInv BY DEF IInv, StoreInv
  <1>2. QED BY <1>1, Inductive, PTL

\* Between two restarts every change of a value raises its version by one.
THEOREM VersionsOrderChanges == Spec => VersionOrdersChanges
  <1>1. IInv /\ [Next]_vars => [VersionStep]_vars BY StepIInv
  <1>2. QED BY <1>1, Inductive, PTL DEF Spec, VersionOrdersChanges, VersionStep
-----------------------------------------------------------------------------
(* The order of sequenced reports.                                         *)

\* An optimistic value has no sequence: a report that replaces it whatever the other
\* criteria say does not go behind a sequenced one.
Unsequenced(v) == v.quality = "optimistic" => v.seq = 0

\* It holds of what is stored and of what a writer may roll back to.
SeqInv ==
    /\ \A k \in Key : values[k] # None => Unsequenced(values[k])
    /\ \A c \in CommandId : taken[c] \notin {None, NotTaken} => Unsequenced(taken[c])

\* w takes the place of v in the order of their sequences.
Ordered(v, w) ==
    (SequenceDecides(v, w) /\ w.quality \in {"reported", "polled"}) => w.seq > v.seq

\* The step SequenceOrder allows.
SequenceStep ==
    \A k \in Key :
        (/\ values[k] # None /\ values'[k] # values[k] /\ boots' = boots
         /\ SequenceDecides(values[k], values'[k])
         /\ values'[k].quality \in {"reported", "polled"})
            => values'[k].seq > values[k].seq

\* The value of k stays, or one in order takes its place.
InOrder(k) ==
    \/ values'[k] = values[k]
    \/ Unsequenced(values'[k]) /\ (values[k] # None => Ordered(values[k], values'[k]))

\* A step that keeps every key in order and what the writers took.
LEMMA InOrderStep ==
    ASSUME SeqInv, UNCHANGED taken, \A k \in Key : InOrder(k)
    PROVE  SeqInv' /\ SequenceStep
  <1>1. SeqInv' BY DEF SeqInv, InOrder
  <1>2. SequenceStep BY DEF SequenceStep, InOrder, Ordered
  <1>3. QED BY <1>1, <1>2

\* normalize and the next version leave alone what the order looks at.
LEMMA OverOrder ==
    ASSUME NEW v \in MaybeValue, NEW w \in StateValue
    PROVE  /\ Over(v, w).seq = w.seq /\ normalize(w).seq = w.seq
           /\ Over(v, w).provider = w.provider /\ normalize(w).provider = w.provider
           /\ Over(v, w).quality = w.quality /\ normalize(w).quality = w.quality
  <1> DEFINE n == normalize(w)
             version == IF v = None THEN 1 ELSE v.version + 1
  <1>1. n \in StateValue /\ n.quality = w.quality BY NormalizeFacts
  <1>2. n.seq = w.seq /\ n.provider = w.provider
    <2>1. CASE w.quality \in LiveQuality /\ Known(w)
      BY <2>1 DEF normalize, StateValue
    <2>2. CASE ~(w.quality \in LiveQuality /\ Known(w)) /\ w.quality = "stale"
      BY <2>2 DEF normalize, StateValue
    <2>3. CASE ~(w.quality \in LiveQuality /\ Known(w)) /\ w.quality # "stale"
      BY <2>3 DEF normalize, StateValue
    <2>4. QED BY <2>1, <2>2, <2>3
  <1>3. Over(v, w) = [n EXCEPT !.version = version] BY DEF Over
  <1> HIDE DEF n, version
  <1>4. /\ Over(v, w).seq = n.seq /\ Over(v, w).provider = n.provider
        /\ Over(v, w).quality = n.quality
    BY <1>1, <1>3 DEF StateValue
  <1>5. QED BY <1>1, <1>2, <1>4 DEF n

\* compareLocked accepts a sequenced value of the same provider over a sequenced one
\* only in order: the priority does not decide between a provider and itself, and the
\* value that any report replaces has no sequence.
LEMMA AcceptsOrder ==
    ASSUME NEW v \in StateValue, NEW w \in StateValue, NEW p,
           Unsequenced(v), SequenceDecides(v, w), Accepts(v, w, p)
    PROVE  w.seq > v.seq
  <1>1. v.seq # 0 /\ v.provider = w.provider
    BY DEF SequenceDecides, StateValue
  <1>2. ~ReportOverOptimistic(v, w)
    BY <1>1 DEF ReportOverOptimistic, Unsequenced
  <1>3. ~PriorityDecides(v, w, p)
    BY <1>1 DEF PriorityDecides
  <1>4. QED BY <1>2, <1>3 DEF Accepts

\* A report is stored in order or not at all.
LEMMA AppliedOrder ==
    ASSUME NEW v \in MaybeValue, NEW w \in StateValue, NEW p,
           v # None => Unsequenced(v), Unsequenced(w)
    PROVE  \/ Applied(v, w, p) = v
           \/ /\ Unsequenced(Applied(v, w, p))
              /\ v # None => Ordered(v, Applied(v, w, p))
  <1> DEFINE o == Over(v, w)
             n == normalize(w)
  <1>1. /\ o.seq = w.seq /\ n.seq = w.seq /\ o.provider = w.provider
        /\ n.provider = w.provider /\ o.quality = w.quality /\ n.quality = w.quality
    BY OverOrder
  <1>2. n \in StateValue BY NormalizeFacts
  <1>3. Applied(v, w, p) = IF v # None /\ ~Accepts(v, n, p) THEN v ELSE o
    BY DEF Applied
  <1> HIDE DEF o, n
  <1>4. Unsequenced(o) BY <1>1 DEF Unsequenced
  <1>5. ASSUME v # None, Accepts(v, n, p)
        PROVE  Ordered(v, o)
    <2>1. SUFFICES ASSUME SequenceDecides(v, o) PROVE o.seq > v.seq
      BY DEF Ordered
    <2>2. SequenceDecides(v, n) BY <1>1, <2>1 DEF SequenceDecides
    <2>3. n.seq > v.seq
      BY <1>2, <1>5, <2>2, AcceptsOrder DEF MaybeValue
    <2>4. QED BY <1>1, <2>3
  <1>6. QED BY <1>3, <1>4, <1>5

\* The reports of a provider are not optimistic.
LEMMA ReportsUnsequenced ==
    ASSUME NEW p, NEW v, NEW r \in Reports(p, v)
    PROVE  Unsequenced(r)
  BY DEF Reports, Report, Unsequenced

\* A report.
LEMMA ApplyOrder ==
    ASSUME IInv, SeqInv, NEW k \in Key, NEW r \in StateValue, Unsequenced(r), Apply(k, r)
    PROVE  SeqInv' /\ SequenceStep
  <1> DEFINE w == Applied(values[k], r, priority)
  <1>1. values[k] \in MaybeValue BY IInvFacts
  <1>2. values[k] # None => Unsequenced(values[k]) BY DEF SeqInv
  <1>3. w = values[k] \/ (Unsequenced(w) /\ (values[k] # None => Ordered(values[k], w)))
    BY <1>1, <1>2, AppliedOrder
  <1>4. values' = [values EXCEPT ![k] = w] /\ UNCHANGED taken
    BY DEF Apply
  <1> HIDE DEF w
  <1>5. \A j \in Key : InOrder(j)
    BY <1>3, <1>4, IInvFacts DEF InOrder
  <1>6. QED BY <1>4, <1>5, InOrderStep

\* A value that is no report is in order.
LEMMA NoReportOrder ==
    ASSUME NEW v, NEW w,
           \/ w.quality \in {"stale", "unknown"}
           \/ w.seq = 0 /\ w.quality = "optimistic"
    PROVE  Unsequenced(w) /\ Ordered(v, w)
  BY DEF Unsequenced, Ordered

\* The placeholder of a property without report.
LEMMA EnsureUnknownOrder ==
    ASSUME IInv, SeqInv, NEW k \in Key, NEW p \in Provider, NEW reason \in Reason,
           EnsureUnknown(k, p, reason)
    PROVE  SeqInv' /\ SequenceStep
  <1> DEFINE w == Over(None, Unknown(p, reason, now))
  <1>1. Unknown(p, reason, now) \in StateValue /\ Unknown(p, reason, now).quality = "unknown"
    <2>1. Unknown(p, reason, now) \in StateValue BY UnknownFacts, IInvFacts
    <2>2. QED BY <2>1 DEF Unknown
  <1>2. w.quality = "unknown"
    BY <1>1, OverFacts DEF MaybeValue
  <1>3. values[k] = None /\ values' = [values EXCEPT ![k] = w] /\ UNCHANGED taken
    BY DEF EnsureUnknown
  <1> HIDE DEF w
  <1>4. \A j \in Key : InOrder(j)
    BY <1>2, <1>3, IInvFacts, NoReportOrder DEF InOrder
  <1>5. QED BY <1>3, <1>4, InOrderStep

\* An optimistic value has no sequence.
LEMMA ApplyOptimisticOrder ==
    ASSUME IInv, SeqInv, NEW c \in CommandId, NEW v \in Value, NEW ttl \in Nat,
           ApplyOptimistic(c, v, ttl)
    PROVE  SeqInv' /\ SequenceStep
  <1> DEFINE p == IF taken[c] = None THEN CommandProvider ELSE taken[c].provider
             o == Optimistic(p, v, c, now, now + ttl)
             k == target[c]
             w == Over(values[k], o)
  <1>1. p \in Provider \cup {None}
    BY CommandProviderAssumption, IInvFacts DEF ApplyOptimistic, MaybeValue, StateValue
  <1>2. now \in Nat /\ now + ttl \in Nat BY IInvFacts
  <1>3. values' = [values EXCEPT ![k] = w] /\ UNCHANGED taken
    BY DEF ApplyOptimistic
  <1> HIDE DEF p
  <1>4. o \in StateValue /\ o.quality = "optimistic"
    BY <1>1, <1>2, OptimisticFacts
  <1>5. o.seq = 0 BY DEF Optimistic
  <1> HIDE DEF o
  <1>6. ASSUME k \in Key
        PROVE  w.seq = 0 /\ w.quality = "optimistic"
    <2>1. values[k] \in MaybeValue BY <1>6, IInvFacts
    <2>2. QED BY <2>1, <1>4, <1>5, OverOrder
  <1> HIDE DEF w
  <1>7. \A j \in Key : values'[j] = IF j = k THEN w ELSE values[j]
    BY <1>3, IInvFacts
  <1>8. \A j \in Key : InOrder(j)
    BY <1>6, <1>7, NoReportOrder DEF InOrder
  <1>9. QED BY <1>3, <1>8, InOrderStep

\* A roll back replaces an optimistic value, which has no sequence.
LEMMA ResolveOptimisticOrder ==
    ASSUME IInv, SeqInv, NEW c \in CommandId, NEW f \in MaybeValue,
           f # None => Unsequenced(f), ResolveOptimistic(c, f)
    PROVE  SeqInv' /\ SequenceStep
  <1>1. PICK k \in Key : /\ values[k] # None /\ values[k].pending = c
                         /\ values' = [values EXCEPT ![k] = Resolved(values[k], f)]
    BY DEF ResolveOptimistic
  <1> DEFINE v == values[k]
             w == Resolved(v, f)
  <1>2. v \in StateValue /\ v.quality = "optimistic"
    BY <1>1, IInvFacts, NoneAssumption DEF MaybeValue, IInv, OwnerIsOptimistic
  <1>3. v.seq = 0 BY <1>1, <1>2 DEF SeqInv, Unsequenced
  <1>4. Unsequenced(w)
    <2>1. CASE f # None
      <3>1. w = [f EXCEPT !.version = v.version + 1, !.pending = None]
        BY <2>1 DEF Resolved
      <3>2. w.quality = f.quality /\ w.seq = f.seq
        BY <3>1, <2>1 DEF MaybeValue, StateValue
      <3>3. QED BY <3>2, <2>1 DEF Unsequenced
    <2>2. CASE f = None
      <3>1. w.quality = "stale" BY <1>2, <2>2 DEF Resolved, StateValue
      <3>2. QED BY <3>1 DEF Unsequenced
    <2>3. QED BY <2>1, <2>2
  <1>5. values' = [values EXCEPT ![k] = w] BY <1>1
  <1>6. Ordered(v, w) BY <1>3 DEF Ordered, SequenceDecides
  <1> HIDE DEF w
  <1>7. \A j \in Key : InOrder(j)
    BY <1>4, <1>5, <1>6, IInvFacts DEF InOrder
  <1>8. QED BY <1>7, InOrderStep DEF ResolveOptimistic

\* The expiry scan makes no reports.
LEMMA MarkStaleOrder ==
    ASSUME IInv, SeqInv, NEW at, MarkStale(at)
    PROVE  SeqInv' /\ SequenceStep
  <1>1. ASSUME NEW k \in Key PROVE InOrder(k)
    <2>1. values'[k] = IF Expired(values[k], at) THEN MarkedStale(values[k]) ELSE values[k]
      BY DEF MarkStale
    <2>2. CASE ~Expired(values[k], at)
      BY <2>1, <2>2 DEF InOrder
    <2>3. CASE Expired(values[k], at)
      <3>1. values[k] \in StateValue BY <2>3, IInvFacts DEF Expired, MaybeValue
      <3>2. MarkedStale(values[k]).quality = "stale" BY <3>1 DEF MarkedStale, StateValue
      <3>3. QED BY <2>1, <2>3, <3>2, NoReportOrder DEF InOrder
    <2>4. QED BY <2>2, <2>3
  <1>2. QED BY <1>1, InOrderStep DEF MarkStale

\* Neither does an outage.
LEMMA MarkUnavailableOrder ==
    ASSUME IInv, SeqInv, NEW keys, NEW reason \in Reason, MarkUnavailable(keys, reason)
    PROVE  SeqInv' /\ SequenceStep
  <1>1. ASSUME NEW k \in Key PROVE InOrder(k)
    <2>1. values'[k] = IF k \in keys THEN MadeUnavailable(values[k], reason) ELSE values[k]
      BY DEF MarkUnavailable
    <2>2. CASE values'[k] = values[k] BY <2>2 DEF InOrder
    <2>3. CASE values'[k] # values[k]
      <3>1. values'[k] = Unavailable(values[k], reason) /\ values[k] # None
        BY <2>1, <2>3 DEF MadeUnavailable
      <3>2. values[k] \in StateValue BY <3>1, IInvFacts DEF MaybeValue
      <3>3. Unavailable(values[k], reason).quality \in {"stale", "unknown"}
        BY <3>2 DEF Unavailable, StateValue
      <3>4. QED BY <3>1, <3>3, NoReportOrder DEF InOrder
    <2>4. QED BY <2>2, <2>3
  <1>2. QED BY <1>1, InOrderStep DEF MarkUnavailable

\* A restart leaves stale values only and nothing to roll back to.
LEMMA RestoreOrder ==
    ASSUME IInv, SeqInv, RestoreCheckpoint
    PROVE  SeqInv' /\ SequenceStep
  <1>1. ASSUME NEW k \in Key, values'[k] # None
        PROVE  Unsequenced(values'[k])
    <2>1. values'[k] = Restored(saved[k]) BY DEF RestoreCheckpoint
    <2>2. saved[k] # None /\ saved[k] \in StateValue
      BY <1>1, <2>1, IInvFacts DEF Restored, MaybeValue
    <2> DEFINE u == [saved[k] EXCEPT !.quality = "stale", !.available = FALSE,
                             !.reason = "stale", !.pending = None, !.expires = 0,
                             !.version = IF saved[k].version = 0 THEN 1 ELSE saved[k].version]
    <2>3. u \in StateValue /\ u.quality = "stale"
      BY <2>2 DEF StateValue, Quality, Reason
    <2>4. values'[k] = normalize(u) BY <2>1, <2>2 DEF Restored
    <2> HIDE DEF u
    <2>5. values'[k].quality = "stale" BY <2>3, <2>4, NormalizeFacts
    <2>6. QED BY <2>5 DEF Unsequenced
  <1>2. SeqInv' BY <1>1 DEF SeqInv, RestoreCheckpoint
  <1>3. boots' # boots BY IInvFacts DEF RestoreCheckpoint
  <1>4. QED BY <1>2, <1>3 DEF SequenceStep

\* Every operation keeps the order.
LEMMA StepSeqInv ==
    ASSUME IInv, SeqInv, [Next]_vars
    PROVE  SeqInv' /\ (SequenceStep \/ UNCHANGED vars)
  <1>0. "device-offline" \in Reason /\ "disabled" \in Reason
        /\ "control-provider-offline" \in Reason /\ 1 \in Nat
    BY DEF Reason
  <1>1. ASSUME UNCHANGED <<values, taken>>
        PROVE  SeqInv' /\ SequenceStep
    <2>1. \A k \in Key : InOrder(k) BY <1>1 DEF InOrder
    <2>2. QED BY <1>1, <2>1, InOrderStep
  <1>2. CASE \E k \in Key, p \in Provider \ {CommandProvider}, v \in Value :
                 \E r \in Reports(p, v) : Apply(k, r)
    BY <1>2, ApplyOrder, ReportFacts, ReportsUnsequenced, IInvFacts
  <1>3. CASE \E k \in Key, p \in Provider \ {CommandProvider} :
                 EnsureUnknown(k, p, "device-offline")
    BY <1>0, <1>3, EnsureUnknownOrder
  <1>4. CASE \E c \in CommandId, k \in Key : Get(c, k)
    <2>1. PICK c \in CommandId, k \in Key : Get(c, k) BY <1>4
    <2>2. SeqInv' BY <2>1, IInvFacts DEF SeqInv, Get
    <2>3. QED BY <2>1, <2>2 DEF SequenceStep, Get
  <1>5. CASE \E c \in CommandId, v \in Value : ApplyOptimistic(c, v, 1)
    BY <1>0, <1>5, ApplyOptimisticOrder
  <1>6. CASE \E c \in CommandId : ResolveOptimistic(c, taken[c]) \/ ResolveOptimistic(c, None)
    <2>1. PICK c \in CommandId : ResolveOptimistic(c, taken[c]) \/ ResolveOptimistic(c, None)
      BY <1>6
    <2>2. taken[c] \in MaybeValue /\ (taken[c] # None => Unsequenced(taken[c]))
      BY <2>1, IInvFacts DEF ResolveOptimistic, SeqInv
    <2>3. None \in MaybeValue BY DEF MaybeValue
    <2>4. QED BY <2>1, <2>2, <2>3, ResolveOptimisticOrder
  <1>7. CASE \E at \in 1..now : MarkStale(at)
    BY <1>7, MarkStaleOrder
  <1>8. CASE \E d \in Device, reason \in {"device-offline", "disabled"} :
                 MarkDeviceUnavailable(d, reason)
    BY <1>0, <1>8, MarkUnavailableOrder DEF MarkDeviceUnavailable
  <1>9. CASE \E k \in Key : MarkCapabilityUnavailable(k)
    BY <1>0, <1>9, MarkUnavailableOrder DEF MarkCapabilityUnavailable
  <1>10. CASE RestoreCheckpoint
    BY <1>10, RestoreOrder
  <1>11. CASE (\E p \in Priorities : SetPriorityResolver(p)) \/ Checkpoint \/ Tick
    <2>1. UNCHANGED <<values, taken>>
      BY <1>11 DEF SetPriorityResolver, Checkpoint, Tick
    <2>2. QED BY <1>1, <2>1
  <1>12. CASE UNCHANGED vars
    <2>1. UNCHANGED <<values, taken>> BY <1>12 DEF vars
    <2>2. QED BY <1>1, <2>1
  <1>13. QED
    BY <1>2, <1>3, <1>4, <1>5, <1>6, <1>7, <1>8, <1>9, <1>10, <1>11, <1>12 DEF Next

\* A sequenced report replaces a sequenced one of the same provider only with a larger
\* sequence: compareLocked looks at the sequence before time and quality, and neither an
\* optimistic value nor its roll back, an expiry or an outage lets an older one in.
THEOREM SequencesAreOrdered == Spec => SequenceOrder
  <1>1. Init => SeqInv BY DEF Init, SeqInv
  <1>2. IInv /\ SeqInv /\ [Next]_vars => SeqInv' /\ [SequenceStep]_vars BY StepSeqInv
  <1>3. QED BY <1>1, <1>2, Inductive, PTL DEF Spec, SequenceOrder, SequenceStep
=============================================================================
