---------------------------- MODULE StateValues ----------------------------
(***************************************************************************)
(* The values of the state store, backend/internal/domain/state/state.go,  *)
(* and what the operations of backend/internal/state/store.go make of one  *)
(* of them.  The modules StateStore, SnapshotPipeline and PropertyWrites   *)
(* are built from these operators.                                         *)
(*                                                                         *)
(* A typed value is an element of Value; known is value # None, because    *)
(* normalize sets Known exactly when a value has a kind and nothing clears *)
(* it.  The zero time is 0.  Left out: source and trace id, which nothing  *)
(* in the store decides on.                                                *)
(***************************************************************************)
EXTENDS Integers

CONSTANTS Value,      \* typed values
          Provider,   \* provider ids
          CommandId,  \* ids of the commands that write optimistically
          None        \* no value, an empty provider, reason or command id

Quality == {"confirmed", "reported", "polled", "optimistic", "stale", "unknown"}

\* The qualities whose value may be shown as current.
LiveQuality == {"confirmed", "reported", "polled", "optimistic"}

Reason == {"never-reported", "device-offline", "availability-unknown", "disabled", "removed",
           "expired", "stale", "command-unconfirmed", "control-provider-offline"}

StateValue == [value : Value \cup {None}, provider : Provider \cup {None},
               observed : Nat, received : Nat, expires : Nat, seq : Nat, version : Nat,
               quality : Quality, available : BOOLEAN, reason : Reason \cup {None},
               pending : CommandId \cup {None}]

ASSUME NoneAssumption ==
    None \notin Value \cup Provider \cup CommandId \cup Reason \cup StateValue

Known(v) == v.value # None

qualityRank(q) == CASE q = "confirmed" -> 5 [] q = "reported" -> 4 [] q = "polled" -> 3
                    [] q = "optimistic" -> 2 [] q = "stale" -> 1 [] OTHER -> 0

\* The reason a value keeps or gets when it is not available.
ReasonOr(v, default) == IF v.reason = None THEN default ELSE v.reason

normalize(v) ==
    CASE v.quality \in LiveQuality /\ Known(v) -> [v EXCEPT !.available = TRUE, !.reason = None]
      [] v.quality = "stale" -> [v EXCEPT !.available = FALSE, !.reason = ReasonOr(v, "stale")]
      [] OTHER -> [v EXCEPT !.available = FALSE, !.reason = ReasonOr(v, "never-reported")]

\* A real report replaces an optimistic value whatever the other criteria say.
ReportOverOptimistic(current, incoming) ==
    current.quality = "optimistic" /\ incoming.quality \in {"reported", "confirmed"}

\* The priority policy decides between two named providers of different priority.
PriorityDecides(current, incoming, priority) ==
    /\ current.provider # None /\ incoming.provider # None
    /\ current.provider # incoming.provider
    /\ priority[current.provider] # priority[incoming.provider]

\* Two sequenced values of one provider are ordered by their sequence alone.
SequenceDecides(current, incoming) ==
    current.provider = incoming.provider /\ current.seq > 0 /\ incoming.seq > 0

\* Mutant: the observation time is compared before the sequence.
AcceptsByTimeFirst(current, incoming, priority) ==
    IF ReportOverOptimistic(current, incoming) THEN TRUE
    ELSE IF PriorityDecides(current, incoming, priority)
    THEN priority[incoming.provider] > priority[current.provider]
    ELSE IF incoming.observed # current.observed THEN incoming.observed > current.observed
    ELSE IF SequenceDecides(current, incoming) THEN incoming.seq > current.seq
    ELSE incoming.received > current.received

\* compareLocked: whether incoming replaces current.  The first criterion that tells the
\* two apart decides.
Accepts(current, incoming, priority) ==
    IF ReportOverOptimistic(current, incoming) THEN TRUE
    ELSE IF PriorityDecides(current, incoming, priority)
    THEN priority[incoming.provider] > priority[current.provider]
    ELSE IF SequenceDecides(current, incoming) THEN incoming.seq > current.seq
    ELSE IF incoming.observed # current.observed THEN incoming.observed > current.observed
    ELSE IF qualityRank(incoming.quality) # qualityRank(current.quality)
    THEN qualityRank(incoming.quality) > qualityRank(current.quality)
    ELSE incoming.received > current.received

\* incoming as it is stored over current, or as the first value of its key.
Over(current, incoming) ==
    [normalize(incoming) EXCEPT !.version = IF current = None THEN 1 ELSE current.version + 1]

\* What Apply leaves under a key that holds current, or nothing (None).
Applied(current, incoming, priority) ==
    IF current # None /\ ~Accepts(current, normalize(incoming), priority)
    THEN current
    ELSE Over(current, incoming)

\* A value as applySnapshot builds it, before normalize.
Report(p, v, q, s, observed, received, expires) ==
    [value |-> v, provider |-> p, observed |-> observed, received |-> received,
     expires |-> expires, seq |-> s, version |-> 0, quality |-> q, available |-> FALSE,
     reason |-> None, pending |-> None]

\* A value as applyOptimisticState builds it for command c over previous.
Optimistic(p, v, c, created, deadline) ==
    [value |-> v, provider |-> p, observed |-> created, received |-> created,
     expires |-> deadline, seq |-> 0, version |-> 0, quality |-> "optimistic",
     available |-> FALSE, reason |-> None, pending |-> c]

\* A value as ensureUnknownStates builds it.
Unknown(p, reason, at) ==
    [value |-> None, provider |-> p, observed |-> at, received |-> at, expires |-> 0,
     seq |-> 0, version |-> 0, quality |-> "unknown", available |-> FALSE,
     reason |-> reason, pending |-> None]

\* Mutant: the rolled back value counts on from its own version.
ResolvedOldVersion(current, fallback) ==
    IF fallback # None
    THEN [fallback EXCEPT !.version = fallback.version + 1, !.pending = None]
    ELSE [current EXCEPT !.quality = "stale", !.pending = None, !.version = current.version + 1,
                         !.available = FALSE, !.reason = "command-unconfirmed"]

\* Mutant: a superseded optimistic value without fallback stays available.
ResolvedStillAvailable(current, fallback) ==
    IF fallback # None
    THEN [fallback EXCEPT !.version = current.version + 1, !.pending = None]
    ELSE [current EXCEPT !.quality = "stale", !.pending = None, !.version = current.version + 1]

\* ResolveOptimistic on the value its command owns; fallback is None for nil.
Resolved(current, fallback) ==
    IF fallback # None
    THEN [fallback EXCEPT !.version = current.version + 1, !.pending = None]
    ELSE [current EXCEPT !.quality = "stale", !.pending = None, !.version = current.version + 1,
                         !.available = FALSE, !.reason = "command-unconfirmed"]

\* Mutant: the scan leaves values alone that a command still owns.
ExpiredNotOwned(v, at) ==
    v # None /\ v.expires # 0 /\ v.expires <= at /\ v.quality # "stale" /\ v.pending = None

\* MarkStale at `at` changes v.
Expired(v, at) == v # None /\ v.expires # 0 /\ v.expires <= at /\ v.quality # "stale"

MarkedStale(v) ==
    [v EXCEPT !.quality = "stale", !.available = FALSE, !.reason = "expired",
              !.pending = None, !.version = v.version + 1]

\* MarkDeviceUnavailable and MarkCapabilityUnavailable on one value that they change ...
Unavailable(v, reason) ==
    [v EXCEPT !.quality = IF Known(v) THEN "stale" ELSE "unknown", !.available = FALSE,
              !.reason = reason, !.pending = None, !.version = v.version + 1]

\* ... and on any value: one that already is unavailable for that reason is left alone.
MadeUnavailable(v, reason) ==
    IF v = None \/ ( /\ ~v.available /\ v.reason = reason
                     /\ v.quality = IF Known(v) THEN "stale" ELSE "unknown")
    THEN v
    ELSE Unavailable(v, reason)

\* RestoreCheckpoint on one saved value.  The JSON form of a StateValue keeps every
\* field of the model, so decoding is not a step of its own.
Restored(v) ==
    IF v = None THEN None
    ELSE normalize([v EXCEPT !.quality = "stale", !.available = FALSE, !.reason = "stale",
                             !.pending = None, !.expires = 0,
                             !.version = IF v.version = 0 THEN 1 ELSE v.version])
=============================================================================
