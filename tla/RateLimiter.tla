---------------------------- MODULE RateLimiter -----------------------------
(***************************************************************************)
(* The token buckets in front of every route (server/ratelimit.go).  A     *)
(* request reads the clock, then takes the mutex: between the two other    *)
(* requests may read a later clock and be served first.                    *)
(*                                                                         *)
(* A balance is kept in parts, Unit of them to a token; a tick of the      *)
(* clock is worth Rate parts, and a second is Second ticks.                *)
(***************************************************************************)
EXTENDS Integers, Sequences, FiniteSets

CONSTANTS
    Requests,       \* requests of a behaviour
    Clients,        \* the keys they may come under
    Burst,          \* depth of a bucket, in tokens
    Unit, Rate, Second,
    EvictThreshold, \* bucketEvictThreshold
    IdleEviction,   \* bucketIdleEviction, in ticks
    MaxLag,         \* how long a request may wait for the mutex, in ticks
    MaxTime         \* bound on the clock

ASSUME LimiterAssumption ==
    /\ {Burst, Unit, Rate, Second, MaxLag} \subseteq Nat \ {0}
    /\ {EvictThreshold, IdleEviction, MaxTime} \subseteq Nat
(* A bucket idle long enough to be evicted is full again.                  *)
ASSUME EvictionAssumption == Rate * (IdleEviction - MaxLag) >= Burst * Unit

VARIABLES
    clock,
    pc,         \* request -> its step
    key,        \* request -> the client it came under, or None
    stamp,      \* request -> the clock it read
    buckets,    \* client -> its bucket, or None
    verdicts,   \* history: client -> what Allow told its requests, in order;
                \*   wait is the Retry-After in ticks, 0 of one admitted
    setbacks    \* history: client -> ticks its bucket's last was set back

limiterVars == <<clock, pc, key, stamp, buckets, verdicts, setbacks>>

None == [none |-> TRUE]

LimiterInit ==
    /\ clock = 0
    /\ pc = [r \in Requests |-> "new"]
    /\ key = [r \in Requests |-> None]
    /\ stamp = [r \in Requests |-> 0]
    /\ buckets = [c \in Clients |-> None]
    /\ verdicts = [c \in Clients |-> <<>>]
    /\ setbacks = [c \in Clients |-> 0]

(* A request arrives, and Allow reads the clock. *)
ReadClock(r) ==
    /\ pc[r] = "new"
    /\ \E c \in Clients : key' = [key EXCEPT ![r] = c]
    /\ stamp' = [stamp EXCEPT ![r] = clock]
    /\ pc' = [pc EXCEPT ![r] = "stamped"]
    /\ UNCHANGED <<clock, buckets, verdicts, setbacks>>

(* evictLocked: a first-seen client's bucket is in the map already. *)
Evicted(now) ==
    {c \in Clients : /\ Cardinality({d \in Clients : buckets[d] # None}) + 1 >= EvictThreshold
                     /\ buckets[c] # None
                     /\ now - buckets[c].last > IdleEviction}

(* Mutant of Refilled: a window that has passed gives the whole burst back. *)
RefilledAnew(b, now) == IF now > b.last THEN Burst * Unit ELSE b.tokens

(* The balance after the time the bucket sat idle, capped at the burst. *)
Refilled(b, now) ==
    LET balance == IF now > b.last THEN b.tokens + Rate * (now - b.last) ELSE b.tokens
    IN  IF balance > Burst * Unit THEN Burst * Unit ELSE balance

Balance(r) ==
    IF buckets[key[r]] = None THEN Burst * Unit ELSE Refilled(buckets[key[r]], stamp[r])

SetBack(r) ==
    IF buckets[key[r]] # None /\ buckets[key[r]].last > stamp[r]
    THEN buckets[key[r]].last - stamp[r] ELSE 0

(* The bucket as Allow leaves it, a first-seen client's evictions, and     *)
(* what the request is told.                                               *)
Leaves(r, tokens, wait) ==
    /\ buckets' = [c \in Clients |->
         CASE c = key[r] -> [tokens |-> tokens, last |-> stamp[r]]
           [] c # key[r] /\ buckets[key[r]] = None /\ c \in Evicted(stamp[r]) -> None
           [] OTHER -> buckets[c]]
    /\ setbacks' = [setbacks EXCEPT ![key[r]] = @ + SetBack(r)]
    /\ verdicts' = [verdicts EXCEPT ![key[r]] =
          Append(@, [stamp |-> stamp[r], setback |-> setbacks'[key[r]], wait |-> wait])]
    /\ UNCHANGED <<clock, key, stamp>>

Admit(r) ==
    /\ pc[r] = "stamped"
    /\ Balance(r) >= Unit
    /\ Leaves(r, Balance(r) - Unit, 0)
    /\ pc' = [pc EXCEPT ![r] = "admitted"]

CeilDiv(a, b) == (a + b - 1) \div b

(* Mutant of RetryAfter: whole seconds, rounded down. *)
RetryAfterFloor(parts) ==
    LET seconds == parts \div (Rate * Second)
    IN  IF seconds < 1 THEN Second ELSE seconds * Second

(* formatRetryAfter: whole seconds, rounded up, at least one.              *)
RetryAfter(parts) ==
    LET seconds == CeilDiv(parts, Rate * Second)
    IN  IF seconds < 1 THEN Second ELSE seconds * Second

Refuse(r) ==
    /\ pc[r] = "stamped"
    /\ Balance(r) < Unit
    /\ Leaves(r, Balance(r), RetryAfter(Unit - Balance(r)))
    /\ pc' = [pc EXCEPT ![r] = "refused"]

(* No request waits for the mutex longer than MaxLag. *)
Tick ==
    /\ clock < MaxTime
    /\ \A r \in Requests : pc[r] = "stamped" => clock - stamp[r] < MaxLag
    /\ clock' = clock + 1
    /\ UNCHANGED <<pc, key, stamp, buckets, verdicts, setbacks>>

Allow(r) == ReadClock(r) \/ Admit(r) \/ Refuse(r)

-----------------------------------------------------------------------------
Admitted(c) == {i \in DOMAIN verdicts[c] : verdicts[c][i].wait = 0}

(* From one admission of a client to another there are no more than the    *)
(* burst and what the rate earned in the time between them; whatever       *)
(* exceeds it is accounted for by requests that carried an earlier clock   *)
(* past later ones (ratelimit.go:33-41, 84-103).                           *)
AdmissionsAreEarned ==
    \A c \in Clients : \A i, j \in Admitted(c) :
       i < j =>
          LET from == verdicts[c][i]
              to   == verdicts[c][j]
          IN  Unit * Cardinality(Admitted(c) \cap (i + 1)..j)
                 <= Unit * (Burst - 1)
                    + Rate * (to.stamp - from.stamp + to.setback - from.setback)

(* A client that comes back once its Retry-After is over is not refused    *)
(* again, unless a request of its own was admitted since                   *)
(* (ratelimit.go:170-172).                                                 *)
RetryAfterIsEnough ==
    \A c \in Clients : \A i, j \in DOMAIN verdicts[c] \ Admitted(c) :
       i < j /\ verdicts[c][j].stamp >= verdicts[c][i].stamp + verdicts[c][i].wait
          => Admitted(c) \cap i..j # {}
=============================================================================
