------------------------ MODULE CorridorServerProofs ------------------------
(***************************************************************************)
(* What CorridorServer and the RateLimiter in front of it promise, for any *)
(* clients, requests, rates and bounds, proved.                            *)
(***************************************************************************)
EXTENDS CorridorServer, FiniteSetTheorems, TLAPS

Bucket == [tokens : 0..Burst * Unit, last : Nat]
Verdict == [stamp : Nat, setback : Nat, wait : Nat]
Places == {"new", "stamped", "admitted", "refused", "measuring", "measured",
           "falling back", "answered"}

LimiterTypeOK ==
    /\ clock \in Nat
    /\ pc \in [Requests -> Places]
    /\ key \in [Requests -> Clients \cup {None}]
    /\ stamp \in [Requests -> Nat]
    /\ buckets \in [Clients -> Bucket \cup {None}]
    /\ verdicts \in [Clients -> Seq(Verdict)]
    /\ setbacks \in [Clients -> Nat]

(* A request before the mutex came under some client, and read the clock   *)
(* no longer ago than it may wait.                                         *)
StampedOK ==
    \A r \in Requests : pc[r] = "stamped" =>
       /\ key[r] \in Clients
       /\ stamp[r] <= clock
       /\ clock <= stamp[r] + MaxLag

(* What a client has in hand, and the time up to which it was credited: a  *)
(* client without a bucket will be given a full one, at a clock no more    *)
(* than MaxLag behind.                                                     *)
InHand(c) == IF buckets[c] = None THEN Burst * Unit ELSE buckets[c].tokens
CreditedTo(c) == IF buckets[c] = None THEN clock - MaxLag ELSE buckets[c].last

Since(c, i) == Cardinality(Admitted(c) \cap (i + 1)..Len(verdicts[c]))

(* The potential of a bucket: what was handed out since an admission and   *)
(* what is still in hand never exceed what that admission left at most and *)
(* what was earned since.                                                  *)
Earned(c) ==
    \A i \in Admitted(c) :
       InHand(c) + Unit * Since(c, i)
          <= Unit * (Burst - 1)
             + Rate * (CreditedTo(c) + setbacks[c] - verdicts[c][i].stamp - verdicts[c][i].setback)

(* Since a refusal without an admission after it, the bucket is there and  *)
(* has gained all the time that passed.                                    *)
Gaining(c) ==
    \A i \in DOMAIN verdicts[c] \ Admitted(c) :
       Admitted(c) \cap i..Len(verdicts[c]) = {} /\ buckets[c] # None =>
          buckets[c].tokens >=
             Unit + Rate * (buckets[c].last - verdicts[c][i].stamp - verdicts[c][i].wait)

LimiterInv ==
    /\ LimiterTypeOK
    /\ StampedOK
    /\ \A c \in Clients : Earned(c) /\ Gaining(c)
    /\ AdmissionsAreEarned
    /\ RetryAfterIsEnough

(* What the server around the limiter does to it. *)
LimiterStep ==
    \/ \E r \in Requests : ReadClock(r) \/ Admit(r) \/ Refuse(r)
    \/ Tick
    \/ /\ UNCHANGED <<clock, key, stamp, buckets, verdicts, setbacks>>
       /\ pc' \in [Requests -> Places]
       /\ \A r \in Requests : pc'[r] = "stamped" => pc[r] = "stamped"

-----------------------------------------------------------------------------
(* A bucket is not the absent one. *)
LEMMA BucketIsSome ==
    /\ \A t, l : [tokens |-> t, last |-> l] # None
    /\ None \notin Bucket
<1>1. \A t, l : "none" \notin DOMAIN [tokens |-> t, last |-> l]
  OBVIOUS
<1>2. "none" \in DOMAIN None
  BY DEF None
<1>3. \A b \in Bucket : b = [tokens |-> b.tokens, last |-> b.last]
  BY DEF Bucket
<1> QED
  BY <1>1, <1>2, <1>3

(* The constants, and the products the accounts are kept in. *)
LEMMA Amounts ==
    /\ Burst \in Nat \ {0} /\ Unit \in Nat \ {0} /\ Rate \in Nat \ {0}
    /\ Second \in Nat \ {0} /\ MaxLag \in Nat \ {0} /\ IdleEviction \in Nat
    /\ Burst * Unit \in Nat
    /\ Unit <= Burst * Unit
    /\ Unit * (Burst - 1) = Burst * Unit - Unit
<1>1. /\ Burst \in Nat \ {0} /\ Unit \in Nat \ {0} /\ Rate \in Nat \ {0}
      /\ Second \in Nat \ {0} /\ MaxLag \in Nat \ {0} /\ IdleEviction \in Nat
  BY LimiterAssumption
<1> QED
  BY <1>1

(* Order survives a common shift. *)
LEMMA Shifted ==
    ASSUME NEW x \in Int, NEW y \in Int, NEW m \in Int, x <= y
    PROVE  x - m \in Int /\ y - m \in Int /\ x - m <= y - m
OBVIOUS

(* Time is worth Rate parts a tick. *)
LEMMA Worth ==
    ASSUME NEW x \in Int, NEW y \in Int
    PROVE  /\ Rate * x \in Int
           /\ Rate * (x + y) = Rate * x + Rate * y
           /\ x <= y => Rate * x <= Rate * y
BY Amounts

(* A balance lies between what was there and the full burst. *)
LEMMA RefilledBounds ==
    ASSUME NEW b \in Bucket, NEW now \in Nat
    PROVE  LET gain == IF now > b.last THEN Rate * (now - b.last) ELSE 0
           IN  /\ gain \in Nat
               /\ Refilled(b, now) \in 0..Burst * Unit
               /\ Refilled(b, now) <= b.tokens + gain
               /\ Refilled(b, now) = b.tokens + gain \/ Refilled(b, now) = Burst * Unit
<1>1. b.tokens \in 0..Burst * Unit /\ b.last \in Nat
  BY DEF Bucket
<1>2. now > b.last => Rate * (now - b.last) \in Nat
  BY <1>1, Amounts
<1> QED
  BY <1>1, <1>2, Amounts DEF Refilled

(* Retry-After is positive, and the rate earns what was missing in it. *)
LEMMA RetryAfterCovers ==
    ASSUME NEW parts \in Nat
    PROVE  /\ RetryAfter(parts) \in Nat \ {0}
           /\ Rate * RetryAfter(parts) >= parts
<1> DEFINE second == Rate * Second
           n == CeilDiv(parts, second)
<1>1. Rate \in Nat \ {0} /\ Second \in Nat \ {0} /\ second \in Nat \ {0}
  BY Amounts
<1>2. n \in Nat /\ n * second >= parts
  <2>1. n = (parts + second - 1) \div second
    BY DEF CeilDiv
  <2> HIDE DEF second, n
  <2>2. parts + second - 1 \in Nat
    BY <1>1
  <2> DEFINE a == parts + second - 1
  <2>3. a \in Nat
    BY <2>2
  <2>4. n \in Nat /\ a - n * second < second
    <3> HIDE DEF a
    <3> QED
      BY <2>1, <2>3, <1>1, SMTT(30) DEF a
  <2>5. n * second \in Int
    BY <2>4, <1>1
  <2> QED
    BY <2>4, <2>5, <1>1
<1>3. CASE n < 1
  <2>1. RetryAfter(parts) = Second
    BY <1>3 DEF RetryAfter
  <2>2. n = 0
    BY <1>2, <1>3
  <2>3. parts <= 0
    BY <1>2, <2>2, <1>1
  <2> QED
    BY <2>1, <2>3, <1>1
<1>4. CASE ~(n < 1)
  <2>1. RetryAfter(parts) = n * Second
    BY <1>4 DEF RetryAfter
  <2>2. n \in Nat \ {0}
    BY <1>2, <1>4
  <2>3. Rate * (n * Second) = n * second
    <3> HIDE DEF n
    <3> QED BY <1>1, <2>2
  <2>4. n * Second \in Nat \ {0}
    <3> HIDE DEF n
    <3> QED BY <1>1, <2>2
  <2> QED
    BY <2>1, <2>3, <2>4, <1>2
<1> QED
  BY <1>3, <1>4

-----------------------------------------------------------------------------
(* The limiter's types hold at the start, with nothing handed out.         *)
LEMMA LimiterInvInit == Init => LimiterInv
<1> SUFFICES ASSUME Init PROVE LimiterInv
  OBVIOUS
<1> USE DEF Init, LimiterInit
<1>1. LimiterTypeOK
  BY DEF LimiterTypeOK, Places
<1>2. StampedOK
  BY DEF StampedOK
<1>3. \A c \in Clients : verdicts[c] = <<>> /\ DOMAIN verdicts[c] = {} /\ Admitted(c) = {}
  BY DEF Admitted
<1>4. (\A c \in Clients : Earned(c) /\ Gaining(c)) /\ AdmissionsAreEarned /\ RetryAfterIsEnough
  BY <1>3 DEF Earned, Gaining, AdmissionsAreEarned, RetryAfterIsEnough
<1> QED
  BY <1>1, <1>2, <1>4 DEF LimiterInv

(* What Allow leaves behind, for the client it served and the others. *)
LEMMA LeavesFacts ==
    ASSUME LimiterTypeOK, StampedOK, NEW r \in Requests, pc[r] = "stamped",
           NEW tokens \in 0..Burst * Unit, NEW wait \in Nat, Leaves(r, tokens, wait)
    PROVE  /\ key[r] \in Clients
           /\ SetBack(r) \in Nat
           /\ buckets'[key[r]] = [tokens |-> tokens, last |-> stamp[r]]
           /\ \A d \in Clients : d # key[r] =>
                 \/ buckets'[d] = buckets[d]
                 \/ /\ buckets'[d] = None
                    /\ buckets[d] \in Bucket
                    /\ stamp[r] - buckets[d].last > IdleEviction
           /\ setbacks' = [setbacks EXCEPT ![key[r]] = @ + SetBack(r)]
           /\ verdicts' = [verdicts EXCEPT ![key[r]] =
                 Append(@, [stamp |-> stamp[r], setback |-> setbacks[key[r]] + SetBack(r),
                            wait |-> wait])]
           /\ clock' = clock /\ key' = key /\ stamp' = stamp
           /\ buckets' \in [Clients -> Bucket \cup {None}]
           /\ setbacks' \in [Clients -> Nat]
           /\ verdicts' \in [Clients -> Seq(Verdict)]
<1> DEFINE c == key[r]
           v == [stamp |-> stamp[r], setback |-> setbacks[c] + SetBack(r), wait |-> wait]
<1>1. c \in Clients /\ stamp[r] \in Nat
  BY DEF StampedOK, LimiterTypeOK
<1>2. buckets[c] # None => buckets[c].last \in Nat
  BY <1>1 DEF LimiterTypeOK, Bucket
<1>3. SetBack(r) \in Nat
  BY <1>1, <1>2 DEF SetBack
<1>4. setbacks' = [setbacks EXCEPT ![c] = @ + SetBack(r)]
  BY DEF Leaves
<1>5. setbacks' \in [Clients -> Nat] /\ setbacks'[c] = setbacks[c] + SetBack(r)
  BY <1>1, <1>3, <1>4 DEF LimiterTypeOK
<1>6. verdicts' = [verdicts EXCEPT ![c] = Append(@, v)]
  BY <1>5 DEF Leaves
<1>7. verdicts' \in [Clients -> Seq(Verdict)]
  <2>1. v \in Verdict
    BY <1>1, <1>3 DEF Verdict, LimiterTypeOK
  <2> HIDE DEF v
  <2> QED
    BY <2>1, <1>1, <1>6 DEF LimiterTypeOK
<1>8. /\ DOMAIN buckets' = Clients
      /\ buckets' = [d \in Clients |-> buckets'[d]]
      /\ buckets'[c] = [tokens |-> tokens, last |-> stamp[r]]
  BY <1>1 DEF Leaves
<1>9. ASSUME NEW d \in Clients, d # c
      PROVE  \/ buckets'[d] = buckets[d]
             \/ /\ buckets'[d] = None
                /\ buckets[d] \in Bucket
                /\ stamp[r] - buckets[d].last > IdleEviction
  <2>1. CASE buckets[c] = None /\ d \in Evicted(stamp[r])
    <3>1. buckets'[d] = None
      BY <2>1, <1>9 DEF Leaves
    <3> QED
      BY <3>1, <2>1 DEF Evicted, LimiterTypeOK
  <2>2. CASE ~(buckets[c] = None /\ d \in Evicted(stamp[r]))
    BY <2>2, <1>9 DEF Leaves
  <2> QED
    BY <2>1, <2>2
<1>10. [tokens |-> tokens, last |-> stamp[r]] \in Bucket
  BY <1>1 DEF Bucket
<1>11. buckets' \in [Clients -> Bucket \cup {None}]
  <2>1. \A d \in Clients : buckets[d] \in Bucket \cup {None}
    BY DEF LimiterTypeOK
  <2>2. \A d \in Clients : buckets'[d] \in Bucket \cup {None}
    BY <1>8, <1>9, <1>10, <2>1
  <2> QED
    BY <2>2, <1>8
<1> QED
  BY <1>1, <1>3, <1>4, <1>6, <1>5, <1>7, <1>8, <1>9, <1>11 DEF Leaves

(* One more verdict of a client, and what it adds to the admissions.       *)
LEMMA OneMoreVerdict ==
    ASSUME LimiterTypeOK, NEW c \in Clients, NEW v \in Verdict, NEW n \in Nat,
           verdicts'[c] = Append(verdicts[c], v), n = Len(verdicts[c]) + 1
    PROVE  /\ n \in Nat \ {0}
           /\ Len(verdicts'[c]) = n /\ verdicts'[c][n] = v
           /\ DOMAIN verdicts[c] = 1..n - 1 /\ DOMAIN verdicts'[c] = 1..n
           /\ \A i \in 1..n - 1 : verdicts'[c][i] = verdicts[c][i]
           /\ Admitted(c) \subseteq 1..n - 1
           /\ Admitted(c)' = Admitted(c) \cup (IF v.wait = 0 THEN {n} ELSE {})
           /\ \A i, j \in 1..n - 1 :
                 /\ Admitted(c)' \cap i..j = Admitted(c) \cap i..j
                 /\ Admitted(c)' \cap (i + 1)..j = Admitted(c) \cap (i + 1)..j
           /\ \A i \in 1..n - 1 :
                 /\ Since(c, i) \in Nat
                 /\ Since(c, i)' = Since(c, i) + (IF v.wait = 0 THEN 1 ELSE 0)
           /\ Since(c, n)' = 0
<1>1. verdicts[c] \in Seq(Verdict)
  BY DEF LimiterTypeOK
<1>2. /\ n \in Nat \ {0}
      /\ Len(verdicts'[c]) = n /\ verdicts'[c][n] = v
      /\ DOMAIN verdicts[c] = 1..n - 1 /\ DOMAIN verdicts'[c] = 1..n
      /\ \A i \in 1..n - 1 : verdicts'[c][i] = verdicts[c][i]
  BY <1>1
<1>3. Admitted(c) \subseteq 1..n - 1
  BY <1>2 DEF Admitted
<1>4. Admitted(c)' = Admitted(c) \cup (IF v.wait = 0 THEN {n} ELSE {})
  <2>1. Admitted(c)' = {i \in 1..n : verdicts'[c][i].wait = 0}
    BY <1>2 DEF Admitted
  <2>2. Admitted(c) = {i \in 1..n - 1 : verdicts'[c][i].wait = 0}
    BY <1>2 DEF Admitted
  <2>3. 1..n = 1..n - 1 \cup {n}
    BY <1>2
  <2> QED
    BY <2>1, <2>2, <2>3, <1>2
<1>5. ASSUME NEW i \in 1..n - 1, NEW j \in 1..n - 1
      PROVE  /\ Admitted(c)' \cap i..j = Admitted(c) \cap i..j
             /\ Admitted(c)' \cap (i + 1)..j = Admitted(c) \cap (i + 1)..j
  <2>1. n \notin i..j /\ n \notin (i + 1)..j
    BY <1>2
  <2> QED
    BY <2>1, <1>4
<1>6. ASSUME NEW i \in 1..n - 1
      PROVE  /\ Since(c, i) \in Nat
             /\ Since(c, i)' = Since(c, i) + (IF v.wait = 0 THEN 1 ELSE 0)
  <2> DEFINE S == Admitted(c) \cap (i + 1)..n - 1
  <2>1. IsFiniteSet(S) /\ Cardinality(S) \in Nat
    <3>1. IsFiniteSet((i + 1)..n - 1)
      BY <1>2, FS_Interval
    <3> QED
      BY <3>1, FS_Subset, FS_CardinalityType
  <2>2. Since(c, i) = Cardinality(S) /\ Since(c, i)' = Cardinality(Admitted(c)' \cap (i + 1)..n)
    BY <1>2 DEF Since
  <2>3. n \notin S /\ (i + 1)..n = (i + 1)..n - 1 \cup {n}
    BY <1>2, <1>3
  <2>4. CASE v.wait = 0
    <3>1. Admitted(c)' \cap (i + 1)..n = S \cup {n}
      BY <1>3, <1>4, <2>3, <2>4
    <3>2. Cardinality(S \cup {n}) = Cardinality(S) + 1
      BY <2>1, <2>3, FS_AddElement
    <3> QED
      BY <2>1, <2>2, <3>1, <3>2, <2>4
  <2>5. CASE v.wait # 0
    <3>1. n \notin Admitted(c)
      BY <1>2, <1>3
    <3>2. Admitted(c)' \cap (i + 1)..n = S
      BY <1>4, <2>3, <2>5, <3>1
    <3>3. Since(c, i) \in Nat /\ Since(c, i)' = Since(c, i)
      BY <2>1, <2>2, <3>2
    <3> QED
      BY <3>3, <2>5
  <2> QED
    BY <2>4, <2>5
<1>7. Since(c, n)' = 0
  <2>1. Since(c, n)' = Cardinality(Admitted(c)' \cap (n + 1)..n)
    BY <1>2 DEF Since
  <2>2. Admitted(c)' \cap (n + 1)..n = {}
    BY <1>2
  <2> QED
    BY <2>1, <2>2, FS_EmptySet
<1> QED
  BY <1>2, <1>3, <1>4, <1>5, <1>6, <1>7

-----------------------------------------------------------------------------
(* A client other than the one served keeps its bucket, or loses it to an  *)
(* eviction.                                                               *)
KeptOrEvicted(d) ==
    \/ buckets'[d] = buckets[d]
    \/ /\ buckets'[d] = None
       /\ buckets[d] \in Bucket
       /\ clock - buckets[d].last > IdleEviction

(* The clock alone, a request that only reads it, and what another client  *)
(* is handed leave an account in order: an evicted bucket was full.        *)
LEMMA AccountKept ==
    ASSUME LimiterTypeOK, NEW d \in Clients, Earned(d), Gaining(d),
           clock' \in Nat, clock' >= clock,
           verdicts'[d] = verdicts[d], setbacks'[d] = setbacks[d], KeptOrEvicted(d)
    PROVE  Earned(d)' /\ Gaining(d)'
<1>1. /\ Admitted(d)' = Admitted(d)
      /\ \A i : Since(d, i)' = Since(d, i)
  BY DEF Admitted, Since
<1>2. buckets[d] \in Bucket \cup {None} /\ setbacks[d] \in Nat /\ clock \in Nat
  BY DEF LimiterTypeOK
<1>3. Gaining(d)'
  BY <1>1, BucketIsSome DEF Gaining, KeptOrEvicted
<1>4. ASSUME NEW i \in Admitted(d)
      PROVE  /\ i \in 1..Len(verdicts[d])
             /\ verdicts[d][i].stamp \in Nat /\ verdicts[d][i].setback \in Nat
             /\ Since(d, i) \in Nat
  <2>1. verdicts[d] \in Seq(Verdict) /\ i \in 1..Len(verdicts[d])
    BY DEF LimiterTypeOK, Admitted
  <2>2. verdicts[d][i] \in Verdict
    BY <2>1
  <2>3. IsFiniteSet((i + 1)..Len(verdicts[d]))
    <3>1. i + 1 \in Int /\ Len(verdicts[d]) \in Int
      BY <2>1
    <3> QED
      BY <3>1, FS_Interval
  <2> QED
    BY <2>1, <2>2, <2>3, FS_Subset, FS_CardinalityType DEF Verdict, Since
<1>5. CASE buckets'[d] = buckets[d]
  <2>1. InHand(d)' = InHand(d)
    BY <1>5 DEF InHand
  <2>2. /\ CreditedTo(d) \in Int /\ CreditedTo(d)' \in Int
        /\ CreditedTo(d) <= CreditedTo(d)'
    <3>1. CASE buckets[d] = None
      <4>1. CreditedTo(d) = clock - MaxLag /\ CreditedTo(d)' = clock' - MaxLag
        BY <1>5, <3>1 DEF CreditedTo
      <4>2. MaxLag \in Nat
        BY Amounts
      <4>3. clock \in Int /\ clock' \in Int /\ MaxLag \in Int /\ clock <= clock'
        BY <1>2, <4>2
      <4>4. clock - MaxLag \in Int /\ clock' - MaxLag \in Int /\ clock - MaxLag <= clock' - MaxLag
        BY <4>3, Shifted
      <4> QED
        BY <4>1, <4>4
    <3>2. CASE buckets[d] # None
      <4>1. CreditedTo(d) = buckets[d].last /\ CreditedTo(d)' = buckets[d].last
        BY <1>5, <3>2 DEF CreditedTo
      <4>2. buckets[d].last \in Nat
        BY <1>2, <3>2 DEF Bucket
      <4> QED
        BY <4>1, <4>2
    <3> QED
      BY <3>1, <3>2
  <2>3. ASSUME NEW i \in Admitted(d)
        PROVE  InHand(d)' + Unit * Since(d, i)' <= Unit * (Burst - 1)
                  + Rate * (CreditedTo(d)' + setbacks'[d] - verdicts'[d][i].stamp - verdicts'[d][i].setback)
    <3> DEFINE x == CreditedTo(d) + setbacks[d] - verdicts[d][i].stamp - verdicts[d][i].setback
               y == CreditedTo(d)' + setbacks[d] - verdicts[d][i].stamp - verdicts[d][i].setback
    <3>1. x \in Int /\ y \in Int /\ x <= y
      BY <1>2, <1>4, <2>2
    <3>2. Rate * x \in Int /\ Rate * y \in Int /\ Rate * x <= Rate * y
      <4> HIDE DEF x, y
      <4> QED BY <3>1, Worth
    <3>3. InHand(d) + Unit * Since(d, i) <= Unit * (Burst - 1) + Rate * x
      BY DEF Earned
    <3>4. InHand(d) \in Int /\ Unit * Since(d, i) \in Int /\ Unit * (Burst - 1) \in Int
      <4>1. InHand(d) \in Int
        BY <1>2, Amounts DEF InHand, Bucket
      <4> QED
        BY <4>1, <1>4, Amounts
    <3>5. InHand(d)' + Unit * Since(d, i)' <= Unit * (Burst - 1) + Rate * y
      <4> HIDE DEF x, y
      <4> QED BY <3>2, <3>3, <3>4, <2>1, <1>1
    <3> QED
      BY <3>5
  <2>4. \A i \in Admitted(d) : InHand(d)' + Unit * Since(d, i)' <= Unit * (Burst - 1)
                  + Rate * (CreditedTo(d)' + setbacks'[d] - verdicts'[d][i].stamp - verdicts'[d][i].setback)
    BY <2>3
  <2> QED
    BY <1>3, <2>4, <1>1 DEF Earned
<1>6. CASE /\ buckets'[d] = None
           /\ buckets[d] \in Bucket
           /\ clock - buckets[d].last > IdleEviction
  <2>1. buckets[d] # None /\ buckets[d].last \in Nat /\ buckets[d].tokens \in 0..Burst * Unit
    BY <1>6, BucketIsSome DEF Bucket
  <2>2. ASSUME NEW i \in Admitted(d)
        PROVE  InHand(d)' + Unit * Since(d, i)' <= Unit * (Burst - 1)
                  + Rate * (CreditedTo(d)' + setbacks'[d] - verdicts'[d][i].stamp - verdicts'[d][i].setback)
    <3> DEFINE x == buckets[d].last + setbacks[d] - verdicts[d][i].stamp - verdicts[d][i].setback
               y == clock' - MaxLag + setbacks[d] - verdicts[d][i].stamp - verdicts[d][i].setback
               z == IdleEviction - MaxLag
    <3>1. x \in Int /\ y \in Int /\ z \in Int /\ x + z <= y
      <4>1. PICK at \in Nat, sets \in Nat, st \in Nat, se \in Nat, now \in Nat, then \in Nat,
                 idle \in Nat, lag \in Nat :
               /\ at = buckets[d].last /\ sets = setbacks[d]
               /\ st = verdicts[d][i].stamp /\ se = verdicts[d][i].setback
               /\ now = clock /\ then = clock' /\ idle = IdleEviction /\ lag = MaxLag
        BY <1>2, <1>4, <2>1, Amounts
      <4>2. now <= then /\ now - at > idle
        BY <4>1, <1>6
      <4>3. /\ at + sets - st - se \in Int
            /\ then - lag + sets - st - se \in Int
            /\ idle - lag \in Int
            /\ (at + sets - st - se) + (idle - lag) <= then - lag + sets - st - se
        BY <4>2
      <4> QED
        BY <4>1, <4>3
    <3>2. /\ Rate * x \in Int /\ Rate * y \in Int /\ Rate * z \in Int
          /\ Rate * x + Rate * z <= Rate * y
      <4> HIDE DEF x, y, z
      <4>1. x + z \in Int
        BY <3>1
      <4> QED BY <3>1, <4>1, Worth
    <3>3. buckets[d].tokens + Unit * Since(d, i) <= Unit * (Burst - 1) + Rate * x
      BY <2>1 DEF Earned, InHand, CreditedTo
    <3>4. Rate * z >= Burst * Unit
      BY EvictionAssumption
    <3>5. Unit * Since(d, i) \in Int /\ Unit * (Burst - 1) \in Int /\ Burst * Unit \in Nat
      BY <1>4, Amounts
    <3>6. Burst * Unit + Unit * Since(d, i) <= Unit * (Burst - 1) + Rate * y
      <4> HIDE DEF x, y, z
      <4> QED BY <2>1, <3>2, <3>3, <3>4, <3>5
    <3>7. InHand(d)' = Burst * Unit /\ CreditedTo(d)' = clock' - MaxLag
      BY <1>6 DEF InHand, CreditedTo
    <3> QED
      BY <3>6, <3>7, <1>1
  <2>3. \A i \in Admitted(d) : InHand(d)' + Unit * Since(d, i)' <= Unit * (Burst - 1)
                  + Rate * (CreditedTo(d)' + setbacks'[d] - verdicts'[d][i].stamp - verdicts'[d][i].setback)
    BY <2>2
  <2> QED
    BY <1>3, <2>3, <1>1 DEF Earned
<1> QED
  BY <1>5, <1>6 DEF KeptOrEvicted

(* The balance a request finds never exceeds what its client's account     *)
(* allows at the request's own clock.                                      *)
LEMMA BalanceBounds ==
    ASSUME LimiterInv, NEW r \in Requests, pc[r] = "stamped"
    PROVE  LET c == key[r]
               now == stamp[r] + SetBack(r) + setbacks[c]
           IN  /\ Balance(r) \in 0..Burst * Unit
               /\ \A i \in Admitted(c) :
                     Balance(r) + Unit * Since(c, i) <= Unit * (Burst - 1)
                        + Rate * (now - verdicts[c][i].stamp - verdicts[c][i].setback)
               /\ \A i \in DOMAIN verdicts[c] \ Admitted(c) :
                     Admitted(c) \cap i..Len(verdicts[c]) = {} =>
                        \/ Balance(r) >= Unit
                        \/ Balance(r) >= Unit
                              + Rate * (stamp[r] - verdicts[c][i].stamp - verdicts[c][i].wait)
<1> DEFINE c == key[r]
           b == buckets[c]
           s == stamp[r]
           now == s + SetBack(r) + setbacks[c]
<1>1. /\ c \in Clients /\ s \in Nat /\ s <= clock /\ clock <= s + MaxLag
      /\ setbacks[c] \in Nat /\ b \in Bucket \cup {None} /\ clock \in Nat
      /\ verdicts[c] \in Seq(Verdict)
  BY DEF LimiterInv, StampedOK, LimiterTypeOK
<1>n. s \in Nat /\ clock \in Nat /\ clock <= s + MaxLag /\ setbacks[c] \in Nat
  BY <1>1
<1>2. Earned(c) /\ Gaining(c)
  BY <1>1 DEF LimiterInv
<1>3. ASSUME NEW i \in DOMAIN verdicts[c]
      PROVE  /\ verdicts[c][i].stamp \in Nat /\ verdicts[c][i].setback \in Nat
             /\ verdicts[c][i].wait \in Nat
             /\ Since(c, i) \in Nat
  <2>1. i \in 1..Len(verdicts[c]) /\ verdicts[c][i] \in Verdict /\ i + 1 \in Int
        /\ Len(verdicts[c]) \in Int
    BY <1>1
  <2>2. IsFiniteSet((i + 1)..Len(verdicts[c]))
    BY <2>1, FS_Interval
  <2> QED
    BY <2>1, <2>2, FS_Subset, FS_CardinalityType DEF Verdict, Since
<1>4. Admitted(c) \subseteq DOMAIN verdicts[c]
  BY DEF Admitted
<1>5. CASE b = None
  <2>1. Balance(r) = Burst * Unit /\ SetBack(r) = 0
    BY <1>5 DEF Balance, SetBack
  <2>2. ASSUME NEW i \in Admitted(c)
        PROVE  Balance(r) + Unit * Since(c, i) <= Unit * (Burst - 1)
                        + Rate * (now - verdicts[c][i].stamp - verdicts[c][i].setback)
    <3> DEFINE x == clock - MaxLag + setbacks[c] - verdicts[c][i].stamp - verdicts[c][i].setback
               y == now - verdicts[c][i].stamp - verdicts[c][i].setback
    <3>0. /\ verdicts[c][i].stamp \in Nat /\ verdicts[c][i].setback \in Nat
          /\ verdicts[c][i].wait \in Nat
      BY <1>3, <1>4
    <3>1. x \in Int /\ y \in Int /\ x <= y
      <4>1. now = s + setbacks[c] /\ MaxLag \in Nat
        BY <1>1, <2>1, Amounts
      <4> HIDE DEF now, s, c
      <4> QED
        BY <3>0, <4>1, <1>n
    <3>2. Rate * x \in Int /\ Rate * y \in Int /\ Rate * x <= Rate * y
      <4> HIDE DEF x, y
      <4> QED BY <3>1, Worth
    <3>3. Burst * Unit + Unit * Since(c, i) <= Unit * (Burst - 1) + Rate * x
      BY <1>2, <1>5 DEF Earned, InHand, CreditedTo
    <3>4. Unit * Since(c, i) \in Int /\ Unit * (Burst - 1) \in Int /\ Burst * Unit \in Int
      BY <1>3, <1>4, Amounts
    <3>5. Balance(r) + Unit * Since(c, i) <= Unit * (Burst - 1) + Rate * y
      <4> HIDE DEF x, y
      <4> QED BY <2>1, <3>2, <3>3, <3>4
    <3> QED
      BY <3>5
  <2> QED
    BY <2>1, <2>2, Amounts
<1>6. CASE b # None
  <2> DEFINE gain == IF s > b.last THEN Rate * (s - b.last) ELSE 0
  <2>1. b \in Bucket /\ b.last \in Nat /\ b.tokens \in Nat
    BY <1>1, <1>6 DEF Bucket
  <2>2. Balance(r) = Refilled(b, s)
    BY <1>6 DEF Balance
  <2>3. /\ gain \in Nat
        /\ Balance(r) \in 0..Burst * Unit
        /\ Balance(r) <= b.tokens + gain
        /\ Balance(r) = b.tokens + gain \/ Balance(r) = Burst * Unit
    BY <1>1, <2>1, <2>2, RefilledBounds
  <2>4. s + SetBack(r) = IF s > b.last THEN s ELSE b.last
    BY <1>1, <1>6, <2>1 DEF SetBack
  <2>5. SetBack(r) \in Nat
    BY <1>1, <1>6, <2>1 DEF SetBack
  <2>6. gain = Rate * (s + SetBack(r) - b.last)
    BY <1>1, <2>1, <2>4, <2>5, Amounts
  <2> HIDE DEF gain
  <2>7. ASSUME NEW i \in Admitted(c)
        PROVE  Balance(r) + Unit * Since(c, i) <= Unit * (Burst - 1)
                        + Rate * (now - verdicts[c][i].stamp - verdicts[c][i].setback)
    <3> DEFINE x == b.last + setbacks[c] - verdicts[c][i].stamp - verdicts[c][i].setback
               y == now - verdicts[c][i].stamp - verdicts[c][i].setback
               z == s + SetBack(r) - b.last
    <3>0. /\ verdicts[c][i].stamp \in Nat /\ verdicts[c][i].setback \in Nat
          /\ verdicts[c][i].wait \in Nat
      BY <1>3, <1>4
    <3>1. x \in Int /\ y \in Int /\ z \in Int /\ y = x + z
      <4> DEFINE sb == SetBack(r)  at == b.last
      <4>1. sb \in Nat /\ at \in Nat
        BY <2>1, <2>5
      <4> HIDE DEF s, sb, at, b, c
      <4> QED
        BY <3>0, <4>1, <1>n DEF at, sb
    <3>2. /\ Rate * x \in Int /\ Rate * y \in Int /\ Rate * z \in Int
          /\ Rate * y = Rate * x + Rate * z
      <4> HIDE DEF x, y, z
      <4> QED BY <3>1, Worth
    <3>3. b.tokens + Unit * Since(c, i) <= Unit * (Burst - 1) + Rate * x
      BY <1>2, <1>6 DEF Earned, InHand, CreditedTo
    <3>4. Unit * Since(c, i) \in Int /\ Unit * (Burst - 1) \in Int /\ Balance(r) \in Int
      BY <1>3, <1>4, <2>3, Amounts
    <3>5. Balance(r) + Unit * Since(c, i) <= Unit * (Burst - 1) + Rate * y
      <4> HIDE DEF x, y
      <4>1. gain = Rate * z
        BY <2>6
      <4> HIDE DEF z
      <4> QED BY <2>1, <2>3, <3>2, <3>3, <3>4, <4>1
    <3> QED
      BY <3>5
  <2>8. ASSUME NEW i \in DOMAIN verdicts[c] \ Admitted(c),
               Admitted(c) \cap i..Len(verdicts[c]) = {},
               Balance(r) < Unit
        PROVE  Balance(r) >= Unit + Rate * (s - verdicts[c][i].stamp - verdicts[c][i].wait)
    <3> DEFINE x == b.last - verdicts[c][i].stamp - verdicts[c][i].wait
               y == s - verdicts[c][i].stamp - verdicts[c][i].wait
               z == s + SetBack(r) - b.last
    <3>0. /\ verdicts[c][i].stamp \in Nat /\ verdicts[c][i].setback \in Nat
          /\ verdicts[c][i].wait \in Nat
      BY <1>3
    <3>1. x \in Int /\ y \in Int /\ z \in Int /\ x + z \in Int /\ y <= x + z
      <4> DEFINE sb == SetBack(r)  at == b.last
      <4>1. sb \in Nat /\ at \in Nat
        BY <2>1, <2>5
      <4> HIDE DEF s, sb, at, b, c
      <4> QED
        BY <3>0, <4>1, <1>n DEF at, sb
    <3>2. /\ Rate * x \in Int /\ Rate * y \in Int /\ Rate * z \in Int
          /\ Rate * y <= Rate * x + Rate * z
      <4> HIDE DEF x, y, z
      <4> QED BY <3>1, Worth
    <3>3. b.tokens >= Unit + Rate * x
      BY <1>2, <1>6, <2>8 DEF Gaining
    <3>4. Balance(r) = b.tokens + gain
      BY <2>3, <2>8, Amounts
    <3>5. Balance(r) >= Unit + Rate * y
      <4>1. gain = Rate * z
        BY <2>6
      <4> HIDE DEF x, y, z
      <4> QED BY <2>1, <2>3, <3>2, <3>3, <3>4, <4>1, Amounts
    <3> QED
      BY <3>5
  <2> QED
    BY <2>3, <2>7, <2>8, Amounts
<1> QED
  BY <1>5, <1>6

(* Serving a request, admitted or not, keeps every account in order and    *)
(* tells its client the truth.                                             *)
LEMMA ServedKeeps ==
    ASSUME LimiterInv, NEW r \in Requests, pc[r] = "stamped",
           NEW tokens, NEW wait, Leaves(r, tokens, wait),
           \/ Balance(r) >= Unit /\ tokens = Balance(r) - Unit /\ wait = 0
           \/ Balance(r) < Unit /\ tokens = Balance(r) /\ wait = RetryAfter(Unit - Balance(r))
    PROVE  /\ clock' = clock /\ key' = key /\ stamp' = stamp
           /\ buckets' \in [Clients -> Bucket \cup {None}]
           /\ setbacks' \in [Clients -> Nat]
           /\ verdicts' \in [Clients -> Seq(Verdict)]
           /\ \A c \in Clients : Earned(c)' /\ Gaining(c)'
           /\ AdmissionsAreEarned'
           /\ RetryAfterIsEnough'
<1> DEFINE bal == Balance(r)
           s == stamp[r]
           sb == SetBack(r)
<1>1. LimiterTypeOK /\ StampedOK /\ AdmissionsAreEarned /\ RetryAfterIsEnough
  BY DEF LimiterInv
<1>2. /\ bal \in 0..Burst * Unit
      /\ Unit \in Nat \ {0} /\ Burst * Unit \in Nat /\ Unit * (Burst - 1) = Burst * Unit - Unit
      /\ Unit <= Burst * Unit /\ Rate \in Nat
  BY BalanceBounds, Amounts
<1>4. /\ tokens \in 0..Burst * Unit
      /\ wait \in Nat
      /\ \/ bal >= Unit /\ tokens = bal - Unit /\ wait = 0
         \/ bal < Unit /\ tokens = bal /\ wait # 0 /\ Rate * wait >= Unit - bal
  <2>1. CASE bal >= Unit /\ tokens = bal - Unit /\ wait = 0
    BY <1>2, <2>1
  <2>2. CASE bal < Unit /\ tokens = bal /\ wait = RetryAfter(Unit - bal)
    <3>1. Unit - bal \in Nat
      BY <1>2, <2>2
    <3>2. wait \in Nat \ {0} /\ Rate * wait >= Unit - bal
      BY <2>2, <3>1, RetryAfterCovers
    <3> QED
      BY <1>2, <2>2, <3>2
  <2> QED
    BY <2>1, <2>2
<1>5. PICK c \in Clients : c = key[r]
  BY <1>1, <1>4, LeavesFacts
<1> DEFINE v == [stamp |-> s, setback |-> setbacks[c] + sb, wait |-> wait]
<1>6. /\ sb \in Nat /\ s \in Nat
      /\ buckets'[c] = [tokens |-> tokens, last |-> s]
      /\ \A d \in Clients : d # c =>
            \/ buckets'[d] = buckets[d]
            \/ /\ buckets'[d] = None
               /\ buckets[d] \in Bucket
               /\ s - buckets[d].last > IdleEviction
      /\ setbacks' = [setbacks EXCEPT ![c] = @ + sb]
      /\ verdicts' = [verdicts EXCEPT ![c] = Append(@, v)]
      /\ clock' = clock /\ key' = key /\ stamp' = stamp
      /\ buckets' \in [Clients -> Bucket \cup {None}]
      /\ setbacks' \in [Clients -> Nat]
      /\ verdicts' \in [Clients -> Seq(Verdict)]
  BY <1>1, <1>4, <1>5, LeavesFacts DEF LimiterTypeOK
<1>7. /\ setbacks[c] \in Nat /\ setbacks'[c] = setbacks[c] + sb
      /\ verdicts[c] \in Seq(Verdict) /\ verdicts'[c] = Append(verdicts[c], v)
      /\ v \in Verdict
  BY <1>1, <1>4, <1>6 DEF LimiterTypeOK, Verdict
<1>8. PICK n \in Nat : n = Len(verdicts[c]) + 1
  BY <1>7
<1>9. /\ n \in Nat \ {0}
      /\ verdicts'[c][n] = v
      /\ DOMAIN verdicts[c] = 1..n - 1 /\ DOMAIN verdicts'[c] = 1..n
      /\ \A i \in 1..n - 1 : verdicts'[c][i] = verdicts[c][i]
      /\ Admitted(c) \subseteq 1..n - 1
      /\ Admitted(c)' = Admitted(c) \cup (IF v.wait = 0 THEN {n} ELSE {})
      /\ \A i, j \in 1..n - 1 :
            /\ Admitted(c)' \cap i..j = Admitted(c) \cap i..j
            /\ Admitted(c)' \cap (i + 1)..j = Admitted(c) \cap (i + 1)..j
      /\ \A i \in 1..n - 1 :
            /\ Since(c, i) \in Nat
            /\ Since(c, i)' = Since(c, i) + (IF v.wait = 0 THEN 1 ELSE 0)
      /\ Since(c, n)' = 0
      /\ Len(verdicts'[c]) = n /\ Len(verdicts[c]) = n - 1
  BY <1>1, <1>7, <1>8, OneMoreVerdict
<1>10. /\ v.stamp = s /\ v.setback = setbacks[c] + sb /\ v.wait = wait
  OBVIOUS
<1> HIDE DEF v
<1>11. InHand(c)' = tokens /\ CreditedTo(c)' = s /\ buckets'[c] # None
       /\ buckets'[c].tokens = tokens /\ buckets'[c].last = s
  BY <1>6, BucketIsSome DEF InHand, CreditedTo
<1>12. ASSUME NEW i \in 1..n - 1
       PROVE  /\ verdicts[c][i].stamp \in Nat /\ verdicts[c][i].setback \in Nat
              /\ verdicts[c][i].wait \in Nat
              /\ i \in Int
  <2>1. verdicts[c][i] \in Verdict
    BY <1>7, <1>9
  <2> QED
    BY <2>1, <1>9 DEF Verdict
<1>13. /\ \A i \in Admitted(c) :
             bal + Unit * Since(c, i) <= Unit * (Burst - 1)
                + Rate * ((s + sb + setbacks[c]) - verdicts[c][i].stamp - verdicts[c][i].setback)
       /\ \A i \in DOMAIN verdicts[c] \ Admitted(c) :
             Admitted(c) \cap i..Len(verdicts[c]) = {} =>
                \/ bal >= Unit
                \/ bal >= Unit + Rate * (s - verdicts[c][i].stamp - verdicts[c][i].wait)
  BY <1>5, BalanceBounds
<1> HIDE DEF bal, s, sb
<1>14. ASSUME NEW i \in Admitted(c)
       PROVE  tokens + Unit * Since(c, i)' <= Unit * (Burst - 1)
                + Rate * (s + setbacks'[c] - verdicts'[c][i].stamp - verdicts'[c][i].setback)
  <2>1. i \in 1..n - 1 /\ verdicts'[c][i] = verdicts[c][i]
    BY <1>9
  <2> DEFINE x == (s + sb + setbacks[c]) - verdicts[c][i].stamp - verdicts[c][i].setback
  <2>2. x = s + setbacks'[c] - verdicts'[c][i].stamp - verdicts'[c][i].setback /\ x \in Int
    <3>1. s \in Nat /\ sb \in Nat /\ setbacks[c] \in Nat /\ setbacks'[c] = setbacks[c] + sb
      BY <1>6, <1>7
    <3>2. verdicts[c][i].stamp \in Nat /\ verdicts[c][i].setback \in Nat
      BY <2>1, <1>12
    <3> QED
      BY <2>1, <3>1, <3>2
  <2>3. bal + Unit * Since(c, i) <= Unit * (Burst - 1) + Rate * x
    BY <1>13
  <2>4. Since(c, i) \in Nat /\ Since(c, i)' = Since(c, i) + (IF wait = 0 THEN 1 ELSE 0)
    BY <2>1, <1>9, <1>10
  <2> HIDE DEF x
  <2>5. Rate * x \in Int /\ Unit * Since(c, i) \in Int
        /\ Unit * (Since(c, i) + 1) = Unit * Since(c, i) + Unit
    <3>1. \A k \in Nat : Unit * k \in Int /\ Unit * (k + 1) = Unit * k + Unit
      BY <1>2
    <3>2. Rate * x \in Int
      BY <1>2, <2>2
    <3> QED
      BY <3>1, <3>2, <2>4
  <2>6. tokens + Unit * Since(c, i)' <= Unit * (Burst - 1) + Rate * x
    <3>1. CASE bal >= Unit /\ tokens = bal - Unit /\ wait = 0
      <4>1. Unit * Since(c, i)' = Unit * Since(c, i) + Unit
        BY <2>4, <2>5, <3>1
      <4> QED
        BY <3>1, <4>1, <1>2, <2>3, <2>5
    <3>2. CASE bal < Unit /\ tokens = bal /\ wait # 0
      <4>1. Unit * Since(c, i)' = Unit * Since(c, i)
        BY <2>4, <3>2
      <4> QED
        BY <3>2, <4>1, <2>3
    <3> QED
      BY <1>4, <3>1, <3>2 DEF bal
  <2> QED
    BY <2>2, <2>6
<1>15. Earned(c)'
  <2>1. ASSUME NEW i \in Admitted(c)', i \notin Admitted(c)
        PROVE  tokens + Unit * Since(c, i)' <= Unit * (Burst - 1)
                + Rate * (s + setbacks'[c] - verdicts'[c][i].stamp - verdicts'[c][i].setback)
    <3>1. i = n /\ wait = 0
      BY <2>1, <1>9, <1>10
    <3>2. s + setbacks'[c] - verdicts'[c][i].stamp - verdicts'[c][i].setback = 0
      BY <3>1, <1>6, <1>7, <1>9, <1>10
    <3>3. Rate * 0 = 0 /\ Unit * Since(c, i)' = 0
      BY <3>1, <1>2, <1>9
    <3>4. tokens <= Unit * (Burst - 1) /\ tokens \in Int /\ Unit * (Burst - 1) \in Int
      BY <3>1, <1>2, <1>4 DEF bal
    <3> QED
      BY <3>2, <3>3, <3>4
  <2> QED
    BY <2>1, <1>14, <1>11 DEF Earned
<1>16. Gaining(c)'
  <2> SUFFICES ASSUME NEW i \in DOMAIN verdicts'[c] \ Admitted(c)',
                      Admitted(c)' \cap i..Len(verdicts'[c]) = {}
               PROVE  tokens >= Unit + Rate * (s - verdicts'[c][i].stamp - verdicts'[c][i].wait)
    BY <1>11 DEF Gaining
  <2>1. i \in 1..n /\ n \in i..n
    BY <1>9
  <2>2. wait # 0
    BY <2>1, <1>9, <1>10
  <2>3. bal < Unit /\ tokens = bal /\ Rate * wait >= Unit - bal
    BY <1>4, <2>2 DEF bal
  <2>4. CASE i = n
    <3>1. s - verdicts'[c][i].stamp - verdicts'[c][i].wait = -wait
      BY <2>4, <1>4, <1>6, <1>9, <1>10
    <3>2. Rate * (-wait) = -(Rate * wait) /\ Rate * wait \in Int
      BY <1>2, <1>4
    <3> QED
      BY <3>1, <3>2, <2>3, <1>2
  <2>5. CASE i # n
    <3>1. i \in 1..n - 1 /\ i \notin Admitted(c)
      BY <2>1, <2>5, <1>9
    <3>2. Admitted(c) \cap i..n - 1 = {}
      BY <1>9, <3>1
    <3>3. \/ bal >= Unit
          \/ bal >= Unit + Rate * (s - verdicts[c][i].stamp - verdicts[c][i].wait)
      BY <1>9, <1>13, <3>1, <3>2
    <3> QED
      BY <2>3, <3>1, <3>3, <1>2, <1>9
  <2> QED
    BY <2>4, <2>5
<1>17. ASSUME NEW d \in Clients, d # c
       PROVE  /\ Earned(d)' /\ Gaining(d)'
              /\ verdicts'[d] = verdicts[d] /\ Admitted(d)' = Admitted(d)
  <2>1. verdicts'[d] = verdicts[d] /\ setbacks'[d] = setbacks[d]
    BY <1>1, <1>6, <1>17 DEF LimiterTypeOK
  <2>2. clock \in Nat /\ s <= clock
    BY <1>1 DEF LimiterTypeOK, StampedOK, s
  <2>3. buckets[d] \in Bucket => buckets[d].last \in Nat
    BY DEF Bucket
  <2>4. KeptOrEvicted(d)
    BY <1>6, <1>17, <2>2, <2>3, Amounts DEF KeptOrEvicted
  <2>5. Earned(d) /\ Gaining(d)
    BY DEF LimiterInv
  <2>6. Earned(d)' /\ Gaining(d)'
    BY <1>1, <1>6, <2>1, <2>2, <2>4, <2>5, AccountKept
  <2> QED
    BY <2>1, <2>6 DEF Admitted
<1>18. AdmissionsAreEarned'
  <2> SUFFICES ASSUME NEW d \in Clients, NEW i \in Admitted(d)', NEW j \in Admitted(d)', i < j
               PROVE  Unit * Cardinality(Admitted(d)' \cap (i + 1)..j)
                         <= Unit * (Burst - 1)
                            + Rate * (verdicts'[d][j].stamp - verdicts'[d][i].stamp
                                      + verdicts'[d][j].setback - verdicts'[d][i].setback)
    BY DEF AdmissionsAreEarned
  <2>1. CASE d # c
    BY <1>1, <1>17, <2>1 DEF AdmissionsAreEarned
  <2>2. CASE d = c /\ j \in 1..n - 1
    <3>1. i \in 1..n - 1 /\ i \in Admitted(c) /\ j \in Admitted(c)
      BY <2>2, <1>9
    <3>2. /\ Admitted(c)' \cap (i + 1)..j = Admitted(c) \cap (i + 1)..j
          /\ verdicts'[c][i] = verdicts[c][i] /\ verdicts'[c][j] = verdicts[c][j]
      BY <2>2, <3>1, <1>9
    <3> QED
      BY <1>1, <2>2, <3>1, <3>2 DEF AdmissionsAreEarned
  <2>3. CASE d = c /\ j \notin 1..n - 1
    <3>1. j = n /\ i \in 1..n - 1 /\ i \in Admitted(c) /\ wait = 0
      BY <2>3, <1>9, <1>10
    <3>2. Cardinality(Admitted(c)' \cap (i + 1)..n) = Since(c, i)'
      BY <1>9 DEF Since
    <3>3. tokens + Unit * Since(c, i)' <= Unit * (Burst - 1)
                + Rate * (s + setbacks'[c] - verdicts'[c][i].stamp - verdicts'[c][i].setback)
      BY <3>1, <1>14
    <3> DEFINE x == s + setbacks'[c] - verdicts'[c][i].stamp - verdicts'[c][i].setback
    <3>a. s \in Nat /\ sb \in Nat /\ setbacks[c] \in Nat /\ setbacks'[c] = setbacks[c] + sb
          /\ verdicts'[c][n].stamp = s /\ verdicts'[c][n].setback = setbacks[c] + sb
      BY <1>6, <1>7, <1>9, <1>10
    <3>b. /\ verdicts[c][i].stamp \in Nat /\ verdicts[c][i].setback \in Nat
          /\ verdicts'[c][i] = verdicts[c][i]
      BY <3>1, <1>9, <1>12
    <3>4. x \in Int /\ Since(c, i)' \in Nat
      <4>1. Since(c, i)' \in Nat
        BY <3>1, <1>9
      <4> QED
        BY <4>1, <3>a, <3>b
    <3>5. x = verdicts'[c][n].stamp - verdicts'[c][i].stamp
                 + verdicts'[c][n].setback - verdicts'[c][i].setback
      BY <3>a, <3>b
    <3> HIDE DEF x
    <3>6. Unit * Since(c, i)' \in Int /\ Rate * x \in Int /\ Unit * (Burst - 1) \in Int /\ tokens \in Nat
      BY <3>4, <1>2, <1>4
    <3>7. Unit * Since(c, i)' <= Unit * (Burst - 1) + Rate * x
      BY <3>3, <3>6 DEF x
    <3> QED
      BY <2>3, <3>1, <3>2, <3>5, <3>7
  <2> QED
    BY <2>1, <2>2, <2>3
<1>19. RetryAfterIsEnough'
  <2> SUFFICES ASSUME NEW d \in Clients, NEW i \in DOMAIN verdicts'[d] \ Admitted(d)',
                      NEW j \in DOMAIN verdicts'[d] \ Admitted(d)', i < j,
                      verdicts'[d][j].stamp >= verdicts'[d][i].stamp + verdicts'[d][i].wait
               PROVE  Admitted(d)' \cap i..j # {}
    BY DEF RetryAfterIsEnough
  <2>1. CASE d # c
    BY <1>1, <1>17, <2>1 DEF RetryAfterIsEnough
  <2>2. CASE d = c /\ j \in 1..n - 1
    <3>1. i \in 1..n - 1 /\ i \notin Admitted(c) /\ j \notin Admitted(c)
      BY <2>2, <1>9
    <3>2. /\ Admitted(c)' \cap i..j = Admitted(c) \cap i..j
          /\ verdicts'[c][i] = verdicts[c][i] /\ verdicts'[c][j] = verdicts[c][j]
      BY <2>2, <3>1, <1>9
    <3>3. i \in DOMAIN verdicts[c] \ Admitted(c) /\ j \in DOMAIN verdicts[c] \ Admitted(c)
      BY <2>2, <3>1, <1>9
    <3> QED
      BY <1>1, <2>2, <3>2, <3>3 DEF RetryAfterIsEnough
  <2>3. CASE d = c /\ j \notin 1..n - 1
    <3>1. j = n /\ i \in 1..n - 1 /\ i \notin Admitted(c) /\ wait # 0
      BY <2>3, <1>9, <1>10
    <3>2. SUFFICES ASSUME Admitted(c)' \cap i..n = {} PROVE FALSE
      BY <2>3, <3>1
    <3>3. Admitted(c) \cap i..n - 1 = {}
      BY <1>9, <3>1, <3>2
    <3>4. \/ bal >= Unit
          \/ bal >= Unit + Rate * (s - verdicts[c][i].stamp - verdicts[c][i].wait)
      BY <1>9, <1>13, <3>1, <3>3
    <3>5. bal < Unit
      BY <3>1, <1>4 DEF bal
    <3> DEFINE x == s - verdicts[c][i].stamp - verdicts[c][i].wait
    <3>6. x \in Nat
      BY <2>3, <3>1, <1>6, <1>9, <1>10, <1>12
    <3> HIDE DEF x
    <3>7. Rate * x \in Nat
      BY <3>6, <1>2
    <3> QED
      BY <3>4, <3>5, <3>7, <1>2 DEF x
  <2> QED
    BY <2>1, <2>2, <2>3
<1>20. \A d \in Clients : Earned(d)' /\ Gaining(d)'
  BY <1>15, <1>16, <1>17
<1> QED
  BY <1>6, <1>18, <1>19, <1>20

(* The limiter's accounts stay in order whatever the server does. *)
LEMMA LimiterInvNext == LimiterInv /\ LimiterStep => LimiterInv'
<1> SUFFICES ASSUME LimiterInv, LimiterStep PROVE LimiterInv'
  OBVIOUS
<1>1. LimiterTypeOK /\ StampedOK /\ AdmissionsAreEarned /\ RetryAfterIsEnough
      /\ \A c \in Clients : Earned(c) /\ Gaining(c)
  BY DEF LimiterInv
<1>2. ASSUME NEW r \in Requests, pc[r] = "stamped", NEW tokens, NEW wait, NEW to \in Places,
             to # "stamped", Leaves(r, tokens, wait), pc' = [pc EXCEPT ![r] = to],
             \/ Balance(r) >= Unit /\ tokens = Balance(r) - Unit /\ wait = 0
             \/ Balance(r) < Unit /\ tokens = Balance(r) /\ wait = RetryAfter(Unit - Balance(r))
      PROVE  LimiterInv'
  <2>1. /\ clock' = clock /\ key' = key /\ stamp' = stamp
        /\ buckets' \in [Clients -> Bucket \cup {None}]
        /\ setbacks' \in [Clients -> Nat]
        /\ verdicts' \in [Clients -> Seq(Verdict)]
        /\ \A c \in Clients : Earned(c)' /\ Gaining(c)'
        /\ AdmissionsAreEarned'
        /\ RetryAfterIsEnough'
    BY <1>2, ServedKeeps
  <2>2. LimiterTypeOK'
    BY <1>1, <1>2, <2>1 DEF LimiterTypeOK
  <2>3. StampedOK'
    BY <1>1, <1>2, <2>1 DEF StampedOK, LimiterTypeOK
  <2> QED
    BY <2>1, <2>2, <2>3 DEF LimiterInv
<1>3. ASSUME NEW r \in Requests, Admit(r)
      PROVE  LimiterInv'
  BY <1>2, <1>3 DEF Admit, Places
<1>4. ASSUME NEW r \in Requests, Refuse(r)
      PROVE  LimiterInv'
  BY <1>2, <1>4 DEF Refuse, Places
<1>5. ASSUME UNCHANGED <<buckets, verdicts, setbacks>>, clock' \in Nat, clock' >= clock
      PROVE  /\ \A c \in Clients : Earned(c)' /\ Gaining(c)'
             /\ AdmissionsAreEarned'
             /\ RetryAfterIsEnough'
  <2>1. \A c \in Clients : KeptOrEvicted(c)
    BY <1>5 DEF KeptOrEvicted
  <2>2. \A c \in Clients : Earned(c)' /\ Gaining(c)'
    BY <1>1, <1>5, <2>1, AccountKept
  <2>3. AdmissionsAreEarned' /\ RetryAfterIsEnough'
    BY <1>1, <1>5 DEF AdmissionsAreEarned, RetryAfterIsEnough, Admitted
  <2> QED
    BY <2>2, <2>3
<1>6. ASSUME NEW r \in Requests, ReadClock(r)
      PROVE  LimiterInv'
  <2>1. PICK c \in Clients : key' = [key EXCEPT ![r] = c]
    BY <1>6 DEF ReadClock
  <2>2. LimiterTypeOK'
    BY <1>1, <1>6, <2>1 DEF LimiterTypeOK, ReadClock, Places
  <2>3. StampedOK'
    BY <1>1, <1>6, <2>1, Amounts DEF StampedOK, LimiterTypeOK, ReadClock
  <2>4. /\ \A d \in Clients : Earned(d)' /\ Gaining(d)'
        /\ AdmissionsAreEarned'
        /\ RetryAfterIsEnough'
    BY <1>1, <1>5, <1>6 DEF ReadClock, LimiterTypeOK
  <2> QED
    BY <2>2, <2>3, <2>4 DEF LimiterInv
<1>7. CASE Tick
  <2>1. LimiterTypeOK'
    BY <1>1, <1>7 DEF LimiterTypeOK, Tick
  <2>2. StampedOK'
    BY <1>1, <1>7, Amounts DEF StampedOK, LimiterTypeOK, Tick
  <2>3. /\ \A d \in Clients : Earned(d)' /\ Gaining(d)'
        /\ AdmissionsAreEarned'
        /\ RetryAfterIsEnough'
    BY <1>1, <1>5, <1>7 DEF Tick, LimiterTypeOK
  <2> QED
    BY <2>1, <2>2, <2>3 DEF LimiterInv
<1>8. CASE /\ UNCHANGED <<clock, key, stamp, buckets, verdicts, setbacks>>
           /\ pc' \in [Requests -> Places]
           /\ \A r \in Requests : pc'[r] = "stamped" => pc[r] = "stamped"
  <2>1. LimiterTypeOK'
    BY <1>1, <1>8 DEF LimiterTypeOK
  <2>2. StampedOK'
    BY <1>1, <1>8 DEF StampedOK
  <2>3. /\ \A d \in Clients : Earned(d)' /\ Gaining(d)'
        /\ AdmissionsAreEarned'
        /\ RetryAfterIsEnough'
    BY <1>1, <1>5, <1>8 DEF LimiterTypeOK
  <2> QED
    BY <2>1, <2>2, <2>3 DEF LimiterInv
<1> QED
  BY <1>3, <1>4, <1>6, <1>7, <1>8 DEF LimiterStep

(* Every step of the server is one of its limiter's, or leaves it alone.   *)
LEMMA ServerAroundLimiter == LimiterTypeOK /\ [Next]_vars => LimiterStep
<1> SUFFICES ASSUME LimiterTypeOK, [Next]_vars PROVE LimiterStep
  OBVIOUS
<1>1. ASSUME NEW r \in Requests, Limit(r)
      PROVE  LimiterStep
  BY <1>1 DEF Limit, Allow, LimiterStep
<1>2. ASSUME NEW r \in Requests, Handle(r)
      PROVE  LimiterStep
  <2>1. UNCHANGED <<clock, key, stamp, buckets, verdicts, setbacks>>
    BY <1>2 DEF Handle, ServeHistory, NoHistory, BeginMeasure, LadderReturns, ServeLive,
                ServeStale, ServeError, LimiterKeeps
  <2>2. \E to \in Places \ {"stamped"} : pc' = [pc EXCEPT ![r] = to]
    BY <1>2 DEF Handle, ServeHistory, NoHistory, BeginMeasure, LadderReturns, ServeLive,
                ServeStale, ServeError, Reply, Step, Places
  <2> QED
    BY <2>1, <2>2 DEF LimiterStep, LimiterTypeOK
<1>3. ASSUME NEW r \in Requests, Expire(r) \/ HangUp(r)
      PROVE  LimiterStep
  BY <1>3 DEF Expire, HangUp, limiterVars, LimiterStep, LimiterTypeOK
<1>4. CASE MonitorAppends
  BY <1>4 DEF MonitorAppends, limiterVars, LimiterStep, LimiterTypeOK
<1>5. CASE TimePasses
  BY <1>5 DEF TimePasses, LimiterStep
<1>6. CASE UNCHANGED vars
  BY <1>6 DEF vars, limiterVars, LimiterStep, LimiterTypeOK
<1> QED
  BY <1>1, <1>2, <1>3, <1>4, <1>5, <1>6 DEF Next

(* The limiter's accounts are in order in every state of the server.       *)
LEMMA LimiterInvariant == Spec => []LimiterInv
<1>1. LimiterInv /\ [Next]_vars => LimiterInv'
  BY ServerAroundLimiter, LimiterInvNext DEF LimiterInv
<1> QED
  BY <1>1, LimiterInvInit, PTL DEF Spec

(* However many clients there are and whatever is evicted, refused or      *)
(* served out of order, no client is admitted beyond its burst and what    *)
(* its rate earned, but for what its own late requests set back            *)
(* (ratelimit.go:33-41, 84-103).                                           *)
THEOREM AdmissionsEarned == Spec => []AdmissionsAreEarned
BY LimiterInvariant, PTL DEF LimiterInv

(* The Retry-After a client is told is always enough (ratelimit.go:170).   *)
THEOREM RetryAfterEnough == Spec => []RetryAfterIsEnough
BY LimiterInvariant, PTL DEF LimiterInv

-----------------------------------------------------------------------------
(* The handler behind the limiter. *)
Codes == {"none", "rate_limited", "stored", "live", "no_history", "measurement_failed",
          "upstream_timeout"}

ServerTypeOK ==
    /\ store \in {"file", "embedded", "none"}
    /\ runs \in Nat
    /\ ctx \in [Requests -> {"live", "expired", "gone"}]
    /\ ladder \in [Requests -> {"none", "result", "failed", "timeout", "cancelled"}]
    /\ known \in [Requests -> Nat]
    /\ answer \in [Requests -> [code : Codes, run : Nat]]

Failures == {"failed", "timeout", "cancelled"}

(* Where a request stands, what its measurement returned and what it was   *)
(* answered belong together; no run is ever taken away.                    *)
HandlerOK ==
    \A r \in Requests :
       /\ known[r] <= runs
       /\ pc[r] \in {"new", "stamped", "admitted"} => ladder[r] = "none"
       /\ pc[r] = "measured" => ladder[r] = "result"
       /\ pc[r] = "falling back" => ladder[r] \in Failures
       /\ ~Answered(r, "none") => pc[r] \in {"answered", "refused"}

ServerInv ==
    /\ pc \in [Requests -> Places]
    /\ ServerTypeOK
    /\ HandlerOK
    /\ AnswersAreTrue
    /\ ErrorsHaveCause

(* At the start nobody was answered. *)
LEMMA ServerInvInit == Init => ServerInv
<1> SUFFICES ASSUME Init PROVE ServerInv
  OBVIOUS
<1> USE DEF Init, LimiterInit
<1>1. pc \in [Requests -> Places]
  BY DEF Places
<1>2. runs \in Nat
  BY ServerAssumption
<1>3. ServerTypeOK
  BY <1>2 DEF ServerTypeOK, Unanswered, Codes
<1>4. HandlerOK /\ AnswersAreTrue /\ ErrorsHaveCause
  BY <1>2 DEF HandlerOK, AnswersAreTrue, ErrorsHaveCause, Answered, Unanswered
<1> QED
  BY <1>1, <1>3, <1>4 DEF ServerInv

(* A request that is still being handled gets an answer that fits what its *)
(* measurement returned, what was stored and how it stands.                *)
LEMMA Replied ==
    ASSUME ServerInv, NEW r \in Requests, NEW code \in Codes \ {"none"}, NEW run \in Nat,
           Reply(r, code, run), UNCHANGED <<store, runs, ctx, ladder, known>>,
           code = "stored" => run \in known[r]..runs \ {0},
           code = "live" => ladder[r] = "result",
           code = "no_history" => known[r] = 0 /\ ladder[r] = "none",
           code \in {"measurement_failed", "upstream_timeout"} =>
              /\ ladder[r] \in {"failed", "timeout", "cancelled"}
              /\ known[r] = 0 \/ (store = "file" /\ ctx[r] # "live")
    PROVE  ServerInv'
<1> DEFINE a == [code |-> code, run |-> run]
<1>1. a \in [code : Codes, run : Nat] /\ a.code = code /\ a.run = run
  OBVIOUS
<1> HIDE DEF a
<1>2. answer' = [answer EXCEPT ![r] = a] /\ pc' = [pc EXCEPT ![r] = "answered"]
  BY DEF Reply, Step, a
<1>3. pc' \in [Requests -> Places] /\ pc'[r] = "answered"
      /\ \A q \in Requests : q # r => pc'[q] = pc[q]
  BY <1>2 DEF ServerInv, Places
<1>4. answer' \in [Requests -> [code : Codes, run : Nat]] /\ answer'[r] = a
      /\ \A q \in Requests : q # r => answer'[q] = answer[q]
  BY <1>1, <1>2 DEF ServerInv, ServerTypeOK
<1>5. ServerTypeOK'
  BY <1>4 DEF ServerInv, ServerTypeOK
<1>6. HandlerOK'
  BY <1>3, <1>4 DEF ServerInv, HandlerOK, Answered
<1>7. AnswersAreTrue' /\ ErrorsHaveCause'
  BY <1>1, <1>4 DEF ServerInv, AnswersAreTrue, ErrorsHaveCause, Answered
<1> QED
  BY <1>3, <1>5, <1>6, <1>7 DEF ServerInv

(* No step of the server makes an answer false. *)
LEMMA ServerInvNext == ServerInv /\ [Next]_vars => ServerInv'
<1> SUFFICES ASSUME ServerInv, [Next]_vars PROVE ServerInv'
  OBVIOUS
<1> USE DEF ServerInv
<1>a. runs \in Nat /\ \A r \in Requests : known[r] \in Nat /\ known[r] <= runs
  <2>1. runs \in Nat /\ \A r \in Requests : known[r] \in Nat
    BY DEF ServerTypeOK
  <2> QED
    BY <2>1 DEF HandlerOK
<1>1. ASSUME NEW r \in Requests, Limit(r)
      PROVE  ServerInv'
  <2>1. PICK to \in {"stamped", "admitted", "refused"} :
          /\ pc' = [pc EXCEPT ![r] = to]
          /\ pc[r] \in {"new", "stamped"}
    BY <1>1 DEF Limit, Allow, ReadClock, Admit, Refuse
  <2>2. pc' \in [Requests -> Places] /\ pc'[r] = to
    BY <2>1 DEF Places
  <2>3. /\ answer' = answer \/ answer' = [answer EXCEPT ![r] = [code |-> "rate_limited", run |-> 0]]
        /\ to = "refused" \/ answer' = answer
        /\ known' = known \/ known' = [known EXCEPT ![r] = runs]
        /\ UNCHANGED <<store, runs, ctx, ladder>>
    BY <1>1, <2>2 DEF Limit
  <2>4. ServerTypeOK'
    <3>1. [code |-> "rate_limited", run |-> 0] \in [code : Codes, run : Nat]
      BY DEF Codes
    <3> QED
      BY <2>3, <3>1 DEF ServerTypeOK
  <2>5. Answered(r, "none")
    BY <2>1 DEF HandlerOK
  <2>6. HandlerOK'
    <3>1. \A q \in Requests : q # r => pc'[q] = pc[q] /\ answer'[q] = answer[q]
      BY <2>1, <2>3 DEF ServerTypeOK
    <3>2. \A q \in Requests : known'[q] <= runs'
      <4>1. runs' = runs /\ \A q \in Requests : known'[q] = known[q] \/ known'[q] = runs
        BY <2>3 DEF ServerTypeOK
      <4> QED
        BY <4>1, <1>a
    <3>3. ladder[r] = "none" /\ (to # "refused" => Answered(r, "none")')
      BY <2>1, <2>3, <2>5 DEF HandlerOK, Answered
    <3> QED
      BY <2>1, <2>2, <2>3, <3>1, <3>2, <3>3 DEF HandlerOK, Answered
  <2>7. AnswersAreTrue' /\ ErrorsHaveCause'
    BY <2>3, <2>5 DEF AnswersAreTrue, ErrorsHaveCause, ServerTypeOK, Answered
  <2> QED
    BY <2>2, <2>4, <2>6, <2>7
<1>2. ASSUME NEW r \in Requests, ServeHistory(r)
      PROVE  ServerInv'
  <2>1. runs \in known[r]..runs \ {0} /\ runs \in Nat
    BY <1>2, <1>a DEF ServeHistory
  <2> QED
    BY <1>2, <2>1, Replied DEF ServeHistory, Codes
<1>3. ASSUME NEW r \in Requests, NoHistory(r)
      PROVE  ServerInv'
  <2>1. known[r] = 0 /\ ladder[r] = "none"
    <3>1. runs = 0 /\ pc[r] = "admitted"
      BY <1>3 DEF NoHistory, NothingStored, Begins
    <3>2. known[r] = 0
      BY <3>1, <1>a
    <3>3. ladder[r] = "none"
      BY <3>1 DEF HandlerOK
    <3> QED
      BY <3>2, <3>3
  <2> QED
    BY <1>3, <2>1, Replied DEF NoHistory, Codes
<1>4. ASSUME NEW r \in Requests, BeginMeasure(r)
      PROVE  ServerInv'
  BY <1>4 DEF BeginMeasure, Begins, Step, serverVars, Places, ServerTypeOK, HandlerOK,
              AnswersAreTrue, ErrorsHaveCause, Answered
<1>5. ASSUME NEW r \in Requests, LadderReturns(r)
      PROVE  ServerInv'
  <2>1. PICK what \in {"result"} \cup Failures :
          /\ ladder' = [ladder EXCEPT ![r] = what]
          /\ pc' = [pc EXCEPT ![r] = IF what = "result" THEN "measured" ELSE "falling back"]
    BY <1>5 DEF LadderReturns, Step, Failures, ServerTypeOK
  <2>2. pc[r] = "measuring" /\ UNCHANGED <<store, runs, ctx, known, answer>>
    BY <1>5 DEF LadderReturns
  <2>3. Answered(r, "none")
    BY <2>2 DEF HandlerOK
  <2> QED
    BY <2>1, <2>2, <2>3 DEF Places, ServerTypeOK, HandlerOK, Failures,
              AnswersAreTrue, ErrorsHaveCause, Answered
<1>6. ASSUME NEW r \in Requests, ServeLive(r)
      PROVE  ServerInv'
  <2>1. ladder[r] = "result"
    BY <1>6 DEF ServeLive, HandlerOK
  <2> QED
    BY <1>6, <2>1, Replied DEF ServeLive, Codes
<1>7. ASSUME NEW r \in Requests, ServeStale(r)
      PROVE  ServerInv'
  <2>1. StaleFor(r) = runs
    BY <1>7 DEF ServeStale, StaleFor
  <2>2. StaleFor(r) \in known[r]..runs \ {0} /\ StaleFor(r) \in Nat
    <3>1. runs # 0
      BY <1>7, <2>1 DEF ServeStale
    <3> QED
      BY <2>1, <3>1, <1>a
  <2> QED
    BY <1>7, <2>2, Replied DEF ServeStale, Codes
<1>8. ASSUME NEW r \in Requests, ServeError(r)
      PROVE  ServerInv'
  <2> DEFINE code == IF ladder[r] = "timeout" THEN "upstream_timeout" ELSE "measurement_failed"
  <2>1. code \in {"measurement_failed", "upstream_timeout"}
    OBVIOUS
  <2>2. ladder[r] \in {"failed", "timeout", "cancelled"}
    BY <1>8 DEF ServeError, HandlerOK, Failures
  <2>3. known[r] = 0 \/ (store = "file" /\ ctx[r] # "live")
    <3>1. runs = 0 \/ (store = "file" /\ ctx[r] # "live")
      BY <1>8 DEF ServeError, StaleFor, Readable
    <3> QED
      BY <3>1, <1>a
  <2>4. Reply(r, code, 0) /\ UNCHANGED <<store, runs, ctx, ladder, known>>
    BY <1>8 DEF ServeError
  <2> HIDE DEF code
  <2> QED
    BY <2>1, <2>2, <2>3, <2>4, Replied DEF Codes
<1>9. ASSUME NEW r \in Requests, Expire(r) \/ HangUp(r)
      PROVE  ServerInv'
  <2>1. PICK how \in {"expired", "gone"} : ctx' = [ctx EXCEPT ![r] = how]
    BY <1>9 DEF Expire, HangUp
  <2>2. UNCHANGED <<pc, store, runs, ladder, known, answer>> /\ ctx[r] = "live"
    BY <1>9 DEF Expire, HangUp, limiterVars
  <2>3. ServerTypeOK' /\ HandlerOK'
    BY <2>1, <2>2 DEF ServerTypeOK, HandlerOK, Answered
  <2>4. \A q \in Requests : ctx[q] # "live" => ctx'[q] # "live"
    BY <2>1 DEF ServerTypeOK
  <2>5. AnswersAreTrue' /\ ErrorsHaveCause'
    BY <2>2, <2>4 DEF AnswersAreTrue, ErrorsHaveCause, Answered
  <2> QED
    BY <2>2, <2>3, <2>5
<1>10. CASE MonitorAppends
  <2>1. /\ runs' = runs + 1
        /\ UNCHANGED <<pc, store, ctx, ladder, known, answer>>
    BY <1>10 DEF MonitorAppends, limiterVars
  <2>2. runs' \in Nat /\ \A r \in Requests : known[r] <= runs'
    BY <2>1, <1>a
  <2>3. \A r \in Requests : known[r]..runs \subseteq known[r]..runs'
    BY <2>1, <1>a
  <2>4. ServerTypeOK' /\ HandlerOK'
    BY <2>1, <2>2 DEF ServerTypeOK, HandlerOK, Answered
  <2>5. AnswersAreTrue' /\ ErrorsHaveCause'
    BY <2>1, <2>3 DEF AnswersAreTrue, ErrorsHaveCause, Answered
  <2> QED
    BY <2>1, <2>4, <2>5
<1>11. CASE TimePasses \/ UNCHANGED vars
  BY <1>11 DEF TimePasses, Tick, vars, limiterVars, serverVars, ServerTypeOK, HandlerOK,
              AnswersAreTrue, ErrorsHaveCause, Answered
<1> QED
  BY <1>1, <1>2, <1>3, <1>4, <1>5, <1>6, <1>7, <1>8, <1>9, <1>10, <1>11 DEF Next, Handle

(* Where a request stands and what it was answered fit, in every state.    *)
LEMMA ServerInvariant == Spec => []ServerInv
BY ServerInvInit, ServerInvNext, PTL DEF Spec

(* Whatever races the measurement - the budget, the client, the monitor -  *)
(* what is served is true (api.go:781-788).                                *)
THEOREM AnswersTrue == Spec => []AnswersAreTrue
BY ServerInvariant, PTL DEF ServerInv

(* An error is answered only where the measurement failed and the store     *)
(* held nothing in time, or was the file store asked with an ended context  *)
(* (api.go:321-355).  docs/errors.md has no such exception.                 *)
THEOREM ErrorsCaused == Spec => []ErrorsHaveCause
BY ServerInvariant, PTL DEF ServerInv
=============================================================================
