--------------------------- MODULE RateCacheProofs --------------------------
(***************************************************************************)
(* What RateCache promises for any callers, any TTL and any bounds, proved.*)
(***************************************************************************)
EXTENDS RateCache, FiniteSetTheorems, TLAPS

Made == Cardinality(DOMAIN entries)

EntriesOK ==
    /\ Made \in Nat
    /\ DOMAIN entries = 1..Made
    /\ entries \in [DOMAIN entries -> Entry]

TypeOK ==
    /\ {clock, calls, invalidations} \subseteq Nat
    /\ EntriesOK
    /\ cached \in DOMAIN entries \cup {Nil}
    /\ pc \in [Callers -> {"idle", "lookup", "waiting", "fetching", "fetched"}]
    /\ on \in [Callers -> DOMAIN entries \cup {Nil}]
    /\ answer \in [Callers -> BOOLEAN]
    /\ since \in [Callers -> Nat]
    /\ result \in [Callers -> [ok : BOOLEAN, entry : DOMAIN entries \cup {Nil}, age : Int]]
    /\ \A p \in Callers : pc[p] \in {"waiting", "fetching", "fetched"} => on[p] # Nil
    /\ \A p \in Callers : result[p].ok => result[p].entry # Nil

(* A fetcher's entry is in flight, and its own. *)
OwnOK ==
    /\ \A p \in Fetchers : entries[on[p]].ready
    /\ \A p, q \in Fetchers : on[p] = on[q] => p = q

(* What is under the key was put there since the last Invalidate, and when *)
(* it is complete its fetch succeeded.                                     *)
KeyOK ==
    cached # Nil =>
       /\ entries[cached].claimed = invalidations
       /\ ~entries[cached].ready => entries[cached].ok

(* What a caller fetches began after its call did. *)
SinceOK ==
    \A p \in Callers :
       /\ since[p] <= invalidations
       /\ p \in Fetchers => entries[on[p]].claimed >= since[p]

ResultOK ==
    \A p \in Callers : result[p].ok =>
       /\ ~entries[result[p].entry].ready
       /\ entries[result[p].entry].ok
       /\ result[p].age < TTL
       /\ pc[p] = "idle" => entries[result[p].entry].claimed >= since[p]

(* Fetchers whose entry is no longer under the key: an Invalidate each.    *)
Orphans == {p \in Fetchers : on[p] # cached}

OrphansOK == IsFiniteSet(Orphans) /\ Cardinality(Orphans) <= invalidations

IInv == TypeOK /\ OwnOK /\ KeyOK /\ SinceOK /\ ResultOK /\ OrphansOK

-----------------------------------------------------------------------------
(* The entries after a step. *)

NewEntry == [ready |-> TRUE, ok |-> FALSE, fetchedAt |-> 0, claimed |-> invalidations]

(* A claim makes a new entry, in flight, beside the old ones. *)
LEMMA Claimed ==
    ASSUME TypeOK, NEW p \in Callers, Claim(p)
    PROVE  /\ Made + 1 \notin DOMAIN entries
           /\ Made + 1 # Nil
           /\ DOMAIN entries' = DOMAIN entries \cup {Made + 1}
           /\ EntriesOK'
           /\ entries'[Made + 1] = NewEntry
           /\ \A x \in DOMAIN entries : entries'[x] = entries[x]
<1> DEFINE e == Made + 1
<1>1. Made \in Nat /\ DOMAIN entries = 1..Made /\ invalidations \in Nat
  BY DEF TypeOK, EntriesOK
<1>2. entries' = [x \in DOMAIN entries \cup {e} |-> IF x = e THEN NewEntry ELSE entries[x]]
  BY DEF Claim, WithNewEntry, NewEntry, Made
<1>3. e \notin DOMAIN entries /\ e # Nil /\ DOMAIN entries' = 1..e
  BY <1>1, <1>2, NilAssumption
<1>4. Cardinality(1..e) = e
  BY <1>1, FS_Interval
<1>5. Made' = e
  BY <1>3, <1>4 DEF Made
<1>6. NewEntry \in Entry
  BY <1>1 DEF NewEntry, Entry
<1>7. \A x \in DOMAIN entries : entries[x] \in Entry
  BY DEF TypeOK, EntriesOK
<1>8. entries' \in [DOMAIN entries' -> Entry]
  BY <1>2, <1>6, <1>7
<1>9. EntriesOK'
  BY <1>1, <1>3, <1>5, <1>8 DEF EntriesOK
<1> QED
  BY <1>2, <1>3, <1>9

(* A completion changes the entry of the fetch and no other. *)
LEMMA Completes ==
    ASSUME TypeOK, NEW p \in Callers, Complete(p)
    PROVE  /\ on[p] \in DOMAIN entries
           /\ DOMAIN entries' = DOMAIN entries
           /\ EntriesOK'
           /\ entries'[on[p]] = [entries[on[p]] EXCEPT !.ready = FALSE, !.ok = answer[p],
                                                      !.fetchedAt = clock]
           /\ \A x \in DOMAIN entries : x # on[p] => entries'[x] = entries[x]
<1>1. pc[p] = "fetched" /\ entries' = [entries EXCEPT ![on[p]] = Completed(on[p], answer[p])]
  BY DEF Complete
<1>2. on[p] \in DOMAIN entries
  BY <1>1 DEF TypeOK
<1>3. answer[p] \in BOOLEAN /\ clock \in Nat /\ entries[on[p]] \in Entry
      /\ entries \in [DOMAIN entries -> Entry]
  BY <1>2 DEF TypeOK, EntriesOK
<1>4. Completed(on[p], answer[p]) \in Entry
  BY <1>3 DEF Completed, Entry
<1>5. DOMAIN entries' = DOMAIN entries /\ entries' \in [DOMAIN entries -> Entry]
  BY <1>1, <1>3, <1>4
<1>6. EntriesOK'
  BY <1>5 DEF TypeOK, EntriesOK, Made
<1> QED
  BY <1>1, <1>2, <1>3, <1>5, <1>6 DEF Completed

(* No step takes an entry away, changes when it was claimed, or touches a  *)
(* complete one.                                                           *)
LEMMA EntriesLast ==
    ASSUME TypeOK, OwnOK, [Next]_vars, NEW x \in DOMAIN entries
    PROVE  /\ x \in DOMAIN entries'
           /\ entries'[x].claimed = entries[x].claimed
           /\ ~entries[x].ready => entries'[x] = entries[x]
<1>1. CASE entries' = entries
  BY <1>1
<1>2. ASSUME NEW p \in Callers, Claim(p)
      PROVE  x \in DOMAIN entries' /\ entries'[x] = entries[x]
  BY <1>2, Claimed
<1>3. ASSUME NEW p \in Callers, Complete(p)
      PROVE  /\ x \in DOMAIN entries'
             /\ entries'[x].claimed = entries[x].claimed
             /\ ~entries[x].ready => entries'[x] = entries[x]
  <2>1. p \in Fetchers
    BY <1>3 DEF Complete, Fetchers
  <2>2. entries[on[p]].ready
    BY <2>1 DEF OwnOK
  <2>3. entries[x] \in Entry
    BY DEF TypeOK, EntriesOK
  <2>4. CASE x = on[p]
    BY <1>3, <2>2, <2>3, <2>4, Completes DEF Entry
  <2>5. CASE x # on[p]
    BY <1>3, <2>5, Completes
  <2> QED
    BY <2>4, <2>5
<1> QED
  BY <1>1, <1>2, <1>3 DEF Next, vars, Call, Lookup, Hit, Wait, Respond, Wake, GiveUp, Invalidate, Tick

-----------------------------------------------------------------------------
(* A call that ends leaves a well-typed result. *)
LEMMA Returned ==
    ASSUME TypeOK, NEW p \in Callers, NEW e, Return(p, e),
           e = Nil \/ (e \in DOMAIN entries' /\ EntriesOK'),
           DOMAIN entries \subseteq DOMAIN entries'
    PROVE  /\ pc' = [pc EXCEPT ![p] = "idle"]
           /\ on' \in [Callers -> DOMAIN entries' \cup {Nil}]
           /\ result' \in [Callers -> [ok : BOOLEAN, entry : DOMAIN entries' \cup {Nil}, age : Int]]
           /\ \A q \in Callers : result'[q].ok => result'[q].entry # Nil
<1> DEFINE r == IF e = Nil THEN NoResult
                ELSE [ok |-> TRUE, entry |-> e, age |-> clock - entries'[e].fetchedAt]
           Results == [ok : BOOLEAN, entry : DOMAIN entries' \cup {Nil}, age : Int]
<1>1. r \in Results /\ (r.ok => r.entry # Nil)
  <2>1. CASE e = Nil
    BY <2>1 DEF NoResult
  <2>2. CASE e # Nil
    <3>1. e \in DOMAIN entries' /\ entries'[e] \in Entry /\ clock \in Nat
      BY <2>2 DEF EntriesOK, TypeOK
    <3>2. clock - entries'[e].fetchedAt \in Int
      BY <3>1 DEF Entry
    <3> QED
      BY <2>2, <3>1, <3>2
  <2> QED
    BY <2>1, <2>2
<1>2. result' = [result EXCEPT ![p] = r]
  BY DEF Return
<1>3. \A q \in Callers : result[q] \in Results
  BY DEF TypeOK
<1>4. result' \in [Callers -> Results]
  BY <1>1, <1>2, <1>3 DEF TypeOK
<1>5. \A q \in Callers : result'[q].ok => result'[q].entry # Nil
  BY <1>1, <1>2 DEF TypeOK
<1> QED
  BY <1>4, <1>5 DEF Return, TypeOK

(* No step breaks the types. *)
LEMMA TypeNext == TypeOK /\ [Next]_vars => TypeOK'
<1> SUFFICES ASSUME TypeOK, [Next]_vars PROVE TypeOK'
  OBVIOUS
<1>1. CASE UNCHANGED vars
  BY <1>1 DEF vars, TypeOK, EntriesOK, Made
<1>2. ASSUME NEW p \in Callers, Call(p) PROVE TypeOK'
  BY <1>2 DEF Call, TypeOK, EntriesOK, Made
<1>3. ASSUME NEW p \in Callers, Hit(p) PROVE TypeOK'
  <2>1. cached \in DOMAIN entries' /\ EntriesOK' /\ DOMAIN entries = DOMAIN entries'
    BY <1>3 DEF Hit, Fresh, TypeOK, EntriesOK, Made
  <2>2. Return(p, cached)
    BY <1>3 DEF Hit
  <2>3. /\ pc' = [pc EXCEPT ![p] = "idle"]
        /\ on' \in [Callers -> DOMAIN entries' \cup {Nil}]
        /\ result' \in [Callers -> [ok : BOOLEAN, entry : DOMAIN entries' \cup {Nil}, age : Int]]
        /\ \A q \in Callers : result'[q].ok => result'[q].entry # Nil
    BY <2>1, <2>2, Returned
  <2>4. \A q \in Callers : pc'[q] \in {"waiting", "fetching", "fetched"} => on'[q] # Nil
    BY <2>2, <2>3 DEF Return, TypeOK
  <2>5. UNCHANGED <<clock, cached, answer, calls, invalidations, since>>
    BY <1>3 DEF Hit
  <2> QED
    BY <2>1, <2>3, <2>4, <2>5 DEF TypeOK
<1>4. ASSUME NEW p \in Callers, Wait(p) PROVE TypeOK'
  BY <1>4 DEF Wait, InFlight, TypeOK, EntriesOK, Made
<1>5. ASSUME NEW p \in Callers, Claim(p) PROVE TypeOK'
  <2>1. /\ EntriesOK' /\ DOMAIN entries' = DOMAIN entries \cup {Made + 1} /\ Made + 1 # Nil
        /\ cached' = Made + 1
    BY <1>5, Claimed DEF Claim, Made
  <2>2. on' = [on EXCEPT ![p] = Made + 1] /\ pc' = [pc EXCEPT ![p] = "fetching"]
        /\ UNCHANGED <<clock, answer, calls, invalidations, since, result>>
    BY <1>5 DEF Claim, Made
  <2>3. result' \in [Callers -> [ok : BOOLEAN, entry : DOMAIN entries' \cup {Nil}, age : Int]]
    <3>1. \A q \in Callers : result[q] \in [ok : BOOLEAN, entry : DOMAIN entries' \cup {Nil}, age : Int]
      BY <2>1 DEF TypeOK
    <3> QED
      BY <2>2, <3>1 DEF TypeOK
  <2> QED
    BY <2>1, <2>2, <2>3 DEF TypeOK
<1>6. ASSUME NEW p \in Callers, Respond(p) PROVE TypeOK'
  BY <1>6 DEF Respond, TypeOK, EntriesOK, Made
<1>7. ASSUME NEW p \in Callers, Complete(p) PROVE TypeOK'
  <2>1. EntriesOK' /\ DOMAIN entries' = DOMAIN entries /\ on[p] \in DOMAIN entries
    BY <1>7, Completes
  <2>2. Return(p, IF answer[p] THEN on[p] ELSE Nil)
    BY <1>7 DEF Complete
  <2>3. cached' \in {cached, Nil} /\ answer' \in [Callers -> BOOLEAN]
        /\ UNCHANGED <<clock, calls, invalidations, since>>
    BY <1>7 DEF Complete, KeyAfter, TypeOK
  <2> DEFINE e == IF answer[p] THEN on[p] ELSE Nil
  <2>4. e = Nil \/ (e \in DOMAIN entries' /\ EntriesOK')
    BY <2>1
  <2>5. /\ pc' = [pc EXCEPT ![p] = "idle"]
        /\ on' \in [Callers -> DOMAIN entries' \cup {Nil}]
        /\ result' \in [Callers -> [ok : BOOLEAN, entry : DOMAIN entries' \cup {Nil}, age : Int]]
        /\ \A q \in Callers : result'[q].ok => result'[q].entry # Nil
    <3> HIDE DEF e
    <3>1. Return(p, e)
      BY <2>2 DEF e
    <3> QED
      BY <2>1, <2>4, <3>1, Returned
  <2>6. \A q \in Callers : pc'[q] \in {"waiting", "fetching", "fetched"} => on'[q] # Nil
    BY <2>2, <2>5 DEF Return, TypeOK
  <2> QED
    BY <2>1, <2>3, <2>5, <2>6 DEF TypeOK
<1>8. ASSUME NEW p \in Callers, Wake(p) PROVE TypeOK'
  BY <1>8 DEF Wake, TypeOK, EntriesOK, Made
<1>9. ASSUME NEW p \in Callers, GiveUp(p) PROVE TypeOK'
  <2>1. EntriesOK' /\ DOMAIN entries = DOMAIN entries' /\ Return(p, Nil)
    BY <1>9 DEF GiveUp, TypeOK, EntriesOK, Made
  <2>2. /\ pc' = [pc EXCEPT ![p] = "idle"]
        /\ on' \in [Callers -> DOMAIN entries' \cup {Nil}]
        /\ result' \in [Callers -> [ok : BOOLEAN, entry : DOMAIN entries' \cup {Nil}, age : Int]]
        /\ \A q \in Callers : result'[q].ok => result'[q].entry # Nil
    BY <2>1, Returned
  <2>3. \A q \in Callers : pc'[q] \in {"waiting", "fetching", "fetched"} => on'[q] # Nil
    BY <2>1, <2>2 DEF Return, TypeOK
  <2>4. UNCHANGED <<clock, cached, answer, calls, invalidations, since>>
    BY <1>9 DEF GiveUp
  <2> QED
    BY <2>1, <2>2, <2>3, <2>4 DEF TypeOK
<1>10. CASE Invalidate \/ Tick
  BY <1>10 DEF Invalidate, Tick, TypeOK, EntriesOK, Made
<1> QED
  BY <1>1, <1>2, <1>3, <1>4, <1>5, <1>6, <1>7, <1>8, <1>9, <1>10 DEF Next, Lookup

-----------------------------------------------------------------------------
(* What a step does to the callers, to the key and to the entries: all the *)
(* rest of the argument needs to know of an action.                        *)

(* Nobody begins or ends a fetch, and nothing but an Invalidate, which     *)
(* empties it, touches the key.                                            *)
NoFetchMoves ==
    /\ entries' = entries
    /\ Fetchers' = Fetchers
    /\ \A p \in Fetchers : on'[p] = on[p]
    /\ \/ cached' = cached /\ invalidations' = invalidations
       \/ Invalidate

ClaimedBy(p) == Claim(p) /\ Fetchers' = Fetchers \cup {p} /\ p \notin Fetchers

CompletedBy(p) == Complete(p) /\ Fetchers' = Fetchers \ {p} /\ p \in Fetchers

(* Every step moves no fetch, claims one or completes one. *)
LEMMA StepKinds ==
    ASSUME TypeOK, [Next]_vars
    PROVE  NoFetchMoves \/ (\E p \in Callers : ClaimedBy(p) \/ CompletedBy(p))
<1>0. pc \in [Callers -> {"idle", "lookup", "waiting", "fetching", "fetched"}] /\ DOMAIN on = Callers
  BY DEF TypeOK
<1>1. CASE UNCHANGED vars \/ Invalidate \/ Tick
  BY <1>1 DEF vars, Invalidate, Tick, NoFetchMoves, Fetchers
<1>2. ASSUME NEW p \in Callers,
             Call(p) \/ Wait(p) \/ Respond(p) \/ Wake(p)
      PROVE  NoFetchMoves
  BY <1>0, <1>2 DEF Call, Wait, Respond, Wake, NoFetchMoves, Fetchers
<1>3. ASSUME NEW p \in Callers, Hit(p) \/ GiveUp(p)
      PROVE  NoFetchMoves
  BY <1>0, <1>3 DEF Hit, GiveUp, Return, NoFetchMoves, Fetchers
<1>4. ASSUME NEW p \in Callers, Claim(p) PROVE ClaimedBy(p)
  BY <1>0, <1>4 DEF Claim, ClaimedBy, Fetchers
<1>5. ASSUME NEW p \in Callers, Complete(p) PROVE CompletedBy(p)
  BY <1>0, <1>5 DEF Complete, Return, CompletedBy, Fetchers
<1> QED
  BY <1>1, <1>2, <1>3, <1>4, <1>5 DEF Next, Lookup

(* The fetchers left over keep their entries. *)
LEMMA OthersKeep ==
    ASSUME TypeOK, NEW p \in Callers, ClaimedBy(p) \/ CompletedBy(p), NEW q \in Callers, q # p
    PROVE  on'[q] = on[q] /\ (q \in Fetchers' <=> q \in Fetchers)
BY DEF ClaimedBy, CompletedBy, Claim, Complete, Return, TypeOK

(* A fetcher has an entry. *)
LEMMA FetchersTyped ==
    ASSUME TypeOK, NEW p \in Fetchers
    PROVE  p \in Callers /\ on[p] \in DOMAIN entries /\ entries[on[p]] \in Entry
BY DEF TypeOK, Fetchers, EntriesOK

(* No step gives two fetchers one entry. *)
LEMMA OwnNext == TypeOK /\ OwnOK /\ [Next]_vars => OwnOK'
<1> SUFFICES ASSUME TypeOK, OwnOK, [Next]_vars PROVE OwnOK'
  OBVIOUS
<1>1. CASE NoFetchMoves
  BY <1>1 DEF NoFetchMoves, OwnOK
<1>2. ASSUME NEW p \in Callers, ClaimedBy(p) PROVE OwnOK'
  <2>1. on'[p] = Made + 1 /\ entries'[Made + 1].ready
    <3>1. Claim(p) /\ entries'[Made + 1] = NewEntry
      BY <1>2, Claimed DEF ClaimedBy
    <3> QED
      BY <3>1 DEF Claim, TypeOK, NewEntry, Made
  <2>2. ASSUME NEW q \in Fetchers', q # p
        PROVE  q \in Fetchers /\ on'[q] = on[q] /\ on[q] # Made + 1 /\ entries'[on[q]].ready
    <3>1. q \in Fetchers /\ on'[q] = on[q]
      BY <1>2, <2>2, OthersKeep DEF ClaimedBy, Fetchers
    <3>2. on[q] \in DOMAIN entries
      BY <3>1, FetchersTyped
    <3> QED
      BY <1>2, <3>1, <3>2, Claimed DEF ClaimedBy, OwnOK
  <2> QED
    BY <2>1, <2>2 DEF OwnOK
<1>3. ASSUME NEW p \in Callers, CompletedBy(p) PROVE OwnOK'
  <2>1. ASSUME NEW q \in Fetchers'
        PROVE  q \in Fetchers /\ on'[q] = on[q] /\ entries'[on[q]].ready
    <3>1. q \in Fetchers /\ q # p /\ on'[q] = on[q]
      BY <1>3, <2>1, OthersKeep DEF CompletedBy, Fetchers
    <3>2. on[q] \in DOMAIN entries /\ on[q] # on[p]
      BY <1>3, <3>1, FetchersTyped DEF OwnOK, CompletedBy
    <3> QED
      BY <1>3, <3>1, <3>2, Completes DEF CompletedBy, OwnOK
  <2> QED
    BY <2>1 DEF OwnOK
<1> QED
  BY <1>1, <1>2, <1>3, StepKinds

(* No step leaves an old or a failed entry under the key. *)
LEMMA KeyNext == TypeOK /\ OwnOK /\ KeyOK /\ [Next]_vars => KeyOK'
<1> SUFFICES ASSUME TypeOK, OwnOK, KeyOK, [Next]_vars PROVE KeyOK'
  OBVIOUS
<1>0. cached \in DOMAIN entries \cup {Nil}
  BY DEF TypeOK
<1>1. CASE NoFetchMoves
  BY <1>1 DEF NoFetchMoves, KeyOK, Invalidate
<1>2. ASSUME NEW p \in Callers, ClaimedBy(p) PROVE KeyOK'
  <2>1. Claim(p) /\ entries'[Made + 1] = NewEntry
    BY <1>2, Claimed DEF ClaimedBy
  <2>2. cached' = Made + 1 /\ invalidations' = invalidations
    BY <2>1 DEF Claim, Made
  <2> QED
    BY <2>1, <2>2 DEF NewEntry, KeyOK
<1>3. ASSUME NEW p \in Callers, CompletedBy(p) PROVE KeyOK'
  <2>1. p \in Fetchers /\ Complete(p) /\ invalidations' = invalidations
        /\ cached' = IF answer[p] THEN cached ELSE Nil
    BY <1>3 DEF CompletedBy, Complete, KeyAfter
  <2>2. entries[on[p]] \in Entry /\ answer[p] \in BOOLEAN
    BY <2>1, FetchersTyped DEF TypeOK
  <2>3. CASE cached' = on[p] /\ cached' # Nil
    <3>1. answer[p] /\ cached = on[p] /\ entries[on[p]].claimed = invalidations
      BY <2>1, <2>2, <2>3 DEF KeyOK
    <3>2. entries'[on[p]].ok = answer[p] /\ entries'[on[p]].claimed = entries[on[p]].claimed
      BY <2>1, <2>2, Completes DEF Entry
    <3> QED
      BY <2>1, <2>3, <3>1, <3>2 DEF KeyOK
  <2>4. CASE cached' # on[p] /\ cached' # Nil
    BY <1>0, <2>1, <2>4, Completes DEF KeyOK
  <2> QED
    BY <2>3, <2>4 DEF KeyOK
<1> QED
  BY <1>1, <1>2, <1>3, StepKinds

(* A call that is not the one that ends now has the moment it had. *)
LEMMA SinceNext == TypeOK /\ SinceOK /\ OwnOK /\ [Next]_vars => SinceOK'
<1> SUFFICES ASSUME TypeOK, SinceOK, OwnOK, [Next]_vars PROVE SinceOK'
  OBVIOUS
<1>0. since \in [Callers -> Nat] /\ invalidations \in Nat
  BY DEF TypeOK
<1>1. ASSUME NEW p \in Callers PROVE since'[p] <= invalidations'
  <2>1. CASE since' = since /\ (invalidations' = invalidations \/ invalidations' = invalidations + 1)
    BY <1>0, <2>1 DEF SinceOK
  <2>2. ASSUME NEW q \in Callers, Call(q) PROVE since'[p] <= invalidations'
    BY <1>0, <2>2 DEF Call, SinceOK
  <2> QED
    BY <2>1, <2>2 DEF Next, vars, Lookup, Hit, Wait, Claim, Respond, Complete, Wake, GiveUp,
       Invalidate, Tick
<1>2. ASSUME NEW q \in Fetchers' PROVE entries'[on'[q]].claimed >= since'[q]
  <2>0. q \in Callers
    BY DEF Fetchers
  <2>1. CASE q \in Fetchers /\ on'[q] = on[q] /\ since'[q] = since[q]
    BY <2>1, FetchersTyped, EntriesLast DEF SinceOK
  <2>2. CASE Claim(q)
    <3>1. on'[q] = Made + 1 /\ since' = since
      BY <2>0, <2>2 DEF Claim, Made, TypeOK
    <3>2. entries'[Made + 1].claimed = invalidations
      BY <2>0, <2>2, Claimed DEF NewEntry
    <3> QED
      BY <1>0, <2>0, <3>1, <3>2 DEF SinceOK
  <2>3. CASE \E p \in Callers \ {q} : ClaimedBy(p) \/ CompletedBy(p)
    <3>1. q \in Fetchers /\ on'[q] = on[q]
      BY <2>0, <2>3, OthersKeep
    <3>2. since' = since
      BY <2>3 DEF ClaimedBy, CompletedBy, Claim, Complete
    <3> QED
      BY <2>1, <3>1, <3>2
  <2>4. CASE NoFetchMoves
    <3>1. q \in Fetchers /\ on'[q] = on[q]
      BY <2>4 DEF NoFetchMoves
    <3>2. pc[q] # "idle" /\ pc[q] # "lookup" /\ pc[q] # "waiting"
      BY <3>1 DEF Fetchers
    <3>3. since'[q] = since[q]
      BY <1>0, <2>0, <3>2 DEF Next, vars, Call, Lookup, Hit, Wait, Claim, Respond, Complete, Wake,
         GiveUp, Invalidate, Tick
    <3> QED
      BY <2>1, <3>1, <3>3
  <2>5. ~CompletedBy(q)
    BY DEF CompletedBy
  <2> QED
    BY <2>2, <2>3, <2>4, <2>5, StepKinds DEF ClaimedBy
<1> QED
  BY <1>1, <1>2 DEF SinceOK

(* No step returns what is old, failed or from before an Invalidate. *)
LEMMA ResultNext == TypeOK /\ OwnOK /\ KeyOK /\ SinceOK /\ ResultOK /\ [Next]_vars => ResultOK'
<1> SUFFICES ASSUME TypeOK, OwnOK, KeyOK, SinceOK, ResultOK, [Next]_vars,
                    NEW p \in Callers, result'[p].ok
             PROVE  /\ ~entries'[result'[p].entry].ready
                    /\ entries'[result'[p].entry].ok
                    /\ result'[p].age < TTL
                    /\ pc'[p] = "idle" => entries'[result'[p].entry].claimed >= since'[p]
  BY DEF ResultOK
<1>0. /\ since \in [Callers -> Nat] /\ invalidations \in Nat /\ clock \in Nat /\ TTL \in Nat \ {0}
      /\ result \in [Callers -> [ok : BOOLEAN, entry : DOMAIN entries \cup {Nil}, age : Int]]
      /\ pc \in [Callers -> {"idle", "lookup", "waiting", "fetching", "fetched"}]
      /\ answer[p] \in BOOLEAN
  BY TTLAssumption DEF TypeOK
<1>1. CASE result'[p] = result[p] /\ (pc'[p] = "idle" => pc[p] = "idle" /\ since'[p] = since[p])
  <2>1. result[p].entry \in DOMAIN entries /\ result[p].ok
    BY <1>0, <1>1 DEF TypeOK
  <2>2. entries'[result[p].entry] = entries[result[p].entry]
    BY <2>1, EntriesLast DEF ResultOK
  <2> QED
    BY <1>1, <2>1, <2>2 DEF ResultOK
<1>2. CASE Hit(p)
  <2>1. /\ entries' = entries /\ since' = since /\ cached # Nil /\ cached \in DOMAIN entries
        /\ ~entries[cached].ready /\ clock - entries[cached].fetchedAt < TTL
    BY <1>2 DEF Hit, Fresh, TypeOK
  <2>2. result'[p] = [ok |-> TRUE, entry |-> cached, age |-> clock - entries'[cached].fetchedAt]
    BY <1>0, <1>2, <2>1 DEF Hit, Return
  <2>3. entries[cached].ok /\ entries[cached].claimed = invalidations
    BY <2>1 DEF KeyOK
  <2> QED
    BY <1>0, <2>1, <2>2, <2>3 DEF SinceOK
<1>3. CASE Complete(p)
  <2>1. p \in Fetchers /\ on[p] \in DOMAIN entries /\ on[p] # Nil /\ since' = since
    BY <1>3 DEF Complete, Fetchers, TypeOK
  <2>2. entries[on[p]] \in Entry
    BY <2>1, FetchersTyped
  <2>3. entries'[on[p]] = [entries[on[p]] EXCEPT !.ready = FALSE, !.ok = answer[p], !.fetchedAt = clock]
    BY <1>3, Completes
  <2>4. result'[p] = IF (IF answer[p] THEN on[p] ELSE Nil) = Nil THEN NoResult
                     ELSE [ok |-> TRUE, entry |-> IF answer[p] THEN on[p] ELSE Nil,
                           age |-> clock - entries'[IF answer[p] THEN on[p] ELSE Nil].fetchedAt]
    BY <1>0, <1>3 DEF Complete, Return
  <2>5. CASE ~answer[p]
    BY <2>4, <2>5 DEF NoResult
  <2>6. CASE answer[p]
    <3>1. result'[p] = [ok |-> TRUE, entry |-> on[p], age |-> clock - entries'[on[p]].fetchedAt]
      BY <2>1, <2>4, <2>6
    <3>2. /\ entries'[on[p]].ready = FALSE /\ entries'[on[p]].ok = TRUE
          /\ entries'[on[p]].fetchedAt = clock
          /\ entries'[on[p]].claimed = entries[on[p]].claimed
      BY <1>0, <2>2, <2>3, <2>6 DEF Entry
    <3>3. entries[on[p]].claimed >= since[p]
      BY <2>1 DEF SinceOK
    <3> QED
      BY <1>0, <2>1, <3>1, <3>2, <3>3
  <2> QED
    BY <1>0, <2>5, <2>6
<1>4. CASE GiveUp(p)
  BY <1>0, <1>4 DEF GiveUp, Return, NoResult
<1>5. ASSUME NEW q \in Callers, Call(q) \/ Wait(q) \/ Claim(q) \/ Respond(q) \/ Wake(q)
      PROVE  result'[p] = result[p] /\ (pc'[p] = "idle" => pc[p] = "idle" /\ since'[p] = since[p])
  BY <1>0, <1>5 DEF Call, Wait, Claim, Respond, Wake
<1>6. ASSUME NEW q \in Callers \ {p}, Hit(q) \/ Complete(q) \/ GiveUp(q)
      PROVE  result'[p] = result[p] /\ (pc'[p] = "idle" => pc[p] = "idle" /\ since'[p] = since[p])
  BY <1>0, <1>6 DEF Hit, Complete, GiveUp, Return
<1>7. CASE UNCHANGED vars \/ Invalidate \/ Tick
  BY <1>1, <1>7 DEF vars, Invalidate, Tick
<1> QED
  BY <1>1, <1>2, <1>3, <1>4, <1>5, <1>6, <1>7 DEF Next, Lookup

(* A set with one more element than a set within the bound. *)
LEMMA OneMore ==
    ASSUME NEW S, IsFiniteSet(S), NEW n \in Nat, Cardinality(S) <= n, NEW x,
           NEW T, T \subseteq S \cup {x}
    PROVE  IsFiniteSet(T) /\ Cardinality(T) <= n + 1
<1>1. IsFiniteSet(S \cup {x}) /\ Cardinality(S \cup {x}) <= n + 1
  <2>1. /\ IsFiniteSet(S \cup {x})
        /\ Cardinality(S \cup {x}) = IF x \in S THEN Cardinality(S) ELSE Cardinality(S) + 1
    BY FS_AddElement
  <2>2. Cardinality(S) \in Nat
    BY FS_CardinalityType
  <2> QED
    BY <2>1, <2>2
<1>2. IsFiniteSet(T) /\ Cardinality(T) <= Cardinality(S \cup {x})
  BY <1>1, FS_Subset
<1> QED
  BY <1>1, <1>2, FS_CardinalityType

(* One taken from a set, at most one put in. *)
LEMMA OneForOne ==
    ASSUME NEW S, IsFiniteSet(S), NEW n \in Nat, Cardinality(S) <= n, NEW y \in S, NEW x,
           NEW T, T \subseteq (S \ {y}) \cup {x}
    PROVE  IsFiniteSet(T) /\ Cardinality(T) <= n
<1>1. IsFiniteSet(S \ {y}) /\ Cardinality(S \ {y}) = Cardinality(S) - 1
  BY FS_RemoveElement
<1>2. Cardinality(S) \in Nat /\ Cardinality(S \ {y}) \in Nat
  BY <1>1, FS_CardinalityType
<1>3. n - 1 \in Nat /\ Cardinality(S \ {y}) <= n - 1
  BY <1>1, <1>2
<1>4. IsFiniteSet(T) /\ Cardinality(T) <= (n - 1) + 1
  BY <1>1, <1>3, OneMore
<1> QED
  BY <1>4

(* Whoever fetches for the key is the only one who does. *)
LEMMA KeyFetcher ==
    ASSUME OwnOK
    PROVE  \E x : Fetchers \subseteq Orphans \cup {x}
<1>1. CASE Fetchers \subseteq Orphans
  BY <1>1
<1>2. CASE ~(Fetchers \subseteq Orphans)
  <2>1. PICK x \in Fetchers : on[x] = cached
    BY <1>2 DEF Orphans
  <2>2. Fetchers \subseteq Orphans \cup {x}
    BY <2>1 DEF OwnOK, Orphans
  <2> QED
    BY <2>2
<1> QED
  BY <1>1, <1>2

(* A fetch is only put off the key by an Invalidate, or in place of one      *)
(* that was off it and failed.                                             *)
LEMMA OrphansNext == TypeOK /\ OwnOK /\ OrphansOK /\ [Next]_vars => OrphansOK'
<1> SUFFICES ASSUME TypeOK, OwnOK, OrphansOK, [Next]_vars PROVE OrphansOK'
  OBVIOUS
<1>0. invalidations \in Nat /\ IsFiniteSet(Orphans) /\ Cardinality(Orphans) <= invalidations
  BY DEF TypeOK, OrphansOK
<1>s. ASSUME Orphans' \subseteq Orphans, invalidations' = invalidations PROVE OrphansOK'
  <2>1. IsFiniteSet(Orphans') /\ Cardinality(Orphans') <= Cardinality(Orphans)
    BY <1>0, <1>s, FS_Subset
  <2>2. Cardinality(Orphans') \in Nat /\ Cardinality(Orphans) \in Nat
    BY <1>0, <2>1, FS_CardinalityType
  <2> QED
    BY <1>0, <1>s, <2>1, <2>2 DEF OrphansOK
<1>1. CASE NoFetchMoves /\ cached' = cached /\ invalidations' = invalidations
  BY <1>1, <1>s DEF NoFetchMoves, Orphans
<1>2. CASE NoFetchMoves /\ Invalidate
  <2>1. PICK x : Fetchers \subseteq Orphans \cup {x}
    BY KeyFetcher
  <2>2. Orphans' \subseteq Orphans \cup {x} /\ invalidations' = invalidations + 1
    BY <1>2, <2>1 DEF NoFetchMoves, Invalidate, Orphans
  <2>3. IsFiniteSet(Orphans') /\ Cardinality(Orphans') <= invalidations + 1
    BY <1>0, <2>2, OneMore
  <2> QED
    BY <2>2, <2>3 DEF OrphansOK
<1>3. ASSUME NEW p \in Callers, ClaimedBy(p) PROVE OrphansOK'
  <2>1. /\ cached' = Made + 1 /\ on'[p] = Made + 1 /\ invalidations' = invalidations
        /\ ~InFlight(cached)
    BY <1>3 DEF ClaimedBy, Claim, Made, TypeOK
  <2>2. ASSUME NEW q \in Orphans' PROVE q \in Orphans
    <3>1. q \in Fetchers' /\ q # p
      BY <2>1, <2>2 DEF Orphans
    <3>2. q \in Callers /\ q \in Fetchers
      BY <1>3, <3>1 DEF ClaimedBy, Fetchers
    <3>3. entries[on[q]].ready /\ on[q] # Nil
      BY <3>2 DEF OwnOK, TypeOK, Fetchers
    <3>4. on[q] # cached
      BY <2>1, <3>3 DEF InFlight
    <3> QED
      BY <3>2, <3>4 DEF Orphans
  <2> QED
    BY <1>s, <2>1, <2>2
<1>4. ASSUME NEW p \in Callers, CompletedBy(p) PROVE OrphansOK'
  <2>1. /\ p \in Fetchers /\ Fetchers' = Fetchers \ {p} /\ invalidations' = invalidations
        /\ cached' = IF answer[p] THEN cached ELSE Nil
    BY <1>4 DEF CompletedBy, Complete, KeyAfter
  <2>2. \A q \in Fetchers' : on'[q] = on[q] /\ q \in Fetchers /\ q # p /\ q \in Callers
    BY <1>4, <2>1, OthersKeep DEF Fetchers
  <2>3. CASE cached' = cached
    BY <1>s, <2>1, <2>2, <2>3 DEF Orphans
  <2>4. CASE p \notin Orphans
    <3>1. on[p] = cached
      BY <2>1, <2>4 DEF Orphans
    <3>2. \A q \in Fetchers' : q \in Orphans
      BY <2>1, <2>2, <3>1 DEF OwnOK, Orphans
    <3>3. Orphans' \subseteq Orphans
      BY <3>2 DEF Orphans
    <3> QED
      BY <1>s, <2>1, <3>3
  <2>5. CASE p \in Orphans
    <3>1. PICK x : Fetchers \subseteq Orphans \cup {x}
      BY KeyFetcher
    <3>2. Orphans' \subseteq Fetchers \ {p}
      BY <2>1 DEF Orphans
    <3>3. Orphans' \subseteq (Orphans \ {p}) \cup {x}
      BY <3>1, <3>2
    <3>4. IsFiniteSet(Orphans') /\ Cardinality(Orphans') <= invalidations
      BY <1>0, <2>5, <3>3, OneForOne
    <3> QED
      BY <2>1, <3>4 DEF OrphansOK
  <2> QED
    BY <2>4, <2>5
<1> QED
  BY <1>1, <1>2, <1>3, <1>4, StepKinds DEF NoFetchMoves

-----------------------------------------------------------------------------
(* An empty cache satisfies the invariant. *)
LEMMA InvInit == Init => IInv
<1> SUFFICES ASSUME Init PROVE IInv
  OBVIOUS
<1>1. DOMAIN entries = {} /\ Cardinality(DOMAIN entries) = 0
  BY FS_EmptySet DEF Init
<1>2. TypeOK
  BY <1>1 DEF Init, TypeOK, EntriesOK, Made, NoResult
<1>3. Fetchers = {} /\ Orphans = {} /\ IsFiniteSet(Orphans) /\ Cardinality(Orphans) = 0
  BY FS_EmptySet DEF Init, Fetchers, Orphans
<1>4. OwnOK /\ KeyOK /\ SinceOK /\ ResultOK /\ OrphansOK
  BY <1>3 DEF Init, OwnOK, KeyOK, SinceOK, ResultOK, OrphansOK, NoResult
<1> QED
  BY <1>2, <1>4 DEF IInv

(* The invariant holds in every reachable state of the cache (cached.go).  *)
THEOREM Inductive == Spec => []IInv
<1>1. IInv /\ [Next]_vars => IInv'
  BY TypeNext, OwnNext, KeyNext, SinceNext, ResultNext, OrphansNext DEF IInv
<1> QED
  BY <1>1, InvInit, PTL DEF Spec

(* Every reachable state of the cache is well-typed: no caller waits on or *)
(* fetches for an entry that was never made (cached.go:15-27, 75-124).     *)
THEOREM TypeCorrect == Spec => []TypeOK
<1>1. IInv => TypeOK
  BY DEF IInv
<1> QED
  BY <1>1, Inductive, PTL

(* Concurrent misses collapse into one upstream call, and each Invalidate  *)
(* costs at most one more, however many callers there are                  *)
(* (cached.go:93-108).                                                     *)
THEOREM OneFetch == Spec => []MissesCollapse
<1>1. ASSUME IInv PROVE MissesCollapse
  <2>0. invalidations \in Nat /\ IsFiniteSet(Orphans) /\ Cardinality(Orphans) <= invalidations
    BY <1>1 DEF IInv, TypeOK, OrphansOK
  <2>1. PICK x : Fetchers \subseteq Orphans \cup {x}
    BY <1>1, KeyFetcher DEF IInv
  <2>2. Cardinality(Fetchers) <= invalidations + 1
    BY <2>0, <2>1, OneMore
  <2>3. IsFiniteSet(Fetchers)
    BY <2>0, <2>1, OneMore
  <2> QED
    BY <2>0, <2>2, <2>3, FS_CardinalityType DEF MissesCollapse
<1> QED
  BY <1>1, Inductive, PTL

(* A rate fetched before an Invalidate never answers a call made after it, *)
(* not even from a fetch then in flight (cached.go:131-136).               *)
THEOREM DropIsEffective == Spec => []InvalidateIsEffective
<1>1. IInv => InvalidateIsEffective
  BY DEF IInv, ResultOK, InvalidateIsEffective
<1> QED
  BY <1>1, Inductive, PTL

(* Nothing stale and nothing a failed fetch left behind is ever served     *)
(* (cached.go:80-92, 110-123).                                             *)
THEOREM AnswersAreFresh == Spec => []ServedIsFresh
<1>1. IInv => ServedIsFresh
  BY DEF IInv, ResultOK, ServedIsFresh
<1> QED
  BY <1>1, Inductive, PTL
=============================================================================
