----------------------------- MODULE RateCache ------------------------------
(***************************************************************************)
(* refrate.Cached (refrate/cached.go) for one currency pair: concurrent    *)
(* callers of Rate, the map entry that is either a fetched rate or a fetch *)
(* in flight, the upstream provider, and the operator who may Invalidate.  *)
(* Entries of different pairs share nothing but the mutex.                 *)
(***************************************************************************)
EXTENDS Integers, FiniteSets

CONSTANTS
    Callers,            \* goroutines that call Rate
    Nil,                \* no entry
    TTL,                \* age from which a fetched rate is no longer served
    MaxCalls,           \* bound on calls in a behaviour
    MaxTime,            \* bound on the clock
    MaxInvalidations    \* bound on calls of Invalidate

ASSUME TTLAssumption == TTL \in Nat \ {0}
ASSUME BoundsAssumption == {MaxCalls, MaxTime, MaxInvalidations} \subseteq Nat
ASSUME NilAssumption == Nil \notin Nat

VARIABLES
    clock,          \* Cached.now()
    cached,         \* the map: the entry under the pair's key, or Nil
    entries,        \* every entry ever made; it outlives its place in the map
    pc,             \* where each caller stands in Rate
    on,             \* the entry a caller fetches for or waits on
    answer,         \* whether the provider answered the caller's fetch
    (* history *)
    calls,          \* calls so far
    invalidations,  \* Invalidates so far
    since,          \* invalidations when the caller's call began
    result          \* what the caller's last call returned

vars == <<clock, cached, entries, pc, on, answer,
          calls, invalidations, since, result>>

NoResult == [ok |-> FALSE, entry |-> Nil, age |-> 0]

(* ready: the fetch is in flight.  claimed: invalidations when it began.   *)
Entry == [ready : BOOLEAN, ok : BOOLEAN, fetchedAt : Nat, claimed : Nat]

Init ==
    /\ clock = 0
    /\ cached = Nil
    /\ entries = [e \in {} |-> Nil]
    /\ pc = [p \in Callers |-> "idle"]
    /\ on = [p \in Callers |-> Nil]
    /\ answer = [p \in Callers |-> FALSE]
    /\ calls = 0
    /\ invalidations = 0
    /\ since = [p \in Callers |-> 0]
    /\ result = [p \in Callers |-> NoResult]

(* Mutant of InFlight: a fetch in flight is not noticed. *)
NeverInFlight(e) == FALSE

InFlight(e) == e # Nil /\ entries[e].ready

(* Mutant of Fresh: the TTL's last instant still counts. *)
FreshAtTTL(e) == e # Nil /\ ~entries[e].ready /\ clock - entries[e].fetchedAt <= TTL

Fresh(e) == e # Nil /\ ~entries[e].ready /\ clock - entries[e].fetchedAt < TTL

(* The caller's Rate returns entry e's rate, or an error when e is Nil. *)
Return(p, e) ==
    /\ pc' = [pc EXCEPT ![p] = "idle"]
    /\ on' = [on EXCEPT ![p] = Nil]
    /\ result' = [result EXCEPT ![p] =
          IF e = Nil THEN NoResult
          ELSE [ok |-> TRUE, entry |-> e, age |-> clock - entries'[e].fetchedAt]]

Call(p) ==
    /\ pc[p] = "idle"
    /\ calls < MaxCalls
    /\ calls' = calls + 1
    /\ pc' = [pc EXCEPT ![p] = "lookup"]
    /\ since' = [since EXCEPT ![p] = invalidations]
    /\ UNCHANGED <<clock, cached, entries, on, answer, invalidations, result>>

(* A completed entry inside the TTL is a hit. *)
Hit(p) ==
    /\ pc[p] = "lookup"
    /\ Fresh(cached)
    /\ UNCHANGED entries
    /\ Return(p, cached)
    /\ UNCHANGED <<clock, cached, answer, calls, invalidations, since>>

(* Somebody is already fetching this pair: wait on that fetch. *)
Wait(p) ==
    /\ pc[p] = "lookup"
    /\ InFlight(cached)
    /\ pc' = [pc EXCEPT ![p] = "waiting"]
    /\ on' = [on EXCEPT ![p] = cached]
    /\ UNCHANGED <<clock, cached, entries, answer, calls, invalidations, since, result>>

WithNewEntry(e) ==
    [x \in DOMAIN entries \cup {e} |->
       IF x = e THEN [ready |-> TRUE, ok |-> FALSE, fetchedAt |-> 0,
                      claimed |-> invalidations]
       ELSE entries[x]]

(* Miss, or expired: put a fresh entry under the key and fetch. *)
Claim(p) ==
    LET e == Cardinality(DOMAIN entries) + 1 IN
    /\ pc[p] = "lookup"
    /\ ~InFlight(cached)
    /\ ~Fresh(cached)
    /\ entries' = WithNewEntry(e)
    /\ cached' = e
    /\ pc' = [pc EXCEPT ![p] = "fetching"]
    /\ on' = [on EXCEPT ![p] = e]
    /\ UNCHANGED <<clock, answer, calls, invalidations, since, result>>

(* External: the provider answers, or the request fails or times out. *)
Respond(p) ==
    /\ pc[p] = "fetching"
    /\ \E ok \in BOOLEAN : answer' = [answer EXCEPT ![p] = ok]
    /\ pc' = [pc EXCEPT ![p] = "fetched"]
    /\ UNCHANGED <<clock, cached, entries, on, calls, invalidations, since, result>>

(* Mutant of Completed: a failed fetch releases no waiter. *)
CompletedIfOk(e, ok) ==
    [entries[e] EXCEPT !.ready = ~ok, !.ok = ok, !.fetchedAt = clock]

Completed(e, ok) ==
    [entries[e] EXCEPT !.ready = FALSE, !.ok = ok, !.fetchedAt = clock]

(* Mutant of KeyAfter: the fetcher puts its entry back under the key. *)
KeyReinserted(e, ok) == IF ok THEN e ELSE Nil

KeyAfter(e, ok) == IF ok THEN cached ELSE Nil

(* Back under the mutex: the entry is completed and its waiters released;  *)
(* a failed fetch deletes whatever is under the key.                       *)
Complete(p) ==
    LET e == on[p] IN
    /\ pc[p] = "fetched"
    /\ entries' = [entries EXCEPT ![e] = Completed(e, answer[p])]
    /\ cached' = KeyAfter(e, answer[p])
    /\ Return(p, IF answer[p] THEN e ELSE Nil)
    /\ answer' = [answer EXCEPT ![p] = FALSE]
    /\ UNCHANGED <<clock, calls, invalidations, since>>

(* The fetch a caller waits on has completed: look again. *)
Wake(p) ==
    /\ pc[p] = "waiting"
    /\ ~InFlight(on[p])
    /\ pc' = [pc EXCEPT ![p] = "lookup"]
    /\ on' = [on EXCEPT ![p] = Nil]
    /\ UNCHANGED <<clock, cached, entries, answer, calls, invalidations, since, result>>

(* The waiting caller's own context ends first. *)
GiveUp(p) ==
    /\ pc[p] = "waiting"
    /\ UNCHANGED entries
    /\ Return(p, Nil)
    /\ UNCHANGED <<clock, cached, answer, calls, invalidations, since>>

Invalidate ==
    /\ invalidations < MaxInvalidations
    /\ invalidations' = invalidations + 1
    /\ cached' = Nil
    /\ UNCHANGED <<clock, entries, pc, on, answer, calls, since, result>>

Tick ==
    /\ clock < MaxTime
    /\ clock' = clock + 1
    /\ UNCHANGED <<cached, entries, pc, on, answer, calls, invalidations, since, result>>

Lookup(p) == Hit(p) \/ Wait(p) \/ Claim(p)

Next ==
    \/ \E p \in Callers :
          Call(p) \/ Lookup(p) \/ Respond(p) \/ Complete(p) \/ Wake(p) \/ GiveUp(p)
    \/ Invalidate
    \/ Tick

Spec == Init /\ [][Next]_vars

(* A running goroutine goes on; the provider's HTTP client has a timeout,  *)
(* so a fetch ends.  Nobody has to call, give up or invalidate.            *)
Fairness ==
    \A p \in Callers :
       WF_vars(Lookup(p)) /\ WF_vars(Respond(p)) /\ WF_vars(Complete(p)) /\ WF_vars(Wake(p))
FairSpec == Spec /\ Fairness

-----------------------------------------------------------------------------
Fetchers == {p \in Callers : pc[p] \in {"fetching", "fetched"}}

(* Concurrent misses collapse: there is one fetch in flight, and one more  *)
(* for each time somebody dropped the pair.                                *)
MissesCollapse == Cardinality(Fetchers) <= 1 + invalidations

(* A call made after an Invalidate never gets a rate fetched before it,    *)
(* not even from a fetch that was in flight at the time.                   *)
InvalidateIsEffective ==
    \A p \in Callers : pc[p] = "idle" /\ result[p].ok =>
       entries[result[p].entry].claimed >= since[p]

(* What a call returns came from a fetch that succeeded, and is younger    *)
(* than the TTL: "never ... serving a rate past its bound because a        *)
(* refetch failed".                                                        *)
ServedIsFresh ==
    \A p \in Callers : result[p].ok =>
       entries[result[p].entry].ok /\ result[p].age < TTL

(* Every call returns: no waiter is left on a fetch that will not end, and *)
(* failing fetches do not pass it by forever.                              *)
EveryCallReturns == \A p \in Callers : pc[p] # "idle" ~> pc[p] = "idle"
=============================================================================
