------------------------------- MODULE Ladder -------------------------------
(***************************************************************************)
(* Engine.Ladder (route/ladder.go): one corridor priced at every size of a *)
(* ladder by concurrent calls of Engine.Quote (route/route.go), each of    *)
(* which asks the two cached rate providers and then Horizon, and the      *)
(* summary that becomes the published document (route/wire.go).            *)
(*                                                                         *)
(* Rung i is the i-th size in ascending order.  A cached provider is       *)
(* modelled by what its cache answers: a fetched figure until it expires,  *)
(* and a new fetch, which may fail, after that (refrate/cached.go).  The   *)
(* curve, the marginal costs, the cost decomposition and the prose are     *)
(* functions of the rungs and are left out.                                *)
(***************************************************************************)
EXTENDS Reconcile, FiniteSets

CONSTANTS
    Size,           \* number of rungs
    Concurrency,    \* ladderConcurrency
    Achieved,       \* rates a route may achieve
    Hops,           \* fiat tokens a path may lead through
    MaxExpiries     \* bound on cache expiries in a behaviour

ASSUME SizeAssumption == Size \in Nat \ {0} /\ Concurrency \in Nat \ {0}
ASSUME AchievedAssumption == Achieved \subseteq Nat
(* The cached providers of a ladder are modelled without timestamps.       *)
ASSUME UntimedAssumption == 0 \in Moments
ASSUME ExpiriesAssumption == MaxExpiries \in Nat

VARIABLES
    pc,         \* rung -> where its goroutine stands
    said,       \* rung -> what the primary's cache answered its Quote
    rung,       \* rung -> its result so far
    cached,     \* source -> the figure in that provider's cache, or Failed
    expiries,   \* cache expiries so far
    ctx,        \* the caller's context: "live" or "ended"
    out         \* what Ladder returned, or Unfinished

vars == <<pc, said, rung, cached, expiries, ctx, out>>

Rungs == 1..Size
Integrities == {"UNKNOWN", "NO-MARKET", "DERIVATIVE", "DIRECT"}
Verdicts == {"UNKNOWN", "GOOD", "FAIR", "POOR", "UNUSABLE"}

(* err: the Quote returned an error.  rate: what it scored against. *)
Rung == [err : BOOLEAN, rate : Rate \cup {Failed}, integrity : Integrities,
         deps : SUBSET Hops, priced : BOOLEAN, achieved : Nat, verdict : Verdicts]
Blank == [err |-> FALSE, rate |-> Failed, integrity |-> "UNKNOWN",
          deps |-> {}, priced |-> FALSE, achieved |-> 0, verdict |-> "UNKNOWN"]

Unfinished == [how |-> "unfinished"]
Cancelled == [how |-> "cancelled"]
Summaries == [how : {"summarised"}, integrity : Integrities, deps : SUBSET Hops,
              rate : Rate \cup {Failed}, scored : BOOLEAN,
              floor : Rungs \cup {0}, recommended : Rungs \cup {0}, failed : BOOLEAN]

Init ==
    /\ pc = [r \in Rungs |-> "queued"]
    /\ said = [r \in Rungs |-> Failed]
    /\ rung = [r \in Rungs |-> Blank]
    /\ cached = [s \in Sources |-> Failed]
    /\ expiries = 0
    /\ ctx = "live"
    /\ out = Unfinished

-----------------------------------------------------------------------------
(* The goroutines. *)

(* Mutant of InFlight: a slot is never given back. *)
SlotsEverTaken == {r \in Rungs : pc[r] # "queued"}

InFlight == {r \in Rungs : pc[r] \notin {"queued", "done"}}

SlotFree == Cardinality(InFlight) < Concurrency

(* A goroutine takes a slot; it does so even when the context has ended.   *)
Acquire(r) ==
    /\ pc[r] = "queued"
    /\ SlotFree
    /\ pc' = [pc EXCEPT ![r] = "primary"]
    /\ UNCHANGED <<said, rung, cached, expiries, ctx, out>>

Finish(r, result) ==
    /\ pc' = [pc EXCEPT ![r] = "done"]
    /\ rung' = [rung EXCEPT ![r] = result]
    /\ UNCHANGED <<expiries, ctx, out>>

(* What a cached provider answers, and what its cache holds after it.  A   *)
(* failed fetch is not cached.                                             *)
Consult(source, answer) ==
    \/ /\ cached[source].ok
       /\ answer = cached[source]
       /\ UNCHANGED cached
    \/ /\ ~cached[source].ok
       /\ cached' = [cached EXCEPT ![source] = answer]

Answers(source) ==
    {Failed} \cup {Answered([mid |-> m, source |-> source, asOf |-> 0]) :
                      m \in Mids}

AskPrimary(r) ==
    /\ pc[r] = "primary"
    /\ ctx = "live"
    /\ \E a \in Answers("primary") :
          /\ Consult("primary", a)
          /\ said' = [said EXCEPT ![r] = a]
    /\ pc' = [pc EXCEPT ![r] = "secondary"]
    /\ UNCHANGED <<rung, expiries, ctx, out>>

AskSecondary(r) ==
    /\ pc[r] = "secondary"
    /\ ctx = "live"
    /\ \E a \in Answers("secondary") :
          /\ Consult("secondary", a)
          /\ said[r].ok \/ a.ok
          /\ rung' = [rung EXCEPT ![r].rate = CrossChecked(said[r], a)]
    /\ pc' = [pc EXCEPT ![r] = "quoting"]
    /\ UNCHANGED <<said, expiries, ctx, out>>

(* Neither provider answers: the Quote is an error. *)
NoReferenceRate(r) ==
    /\ pc[r] = "secondary"
    /\ ctx = "live"
    /\ ~said[r].ok
    /\ Consult("secondary", Failed)
    /\ UNCHANGED said
    /\ Finish(r, [Blank EXCEPT !.err = TRUE])

(* The context ends before there is a rate: the Quote is its error. *)
Abandon(r) ==
    /\ pc[r] \in {"primary", "secondary"}
    /\ ctx = "ended"
    /\ UNCHANGED <<said, cached>>
    /\ Finish(r, [Blank EXCEPT !.err = TRUE])

(* Horizon does not answer, or the context ends first: a note, no error.   *)
QuoteFails(r) ==
    /\ pc[r] = "quoting"
    /\ UNCHANGED <<said, cached>>
    /\ Finish(r, rung[r])

(* Horizon answers that there is no path. *)
NoPath(r) ==
    /\ pc[r] = "quoting"
    /\ UNCHANGED <<said, cached>>
    /\ Finish(r, [rung[r] EXCEPT !.integrity = "NO-MARKET"])

(* Mutant of Graded: an unscorable rate is graded against all the same. *)
GradedRegardless(rate, achieved) == Verdict(rate.figure.mid, achieved)

(* unscored: no verdict is derived from a broken benchmark. *)
Graded(rate, achieved) ==
    IF Scorable(rate) THEN Verdict(rate.figure.mid, achieved) ELSE "UNKNOWN"

(* Horizon answers with paths.  Every path leads through a fiat token, or  *)
(* one does not and the corridor is direct.                                *)
Priced(r) ==
    /\ pc[r] = "quoting"
    /\ UNCHANGED <<said, cached>>
    /\ \E achieved \in Achieved, deps \in SUBSET Hops :
          Finish(r, [rung[r] EXCEPT
                       !.integrity = IF deps = {} THEN "DIRECT" ELSE "DERIVATIVE",
                       !.deps = deps, !.priced = TRUE, !.achieved = achieved,
                       !.verdict = Graded(rung[r].rate, achieved)])

-----------------------------------------------------------------------------
(* summarise *)

FirstOf(S) == IF S = {} THEN 0 ELSE CHOOSE r \in S : \A q \in S : r <= q

Structured(kind) == {r \in Rungs : ~rung[r].err /\ rung[r].integrity = kind}
PricedRungs == {r \in Rungs : rung[r].priced}
Unmeasured == {r \in Rungs : rung[r].err \/ rung[r].integrity = "UNKNOWN"}

AllNoMarket == Structured("NO-MARKET") = Rungs

(* Mutant of LadderIntegrity: the dependencies are looked at first. *)
DerivativeFirst ==
    CASE AllNoMarket -> "NO-MARKET"
      [] Structured("DERIVATIVE") # {} -> "DERIVATIVE"
      [] Structured("DERIVATIVE") = {} /\ Structured("DIRECT") # {} -> "DIRECT"
      [] OTHER -> "UNKNOWN"

LadderIntegrity ==
    CASE AllNoMarket -> "NO-MARKET"
      [] Structured("DIRECT") # {} -> "DIRECT"
      [] Structured("DIRECT") = {} /\ Structured("DERIVATIVE") # {} -> "DERIVATIVE"
      [] OTHER -> "UNKNOWN"

(* The reference of the ladder is that of its first rung with a result. *)
LadderRate ==
    LET first == FirstOf({r \in Rungs : rung[r].rate # Failed})
    IN  IF first = 0 THEN Failed ELSE rung[first].rate

Floor == FirstOf(PricedRungs)

Recommended == FirstOf({r \in PricedRungs : Acceptable(rung[r].verdict)})

Summary ==
    [how |-> "summarised",
     integrity |-> LadderIntegrity,
     deps |-> IF LadderIntegrity = "DERIVATIVE"
              THEN UNION {rung[r].deps : r \in Structured("DERIVATIVE")} ELSE {},
     rate |-> LadderRate,
     scored |-> LadderRate = Failed \/ Scorable(LadderRate),
     floor |-> Floor,
     recommended |-> Recommended,
     failed |-> Unmeasured = Rungs]

(* wg.Wait returns: a ladder whose context has ended is not summarised.    *)
Return ==
    /\ out = Unfinished
    /\ \A r \in Rungs : pc[r] = "done"
    /\ out' = IF ctx = "ended" THEN Cancelled ELSE Summary
    /\ UNCHANGED <<pc, said, rung, cached, expiries, ctx>>

-----------------------------------------------------------------------------
(* A cached figure reaches its TTL. *)
Expire(source) ==
    /\ out = Unfinished
    /\ expiries < MaxExpiries
    /\ cached[source].ok
    /\ cached' = [cached EXCEPT ![source] = Failed]
    /\ expiries' = expiries + 1
    /\ UNCHANGED <<pc, said, rung, ctx, out>>

(* The request's budget runs out, or the process is told to stop. *)
EndContext ==
    /\ out = Unfinished
    /\ ctx = "live"
    /\ ctx' = "ended"
    /\ UNCHANGED <<pc, said, rung, cached, expiries, out>>

RungStep(r) ==
    \/ Acquire(r)
    \/ AskPrimary(r)
    \/ AskSecondary(r)
    \/ NoReferenceRate(r)
    \/ Abandon(r)
    \/ QuoteFails(r)
    \/ NoPath(r)
    \/ Priced(r)

Next ==
    \/ \E r \in Rungs : RungStep(r)
    \/ Return
    \/ \E s \in Sources : Expire(s)
    \/ EndContext

Spec == Init /\ [][Next]_vars

(* Goroutines run and every upstream call ends: the HTTP clients have      *)
(* timeouts and honour the context.                                        *)
Fairness == WF_vars(Return) /\ \A r \in Rungs : WF_vars(RungStep(r))
FairSpec == Spec /\ Fairness

-----------------------------------------------------------------------------
Published == out.how = "summarised"

(* NO-MARKET is published exactly when Horizon answered for every size     *)
(* that there is no path: no failed request, rate outage or timeout is     *)
(* taken for the absence of a market.  And one dead size erases nothing: a *)
(* direct path found at any size makes the corridor DIRECT, and every      *)
(* dependency of a DERIVATIVE one is a hop some size was priced through    *)
(* (ladder.go:207-231).                                                    *)
EvidenceSurvives ==
    Published =>
       /\ out.integrity = "NO-MARKET" <=>
             \A r \in Rungs : ~rung[r].err /\ rung[r].integrity = "NO-MARKET"
       /\ out.integrity = "DIRECT" <=> Structured("DIRECT") # {}
       /\ out.integrity = "DERIVATIVE" =>
             \A r \in PricedRungs : rung[r].deps # {} /\ rung[r].deps \subseteq out.deps
       /\ out.failed => out.integrity = "UNKNOWN"

(* A rung whose benchmark was broken carries no verdict, and what is       *)
(* recommended was graded acceptable against a benchmark that was not.     *)
VerdictNeedsBenchmark ==
    /\ \A r \in Rungs : rung[r].verdict # "UNKNOWN" => Scorable(rung[r].rate)
    /\ Published /\ out.recommended # 0 =>
          Acceptable(rung[out.recommended].verdict) /\ Scorable(rung[out.recommended].rate)

(* Every ladder returns, whatever fails, expires or is cancelled: no size  *)
(* waits for a slot that is never given back (ladder.go:321-338).          *)
LadderReturns == <>(out # Unfinished)

(* "scored: false - no loss figures and no verdicts are published"         *)
(* (docs/how-wayfare-works.md:30-31).                                      *)
UnscoredHasNoVerdicts ==
    Published /\ ~out.scored => \A r \in Rungs : rung[r].verdict = "UNKNOWN"
=============================================================================
