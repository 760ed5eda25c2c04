---------------------------- MODULE MetricRules -----------------------------
(* The corridor metrics of checks/: when each is undetermined before asking  *)
(* anything, when its answer leaves it undetermined, and its value.  A value *)
(* is a ratio <<numerator, denominator>> with a positive denominator, so     *)
(* that nothing is rounded.  s is the subject of CheckRules with the pair    *)
(* and what the ladder established about it; book and the path searches are  *)
(* what module Horizon makes of the answers.                                 *)
EXTENDS Horizon, CheckRules

Measured(id, value) == [id |-> id, determined |-> TRUE, value |-> value]

Unmeasured(id) == [id |-> id, determined |-> FALSE, value |-> None]

Percent(part, whole) == <<part * 100, whole>>

(* a/b <= c/d                                                                *)
AtMost(v, w) == v[1] * w[2] <= w[1] * v[2]

NoPair(s) == s.send = None \/ s.receive = None

(* No book can exist: no market at all, or only a derived one with no single *)
(* pair underneath to measure instead.                                       *)
structuralUndetermined(s) ==
    \/ s.integrity = "NO-MARKET"
    \/ s.integrity = "DERIVATIVE" /\ s.underlying = None

(* The pair a book metric asks for.                                          *)
bookPair(s) ==
    IF s.integrity = "DERIVATIVE" /\ s.underlying # None
    THEN <<s.send, s.underlying>> ELSE <<s.send, s.receive>>

NoPath(s) == NoPair(s) \/ s.integrity = "NO-MARKET"

OneSided(book) == book.bids = 0 \/ book.asks = 0

-----------------------------------------------------------------------------
(* Blocked: undetermined with no request made.                               *)

NoReference(ref) == ~ref.scorable \/ ref.mid = 0

Blocked(id, s, ref) ==
    CASE id \in {"spread.bid-ask", "concentration.liquidity", "depth.observed"} ->
             NoPair(s) \/ structuralUndetermined(s)
      [] id = "deviation.book-vs-reference" ->
             NoPair(s) \/ structuralUndetermined(s) \/ NoReference(ref)
      [] id \in {"depth.executable", "fragmentation.paths"} -> NoPath(s)
      [] id = "price-impact.size" -> NoPath(s) \/ s.agreement = "MALFUNCTION"

SpreadMetric(book) ==
    IF ~book.ok \/ OneSided(book) THEN Unmeasured("spread.bid-ask")
    ELSE Measured("spread.bid-ask", Percent(book.twiceSpread, book.twiceMid))

ConcentrationMetric(book) ==
    IF ~book.ok \/ OneSided(book) THEN Unmeasured("concentration.liquidity")
    ELSE Measured("concentration.liquidity", <<1, book.bids + book.asks>>)

DepthObserved(book) ==
    IF ~book.ok \/ book.bids + book.asks = 0 THEN Unmeasured("depth.observed")
    ELSE Measured("depth.observed", <<book.bids + book.asks, 1>>)

DeviationMetric(ref, book) ==
    IF ~book.ok \/ OneSided(book) \/ book.twiceMid = 0
    THEN Unmeasured("deviation.book-vs-reference")
    ELSE Measured("deviation.book-vs-reference",
                  Percent(book.twiceMid - 2 * ref.mid, 2 * ref.mid))

(* floor is the smallest priced rung of the ladder: a size and the rate it   *)
(* got, both 0 when no rung was priced.  A gain reads as no loss.            *)
FloorLossMetric(s, ref, floor) ==
    IF NoPair(s) \/ NoReference(ref) \/ floor.size <= 0 \/ floor.rate <= 0
    THEN Unmeasured("floor-loss.reference-mid")
    ELSE Measured("floor-loss.reference-mid",
                  Percent(IF floor.rate > ref.mid THEN 0 ELSE ref.mid - floor.rate,
                          ref.mid))

-----------------------------------------------------------------------------
(* Metrics over path searches.  probes[i] is BestPath's result at the i-th   *)
(* size; the sizes that were priced, and those whose search failed.          *)
Priced(probes) == {i \in DOMAIN probes : probes[i].ok}

Broken(probes) == {i \in DOMAIN probes : ~probes[i].ok /\ probes[i].why # "no path found"}

Deepest(probes) ==
    IF Priced(probes) = {} THEN 0 ELSE Max({probes[i].path.dest : i \in Priced(probes)})

(* Mutant of DepthExecutable: a search that failed counts as exhausted.      *)
DepthOfSilence(probes) == Measured("depth.executable", <<Deepest(probes), 1>>)

(* An exhausted depth is zero; a depth nobody could ask about is unknown.    *)
DepthExecutable(probes) ==
    IF Priced(probes) = {} /\ Broken(probes) # {} THEN Unmeasured("depth.executable")
    ELSE Measured("depth.executable", <<Deepest(probes), 1>>)

Ratio(a, b) == IF b < 0 THEN <<-a, -b>> ELSE <<a, b>>

(* The amount a strict-send was asked for is taken as Horizon echoes it.     *)
PathRate(p) == IF p.source = 0 THEN <<0, 1>> ELSE Ratio(p.dest, p.source)

FirstRate(probes) == PathRate(probes[Min(Priced(probes))].path)

(* The fraction of the first priced size's rate that a priced size loses:    *)
(* negative where a larger size paid more.                                   *)
Impact(probes, i) ==
    LET first == FirstRate(probes)
        rate == PathRate(probes[i].path)
    IN  Ratio(first[1] * rate[2] - rate[1] * first[2], first[1] * rate[2])

ImpactCurve(probes) == {Impact(probes, i) : i \in Priced(probes)}

PriceImpactMetric(probes) ==
    LET zero == <<0, 1>>
        above == ImpactCurve(probes) \cup {zero}
    IN  IF Priced(probes) = {} \/ FirstRate(probes) = zero
        THEN Unmeasured("price-impact.size")
        ELSE Measured("price-impact.size", CHOOSE v \in above : \A w \in above : AtMost(w, v))

(* One destination amount per distinct path; the same path with two amounts  *)
(* is a contradiction.                                                       *)
Contradicts(paths) ==
    \E i, j \in DOMAIN paths : paths[i].hops = paths[j].hops /\ paths[i].dest # paths[j].dest

Firsts(paths) == {i \in DOMAIN paths : \A j \in 1 .. i - 1 : paths[j].hops # paths[i].hops}

distinctPathValues(paths) ==
    [i \in DOMAIN paths |-> IF i \in Firsts(paths) THEN paths[i].dest ELSE 0]

SumOf(values) ==
    LET upTo[n \in 0 .. Len(values)] == IF n = 0 THEN 0 ELSE upTo[n - 1] + values[n]
    IN  upTo[Len(values)]

(* The Herfindahl index of the paths' shares.                                *)
ConcentrationOfPaths(values) ==
    <<SumOf([i \in DOMAIN values |-> values[i] * values[i]]), SumOf(values) * SumOf(values)>>

FragmentationMetric(found) ==
    IF ~found.ok \/ found.paths = << >> \/ Contradicts(found.paths)
    THEN Unmeasured("fragmentation.paths")
    ELSE Measured("fragmentation.paths",
                  ConcentrationOfPaths(distinctPathValues(found.paths)))

=============================================================================
