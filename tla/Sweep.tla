------------------------------- MODULE Sweep --------------------------------
(* The Runner of checks/runner.go at work: the scheduled measurement and the *)
(* requests of the HTTP server each resolve the anchor's document, run the   *)
(* checks and the metrics in order under one deadline, and go their way; the *)
(* scheduled one leaves its findings in the record, and the drift check of   *)
(* the next measurement compares against what the last record says.          *)
(*                                                                           *)
(* The anchor meanwhile changes its document and its account's flags, any    *)
(* request may be lost or refused, the deadline may fall at any moment, also *)
(* while a request is out, and the process may die and start again (two      *)
(* requests writing the profile map at once, runner.go:265, is one way).     *)
EXTENDS MetricRules

CONSTANTS Scenarios,    \* names of the scenarios
          Setting(_),   \* what is swept, by whom, and what may happen to it
          Requests      \* requests of the server that run a sweep

Monitor == "monitor"
Sweepers == Requests \cup {Monitor}

(* A Runner per owner; the server's one serves all its requests.             *)
Runners == {Monitor, "server"}
RunnerOf(p) == IF p = Monitor THEN Monitor ELSE "server"

VARIABLES
    chosen,     \* the scenario, fixed at the start
    world,      \* [flags, doc]: which versions the anchor has now
    cache,      \* per Runner: version of the profile it holds, or None
    sweep,      \* per sweeper: where it is and what it has found
    stored      \* the drift findings of the records, oldest first

vars == <<chosen, world, cache, sweep, stored>>

(* A subject may have a profile; the suite is made of the built-in checks,   *)
(* one of which watches for drift, and of contributed ones (runner.go:62-83);*)
(* trouble names what a request may come back with instead of what it asked. *)
ASSUME SettingAssumption ==
    \A k \in Scenarios :
       LET suite == Setting(k).suite
       IN  /\ "profile" \in DOMAIN Setting(k).subject
           /\ suite \in Seq(CheckNames)
           /\ Setting(k).trouble \subseteq {"lost", "missing", "error", "garbled", "probe"}
           /\ \A i, j \in DOMAIN suite :
                 suite[i] = "issuer.drift" /\ suite[j] = "issuer.drift" => i = j

MetricNames == {"spread.bid-ask", "concentration.liquidity", "depth.observed",
                "deviation.book-vs-reference", "depth.executable", "fragmentation.paths",
                "price-impact.size", "floor-loss.reference-mid"}

(* What a metric is given: a subject with a pair and what the ladder found,  *)
(* the benchmark whose agreement the subject carries (runner.go:224-245,     *)
(* refrate.go:80), and answers of the form Horizon's have.                   *)
ASSUME MetricAssumption ==
    \A k \in Scenarios :
       LET x == Setting(k)
       IN  /\ {"send", "receive", "integrity", "underlying", "agreement"} \subseteq DOMAIN x.subject
           /\ x.metrics \in Seq(MetricNames \cup Contributed)
           /\ x.books \subseteq BookAnswers
           /\ x.searches \subseteq Seq(SearchAnswers) \ {<< >>}
           /\ x.floors \subseteq [size : Int, rate : Int]
           /\ x.reference \in [scorable : BOOLEAN, mid : Nat]
           /\ x.subject.agreement = "MALFUNCTION" <=> ~x.reference.scorable

(* scenario.records bounds the records the scheduled measurement keeps.      *)
scenario == Setting(chosen)

Idle == [pc |-> "idle", live |-> TRUE, since |-> 0, baseline |-> None, profile |-> None,
         fetched |-> None, seen |-> None, answers |-> << >>, checks |-> << >>,
         metrics |-> << >>]

Lost == [status |-> "lost"]
Cut == [status |-> "cut"]

Account == [status |-> "ok", body |-> scenario.accounts[world.flags]]

(* What a request for the account, or to an address the document declares,   *)
(* may come back with.                                                       *)
AccountAnswers == {Account} \cup {[status |-> a] : a \in scenario.trouble}

ProbeAnswers == {[status |-> "ok", body |-> b] : b \in scenario.bodies}
                    \cup {[status |-> a] : a \in scenario.trouble}

Init ==
    /\ chosen \in Scenarios
    /\ world = [flags |-> 1, doc |-> 1]
    /\ cache = [r \in Runners |-> None]
    /\ sweep = [p \in Sweepers |-> Idle]
    /\ stored = << >>

Goes(p, at) == sweep[p].pc = at

Step(p, new) == sweep' = [sweep EXCEPT ![p] = new]

-----------------------------------------------------------------------------
(* The drift observation the last record holds.                              *)
IssuerDriftBaselineFromChecks ==
    IF stored = << >> THEN None ELSE stored[Len(stored)].seen

(* Mutant of Begin: the scheduled measurement keeps its Runner.              *)
BeginShared(p) ==
    /\ Goes(p, "idle")
    /\ p \in scenario.sweepers
    /\ p = Monitor => Len(stored) < scenario.records
    /\ Step(p, [Idle EXCEPT !.pc = "subject", !.since = world.doc,
                            !.baseline = IssuerDriftBaselineFromChecks])
    /\ UNCHANGED <<chosen, world, cache, stored>>

(* A scheduled measurement that records a snapshot runs on a Runner of its   *)
(* own; the others keep theirs for the life of the process.                  *)
Begin(p) ==
    /\ Goes(p, "idle")
    /\ p \in scenario.sweepers
    /\ p = Monitor => Len(stored) < scenario.records
    /\ Step(p, [Idle EXCEPT !.pc = "subject", !.since = world.doc,
                            !.baseline = IssuerDriftBaselineFromChecks])
    /\ cache' = IF p = Monitor /\ scenario.fresh
                THEN [cache EXCEPT ![Monitor] = None] ELSE cache
    /\ UNCHANGED <<chosen, world, stored>>

(* The subject: the document of a domain that was verified, from the Runner's*)
(* map when it is there, else fetched; a fetch that fails leaves none.       *)
Cached(p) ==
    /\ Goes(p, "subject")
    /\ ~scenario.domain \/ cache[RunnerOf(p)] # None
    /\ Step(p, [sweep[p] EXCEPT !.pc = "checks",
                                !.profile = IF scenario.domain THEN cache[RunnerOf(p)]
                                            ELSE None])
    /\ UNCHANGED <<chosen, world, cache, stored>>

Resolve(p) ==
    /\ Goes(p, "subject")
    /\ scenario.domain /\ cache[RunnerOf(p)] = None
    /\ \/ sweep[p].live /\ Step(p, [sweep[p] EXCEPT !.pc = "keep", !.fetched = world.doc])
       \/ Step(p, [sweep[p] EXCEPT !.pc = "checks"])
    /\ UNCHANGED <<chosen, world, cache, stored>>

(* Another request may have kept a later document since: the last to write   *)
(* wins.                                                                     *)
Keep(p) ==
    /\ Goes(p, "keep")
    /\ Step(p, [sweep[p] EXCEPT !.pc = "checks", !.profile = sweep[p].fetched])
    /\ cache' = [cache EXCEPT ![RunnerOf(p)] = sweep[p].fetched]
    /\ UNCHANGED <<chosen, world, stored>>

Subject(p) ==
    [scenario.subject EXCEPT
        !.profile = IF sweep[p].profile = None THEN None
                    ELSE scenario.docs[sweep[p].profile]]

(* The next check in order, with the answer to what it asks, if anything: it *)
(* asks nothing once the deadline is past, and what the deadline cuts off    *)
(* comes back as a transport error.                                          *)
Check(p) ==
    LET i == Len(sweep[p].checks) + 1
        name == scenario.suite[i]
        s == Subject(p)
        asks == sweep[p].live /\ name \notin Contributed /\ Asks(name, s)
        Took(answer, document, cut) ==
            Step(p, [sweep[p] EXCEPT
                !.live = @ /\ ~cut,
                !.answers = Append(@, IF asks THEN answer.status ELSE "none"),
                !.seen = IF asks /\ name = "issuer.drift"
                         THEN issuerDriftObservation(s, answer) ELSE @,
                !.checks = Append(@, Run(name, sweep[p].live, s, answer, document,
                                         sweep[p].baseline))])
    IN  /\ Goes(p, "checks")
        /\ i <= Len(scenario.suite)
        /\ \/ ~asks /\ Took(Lost, None, FALSE)
           \/ asks /\ scenario.deadline /\ Took(Cut, None, TRUE)
           \/ /\ asks
              /\ \E answer \in IF name \in AccountChecks THEN AccountAnswers
                               ELSE ProbeAnswers,
                    document \in IF name = "toml.home-domain-roundtrip"
                                 THEN scenario.homeDocuments ELSE {None} :
                    Took(answer, document, FALSE)
        /\ UNCHANGED <<chosen, world, cache, stored>>

-----------------------------------------------------------------------------
(* The next metric.  DepthMetric declares an ID of its own, which is what a  *)
(* metric that never ran is reported under.                                  *)
MetricID(id) == IF id = "depth.observed" THEN "depth.observed-executable" ELSE id

BookMetric(id, book) ==
    CASE id = "spread.bid-ask"              -> SpreadMetric(book)
      [] id = "concentration.liquidity"     -> ConcentrationMetric(book)
      [] id = "depth.observed"              -> DepthObserved(book)
      [] id = "deviation.book-vs-reference" -> DeviationMetric(scenario.reference, book)

PathMetrics == {"depth.executable", "fragmentation.paths", "price-impact.size"}

(* probes are the sizes asked, in order; fragmentation asks the first only.  *)
PathMetric(id, found) ==
    LET probes == [i \in DOMAIN found |-> BestPath(TRUE, found[i])]
    IN  CASE id = "depth.executable"    -> DepthExecutable(probes)
          [] id = "price-impact.size"   -> PriceImpactMetric(probes)
          [] id = "fragmentation.paths" -> FragmentationMetric(StrictSendPaths(TRUE, found[1]))

RunMetric(p) ==
    LET id == scenario.metrics[Len(sweep[p].metrics) + 1]
        s == Subject(p)
        Found(result, asked) ==
            Step(p, [sweep[p] EXCEPT
                        !.metrics = Append(@, [result |-> result, asked |-> asked,
                                               pair |-> bookPair(s)])])
    IN  /\ Goes(p, "checks")
        /\ Len(sweep[p].checks) = Len(scenario.suite)
        /\ Len(sweep[p].metrics) < Len(scenario.metrics)
        /\ CASE ~sweep[p].live -> Found(Unmeasured(MetricID(id)), << >>)
             [] sweep[p].live /\ id = "floor-loss.reference-mid" ->
                    \E floor \in scenario.floors :
                        Found(FloorLossMetric(s, scenario.reference, floor), <<floor>>)
             [] sweep[p].live /\ id \in Contributed -> Found(Unmeasured(id), << >>)
             [] OTHER ->
                    IF Blocked(id, s, scenario.reference)
                    THEN Found(Unmeasured(id), << >>)
                    ELSE IF id \in PathMetrics
                         THEN \E found \in scenario.searches : Found(PathMetric(id, found), found)
                         ELSE \E book \in scenario.books :
                                  Found(BookMetric(id, OrderBook(book)), <<book>>)
        /\ UNCHANGED <<chosen, world, cache, stored>>

(* The findings of a scheduled measurement go into its record, whose drift   *)
(* check is the baseline of the next; a record that could not be written     *)
(* leaves the last one in place.  A request's findings go to the client.     *)
Verdict(p) ==
    LET drift == {i \in DOMAIN sweep[p].checks : sweep[p].checks[i].id = "issuer.drift"}
        first == sweep[p].checks[CHOOSE i \in drift : \A j \in drift : i <= j]
    IN  IF drift = {} THEN "none"
        ELSE IF ~first.determined THEN "undetermined"
        ELSE IF first.passed THEN "passed" ELSE "failed"

Done(p) == /\ Goes(p, "checks")
           /\ Len(sweep[p].checks) = Len(scenario.suite)
           /\ Len(sweep[p].metrics) = Len(scenario.metrics)

Record(p) == [seen |-> sweep[p].seen, verdict |-> Verdict(p)]

Finish(p) ==
    /\ Done(p)
    /\ Step(p, Idle)
    /\ \/ p = Monitor /\ stored' = Append(stored, Record(p))
       \/ UNCHANGED stored
    /\ UNCHANGED <<chosen, world, cache>>

(* The deadline of a sweep falls between two of its requests.                *)
Deadline(p) ==
    /\ ~Goes(p, "idle") /\ scenario.deadline /\ sweep[p].live
    /\ Step(p, [sweep[p] EXCEPT !.live = FALSE])
    /\ UNCHANGED <<chosen, world, cache, stored>>

ChangeFlags ==
    /\ world.flags < Len(scenario.accounts)
    /\ world' = [world EXCEPT !.flags = @ + 1]
    /\ UNCHANGED <<chosen, cache, sweep, stored>>

ChangeDocument ==
    /\ world.doc < Len(scenario.docs)
    /\ world' = [world EXCEPT !.doc = @ + 1]
    /\ UNCHANGED <<chosen, cache, sweep, stored>>

Restart ==
    /\ scenario.restarts
    /\ cache' = [r \in Runners |-> None]
    /\ sweep' = [p \in Sweepers |-> Idle]
    /\ UNCHANGED <<chosen, world, stored>>

SweepStep(p) == \/ Begin(p) \/ Cached(p) \/ Resolve(p) \/ Keep(p) \/ Check(p)
                \/ RunMetric(p) \/ Finish(p) \/ Deadline(p)

Next == (\E p \in Sweepers : SweepStep(p)) \/ ChangeFlags \/ ChangeDocument \/ Restart

Spec == Init /\ [][Next]_vars

-----------------------------------------------------------------------------
(* Whose failure is it (docs/checks.md:205-222)?  A silence of Horizon is    *)
(* nobody's failure and nobody's credit: a check that reads the account is   *)
(* determined only by an answer about it.  A check that reads the document   *)
(* is determined only when there is one.  Any answer short of 200, and any   *)
(* silence, of an address the document declares is the anchor's failure,     *)
(* with one exception: the message that rejects our probe account.  No other *)
(* check fails by a request that was not answered.                           *)
SilenceIsNoEvidence ==
    \A p \in Sweepers : \A i \in DOMAIN sweep[p].checks :
        LET r == sweep[p].checks[i]
            name == scenario.suite[i]
            answer == sweep[p].answers[i]
            excused == name = "sep10.endpoint-responds" /\ answer = "probe"
        IN  /\ r.determined => IF name \in AccountChecks THEN answer \in {"ok", "missing"}
                               ELSE sweep[p].profile # None
            /\ name \notin AccountChecks /\ answer \notin {"none", "ok"} =>
                   /\ ProbedField(name, Subject(p).profile) = "declared"
                   /\ IF excused THEN ~r.determined ELSE Failed(r)

(* What a sweep's own deadline does to the anchor: of all the checks of a    *)
(* sweep at most one, the one whose request was out, is failed by it, and    *)
(* only at an address the document declares, where the code takes our        *)
(* deadline for a silence (sep10_endpoint.go:150-158); no check or metric    *)
(* after it asks or finds anything (checks.go:468, metric.go:61).            *)
DeadlineBlamesOneAddress ==
    \A p \in Sweepers : \A i \in DOMAIN sweep[p].answers : sweep[p].answers[i] = "cut" =>
        /\ Failed(sweep[p].checks[i]) <=>
               ProbedField(scenario.suite[i], Subject(p).profile) = "declared"
        /\ \A j \in DOMAIN sweep[p].checks : j > i =>
               ~sweep[p].checks[j].determined /\ sweep[p].answers[j] = "none"
        /\ \A j \in DOMAIN sweep[p].metrics : ~sweep[p].metrics[j].result.determined

(* What is published of a sweep loses no result, repeats none, puts failures *)
(* first and the worst of them at the head, and counts what it lists; an     *)
(* unknown raises no severity (checks.go:523-581, wire.go:79-101).           *)
DisplayIsFaithful ==
    \A p \in Sweepers :
        LET found == sweep[p].checks
            shown == ToJSON(found)
            Times(r, seq) == Cardinality({i \in DOMAIN seq : seq[i] = r})
        IN  /\ \A r \in ToSet(found) \cup ToSet(shown.checks) :
                   Times(r, found) = Times(r, shown.checks)
            /\ \A i, j \in DOMAIN shown.checks : i < j =>
                   /\ Failed(shown.checks[j]) => Failed(shown.checks[i])
                   /\ Failed(shown.checks[j]) =>
                          shown.checks[i].severity >= shown.checks[j].severity
                   /\ ~shown.checks[j].determined =>
                          ~(shown.checks[i].determined /\ shown.checks[i].passed)
            /\ shown.counts.passed + shown.counts.failed + shown.counts.undetermined
                   = Len(found)
            /\ shown.worst = IF shown.counts.failed = 0 THEN None
                             ELSE shown.checks[1].severity

(* The quantity each kind of value is: a concentration lies between an even  *)
(* split and one, a zero depth means that every size was answered with no    *)
(* path, and a loss is never negative (metric_depth.go:158-168).  Where no   *)
(* book can exist none is asked for, a book is never that of a derived       *)
(* market, and nothing derived from a benchmark is measured against one that *)
(* malfunctioned (metric_structural.go:10-45).                               *)
ValuesAreMeasured ==
    \A p \in Sweepers : \A i \in DOMAIN sweep[p].metrics :
        LET m == sweep[p].metrics[i].result
            asked == sweep[p].metrics[i].asked
            onBook == m.id \notin PathMetrics \cup {"floor-loss.reference-mid"}
            onRate == m.id \in {"floor-loss.reference-mid", "price-impact.size",
                                "deviation.book-vs-reference"}
            integrity == scenario.subject.integrity
        IN  /\ m.determined =>
                /\ asked # << >>
                /\ m.value[2] > 0
                /\ m.id \in {"concentration.liquidity", "fragmentation.paths"} =>
                       m.value[1] > 0 /\ AtMost(m.value, <<1, 1>>)
                /\ m.id = "fragmentation.paths" =>
                       LET found == StrictSendPaths(TRUE, asked[1]).paths
                       IN  AtMost(<<1, Cardinality({found[k].hops : k \in DOMAIN found})>>, m.value)
                /\ m.id = "depth.executable" /\ m.value[1] = 0 =>
                       \A k \in DOMAIN asked : asked[k].status = "ok" /\ asked[k].records = << >>
                /\ m.id \in {"floor-loss.reference-mid", "price-impact.size"} => m.value[1] >= 0
                /\ onRate => scenario.reference.scorable
            /\ integrity = "NO-MARKET" /\ m.id # "floor-loss.reference-mid" => asked = << >>
            /\ integrity = "DERIVATIVE" /\ onBook /\ asked # << >> =>
                   /\ scenario.subject.underlying # None
                   /\ sweep[p].metrics[i].pair = <<scenario.subject.send, scenario.subject.underlying>>

(* Successive observations, records without one in between or not.           *)
NextSeen(m, n) == /\ m < n /\ stored[m].seen # None /\ stored[n].seen # None
                  /\ \A k \in m + 1 .. n - 1 : stored[k].seen = None

(* A drift failure with an observation is a change between two successive    *)
(* records, and a pass is none; and a change between two successive          *)
(* observations is reported, unless the record just before the later one     *)
(* holds no observation, because the account or the document did not answer  *)
(* (issuer_drift.go:27-134, monitor.go:360-376).                             *)
DriftIsReal ==
    /\ \A n \in DOMAIN stored : stored[n].seen # None =>
           /\ stored[n].verdict = "failed" =>
                  n > 1 /\ stored[n - 1].seen \notin {None, stored[n].seen}
           /\ stored[n].verdict = "passed" => stored[n - 1].seen = stored[n].seen
    /\ \A m, n \in DOMAIN stored :
           NextSeen(m, n) /\ stored[m].seen # stored[n].seen
               => stored[n].verdict = "failed" \/ n > m + 1

(* A measurement on its own Runner reads the document as it is during the    *)
(* measurement; a Runner that outlives its sweep keeps the first it read.    *)
FreshRunnerIsCurrent ==
    scenario.fresh /\ sweep[Monitor].profile # None
        => sweep[Monitor].profile >= sweep[Monitor].since
=============================================================================
