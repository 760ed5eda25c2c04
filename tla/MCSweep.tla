------------------------------- MODULE MCSweep ------------------------------
(* Scenarios for Sweep: every check and metric on its own beside one that    *)
(* panics, over documents, answers and books that reach each of its cases,   *)
(* and the drift chain with concurrent requests, changes and restarts.       *)
EXTENDS Sweep

CONSTANTS a, b    \* two requests of the server

MCRequests == {a, b}

Entry(code, issuer, anchorAsset) ==
    [code |-> code, issuer |-> issuer, anchorAsset |-> anchorAsset]

Document(hash, field, currencies) ==
    [hash |-> hash, currencies |-> currencies, kyc |-> field, quote |-> field,
     webAuth |-> field, directPayment |-> field, transfer |-> field, transfer24 |-> field]

Listed == <<Entry("NGNC", "other", "self"), Entry("NGNC", "issuer", "iso")>>

Documents ==
    {Document(1, field, Listed) : field \in {"absent", "unusable", "declared"}}
    \cup {Document(1, "declared", <<Entry("NGNC", "issuer", x)>>) :
              x \in {"absent", "self", "shapeless"}}
    \cup {Document(1, "declared", << >>)}

Body(clawback, revocable, immutable, homeDomain) ==
    [flags |-> [required |-> FALSE, revocable |-> revocable, clawback |-> clawback,
                immutable |-> immutable],
     homeDomain |-> homeDomain]

Plain == Body(FALSE, FALSE, TRUE, "home")

Subject0 == [issuer |-> "issuer", code |-> "NGNC", profile |-> None, send |-> "USDC",
             receive |-> "NGNC", integrity |-> "DIRECT", underlying |-> None,
             agreement |-> "AGREED"]

Base == [suite |-> << >>, metrics |-> << >>, subject |-> Subject0, domain |-> TRUE,
         docs |-> <<Document(1, "declared", Listed)>>, accounts |-> <<Plain>>,
         homeDocuments |-> {None}, trouble |-> {}, bodies |-> {}, deadline |-> FALSE,
         restarts |-> FALSE, records |-> 1, fresh |-> TRUE, sweepers |-> {Monitor}, books |-> {},
         searches |-> {}, floors |-> {}, reference |-> [scorable |-> TRUE, mid |-> 4]]

-----------------------------------------------------------------------------
Probes == {"sep10.endpoint-responds", "sep31.info", "sep6.info-lists-asset",
           "sep24.info-lists-asset"}

Documented == {"toml.anchor-asset-iso4217", "sep12.server-published",
               "sep38.quote-server-published"}

Nowhere == [Subject0 EXCEPT !.issuer = None, !.code = None]

(* A document check beside a contributed one and a last.                     *)
Tables == [kind : {"table"}, check : Probes \cup Documented, bad : Contributed,
           last : {"sep38.quote-server-published", "issuer.auth-flags"},
           document : Documents, nowhere : BOOLEAN]

Table(k) ==
    [Base EXCEPT !.suite = <<k.check, k.bad, k.last>>, !.docs = <<k.document>>,
                 !.subject = IF k.nowhere THEN Nowhere ELSE @, !.domain = ~k.nowhere,
                 !.deadline = TRUE,
                 !.trouble = {"lost", "missing", "error", "garbled", "probe"},
                 !.bodies = [listed : BOOLEAN, enabled : BOOLEAN]]

Accounts ==
    {k \in [kind : {"account"}, first : AccountChecks, second : AccountChecks,
            clawback : BOOLEAN, revocable : BOOLEAN, immutable : BOOLEAN,
            home : {None, "home"}, nowhere : BOOLEAN] : k.first # k.second}

AccountOf(k) ==
    [Base EXCEPT !.suite = <<k.first, k.second>>,
                 !.accounts = <<Body(k.clawback, k.revocable, k.immutable, k.home)>>,
                 !.subject = IF k.nowhere THEN Nowhere ELSE @, !.domain = ~k.nowhere,
                 !.deadline = TRUE, !.homeDocuments = Documents \cup {None},
                 !.trouble = {"lost", "missing", "error", "garbled"}]

-----------------------------------------------------------------------------
Offer(price, amount) == [price |-> price, amount |-> amount]

Offers == {<< >>, <<Offer(Wire(2), Wire(1))>>,
           <<Offer(Wire(0), Wire(1)), Offer(Wire(3), Wire(1)), Offer(Wire(4), Wire(1))>>,
           <<Offer([n |-> 5, form |-> "exponent"], Wire(1)), Offer(Wire(9), Wire(0))>>}

Books == {[status |-> "ok", trailing |-> FALSE, bids |-> x, asks |-> y] :
              x, y \in Offers}
         \cup {[status |-> z, trailing |-> TRUE, bids |-> << >>, asks |-> << >>] :
              z \in {"ok", "lost"}}

PathRecord(n, m, hops) ==
    [null |-> FALSE, source |-> Wire(n), dest |-> Wire(m), hops |-> hops]

Answered ==
    {[status |-> "ok", trailing |-> FALSE, records |-> r] :
         r \in {<< >>, <<PathRecord(2, 3, << >>)>>,
                <<PathRecord(2, 3, <<"xlm">>), PathRecord(2, 6, << >>),
                  PathRecord(2, 3, <<"xlm">>)>>,
                <<PathRecord(2, 4, << >>), PathRecord(2, 5, << >>)>>,
                <<PathRecord(2, 0, << >>)>>, <<PathRecord(0, 3, << >>)>>,
                <<PathRecord(-2, 3, << >>)>>,
                <<[PathRecord(2, 3, << >>) EXCEPT !.null = TRUE]>>}}

Searches == {[status |-> "lost", trailing |-> FALSE, records |-> << >>]} \cup Answered

Metrics == [kind : {"metric"},
            first : {"spread.bid-ask", "concentration.liquidity", "depth.observed",
                     "deviation.book-vs-reference"} \cup PathMetrics,
            integrity : {"DIRECT", "DERIVATIVE", "NO-MARKET"},
            underlying : {None, "NGNC"}, scorable : BOOLEAN]

MetricOf(k) ==
    [Base EXCEPT !.metrics = <<k.first, "panics", "floor-loss.reference-mid">>,
                 !.subject.integrity = k.integrity,
                 !.subject.underlying = k.underlying,
                 !.subject.agreement = IF k.scorable THEN "AGREED" ELSE "MALFUNCTION",
                 !.reference.scorable = k.scorable,
                 !.deadline = TRUE, !.domain = FALSE, !.books = Books,
                 !.searches = {<<x, y>> : x, y \in Searches},
                 !.floors = {[size |-> n, rate |-> m] : n \in {0, 1}, m \in {0, 3, 5}}]

-----------------------------------------------------------------------------
Drifting == [kind : {"drift"}, fresh : BOOLEAN, requests : {{}, {a}, {a, b}}]

(* Alone, with every trouble; beside one request, with lost answers; beside  *)
(* two that race for the map, with the document changing.                    *)
DriftOf(k) ==
    LET alone == k.requests = {}
        racing == k.requests = {a, b}
    IN  [Base EXCEPT
            !.suite = IF alone THEN <<"issuer.drift", "sep10.endpoint-responds">>
                      ELSE <<"issuer.drift">>,
            !.accounts = IF racing THEN @ ELSE <<Plain, Body(TRUE, FALSE, FALSE, "home")>>,
            !.docs = <<Document(1, "declared", Listed), Document(2, "absent", Listed)>>,
            !.trouble = IF alone THEN {"lost", "missing"}
                        ELSE IF racing THEN {} ELSE {"lost"},
            !.bodies = {[listed |-> TRUE, enabled |-> TRUE]},
            !.deadline = alone, !.restarts = TRUE,
            !.records = IF racing THEN 2 ELSE 3,
            !.fresh = k.fresh, !.sweepers = {Monitor} \cup k.requests]

MCScenarios == Tables \cup Accounts \cup Metrics \cup Drifting

MCSetting(k) ==
    CASE k.kind = "table"   -> Table(k)
      [] k.kind = "account" -> AccountOf(k)
      [] k.kind = "metric"  -> MetricOf(k)
      [] k.kind = "drift"   -> DriftOf(k)
=============================================================================
