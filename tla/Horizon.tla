------------------------------ MODULE Horizon -------------------------------
(* What dex/ makes of Horizon's answers: the records of a path search, the   *)
(* best of them, and the health of an order book.  An amount or a price on   *)
(* the wire is [n, form]: the number, and whether its text is "fine", does   *)
(* not parse ("unparsed"), has an exponent no asset can carry ("exponent"),  *)
(* or more than seven decimal places ("overprecise").  A result that may be  *)
(* an error is [ok, ...] with why it failed.                                 *)
EXTENDS Integers, Sequences, FiniteSets, SequencesExt

Wire(n) == [n |-> n, form |-> "fine"]

Readable(amount) == amount.form \notin {"unparsed", "exponent"}

(* What a request is answered: a search's records, a book's offers.          *)
Amounts == [n : Int, form : {"fine", "unparsed", "exponent", "overprecise"}]
Records == [null : BOOLEAN, source : Amounts, dest : Amounts, hops : Seq(STRING)]
Offered == [price : Amounts, amount : Amounts]
SearchAnswers == [status : STRING, trailing : BOOLEAN, records : Seq(Records)]
BookAnswers == [status : STRING, trailing : BOOLEAN, bids : Seq(Offered), asks : Seq(Offered)]

Error(why) == [ok |-> FALSE, why |-> why, paths |-> << >>]

-----------------------------------------------------------------------------
(* A record is corrupt when it is null, when either amount does not read,    *)
(* when the side Horizon computed is not positive or is too precise, or when *)
(* a hop names an unknown kind of asset; one corrupt record fails the answer.*)

Computed(direction, r) == IF direction = "strict-send" THEN r.dest ELSE r.source

Corrupt(direction, r) ==
    \/ r.null
    \/ ~Readable(r.source) \/ ~Readable(r.dest)
    \/ Computed(direction, r).n <= 0
    \/ Computed(direction, r).form = "overprecise"
    \/ \E i \in DOMAIN r.hops : r.hops[i] = "unrecognised"

Path(r) == [source |-> r.source.n, dest |-> r.dest.n, hops |-> r.hops]

parsePathRecords(direction, records) ==
    IF \E i \in DOMAIN records : Corrupt(direction, records[i])
    THEN Error("corrupt")
    ELSE [ok |-> TRUE, why |-> "", paths |-> [i \in DOMAIN records |-> Path(records[i])]]

(* The request itself: a cancelled context asks nothing, and any answer but  *)
(* a single well-formed document is an error.                                *)
get(answer) == answer.status = "ok" /\ ~answer.trailing

StrictSendPaths(live, answer) ==
    CASE ~live         -> Error("context")
      [] ~get(answer)  -> Error("upstream")
      [] OTHER         -> parsePathRecords("strict-send", answer.records)

(* The first of the paths that deliver the most.                             *)
BestPath(live, answer) ==
    LET found == StrictSendPaths(live, answer)
        Most(i) == \A j \in DOMAIN found.paths :
                       found.paths[j].dest <= found.paths[i].dest
    IN  IF ~found.ok \/ found.paths = << >>
        THEN [ok |-> FALSE, why |-> IF found.ok THEN "no path found" ELSE found.why]
        ELSE [ok |-> TRUE, why |-> "",
              path |-> found.paths[Min({i \in DOMAIN found.paths : Most(i)})]]

-----------------------------------------------------------------------------
(* An offer counts as a level when its price is above dust and its amount is *)
(* positive; dust is counted apart, and everything unreadable is skipped.    *)

dustThreshold == 0

Dust(offers) ==
    {i \in DOMAIN offers : Readable(offers[i].price) /\ offers[i].price.n <= dustThreshold}

pricedLevels(offers) ==
    {i \in DOMAIN offers : /\ Readable(offers[i].price) /\ offers[i].price.n > dustThreshold
                           /\ Readable(offers[i].amount) /\ offers[i].amount.n > 0}

Prices(offers) == {offers[i].price.n : i \in pricedLevels(offers)}

(* twiceMid and twiceSpread are 0 unless both sides have a level.            *)
OrderBook(answer) ==
    LET bids == Prices(answer.bids)
        asks == Prices(answer.asks)
        bid == IF bids = {} THEN 0 ELSE Max(bids)
        ask == IF asks = {} THEN 0 ELSE Min(asks)
        two == bids # {} /\ asks # {}
    IN  [ok |-> get(answer), bids |-> Cardinality(pricedLevels(answer.bids)),
         asks |-> Cardinality(pricedLevels(answer.asks)),
         bestBid |-> bid, bestAsk |-> ask,
         twiceMid |-> IF two THEN bid + ask ELSE 0,
         twiceSpread |-> IF two THEN 2 * (ask - bid) ELSE 0,
         dust |-> Cardinality(Dust(answer.bids)) + Cardinality(Dust(answer.asks))]

=============================================================================
