---------------------------- MODULE Dependencies ----------------------------
(***************************************************************************)
(* The dependency tree of a derivative corridor (route/route.go): what a   *)
(* set of paths says of a corridor (classify), the recursion that asks     *)
(* Horizon about every fiat token the paths lead through (measureChain),   *)
(* and the union of the trees of all sizes (ladder.go, summarise).         *)
(*                                                                         *)
(* A path is the set of its hops.  A node of a tree is named by the way to *)
(* it from the corridor's destination: a sequence of tokens, the last of   *)
(* which it is about.  Sizes are independent calls; they are taken one by  *)
(* one, since they share nothing, and so are the branches of a tree, which *)
(* the code walks depth first.                                             *)
(***************************************************************************)
EXTENDS Naturals, FiniteSets, Sequences, SequencesExt

CONSTANTS
    Size,       \* number of sizes
    Fiat,       \* registered fiat tokens other than the destination
    Dest,       \* the destination, a registered fiat token as well
    Bridge,     \* any other hop: native, registered without a peg, unknown
    MaxDepth,   \* maxDependencyDepth
    Corridors,  \* sets of paths Horizon may answer with for the corridor
    Markets,    \* size -> (token -> set of paths): the markets considered
    MaxLost     \* bound on failed requests about a token

ASSUME DepthAssumption == Size \in Nat \ {0} /\ MaxDepth \in Nat \ {0} /\ MaxLost \in Nat
ASSUME FiatAssumption ==
    IsFiniteSet(Fiat) /\ Dest \notin Fiat /\ Bridge \notin Fiat \cup {Dest}
ASSUME MarketsAssumption == \A m \in Markets : \A s \in 1..Size : DOMAIN m[s] = Fiat

VARIABLES
    market,     \* what Horizon answers about each token at each size
    at,         \* the size being measured
    structure,  \* size -> [integrity, deps] of its own paths
    tree,       \* size -> (node -> [measured, integrity])
    todo,       \* nodes of the present size still to be expanded
    calls,      \* size -> requests made about tokens
    lost,       \* failed requests so far
    out         \* the published structure, or Unfinished

treeVars == <<market, at, structure, tree, todo, calls, lost, out>>

Sizes == 1..Size
Unfinished == [integrity |-> "unfinished"]
Unknown == [integrity |-> "UNKNOWN", deps |-> {}]

TreeInit ==
    /\ market \in Markets
    /\ at = 1
    /\ structure = [s \in Sizes |-> Unknown]
    /\ tree = [s \in Sizes |-> <<>>]
    /\ todo = {<<>>}
    /\ calls = [s \in Sizes |-> 0]
    /\ lost = 0
    /\ out = Unfinished

-----------------------------------------------------------------------------
(* A corridor is derivative when every path to it leads through some fiat  *)
(* token; the destination as its own hop is none.                          *)
FiatHops(path, dest) == (path \cap (Fiat \cup {Dest})) \ {dest}

classify(paths, dest) ==
    LET independent == \E p \in paths : FiatHops(p, dest) = {}
    IN  [integrity |-> CASE paths = {} -> "NO-MARKET"
                         [] independent -> "DIRECT"
                         [] paths # {} /\ ~independent -> "DERIVATIVE",
         deps |-> IF independent THEN {} ELSE UNION {FiatHops(p, dest) : p \in paths}]

-----------------------------------------------------------------------------
(* The corridor's own paths, or no answer: the size is then UNKNOWN.       *)
Quote ==
    /\ todo = {<<>>}
    /\ \/ /\ UNCHANGED structure
          /\ todo' = {}
       \/ \E paths \in Corridors :
             LET found == classify(paths, Dest)
             IN  /\ structure' = [structure EXCEPT ![at] = found]
                 /\ todo' = {<<d>> : d \in found.deps}
    /\ UNCHANGED <<market, at, tree, calls, lost, out>>

(* The node whose turn it is; which one it is matters to nothing here.     *)
Turn == todo \notin {{}, {<<>>}}
node == CHOOSE n \in todo : TRUE
token == Last(node)

(* What a node gets, and the nodes that it leads to.                       *)
Grow(measured, integrity, deps) ==
    /\ tree' = [tree EXCEPT ![at] =
          [n \in DOMAIN @ \cup {node} |->
              IF n = node THEN [measured |-> measured, integrity |-> integrity] ELSE @[n]]]
    /\ todo' = (todo \ {node}) \cup {Append(node, d) : d \in deps}
    /\ UNCHANGED <<market, at, structure, out>>

TooDeep == Len(node) > MaxDepth

(* Mutant of OnCycle: only the destination is looked for. *)
OnDestination == token = Dest

(* The token is the destination or on the way from it to here; a token met *)
(* on another branch is none.                                              *)
OnCycle == token = Dest \/ token \in ToSet(Front(node))

DepthCap ==
    /\ Turn /\ TooDeep
    /\ Grow(FALSE, "UNKNOWN", {})
    /\ UNCHANGED <<calls, lost>>

Cycle ==
    /\ Turn /\ ~TooDeep /\ OnCycle
    /\ Grow(FALSE, "UNKNOWN", {})
    /\ UNCHANGED <<calls, lost>>

Asks == Turn /\ ~TooDeep /\ ~OnCycle /\ calls' = [calls EXCEPT ![at] = @ + 1]

HorizonFails ==
    /\ Asks
    /\ lost < MaxLost /\ lost' = lost + 1
    /\ Grow(FALSE, "UNKNOWN", {})

Measure ==
    LET found == classify(market[at][token], token)
    IN  /\ Asks
        /\ Grow(TRUE, found.integrity, found.deps)
        /\ UNCHANGED lost

measureChain == DepthCap \/ Cycle \/ HorizonFails \/ Measure

NextSize ==
    /\ todo = {} /\ at < Size
    /\ at' = at + 1
    /\ todo' = {<<>>}
    /\ UNCHANGED <<market, structure, tree, calls, lost, out>>

-----------------------------------------------------------------------------
(* summarise *)

Structured(kind) == {s \in Sizes : structure[s].integrity = kind}
Deps == UNION {structure[s].deps : s \in Structured("DERIVATIVE")}

Below(n, top) == IsPrefix(top, n)

(* Mutant of Chosen: the last size's node replaces every earlier one. *)
LastChosen(d) ==
    LET having == {s \in Sizes : <<d>> \in DOMAIN tree[s]}
    IN  CHOOSE s \in having : \A r \in having : r <= s

(* The size whose node of a dependency is kept: the first that measured    *)
(* it, else the first that has it.                                         *)
Chosen(d) ==
    LET having == {s \in Sizes : <<d>> \in DOMAIN tree[s]}
        measured == {s \in having : tree[s][<<d>>].measured}
        best == IF measured # {} THEN measured ELSE having
    IN  CHOOSE s \in best : \A r \in best : s <= r

Chain ==
    LET Kept(d) == {n \in DOMAIN tree[Chosen(d)] : Below(n, <<d>>)}
    IN  [n \in UNION {Kept(d) : d \in Deps} |-> tree[Chosen(n[1])][n]]

Summary ==
    CASE Structured("NO-MARKET") = Sizes -> [integrity |-> "NO-MARKET", chain |-> <<>>]
      [] Structured("DIRECT") # {} -> [integrity |-> "DIRECT", chain |-> <<>>]
      [] Structured("DIRECT") = {} /\ Deps # {} -> [integrity |-> "DERIVATIVE", chain |-> Chain]
      [] OTHER -> [integrity |-> "UNKNOWN", chain |-> <<>>]

Summarise ==
    /\ todo = {} /\ at = Size /\ out = Unfinished
    /\ out' = Summary
    /\ UNCHANGED <<market, at, structure, tree, todo, calls, lost>>

TreeNext == Quote \/ measureChain \/ NextSize \/ Summarise

TreeSpec == TreeInit /\ [][TreeNext]_treeVars

-----------------------------------------------------------------------------
SimplePaths == UNION {{p \in [1..k -> Fiat] : IsInjective(p)} : k \in 1..MaxDepth}

(* The tree of a size ends, however the tokens depend on each other: it    *)
(* asks about no way twice and about none that meets a token again, so     *)
(* that its requests are at most the ways without repetition that the cap  *)
(* admits (route.go:696-712).                                              *)
CallsAreBounded ==
    \A s \in Sizes : calls[s] <= Cardinality(SimplePaths)

(* What is published of a dependency is one size's whole tree of it, and    *)
(* never of a size that could not measure the dependency itself where       *)
(* another could: no branch without its top, none of another size's, and    *)
(* none of a token no size was priced through.  Only the top decides; what  *)
(* is below it is taken as that size has it (ladder.go:454-464).            *)
ChainIsOneMeasurement ==
    out.integrity = "DERIVATIVE" =>
        /\ {n[1] : n \in DOMAIN out.chain} = Deps
        /\ \A d \in Deps :
              /\ out.chain[<<d>>].measured <=>
                    \E s \in Sizes : <<d>> \in DOMAIN tree[s] /\ tree[s][<<d>>].measured
              /\ \E s \in Sizes : \A n \in DOMAIN out.chain \cup DOMAIN tree[s] :
                    n[1] = d => /\ n \in DOMAIN out.chain \cap DOMAIN tree[s]
                                /\ out.chain[n] = tree[s][n]

(* What the comment on Chain says (ladder.go:98-103): "when the same        *)
(* dependency was measured on some rungs but unmeasured on others the       *)
(* measured node wins - one rung's failed request never erases another's    *)
(* finding".  It is true of the dependencies of the corridor and not of     *)
(* theirs: a request that fails below a measured top is published.          *)
MeasuredNodeWins ==
    out.integrity = "DERIVATIVE" =>
        \A n \in DOMAIN out.chain, s \in Sizes :
            n \in DOMAIN tree[s] /\ tree[s][n].measured => out.chain[n].measured
=============================================================================
