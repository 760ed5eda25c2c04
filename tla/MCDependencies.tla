--------------------------- MODULE MCDependencies ---------------------------
(* Dependencies on a small instance: every token has, at each size, no     *)
(* market, an independent one, one through the next token, or one through  *)
(* all the others and the destination.                                     *)
EXTENDS Dependencies

CONSTANTS a, b, c

Following == [t \in {a, b, c} |-> CASE t = a -> b [] t = b -> c [] OTHER -> a]

MarketsOf(t) == {{}, {{Bridge}, {Dest}}, {{Following[t]}, {Following[t], t}}, {Fiat \cup {Dest}}}

MCMarkets == {m \in [1..Size -> [Fiat -> UNION {MarketsOf(t) : t \in Fiat}]] :
                 \A s \in 1..Size, t \in Fiat : m[s][t] \in MarketsOf(t)}

MCCorridors == {{}, {{Bridge}, {a}}, {{a, Dest}}, {{b, Bridge}, {c}}, {Fiat}}
=============================================================================
