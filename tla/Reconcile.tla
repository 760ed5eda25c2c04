----------------------------- MODULE Reconcile ------------------------------
(***************************************************************************)
(* How refrate/cross.go turns the answers of two rate providers into one   *)
(* benchmark, and how route/route.go grades a route against it.  Mids and  *)
(* amounts are positive integers of one small unit: every provider refuses *)
(* a rate that is not positive.  Percentages are compared exactly, as      *)
(* decimals are in the code, by multiplying out.                           *)
(***************************************************************************)
EXTENDS Integers

CONSTANTS
    Mids,       \* mids a provider may quote
    Moments,    \* moments a quote may be as of; 0 stands for no timestamp
    StaleGap    \* how far apart two as-of moments may be

ASSUME MidsAssumption == Mids \subseteq Nat \ {0}
ASSUME MomentsAssumption == Moments \subseteq Nat /\ StaleGap \in Nat

DivergenceAgree == 2
DivergenceMalfunction == 10

Sources == {"primary", "secondary"}
Figure == [mid : Mids, source : Sources, asOf : Moments]

(* What a provider says: its figure, or an error. *)
Failed == [ok |-> FALSE]
Answered(figure) == [ok |-> TRUE, figure |-> figure]

(* A figure in the secondary's place when only one provider answered. *)
NoFigure == [mid |-> 0, source |-> "none", asOf |-> 0]

Rate == [figure : Figure, other : Figure \cup {NoFigure},
         agreement : {"SINGLE", "AGREE", "DISAGREE", "STALE", "MALFUNCTION"}]

(* Mutant of Lower: the gap is taken relative to the first mid. *)
OfTheFirst(a, b) == a

Lower(a, b) == IF a <= b THEN a ELSE b
Gap(a, b) == IF a <= b THEN b - a ELSE a - b

(* The gap between two mids, relative to the smaller, exceeds pct percent. *)
Beyond(a, b, pct) == 100 * Gap(a, b) > pct * Lower(a, b)

StaleApart(a, b) ==
    /\ a.asOf # 0
    /\ b.asOf # 0
    /\ Gap(a.asOf, b.asOf) > StaleGap

Broken(p, s) == Beyond(p.mid, s.mid, DivergenceMalfunction)
Lagging(p, s) == ~Broken(p, s) /\ StaleApart(p, s)
Disputed(p, s) ==
    ~Broken(p, s) /\ ~StaleApart(p, s) /\ Beyond(p.mid, s.mid, DivergenceAgree)

Agreement(p, s) ==
    CASE Broken(p, s) -> "MALFUNCTION"
      [] Lagging(p, s) -> "STALE"
      [] Disputed(p, s) -> "DISAGREE"
      [] OTHER -> "AGREE"

(* Mutant of SecondaryWins: the mid that flatters the corridor is taken. *)
FlatteringWins(p, s) ==
    \/ Lagging(p, s) /\ s.asOf > p.asOf
    \/ Disputed(p, s) /\ s.mid < p.mid

(* The fresher figure of two moments, the larger mid of a disagreement. *)
SecondaryWins(p, s) ==
    \/ Lagging(p, s) /\ s.asOf > p.asOf
    \/ Disputed(p, s) /\ s.mid > p.mid

(* Mutant of Reconciled: the mids change places, their sources do not. *)
SwapsMidsOnly(p, s) ==
    [figure |-> IF SecondaryWins(p, s) THEN [p EXCEPT !.mid = s.mid] ELSE p,
     other |-> IF SecondaryWins(p, s) THEN [s EXCEPT !.mid = p.mid] ELSE s,
     agreement |-> Agreement(p, s)]

(* reconcile: mid, source and as-of change places together.               *)
Reconciled(p, s) ==
    LET wins == SecondaryWins(p, s)
    IN  [figure |-> IF wins THEN s ELSE p,
         other |-> IF wins THEN p ELSE s,
         agreement |-> Agreement(p, s)]

(* singleSource: the survivor, uncorroborated. *)
Single(f) == [figure |-> f, other |-> NoFigure, agreement |-> "SINGLE"]

Scorable(rate) == rate.agreement # "MALFUNCTION"

(* Cross.Rate on what the two providers answered, at least one of them.    *)
CrossChecked(p, s) ==
    CASE p.ok /\ s.ok -> Reconciled(p.figure, s.figure)
      [] p.ok /\ ~s.ok -> Single(p.figure)
      [] ~p.ok /\ s.ok -> Single(s.figure)

-----------------------------------------------------------------------------
(* Grading (route.go): a rate achieved against a mid.  Better than the mid *)
(* is graded as no loss.                                                   *)
LossWithin(mid, achieved, pct) == 100 * (mid - achieved) <= pct * mid

Verdict(mid, achieved) ==
    CASE LossWithin(mid, achieved, 3) -> "GOOD"
      [] LossWithin(mid, achieved, 8) /\ ~LossWithin(mid, achieved, 3) -> "FAIR"
      [] LossWithin(mid, achieved, 20) /\ ~LossWithin(mid, achieved, 8) -> "POOR"
      [] ~LossWithin(mid, achieved, 20) -> "UNUSABLE"

Acceptable(verdict) == verdict \in {"GOOD", "FAIR", "POOR"}
=============================================================================
