---------------------------- MODULE LadderProofs ----------------------------
(***************************************************************************)
(* What Ladder promises for any number of sizes, any concurrency and any   *)
(* figures, proved.                                                        *)
(***************************************************************************)
EXTENDS Ladder, FiniteSetTheorems, TLAPS

Answer == {Failed} \cup {Answered(f) : f \in Figure}

TypeOK ==
    /\ pc \in [Rungs -> {"queued", "primary", "secondary", "quoting", "done"}]
    /\ said \in [Rungs -> Answer]
    /\ rung \in [Rungs -> Rung]
    /\ cached \in [Sources -> Answer]
    /\ expiries \in Nat
    /\ ctx \in {"live", "ended"}
    /\ out \in {Unfinished, Cancelled} \cup Summaries

(* What a result may say: an error says nothing, a price says how it was   *)
(* routed, and a verdict was read off a benchmark that was not broken.     *)
RungOK(result) ==
    /\ result.err => result.integrity = "UNKNOWN"
    /\ result.priced <=> result.integrity \in {"DIRECT", "DERIVATIVE"}
    /\ result.priced => (result.deps = {} <=> result.integrity = "DIRECT")
    /\ result.verdict # "UNKNOWN" => result.rate # Failed /\ Scorable(result.rate)

(* Until its Quote is done a rung has at most a rate. *)
Unquoted(result) == \E rate \in Rate \cup {Failed} : result = [Blank EXCEPT !.rate = rate]

RungsOK ==
    \A r \in Rungs : /\ RungOK(rung[r])
                     /\ pc[r] # "done" => Unquoted(rung[r])
                     /\ pc[r] = "quoting" => rung[r].rate # Failed

(* What is published is the summary of what the rungs are now.             *)
OutOK == out # Unfinished => \A r \in Rungs : pc[r] = "done"
PublishedOK == Published => out = Summary

IInv == TypeOK /\ RungsOK /\ OutOK /\ PublishedOK

(* Naturals have a least element: the least of the intervals 1..n.         *)
LEMMA LeastNat ==
    ASSUME NEW X, X \subseteq Nat, X # {}
    PROVE  \E n \in X : \A m \in X : n <= m
<1> DEFINE T == {1..n : n \in X}
           R == StrictSubsetOrdering(Nat)
<1>1. T \subseteq FiniteSubsetsOf(Nat)
  <2>1. \A n \in X : 1..n \in SUBSET Nat /\ IsFiniteSet(1..n)
    BY FS_Interval
  <2> QED
    BY <2>1 DEF FiniteSubsetsOf
<1>2. T # {}
  OBVIOUS
<1>3. IsWellFoundedOn(R, FiniteSubsetsOf(Nat))
  BY FS_StrictSubsetOrderingWellFounded
<1> HIDE DEF R
<1>4. \E t \in T : \A s \in T : ~(<<s, t>> \in R)
  BY <1>1, <1>2, <1>3, WFMin
<1>5. PICK n \in X : \A m \in X : ~(<<1..m, 1..n>> \in R)
  BY <1>4
<1>6. ASSUME NEW m \in X, m < n PROVE FALSE
  <2>1. m \in Nat /\ n \in Nat
    OBVIOUS
  <2>2. 1..m \in SUBSET Nat /\ 1..n \in SUBSET Nat /\ 1..m \subseteq 1..n
    BY <1>6, <2>1
  <2>3. n \in 1..n /\ n \notin 1..m
    BY <1>6, <2>1
  <2>4. <<1..m, 1..n>> \in R
    BY <2>2, <2>3 DEF R, StrictSubsetOrdering
  <2> QED
    BY <1>5, <2>4
<1> QED
  BY <1>6

-----------------------------------------------------------------------------
(* The first rung of a set of rungs is one of it (LadderResult.summarise).  *)
LEMMA FirstOfIsFirst ==
    ASSUME NEW S \in SUBSET Rungs
    PROVE  /\ S = {} => FirstOf(S) = 0
           /\ S # {} => FirstOf(S) \in S /\ \A r \in S : FirstOf(S) <= r
<1>1. S # {} => \E r \in S : \A q \in S : r <= q
  <2>1. S \subseteq Nat
    BY SizeAssumption DEF Rungs
  <2> QED
    BY <2>1, LeastNat
<1> QED
  BY <1>1 DEF FirstOf

(* What Cross.Rate makes of two answers is a rate.                         *)
LEMMA CrossCheckedIsRate ==
    ASSUME NEW p \in Answer, NEW s \in Answer, p.ok \/ s.ok
    PROVE  CrossChecked(p, s) \in Rate /\ CrossChecked(p, s) # Failed
<1>1. \A a \in Answer : a.ok \in BOOLEAN /\ (a.ok => a.figure \in Figure)
  <2>1. Failed.ok = FALSE
    BY DEF Failed
  <2>2. \A f \in Figure : Answered(f).ok = TRUE /\ Answered(f).figure = f
    BY DEF Answered
  <2> QED
    BY <2>1, <2>2 DEF Answer
<1>2. \A f \in Figure : Single(f) \in Rate
  BY DEF Single, Rate
<1>3. \A f, g \in Figure : Reconciled(f, g) \in Rate
  <2> SUFFICES ASSUME NEW f \in Figure, NEW g \in Figure PROVE Reconciled(f, g) \in Rate
    OBVIOUS
  <2>1. Agreement(f, g) \in {"SINGLE", "AGREE", "DISAGREE", "STALE", "MALFUNCTION"}
    BY DEF Agreement
  <2> QED
    BY <2>1 DEF Reconciled, Rate
<1>4. \A rate \in Rate : rate # Failed
  BY DEF Rate, Failed
<1> QED
  BY <1>1, <1>2, <1>3, <1>4 DEF CrossChecked

(* A verdict is one of the published words (route.go).                     *)
LEMMA GradedIsVerdict ==
    ASSUME NEW rate \in Rate, NEW achieved \in Nat
    PROVE  /\ Graded(rate, achieved) \in Verdicts
           /\ Graded(rate, achieved) # "UNKNOWN" => Scorable(rate)
<1>1. Verdict(rate.figure.mid, achieved) \in {"GOOD", "FAIR", "POOR", "UNUSABLE"}
  <2> DEFINE mid == rate.figure.mid
  <2> HIDE DEF mid
  <2>1. Verdict(mid, achieved) \in {"GOOD", "FAIR", "POOR", "UNUSABLE"}
    BY DEF Verdict
  <2> QED
    BY <2>1 DEF mid
<1> QED
  BY <1>1 DEF Graded, Verdicts

(* A blank result, and the ones a Quote may end with.                      *)
LEMMA BlankIsRung ==
    /\ Blank \in Rung
    /\ RungOK(Blank)
    /\ Unquoted(Blank)
    /\ [Blank EXCEPT !.err = TRUE] \in Rung
    /\ RungOK([Blank EXCEPT !.err = TRUE])
<1>1. Blank \in Rung /\ [Blank EXCEPT !.err = TRUE] \in Rung
  BY DEF Blank, Rung, Integrities, Verdicts
<1>2. RungOK(Blank) /\ RungOK([Blank EXCEPT !.err = TRUE])
  BY DEF Blank, RungOK
<1>3. Blank = [Blank EXCEPT !.rate = Failed]
  <2>1. Blank.rate = Failed
    BY DEF Blank
  <2>2. [Blank EXCEPT !.rate = Blank.rate] = Blank
    BY <1>1 DEF Rung
  <2> QED
    BY <2>1, <2>2
<1> QED
  BY <1>1, <1>2, <1>3 DEF Unquoted

(* A result that has only a rate yet. *)
LEMMA RatedIsRung ==
    ASSUME NEW rate \in Rate \cup {Failed}
    PROVE  LET rated == [Blank EXCEPT !.rate = rate]
           IN  rated \in Rung /\ RungOK(rated) /\ Unquoted(rated)
BY DEF Blank, Rung, Integrities, Verdicts, RungOK, Unquoted

(* The result of a size Horizon knows no path for. *)
LEMMA NoPathIsRung ==
    ASSUME NEW result \in Rung, Unquoted(result)
    PROVE  /\ [result EXCEPT !.integrity = "NO-MARKET"] \in Rung
           /\ RungOK([result EXCEPT !.integrity = "NO-MARKET"])
<1>1. PICK rate \in Rate \cup {Failed} : result = [Blank EXCEPT !.rate = rate]
  BY DEF Unquoted
<1> QED
  BY <1>1 DEF Blank, Rung, Integrities, RungOK

(* The result of a size that was priced (route.go:811-901). *)
LEMMA PricedIsRung ==
    ASSUME NEW result \in Rung, Unquoted(result), result.rate # Failed,
           NEW deps \in SUBSET Hops, NEW achieved \in Achieved
    PROVE  LET quoted == [result EXCEPT
                    !.integrity = IF deps = {} THEN "DIRECT" ELSE "DERIVATIVE",
                    !.deps = deps, !.priced = TRUE, !.achieved = achieved,
                    !.verdict = Graded(result.rate, achieved)]
           IN  quoted \in Rung /\ RungOK(quoted)
<1>1. PICK rate \in Rate \cup {Failed} : result = [Blank EXCEPT !.rate = rate]
  BY DEF Unquoted
<1> DEFINE v == Graded(result.rate, achieved)
<1>2. result.rate \in Rate /\ achieved \in Nat
  BY AchievedAssumption DEF Rung
<1>3. v \in Verdicts /\ (v # "UNKNOWN" => Scorable(result.rate))
  BY <1>2, GradedIsVerdict
<1> HIDE DEF v
<1> DEFINE quoted == [result EXCEPT
                    !.integrity = IF deps = {} THEN "DIRECT" ELSE "DERIVATIVE",
                    !.deps = deps, !.priced = TRUE, !.achieved = achieved, !.verdict = v]
<1>4. quoted \in Rung
  BY <1>2, <1>3 DEF Rung, Integrities
<1>5. /\ quoted.err = FALSE
      /\ quoted.priced = TRUE
      /\ quoted.deps = deps
      /\ quoted.integrity = IF deps = {} THEN "DIRECT" ELSE "DERIVATIVE"
      /\ quoted.verdict = v
      /\ quoted.rate = result.rate
  BY <1>1 DEF Blank, Rung
<1>6. RungOK(quoted)
  BY <1>3, <1>5 DEF RungOK
<1> QED
  BY <1>4, <1>6 DEF v

(* The summary is of the published form, whatever the rungs are.           *)
LEMMA SummaryIsTyped ==
    ASSUME TypeOK
    PROVE  Summary \in Summaries
<1>1. LadderIntegrity \in Integrities
  BY DEF LadderIntegrity, Integrities
<1>2. \A r \in Rungs : rung[r] \in Rung
  BY DEF TypeOK
<1>3. \A r \in Rungs : rung[r].deps \subseteq Hops /\ rung[r].rate \in Rate \cup {Failed}
  BY <1>2 DEF Rung
<1>4. LadderRate \in Rate \cup {Failed}
  <2> DEFINE S == {r \in Rungs : rung[r].rate # Failed}
  <2>1. FirstOf(S) = 0 \/ FirstOf(S) \in Rungs
    BY FirstOfIsFirst
  <2> QED
    BY <1>3, <2>1 DEF LadderRate
<1>5. Floor \in Rungs \cup {0} /\ Recommended \in Rungs \cup {0}
  <2>1. PricedRungs \in SUBSET Rungs
    BY DEF PricedRungs
  <2>2. {r \in PricedRungs : Acceptable(rung[r].verdict)} \in SUBSET Rungs
    BY <2>1
  <2> QED
    BY <2>1, <2>2, FirstOfIsFirst DEF Floor, Recommended
<1>6. UNION {rung[r].deps : r \in Structured("DERIVATIVE")} \in SUBSET Hops
  BY <1>3 DEF Structured
<1>7. (LadderRate = Failed \/ Scorable(LadderRate)) \in BOOLEAN /\ (Unmeasured = Rungs) \in BOOLEAN
  OBVIOUS
<1> DEFINE deps == IF LadderIntegrity = "DERIVATIVE"
                   THEN UNION {rung[r].deps : r \in Structured("DERIVATIVE")} ELSE {}
<1>8. deps \in SUBSET Hops
  BY <1>6
<1>9. Summary = [how |-> "summarised", integrity |-> LadderIntegrity, deps |-> deps,
                 rate |-> LadderRate, scored |-> LadderRate = Failed \/ Scorable(LadderRate),
                 floor |-> Floor, recommended |-> Recommended, failed |-> Unmeasured = Rungs]
  BY DEF Summary
<1> HIDE DEF deps
<1> QED
  BY <1>1, <1>4, <1>5, <1>7, <1>8, <1>9 DEF Summaries

-----------------------------------------------------------------------------
(* A rung whose goroutine is on its way keeps a rate at most; one that is  *)
(* done keeps its result.                                                  *)
LEMMA FinishKeeps ==
    ASSUME IInv, NEW r \in Rungs, pc[r] # "done", NEW result,
           Finish(r, result), result \in Rung, RungOK(result),
           said' = said, cached' \in [Sources -> Answer]
    PROVE  IInv'
<1> USE DEF IInv, TypeOK, Finish
<1>1. out = Unfinished /\ out' = Unfinished
  BY DEF OutOK
<1>2. TypeOK'
  OBVIOUS
<1>3. /\ rung'[r] = result /\ pc'[r] = "done"
      /\ \A q \in Rungs : q # r => rung'[q] = rung[q] /\ pc'[q] = pc[q]
  OBVIOUS
<1>4. RungsOK'
  BY <1>3 DEF RungsOK
<1>5. OutOK' /\ PublishedOK'
  BY <1>1 DEF OutOK, PublishedOK, Published, Unfinished
<1> QED
  BY <1>2, <1>4, <1>5

(* What a cached provider answers is a figure or a failure, as is what its *)
(* cache holds after it.                                                   *)
LEMMA ConsultKeeps ==
    ASSUME TypeOK, NEW source \in Sources, NEW a \in Answer, Consult(source, a)
    PROVE  cached' \in [Sources -> Answer]
BY DEF TypeOK, Consult

(* A provider answers with a figure of its own, or fails. *)
LEMMA AnswersAreAnswer ==
    ASSUME NEW source \in Sources
    PROVE  Answers(source) \subseteq Answer
<1>1. \A m \in Mids : [mid |-> m, source |-> source, asOf |-> 0] \in Figure
  BY UntimedAssumption DEF Figure
<1> QED
  BY <1>1 DEF Answers, Answer

(* The invariant holds of a ladder that has not begun.                     *)
LEMMA InitialLadder == Init => IInv
<1> SUFFICES ASSUME Init PROVE IInv
  OBVIOUS
<1> USE DEF Init
<1>1. Failed \in Answer
  BY DEF Answer
<1>2. TypeOK
  BY <1>1, BlankIsRung DEF TypeOK
<1>3. RungsOK
  BY BlankIsRung DEF RungsOK
<1>4. OutOK /\ PublishedOK
  BY DEF OutOK, PublishedOK, Published, Unfinished
<1> QED
  BY <1>2, <1>3, <1>4 DEF IInv

(* Every step of a rung, of the ladder, of a cache and of the context.     *)
LEMMA LadderPreserved ==
    ASSUME IInv, [Next]_vars
    PROVE  IInv'
<1>0. Failed \in Answer
  BY DEF Answer
<1>1. ASSUME NEW r \in Rungs, Acquire(r)
      PROVE  IInv'
  <2>1. out = Unfinished
    BY <1>1 DEF Acquire, IInv, OutOK
  <2>2. TypeOK'
    BY <1>1 DEF Acquire, IInv, TypeOK
  <2>3. RungsOK'
    BY <1>1 DEF Acquire, IInv, TypeOK, RungsOK
  <2>4. OutOK' /\ PublishedOK'
    BY <1>1, <2>1 DEF Acquire, OutOK, PublishedOK, Published, Unfinished
  <2> QED
    BY <2>2, <2>3, <2>4 DEF IInv
<1>2. ASSUME NEW r \in Rungs, AskPrimary(r)
      PROVE  IInv'
  <2>1. PICK a \in Answers("primary") : Consult("primary", a) /\ said' = [said EXCEPT ![r] = a]
    BY <1>2 DEF AskPrimary
  <2>2. a \in Answer /\ "primary" \in Sources
    BY AnswersAreAnswer DEF Sources
  <2>3. cached' \in [Sources -> Answer]
    BY <2>1, <2>2, ConsultKeeps DEF IInv
  <2>4. out = Unfinished
    BY <1>2 DEF AskPrimary, IInv, OutOK
  <2>5. TypeOK'
    BY <1>2, <2>1, <2>2, <2>3 DEF AskPrimary, IInv, TypeOK
  <2>6. RungsOK'
    BY <1>2 DEF AskPrimary, IInv, TypeOK, RungsOK
  <2>7. OutOK' /\ PublishedOK'
    BY <1>2, <2>4 DEF AskPrimary, OutOK, PublishedOK, Published, Unfinished
  <2> QED
    BY <2>5, <2>6, <2>7 DEF IInv
<1>3. ASSUME NEW r \in Rungs, AskSecondary(r)
      PROVE  IInv'
  <2>1. PICK a \in Answers("secondary") :
           /\ Consult("secondary", a)
           /\ said[r].ok \/ a.ok
           /\ rung' = [rung EXCEPT ![r].rate = CrossChecked(said[r], a)]
    BY <1>3 DEF AskSecondary
  <2>2. a \in Answer /\ said[r] \in Answer /\ "secondary" \in Sources
    BY AnswersAreAnswer DEF Sources, IInv, TypeOK
  <2> DEFINE rate == CrossChecked(said[r], a)
  <2>3. rate \in Rate /\ rate # Failed
    BY <2>1, <2>2, CrossCheckedIsRate
  <2>4. Unquoted(rung[r]) /\ rung[r] \in Rung
    BY <1>3 DEF AskSecondary, IInv, TypeOK, RungsOK
  <2>5. PICK old \in Rate \cup {Failed} : rung[r] = [Blank EXCEPT !.rate = old]
    BY <2>4 DEF Unquoted
  <2> HIDE DEF rate
  <2>6. [rung[r] EXCEPT !.rate = rate] = [Blank EXCEPT !.rate = rate]
    BY <2>5 DEF Blank
  <2>7. /\ rung'[r] = [Blank EXCEPT !.rate = rate]
        /\ rung' \in [Rungs -> Rung]
        /\ \A q \in Rungs : q # r => rung'[q] = rung[q]
    <3>1. rung' = [rung EXCEPT ![r] = [Blank EXCEPT !.rate = rate]]
      BY <2>1, <2>6 DEF rate
    <3>2. [Blank EXCEPT !.rate = rate] \in Rung
      BY <2>3, RatedIsRung
    <3> QED
      BY <3>1, <3>2 DEF IInv, TypeOK
  <2>8. RungOK(rung'[r]) /\ Unquoted(rung'[r]) /\ rung'[r].rate = rate
    <3>1. [Blank EXCEPT !.rate = rate].rate = rate
      BY DEF Blank
    <3> QED
      BY <2>3, <2>7, <3>1, RatedIsRung
  <2>9. cached' \in [Sources -> Answer]
    BY <2>1, <2>2, ConsultKeeps DEF IInv
  <2>10. out = Unfinished
    BY <1>3 DEF AskSecondary, IInv, OutOK
  <2>11. TypeOK'
    BY <1>3, <2>7, <2>9 DEF AskSecondary, IInv, TypeOK
  <2>12. RungsOK'
    BY <1>3, <2>3, <2>7, <2>8 DEF AskSecondary, IInv, TypeOK, RungsOK
  <2>13. OutOK' /\ PublishedOK'
    BY <1>3, <2>10 DEF AskSecondary, OutOK, PublishedOK, Published, Unfinished
  <2> QED
    BY <2>11, <2>12, <2>13 DEF IInv
<1>4. ASSUME NEW r \in Rungs, NoReferenceRate(r)
      PROVE  IInv'
  <2>1. cached' \in [Sources -> Answer]
    <3>1. "secondary" \in Sources
      BY DEF Sources
    <3> QED
      BY <1>0, <1>4, <3>1, ConsultKeeps DEF NoReferenceRate, IInv
  <2> QED
    BY <1>4, <2>1, FinishKeeps, BlankIsRung DEF NoReferenceRate
<1>5. ASSUME NEW r \in Rungs, Abandon(r)
      PROVE  IInv'
  BY <1>5, FinishKeeps, BlankIsRung DEF Abandon, IInv, TypeOK
<1>6. ASSUME NEW r \in Rungs, QuoteFails(r)
      PROVE  IInv'
  <2>1. rung[r] \in Rung /\ RungOK(rung[r])
    BY DEF IInv, TypeOK, RungsOK
  <2> QED
    BY <1>6, <2>1, FinishKeeps DEF QuoteFails, IInv, TypeOK
<1>7. ASSUME NEW r \in Rungs, NoPath(r)
      PROVE  IInv'
  <2>1. rung[r] \in Rung /\ Unquoted(rung[r])
    BY <1>7 DEF NoPath, IInv, TypeOK, RungsOK
  <2> DEFINE none == [rung[r] EXCEPT !.integrity = "NO-MARKET"]
  <2>2. none \in Rung /\ RungOK(none)
    BY <2>1, NoPathIsRung
  <2>3. Finish(r, none) /\ pc[r] = "quoting" /\ said' = said /\ cached' = cached
    BY <1>7 DEF NoPath
  <2> HIDE DEF none
  <2> QED
    BY <2>2, <2>3, FinishKeeps DEF IInv, TypeOK
<1>8. ASSUME NEW r \in Rungs, Priced(r)
      PROVE  IInv'
  <2>1. /\ rung[r] \in Rung /\ Unquoted(rung[r]) /\ rung[r].rate # Failed
        /\ pc[r] = "quoting" /\ said' = said /\ cached' = cached
    BY <1>8 DEF Priced, IInv, TypeOK, RungsOK
  <2>2. PICK achieved \in Achieved, deps \in SUBSET Hops :
          Finish(r, [rung[r] EXCEPT
                       !.integrity = IF deps = {} THEN "DIRECT" ELSE "DERIVATIVE",
                       !.deps = deps, !.priced = TRUE, !.achieved = achieved,
                       !.verdict = Graded(rung[r].rate, achieved)])
    BY <1>8 DEF Priced
  <2> DEFINE quoted == [rung[r] EXCEPT
                       !.integrity = IF deps = {} THEN "DIRECT" ELSE "DERIVATIVE",
                       !.deps = deps, !.priced = TRUE, !.achieved = achieved,
                       !.verdict = Graded(rung[r].rate, achieved)]
  <2>3. quoted \in Rung /\ RungOK(quoted)
    BY <2>1, PricedIsRung
  <2>4. Finish(r, quoted)
    BY <2>2
  <2> HIDE DEF quoted
  <2> QED
    BY <2>1, <2>3, <2>4, FinishKeeps DEF IInv, TypeOK
<1>9. ASSUME Return
      PROVE  IInv'
  <2>1. Summary' = Summary
    BY <1>9 DEF Return, Summary, LadderIntegrity, LadderRate, Floor, Recommended, AllNoMarket,
                Structured, PricedRungs, Unmeasured
  <2>2. out' \in {Cancelled, Summary} /\ \A r \in Rungs : pc[r] = "done"
    BY <1>9 DEF Return
  <2>3. Summary \in Summaries
    BY SummaryIsTyped DEF IInv
  <2>4. TypeOK' /\ RungsOK'
    BY <1>9, <2>2, <2>3 DEF Return, IInv, TypeOK, RungsOK
  <2>5. OutOK'
    BY <1>9, <2>2 DEF Return, OutOK
  <2>6. PublishedOK'
    BY <2>1, <2>2 DEF PublishedOK, Published, Cancelled
  <2> QED
    BY <2>4, <2>5, <2>6 DEF IInv
<1>10. ASSUME NEW s \in Sources, Expire(s)
       PROVE  IInv'
  <2>1. TypeOK' /\ RungsOK'
    BY <1>0, <1>10 DEF Expire, IInv, TypeOK, RungsOK
  <2>2. OutOK' /\ PublishedOK'
    BY <1>10 DEF Expire, OutOK, PublishedOK, Published, Unfinished
  <2> QED
    BY <2>1, <2>2 DEF IInv
<1>11. ASSUME EndContext
       PROVE  IInv'
  <2>1. TypeOK' /\ RungsOK'
    BY <1>11 DEF EndContext, IInv, TypeOK, RungsOK
  <2>2. OutOK' /\ PublishedOK'
    BY <1>11 DEF EndContext, OutOK, PublishedOK, Published, Unfinished
  <2> QED
    BY <2>1, <2>2 DEF IInv
<1>12. CASE UNCHANGED vars
  <2>1. Summary' = Summary
    BY <1>12 DEF vars, Summary, LadderIntegrity, LadderRate, Floor, Recommended, AllNoMarket,
                Structured, PricedRungs, Unmeasured
  <2>2. TypeOK' /\ RungsOK' /\ OutOK' /\ PublishedOK'
    BY <1>12, <2>1 DEF vars, IInv, TypeOK, RungsOK, OutOK, PublishedOK, Published
  <2> QED
    BY <2>2 DEF IInv
<1> QED
  BY <1>1, <1>2, <1>3, <1>4, <1>5, <1>6, <1>7, <1>8, <1>9, <1>10, <1>11, <1>12
     DEF Next, RungStep

(* Every ladder is in a state of the type, and publishes what its rungs    *)
(* found.                                                                  *)
THEOREM Inductive == Spec => []IInv
BY InitialLadder, LadderPreserved, PTL DEF Spec

(* Type correctness, for any sizes, concurrency and figures.               *)
THEOREM TypeCorrect == Spec => []TypeOK
<1>1. IInv => TypeOK
  BY DEF IInv
<1> QED
  BY Inductive, <1>1, PTL

-----------------------------------------------------------------------------
(* Neither a failure nor a dead size erases what another size found        *)
(* (ladder.go:207-231).                                                    *)
THEOREM FailuresEraseNothing == Spec => []EvidenceSurvives
<1>1. ASSUME IInv, Published
      PROVE  EvidenceSurvives
  <2>1. /\ out = Summary
        /\ out.integrity = LadderIntegrity
        /\ out.failed = (Unmeasured = Rungs)
        /\ out.deps = IF LadderIntegrity = "DERIVATIVE"
                      THEN UNION {rung[r].deps : r \in Structured("DERIVATIVE")} ELSE {}
    BY <1>1 DEF IInv, PublishedOK, Summary
  <2>2. \A r \in Rungs : rung[r] \in Rung /\ RungOK(rung[r])
    BY <1>1 DEF IInv, TypeOK, RungsOK
  <2>3. \E r \in Rungs : TRUE
    BY SizeAssumption DEF Rungs
  <2>4. AllNoMarket <=> \A r \in Rungs : ~rung[r].err /\ rung[r].integrity = "NO-MARKET"
    BY DEF AllNoMarket, Structured
  <2>5. AllNoMarket => Structured("DIRECT") = {} /\ Structured("DERIVATIVE") = {}
    BY <2>4 DEF Structured
  <2>6. LadderIntegrity = "NO-MARKET" <=> AllNoMarket
    BY <2>5 DEF LadderIntegrity
  <2>7. LadderIntegrity = "DIRECT" <=> Structured("DIRECT") # {}
    BY <2>5 DEF LadderIntegrity
  <2>8. LadderIntegrity = "DERIVATIVE" =>
           \A r \in PricedRungs : rung[r].deps # {} /\ rung[r].deps \subseteq out.deps
    <3> SUFFICES ASSUME LadderIntegrity = "DERIVATIVE", NEW r \in PricedRungs
                 PROVE  rung[r].deps # {} /\ rung[r].deps \subseteq out.deps
      OBVIOUS
    <3>1. r \in Rungs /\ rung[r].priced
      BY DEF PricedRungs
    <3>2. rung[r].integrity \in {"DIRECT", "DERIVATIVE"} /\ ~rung[r].err
      BY <2>2, <3>1 DEF RungOK
    <3>3. Structured("DIRECT") = {}
      BY <2>7
    <3>4. r \in Structured("DERIVATIVE") /\ rung[r].integrity # "DIRECT"
      BY <3>1, <3>2, <3>3 DEF Structured
    <3> QED
      BY <2>1, <2>2, <3>1, <3>4 DEF RungOK
  <2>9. Unmeasured = Rungs => LadderIntegrity = "UNKNOWN"
    <3> SUFFICES ASSUME Unmeasured = Rungs PROVE LadderIntegrity = "UNKNOWN"
      OBVIOUS
    <3>1. \A r \in Rungs : rung[r].integrity = "UNKNOWN"
      BY <2>2 DEF Unmeasured, RungOK
    <3>2. ~AllNoMarket /\ Structured("DIRECT") = {} /\ Structured("DERIVATIVE") = {}
      BY <2>3, <2>4, <3>1 DEF Structured
    <3> QED
      BY <3>2 DEF LadderIntegrity
  <2> QED
    BY <2>1, <2>4, <2>6, <2>7, <2>8, <2>9 DEF EvidenceSurvives
<1>2. IInv => EvidenceSurvives
  BY <1>1 DEF EvidenceSurvives
<1> QED
  BY Inductive, <1>2, PTL

(* No verdict, and no recommendation, rests on a benchmark that two        *)
(* sources refuse (route.go:491-537).                                      *)
THEOREM VerdictsHaveBenchmarks == Spec => []VerdictNeedsBenchmark
<1>1. ASSUME IInv
      PROVE  VerdictNeedsBenchmark
  <2>1. \A r \in Rungs : rung[r].verdict # "UNKNOWN" => Scorable(rung[r].rate)
    BY <1>1 DEF IInv, RungsOK, RungOK
  <2>2. ASSUME Published, out.recommended # 0
        PROVE  Acceptable(rung[out.recommended].verdict) /\ Scorable(rung[out.recommended].rate)
    <3> DEFINE good == {r \in PricedRungs : Acceptable(rung[r].verdict)}
    <3>1. out.recommended = FirstOf(good)
      BY <1>1, <2>2 DEF IInv, PublishedOK, Summary, Recommended
    <3>2. good \in SUBSET Rungs
      BY DEF PricedRungs
    <3>3. out.recommended \in good
      BY <2>2, <3>1, <3>2, FirstOfIsFirst
    <3>4. Acceptable(rung[out.recommended].verdict) /\ out.recommended \in Rungs
      BY <3>2, <3>3
    <3> QED
      BY <2>1, <3>4 DEF Acceptable
  <2> QED
    BY <2>1, <2>2 DEF VerdictNeedsBenchmark
<1> QED
  BY Inductive, <1>1, PTL

-----------------------------------------------------------------------------
(* A ladder never has more of its sizes in flight than its slots: what the *)
(* upstreams see of a request, whoever fails or is abandoned.              *)
BurstIsBounded == Cardinality(InFlight) <= Concurrency

(* The slots bound the burst of a ladder (ladder.go:22-25, 318-326).       *)
THEOREM BurstBounded == Spec => []BurstIsBounded
<1>1. IsFiniteSet(InFlight) /\ Cardinality(InFlight) \in Nat
  <2>1. IsFiniteSet(Rungs)
    BY FS_Interval, SizeAssumption DEF Rungs
  <2> QED
    BY <2>1, FS_Subset, FS_CardinalityType DEF InFlight
<1>2. Init => BurstIsBounded
  <2> SUFFICES ASSUME Init PROVE BurstIsBounded
    OBVIOUS
  <2>1. InFlight = {}
    BY DEF Init, InFlight
  <2> QED
    BY <2>1, FS_EmptySet, SizeAssumption DEF BurstIsBounded
<1>3. ASSUME IInv, BurstIsBounded, [Next]_vars
      PROVE  BurstIsBounded'
  <2>1. ASSUME InFlight' \subseteq InFlight
        PROVE  BurstIsBounded'
    <3>1. Cardinality(InFlight') <= Cardinality(InFlight) /\ Cardinality(InFlight') \in Nat
      BY <1>1, <2>1, FS_Subset, FS_CardinalityType
    <3> QED
      BY <1>1, <1>3, <3>1, SizeAssumption DEF BurstIsBounded
  <2>2. ASSUME NEW r \in Rungs, Acquire(r)
        PROVE  BurstIsBounded'
    <3>1. InFlight' \subseteq InFlight \cup {r}
      BY <1>3, <2>2 DEF Acquire, InFlight, IInv, TypeOK
    <3>2. /\ IsFiniteSet(InFlight \cup {r})
          /\ Cardinality(InFlight \cup {r}) <= Cardinality(InFlight) + 1
          /\ Cardinality(InFlight \cup {r}) \in Nat
      BY <1>1, FS_AddElement, FS_CardinalityType
    <3>3. /\ Cardinality(InFlight') <= Cardinality(InFlight \cup {r})
          /\ Cardinality(InFlight') \in Nat
      BY <3>1, <3>2, FS_Subset, FS_CardinalityType
    <3>4. Cardinality(InFlight) < Concurrency
      BY <2>2 DEF Acquire, SlotFree
    <3> QED
      BY <1>1, <3>2, <3>3, <3>4, SizeAssumption DEF BurstIsBounded
  <2>3. ASSUME NEW r \in Rungs, AskPrimary(r) \/ AskSecondary(r)
        PROVE  InFlight' \subseteq InFlight
    BY <1>3, <2>3 DEF AskPrimary, AskSecondary, InFlight, IInv, TypeOK
  <2>4. ASSUME NEW r \in Rungs,
               NoReferenceRate(r) \/ Abandon(r) \/ QuoteFails(r) \/ NoPath(r) \/ Priced(r)
        PROVE  InFlight' \subseteq InFlight
    <3>1. pc' = [pc EXCEPT ![r] = "done"]
      BY <2>4 DEF NoReferenceRate, Abandon, QuoteFails, NoPath, Priced, Finish
    <3> QED
      BY <1>3, <3>1 DEF InFlight, IInv, TypeOK
  <2>5. CASE Return \/ (\E s \in Sources : Expire(s)) \/ EndContext \/ UNCHANGED vars
    <3>1. pc' = pc
      BY <2>5 DEF Return, Expire, EndContext, vars
    <3>2. InFlight' \subseteq InFlight
      BY <3>1 DEF InFlight
    <3> QED
      BY <2>1, <3>2
  <2> QED
    BY <1>3, <2>1, <2>2, <2>3, <2>4, <2>5 DEF Next, RungStep
<1> QED
  BY Inductive, <1>2, <1>3, PTL DEF Spec
=============================================================================
