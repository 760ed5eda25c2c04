----------------------------- MODULE QuoteProofs ----------------------------
(***************************************************************************)
(* What a quote rests on, proved: CrossRate's benchmark for any mids, any  *)
(* moments and any staleness gap, and the dependency tree of Dependencies  *)
(* for any finite registry, any markets, sizes and depth.                  *)
(***************************************************************************)
EXTENDS CrossRate, Dependencies, FiniteSetTheorems, TLAPS

(* What a provider said is its own. *)
AnswersOK ==
    /\ answers \in [Sources -> {Failed} \cup {Answered(f) : f \in Figure}]
    /\ \A s \in Sources : answers[s].ok => answers[s].figure.source = s

(* A rate is what the two answers reconcile to, and it is there once both  *)
(* were asked.                                                             *)
RateOK ==
    /\ stage \in {"primary", "secondary"} => rate = Nothing
    /\ stage \in {"measured", "stored", "replayed", "diagnose"} => rate # Nothing
    /\ rate # Nothing =>
          /\ \E s \in Sources : answers[s].ok
          /\ rate = CrossChecked(answers["primary"], answers["secondary"])

(* What was stored and replayed is of that rate.                           *)
Recorded == [figure |-> rate.figure, other |-> rate.other,
             divergence |-> StoredDivergence(rate),
             scoredAgainst |-> rate.figure.source]
ReplayOK ==
    /\ stage \in {"stored", "replayed"} => record = Recorded
    /\ stage \notin {"stored", "replayed"} => record = Nothing
    /\ stage # "replayed" => replayed = Nothing
    /\ stage = "replayed" =>
          replayed = [agreement |-> ReplayedAgreement(record), scored |-> ReplayedScored(record)]

Diagnosis == [mid : Mids, outlier : {"primary", "secondary", "nobody"}]
DiagnosisOK == diagnosis \in Diagnosis \cup {Nothing}

IInv == stage \in Steps /\ AnswersOK /\ RateOK /\ DiagnosisOK /\ ReplayOK

TypeOK ==
    /\ stage \in Steps
    /\ answers \in [Sources -> {Failed} \cup {Answered(f) : f \in Figure}]
    /\ rate \in Rate \cup {Nothing}
    /\ diagnosis \in Diagnosis \cup {Nothing}
    /\ record \in Record \cup {Nothing}
    /\ replayed \in Document \cup {Nothing}

-----------------------------------------------------------------------------
(* What an answer is made of.                                              *)
LEMMA AnswerFacts ==
    ASSUME AnswersOK
    PROVE  \A s \in Sources :
              /\ answers[s].ok \in BOOLEAN
              /\ answers[s].ok => /\ answers[s].figure \in Figure
                                  /\ answers[s].figure.source = s
                                  /\ answers[s].figure.mid \in Nat \ {0}
<1>1. Failed.ok = FALSE
  BY DEF Failed
<1>2. \A f \in Figure : Answered(f).ok = TRUE /\ Answered(f).figure = f
  BY DEF Answered
<1>3. \A f \in Figure : f.mid \in Nat \ {0}
  BY MidsAssumption DEF Figure
<1>4. ASSUME NEW s \in Sources
      PROVE  answers[s] = Failed \/ \E f \in Figure : answers[s] = Answered(f)
  BY DEF AnswersOK
<1>5. ASSUME NEW s \in Sources
      PROVE  /\ answers[s].ok \in BOOLEAN
             /\ answers[s].ok => answers[s].figure \in Figure
  <2>1. CASE answers[s] = Failed
    BY <2>1, <1>1
  <2>2. CASE \E f \in Figure : answers[s] = Answered(f)
    BY <2>2, <1>2
  <2> QED
    BY <1>4, <2>1, <2>2
<1> QED
  BY <1>3, <1>5 DEF AnswersOK

(* A figure's mid is positive. *)
LEMMA FigureFacts == \A f \in Figure : f.mid \in Nat \ {0}
BY MidsAssumption DEF Figure

(* A rate is a record, and never the absence of one.                       *)
LEMMA RateIsThere ==
    ASSUME NEW p, NEW s, p.ok \in BOOLEAN, s.ok \in BOOLEAN, p.ok \/ s.ok
    PROVE  CrossChecked(p, s) # Nothing
BY DEF CrossChecked, Reconciled, Single, Nothing

(* A gap and its smaller mid are the same in either order.                 *)
LEMMA GapIsSymmetric ==
    ASSUME NEW a \in Nat, NEW b \in Nat
    PROVE  Gap(a, b) = Gap(b, a) /\ Lower(a, b) = Lower(b, a) /\ Gap(a, b) \in Nat
BY DEF Gap, Lower

(* Every step of the call, and of what becomes of its answer.              *)
LEMMA Preserved ==
    ASSUME IInv, [RateNext]_rateVars
    PROVE  IInv'
<1> USE DEF IInv, Steps
<1>1. CASE AskPrimary
  <2>1. PICK a \in Says("primary") : answers' = [answers EXCEPT !["primary"] = a]
    BY <1>1 DEF AskPrimary
  <2>2. a \in {Failed} \cup {Answered(f) : f \in Figure} /\ (a.ok => a.figure.source = "primary")
    <3>1. CASE a = Failed
      BY <3>1 DEF Failed
    <3>2. CASE a # Failed
      <4>1. PICK m \in Mids, t \in Moments :
              a = Answered([mid |-> m, source |-> "primary", asOf |-> t])
        BY <3>2 DEF Says
      <4> QED
        BY <4>1 DEF Answered, Figure, Sources
    <3> QED
      BY <3>1, <3>2
  <2>3. AnswersOK'
    BY <2>1, <2>2 DEF AnswersOK, Sources
  <2> QED
    BY <1>1, <2>3 DEF AskPrimary, RateOK, ReplayOK, DiagnosisOK
<1>2. CASE AskSecondary
  <2>1. PICK a \in Says("secondary") :
          /\ answers["primary"].ok \/ a.ok
          /\ answers' = [answers EXCEPT !["secondary"] = a]
          /\ rate' = CrossChecked(answers["primary"], a)
    BY <1>2 DEF AskSecondary
  <2>2. /\ a \in {Failed} \cup {Answered(f) : f \in Figure}
        /\ a.ok \in BOOLEAN
        /\ a.ok => a.figure.source = "secondary"
    <3>1. CASE a = Failed
      BY <3>1 DEF Failed
    <3>2. CASE a # Failed
      <4>1. PICK m \in Mids, t \in Moments :
              a = Answered([mid |-> m, source |-> "secondary", asOf |-> t])
        BY <3>2 DEF Says
      <4> QED
        BY <4>1 DEF Answered, Figure, Sources
    <3> QED
      BY <3>1, <3>2
  <2>3. AnswersOK'
    BY <2>1, <2>2 DEF AnswersOK, Sources
  <2>4. answers'["primary"] = answers["primary"] /\ answers'["secondary"] = a
    BY <2>1 DEF AnswersOK, Sources
  <2>5. rate' # Nothing
    <3>1. answers["primary"].ok \in BOOLEAN
      BY AnswerFacts DEF Sources
    <3> QED
      BY <2>1, <2>2, <3>1, RateIsThere
  <2>6. RateOK'
    BY <1>2, <2>1, <2>4, <2>5 DEF AskSecondary, RateOK, Sources
  <2>7. stage' \in {"diagnose", "measured"} /\ stage = "secondary"
    BY <1>2 DEF AskSecondary
  <2>8. ReplayOK'
    BY <1>2, <2>7 DEF AskSecondary, ReplayOK
  <2>9. DiagnosisOK'
    BY <1>2 DEF AskSecondary, DiagnosisOK
  <2> QED
    BY <2>3, <2>6, <2>7, <2>8, <2>9
<1>3. CASE NeitherAnswers \/ Cancel
  BY <1>3 DEF NeitherAnswers, Cancel, AnswersOK, RateOK, ReplayOK, DiagnosisOK
<1>4. CASE Diagnose
  <2>1. \A m \in Mids : Attributed(m) \in {"primary", "secondary", "nobody"}
    BY DEF Attributed
  <2>2. DiagnosisOK'
    BY <1>4, <2>1 DEF Diagnose, DiagnosisOK, Diagnosis
  <2> QED
    BY <1>4, <2>2 DEF Diagnose, AnswersOK, RateOK, ReplayOK
<1>5. CASE Store
  BY <1>5 DEF Store, AnswersOK, RateOK, ReplayOK, Recorded, DiagnosisOK
<1>6. CASE ReplayRecord
  BY <1>6 DEF ReplayRecord, AnswersOK, RateOK, ReplayOK, Recorded, DiagnosisOK
<1>7. CASE UNCHANGED rateVars
  BY <1>7 DEF rateVars, AnswersOK, RateOK, ReplayOK, Recorded, DiagnosisOK
<1> QED
  BY <1>1, <1>2, <1>3, <1>4, <1>5, <1>6, <1>7 DEF RateNext

(* What a rate, a record and a replayed document are made of.              *)
THEOREM Inductive == RateSpec => []IInv
<1>1. RateInit => IInv
  BY DEF RateInit, IInv, Steps, AnswersOK, RateOK, ReplayOK, DiagnosisOK, Failed
<1> QED
  BY <1>1, Preserved, PTL DEF RateSpec

-----------------------------------------------------------------------------
(* A rate of two answers is one of them against the other.                 *)
LEMMA RateOfTwo ==
    ASSUME IInv, rate # Nothing, BothAnswered
    PROVE  LET p == answers["primary"].figure
               s == answers["secondary"].figure
           IN  rate = Reconciled(p, s) /\ p \in Figure /\ s \in Figure
               /\ p.source = "primary" /\ s.source = "secondary"
               /\ p.mid \in Nat \ {0} /\ s.mid \in Nat \ {0}
<1>1. answers["primary"].ok /\ answers["secondary"].ok
  BY DEF BothAnswered, Sources
<1>2. rate = Reconciled(answers["primary"].figure, answers["secondary"].figure)
  BY <1>1 DEF IInv, RateOK, CrossChecked
<1> QED
  BY <1>1, <1>2, AnswerFacts DEF IInv, Sources

(* A rate of one answer is that answer, uncorroborated.                    *)
LEMMA RateOfOne ==
    ASSUME IInv, rate # Nothing, ~BothAnswered
    PROVE  \E s \in Sources : answers[s].ok /\ rate = Single(answers[s].figure)
<1>1. answers["primary"].ok \in BOOLEAN /\ answers["secondary"].ok \in BOOLEAN
  BY AnswerFacts DEF IInv, Sources
<1>2. CASE answers["primary"].ok /\ ~answers["secondary"].ok
  BY <1>2 DEF IInv, RateOK, CrossChecked, Sources
<1>3. CASE ~answers["primary"].ok /\ answers["secondary"].ok
  BY <1>3 DEF IInv, RateOK, CrossChecked, Sources
<1> QED
  BY <1>1, <1>2, <1>3 DEF IInv, RateOK, BothAnswered, Sources

(* A mid, its source and its moment come from one answer (cross.go:440-453).*)
THEOREM FiguresTogether == RateSpec => []FiguresStayTogether
<1>1. ASSUME IInv, rate # Nothing
      PROVE  /\ SaidBy(rate.figure)
             /\ rate.other # NoFigure =>
                   SaidBy(rate.other) /\ rate.other.source # rate.figure.source
             /\ rate.other = NoFigure <=> ~BothAnswered
  <2>1. CASE BothAnswered
    <3> DEFINE p == answers["primary"].figure
               s == answers["secondary"].figure
    <3>1. /\ rate = Reconciled(p, s) /\ p \in Figure /\ s \in Figure
          /\ p.source = "primary" /\ s.source = "secondary"
          /\ p.mid # 0 /\ s.mid # 0
      BY <1>1, <2>1, RateOfTwo
    <3>2. answers["primary"].ok /\ answers["secondary"].ok
      BY <2>1 DEF BothAnswered, Sources
    <3>3. SaidBy(p) /\ SaidBy(s)
      BY <3>1, <3>2 DEF SaidBy
    <3> HIDE DEF p, s
    <3>4. \/ rate.figure = p /\ rate.other = s
          \/ rate.figure = s /\ rate.other = p
      BY <3>1 DEF Reconciled
    <3>5. p # NoFigure /\ s # NoFigure
      BY <3>1 DEF NoFigure
    <3> QED
      BY <2>1, <3>1, <3>3, <3>4, <3>5
  <2>2. CASE ~BothAnswered
    <3>1. PICK s \in Sources : answers[s].ok /\ rate = Single(answers[s].figure)
      BY <1>1, <2>2, RateOfOne
    <3>2. answers[s].figure.source = s
      BY <1>1, <3>1, AnswerFacts DEF IInv
    <3> QED
      BY <2>2, <3>1, <3>2 DEF Single, SaidBy
  <2> QED
    BY <2>1, <2>2
<1>2. IInv => FiguresStayTogether
  BY <1>1 DEF FiguresStayTogether
<1> QED
  BY Inductive, <1>2, PTL

(* Reconciling two figures in either order.                                *)
LEMMA ReconciledEitherWay ==
    ASSUME NEW p \in Figure, NEW s \in Figure
    PROVE  /\ Agreement(s, p) = Agreement(p, s)
           /\ Agreement(p, s) \in {"DISAGREE", "STALE"} =>
                 Reconciled(s, p).figure.mid = Reconciled(p, s).figure.mid
<1>1. /\ p.mid \in Nat /\ s.mid \in Nat /\ p.asOf \in Nat /\ s.asOf \in Nat
      /\ StaleGap \in Nat
  BY MidsAssumption, MomentsAssumption DEF Figure
<1>2. /\ Gap(p.mid, s.mid) = Gap(s.mid, p.mid)
      /\ Lower(p.mid, s.mid) = Lower(s.mid, p.mid)
      /\ Gap(p.asOf, s.asOf) = Gap(s.asOf, p.asOf)
  BY <1>1, GapIsSymmetric
<1>3. /\ Broken(s, p) = Broken(p, s)
      /\ StaleApart(s, p) = StaleApart(p, s)
      /\ Beyond(s.mid, p.mid, DivergenceAgree) = Beyond(p.mid, s.mid, DivergenceAgree)
  BY <1>2 DEF Broken, StaleApart, Beyond
<1>4. Lagging(s, p) = Lagging(p, s) /\ Disputed(s, p) = Disputed(p, s)
  BY <1>3 DEF Lagging, Disputed
<1>5. Agreement(s, p) = Agreement(p, s)
  BY <1>3, <1>4 DEF Agreement
<1>6. ~(Lagging(p, s) /\ Disputed(p, s))
  BY DEF Lagging, Disputed
<1>7. Lagging(p, s) => p.asOf # s.asOf
  BY <1>1 DEF Lagging, StaleApart, Gap
<1>8. Agreement(p, s) \in {"DISAGREE", "STALE"} => Lagging(p, s) \/ Disputed(p, s)
  BY DEF Agreement
<1>9. ASSUME Lagging(p, s) \/ Disputed(p, s)
      PROVE  (IF SecondaryWins(s, p) THEN p ELSE s).mid = (IF SecondaryWins(p, s) THEN s ELSE p).mid
  BY <1>1, <1>4, <1>6, <1>7, <1>9 DEF SecondaryWins
<1>10. /\ Reconciled(s, p).figure = IF SecondaryWins(s, p) THEN p ELSE s
       /\ Reconciled(p, s).figure = IF SecondaryWins(p, s) THEN s ELSE p
  BY DEF Reconciled
<1> QED
  BY <1>5, <1>8, <1>9, <1>10

(* The configured order does not decide the figure of a dispute            *)
(* (cross.go:411).                                                         *)
THEOREM OrderImmaterial == RateSpec => []OrderIsImmaterial
<1>1. ASSUME IInv, rate # Nothing, BothAnswered
      PROVE  LET swapped == Reconciled(answers["secondary"].figure, answers["primary"].figure)
             IN  /\ swapped.agreement = rate.agreement
                 /\ rate.agreement \in {"DISAGREE", "STALE"} =>
                       swapped.figure.mid = rate.figure.mid
  <2> DEFINE p == answers["primary"].figure
             s == answers["secondary"].figure
  <2>1. rate = Reconciled(p, s) /\ p \in Figure /\ s \in Figure
    BY <1>1, RateOfTwo
  <2> HIDE DEF p, s
  <2>2. Reconciled(s, p).agreement = Agreement(s, p) /\ rate.agreement = Agreement(p, s)
    BY <2>1 DEF Reconciled
  <2>3. /\ Reconciled(s, p).agreement = rate.agreement
        /\ rate.agreement \in {"DISAGREE", "STALE"} =>
              Reconciled(s, p).figure.mid = rate.figure.mid
    BY <2>1, <2>2, ReconciledEitherWay
  <2> QED
    BY <2>3 DEF p, s
<1>2. IInv => OrderIsImmaterial
  BY <1>1 DEF OrderIsImmaterial
<1> QED
  BY Inductive, <1>2, PTL

(* A disagreement is never scored in the corridor's favour                 *)
(* (cross.go:185-191).                                                     *)
THEOREM NeverFlattering == RateSpec => []NeverFlatters
<1>1. ASSUME IInv, rate # Nothing, rate.agreement = "DISAGREE",
             NEW achieved \in Mids, NEW pct \in {3, 8, 20},
             LossWithin(rate.figure.mid, achieved, pct)
      PROVE  LossWithin(rate.other.mid, achieved, pct)
  <2>1. BothAnswered
    <3> SUFFICES ASSUME ~BothAnswered PROVE FALSE
      OBVIOUS
    <3>1. PICK s \in Sources : rate = Single(answers[s].figure)
      BY <1>1, RateOfOne
    <3> QED
      BY <1>1, <3>1 DEF Single
  <2> DEFINE p == answers["primary"].figure
             s == answers["secondary"].figure
  <2>2. rate = Reconciled(p, s) /\ p.mid \in Nat /\ s.mid \in Nat
    BY <1>1, <2>1, RateOfTwo
  <2> HIDE DEF p, s
  <2>3. Agreement(p, s) = "DISAGREE"
    BY <1>1, <2>2 DEF Reconciled
  <2>4. Disputed(p, s) /\ ~Lagging(p, s)
    BY <2>3 DEF Agreement, Lagging, Disputed
  <2>5. /\ rate.figure.mid \in Nat /\ rate.other.mid \in Nat
        /\ rate.other.mid <= rate.figure.mid
    BY <2>2, <2>4 DEF Reconciled, SecondaryWins
  <2>6. achieved \in Nat
    BY MidsAssumption
  <2> QED
    BY <1>1, <2>5, <2>6 DEF LossWithin
<1>2. IInv => NeverFlatters
  BY <1>1 DEF NeverFlatters
<1> QED
  BY Inductive, <1>2, PTL

-----------------------------------------------------------------------------
(* Multiples of a positive number keep their order.                        *)
LEMMA Multiples ==
    ASSUME NEW a \in Int, NEW b \in Int, NEW n \in Nat, a <= b
    PROVE  a * n <= b * n
<1>1. (b - a) * n >= 0
  OBVIOUS
<1>2. (b - a) * n = b * n - a * n
  OBVIOUS
<1>3. a * n \in Int /\ b * n \in Int
  OBVIOUS
<1> QED
  BY <1>1, <1>2, <1>3

(* A quotient is the whole number below.                                   *)
LEMMA Quotient ==
    ASSUME NEW x \in Nat, NEW n \in Nat \ {0}
    PROVE  /\ x \div n \in Nat
           /\ x % n \in 0 .. n - 1
           /\ x = (x \div n) * n + (x % n)
<1>1. x \div n \in Int /\ x % n \in 0 .. n - 1
  BY SMTT(30)
<1>2. x = n * (x \div n) + (x % n)
  BY SMTT(30)
<1>3. n * (x \div n) = (x \div n) * n
  BY <1>1
<1>4. ASSUME x \div n <= -1 PROVE FALSE
  <2>1. (x \div n) * n <= (-1) * n
    BY <1>1, <1>4, Multiples
  <2>2. (x \div n) * n \in Int
    BY <1>1
  <2> QED
    BY <1>1, <1>2, <1>3, <2>1, <2>2
<1> QED
  BY <1>1, <1>2, <1>3, <1>4

(* A divergence rounded to four decimals says on which side of a threshold *)
(* it was, unless it rounds to the threshold (api.go:954-969).             *)
LEMMA RoundedKeepsSide ==
    ASSUME NEW a \in Nat \ {0}, NEW b \in Nat \ {0}, NEW pct \in {2, 10}
    PROVE  /\ Rounded(a, b) \in Nat
           /\ Rounded(a, b) > 10000 * pct => Beyond(a, b, pct)
           /\ Beyond(a, b, pct) => Rounded(a, b) >= 10000 * pct
<1> DEFINE lo == Lower(a, b)
           x == 100 * Gap(a, b)
           whole == x \div lo
           rest == x % lo
           tail == (20000 * rest + lo) \div (2 * lo)
<1>1. lo \in Nat \ {0} /\ x \in Nat
  BY DEF Lower, Gap
<1>2. Rounded(a, b) = 10000 * whole + tail
  BY DEF Rounded
<1>3. Beyond(a, b, pct) <=> x > pct * lo
  BY DEF Beyond
<1> HIDE DEF lo, x
<1>4. whole \in Nat /\ rest \in 0 .. lo - 1 /\ x = whole * lo + rest
  BY <1>1, Quotient
<1> HIDE DEF whole, rest
<1>5. /\ 20000 * rest + lo \in Nat
      /\ 2 * lo \in Nat \ {0}
  BY <1>1, <1>4
<1> DEFINE y == 20000 * rest + lo
           z == 2 * lo
<1>6. tail \in Nat /\ y % z \in 0 .. z - 1 /\ y = tail * z + (y % z)
  <2>1. y \in Nat /\ z \in Nat \ {0}
    BY <1>5 DEF y, z
  <2>2. tail = y \div z
    BY DEF y, z
  <2> HIDE DEF y, z, tail
  <2> QED
    BY <2>1, <2>2, Quotient
<1>y. y = 20000 * rest + lo /\ z = 2 * lo /\ y \in Nat /\ z \in Nat \ {0} /\ tail * z \in Nat
  BY <1>1, <1>4, <1>5, <1>6
<1> HIDE DEF tail, y, z
<1>7. tail <= 10000
  <2> SUFFICES ASSUME tail >= 10001 PROVE FALSE
    BY <1>6
  <2>0. 10001 \in Int /\ tail \in Int /\ z \in Nat /\ 10001 <= tail
    BY <1>y, <1>6
  <2>1. 10001 * z <= tail * z
    BY <2>0, Multiples
  <2>2. 10001 * z <= y
    BY <2>1, <1>y, <1>6
  <2> QED
    BY <2>2, <1>1, <1>4, <1>y
<1>8. rest = 0 => tail = 0
  <2> SUFFICES ASSUME rest = 0, tail >= 1 PROVE FALSE
    BY <1>6
  <2>0. 1 \in Int /\ tail \in Int /\ z \in Nat /\ 1 <= tail
    BY <1>y, <1>6
  <2>1. 1 * z <= tail * z
    BY <2>0, Multiples
  <2>2. z <= y
    BY <2>1, <1>y, <1>6
  <2> QED
    BY <2>2, <1>1, <1>y
<1>9. ASSUME x > pct * lo PROVE whole >= pct
  <2> SUFFICES ASSUME whole <= pct - 1 PROVE FALSE
    BY <1>4
  <2>1. whole * lo <= (pct - 1) * lo
    BY <1>1, <1>4, Multiples
  <2>2. CASE pct = 2
    BY <2>1, <2>2, <1>1, <1>4, <1>9
  <2>3. CASE pct = 10
    BY <2>1, <2>3, <1>1, <1>4, <1>9
  <2> QED
    BY <2>2, <2>3
<1>10. ASSUME x <= pct * lo
       PROVE  whole <= pct - 1 \/ (whole = pct /\ rest = 0)
  <2>1. CASE whole >= pct + 1
    <3>1. (pct + 1) * lo <= whole * lo
      BY <2>1, <1>1, <1>4, Multiples
    <3>2. CASE pct = 2
      BY <3>1, <3>2, <1>1, <1>4, <1>10
    <3>3. CASE pct = 10
      BY <3>1, <3>3, <1>1, <1>4, <1>10
    <3> QED
      BY <3>2, <3>3
  <2>2. CASE whole = pct
    <3>1. pct * lo \in Nat
      BY <1>1
    <3> QED
      BY <2>2, <3>1, <1>1, <1>4, <1>10
  <2> QED
    BY <2>1, <2>2, <1>4
<1>11. pct * lo \in Nat
  BY <1>1
<1> QED
  BY <1>1, <1>2, <1>3, <1>4, <1>6, <1>7, <1>8, <1>9, <1>10, <1>11

(* The record of two answers whose mids differ holds their divergence; the *)
(* band read off it is the band it was given.                              *)
LEMMA ReplayedBand ==
    ASSUME NEW p \in Figure, NEW s \in Figure, p.mid # s.mid,
           NEW r, r.figure = p, r.other = s, r.divergence = Rounded(p.mid, s.mid),
           r.divergence \notin {10000 * DivergenceAgree, 10000 * DivergenceMalfunction}
    PROVE  ReplayedAgreement(r) = Agreement(p, s)
<1>1. p.mid \in Nat \ {0} /\ s.mid \in Nat \ {0}
  BY FigureFacts
<1>2. r.divergence \in Nat
  BY <1>1, RoundedKeepsSide
<1>3. StoredBeyond(r, DivergenceMalfunction) <=> Broken(p, s)
  BY <1>1, <1>2, RoundedKeepsSide DEF StoredBeyond, Broken, DivergenceMalfunction
<1>4. StoredBeyond(r, DivergenceAgree) <=> Beyond(p.mid, s.mid, DivergenceAgree)
  BY <1>1, <1>2, RoundedKeepsSide DEF StoredBeyond, DivergenceAgree
<1>5. StoredBeyond(r, DivergenceMalfunction) => StoredBeyond(r, DivergenceAgree)
  BY <1>2 DEF StoredBeyond, DivergenceMalfunction, DivergenceAgree
<1>6. CrossCheckStored(r) /\ r.divergence # -1
  BY <1>1, <1>2 DEF CrossCheckStored, NoFigure
<1>7. /\ Broken(p, s) => StoredBand(r) = "MALFUNCTION"
      /\ ~Broken(p, s) /\ Beyond(p.mid, s.mid, DivergenceAgree) => StoredBand(r) = "DISAGREE"
      /\ ~Beyond(p.mid, s.mid, DivergenceAgree) => StoredBand(r) = "AGREE"
  BY <1>3, <1>4, <1>5 DEF StoredBand
<1>8. Broken(p, s) => Beyond(p.mid, s.mid, DivergenceAgree)
  BY <1>3, <1>4, <1>5
<1>9. ReplayedAgreement(r) =
         IF StoredBand(r) # "MALFUNCTION" /\ StaleApart(p, s) THEN "STALE" ELSE StoredBand(r)
  BY <1>6 DEF ReplayedAgreement
<1> QED
  BY <1>7, <1>8, <1>9 DEF Agreement, Lagging, Disputed

(* A document replayed from the record names the band the live one did     *)
(* (api.go:943-969, convert.go:27-32).                                     *)
THEOREM BandsAreKept == RateSpec => []ReplayKeepsTheBand
<1>1. ASSUME IInv, replayed # Nothing
      PROVE  /\ Live.scored => replayed.scored
             /\ \/ replayed.agreement = Live.agreement
                \/ rate.figure.mid = rate.other.mid
                \/ record.divergence \in
                      {10000 * DivergenceAgree, 10000 * DivergenceMalfunction}
  <2>1. /\ stage = "replayed" /\ rate # Nothing /\ record = Recorded
        /\ replayed.agreement = ReplayedAgreement(record)
        /\ replayed.scored = ReplayedScored(record)
    BY <1>1 DEF IInv, ReplayOK, RateOK
  <2>2. /\ Live.agreement = rate.agreement
        /\ record.figure = rate.figure
        /\ record.other = rate.other
        /\ record.divergence = StoredDivergence(rate)
        /\ record.scoredAgainst = rate.figure.source
    BY <2>1 DEF Live, Recorded
  <2>3. CASE BothAnswered
    <3> DEFINE p == answers["primary"].figure
               s == answers["secondary"].figure
    <3>1. rate = Reconciled(p, s) /\ p \in Figure /\ s \in Figure
      BY <1>1, <2>1, <2>3, RateOfTwo
    <3> HIDE DEF p, s
    <3>2. /\ rate.figure \in Figure /\ rate.other \in Figure
          /\ rate.agreement = Agreement(p, s)
          /\ \/ rate.figure = p /\ rate.other = s
             \/ rate.figure = s /\ rate.other = p
      BY <3>1 DEF Reconciled
    <3>3. rate.agreement = Agreement(rate.figure, rate.other) /\ rate.agreement # "SINGLE"
      <4>1. Agreement(p, s) # "SINGLE"
        BY DEF Agreement
      <4> QED
        BY <3>1, <3>2, <4>1, ReconciledEitherWay
    <3>4. replayed.scored
      BY <2>1, <2>2, <3>2 DEF ReplayedScored, Figure
    <3>5. ASSUME rate.figure.mid # rate.other.mid,
                 record.divergence \notin
                    {10000 * DivergenceAgree, 10000 * DivergenceMalfunction}
          PROVE  replayed.agreement = Live.agreement
      <4>1. record.divergence = Rounded(rate.figure.mid, rate.other.mid)
        BY <2>2, <3>3, <3>5 DEF StoredDivergence
      <4> QED
        BY <2>1, <2>2, <3>2, <3>3, <3>5, <4>1, ReplayedBand
    <3> QED
      BY <3>4, <3>5
  <2>4. CASE ~BothAnswered
    <3>1. PICK s \in Sources : answers[s].ok /\ rate = Single(answers[s].figure)
      BY <1>1, <2>1, <2>4, RateOfOne
    <3>2. answers[s].figure.source = s
      BY <1>1, <3>1, AnswerFacts DEF IInv
    <3>3. rate.agreement = "SINGLE" /\ rate.other = NoFigure /\ rate.figure.source \in Sources
      BY <3>1, <3>2 DEF Single
    <3>4. ReplayedAgreement(record) = "SINGLE"
      BY <2>2, <3>3 DEF ReplayedAgreement, CrossCheckStored
    <3>5. replayed.agreement = Live.agreement
      BY <2>1, <2>2, <3>3, <3>4
    <3>6. replayed.scored
      BY <2>1, <2>2, <3>3 DEF ReplayedScored
    <3> QED
      BY <3>5, <3>6
  <2> QED
    BY <2>3, <2>4
<1>2. IInv => ReplayKeepsTheBand
  BY <1>1 DEF ReplayKeepsTheBand
<1> QED
  BY Inductive, <1>2, PTL

-----------------------------------------------------------------------------
(* Type correctness, for any mids and moments: a record's divergence is    *)
(* left out or a number, and what is replayed is a band.                   *)
THEOREM TypeCorrect == RateSpec => []TypeOK
<1>1. ASSUME IInv, rate # Nothing
      PROVE  rate \in Rate
  <2>1. CASE BothAnswered
    <3>1. \E p, s \in Figure : rate = Reconciled(p, s)
      BY <1>1, <2>1, RateOfTwo
    <3>2. \A p, s \in Figure :
             Agreement(p, s) \in {"SINGLE", "AGREE", "DISAGREE", "STALE", "MALFUNCTION"}
      BY DEF Agreement
    <3> QED
      BY <3>1, <3>2 DEF Reconciled, Rate
  <2>2. CASE ~BothAnswered
    BY <1>1, <2>2, RateOfOne, AnswerFacts DEF IInv, Single, Rate
  <2> QED
    BY <2>1, <2>2
<1>2. ASSUME IInv, rate # Nothing
      PROVE  Recorded \in Record
  <2>1. rate.figure \in Figure /\ rate.other \in Figure \cup {NoFigure}
    BY <1>1, <1>2 DEF Rate
  <2>2. rate.agreement # "SINGLE" => rate.other \in Figure
    <3> SUFFICES ASSUME rate.agreement # "SINGLE" PROVE rate.other \in Figure
      OBVIOUS
    <3>1. BothAnswered
      BY <1>2, RateOfOne DEF Single
    <3> QED
      BY <1>2, <3>1, RateOfTwo DEF Reconciled
  <2>3. StoredDivergence(rate) \in Nat \cup {-1}
    <3>1. \A f, g \in Figure : Rounded(f.mid, g.mid) \in Nat
      BY FigureFacts, RoundedKeepsSide
    <3> QED
      BY <2>1, <2>2, <3>1 DEF StoredDivergence
  <2>4. rate.figure.source \in Sources
    BY <2>1 DEF Figure
  <2> QED
    BY <2>1, <2>3, <2>4 DEF Recorded, Record
<1>3. \A r : /\ ReplayedAgreement(r) \in
                   {"SINGLE", "AGREE", "DISAGREE", "STALE", "MALFUNCTION", "UNKNOWN"}
             /\ ReplayedScored(r) \in BOOLEAN
  BY DEF ReplayedAgreement, StoredBand, ReplayedScored
<1>4. ASSUME IInv
      PROVE  TypeOK
  <2>1. rate \in Rate \cup {Nothing}
    BY <1>1, <1>4
  <2>2. record \in Record \cup {Nothing}
    BY <1>2, <1>4 DEF IInv, ReplayOK, RateOK
  <2>3. replayed \in Document \cup {Nothing}
    BY <1>3, <1>4 DEF IInv, ReplayOK, Document
  <2> QED
    BY <1>4, <2>1, <2>2, <2>3 DEF IInv, TypeOK, AnswersOK, DiagnosisOK
<1> QED
  BY Inductive, <1>4, PTL

-----------------------------------------------------------------------------
(* Dependencies.  Every way in a tree or still to be looked at is without  *)
(* repetition up to its last token, none is looked at twice, and every     *)
(* dependency of a size is the root of a branch.                           *)

Token == Fiat \cup {Dest}

(* A way to be looked at: up to its last token it meets none twice, nor    *)
(* the destination, and it is at most one token longer than the cap.       *)
WayOK(n) ==
    /\ n \in Seq(Token) /\ Len(n) \in 1..(MaxDepth + 1)
    /\ \A i \in 1..(Len(n) - 1) : n[i] \in Fiat
    /\ \A i, j \in 1..(Len(n) - 1) : n[i] = n[j] => i = j

(* Measured or not, a way in the tree has every way it goes on from there. *)
Rooted(n, t) == n \in Seq(Token) /\ Len(n) >= 1 /\ (Len(n) > 1 => Front(n) \in DOMAIN t)

TreeTypeOK ==
    /\ at \in Sizes
    /\ DOMAIN structure = Sizes /\ \A s \in Sizes : structure[s].deps \subseteq Fiat
    /\ DOMAIN tree = Sizes /\ \A s \in Sizes : \A n \in DOMAIN tree[s] : Rooted(n, tree[s])
    /\ calls \in [Sizes -> Nat]

(* What is still to be looked at is new to the tree; the sizes to come     *)
(* have none.                                                              *)
TodoOK ==
    /\ todo = {<<>>} => DOMAIN tree[at] = {}
    /\ todo # {<<>>} => \A n \in todo : /\ WayOK(n) /\ Rooted(n, tree[at])
                                        /\ n \notin DOMAIN tree[at]
    /\ \A s \in Sizes : s > at => DOMAIN tree[s] = {}

(* Each request so far was about another way without repetition.           *)
Asked(s) == DOMAIN tree[s] \cap SimplePaths
CallsOK == \A s \in Sizes : calls[s] <= Cardinality(Asked(s))

(* Every dependency of a size is the root of a branch of its tree, or will *)
(* be; a size not asked yet has none.                                      *)
RootsOK ==
    /\ \A s \in Sizes : \A d \in structure[s].deps :
          /\ s < at => <<d>> \in DOMAIN tree[s]
          /\ s = at => <<d>> \in DOMAIN tree[s] \cup todo
    /\ \A s \in Sizes : s > at => structure[s].deps = {}
    /\ todo = {<<>>} => structure[at].deps = {}

OutOK == out # Unfinished => out = Summary /\ todo = {} /\ at = Size

TreeInv == TreeTypeOK /\ TodoOK /\ CallsOK /\ RootsOK /\ OutOK
-----------------------------------------------------------------------------
(* There are finitely many ways without repetition: each is the graph of   *)
(* one, and there are finitely many of those.                              *)
LEMMA SimplePathsFinite == IsFiniteSet(SimplePaths)
<1> DEFINE Places == (1..MaxDepth) \X Fiat
           Graphs == (1..MaxDepth) \X SUBSET Places
           way == [g \in Graphs |-> [i \in 1..g[1] |-> CHOOSE x \in Fiat : <<i, x>> \in g[2]]]
           Ways == {way[g] : g \in Graphs}
<1>1. IsFiniteSet(Graphs)
  <2>1. IsFiniteSet(1..MaxDepth)
    BY FS_Interval, DepthAssumption
  <2>2. IsFiniteSet(Places)
    BY <2>1, FS_Product, FiatAssumption
  <2>3. IsFiniteSet(SUBSET Places)
    BY <2>2, FS_SUBSET
  <2> QED
    BY <2>1, <2>3, FS_Product
<1>2. IsFiniteSet(Ways)
  <2> HIDE DEF Graphs
  <2>1. way \in Surjection(Graphs, Ways)
    BY DEF Surjection
  <2> HIDE DEF way, Ways
  <2> QED
    BY <1>1, <2>1, FS_Surjection
<1>3. SimplePaths \subseteq Ways
  <2> SUFFICES ASSUME NEW k \in 1..MaxDepth, NEW p \in [1..k -> Fiat]
               PROVE  p \in Ways
    BY DEF SimplePaths
  <2> DEFINE g == <<k, {<<i, p[i]>> : i \in 1..k}>>
  <2>1. g \in Graphs
    <3>1. 1..k \subseteq 1..MaxDepth
      BY DepthAssumption
    <3> QED
      BY <3>1
  <2>2. ASSUME NEW i \in 1..k
        PROVE  (CHOOSE x \in Fiat : <<i, x>> \in g[2]) = p[i]
    <3>1. \A x \in Fiat : <<i, x>> \in g[2] <=> x = p[i]
      OBVIOUS
    <3> HIDE DEF g
    <3> QED
      BY <3>1
  <2>3. way[g] = [i \in 1..k |-> CHOOSE x \in Fiat : <<i, x>> \in g[2]]
    BY <2>1
  <2>4. way[g] = p
    <3> HIDE DEF g, way
    <3> QED
      BY <2>2, <2>3
  <2> HIDE DEF g, way, Graphs
  <2> QED
    BY <2>1, <2>4
<1> HIDE DEF Ways
<1> QED
  BY <1>2, <1>3, FS_Subset

(* A way continued by a token.                                             *)
LEMMA Continued ==
    ASSUME NEW n \in Seq(Token), NEW d \in Token
    PROVE  /\ Append(n, d) \in Seq(Token)
           /\ Len(Append(n, d)) = Len(n) + 1
           /\ Front(Append(n, d)) = n
           /\ \A i \in 1..Len(n) : Append(n, d)[i] = n[i]
<1>1. /\ Append(n, d) \in Seq(Token) /\ Len(Append(n, d)) = Len(n) + 1
      /\ \A i \in 1..Len(n) : Append(n, d)[i] = n[i]
  OBVIOUS
<1>2. SubSeq(Append(n, d), 1, Len(n)) = n
  OBVIOUS
<1> QED
  BY <1>1, <1>2 DEF Front

(* The hops that a market depends on are fiat tokens other than its own.   *)
LEMMA ClassifyDeps ==
    ASSUME NEW paths, NEW dest
    PROVE  classify(paths, dest).deps \subseteq Token \ {dest}
<1>1. \A p \in paths : FiatHops(p, dest) \subseteq Token \ {dest}
  BY DEF FiatHops, Token
<1> QED
  BY <1>1 DEF classify

(* A way to be looked at that is neither too deep nor on a cycle repeats   *)
(* no token (route.go:696-712).                                            *)
LEMMA AskedIsSimple ==
    ASSUME NEW n, WayOK(n), Len(n) <= MaxDepth, Last(n) # Dest,
           Last(n) \notin ToSet(Front(n))
    PROVE  n \in SimplePaths
<1>1. n \in Seq(Token) /\ Len(n) \in 1..MaxDepth
  BY DepthAssumption DEF WayOK
<1>2. PICK k \in 1..MaxDepth : k = Len(n)
  BY <1>1
<1>3. n \in [1..k -> Token] /\ DOMAIN n = 1..k
  BY <1>1, <1>2
<1>4. \A i \in 1..(k - 1) : n[i] \in ToSet(Front(n))
  <2>1. Front(n) = SubSeq(n, 1, k - 1)
    BY <1>2 DEF Front
  <2>2. DOMAIN SubSeq(n, 1, k - 1) = 1..(k - 1)
        /\ \A i \in 1..(k - 1) : SubSeq(n, 1, k - 1)[i] = n[i]
    BY <1>1, <1>2
  <2> QED
    BY <2>1, <2>2 DEF ToSet
<1>5. \A i \in 1..k : i = k \/ i \in 1..(k - 1)
  BY <1>2
<1>6. n[k] # Dest /\ \A i \in 1..(k - 1) : n[i] # n[k]
  BY <1>2, <1>4 DEF Last
<1>7. n \in [1..k -> Fiat]
  BY <1>2, <1>3, <1>5, <1>6 DEF WayOK, Token
<1>8. IsInjective(n)
  <2> SUFFICES ASSUME NEW i \in 1..k, NEW j \in 1..k, n[i] = n[j] PROVE i = j
    BY <1>3 DEF IsInjective
  <2> QED
    BY <1>2, <1>5, <1>6 DEF WayOK
<1> QED
  BY <1>7, <1>8 DEF SimplePaths
-----------------------------------------------------------------------------
LEMMA TreeInvInit == TreeInit => TreeInv
<1> SUFFICES ASSUME TreeInit PROVE TreeInv
  OBVIOUS
<1>1. 1 \in Sizes
  BY DepthAssumption DEF Sizes
<1>2. at = 1 /\ todo = {<<>>} /\ out = Unfinished /\ calls = [s \in Sizes |-> 0]
      /\ structure = [s \in Sizes |-> Unknown] /\ tree = [s \in Sizes |-> <<>>]
  BY DEF TreeInit
<1>3. \A s \in Sizes : structure[s].deps = {} /\ DOMAIN tree[s] = {}
  BY <1>2 DEF Unknown
<1>4. TreeTypeOK
  BY <1>1, <1>2, <1>3 DEF TreeTypeOK
<1>5. TodoOK /\ RootsOK /\ OutOK
  BY <1>1, <1>2, <1>3 DEF TodoOK, RootsOK, OutOK
<1>6. CallsOK
  <2> SUFFICES ASSUME NEW s \in Sizes PROVE calls[s] <= Cardinality(Asked(s))
    BY DEF CallsOK
  <2>1. Cardinality(Asked(s)) \in Nat
    BY SimplePathsFinite, FS_Subset, FS_CardinalityType DEF Asked
  <2> QED
    BY <1>2, <2>1
<1> QED
  BY <1>4, <1>5, <1>6 DEF TreeInv

(* A tree that stays as it is keeps what is said of its requests.          *)
LEMMA CallsStay ==
    ASSUME CallsOK, UNCHANGED <<tree, calls>>
    PROVE  CallsOK'
BY DEF CallsOK, Asked

(* The corridor's own paths name the roots of the tree, or are not         *)
(* answered.                                                               *)
LEMMA QuoteKeeps == TreeInv /\ Quote => TreeInv'
<1> SUFFICES ASSUME TreeInv, Quote PROVE TreeInv'
  OBVIOUS
<1>1. /\ todo = {<<>>} /\ DOMAIN tree[at] = {} /\ at \in Sizes
      /\ at' = at /\ tree' = tree /\ calls' = calls /\ out' = out
      /\ structure[at].deps = {} /\ DOMAIN structure = Sizes
  BY DEF Quote, TodoOK, TreeTypeOK, TreeInv, RootsOK
<1>2. out = Unfinished
  BY <1>1 DEF OutOK, TreeInv
<1>3. PICK deps \in SUBSET Fiat :
         /\ todo' = {<<d>> : d \in deps}
         /\ DOMAIN structure' = Sizes
         /\ structure'[at].deps = deps
         /\ \A s \in Sizes : s # at => structure'[s] = structure[s]
  <2> DEFINE Found(deps) ==
                /\ todo' = {<<d>> : d \in deps}
                /\ DOMAIN structure' = Sizes
                /\ structure'[at].deps = deps
                /\ \A s \in Sizes : s # at => structure'[s] = structure[s]
  <2>1. CASE UNCHANGED structure /\ todo' = {}
    <3>1. Found({})
      BY <1>1, <2>1
    <3> QED
      BY <3>1
  <2>2. ASSUME NEW paths \in Corridors,
               structure' = [structure EXCEPT ![at] = classify(paths, Dest)],
               todo' = {<<d>> : d \in classify(paths, Dest).deps}
        PROVE  \E deps \in SUBSET Fiat : Found(deps)
    <3>1. classify(paths, Dest).deps \in SUBSET Fiat
      BY ClassifyDeps DEF Token
    <3>2. /\ structure'[at] = classify(paths, Dest) /\ DOMAIN structure' = Sizes
          /\ \A s \in Sizes : s # at => structure'[s] = structure[s]
      BY <2>2, <1>1
    <3>3. Found(classify(paths, Dest).deps)
      BY <2>2, <3>2
    <3> HIDE DEF Found
    <3> QED
      BY <3>1, <3>3
  <2> QED
    BY <2>1, <2>2 DEF Quote
<1>4. TreeTypeOK'
  BY <1>1, <1>3 DEF TreeTypeOK, TreeInv
<1>5. TodoOK'
  <2>1. \A s \in Sizes : s > at => DOMAIN tree[s] = {}
    BY DEF TreeInv, TodoOK
  <2>2. ASSUME NEW d \in Fiat
        PROVE  WayOK(<<d>>) /\ Rooted(<<d>>, tree[at]) /\ <<d>> \notin DOMAIN tree[at]
    <3>1. <<d>> \in Seq(Token) /\ Len(<<d>>) = 1
      BY DEF Token
    <3>2. 1 \in 1..(MaxDepth + 1) /\ 1..(1 - 1) = {}
      BY DepthAssumption
    <3> QED
      BY <1>1, <3>1, <3>2 DEF WayOK, Rooted
  <2>3. \A n \in todo' : WayOK(n) /\ Rooted(n, tree[at]) /\ n \notin DOMAIN tree[at]
    BY <1>3, <2>2
  <2> QED
    BY <1>1, <2>1, <2>3 DEF TodoOK
<1>6. RootsOK'
  <2>1. \A s \in Sizes : s > at => s # at
    BY <1>1 DEF Sizes
  <2>2. \A s \in Sizes : s < at => s # at
    BY <1>1 DEF Sizes
  <2>3. \A d \in deps : <<d>> \in todo'
    BY <1>3
  <2>4. todo' = {<<>>} => deps = {}
    <3>1. \A d \in deps : <<d>> # <<>>
      OBVIOUS
    <3> QED
      BY <1>3, <3>1
  <2> QED
    BY <1>1, <1>3, <2>1, <2>2, <2>3, <2>4 DEF RootsOK, TreeInv
<1>7. CallsOK' /\ OutOK'
  BY <1>1, <1>2, CallsStay DEF OutOK, TreeInv
<1> QED
  BY <1>4, <1>5, <1>6, <1>7 DEF TreeInv


(* The node whose turn it is, with what it gets, is one more of the tree,  *)
(* and the ways on from it wait their turn (route.go:696-740).             *)
LEMMA GrowKeeps ==
    ASSUME TreeInv, Turn, NEW measured, NEW integrity, NEW deps \in SUBSET Token,
           Grow(measured, integrity, deps),
           deps # {} => node \in SimplePaths,
           \/ calls' = calls
           \/ node \in SimplePaths /\ calls' = [calls EXCEPT ![at] = @ + 1]
    PROVE  TreeInv'
<1>1. /\ node \in todo /\ WayOK(node) /\ Rooted(node, tree[at]) /\ node \notin DOMAIN tree[at]
      /\ todo # {<<>>} /\ todo # {} /\ at \in Sizes
      /\ \A n \in todo : WayOK(n) /\ Rooted(n, tree[at]) /\ n \notin DOMAIN tree[at]
  BY DEF Turn, node, TreeInv, TodoOK, TreeTypeOK
<1>2. out = Unfinished
  BY <1>1 DEF TreeInv, OutOK
<1>3. PICK here \in Seq(Token) :
         /\ here = node /\ WayOK(here) /\ here \in todo
         /\ Len(here) \in Nat \ {0}
  BY <1>1, DepthAssumption DEF WayOK
<1>4. PICK after :
         /\ after = [n \in DOMAIN tree[at] \cup {here} |->
                        IF n = here THEN [measured |-> measured, integrity |-> integrity]
                        ELSE tree[at][n]]
         /\ tree' = [tree EXCEPT ![at] = after]
  BY <1>3 DEF Grow
<1>5. /\ tree'[at] = after /\ DOMAIN tree' = Sizes
      /\ \A s \in Sizes : s # at => tree'[s] = tree[s]
      /\ DOMAIN after = DOMAIN tree[at] \cup {here}
      /\ at' = at /\ out' = out /\ structure' = structure
      /\ todo' = (todo \ {here}) \cup {Append(here, d) : d \in deps}
  BY <1>1, <1>3, <1>4 DEF Grow, TreeInv, TreeTypeOK
<1>6. \A n : Rooted(n, tree[at]) => Rooted(n, after)
  BY <1>5 DEF Rooted
<1>7. ASSUME NEW d \in deps
      PROVE  /\ WayOK(Append(here, d)) /\ Rooted(Append(here, d), after)
             /\ Append(here, d) \notin DOMAIN after
             /\ Len(Append(here, d)) > 1
  <2>1. PICK k \in 1..MaxDepth : here \in [1..k -> Fiat] /\ IsInjective(here) /\ Len(here) = k
    <3>1. here \in SimplePaths
      BY <1>3, <1>7
    <3>2. PICK k \in 1..MaxDepth : here \in [1..k -> Fiat] /\ IsInjective(here)
      BY <3>1 DEF SimplePaths
    <3>3. Len(here) = k
      <4>1. DOMAIN here = 1..k /\ DOMAIN here = 1..Len(here)
        BY <3>2
      <4> QED
        BY <4>1, <1>3
    <3> QED
      BY <3>2, <3>3
  <2>2. PICK on \in Seq(Token) :
           /\ on = Append(here, d)
           /\ Len(on) = k + 1 /\ Front(on) = here
           /\ \A i \in 1..k : on[i] = here[i]
    BY <1>7, <2>1, Continued
  <2>3. k + 1 \in 1..(MaxDepth + 1) /\ (k + 1) - 1 = k /\ k + 1 > 1 /\ k # k + 1 /\ k + 1 >= 1
    BY DepthAssumption
  <2>4. WayOK(on)
    <3>1. Len(on) \in 1..(MaxDepth + 1) /\ Len(on) - 1 = k
      BY <2>2, <2>3
    <3>2. \A i \in 1..k : on[i] \in Fiat
      BY <2>1, <2>2
    <3>3. \A i, j \in 1..k : on[i] = on[j] => i = j
      BY <2>1, <2>2 DEF IsInjective
    <3> QED
      BY <3>1, <3>2, <3>3 DEF WayOK
  <2>5. on # here
    BY <2>1, <2>2, <2>3
  <2>6. on \notin DOMAIN tree[at]
    <3>1. on \in DOMAIN tree[at] => here \in DOMAIN tree[at]
      BY <1>1, <2>2, <2>3 DEF TreeInv, TreeTypeOK, Rooted
    <3> QED
      BY <1>1, <1>3, <3>1
  <2>7. Rooted(on, after)
    BY <1>5, <2>2, <2>3 DEF Rooted
  <2> QED
    BY <1>5, <2>2, <2>3, <2>4, <2>5, <2>6, <2>7
<1>8. ASSUME NEW n \in todo'
      PROVE  /\ WayOK(n) /\ Rooted(n, after) /\ n \notin DOMAIN after
  BY <1>1, <1>5, <1>6, <1>7
<1>9. todo' # {<<>>}
  <2>1. <<>> \notin todo'
    BY <1>8 DEF Rooted
  <2> QED
    BY <2>1
<1>10. TreeTypeOK'
  <2>1. \A s \in Sizes : \A n \in DOMAIN tree'[s] : Rooted(n, tree'[s])
    <3>1. \A n \in DOMAIN after : Rooted(n, after)
      BY <1>1, <1>3, <1>5, <1>6 DEF TreeInv, TreeTypeOK
    <3> QED
      BY <1>5, <3>1 DEF TreeInv, TreeTypeOK
  <2>2. calls' \in [Sizes -> Nat]
    <3>1. calls \in [Sizes -> Nat]
      BY DEF TreeInv, TreeTypeOK
    <3> QED
      BY <3>1, <1>1
  <2> QED
    BY <1>5, <1>1, <2>1, <2>2 DEF TreeInv, TreeTypeOK
<1>11. TodoOK'
  <2>1. \A s \in Sizes : s > at => s # at /\ DOMAIN tree[s] = {}
    BY <1>1 DEF TreeInv, TodoOK, Sizes
  <2> QED
    BY <1>5, <1>8, <1>9, <2>1 DEF TodoOK
<1>12. CallsOK'
  <2> SUFFICES ASSUME NEW s \in Sizes
               PROVE  calls'[s] <= Cardinality(DOMAIN tree'[s] \cap SimplePaths)
    BY DEF CallsOK, Asked
  <2> DEFINE Before == DOMAIN tree[s] \cap SimplePaths
             Now == DOMAIN tree'[s] \cap SimplePaths
  <2>1. calls[s] \in Nat /\ calls[s] <= Cardinality(Before)
    BY DEF TreeInv, TreeTypeOK, CallsOK, Asked
  <2>2. IsFiniteSet(Before) /\ IsFiniteSet(Now)
    BY SimplePathsFinite, FS_Subset
  <2>3. Before \subseteq Now
    BY <1>5
  <2>4. Cardinality(Before) \in Nat /\ Cardinality(Now) \in Nat /\ Cardinality(Before) <= Cardinality(Now)
    <3> HIDE DEF Before, Now
    <3> QED
      BY <2>2, <2>3, FS_Subset, FS_CardinalityType
  <2>5. CASE calls'[s] = calls[s]
    <3> HIDE DEF Before
    <3> QED
      BY <2>1, <2>4, <2>5
  <2>6. CASE s = at /\ here \in SimplePaths /\ calls'[s] = calls[s] + 1
    <3>1. Now = Before \cup {here} /\ here \notin Before
      BY <1>1, <1>3, <1>5, <2>6
    <3> HIDE DEF Before, Now
    <3>2. Cardinality(Now) = Cardinality(Before) + 1
      BY <3>1, <2>2, FS_AddElement
    <3>3. calls'[s] <= Cardinality(Now)
      BY <3>2, <2>1, <2>4, <2>6
    <3> QED
      BY <3>3 DEF Now
  <2> QED
    BY <1>3, <2>5, <2>6 DEF TreeInv, TreeTypeOK
<1>13. RootsOK'
  <2>1. ASSUME NEW s \in Sizes, NEW d \in structure[s].deps
        PROVE  /\ s < at => <<d>> \in DOMAIN tree'[s]
               /\ s = at => <<d>> \in DOMAIN tree'[s] \cup todo'
    <3>1. s < at => s # at
      BY <1>1 DEF Sizes
    <3>2. /\ s < at => <<d>> \in DOMAIN tree[s]
          /\ s = at => <<d>> \in DOMAIN tree[s] \cup todo
      BY <2>1 DEF TreeInv, RootsOK
    <3> QED
      BY <1>5, <3>1, <3>2
  <2>2. \A s \in Sizes : s > at => structure[s].deps = {}
    BY DEF TreeInv, RootsOK
  <2> QED
    BY <1>5, <1>9, <2>1, <2>2 DEF RootsOK
<1>14. OutOK'
  BY <1>2, <1>5 DEF OutOK
<1> QED
  BY <1>10, <1>11, <1>12, <1>13, <1>14 DEF TreeInv


(* Naturals have a least element: the least of the intervals 1..n.         *)
LEMMA LeastNat ==
    ASSUME NEW X, X \subseteq Nat, X # {}
    PROVE  \E n \in X : \A m \in X : n <= m
<1> DEFINE T == {1..n : n \in X}
           R == StrictSubsetOrdering(Nat)
<1>1. T \subseteq FiniteSubsetsOf(Nat)
  <2>1. \A n \in X : 1..n \in SUBSET Nat /\ IsFiniteSet(1..n)
    BY FS_Interval
  <2> QED
    BY <2>1 DEF FiniteSubsetsOf
<1>2. T # {}
  OBVIOUS
<1>3. IsWellFoundedOn(R, FiniteSubsetsOf(Nat))
  BY FS_StrictSubsetOrderingWellFounded
<1> HIDE DEF R
<1>4. \E t \in T : \A s \in T : ~(<<s, t>> \in R)
  BY <1>1, <1>2, <1>3, WFMin
<1>5. PICK n \in X : \A m \in X : ~(<<1..m, 1..n>> \in R)
  BY <1>4
<1>6. ASSUME NEW m \in X, m < n PROVE FALSE
  <2>1. m \in Nat /\ n \in Nat
    OBVIOUS
  <2>2. 1..m \in SUBSET Nat /\ 1..n \in SUBSET Nat /\ 1..m \subseteq 1..n
    BY <1>6, <2>1
  <2>3. n \in 1..n /\ n \notin 1..m
    BY <1>6, <2>1
  <2>4. <<1..m, 1..n>> \in R
    BY <2>2, <2>3 DEF R, StrictSubsetOrdering
  <2> QED
    BY <1>5, <2>4
<1> QED
  BY <1>6


LEMMA MeasureChainKeeps == TreeInv /\ measureChain => TreeInv'
<1> SUFFICES ASSUME TreeInv, measureChain PROVE TreeInv'
  OBVIOUS
<1>0. WayOK(node) /\ Len(node) \in Nat /\ at \in Sizes
  <2>1. Turn
    BY DEF measureChain, DepthCap, Cycle, HorizonFails, Measure, Asks
  <2>2. WayOK(node)
    BY <2>1 DEF Turn, node, TreeInv, TodoOK
  <2> QED
    BY <2>2, DepthAssumption DEF WayOK, TreeInv, TreeTypeOK
<1>1. CASE DepthCap \/ Cycle
  <2>1. Turn /\ Grow(FALSE, "UNKNOWN", {}) /\ calls' = calls
    BY <1>1 DEF DepthCap, Cycle
  <2>2. {} \in SUBSET Token
    OBVIOUS
  <2> QED
    BY <2>1, <2>2, GrowKeeps
<1>3. ASSUME Asks PROVE node \in SimplePaths
  <2>1. Len(node) <= MaxDepth
    BY <1>0, <1>3, DepthAssumption DEF Asks, TooDeep
  <2> QED
    BY <1>0, <1>3, <2>1, AskedIsSimple DEF Asks, OnCycle, token
<1>4. CASE HorizonFails
  <2>1. /\ Turn /\ Grow(FALSE, "UNKNOWN", {})
        /\ calls' = [calls EXCEPT ![at] = @ + 1] /\ node \in SimplePaths
    BY <1>3, <1>4 DEF HorizonFails, Asks
  <2>2. {} \in SUBSET Token
    OBVIOUS
  <2> QED
    BY <2>1, <2>2, GrowKeeps
<1>5. CASE Measure
  <2> DEFINE found == classify(market[at][token], token)
  <2>1. found.deps \in SUBSET Token
    BY ClassifyDeps
  <2>2. Grow(TRUE, found.integrity, found.deps)
    BY <1>5 DEF Measure
  <2>3. Turn /\ calls' = [calls EXCEPT ![at] = @ + 1] /\ node \in SimplePaths
    BY <1>3, <1>5 DEF Measure, Asks
  <2> HIDE DEF found
  <2> QED
    BY <2>1, <2>2, <2>3, GrowKeeps
<1> QED
  BY <1>1, <1>4, <1>5 DEF measureChain

LEMMA NextSizeKeeps == TreeInv /\ NextSize => TreeInv'
<1> SUFFICES ASSUME TreeInv, NextSize PROVE TreeInv'
  OBVIOUS
<1>1. /\ todo = {} /\ at < Size /\ at \in Sizes /\ at' = at + 1 /\ todo' = {<<>>}
      /\ structure' = structure /\ tree' = tree /\ calls' = calls /\ out' = out
  BY DEF NextSize, TreeInv, TreeTypeOK
<1>2. /\ at + 1 \in Sizes /\ at + 1 > at /\ at < Size
      /\ \A s \in Sizes : s > at + 1 => s > at
      /\ \A s \in Sizes : s < at + 1 => s < at \/ s = at
      /\ \A s \in Sizes : s = at + 1 => s > at
  BY <1>1, DepthAssumption DEF Sizes
<1>3. TreeTypeOK'
  BY <1>1, <1>2 DEF TreeInv, TreeTypeOK
<1>4. TodoOK'
  BY <1>1, <1>2 DEF TreeInv, TodoOK
<1>5. CallsOK'
  BY <1>1, CallsStay DEF TreeInv
<1>6. RootsOK'
  BY <1>1, <1>2 DEF TreeInv, RootsOK
<1>7. out = Unfinished
  BY <1>1, DepthAssumption DEF TreeInv, OutOK, Sizes
<1>8. OutOK'
  BY <1>1, <1>7 DEF OutOK
<1> QED
  BY <1>3, <1>4, <1>5, <1>6, <1>8 DEF TreeInv

(* What is published is the summary of what was measured, and stays it.    *)
LEMMA SummariseKeeps == TreeInv /\ Summarise => TreeInv'
<1> SUFFICES ASSUME TreeInv, Summarise PROVE TreeInv'
  OBVIOUS
<1>1. /\ todo = {} /\ at = Size /\ todo' = todo /\ at' = at /\ out' = Summary
      /\ structure' = structure /\ tree' = tree /\ calls' = calls
  BY DEF Summarise
<1>2. Summary' = Summary
  BY <1>1 DEF Summary, Structured, Deps, Chain, Chosen, Below
<1>3. TreeTypeOK' /\ TodoOK' /\ RootsOK' /\ CallsOK'
  BY <1>1, CallsStay DEF TreeInv, TreeTypeOK, TodoOK, RootsOK
<1>4. OutOK'
  BY <1>1, <1>2 DEF OutOK
<1> QED
  BY <1>3, <1>4 DEF TreeInv

LEMMA TreeInvNext == TreeInv /\ [TreeNext]_treeVars => TreeInv'
<1> SUFFICES ASSUME TreeInv, [TreeNext]_treeVars PROVE TreeInv'
  OBVIOUS
<1>1. CASE UNCHANGED treeVars
  <2>1. Summary' = Summary
    BY <1>1 DEF treeVars, Summary, Structured, Deps, Chain, Chosen, Below
  <2>2. UNCHANGED <<tree, calls, structure, at, todo, out>>
    BY <1>1 DEF treeVars
  <2>3. TreeTypeOK' /\ TodoOK' /\ RootsOK' /\ CallsOK'
    BY <2>2, CallsStay DEF TreeInv, TreeTypeOK, TodoOK, RootsOK
  <2>4. OutOK'
    BY <2>1, <2>2 DEF TreeInv, OutOK
  <2> QED
    BY <2>3, <2>4 DEF TreeInv
<1> QED
  BY <1>1, QuoteKeeps, MeasureChainKeeps, NextSizeKeeps, SummariseKeeps DEF TreeNext

LEMMA TreeInductive == TreeSpec => []TreeInv
BY TreeInvInit, TreeInvNext, PTL DEF TreeSpec

(* However the tokens depend on each other, a size asks Horizon about no   *)
(* more ways than there are without repetition under the cap               *)
(* (route.go:696-712).                                                     *)
THEOREM CallsBounded == TreeSpec => []CallsAreBounded
<1>1. ASSUME TreeInv PROVE CallsAreBounded
  <2> SUFFICES ASSUME NEW s \in Sizes PROVE calls[s] <= Cardinality(SimplePaths)
    BY DEF CallsAreBounded
  <2>1. calls[s] \in Nat /\ calls[s] <= Cardinality(Asked(s))
    BY <1>1 DEF TreeInv, TreeTypeOK, CallsOK
  <2>2. Asked(s) \in SUBSET SimplePaths
    BY DEF Asked
  <2>3. /\ Cardinality(Asked(s)) <= Cardinality(SimplePaths)
        /\ Cardinality(Asked(s)) \in Nat /\ Cardinality(SimplePaths) \in Nat
    BY <2>2, SimplePathsFinite, FS_Subset, FS_CardinalityType
  <2> QED
    BY <2>1, <2>3
<1> QED
  BY <1>1, TreeInductive, PTL

(* The size whose measurement of a dependency is kept has one, a measured  *)
(* one when any has.                                                       *)
LEMMA ChosenHas ==
    ASSUME NEW d, \E s \in Sizes : <<d>> \in DOMAIN tree[s]
    PROVE  /\ Chosen(d) \in Sizes /\ <<d>> \in DOMAIN tree[Chosen(d)]
           /\ (\E s \in Sizes : <<d>> \in DOMAIN tree[s] /\ tree[s][<<d>>].measured)
                 => tree[Chosen(d)][<<d>>].measured
<1> DEFINE having == {s \in Sizes : <<d>> \in DOMAIN tree[s]}
           measured == {s \in having : tree[s][<<d>>].measured}
           best == IF measured # {} THEN measured ELSE having
<1>1. best \subseteq Nat /\ best # {}
  BY DEF Sizes
<1>2. \E s \in best : \A r \in best : s <= r
  BY <1>1, LeastNat
<1>3. Chosen(d) \in best
  <2> HIDE DEF best
  <2>1. (CHOOSE s \in best : \A r \in best : s <= r) \in best
    BY <1>2
  <2> QED
    BY <2>1 DEF Chosen, best
<1> QED
  BY <1>3

(* A nonempty way is below its first token and no other.                   *)
LEMMA BelowRoot ==
    ASSUME NEW n \in Seq(Token), Len(n) >= 1, NEW d
    PROVE  Below(n, <<d>>) <=> n[1] = d
<1>a. <<d>> \in Seq({d}) /\ Len(<<d>>) = 1 /\ <<d>>[1] = d
  OBVIOUS
<1>1. ASSUME NEW S, NEW t \in Seq(S), NEW m \in Nat, m = 1, m <= Len(t)
      PROVE  /\ SubSeq(t, 1, m) \in Seq(S) /\ Len(SubSeq(t, 1, m)) = 1
             /\ SubSeq(t, 1, m)[1] = t[1]
  BY <1>1
<1>2. PICK top \in Seq({d}) : top = <<d>> /\ Len(top) = 1 /\ top[1] = d
  BY <1>a
<1>3. PICK a \in Seq({d}) : a = SubSeq(top, 1, 1) /\ Len(a) = 1 /\ a[1] = d
  <2>1. 1 \in Nat /\ 1 <= Len(top)
    BY <1>2
  <2>2. /\ SubSeq(top, 1, 1) \in Seq({d}) /\ Len(SubSeq(top, 1, 1)) = 1
        /\ SubSeq(top, 1, 1)[1] = top[1]
    BY <1>1, <2>1
  <2> QED
    BY <1>2, <2>2
<1>4. PICK b \in Seq(Token) : b = SubSeq(n, 1, 1) /\ Len(b) = 1 /\ b[1] = n[1]
  BY <1>1
<1>5. a = b <=> n[1] = d
  <2>1. DOMAIN a = 1..1 /\ DOMAIN b = 1..1
    BY <1>3, <1>4
  <2>2. a = [i \in 1..1 |-> a[i]] /\ b = [i \in 1..1 |-> b[i]]
    BY <1>3, <1>4, <2>1
  <2>3. \A i \in 1..1 : i = 1
    OBVIOUS
  <2> QED
    BY <1>3, <1>4, <2>2, <2>3
<1> QED
  BY <1>2, <1>3, <1>4, <1>5 DEF Below, IsPrefix

(* What is published of a dependency is one size's whole tree of it, one   *)
(* measured at its top if there is any, whatever requests fail             *)
(* (ladder.go:454-464).  What is below the top is not chosen.              *)
THEOREM ChainsAreMeasurements == TreeSpec => []ChainIsOneMeasurement
<1>1. ASSUME TreeInv, out.integrity = "DERIVATIVE" PROVE ChainIsOneMeasurement
  <2>1. out = Summary /\ todo = {} /\ at = Size
    <3>1. out # Unfinished
      BY <1>1 DEF Unfinished
    <3> QED
      BY <1>1, <3>1 DEF TreeInv, OutOK
  <2>2. out.chain = Chain
    BY <1>1, <2>1 DEF Summary
  <2>3. ASSUME NEW d \in Deps PROVE \E s \in Sizes : <<d>> \in DOMAIN tree[s]
    <3>1. PICK s \in Sizes : d \in structure[s].deps
      BY DEF Deps, Structured
    <3>2. s < at \/ s = at
      BY <2>1, DepthAssumption DEF Sizes
    <3> QED
      BY <1>1, <2>1, <3>1, <3>2 DEF TreeInv, RootsOK
  <2>4. \A d \in Deps : /\ Chosen(d) \in Sizes /\ <<d>> \in DOMAIN tree[Chosen(d)]
                        /\ (\E s \in Sizes : <<d>> \in DOMAIN tree[s] /\ tree[s][<<d>>].measured)
                              => tree[Chosen(d)][<<d>>].measured
    BY <2>3, ChosenHas
  <2> DEFINE Kept(d) == {n \in DOMAIN tree[Chosen(d)] : Below(n, <<d>>)}
  <2>5. ASSUME NEW d \in Deps
        PROVE  Kept(d) = {n \in DOMAIN tree[Chosen(d)] : n[1] = d} /\ <<d>> \in Kept(d)
    <3>1. \A n \in DOMAIN tree[Chosen(d)] : n \in Seq(Token) /\ Len(n) >= 1
      BY <1>1, <2>4 DEF TreeInv, TreeTypeOK, Rooted
    <3>2. \A n \in DOMAIN tree[Chosen(d)] : Below(n, <<d>>) <=> n[1] = d
      BY <3>1, BelowRoot
    <3> QED
      BY <2>4, <3>2
  <2>6. out.chain = [n \in UNION {Kept(d) : d \in Deps} |-> tree[Chosen(n[1])][n]]
    BY <2>2 DEF Chain
  <2> HIDE DEF Kept
  <2>7. \A n : n \in DOMAIN out.chain <=> n[1] \in Deps /\ n \in DOMAIN tree[Chosen(n[1])]
    <3>1. DOMAIN out.chain = UNION {Kept(d) : d \in Deps}
      BY <2>6
    <3>2. \A n : n \in DOMAIN out.chain <=> \E d \in Deps : n \in Kept(d)
      BY <3>1
    <3>3. \A n : \A d \in Deps : n \in Kept(d) <=> n[1] = d /\ n \in DOMAIN tree[Chosen(d)]
      BY <2>5
    <3> QED
      BY <3>2, <3>3
  <2>8. \A n \in DOMAIN out.chain : out.chain[n] = tree[Chosen(n[1])][n]
    BY <2>6
  <2>9. \A d \in Deps : <<d>> \in DOMAIN out.chain /\ <<d>>[1] = d
    BY <2>4, <2>7
  <2>10. {n[1] : n \in DOMAIN out.chain} = Deps
    <3>1. \A d \in Deps : \E n \in DOMAIN out.chain : n[1] = d
      BY <2>9
    <3> QED
      BY <2>7, <3>1
  <2>11. ASSUME NEW d \in Deps
         PROVE  /\ out.chain[<<d>>].measured <=>
                     \E s \in Sizes : <<d>> \in DOMAIN tree[s] /\ tree[s][<<d>>].measured
                /\ \E s \in Sizes : \A n \in DOMAIN out.chain \cup DOMAIN tree[s] :
                     n[1] = d => /\ n \in DOMAIN out.chain \cap DOMAIN tree[s]
                                 /\ out.chain[n] = tree[s][n]
    <3>1. out.chain[<<d>>] = tree[Chosen(d)][<<d>>]
      BY <2>8, <2>9
    <3>2. \A n \in DOMAIN out.chain \cup DOMAIN tree[Chosen(d)] :
             n[1] = d => /\ n \in DOMAIN out.chain \cap DOMAIN tree[Chosen(d)]
                         /\ out.chain[n] = tree[Chosen(d)][n]
      BY <2>7, <2>8
    <3> QED
      BY <2>4, <3>1, <3>2
  <2> QED
    BY <2>10, <2>11 DEF ChainIsOneMeasurement
<1>2. ASSUME TreeInv, out.integrity # "DERIVATIVE" PROVE ChainIsOneMeasurement
  BY <1>2 DEF ChainIsOneMeasurement
<1>3. TreeInv => ChainIsOneMeasurement
  BY <1>1, <1>2
<1> QED
  BY <1>3, TreeInductive, PTL
=============================================================================
