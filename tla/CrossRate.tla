----------------------------- MODULE CrossRate ------------------------------
(***************************************************************************)
(* One call of refrate.Cross.Rate (refrate/cross.go), then what becomes of *)
(* its answer: the live document (route/wire.go), the stored record        *)
(* (monitor/monitor.go, runstore/convert.go) and the document replayed     *)
(* from that record when a live measurement fails (server/api.go).         *)
(***************************************************************************)
EXTENDS Reconcile

VARIABLES
    stage,      \* the step of Rate, or what was done with its answer
    answers,    \* source -> what that provider answered
    rate,       \* the reconciled rate
    diagnosis,  \* the third provider's mid and the outlier it makes out
    record,     \* the reference block of the stored record
    replayed    \* the reference part of the replayed document

rateVars == <<stage, answers, rate, diagnosis, record, replayed>>

Nothing == [none |-> TRUE]
Steps == {"primary", "secondary", "diagnose", "measured", "stored", "replayed",
          "cancelled", "refused"}

(* What a record keeps.  divergence is in units of 0.0001 percent; -1 is a *)
(* field left out.                                                         *)
Record == [figure : Figure, other : Figure \cup {NoFigure},
           divergence : Nat \cup {-1}, scoredAgainst : Sources]
Document == [agreement : {"SINGLE", "AGREE", "DISAGREE", "STALE", "MALFUNCTION", "UNKNOWN"},
             scored : BOOLEAN]

RateInit ==
    /\ stage = "primary"
    /\ answers = [s \in Sources |-> Failed]
    /\ rate = Nothing
    /\ diagnosis = Nothing
    /\ record = Nothing
    /\ replayed = Nothing

-----------------------------------------------------------------------------
(* External: a provider behind its cache answers, or fails. *)
Says(source) ==
    {Failed} \cup {Answered([mid |-> m, source |-> source, asOf |-> t]) :
                      m \in Mids, t \in Moments}

AskPrimary ==
    /\ stage = "primary"
    /\ \E a \in Says("primary") : answers' = [answers EXCEPT !["primary"] = a]
    /\ stage' = "secondary"
    /\ UNCHANGED <<rate, diagnosis, record, replayed>>

(* Both asked, and neither answered: Rate is an error. *)
NeitherAnswers ==
    /\ stage = "secondary"
    /\ ~answers["primary"].ok
    /\ stage' = "refused"
    /\ UNCHANGED <<answers, rate, diagnosis, record, replayed>>

AskSecondary ==
    /\ stage = "secondary"
    /\ \E a \in Says("secondary") :
          /\ answers["primary"].ok \/ a.ok
          /\ answers' = [answers EXCEPT !["secondary"] = a]
          /\ rate' = CrossChecked(answers["primary"], a)
    /\ stage' = IF rate'.agreement = "DISAGREE" THEN "diagnose" ELSE "measured"
    /\ UNCHANGED <<diagnosis, record, replayed>>

(* a is farther from m than b is, each gap relative to the smaller mid. *)
Farther(a, b, m) == Gap(a, m) * Lower(b, m) > Gap(b, m) * Lower(a, m)

(* attributeDisagreement: the source farther from the third mid. *)
Attributed(m) ==
    LET p == answers["primary"].figure.mid
        s == answers["secondary"].figure.mid
    IN  CASE Farther(p, s, m) -> "primary"
          [] Farther(s, p, m) -> "secondary"
          [] OTHER -> "nobody"

(* The third provider may fail; it moves nothing but the diagnosis. *)
Diagnose ==
    /\ stage = "diagnose"
    /\ \/ \E m \in Mids : diagnosis' = [mid |-> m, outlier |-> Attributed(m)]
       \/ UNCHANGED diagnosis
    /\ stage' = "measured"
    /\ UNCHANGED <<answers, rate, record, replayed>>

(* The caller's context ends: Rate returns its error. *)
Cancel ==
    /\ stage \in {"primary", "secondary"}
    /\ stage' = "cancelled"
    /\ UNCHANGED <<answers, rate, diagnosis, record, replayed>>

-----------------------------------------------------------------------------
(* The live document. *)
Live == [agreement |-> rate.agreement, scored |-> Scorable(rate)]

(* StringFixed(4) of the divergence in percent, half away from zero. *)
Rounded(a, b) ==
    LET lo == Lower(a, b)
        whole == (100 * Gap(a, b)) \div lo
        rest == (100 * Gap(a, b)) % lo
    IN  10000 * whole + (20000 * rest + lo) \div (2 * lo)

(* The divergence is left out when it is zero, and when it was not taken. *)
StoredDivergence(r) ==
    IF r.agreement = "SINGLE" \/ r.figure.mid = r.other.mid THEN -1
    ELSE Rounded(r.figure.mid, r.other.mid)

(* measure overwrites scored_against with the figure's source. *)
Store ==
    /\ stage = "measured"
    /\ record' = [figure |-> rate.figure, other |-> rate.other,
                  divergence |-> StoredDivergence(rate),
                  scoredAgainst |-> rate.figure.source]
    /\ stage' = "stored"
    /\ UNCHANGED <<answers, rate, diagnosis, replayed>>

(* A secondary in the record: two providers answered. *)
CrossCheckStored(r) == r.other # NoFigure
StoredBeyond(r, pct) == r.divergence > 10000 * pct

StoredBand(r) ==
    CASE StoredBeyond(r, DivergenceMalfunction) -> "MALFUNCTION"
      [] ~StoredBeyond(r, DivergenceAgree) -> "AGREE"
      [] OTHER -> "DISAGREE"

(* Mutant of ReplayedAgreement: staleness is judged first. *)
StaleFirst(r) ==
    CASE ~CrossCheckStored(r) -> "SINGLE"
      [] CrossCheckStored(r) /\ StaleApart(r.figure, r.other) -> "STALE"
      [] OTHER -> StoredBand(r)

(* staleAgreement: the bands of reconcile over what the record kept. *)
ReplayedAgreement(r) ==
    CASE ~CrossCheckStored(r) -> "SINGLE"
      [] CrossCheckStored(r) /\ r.divergence = -1 -> "UNKNOWN"
      [] /\ CrossCheckStored(r)
         /\ StoredBand(r) # "MALFUNCTION"
         /\ r.divergence # -1
         /\ StaleApart(r.figure, r.other) -> "STALE"
      [] OTHER -> StoredBand(r)

ReplayedScored(r) == r.scoredAgainst \in Sources

ReplayRecord ==
    /\ stage = "stored"
    /\ replayed' = [agreement |-> ReplayedAgreement(record), scored |-> ReplayedScored(record)]
    /\ stage' = "replayed"
    /\ UNCHANGED <<answers, rate, diagnosis, record>>

RateNext ==
    \/ AskPrimary
    \/ AskSecondary
    \/ NeitherAnswers
    \/ Diagnose
    \/ Cancel
    \/ Store
    \/ ReplayRecord

RateSpec == RateInit /\ [][RateNext]_rateVars

-----------------------------------------------------------------------------
BothAnswered == \A s \in Sources : answers[s].ok

(* A rate's mid, source and as-of moment are one provider's answer, and    *)
(* its cross-check fields are the other's: reconcile never pairs a mid     *)
(* with the wrong source (cross.go:440-453).                               *)
SaidBy(f) ==
    LET said == answers[f.source].figure
    IN  answers[f.source].ok /\ f.mid = said.mid /\ f.asOf = said.asOf
FiguresStayTogether ==
    rate # Nothing =>
       /\ SaidBy(rate.figure)
       /\ rate.other # NoFigure => SaidBy(rate.other) /\ rate.other.source # rate.figure.source
       /\ rate.other = NoFigure <=> ~BothAnswered

(* Which provider is configured as the primary decides nothing but which   *)
(* of two agreeing mids is used (cross.go:411, "so the figure does not     *)
(* depend on which provider happens to be primary").                       *)
OrderIsImmaterial ==
    rate # Nothing /\ BothAnswered =>
       LET swapped == Reconciled(answers["secondary"].figure, answers["primary"].figure)
       IN  /\ swapped.agreement = rate.agreement
           /\ rate.agreement \in {"DISAGREE", "STALE"} =>
                 swapped.figure.mid = rate.figure.mid

(* A disagreement is scored against the mid under which a corridor loses   *)
(* more: whatever a route achieves, the other mid would not grade it worse *)
(* (cross.go:185-191).                                                     *)
NeverFlatters ==
    rate # Nothing /\ rate.agreement = "DISAGREE" =>
       \A achieved \in Mids, pct \in {3, 8, 20} :
          LossWithin(rate.figure.mid, achieved, pct) =>
             LossWithin(rate.other.mid, achieved, pct)

(* A replayed document names the agreement band the live one did, except   *)
(* when the mids were equal or the stored divergence rounds to a threshold *)
(* (api.go:954-969), and is scored whenever the live one was               *)
(* (convert.go:27-32, api.go:943-952).                                     *)
ReplayKeepsTheBand ==
    replayed # Nothing =>
       /\ Live.scored => replayed.scored
       /\ \/ replayed.agreement = Live.agreement
          \/ rate.figure.mid = rate.other.mid
          \/ record.divergence \in {10000 * DivergenceAgree, 10000 * DivergenceMalfunction}
=============================================================================
