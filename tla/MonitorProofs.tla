---------------------------- MODULE MonitorProofs ---------------------------
(***************************************************************************)
(* What Monitor promises for any number of corridors and sweeps, any sets  *)
(* of dependencies and any number of faults, proved.                       *)
(***************************************************************************)
EXTENDS Monitor, TLAPS

Measuring == {"ladder", "save", "append", "report"}

TypeOK ==
    /\ pc \in Steps \cup {"waiting", "stopped", "down"}
    /\ at \in Nat
    /\ pc \in Measuring => at \in Corridors
    /\ pc = "next" => at >= 1
    /\ ctx \in {"live", "ended"}
    /\ capture \in BOOLEAN
    /\ reading \in Reading
    /\ runs \in [Corridors -> Seq(Run)]
    /\ log \in [Corridors -> Seq(Line)]
    /\ artifacts \subseteq Nat
    /\ measures \in Nat

(* A line about a change is about neighbours that differ, and about none   *)
(* that is still to be compared.                                           *)
LinesOK ==
    \A c \in Corridors : \A i \in 1..Len(log[c]) :
       log[c][i].what = "transition" =>
          LET from == log[c][i].from
              to == log[c][i].to
          IN  /\ to = from + 1
              /\ from \in 1..Len(runs[c])
              /\ to \in 1..Len(runs[c])
              /\ Differ(runs[c][from].structure, runs[c][to].structure)
              /\ pc = "report" /\ at = c => to < Len(runs[c])

OnceOK ==
    \A c \in Corridors : \A i, j \in 1..Len(log[c]) :
       /\ log[c][i].what = "transition"
       /\ log[c][j].what = "transition"
       /\ log[c][i].to = log[c][j].to
       => i = j

(* Every change is spoken of, excused, or about to be looked for.          *)
SpokenOK ==
    \A c \in Corridors : \A n \in 2..Len(runs[c]) :
       Differ(runs[c][n-1].structure, runs[c][n].structure) =>
          \/ \E i \in 1..Len(log[c]) : log[c][i].to = n
          \/ <<c, n>> \in unchecked
          \/ pc = "report" /\ at = c /\ n = Len(runs[c])

(* The measurement under way has a number no record has.                   *)
ReadingOK ==
    /\ pc \in {"save", "append"} => reading.id = measures
    /\ reading.complete => reading.structure # Unknown
    /\ pc = "append" /\ capture => reading.id \in artifacts /\ reading.structure # Unknown

EvidenceOK ==
    capture =>
       \A c \in Corridors : \A n \in 1..Len(runs[c]) :
          /\ runs[c][n].evidence \in artifacts
          /\ runs[c][n].structure # Unknown
          /\ runs[c][n].evidence <= measures
          /\ pc \in {"ladder", "save", "append"} => runs[c][n].evidence < measures

DistinctOK ==
    capture =>
       \A c, d \in Corridors : \A n \in 1..Len(runs[c]), k \in 1..Len(runs[d]) :
          runs[c][n].evidence = runs[d][k].evidence => c = d /\ n = k

IInv == TypeOK /\ LinesOK /\ OnceOK /\ SpokenOK /\ ReadingOK /\ EvidenceOK /\ DistinctOK

-----------------------------------------------------------------------------
(* What a step does to the stored runs and to the log. *)

Quiet ==
    /\ runs' = runs
    /\ log' = log
    /\ unchecked \subseteq unchecked'
    /\ pc' = "report" => pc = "report" /\ at' = at
    /\ pc = "report" => \/ pc' = "report" /\ at' = at
                        \/ <<at, Len(runs[at])>> \in unchecked'

(* A record of the measurement under way is the corridor's last. *)
Grows ==
    /\ pc = "append"
    /\ at \in Corridors
    /\ runs' = Recorded(at)
    /\ unchecked' = unchecked

(* The log of the corridor gains one line. *)
Tells(line) ==
    /\ at \in Corridors
    /\ line \in Line
    /\ log' = [log EXCEPT ![at] = Append(@, line)]
    /\ unchecked' = unchecked
    /\ pc' = "next"

Told ==
    /\ pc = "report"
    /\ runs' = runs
    /\ \E line \in Line :
          /\ Tells(line)
          /\ line.what # "transition"
          /\ line.to = Len(runs[at])

Alarmed ==
    /\ pc = "report"
    /\ runs' = runs
    /\ \E line \in Line :
          /\ Tells(line)
          /\ line.what = "transition"
          /\ line.from = Len(runs[at]) - 1
          /\ line.to = Len(runs[at])
          /\ Len(runs[at]) >= 2
          /\ Differ(runs[at][Len(runs[at]) - 1].structure, runs[at][Len(runs[at])].structure)

(* Compared, and the same. *)
Unchanged ==
    /\ pc = "report"
    /\ pc' = "next"
    /\ at \in Corridors
    /\ runs' = runs
    /\ log' = log
    /\ unchecked' = unchecked
    /\ Len(runs[at]) >= 2 =>
          ~Differ(runs[at][Len(runs[at]) - 1].structure, runs[at][Len(runs[at])].structure)

Acknowledged == Grows /\ log' = log /\ pc' = "report" /\ at' = at

Unacknowledged ==
    /\ Grows
    /\ \E line \in Line :
          /\ Tells(line)
          /\ line.what # "transition"
          /\ line.to = Len(runs[at]) + 1

(* Concatenating nothing, and one element. *)
LEMMA ConcatEmpty == ASSUME NEW S, NEW s \in Seq(S) PROVE s \o <<>> = s
OBVIOUS

(* Concatenating one element is Append. *)
LEMMA ConcatOne ==
    ASSUME NEW S, NEW s \in Seq(S), NEW x \in S PROVE s \o <<x>> = Append(s, x)
OBVIOUS

(* A line about two numbers is a line of the log. *)
LEMMA LineTyped ==
    ASSUME NEW w \in {"transition", "check failed", "not recorded"}, NEW f \in Nat, NEW t \in Nat
    PROVE  [what |-> w, from |-> f, to |-> t] \in Line
BY DEF Line

(* Whoever measures stands at a corridor, with a history and a log. *)
LEMMA Placed ==
    ASSUME TypeOK, pc \in Measuring
    PROVE  at \in Corridors /\ Len(runs[at]) \in Nat /\ runs[at] \in Seq(Run) /\ log[at] \in Seq(Line)
<1>1. at \in Corridors /\ runs \in [Corridors -> Seq(Run)] /\ log \in [Corridors -> Seq(Line)]
  BY DEF TypeOK
<1> QED
  BY <1>1

(* Every step is of one of these kinds; the invariants need no more of it. *)
LEMMA StepKinds ==
    ASSUME TypeOK, [Next]_vars
    PROVE  Quiet \/ Acknowledged \/ Unacknowledged \/ Told \/ Alarmed \/ Unchanged
<1>1. CASE UNCHANGED vars
  BY <1>1 DEF vars, Quiet
<1>2. CASE BeginMeasure \/ EndSweep \/ Timer \/ Stop \/ EndContext \/ Restart
  BY <1>2 DEF BeginMeasure, EndSweep, AfterSweep, Timer, Stop, EndContext, Restart, Quiet
<1>3. CASE LadderFails \/ LadderReturns \/ SaveArtifact \/ NoEvidence
  BY <1>3 DEF LadderFails, LadderReturns, SaveArtifact, NoEvidence, Leave, Quiet
<1>4. CASE Kill
  BY <1>4 DEF Kill, Quiet
<1>5. CASE AppendSucceeds
  BY <1>5, Placed DEF AppendSucceeds, Acknowledged, Grows, Measuring
<1>6. CASE AppendUnacknowledged
  <2> DEFINE line == [what |-> "not recorded", from |-> 0, to |-> Len(runs[at]) + 1]
  <2>0. pc = "append"
    BY <1>6 DEF AppendUnacknowledged
  <2>a. at \in Corridors /\ Len(runs[at]) \in Nat
    BY <2>0, Placed DEF Measuring
  <2>b. Len(runs[at]) + 1 \in Nat /\ 0 \in Nat
    BY <2>a
  <2>1. at \in Corridors /\ line \in Line
    BY <2>a, <2>b, LineTyped
  <2>2. log' = [log EXCEPT ![at] = Append(@, line)]
    BY <1>6, <2>0, <2>1, ConcatOne, Placed DEF AppendUnacknowledged, Says, Measuring
  <2>3. pc = "append" /\ runs' = Recorded(at) /\ unchecked' = unchecked /\ pc' = "next"
    BY <1>6 DEF AppendUnacknowledged, Leave
  <2>4. Tells(line) /\ Grows
    BY <2>1, <2>2, <2>3 DEF Tells, Grows
  <2> QED
    BY <2>1, <2>4 DEF Unacknowledged
<1>7. CASE AppendRefused
  <2>1. pc = "append" /\ log' = [log EXCEPT ![at] = @ \o <<>>]
    BY <1>7 DEF AppendRefused, Says, RefusedLines
  <2>2. log' = log
    BY <2>1, ConcatEmpty, Placed DEF TypeOK, Measuring
  <2> QED
    BY <1>7, <2>2 DEF AppendRefused, Leave, Quiet
<1>8. CASE Report
  <2> DEFINE n == Len(runs[at])
             line == [what |-> "transition", from |-> n - 1, to |-> n]
             changed == n >= 2 /\ Differ(runs[at][n-1].structure, runs[at][n].structure)
  <2>1. /\ at \in Corridors
        /\ pc = "report" /\ pc' = "next" /\ runs' = runs /\ unchecked' = unchecked
        /\ Says(at, LatestTransition(at))
    BY <1>8, Placed DEF Report, Leave, Measuring
  <2>2. CASE changed
    <3>0. n \in Nat /\ n - 1 \in Nat
      BY <2>1, <2>2, Placed DEF Measuring
    <3>1. line \in Line
      BY <3>0, LineTyped
    <3>2. LatestTransition(at) = <<line>>
      BY <2>2 DEF LatestTransition
    <3>3. log' = [log EXCEPT ![at] = Append(@, line)]
      BY <2>1, <3>1, <3>2, ConcatOne, Placed DEF Says, Measuring
    <3>4. Tells(line)
      BY <2>1, <3>1, <3>3 DEF Tells
    <3>5. /\ line.what = "transition"
          /\ line.from = n - 1
          /\ line.to = n
      OBVIOUS
    <3> QED
      BY <2>1, <2>2, <3>1, <3>4, <3>5 DEF Alarmed
  <2>3. CASE ~changed
    <3>1. LatestTransition(at) = <<>>
      BY <2>3 DEF LatestTransition
    <3>2. log' = log
      BY <2>1, <3>1, ConcatEmpty, Placed DEF Says, Measuring, TypeOK
    <3> QED
      BY <2>1, <2>3, <3>2 DEF Unchanged
  <2> QED
    BY <2>2, <2>3
<1>9. CASE ReportFails
  <2> DEFINE line == [what |-> "check failed", from |-> 0, to |-> Len(runs[at])]
  <2>1. /\ at \in Corridors
        /\ pc = "report" /\ pc' = "next" /\ runs' = runs /\ unchecked' = unchecked
        /\ Says(at, <<line>>)
    BY <1>9, Placed DEF ReportFails, Leave, Measuring
  <2>2. line \in Line
    BY <2>1, Placed, LineTyped DEF Measuring
  <2>3. Tells(line)
    BY <2>1, <2>2, ConcatOne, Placed DEF Tells, Says, Measuring
  <2> QED
    BY <2>1, <2>2, <2>3 DEF Told
<1> QED
  BY <1>1, <1>2, <1>3, <1>4, <1>5, <1>6, <1>7, <1>8, <1>9 DEF Next, Work

-----------------------------------------------------------------------------
(* The reading before the first is well-typed. *)
LEMMA NoReadingTyped == NoReading \in Reading
BY PlainAssumption DEF NoReading, Reading, Unknown, Structures

(* The first start is well-typed. *)
LEMMA TypeInit == Init => TypeOK
<1> SUFFICES ASSUME Init PROVE TypeOK
  OBVIOUS
<1>1. runs \in [Corridors -> Seq(Run)] /\ log \in [Corridors -> Seq(Line)]
  <2>1. <<>> \in Seq(Run) /\ <<>> \in Seq(Line)
    OBVIOUS
  <2> QED
    BY <2>1 DEF Init
<1>2. reading \in Reading
  BY NoReadingTyped DEF Init
<1> QED
  BY <1>1, <1>2 DEF Init, TypeOK, Measuring, Steps

(* A record of the reading under way is one of a history. *)
LEMMA RecordTyped == ASSUME TypeOK, at \in Corridors PROVE Recorded(at) \in [Corridors -> Seq(Run)]
<1>1. [structure |-> reading.structure, evidence |-> IF capture THEN reading.id ELSE 0] \in Run
  BY DEF TypeOK, Reading, Run
<1> QED
  BY <1>1 DEF Recorded, TypeOK

(* No step breaks the types. *)
LEMMA TypeNext == TypeOK /\ [Next]_vars => TypeOK'
<1> SUFFICES ASSUME TypeOK, [Next]_vars PROVE TypeOK'
  OBVIOUS
<1>1. log' \in [Corridors -> Seq(Line)]
  <2>1. ASSUME NEW line, Tells(line) PROVE log' \in [Corridors -> Seq(Line)]
    <3>1. Append(log[at], line) \in Seq(Line)
      BY <2>1 DEF TypeOK, Tells
    <3> QED
      BY <2>1, <3>1 DEF TypeOK, Tells
  <2> QED
    BY <2>1, StepKinds DEF TypeOK, Quiet, Acknowledged, Unacknowledged, Told, Alarmed, Unchanged
<1>2. runs' \in [Corridors -> Seq(Run)]
  BY StepKinds, RecordTyped DEF TypeOK, Quiet, Acknowledged, Unacknowledged, Told, Alarmed,
     Unchanged, Grows
<1> DEFINE Rest == /\ pc' \in Steps \cup {"waiting", "stopped", "down"}
                   /\ at' \in Nat
                   /\ pc' \in Measuring => at' \in Corridors
                   /\ pc' = "next" => at' >= 1
                   /\ ctx' \in {"live", "ended"}
                   /\ capture' \in BOOLEAN
                   /\ reading' \in Reading
                   /\ artifacts' \subseteq Nat
                   /\ measures' \in Nat
<1>3. Rest
  <2> USE NoReadingTyped DEF TypeOK, Steps, Measuring
  <2>1. CASE UNCHANGED vars
    BY <2>1 DEF vars
  <2>2. CASE BeginMeasure
    BY <2>2, CorridorsAssumption DEF BeginMeasure, Corridors
  <2>3. CASE EndSweep \/ Timer \/ Stop \/ Restart
    BY <2>3 DEF EndSweep, AfterSweep, Timer, Stop, Restart
  <2>4. CASE EndContext \/ Kill
    BY <2>4 DEF EndContext, Kill
  <2>0. ASSUME NEW failed, Leave(failed), artifacts' = artifacts, measures' = measures
        PROVE  Rest
    BY <2>0 DEF Leave
  <2>5. CASE LadderFails
    BY <2>0, <2>5 DEF LadderFails
  <2>6. CASE LadderReturns
    BY <2>6 DEF LadderReturns, Reading
  <2>7. CASE SaveArtifact
    BY <2>7 DEF SaveArtifact, Reading
  <2>8. CASE NoEvidence
    BY <2>0, <2>8 DEF NoEvidence
  <2>9. CASE AppendSucceeds
    BY <2>9 DEF AppendSucceeds
  <2>10. CASE AppendUnacknowledged
    BY <2>0, <2>10 DEF AppendUnacknowledged
  <2>11. CASE AppendRefused
    BY <2>0, <2>11 DEF AppendRefused
  <2>12. CASE Report
    BY <2>0, <2>12 DEF Report
  <2>13. CASE ReportFails
    BY <2>0, <2>13 DEF ReportFails
  <2> QED
    BY <2>1, <2>2, <2>3, <2>4, <2>5, <2>6, <2>7, <2>8, <2>9, <2>10, <2>11, <2>12, <2>13
       DEF Next, Work
<1> QED
  BY <1>1, <1>2, <1>3 DEF TypeOK

-----------------------------------------------------------------------------
(* The sequences after a step, by index. *)

(* A history after an append. *)
LEMMA GrownRuns ==
    ASSUME TypeOK, Grows
    PROVE  /\ Len(runs'[at]) = Len(runs[at]) + 1
           /\ runs'[at][Len(runs[at]) + 1] =
                 [structure |-> reading.structure, evidence |-> IF capture THEN reading.id ELSE 0]
           /\ \A i \in 1..Len(runs[at]) : runs'[at][i] = runs[at][i]
           /\ \A c \in Corridors : c # at => runs'[c] = runs[c]
<1> DEFINE rec == [structure |-> reading.structure, evidence |-> IF capture THEN reading.id ELSE 0]
<1>1. runs[at] \in Seq(Run) /\ rec \in Run
  BY DEF TypeOK, Grows, Reading, Run
<1>2. runs' = [runs EXCEPT ![at] = Append(@, rec)]
  BY DEF Grows, Recorded
<1>3. runs'[at] = Append(runs[at], rec) /\ \A c \in Corridors : c # at => runs'[c] = runs[c]
  BY <1>2 DEF TypeOK, Grows
<1> QED
  BY <1>1, <1>3

(* A log after a line. *)
LEMMA GrownLog ==
    ASSUME TypeOK, NEW line, Tells(line)
    PROVE  /\ Len(log'[at]) = Len(log[at]) + 1
           /\ log'[at][Len(log[at]) + 1] = line
           /\ \A i \in 1..Len(log[at]) : log'[at][i] = log[at][i]
           /\ \A c \in Corridors : c # at => log'[c] = log[c]
<1>1. log[at] \in Seq(Line) /\ line \in Line
  BY DEF TypeOK, Tells
<1>2. log'[at] = Append(log[at], line) /\ \A c \in Corridors : c # at => log'[c] = log[c]
  BY DEF TypeOK, Tells
<1> QED
  BY <1>1, <1>2

(* Lengths are numbers. *)
LEMMA Lengths ==
    ASSUME TypeOK, NEW c \in Corridors
    PROVE  Len(runs[c]) \in Nat /\ Len(log[c]) \in Nat /\ \A i \in 1..Len(log[c]) : log[c][i] \in Line
BY DEF TypeOK

(* A line that spoke of neighbours still does after a record was added.    *)
LEMMA LineKept ==
    ASSUME TypeOK, Grows, LinesOK, NEW c \in Corridors, NEW i \in 1..Len(log[c]),
           log[c][i].what = "transition"
    PROVE  /\ log[c][i].to = log[c][i].from + 1
           /\ log[c][i].from \in 1..Len(runs'[c])
           /\ log[c][i].to \in 1..Len(runs[c])
           /\ log[c][i].to \in 1..Len(runs'[c])
           /\ c = at => log[c][i].to < Len(runs'[c])
           /\ Differ(runs'[c][log[c][i].from].structure, runs'[c][log[c][i].to].structure)
<1>1. Len(runs[c]) \in Nat /\ log[c][i].from \in Nat /\ log[c][i].to \in Nat
  BY Lengths DEF Line
<1>2. /\ log[c][i].to = log[c][i].from + 1
      /\ log[c][i].from \in 1..Len(runs[c])
      /\ log[c][i].to \in 1..Len(runs[c])
      /\ Differ(runs[c][log[c][i].from].structure, runs[c][log[c][i].to].structure)
  BY DEF LinesOK
<1>3. CASE c = at
  <2>1. /\ runs'[c][log[c][i].from] = runs[c][log[c][i].from]
        /\ runs'[c][log[c][i].to] = runs[c][log[c][i].to]
        /\ Len(runs'[c]) = Len(runs[c]) + 1
    BY <1>2, <1>3, GrownRuns
  <2> QED
    BY <1>1, <1>2, <2>1
<1>4. CASE c # at
  BY <1>2, <1>4, GrownRuns
<1> QED
  BY <1>3, <1>4

(* A line about a change goes on being about one. *)
LEMMA LinesNext ==
    ASSUME TypeOK, LinesOK, [Next]_vars
    PROVE  LinesOK'
<1> SUFFICES ASSUME NEW c \in Corridors, NEW i \in 1..Len(log'[c]), log'[c][i].what = "transition"
             PROVE  /\ log'[c][i].to = log'[c][i].from + 1
                    /\ log'[c][i].from \in 1..Len(runs'[c])
                    /\ log'[c][i].to \in 1..Len(runs'[c])
                    /\ Differ(runs'[c][log'[c][i].from].structure, runs'[c][log'[c][i].to].structure)
                    /\ pc' = "report" /\ at' = c => log'[c][i].to < Len(runs'[c])
  BY DEF LinesOK, Differ
<1>0. Len(log[c]) \in Nat /\ Len(runs[c]) \in Nat
  BY Lengths
<1>1. CASE Quiet
  BY <1>1 DEF Quiet, LinesOK
<1>2. CASE Acknowledged
  <2>1. Grows /\ log' = log /\ at' = at
    BY <1>2 DEF Acknowledged
  <2> QED
    BY <2>1, LineKept
<1>3. CASE Unacknowledged
  <2>1. PICK line \in Line : Tells(line) /\ line.what # "transition"
    BY <1>3 DEF Unacknowledged
  <2>2. Grows /\ pc' = "next"
    BY <1>3, <2>1 DEF Unacknowledged, Tells
  <2>3. i \in 1..Len(log[c]) /\ log'[c][i] = log[c][i]
    <3>1. CASE c = at
      BY <1>0, <2>1, <3>1, GrownLog
    <3>2. CASE c # at
      BY <2>1, <3>2, GrownLog
    <3> QED
      BY <3>1, <3>2
  <2> QED
    BY <2>2, <2>3, LineKept
<1>4. CASE Told
  <2>1. PICK line \in Line : Tells(line) /\ line.what # "transition"
    BY <1>4 DEF Told
  <2>2. runs' = runs /\ pc' = "next"
    BY <1>4, <2>1 DEF Told, Tells
  <2>3. i \in 1..Len(log[c]) /\ log'[c][i] = log[c][i]
    <3>1. CASE c = at
      BY <1>0, <2>1, <3>1, GrownLog
    <3>2. CASE c # at
      BY <2>1, <3>2, GrownLog
    <3> QED
      BY <3>1, <3>2
  <2> QED
    BY <2>2, <2>3 DEF LinesOK
<1>5. CASE Alarmed
  <2>1. PICK line \in Line :
           /\ Tells(line)
           /\ line.from = Len(runs[at]) - 1
           /\ line.to = Len(runs[at])
           /\ Len(runs[at]) >= 2
           /\ Differ(runs[at][Len(runs[at]) - 1].structure, runs[at][Len(runs[at])].structure)
    BY <1>5 DEF Alarmed
  <2>2. runs' = runs /\ pc' = "next"
    BY <1>5, <2>1 DEF Alarmed, Tells
  <2>3. CASE i \in 1..Len(log[c]) /\ log'[c][i] = log[c][i]
    BY <2>2, <2>3 DEF LinesOK
  <2>4. CASE c = at /\ log'[c][i] = line
    BY <1>0, <2>1, <2>2, <2>4
  <2>5. c = at \/ c # at
    OBVIOUS
  <2> QED
    BY <1>0, <2>1, <2>3, <2>4, <2>5, GrownLog
<1>6. CASE Unchanged
  BY <1>6 DEF Unchanged, LinesOK
<1> QED
  BY <1>1, <1>2, <1>3, <1>4, <1>5, <1>6, StepKinds

(* No step speaks of a change a second time. *)
LEMMA OnceNext ==
    ASSUME TypeOK, LinesOK, OnceOK, [Next]_vars
    PROVE  OnceOK'
<1>1. CASE log' = log
  BY <1>1 DEF OnceOK
<1>2. ASSUME NEW line \in Line, Tells(line),
             line.what = "transition" =>
                pc = "report" /\ line.to = Len(runs[at])
      PROVE  OnceOK'
  <2> DEFINE last == Len(log[at]) + 1
  <2>0. at \in Corridors /\ last \in Nat
    BY <1>2, Lengths DEF Tells
  <2> SUFFICES ASSUME NEW c \in Corridors, NEW i \in 1..Len(log'[c]), NEW j \in 1..Len(log'[c]),
                      log'[c][i].what = "transition", log'[c][j].what = "transition",
                      log'[c][i].to = log'[c][j].to
               PROVE  i = j
    BY DEF OnceOK
  <2>1. CASE c # at
    BY <1>2, <2>1, GrownLog DEF OnceOK
  <2>2. CASE c = at
    <3>1. \A k \in 1..Len(log'[c]) : k = last \/ (k \in 1..Len(log[c]) /\ log'[c][k] = log[c][k])
      BY <1>2, <2>0, <2>2, GrownLog
    <3>2. log'[c][last] = line
      BY <1>2, <2>2, GrownLog
    <3>3. ASSUME NEW k \in 1..Len(log[c]), log[c][k].what = "transition", pc = "report"
          PROVE  log[c][k].to # Len(runs[c])
      <4>1. log[c][k].to < Len(runs[c])
        BY <2>2, <3>3 DEF LinesOK
      <4>2. log[c][k].to \in Nat /\ Len(runs[c]) \in Nat
        BY <3>3, Lengths DEF Line
      <4> QED
        BY <4>1, <4>2
    <3>4. CASE i = last /\ j = last
      BY <3>4
    <3>5. CASE i = last /\ j # last
      BY <1>2, <2>2, <3>1, <3>2, <3>3, <3>5
    <3>6. CASE i # last /\ j = last
      BY <1>2, <2>2, <3>1, <3>2, <3>3, <3>6
    <3>7. CASE i # last /\ j # last
      BY <3>1, <3>7 DEF OnceOK
    <3> QED
      BY <3>4, <3>5, <3>6, <3>7
  <2> QED
    BY <2>1, <2>2
<1> QED
  BY <1>1, <1>2, StepKinds DEF Quiet, Acknowledged, Unacknowledged, Told, Alarmed, Unchanged

(* No step leaves a change unspoken of and unexcused. *)
LEMMA SpokenNext ==
    ASSUME TypeOK, SpokenOK, [Next]_vars
    PROVE  SpokenOK'
<1> SUFFICES ASSUME NEW c \in Corridors, NEW n \in 2..Len(runs'[c]),
                    Differ(runs'[c][n-1].structure, runs'[c][n].structure)
             PROVE  \/ \E i \in 1..Len(log'[c]) : log'[c][i].to = n
                    \/ <<c, n>> \in unchecked'
                    \/ pc' = "report" /\ at' = c /\ n = Len(runs'[c])
  BY DEF SpokenOK, Differ
<1> DEFINE Spoken == \/ \E i \in 1..Len(log[c]) : log[c][i].to = n
                     \/ <<c, n>> \in unchecked
                     \/ pc = "report" /\ at = c /\ n = Len(runs[c])
<1>0. Len(log[c]) \in Nat /\ Len(runs[c]) \in Nat
  BY Lengths
<1>1. ASSUME runs' = runs PROVE Spoken
  BY <1>1 DEF SpokenOK
<1>2. ASSUME Grows PROVE (c = at /\ n = Len(runs[c]) + 1) \/ Spoken
  <2>1. CASE c # at
    BY <1>2, <2>1, GrownRuns DEF SpokenOK
  <2>2. CASE c = at /\ n # Len(runs[c]) + 1
    <3>1. n \in 2..Len(runs[c]) /\ n - 1 \in 1..Len(runs[c]) /\ n \in 1..Len(runs[c])
      BY <1>0, <1>2, <2>2, GrownRuns
    <3>2. runs'[c][n-1] = runs[c][n-1] /\ runs'[c][n] = runs[c][n]
      BY <1>2, <2>2, <3>1, GrownRuns
    <3> QED
      BY <3>1, <3>2 DEF SpokenOK
  <2> QED
    BY <2>1, <2>2
<1>3. ASSUME NEW line \in Line, Tells(line)
      PROVE  /\ (\E i \in 1..Len(log[c]) : log[c][i].to = n) => \E i \in 1..Len(log'[c]) : log'[c][i].to = n
             /\ c = at => \E i \in 1..Len(log'[c]) : log'[c][i].to = line.to
  <2>1. CASE c # at
    BY <1>3, <2>1, GrownLog
  <2>2. CASE c = at
    <3>1. Len(log[c]) + 1 \in 1..Len(log'[c]) /\ \A i \in 1..Len(log[c]) : i \in 1..Len(log'[c])
      BY <1>0, <1>3, <2>2, GrownLog
    <3> QED
      BY <1>3, <2>2, <3>1, GrownLog
  <2> QED
    BY <2>1, <2>2
<1>4. CASE Quiet
  BY <1>1, <1>4 DEF Quiet
<1>5. CASE Acknowledged
  <2>1. Grows /\ pc = "append" /\ log' = log /\ unchecked' = unchecked /\ pc' = "report" /\ at' = at
    BY <1>5 DEF Acknowledged, Grows
  <2>2. CASE c = at /\ n = Len(runs[c]) + 1
    BY <2>1, <2>2, GrownRuns
  <2> QED
    BY <1>2, <2>1, <2>2
<1>6. CASE Unacknowledged
  <2>1. PICK line \in Line : Tells(line) /\ line.to = Len(runs[at]) + 1
    BY <1>6 DEF Unacknowledged
  <2>2. Grows /\ pc = "append" /\ unchecked' = unchecked
    BY <1>6 DEF Unacknowledged, Grows
  <2> QED
    BY <1>2, <1>3, <2>1, <2>2
<1>7. CASE Told \/ Alarmed
  <2>1. PICK line \in Line : Tells(line) /\ line.to = Len(runs[at])
    BY <1>7 DEF Told, Alarmed
  <2>2. runs' = runs /\ unchecked' = unchecked
    BY <1>7, <2>1 DEF Told, Alarmed, Tells
  <2> QED
    BY <1>1, <1>3, <2>1, <2>2
<1>8. CASE Unchanged
  <2>1. ~(at = c /\ n = Len(runs[c]))
    BY <1>0, <1>8 DEF Unchanged
  <2>2. log' = log /\ unchecked' = unchecked
    BY <1>8 DEF Unchanged
  <2>3. Spoken
    BY <1>1, <1>8 DEF Unchanged
  <2> QED
    BY <2>1, <2>2, <2>3
<1> QED
  BY <1>4, <1>5, <1>6, <1>7, <1>8, StepKinds

-----------------------------------------------------------------------------
(* What a step does to the evidence. *)

Numbered == {"ladder", "save", "append"}

Keeps ==
    /\ runs' = runs
    /\ capture' = capture
    /\ artifacts \subseteq artifacts'
    /\ \/ measures' = measures /\ (pc' \in Numbered => pc \in Numbered)
       \/ measures' = measures + 1

Enters ==
    /\ Grows
    /\ capture' = capture
    /\ artifacts' = artifacts
    /\ measures' = measures
    /\ pc' \notin Numbered

(* The same for what the evidence depends on. *)
LEMMA EvidenceKinds ==
    ASSUME TypeOK, [Next]_vars
    PROVE  Keeps \/ Enters
<1>1. CASE UNCHANGED vars
  BY <1>1 DEF vars, Keeps
<1>2. CASE BeginMeasure
  BY <1>2 DEF BeginMeasure, Keeps
<1>3. CASE EndSweep \/ Timer \/ Stop \/ EndContext \/ Kill \/ Restart
  BY <1>3 DEF EndSweep, AfterSweep, Timer, Stop, EndContext, Kill, Restart, Keeps, Numbered
<1>4. CASE LadderFails \/ NoEvidence \/ AppendRefused \/ Report \/ ReportFails
  BY <1>4 DEF LadderFails, NoEvidence, AppendRefused, Report, ReportFails, Leave, Keeps, Numbered
<1>5. CASE LadderReturns \/ SaveArtifact
  BY <1>5 DEF LadderReturns, SaveArtifact, Keeps, Numbered
<1>6. CASE AppendSucceeds
  BY <1>6, Placed DEF AppendSucceeds, Enters, Grows, Numbered, Measuring
<1>7. CASE AppendUnacknowledged
  <2>1. pc = "append" /\ Leave(FALSE) /\ runs' = Recorded(at)
        /\ artifacts' = artifacts /\ measures' = measures /\ unchecked' = unchecked
    BY <1>7 DEF AppendUnacknowledged
  <2> QED
    BY <2>1, Placed DEF Enters, Grows, Numbered, Measuring, Leave
<1> QED
  BY <1>1, <1>2, <1>3, <1>4, <1>5, <1>6, <1>7 DEF Next, Work

(* No step gives a measurement the number of another. *)
LEMMA ReadingNext ==
    ASSUME TypeOK, ReadingOK, [Next]_vars
    PROVE  ReadingOK'
<1> USE DEF ReadingOK
<1>1. CASE UNCHANGED vars
  BY <1>1 DEF vars
<1>2. CASE BeginMeasure
  BY <1>2 DEF BeginMeasure
<1>3. CASE EndSweep \/ Timer \/ Stop \/ EndContext \/ Kill
  BY <1>3 DEF EndSweep, AfterSweep, Timer, Stop, EndContext, Kill
<1>4. CASE Restart
  BY <1>4 DEF Restart, NoReading
<1>5. ASSUME NEW failed, Leave(failed) PROVE ReadingOK'
  BY <1>5 DEF Leave, NoReading
<1>6. CASE LadderReturns
  BY <1>6 DEF LadderReturns, TypeOK
<1>7. CASE SaveArtifact
  BY <1>7 DEF SaveArtifact, Recordable
<1>8. CASE AppendSucceeds
  BY <1>8 DEF AppendSucceeds
<1>9. CASE LadderFails \/ NoEvidence \/ AppendRefused \/ AppendUnacknowledged \/ Report \/ ReportFails
  <2>1. Leave(TRUE) \/ Leave(FALSE)
    BY <1>9 DEF LadderFails, NoEvidence, AppendRefused, AppendUnacknowledged, Report, ReportFails
  <2> QED
    BY <1>5, <2>1
<1> QED
  BY <1>1, <1>2, <1>3, <1>4, <1>6, <1>7, <1>8, <1>9 DEF Next, Work

(* No step stores a record before its evidence. *)
LEMMA EvidenceNext ==
    ASSUME TypeOK, ReadingOK, EvidenceOK, [Next]_vars
    PROVE  EvidenceOK'
<1> SUFFICES ASSUME capture', NEW c \in Corridors, NEW n \in 1..Len(runs'[c])
             PROVE  /\ runs'[c][n].evidence \in artifacts'
                    /\ runs'[c][n].structure # Unknown
                    /\ runs'[c][n].evidence <= measures'
                    /\ pc' \in Numbered => runs'[c][n].evidence < measures'
  BY DEF EvidenceOK, Numbered, Unknown
<1>0. Len(runs[c]) \in Nat
  BY Lengths
<1>1. ASSUME capture, n \in 1..Len(runs[c])
      PROVE  /\ runs[c][n].evidence \in artifacts
             /\ runs[c][n].evidence \in Nat
             /\ runs[c][n].structure # Unknown
             /\ runs[c][n].evidence <= measures
             /\ pc \in Numbered => runs[c][n].evidence < measures
  BY <1>1 DEF EvidenceOK, Numbered, TypeOK
<1>2. CASE Keeps
  BY <1>1, <1>2 DEF Keeps, TypeOK
<1>3. CASE Enters
  <2>1. Grows /\ capture /\ artifacts' = artifacts /\ measures' = measures /\ pc' \notin Numbered
    BY <1>3 DEF Enters
  <2>2. CASE c = at /\ n = Len(runs[c]) + 1
    <3>1. runs'[c][n] = [structure |-> reading.structure, evidence |-> reading.id]
      BY <2>1, <2>2, GrownRuns
    <3>2. reading.id \in artifacts /\ reading.structure # Unknown /\ reading.id = measures
      BY <2>1 DEF ReadingOK, Grows
    <3>3. runs'[c][n].evidence = reading.id /\ runs'[c][n].structure = reading.structure
      BY <3>1
    <3> QED
      BY <2>1, <3>2, <3>3 DEF TypeOK
  <2>3. CASE ~(c = at /\ n = Len(runs[c]) + 1)
    <3>1. n \in 1..Len(runs[c]) /\ runs'[c][n] = runs[c][n]
      BY <1>0, <2>1, <2>3, GrownRuns
    <3> QED
      BY <1>1, <2>1, <3>1
  <2> QED
    BY <2>2, <2>3
<1> QED
  BY <1>2, <1>3, EvidenceKinds

(* No step stores two records with one evidence. *)
LEMMA DistinctNext ==
    ASSUME TypeOK, ReadingOK, EvidenceOK, DistinctOK, [Next]_vars
    PROVE  DistinctOK'
<1>1. CASE Keeps
  BY <1>1 DEF Keeps, DistinctOK
<1>2. CASE Enters
  <2> SUFFICES ASSUME capture', NEW c \in Corridors, NEW d \in Corridors,
                      NEW n \in 1..Len(runs'[c]), NEW k \in 1..Len(runs'[d]),
                      runs'[c][n].evidence = runs'[d][k].evidence
               PROVE  c = d /\ n = k
    BY DEF DistinctOK
  <2>0. Grows /\ capture /\ pc = "append" /\ reading.id = measures /\ measures \in Nat
    BY <1>2 DEF Enters, Grows, ReadingOK, TypeOK
  <2> DEFINE New(x, i) == x = at /\ i = Len(runs[x]) + 1
  <2>1. ASSUME NEW x \in Corridors, NEW i \in 1..Len(runs'[x]), New(x, i)
        PROVE  runs'[x][i].evidence = measures
    <3>1. runs'[x][i] = [structure |-> reading.structure, evidence |-> reading.id]
      BY <2>0, <2>1, GrownRuns
    <3> QED
      BY <2>0, <3>1
  <2>2. ASSUME NEW x \in Corridors, NEW i \in 1..Len(runs'[x]), ~New(x, i)
        PROVE  i \in 1..Len(runs[x]) /\ runs'[x][i] = runs[x][i] /\ runs[x][i].evidence # measures
    <3>1. Len(runs[x]) \in Nat
      BY Lengths
    <3>2. i \in 1..Len(runs[x]) /\ runs'[x][i] = runs[x][i]
      BY <2>0, <2>2, <3>1, GrownRuns
    <3>3. runs[x][i].evidence < measures /\ runs[x][i].evidence \in artifacts
      BY <2>0, <3>2 DEF EvidenceOK
    <3>4. runs[x][i].evidence \in Nat
      BY <3>3 DEF TypeOK
    <3> QED
      BY <2>0, <3>2, <3>3, <3>4
  <2>3. CASE New(c, n) /\ New(d, k)
    BY <2>3
  <2>4. CASE New(c, n) /\ ~New(d, k)
    BY <2>1, <2>2, <2>4
  <2>5. CASE ~New(c, n) /\ New(d, k)
    BY <2>1, <2>2, <2>5
  <2>6. CASE ~New(c, n) /\ ~New(d, k)
    <3>1. n \in 1..Len(runs[c]) /\ runs'[c][n] = runs[c][n]
      BY <2>2, <2>6
    <3>2. k \in 1..Len(runs[d]) /\ runs'[d][k] = runs[d][k]
      BY <2>2, <2>6
    <3>3. runs[c][n].evidence = runs[d][k].evidence
      BY <3>1, <3>2
    <3> QED
      BY <2>0, <3>1, <3>2, <3>3 DEF DistinctOK
  <2> QED
    BY <2>3, <2>4, <2>5, <2>6
<1> QED
  BY <1>1, <1>2, EvidenceKinds

-----------------------------------------------------------------------------
(* The invariant holds in every reachable state of the scheduler: what is   *)
(* said about changes follows the stored history (monitor.go:266-420).     *)
THEOREM Inductive == Spec => []IInv
<1>1. Init => IInv
  <2> SUFFICES ASSUME Init PROVE IInv
    OBVIOUS
  <2>1. TypeOK
    BY TypeInit
  <2>2. \A c \in Corridors : Len(runs[c]) = 0 /\ Len(log[c]) = 0
    BY DEF Init
  <2>3. LinesOK /\ OnceOK /\ SpokenOK /\ EvidenceOK /\ DistinctOK
    BY <2>2 DEF LinesOK, OnceOK, SpokenOK, EvidenceOK, DistinctOK
  <2>4. ReadingOK
    BY DEF Init, ReadingOK, NoReading
  <2> QED
    BY <2>1, <2>3, <2>4 DEF IInv
<1>2. IInv /\ [Next]_vars => IInv'
  BY TypeNext, LinesNext, OnceNext, SpokenNext, ReadingNext, EvidenceNext, DistinctNext DEF IInv
<1> QED
  BY <1>1, <1>2, PTL DEF Spec

(* Every reachable state of the scheduler is well-typed (monitor.go).      *)
THEOREM TypeCorrect == Spec => []TypeOK
<1>1. IInv => TypeOK
  BY DEF IInv
<1> QED
  BY <1>1, Inductive, PTL

(* No alarm is about an outage, about runs that are not neighbours, or     *)
(* about a structure that did not change (transition.go:98-105).           *)
THEOREM AlarmsAreReal == Spec => []AlarmIsReal
<1>1. IInv => AlarmIsReal
  <2> SUFFICES ASSUME IInv, NEW c \in Corridors, NEW i \in Transitions(c)
               PROVE  LET from == log[c][i].from
                          to == log[c][i].to
                      IN  /\ to = from + 1
                          /\ to \in DOMAIN runs[c]
                          /\ Unknown \notin {runs[c][from].structure, runs[c][to].structure}
                          /\ runs[c][from].structure # runs[c][to].structure
    BY DEF AlarmIsReal
  <2>0. DOMAIN log[c] = 1..Len(log[c]) /\ DOMAIN runs[c] = 1..Len(runs[c])
    BY DEF IInv, TypeOK
  <2>1. i \in 1..Len(log[c]) /\ log[c][i].what = "transition"
    BY <2>0 DEF Transitions
  <2>2. /\ log[c][i].to = log[c][i].from + 1
        /\ log[c][i].to \in 1..Len(runs[c])
        /\ Differ(runs[c][log[c][i].from].structure, runs[c][log[c][i].to].structure)
    BY <2>1 DEF IInv, LinesOK
  <2> QED
    BY <2>0, <2>2 DEF Differ, Unknown
<1> QED
  BY <1>1, Inductive, PTL

(* A change is announced once, over sweeps, refused appends, failed reads, *)
(* kills and restarts (transition.go:106-107).                             *)
THEOREM AlarmsAreSingle == Spec => []ChangeIsReportedOnce
<1>1. IInv => ChangeIsReportedOnce
  <2> SUFFICES ASSUME IInv, NEW c \in Corridors, NEW i \in Transitions(c), NEW j \in Transitions(c),
                      log[c][i].to = log[c][j].to
               PROVE  i = j
    BY DEF ChangeIsReportedOnce
  <2>0. DOMAIN log[c] = 1..Len(log[c])
    BY DEF IInv, TypeOK
  <2> QED
    BY <2>0 DEF IInv, OnceOK, Transitions
<1> QED
  BY <1>1, Inductive, PTL

(* The log and the stored history tell of the same changes, but for errors *)
(* and kills (monitor.go:388-420, transition.go:119-134).                  *)
THEOREM AlarmsAreComplete == Spec => []ChangeIsNotSilent
<1>1. IInv => ChangeIsNotSilent
  <2> SUFFICES ASSUME IInv, NEW c \in Corridors
               PROVE  /\ {log[c][i].to : i \in Transitions(c)} \subseteq TransitionsFromRecords(runs[c])
                      /\ \A n \in TransitionsFromRecords(runs[c]) :
                            \/ \E i \in DOMAIN log[c] : log[c][i].to = n
                            \/ <<c, n>> \in unchecked
                            \/ pc = "report" /\ at = c /\ n = Len(runs[c])
    BY DEF ChangeIsNotSilent
  <2>0. DOMAIN log[c] = 1..Len(log[c]) /\ Len(runs[c]) \in Nat
    BY DEF IInv, TypeOK
  <2>1. ASSUME NEW i \in Transitions(c) PROVE log[c][i].to \in TransitionsFromRecords(runs[c])
    <3>1. i \in 1..Len(log[c]) /\ log[c][i].what = "transition"
      BY <2>0 DEF Transitions
    <3>2. /\ log[c][i].to = log[c][i].from + 1
          /\ log[c][i].from \in 1..Len(runs[c])
          /\ log[c][i].to \in 1..Len(runs[c])
          /\ Differ(runs[c][log[c][i].from].structure, runs[c][log[c][i].to].structure)
      BY <3>1 DEF IInv, LinesOK
    <3>3. log[c][i].to \in 2..Len(runs[c]) /\ log[c][i].to - 1 = log[c][i].from
      BY <2>0, <3>2
    <3> QED
      BY <3>2, <3>3 DEF TransitionsFromRecords
  <2>2. ASSUME NEW n \in TransitionsFromRecords(runs[c])
        PROVE  \/ \E i \in DOMAIN log[c] : log[c][i].to = n
               \/ <<c, n>> \in unchecked
               \/ pc = "report" /\ at = c /\ n = Len(runs[c])
    BY <2>0 DEF IInv, SpokenOK, TransitionsFromRecords
  <2> QED
    BY <2>1, <2>2
<1> QED
  BY <1>1, Inductive, PTL

(* A record kept beside snapshots names evidence that was in place before  *)
(* it, and no two records name the same (monitor.go:303-315).              *)
THEOREM EvidenceIsInPlace == Spec => []RecordsHaveEvidence
<1>1. IInv => RecordsHaveEvidence
  <2> SUFFICES ASSUME IInv, capture, NEW c \in Corridors, NEW d \in Corridors,
                      NEW n \in DOMAIN runs[c], NEW k \in DOMAIN runs[d]
               PROVE  /\ runs[c][n].evidence \in artifacts
                      /\ runs[c][n].structure # Unknown
                      /\ runs[c][n].evidence = runs[d][k].evidence => c = d /\ n = k
    BY DEF RecordsHaveEvidence
  <2>0. DOMAIN runs[c] = 1..Len(runs[c]) /\ DOMAIN runs[d] = 1..Len(runs[d])
    BY DEF IInv, TypeOK
  <2> QED
    BY <2>0 DEF IInv, EvidenceOK, DistinctOK
<1> QED
  BY <1>1, Inductive, PTL
=============================================================================
