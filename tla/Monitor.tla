------------------------------ MODULE Monitor -------------------------------
(***************************************************************************)
(* The scheduler that measures every corridor in turn, keeps the evidence  *)
(* of each measurement, appends it to the run store and logs structural    *)
(* changes (monitor/monitor.go, runstore/transition.go), in a process that *)
(* is told to stop, or killed, anywhere (cmd/wayfared/main.go).            *)
(*                                                                         *)
(* The ladder is what its summary says of the market, and whether every    *)
(* rung learned something (module Ladder); the store is the list of the    *)
(* lines of a corridor's file (module RunStore); an artifact is the number *)
(* of the measurement it was captured from (module Snapshot).              *)
(***************************************************************************)
EXTENDS Naturals, Sequences, FiniteSets

CONSTANTS
    N,          \* number of corridors; they are swept in the order 1..N
    Plain,      \* the other integrities a ladder may establish, and UNKNOWN
    DepSets,    \* sets of assets a derivative corridor may depend on
    NoDeps,     \* the empty one
    MaxSweeps,  \* bound on sweeps begun
    MaxFaults   \* bound on failing appends, reads and captures, and on stops

ASSUME CorridorsAssumption == N \in Nat \ {0}
ASSUME BoundsAssumption == MaxSweeps \in Nat /\ MaxFaults \in Nat
ASSUME PlainAssumption == "UNKNOWN" \in Plain /\ Plain \subseteq {"UNKNOWN", "NO-MARKET", "DIRECT"}
ASSUME DepsAssumption == NoDeps \notin DepSets

VARIABLES
    pc,         \* where Run stands
    at,         \* the corridor being measured; 0 between sweeps
    failures,   \* corridors of this sweep whose measure returned an error
    outcome,    \* how the last sweep ended
    ctx,        \* the process's context: "live" or "ended"
    capture,    \* whether a snapshot directory is configured
    reading,    \* the measurement in progress
    runs,       \* corridor -> the records in its file, oldest first
    tail,       \* corridor -> whether the file still verifies
    artifacts,  \* measurements whose snapshot is in the directory
    log,        \* corridor -> what was logged about its runs
    unchecked,  \* history: runs whose process was killed before comparing them
    sweeps, measures, faults

vars == <<pc, at, failures, outcome, ctx, capture, reading, runs, tail, artifacts,
          log, unchecked, sweeps, measures, faults>>

Corridors == 1..N
Structures ==
    [integrity : Plain, deps : {NoDeps}]
       \cup [integrity : {"DERIVATIVE"}, deps : DepSets]
Unknown == [integrity |-> "UNKNOWN", deps |-> NoDeps]

(* complete: every rung learned something; with one that did, at least,    *)
(* the structure is not UNKNOWN.                                           *)
Reading == [structure : Structures, complete : BOOLEAN, id : Nat]
NoReading == [structure |-> Unknown, complete |-> FALSE, id |-> 0]

(* A record of the file; evidence is the artifact it names, or 0. *)
Run == [structure : Structures, evidence : Nat]

(* A log line about run "to" of a corridor: a transition from run "from",  *)
(* or an error saying that it was not compared or not acknowledged.        *)
Line == [what : {"transition", "check failed", "not recorded"}, from : Nat, to : Nat]

Steps == {"next", "ladder", "save", "append", "report"}

(* The first sweep is immediate. *)
Init ==
    /\ pc = "next"
    /\ at = 1
    /\ failures = 0
    /\ outcome = "none"
    /\ ctx = "live"
    /\ capture \in BOOLEAN
    /\ reading = NoReading
    /\ runs = [c \in Corridors |-> <<>>]
    /\ tail = [c \in Corridors |-> "clean"]
    /\ artifacts = {}
    /\ log = [c \in Corridors |-> <<>>]
    /\ unchecked = {}
    /\ sweeps = 1
    /\ measures = 0
    /\ faults = 0

-----------------------------------------------------------------------------
(* compareRuns *)

(* Mutant of Differ: an unmeasured structure counts as a change. *)
UnknownDiffers(prev, curr) == prev # curr

(* UNKNOWN on either side is not a change; among derivative runs a changed *)
(* set of dependencies is.                                                 *)
Differ(prev, curr) ==
    /\ prev.integrity # "UNKNOWN"
    /\ curr.integrity # "UNKNOWN"
    /\ prev.integrity # curr.integrity \/ prev.deps # curr.deps

(* Mutant of LatestTransition: only the integrity is compared. *)
IntegrityOnly(c) ==
    LET n == Len(runs[c])
    IN  IF n >= 2 /\ Differ(runs[c][n-1].structure, runs[c][n].structure)
                  /\ runs[c][n-1].structure.integrity # runs[c][n].structure.integrity
        THEN <<[what |-> "transition", from |-> n - 1, to |-> n]>> ELSE <<>>

(* DetectLatestTransition: what is logged of the two newest runs. *)
LatestTransition(c) ==
    LET n == Len(runs[c])
    IN  IF n >= 2 /\ Differ(runs[c][n-1].structure, runs[c][n].structure)
        THEN <<[what |-> "transition", from |-> n - 1, to |-> n]>> ELSE <<>>

(* What the trend of the API lists of a stored history, each change by its *)
(* later run; computed from the records each time it is asked for.         *)
TransitionsFromRecords(records) ==
    {n \in 2..Len(records) : Differ(records[n-1].structure, records[n].structure)}

(* One of the bounded number of things that go wrong. *)
Fault == faults < MaxFaults /\ faults' = faults + 1

(* The store's operations fail by themselves, and always when the context  *)
(* has ended.                                                              *)
FailsUnlessEnded == IF ctx = "ended" THEN UNCHANGED faults ELSE Fault

Says(c, lines) == log' = [log EXCEPT ![c] = @ \o lines]

-----------------------------------------------------------------------------
(* RunOnce *)

(* The next corridor, after measure returned. *)
Leave(failed) ==
    /\ at' = at + 1
    /\ failures' = IF failed THEN failures + 1 ELSE failures
    /\ reading' = NoReading
    /\ pc' = "next"
    /\ UNCHANGED <<outcome, ctx, capture, sweeps>>

(* The loop head: the context is looked at before every corridor. *)
BeginMeasure ==
    /\ pc = "next"
    /\ at <= N
    /\ ctx = "live"
    /\ pc' = "ladder"
    /\ measures' = measures + 1
    /\ UNCHANGED <<at, failures, outcome, ctx, capture, reading, runs, tail, artifacts,
                   log, unchecked, sweeps, faults>>

(* What Run does after a sweep, whatever RunOnce returned: it waits. *)
AfterSweep == "waiting"

EndSweep ==
    /\ pc = "next"
    /\ at > N \/ ctx = "ended"
    /\ outcome' = CASE at <= N -> "cancelled"
                    [] at > N /\ failures = N -> "failed"
                    [] OTHER -> "ok"
    /\ pc' = AfterSweep
    /\ at' = 0
    /\ failures' = 0
    /\ UNCHANGED <<ctx, capture, reading, runs, tail, artifacts, log, unchecked,
                   sweeps, measures, faults>>

(* Run: the timer fires.  A select whose context has ended too may take    *)
(* either branch.                                                          *)
Timer ==
    /\ pc = "waiting"
    /\ sweeps < MaxSweeps
    /\ pc' = "next"
    /\ at' = 1
    /\ sweeps' = sweeps + 1
    /\ UNCHANGED <<failures, outcome, ctx, capture, reading, runs, tail, artifacts,
                   log, unchecked, measures, faults>>

Stop ==
    /\ pc = "waiting"
    /\ ctx = "ended"
    /\ pc' = "stopped"
    /\ UNCHANGED <<at, failures, outcome, ctx, capture, reading, runs, tail, artifacts,
                   log, unchecked, sweeps, measures, faults>>

-----------------------------------------------------------------------------
(* measure *)

(* Ladder returns an error only when its context has ended. *)
LadderFails ==
    /\ pc = "ladder"
    /\ ctx = "ended"
    /\ Leave(TRUE)
    /\ UNCHANGED <<runs, tail, artifacts, log, unchecked, measures, faults>>

LadderReturns ==
    /\ pc = "ladder"
    /\ ctx = "live"
    /\ \E s \in Structures, complete \in BOOLEAN :
          /\ complete => s # Unknown
          /\ reading' = [structure |-> s, complete |-> complete, id |-> measures]
    /\ pc' = IF capture THEN "save" ELSE "append"
    /\ UNCHANGED <<at, failures, outcome, ctx, capture, runs, tail, artifacts, log,
                   unchecked, sweeps, measures, faults>>

(* Mutant of Recordable: a partial measurement is captured too. *)
AnyReading == TRUE

Recordable == reading.complete

(* With a snapshot directory a measurement is recorded only when it is     *)
(* complete and its artifact is in place.                                  *)
SaveArtifact ==
    /\ pc = "save"
    /\ Recordable
    /\ artifacts' = artifacts \cup {reading.id}
    /\ pc' = "append"
    /\ UNCHANGED <<at, failures, outcome, ctx, capture, reading, runs, tail, log,
                   unchecked, sweeps, measures, faults>>

(* The measurement is incomplete, or the artifact could not be written.    *)
NoEvidence ==
    /\ pc = "save"
    /\ \/ ~Recordable /\ UNCHANGED faults
       \/ Recordable /\ Fault
    /\ Leave(TRUE)
    /\ UNCHANGED <<runs, tail, artifacts, log, unchecked, measures>>

Recorded(c) ==
    [runs EXCEPT ![c] = Append(@, [structure |-> reading.structure,
                                   evidence |-> IF capture THEN reading.id ELSE 0])]

(* A record written after one that was not acknowledged does not link. *)
TailAfter(c, acknowledged) ==
    CASE tail[c] # "clean" -> "broken"
      [] tail[c] = "clean" /\ ~acknowledged -> "unacknowledged"
      [] OTHER -> "clean"

AppendSucceeds ==
    /\ pc = "append"
    /\ ctx = "live"
    /\ runs' = Recorded(at)
    /\ tail' = [tail EXCEPT ![at] = TailAfter(at, TRUE)]
    /\ pc' = "report"
    /\ UNCHANGED <<at, failures, outcome, ctx, capture, reading, artifacts, log,
                   unchecked, sweeps, measures, faults>>

(* Append returns an error with the line already in the file. *)
AppendUnacknowledged ==
    /\ pc = "append"
    /\ ctx = "live"
    /\ Fault
    /\ runs' = Recorded(at)
    /\ tail' = [tail EXCEPT ![at] = TailAfter(at, FALSE)]
    /\ Says(at, <<[what |-> "not recorded", from |-> 0, to |-> Len(runs[at]) + 1]>>)
    /\ Leave(FALSE)
    /\ UNCHANGED <<artifacts, unchecked, measures>>

(* Mutant of RefusedLines: a refused append is followed by the comparison. *)
ComparedAllTheSame(c) == LatestTransition(c)

(* What is logged of the stored runs when nothing was appended: nothing. *)
RefusedLines(c) == <<>>

(* Append returns an error and nothing was written. *)
AppendRefused ==
    /\ pc = "append"
    /\ FailsUnlessEnded
    /\ Says(at, RefusedLines(at))
    /\ Leave(FALSE)
    /\ UNCHANGED <<runs, tail, artifacts, unchecked, measures>>

(* reportTransition *)
Report ==
    /\ pc = "report"
    /\ ctx = "live"
    /\ Says(at, LatestTransition(at))
    /\ Leave(FALSE)
    /\ UNCHANGED <<runs, tail, artifacts, unchecked, measures, faults>>

(* The store cannot be read, or the context has ended. *)
ReportFails ==
    /\ pc = "report"
    /\ FailsUnlessEnded
    /\ Says(at, <<[what |-> "check failed", from |-> 0, to |-> Len(runs[at])]>>)
    /\ Leave(FALSE)
    /\ UNCHANGED <<runs, tail, artifacts, unchecked, measures>>

-----------------------------------------------------------------------------
(* The process *)

(* SIGTERM or SIGINT. *)
EndContext ==
    /\ pc \in Steps \cup {"waiting"}
    /\ ctx = "live"
    /\ Fault
    /\ ctx' = "ended"
    /\ UNCHANGED <<pc, at, failures, outcome, capture, reading, runs, tail, artifacts,
                   log, unchecked, sweeps, measures>>

Kill ==
    /\ pc \in Steps \cup {"waiting"}
    /\ Fault
    /\ pc' = "down"
    /\ unchecked' = IF pc = "report"
                    THEN unchecked \cup {<<at, Len(runs[at])>>} ELSE unchecked
    /\ UNCHANGED <<at, failures, outcome, ctx, capture, reading, runs, tail, artifacts,
                   log, sweeps, measures>>

(* A new process opens the store, which every chain has to verify for. *)
Restart ==
    /\ pc \in {"down", "stopped"}
    /\ sweeps < MaxSweeps
    /\ \A c \in Corridors : tail[c] # "broken"
    /\ tail' = [c \in Corridors |-> "clean"]
    /\ pc' = "next"
    /\ at' = 1
    /\ failures' = 0
    /\ outcome' = "none"
    /\ ctx' = "live"
    /\ reading' = NoReading
    /\ sweeps' = sweeps + 1
    /\ UNCHANGED <<capture, runs, artifacts, log, unchecked, measures, faults>>

Work ==
    \/ BeginMeasure
    \/ EndSweep
    \/ Timer
    \/ Stop
    \/ LadderFails
    \/ LadderReturns
    \/ SaveArtifact
    \/ NoEvidence
    \/ AppendSucceeds
    \/ AppendUnacknowledged
    \/ AppendRefused
    \/ Report
    \/ ReportFails

Next == Work \/ EndContext \/ Kill \/ Restart

Spec == Init /\ [][Next]_vars

-----------------------------------------------------------------------------
Transitions(c) == {i \in DOMAIN log[c] : log[c][i].what = "transition"}

(* An alarm is about two stored runs next to each other, both of whose     *)
(* structures were measured, and they do differ: no outage is reported as  *)
(* a change of the market (transition.go:98-105).                          *)
AlarmIsReal ==
    \A c \in Corridors : \A i \in Transitions(c) :
       LET from == log[c][i].from
           to == log[c][i].to
       IN  /\ to = from + 1
           /\ to \in DOMAIN runs[c]
           /\ Unknown \notin {runs[c][from].structure, runs[c][to].structure}
           /\ runs[c][from].structure # runs[c][to].structure

(* No change is reported twice, across sweeps, refused appends and         *)
(* restarts (transition.go:106-107).                                       *)
ChangeIsReportedOnce ==
    \A c \in Corridors : \A i, j \in Transitions(c) :
       log[c][i].to = log[c][j].to => i = j

(* The log and the stored history tell of the same changes: one that the   *)
(* trend lists is in the log, or an error about the later run is, or the   *)
(* process was killed before it compared them; and the trend lists every   *)
(* one that was logged (transition.go:106-107).                            *)
ChangeIsNotSilent ==
    \A c \in Corridors :
       LET listed == TransitionsFromRecords(runs[c])
       IN  /\ {log[c][i].to : i \in Transitions(c)} \subseteq listed
           /\ \A n \in listed :
                 \/ \E i \in DOMAIN log[c] : log[c][i].to = n
                 \/ <<c, n>> \in unchecked
                 \/ pc = "report" /\ at = c /\ n = Len(runs[c])

(* With a snapshot directory every record's evidence was in place before   *)
(* it, no two share it, and no record says UNKNOWN (monitor.go:303-315).   *)
RecordsHaveEvidence ==
    capture =>
       \A c, d \in Corridors : \A n \in DOMAIN runs[c], k \in DOMAIN runs[d] :
          /\ runs[c][n].evidence \in artifacts
          /\ runs[c][n].structure # Unknown
          /\ runs[c][n].evidence = runs[d][k].evidence => c = d /\ n = k
=============================================================================
