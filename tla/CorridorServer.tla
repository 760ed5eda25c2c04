--------------------------- MODULE CorridorServer ---------------------------
(***************************************************************************)
(* GET /api/corridor (server/api.go, handleCorridor): a request that the   *)
(* limiter admits is answered from history, or measured within a budget,   *)
(* and falls back to history when the measurement fails, while the monitor *)
(* of the same process appends runs to the store.                          *)
(*                                                                         *)
(* One corridor, asked for by well-formed requests; the measurement is     *)
(* what Engine.Ladder returns (module Ladder) and a stored run is its      *)
(* sequence number (module RunStore).                                      *)
(***************************************************************************)
EXTENDS RateLimiter

CONSTANTS
    Asking,     \* the requests for /api/corridor; the others are for other
                \* routes, which the limiter stands in front of all the same
    MaxRuns     \* bound on stored runs

ASSUME ServerAssumption == Asking \subseteq Requests /\ MaxRuns \in Nat

VARIABLES
    historyFirst,   \* the deployment mode
    store,          \* "file", "embedded" or "none"
    runs,           \* runs of the corridor in the store
    live,           \* request -> whether it asked for ?live=1
    ctx,            \* request -> its context: "live", "expired" or "gone"
    ladder,         \* request -> what its measurement returned
    known,          \* request -> runs stored when it was admitted
    answer          \* request -> what it was answered, or Unanswered

serverVars == <<historyFirst, store, runs, live, ctx, ladder, known, answer>>
vars == <<limiterVars, serverVars>>

Unanswered == [code |-> "none", run |-> 0]
(* The embedded store holds what it was built with; without a store there  *)
(* is no run.                                                              *)
Init ==
    /\ LimiterInit
    /\ historyFirst \in BOOLEAN
    /\ store \in {"file", "embedded", "none"}
    /\ runs \in IF store = "none" THEN {0} ELSE 0..MaxRuns
    /\ live = [r \in Requests |-> FALSE]
    /\ ctx = [r \in Requests |-> "live"]
    /\ ladder = [r \in Requests |-> "none"]
    /\ known = [r \in Requests |-> 0]
    /\ answer = [r \in Requests |-> Unanswered]

-----------------------------------------------------------------------------
Step(r, to) == pc' = [pc EXCEPT ![r] = to]
Reply(r, code, run) ==
    /\ answer' = [answer EXCEPT ![r] = [code |-> code, run |-> run]]
    /\ Step(r, "answered")

LimiterKeeps == UNCHANGED <<clock, key, stamp, buckets, verdicts, setbacks>>

Limit(r) ==
    /\ Allow(r)
    /\ answer' = IF pc'[r] = "refused"
                 THEN [answer EXCEPT ![r] = [code |-> "rate_limited", run |-> 0]] ELSE answer
    /\ known' = IF pc'[r] = "admitted" /\ r \in Asking THEN [known EXCEPT ![r] = runs] ELSE known
    /\ \E b \in BOOLEAN :
          /\ b => r \in Asking /\ pc'[r] = "admitted"
          /\ live' = [live EXCEPT ![r] = b]
    /\ UNCHANGED <<historyFirst, store, runs, ctx, ladder>>

(* latestRun: the file store answers nothing once the context has ended.   *)
Readable(r) == store # "file" \/ ctx[r] = "live"

Begins(r) == r \in Asking /\ pc[r] = "admitted"
FromHistory(r) == historyFirst /\ ~live[r]

ServeHistory(r) ==
    /\ Begins(r)
    /\ FromHistory(r)
    /\ Readable(r)
    /\ runs > 0
    /\ Reply(r, "stored", runs)
    /\ LimiterKeeps
    /\ UNCHANGED <<historyFirst, store, runs, live, ctx, ladder, known>>

(* A store that answers, and holds no run. *)
NothingStored(r) == store # "none" /\ runs = 0 /\ Readable(r)

NoHistory(r) ==
    /\ Begins(r)
    /\ FromHistory(r)
    /\ NothingStored(r)
    /\ Reply(r, "no_history", 0)
    /\ LimiterKeeps
    /\ UNCHANGED <<historyFirst, store, runs, live, ctx, ladder, known>>

(* Everything else is measured, within the budget that starts here. *)
BeginMeasure(r) ==
    /\ Begins(r)
    /\ ~FromHistory(r) \/ ~Readable(r) \/ store = "none"
    /\ Step(r, "measuring")
    /\ LimiterKeeps
    /\ UNCHANGED serverVars

(* Ladder returns: its context's error, or a summary, whose every size may *)
(* be unmeasured.                                                          *)
LadderReturns(r) ==
    /\ pc[r] = "measuring"
    /\ \E what \in CASE ctx[r] = "live" -> {"result", "failed"}
                     [] ctx[r] = "expired" -> {"timeout"}
                     [] ctx[r] = "gone" -> {"cancelled"} :
          /\ ladder' = [ladder EXCEPT ![r] = what]
          /\ Step(r, IF what = "result" THEN "measured" ELSE "falling back")
    /\ LimiterKeeps
    /\ UNCHANGED <<historyFirst, store, runs, live, ctx, known, answer>>

(* The checks run, within what is left of the budget, and change nothing.  *)
ServeLive(r) ==
    /\ pc[r] = "measured"
    /\ Reply(r, "live", 0)
    /\ LimiterKeeps
    /\ UNCHANGED <<historyFirst, store, runs, live, ctx, ladder, known>>

(* Mutant of StaleFor: the oldest run is taken. *)
OldestFor(r) == IF Readable(r) /\ runs > 0 THEN 1 ELSE 0

(* Mutant of StaleFor: only a history-first deployment falls back. *)
HistoryModeOnly(r) == IF Readable(r) /\ historyFirst THEN runs ELSE 0

(* staleFor: the newest run, or 0 when none is there or none can be read.  *)
StaleFor(r) == IF Readable(r) THEN runs ELSE 0

ServeStale(r) ==
    /\ pc[r] = "falling back"
    /\ StaleFor(r) # 0
    /\ Reply(r, "stored", StaleFor(r))
    /\ LimiterKeeps
    /\ UNCHANGED <<historyFirst, store, runs, live, ctx, ladder, known>>

ServeError(r) ==
    /\ pc[r] = "falling back"
    /\ StaleFor(r) = 0
    /\ Reply(r, IF ladder[r] = "timeout" THEN "upstream_timeout" ELSE "measurement_failed", 0)
    /\ LimiterKeeps
    /\ UNCHANGED <<historyFirst, store, runs, live, ctx, ladder, known>>

-----------------------------------------------------------------------------
(* The budget runs out; it began with the measurement. *)
Expire(r) ==
    /\ pc[r] \in {"measuring", "measured", "falling back"}
    /\ ctx[r] = "live"
    /\ ctx' = [ctx EXCEPT ![r] = "expired"]
    /\ UNCHANGED <<limiterVars, historyFirst, store, runs, live, ladder, known, answer>>

(* The client hangs up. *)
HangUp(r) ==
    /\ r \in Asking
    /\ pc[r] \in {"admitted", "measuring", "measured", "falling back"}
    /\ ctx[r] = "live"
    /\ ctx' = [ctx EXCEPT ![r] = "gone"]
    /\ UNCHANGED <<limiterVars, historyFirst, store, runs, live, ladder, known, answer>>

(* The monitor stores a run. *)
MonitorAppends ==
    /\ store = "file"
    /\ runs < MaxRuns
    /\ runs' = runs + 1
    /\ UNCHANGED <<limiterVars, historyFirst, store, live, ctx, ladder, known, answer>>

TimePasses == Tick /\ UNCHANGED serverVars

Handle(r) ==
    \/ ServeHistory(r)
    \/ NoHistory(r)
    \/ BeginMeasure(r)
    \/ LadderReturns(r)
    \/ ServeLive(r)
    \/ ServeStale(r)
    \/ ServeError(r)

Next ==
    \/ \E r \in Requests : Limit(r) \/ Handle(r) \/ Expire(r) \/ HangUp(r)
    \/ MonitorAppends
    \/ TimePasses

Spec == Init /\ [][Next]_vars

-----------------------------------------------------------------------------
Answered(r, code) == answer[r].code = code

(* What is served is true: a stored answer is a run of the store no older  *)
(* than the newest one when the request was admitted, a live one comes     *)
(* from a measurement that succeeded, and "no history" is said only of a   *)
(* corridor that had none (api.go:781-788).                                *)
AnswersAreTrue ==
    \A r \in Requests :
       /\ Answered(r, "stored") => answer[r].run \in known[r]..runs \ {0}
       /\ Answered(r, "live") => ladder[r] = "result"
       /\ Answered(r, "no_history") => known[r] = 0 /\ ladder[r] = "none"

(* An error is the answer only when the measurement failed, and there was   *)
(* no run to serve or the file store would not say (api.go:321-355).  A run *)
(* the store held in time is withheld in one case only: a context that has  *)
(* ended, with which latestRun is asked and answers nothing.                *)
ErrorsHaveCause ==
    \A r \in Requests :
       Answered(r, "measurement_failed") \/ Answered(r, "upstream_timeout") =>
          /\ ladder[r] \in {"failed", "timeout", "cancelled"}
          /\ known[r] = 0 \/ (store = "file" /\ ctx[r] # "live")

(* What the documents promise (docs/errors.md:44, 61-67): a timeout is an   *)
(* error only where no run is stored to serve instead.  The code does not   *)
(* keep it: the budget that ended the measurement ends the read of the file *)
(* store as well (api.go:321).                                              *)
TimeoutMeansNothingStored ==
    \A r \in Requests : Answered(r, "upstream_timeout") => known[r] = 0
=============================================================================
