--------------------------- MODULE MCMeasurement ----------------------------
(* What one measurement is made of, on small instances: its benchmark      *)
(* (CrossRate), the dependency trees of its sizes (Dependencies) and its   *)
(* evidence (Snapshot).  The three share no state, so a run takes one of   *)
(* them at a time: interleaving them would show nothing more.              *)
EXTENDS MCDependencies, MCSnapshot, CrossRate

(* Nothing was asked yet.  The trees meet every market; where another part *)
(* moves, one is enough.                                                   *)
NoRateYet == stage = "primary"
NoTreeYet == at = 1 /\ todo = {<<>>} /\ \A s \in Sizes, t \in Fiat : market[s][t] = {}
NoSnapshotYet == now = 1 /\ artifacts = <<>> /\ \A p \in Processes : recorder[p] = Blank

MeasurementInit == RateInit /\ TreeInit /\ Init

MeasurementNext ==
    \/ NoTreeYet /\ NoSnapshotYet /\ RateNext /\ UNCHANGED <<treeVars, vars>>
    \/ NoRateYet /\ NoSnapshotYet /\ TreeNext /\ UNCHANGED <<rateVars, vars>>
    \/ NoRateYet /\ NoTreeYet /\ Next /\ UNCHANGED <<rateVars, treeVars>>

MeasurementSpec == MeasurementInit /\ [][MeasurementNext]_<<rateVars, treeVars, vars>>
=============================================================================
