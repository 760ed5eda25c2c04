--------------------------- MODULE SnapshotProofs ---------------------------
(***************************************************************************)
(* What Snapshot promises for any processes, requests, bodies and faults,  *)
(* proved.                                                                 *)
(***************************************************************************)
EXTENDS Snapshot, TLAPS

Places == {"recording", "writing", "refused", "hashed", "absent", "saved"}

TypeOK ==
    /\ {now, faults} \subseteq Nat
    /\ pc \in [Processes -> Places]
    /\ recorder \in [Processes -> Capture]
    /\ heard \in [Processes -> Seq(Entry)]
    /\ hash \in [Processes -> Capture \cup {None}]
    /\ artifacts \in [DOMAIN artifacts -> Artifact]

(* An artifact nothing happened to loads, and is what its name commits to. *)
ArtifactsOK ==
    \A n \in DOMAIN artifacts \ disturbed : Loads(artifacts[n]) /\ artifacts[n].capture = n

RecordsOK == records \ disturbed \subseteq DOMAIN artifacts

(* A hash is of a capture that was read back; a saved one has its artifact.*)
HashOK ==
    \A p \in Processes :
       /\ pc[p] \in {"hashed", "absent", "saved"} =>
             hash[p] = recorder[p] /\ Loads(Temporary(p))
       /\ pc[p] = "saved" => hash[p] \in DOMAIN artifacts \cup disturbed

HasCRLF(capture) == \E i \in DOMAIN capture.entries : capture.entries[i].body.eol = "crlf"

RefusedOK ==
    \A p \in Processes : pc[p] = "refused" => hash[p] \in disturbed \/ HasCRLF(recorder[p])

EvidenceInv == TypeOK /\ ArtifactsOK /\ RecordsOK /\ HashOK /\ RefusedOK

-----------------------------------------------------------------------------
(* The first of the answers heard to its key. *)
FirstHeard(answers, k) ==
    \A j \in 1 .. k - 1 : Key(answers[j].call) # Key(answers[k].call)

(* A capture has one entry to a key, and keeps the first answer to it.     *)
KeepsFirst(entries, answers) ==
    /\ \A i, j \in DOMAIN entries :
          Key(entries[i].call) = Key(entries[j].call) => i = j
    /\ \A i \in DOMAIN answers : Seen(entries, answers[i].call)
    /\ \A i \in DOMAIN entries : \E k \in DOMAIN answers :
          /\ answers[k].body = entries[i].body
          /\ Key(answers[k].call) = Key(entries[i].call)
          /\ FirstHeard(answers, k)

ReplayInv ==
    \A p \in Processes :
       /\ heard[p] # <<>> => pc[p] = "recording"
       /\ pc[p] = "recording" => KeepsFirst(recorder[p].entries, heard[p])

-----------------------------------------------------------------------------
(* An answer more, kept or not, and the first answers are still kept       *)
(* (Recorder.add).                                                         *)
LEMMA KeptKeepsFirst ==
    ASSUME NEW entries \in Seq(Entry), NEW answers \in Seq(Entry),
           NEW call \in Calls, NEW body \in Bodies,
           KeepsFirst(entries, answers)
    PROVE  /\ Kept(entries, call, body) \in Seq(Entry)
           /\ KeepsFirst(Kept(entries, call, body),
                         Append(answers, [call |-> call, body |-> body]))
<1> DEFINE new == [call |-> call, body |-> body]
           more == Append(answers, new)
           kept == Kept(entries, call, body)
           n == Len(answers) + 1
<1>1. new \in Entry
  BY DEF Entry
<1>2. /\ more \in Seq(Entry)
      /\ DOMAIN more = DOMAIN answers \cup {n}
      /\ n \notin DOMAIN answers
      /\ \A i \in DOMAIN answers : more[i] = answers[i]
      /\ more[n] = new
  BY <1>1
<1> HIDE DEF new, more
<1>3. \A k \in DOMAIN answers : FirstHeard(answers, k) => FirstHeard(more, k)
  BY <1>2 DEF FirstHeard
<1>4. CASE Seen(entries, call)
  <2>1. kept = entries
    BY <1>4 DEF Kept
  <2>2. \A i \in DOMAIN more : Seen(entries, more[i].call)
    BY <1>2, <1>4 DEF KeepsFirst, new
  <2>3. \A i \in DOMAIN entries : \E k \in DOMAIN more :
           /\ more[k].body = entries[i].body
           /\ Key(more[k].call) = Key(entries[i].call)
           /\ FirstHeard(more, k)
    BY <1>2, <1>3 DEF KeepsFirst
  <2> QED
    BY <2>1, <2>2, <2>3 DEF KeepsFirst, new, more
<1>5. CASE ~Seen(entries, call)
  <2>1. kept = Append(entries, new)
    BY <1>5 DEF Kept, new
  <2> DEFINE e == Len(entries) + 1
  <2>2. /\ kept \in Seq(Entry)
        /\ DOMAIN kept = DOMAIN entries \cup {e}
        /\ e \notin DOMAIN entries
        /\ \A i \in DOMAIN entries : kept[i] = entries[i]
        /\ kept[e] = new
    BY <1>1, <2>1
  <2> HIDE DEF kept, e
  <2>3. new.call = call /\ new.body = body
    BY DEF new
  <2>4. \A i \in DOMAIN entries : Key(entries[i].call) # Key(call)
    BY <1>5 DEF Seen
  <2>5. \A i, j \in DOMAIN kept : Key(kept[i].call) = Key(kept[j].call) => i = j
    BY <2>2, <2>3, <2>4 DEF KeepsFirst
  <2>6. \A i \in DOMAIN more : Seen(kept, more[i].call)
    <3>1. \A i \in DOMAIN answers : Seen(kept, answers[i].call)
      BY <2>2 DEF KeepsFirst, Seen
    <3>2. Seen(kept, new.call)
      BY <2>2 DEF Seen
    <3> QED
      BY <1>2, <3>1, <3>2
  <2>7. FirstHeard(more, n)
    <3> SUFFICES ASSUME NEW j \in 1 .. n - 1, Key(answers[j].call) = Key(call)
                 PROVE  FALSE
      BY <1>2, <2>3 DEF FirstHeard
    <3>1. j \in DOMAIN answers
      OBVIOUS
    <3>2. Seen(entries, answers[j].call)
      BY <3>1 DEF KeepsFirst
    <3> QED
      BY <3>2, <2>4 DEF Seen
  <2>8. \A i \in DOMAIN kept : \E k \in DOMAIN more :
           /\ more[k].body = kept[i].body
           /\ Key(more[k].call) = Key(kept[i].call)
           /\ FirstHeard(more, k)
    <3>1. ASSUME NEW i \in DOMAIN entries
          PROVE  \E k \in DOMAIN more : /\ more[k].body = kept[i].body
                                        /\ Key(more[k].call) = Key(kept[i].call)
                                        /\ FirstHeard(more, k)
      BY <3>1, <1>2, <1>3, <2>2 DEF KeepsFirst
    <3>2. /\ more[n].body = kept[e].body
          /\ Key(more[n].call) = Key(kept[e].call)
      BY <1>2, <2>2
    <3> QED
      BY <1>2, <2>2, <2>7, <3>1, <3>2
  <2>9. KeepsFirst(kept, more)
    BY <2>5, <2>6, <2>8 DEF KeepsFirst
  <2> QED
    BY <2>2, <2>9 DEF kept, more, new
<1> QED
  BY <1>4, <1>5

-----------------------------------------------------------------------------
(* Before a process goes on there is nothing in what it holds.             *)
LEMMA BlankFacts ==
    /\ Blank \in Capture
    /\ <<>> \in Seq(Entry)
    /\ KeepsFirst(Blank.entries, <<>>)
<1>1. <<>> \in Seq(Entry)
  OBVIOUS
<1>2. Blank.entries = <<>> /\ Blank \in Capture
  BY <1>1 DEF Blank, Capture
<1>3. KeepsFirst(<<>>, <<>>)
  BY DEF KeepsFirst
<1> QED
  BY <1>1, <1>2, <1>3

(* What a process holds keeps its type in every step.                      *)
LEMMA TypePreserved ==
    ASSUME TypeOK, [Next]_vars
    PROVE  TypeOK'
<1> USE BlankFacts DEF TypeOK, Places
<1>1. ASSUME NEW p \in Processes, RoundTrip(p)
      PROVE  TypeOK'
  <2>1. PICK call \in Calls, body \in Bodies :
           /\ recorder' = [recorder EXCEPT ![p] =
                 [stamp |-> IF @.entries = <<>> THEN now ELSE @.stamp,
                  entries |-> Kept(@.entries, call, body)]]
           /\ heard' = [heard EXCEPT ![p] = Append(@, [call |-> call, body |-> body])]
    BY <1>1 DEF RoundTrip
  <2>2. [call |-> call, body |-> body] \in Entry
    BY DEF Entry
  <2>3. recorder[p].entries \in Seq(Entry) /\ recorder[p].stamp \in Nat
    BY DEF Capture
  <2>4. Kept(recorder[p].entries, call, body) \in Seq(Entry)
    BY <2>2, <2>3 DEF Kept
  <2>5. [stamp |-> IF recorder[p].entries = <<>> THEN now ELSE recorder[p].stamp,
         entries |-> Kept(recorder[p].entries, call, body)] \in Capture
    BY <2>3, <2>4 DEF Capture
  <2>6. recorder' \in [Processes -> Capture]
    BY <2>1, <2>5
  <2>7. heard' \in [Processes -> Seq(Entry)]
    BY <2>1, <2>2
  <2> QED
    BY <1>1, <2>6, <2>7 DEF RoundTrip
<1>2. ASSUME NEW p \in Processes, BeginSave(p) \/ Abandon(p) \/ HashFails(p) \/ SaveFails(p)
                 \/ StatAbsent(p) \/ Reuse(p) \/ ReuseFails(p) \/ AppendRecord(p) \/ Kill(p)
      PROVE  TypeOK'
  BY <1>2 DEF BeginSave, Abandon, HashFails, SaveFails, StatAbsent, Reuse, ReuseFails,
              AppendRecord, Kill, Goes, Rest
<1>3. ASSUME NEW p \in Processes, WriteAndHash(p)
      PROVE  TypeOK'
  <2>1. ContentHash(Temporary(p)) \in Capture \cup {None}
    BY DEF ContentHash, Temporary
  <2> QED
    BY <1>3, <2>1 DEF WriteAndHash, Goes
<1>4. ASSUME NEW p \in Processes, Rename(p)
      PROVE  TypeOK'
  <2>1. Temporary(p) \in Artifact
    BY DEF Temporary, Artifact
  <2>2. artifacts' \in [DOMAIN artifacts' -> Artifact]
    BY <1>4, <2>1 DEF Rename
  <2> QED
    BY <1>4, <2>2 DEF Rename, Goes
<1>5. ASSUME NEW n \in DOMAIN artifacts, Writeback(n) \/ Edit(n)
      PROVE  TypeOK'
  <2>1. artifacts' \in [DOMAIN artifacts' -> Artifact]
    BY <1>5 DEF Writeback, Edit, Artifact
  <2> QED
    BY <1>5, <2>1 DEF Writeback, Edit, Fault
<1>6. ASSUME PowerLoss
      PROVE  TypeOK'
  <2> DEFINE loose == {n \in DOMAIN artifacts : ~artifacts[n].written}
             Left(n) == [artifacts[n] EXCEPT !.whole = @ /\ n \notin loose]
  <2>2. PICK gone \in SUBSET loose : artifacts' = [n \in DOMAIN artifacts \ gone |-> Left(n)]
    BY <1>6 DEF PowerLoss
  <2>3. ASSUME NEW n \in DOMAIN artifacts PROVE Left(n) \in Artifact
    <3>1. artifacts[n] \in Artifact
      OBVIOUS
    <3>2. (artifacts[n].whole /\ n \notin loose) \in BOOLEAN
      OBVIOUS
    <3> HIDE DEF loose
    <3> QED
      BY <3>1, <3>2 DEF Artifact
  <2> HIDE DEF loose, Left
  <2>1. artifacts' \in [DOMAIN artifacts' -> Artifact]
    BY <2>2, <2>3
  <2> QED
    BY <1>6, <2>1 DEF PowerLoss, Fault
<1>7. CASE UNCHANGED vars
  BY <1>7 DEF vars
<1> QED
  BY <1>1, <1>2, <1>3, <1>4, <1>5, <1>6, <1>7 DEF Next, SaveStep

(* A capture that does not read back holds a body with CRLF.               *)
LEMMA HashFailsOnCRLF ==
    ASSUME TypeOK, NEW p \in Processes, ContentHash(Temporary(p)) = None
    PROVE  HasCRLF(recorder[p])
<1>1. recorder[p] \in Capture /\ recorder[p] # None
  BY NoneAssumption DEF TypeOK
<1>2. ~Loads(Temporary(p))
  BY <1>1 DEF ContentHash, Temporary
<1>3. PICK i \in DOMAIN recorder[p].entries : ~BodyHolds(recorder[p].entries[i])
  BY <1>2 DEF Loads, Temporary
<1> DEFINE b == recorder[p].entries[i].body
<1>4. recorder[p].entries \in Seq(Entry)
  BY <1>1 DEF Capture
<1>5. recorder[p].entries[i] \in Entry
  BY <1>4
<1>6. b \in Bodies
  BY <1>5 DEF Entry
<1> HIDE DEF b
<1>7. [b EXCEPT !.eol = "lf"] # b
  BY <1>3 DEF BodyHolds, Normalized, b
<1>8. b = [text |-> b.text, eol |-> b.eol] /\ b.eol \in {"lf", "crlf"}
  BY <1>6, BodiesAssumption
<1>9. ASSUME b.eol = "lf" PROVE FALSE
  <2>1. b = [text |-> b.text, eol |-> "lf"]
    BY <1>8, <1>9
  <2>2. [b EXCEPT !.eol = "lf"] = b
    BY <2>1
  <2> QED
    BY <2>2, <1>7
<1> QED
  BY <1>8, <1>9 DEF HasCRLF, b

(* What every artifact, record and process has, it keeps in every step.    *)
LEMMA EvidencePreserved ==
    ASSUME EvidenceInv, [Next]_vars
    PROVE  EvidenceInv'
<1>1. TypeOK'
  BY TypePreserved DEF EvidenceInv
<1> USE DEF EvidenceInv, Places
<1>2. ASSUME NEW p \in Processes, RoundTrip(p)
      PROVE  EvidenceInv'
  <2>1. pc[p] = "recording"
    BY <1>2 DEF RoundTrip
  <2>2. \A q \in Processes : q # p => recorder'[q] = recorder[q]
    BY <1>2 DEF RoundTrip, TypeOK
  <2>3. ArtifactsOK' /\ RecordsOK'
    BY <1>2 DEF RoundTrip, ArtifactsOK, RecordsOK
  <2>4. HashOK' /\ RefusedOK'
    BY <1>2, <2>1, <2>2 DEF RoundTrip, HashOK, RefusedOK, Temporary, HasCRLF
  <2> QED
    BY <1>1, <2>3, <2>4
<1>3. ASSUME NEW p \in Processes, BeginSave(p) \/ StatAbsent(p)
      PROVE  EvidenceInv'
  <2>1. ArtifactsOK' /\ RecordsOK'
    BY <1>3 DEF BeginSave, StatAbsent, ArtifactsOK, RecordsOK
  <2>2. HashOK' /\ RefusedOK'
    BY <1>3 DEF BeginSave, StatAbsent, Goes, HashOK, RefusedOK, TypeOK, Temporary
  <2> QED
    BY <1>1, <2>1, <2>2
<1>4. ASSUME NEW p \in Processes, Abandon(p) \/ SaveFails(p) \/ Kill(p)
      PROVE  EvidenceInv'
  <2>1. ArtifactsOK' /\ RecordsOK'
    BY <1>4 DEF Abandon, SaveFails, Kill, ArtifactsOK, RecordsOK
  <2>2. HashOK' /\ RefusedOK'
    BY <1>4 DEF Abandon, SaveFails, Kill, Rest, HashOK, RefusedOK, TypeOK, Temporary
  <2> QED
    BY <1>1, <2>1, <2>2
<1>5. ASSUME NEW p \in Processes, WriteAndHash(p)
      PROVE  EvidenceInv'
  <2>1. hash'[p] = recorder[p] /\ Loads(Temporary(p))
    BY <1>5 DEF WriteAndHash, ContentHash, Temporary, TypeOK
  <2>2. ArtifactsOK' /\ RecordsOK'
    BY <1>5 DEF WriteAndHash, ArtifactsOK, RecordsOK
  <2>3. HashOK' /\ RefusedOK'
    BY <1>5, <2>1 DEF WriteAndHash, Goes, HashOK, RefusedOK, TypeOK, Temporary
  <2> QED
    BY <1>1, <2>2, <2>3
<1>6. ASSUME NEW p \in Processes, HashFails(p)
      PROVE  EvidenceInv'
  <2>1. HasCRLF(recorder[p])
    BY <1>6, HashFailsOnCRLF DEF HashFails
  <2>2. ArtifactsOK' /\ RecordsOK'
    BY <1>6 DEF HashFails, ArtifactsOK, RecordsOK
  <2>3. HashOK' /\ RefusedOK'
    BY <1>6, <2>1 DEF HashFails, Goes, HashOK, RefusedOK, TypeOK, Temporary, HasCRLF
  <2> QED
    BY <1>1, <2>2, <2>3
<1>7. ASSUME NEW p \in Processes, Reuse(p)
      PROVE  EvidenceInv'
  <2>1. ArtifactsOK' /\ RecordsOK'
    BY <1>7 DEF Reuse, ArtifactsOK, RecordsOK
  <2>2. HashOK' /\ RefusedOK'
    BY <1>7 DEF Reuse, Occupied, HashOK, RefusedOK, TypeOK, Temporary
  <2> QED
    BY <1>1, <2>1, <2>2
<1>8. ASSUME NEW p \in Processes, ReuseFails(p)
      PROVE  EvidenceInv'
  <2>1. hash[p] \in DOMAIN artifacts /\ ContentHash(artifacts[hash[p]]) # hash[p]
    BY <1>8 DEF ReuseFails, Occupied, VerifyContentHash
  <2>2. hash[p] \in disturbed
    BY <2>1 DEF ArtifactsOK, ContentHash
  <2>3. ArtifactsOK' /\ RecordsOK'
    BY <1>8 DEF ReuseFails, ArtifactsOK, RecordsOK
  <2>4. HashOK' /\ RefusedOK'
    BY <1>8, <2>2 DEF ReuseFails, HashOK, RefusedOK, TypeOK, Temporary
  <2> QED
    BY <1>1, <2>3, <2>4
<1>9. ASSUME NEW p \in Processes, Rename(p)
      PROVE  EvidenceInv'
  <2>1. /\ hash[p] = recorder[p]
        /\ Loads(Temporary(p))
        /\ Temporary(p).capture = hash[p]
    BY <1>9 DEF Rename, Goes, HashOK, Temporary
  <2>2. /\ DOMAIN artifacts' = DOMAIN artifacts \cup {hash[p]}
        /\ artifacts'[hash[p]] = Temporary(p)
        /\ \A n \in DOMAIN artifacts : n # hash[p] => artifacts'[n] = artifacts[n]
        /\ hash[p] \notin DOMAIN artifacts
    BY <1>9 DEF Rename
  <2>3. ArtifactsOK' /\ RecordsOK'
    BY <1>9, <2>1, <2>2 DEF Rename, ArtifactsOK, RecordsOK
  <2>4. HashOK' /\ RefusedOK'
    BY <1>9, <2>2 DEF Rename, Goes, HashOK, RefusedOK, TypeOK, Temporary
  <2> QED
    BY <1>1, <2>3, <2>4
<1>10. ASSUME NEW p \in Processes, AppendRecord(p)
       PROVE  EvidenceInv'
  <2>1. hash[p] \in DOMAIN artifacts \cup disturbed
    BY <1>10 DEF AppendRecord, HashOK
  <2>2. ArtifactsOK' /\ RecordsOK'
    BY <1>10, <2>1 DEF AppendRecord, ArtifactsOK, RecordsOK
  <2>3. HashOK' /\ RefusedOK'
    BY <1>10 DEF AppendRecord, Rest, HashOK, RefusedOK, TypeOK, Temporary
  <2> QED
    BY <1>1, <2>2, <2>3
<1>11. ASSUME NEW n \in DOMAIN artifacts, Writeback(n)
       PROVE  EvidenceInv'
  <2>1. /\ DOMAIN artifacts' = DOMAIN artifacts
        /\ \A m \in DOMAIN artifacts : /\ artifacts'[m].capture = artifacts[m].capture
                                       /\ artifacts'[m].whole = artifacts[m].whole
    BY <1>11 DEF Writeback, TypeOK, Artifact
  <2>2. \A m \in DOMAIN artifacts : Loads(artifacts'[m]) = Loads(artifacts[m])
    BY <2>1 DEF Loads
  <2>3. ArtifactsOK' /\ RecordsOK'
    BY <1>11, <2>1, <2>2 DEF Writeback, ArtifactsOK, RecordsOK
  <2>4. HashOK' /\ RefusedOK'
    BY <1>11, <2>1 DEF Writeback, HashOK, RefusedOK, Temporary
  <2> QED
    BY <1>1, <2>3, <2>4
<1>12. ASSUME NEW n \in DOMAIN artifacts, Edit(n)
       PROVE  EvidenceInv'
  <2>1. /\ DOMAIN artifacts' = DOMAIN artifacts
        /\ \A m \in DOMAIN artifacts : m # n => artifacts'[m] = artifacts[m]
        /\ disturbed' = disturbed \cup {n}
    BY <1>12 DEF Edit, TypeOK
  <2>2. ArtifactsOK' /\ RecordsOK'
    BY <1>12, <2>1 DEF Edit, ArtifactsOK, RecordsOK
  <2>3. HashOK' /\ RefusedOK'
    BY <1>12, <2>1 DEF Edit, HashOK, RefusedOK, Temporary
  <2> QED
    BY <1>1, <2>2, <2>3
<1>13. ASSUME PowerLoss
       PROVE  EvidenceInv'
  <2> DEFINE loose == {n \in DOMAIN artifacts : ~artifacts[n].written}
  <2>1. PICK gone \in SUBSET loose :
           artifacts' = [n \in DOMAIN artifacts \ gone |->
                            [artifacts[n] EXCEPT !.whole = @ /\ n \notin loose]]
    BY <1>13 DEF PowerLoss
  <2>2. disturbed' = disturbed \cup loose /\ records' = records
    BY <1>13 DEF PowerLoss
  <2>3. ASSUME NEW n \in DOMAIN artifacts' \ disturbed'
        PROVE  artifacts'[n] = artifacts[n] /\ n \in DOMAIN artifacts \ disturbed
    <3>1. n \in DOMAIN artifacts /\ n \notin loose /\ n \notin disturbed
      BY <2>1, <2>2, <2>3
    <3>2. artifacts[n] \in Artifact
      BY <3>1 DEF TypeOK
    <3>3. [artifacts[n] EXCEPT !.whole = @ /\ n \notin loose] = artifacts[n]
      BY <3>1, <3>2 DEF Artifact
    <3>4. n \in DOMAIN artifacts \ gone
      BY <2>1, <2>3
    <3> HIDE DEF loose
    <3>5. artifacts'[n] = [artifacts[n] EXCEPT !.whole = @ /\ n \notin loose]
      BY <2>1, <3>4
    <3> QED
      BY <3>1, <3>3, <3>5
  <2>4. ArtifactsOK'
    BY <2>3 DEF ArtifactsOK, Loads
  <2>5. RecordsOK'
    BY <2>1, <2>2 DEF RecordsOK
  <2>6. HashOK' /\ RefusedOK'
    BY <1>13 DEF PowerLoss, HashOK, RefusedOK
  <2> QED
    BY <1>1, <2>4, <2>5, <2>6
<1>14. CASE UNCHANGED vars
  BY <1>1, <1>14 DEF vars, ArtifactsOK, RecordsOK, HashOK, RefusedOK, Temporary
<1> QED
  BY <1>2, <1>3, <1>4, <1>5, <1>6, <1>7, <1>8, <1>9, <1>10, <1>11, <1>12, <1>13, <1>14
     DEF Next, SaveStep

(* Only a request that is answered adds to a capture, or to what was heard.*)
LEMMA ReplayPreserved ==
    ASSUME TypeOK, ReplayInv, [Next]_vars
    PROVE  ReplayInv'
<1> USE DEF TypeOK, Places
<1>1. ASSUME NEW p \in Processes, RoundTrip(p)
      PROVE  ReplayInv'
  <2>1. PICK call \in Calls, body \in Bodies :
           /\ recorder' = [recorder EXCEPT ![p] =
                 [stamp |-> IF @.entries = <<>> THEN now ELSE @.stamp,
                  entries |-> Kept(@.entries, call, body)]]
           /\ heard' = [heard EXCEPT ![p] = Append(@, [call |-> call, body |-> body])]
    BY <1>1 DEF RoundTrip
  <2>2. pc[p] = "recording" /\ pc' = pc
    BY <1>1 DEF RoundTrip
  <2>3. /\ recorder'[p].entries = Kept(recorder[p].entries, call, body)
        /\ heard'[p] = Append(heard[p], [call |-> call, body |-> body])
        /\ \A q \in Processes : q # p => recorder'[q] = recorder[q] /\ heard'[q] = heard[q]
    BY <2>1
  <2>4. KeepsFirst(recorder[p].entries, heard[p])
    BY <2>2 DEF ReplayInv
  <2>5. recorder[p].entries \in Seq(Entry) /\ heard[p] \in Seq(Entry)
    BY DEF Capture
  <2>6. KeepsFirst(recorder'[p].entries, heard'[p])
    BY <2>3, <2>4, <2>5, KeptKeepsFirst
  <2> QED
    BY <2>2, <2>3, <2>6 DEF ReplayInv
<1>2. ASSUME NEW p \in Processes, BeginSave(p) \/ WriteAndHash(p) \/ HashFails(p)
                 \/ StatAbsent(p) \/ Reuse(p) \/ ReuseFails(p) \/ Rename(p)
      PROVE  ReplayInv'
  <2>1. /\ recorder' = recorder
        /\ heard'[p] = heard[p] \/ heard'[p] = <<>>
        /\ pc'[p] # "recording"
        /\ pc[p] # "recording" \/ heard'[p] = <<>>
        /\ \A q \in Processes : q # p => heard'[q] = heard[q] /\ pc'[q] = pc[q]
    BY <1>2 DEF BeginSave, WriteAndHash, HashFails, StatAbsent, Reuse, ReuseFails, Rename,
                Goes, Occupied
  <2> QED
    BY <2>1 DEF ReplayInv
<1>3. ASSUME NEW p \in Processes,
             Abandon(p) \/ SaveFails(p) \/ AppendRecord(p) \/ Kill(p)
      PROVE  ReplayInv'
  <2>1. Rest(p)
    BY <1>3 DEF Abandon, SaveFails, AppendRecord, Kill
  <2>2. /\ recorder'[p].entries = Blank.entries /\ heard'[p] = <<>> /\ pc'[p] = "recording"
        /\ \A q \in Processes : q # p => /\ heard'[q] = heard[q] /\ pc'[q] = pc[q]
                                         /\ recorder'[q] = recorder[q]
    BY <2>1 DEF Rest
  <2> QED
    BY <2>2, BlankFacts DEF ReplayInv
<1>4. ASSUME PowerLoss
      PROVE  ReplayInv'
  BY <1>4, BlankFacts DEF PowerLoss, ReplayInv
<1>5. CASE \/ \E n \in DOMAIN artifacts : Writeback(n) \/ Edit(n)
           \/ UNCHANGED vars
  BY <1>5 DEF Writeback, Edit, vars, ReplayInv
<1> QED
  BY <1>1, <1>2, <1>3, <1>4, <1>5 DEF Next, SaveStep

(* Both invariants hold of the empty directory.                            *)
LEMMA InitialStates == Init => EvidenceInv /\ ReplayInv
<1> SUFFICES ASSUME Init PROVE EvidenceInv /\ ReplayInv
  OBVIOUS
<1> USE BlankFacts DEF Init
<1>1. TypeOK
  BY DEF TypeOK, Places
<1>2. ArtifactsOK /\ RecordsOK /\ HashOK /\ RefusedOK
  BY DEF ArtifactsOK, RecordsOK, HashOK, RefusedOK
<1>3. ReplayInv
  BY DEF ReplayInv
<1> QED
  BY <1>1, <1>2, <1>3 DEF EvidenceInv

(* The invariants of every measurement, under every fault.                 *)
THEOREM Inductive == Spec => [](EvidenceInv /\ ReplayInv)
<1>1. EvidenceInv /\ ReplayInv /\ [Next]_vars => (EvidenceInv /\ ReplayInv)'
  BY EvidencePreserved, ReplayPreserved DEF EvidenceInv
<1> QED
  BY InitialStates, <1>1, PTL DEF Spec

-----------------------------------------------------------------------------
(* A stored record's artifact is in place and is what its name commits to, *)
(* unless a fault touched it, whoever else saves, fails or dies            *)
(* (record.go:255-289).                                                    *)
THEOREM EvidenceStays == Spec => []EvidenceIsKept
<1>1. EvidenceInv => EvidenceIsKept
  BY DEF EvidenceInv, ArtifactsOK, RecordsOK, EvidenceIsKept, VerifyContentHash, ContentHash
<1> QED
  BY Inductive, <1>1, PTL

(* A measurement loses its evidence to a fault or to CRLF only             *)
(* (snapshot.go:226-235).                                                  *)
THEOREM RefusalsHaveCause == Spec => []OnlyCRLFIsRefused
<1>1. EvidenceInv => OnlyCRLFIsRefused
  BY DEF EvidenceInv, RefusedOK, OnlyCRLFIsRefused, HasCRLF
<1> QED
  BY Inductive, <1>1, PTL

(* The one entry to a key is the first answer to it.                       *)
LEMMA ReplaysFirst ==
    ASSUME EvidenceInv, ReplayInv
    PROVE  ReplayIsTheRun
<1> SUFFICES ASSUME NEW p \in Processes, NEW i \in DOMAIN heard[p]
             PROVE  LET replayed == Replay(recorder[p], heard[p][i].call)
                    IN  /\ replayed # None
                        /\ \E k \in 1 .. i :
                              /\ Key(heard[p][k].call) = Key(heard[p][i].call)
                              /\ heard[p][k].body = replayed
                              /\ \A j \in 1 .. k - 1 :
                                    Key(heard[p][j].call) # Key(heard[p][k].call)
  BY DEF ReplayIsTheRun
<1> DEFINE entries == recorder[p].entries
           call == heard[p][i].call
           hits == {e \in DOMAIN entries : Key(entries[e].call) = Key(call)}
<1>1. heard[p] \in Seq(Entry) /\ entries \in Seq(Entry)
  BY DEF EvidenceInv, TypeOK, Capture
<1>2. KeepsFirst(entries, heard[p])
  BY <1>1 DEF ReplayInv
<1>3. PICK e \in DOMAIN entries : Key(entries[e].call) = Key(call)
  BY <1>2 DEF KeepsFirst, Seen
<1>4. hits = {e}
  BY <1>2, <1>3 DEF KeepsFirst
<1>5. e \in Nat
  BY <1>1
<1>6. (CHOOSE h \in hits : \A j \in hits : j <= h) = e
  BY <1>4, <1>5
<1>7. Replay(recorder[p], call) = entries[e].body
  BY <1>4, <1>6 DEF Replay
<1>8. entries[e].body \in Bodies
  <2>1. entries[e] \in Entry
    BY <1>1
  <2> QED
    BY <2>1 DEF Entry
<1>9. PICK k \in DOMAIN heard[p] : /\ heard[p][k].body = entries[e].body
                                  /\ Key(heard[p][k].call) = Key(entries[e].call)
                                  /\ FirstHeard(heard[p], k)
  BY <1>2 DEF KeepsFirst
<1>10. k \in 1 .. i
  <2>1. k \in Nat /\ k >= 1 /\ i \in Nat /\ i >= 1
    BY <1>1
  <2>2. ASSUME i < k PROVE FALSE
    <3>1. i \in 1 .. k - 1
      BY <2>1, <2>2
    <3> QED
      BY <3>1, <1>3, <1>9 DEF FirstHeard
  <2> QED
    BY <2>1, <2>2
<1> QED
  BY <1>3, <1>7, <1>8, <1>9, <1>10, NoneAssumption DEF FirstHeard

(* A capture replays the measurement that made it (record.go:80-82).       *)
THEOREM ReplaysAreTrue == Spec => []ReplayIsTheRun
BY Inductive, ReplaysFirst, PTL
=============================================================================
