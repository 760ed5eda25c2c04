------------------------------ MODULE Snapshot ------------------------------
(***************************************************************************)
(* The evidence of a measurement (snapshot/): a Recorder is the transport  *)
(* of its requests and keeps the first answer to each key; the capture is  *)
(* written to a temporary directory, hashed as it reads back, and renamed  *)
(* to its hash, which the record of the measurement then names.            *)
(*                                                                         *)
(* Two processes (a daemon and a scheduled sweep) may work in one parent   *)
(* directory.  A process may be killed anywhere, a write may fail, and a   *)
(* stored artifact may be edited; a power loss takes what the operating    *)
(* system has not written out, but never a record, whose append is flushed.*)
(*                                                                         *)
(* A request is [host, path], a body [text, eol]; bodyHash is the identity *)
(* on bodies, and a content hash is what it commits to.  A stamp is the    *)
(* second in which a capture began, which the manifest holds.              *)
(***************************************************************************)
EXTENDS Naturals, Sequences, FiniteSets

CONSTANTS
    Processes,  \* processes that measure
    Calls,      \* requests a measurement may make
    Bodies,     \* bodies an upstream may answer with
    None,
    MaxAnswers, \* bound on the answers of one measurement
    MaxArtifacts, \* bound on the artifacts before a measurement
    MaxFaults   \* bound on edits and power losses

ASSUME BoundsAssumption == MaxAnswers \in Nat /\ MaxArtifacts \in Nat /\ MaxFaults \in Nat
ASSUME BodiesAssumption ==
    \A b \in Bodies : b = [text |-> b.text, eol |-> b.eol] /\ b.eol \in {"lf", "crlf"}

Entry == [call : Calls, body : Bodies]
Capture == [stamp : Nat, entries : Seq(Entry)]
Artifact == [capture : Capture, whole : BOOLEAN, written : BOOLEAN]

ASSUME NoneAssumption == None \notin Bodies \cup Capture

VARIABLES
    now,        \* the clock, in seconds
    pc,         \* where each process stands
    recorder,   \* [stamp, entries]: what it captured
    heard,      \* history: the answers its requests got, while it records
    hash,       \* the hash its capture was found to have
    artifacts,  \* name -> the artifact in place: its capture, whether every
                \*   file of it is whole, and whether it is written out
    records,    \* the artifacts named by stored records
    disturbed,  \* history: artifacts edited, or in place when the power
                \*   failed before they were written out
    faults

vars == <<now, pc, recorder, heard, hash, artifacts, records, disturbed, faults>>

Blank == [stamp |-> 0, entries |-> <<>>]

Init ==
    /\ now = 1
    /\ pc = [p \in Processes |-> "recording"]
    /\ recorder = [p \in Processes |-> Blank]
    /\ heard = [p \in Processes |-> <<>>]
    /\ hash = [p \in Processes |-> None]
    /\ artifacts = <<>>
    /\ records = {}
    /\ disturbed = {}
    /\ faults = 0

-----------------------------------------------------------------------------
(* Recording *)

(* The host is no part of a key: a capture replays against any.            *)
Key(call) == call.path

Seen(entries, call) == \E i \in DOMAIN entries : Key(entries[i].call) = Key(call)

(* Mutant of Kept: a later answer replaces the first.                      *)
LastKept(entries, call, body) ==
    Append(SelectSeq(entries, LAMBDA e : Key(e.call) # Key(call)), [call |-> call, body |-> body])

(* add: the first answer to a key stays.                                   *)
Kept(entries, call, body) ==
    IF Seen(entries, call) THEN entries
    ELSE Append(entries, [call |-> call, body |-> body])

(* The caller gets the body that was read, whether or not it was kept.     *)
RoundTrip(p) ==
    /\ pc[p] = "recording"
    /\ Len(heard[p]) < MaxAnswers
    /\ Cardinality(DOMAIN artifacts \cup records) < MaxArtifacts
    /\ \E call \in Calls, body \in Bodies :
          /\ recorder' = [recorder EXCEPT ![p] =
                [stamp |-> IF @.entries = <<>> THEN now ELSE @.stamp,
                 entries |-> Kept(@.entries, call, body)]]
          /\ heard' = [heard EXCEPT ![p] = Append(@, [call |-> call, body |-> body])]
    /\ UNCHANGED <<now, pc, hash, artifacts, records, disturbed, faults>>

-----------------------------------------------------------------------------
(* Reading a capture back *)

(* Load reads a body with CRLF turned into LF.                             *)
Normalized(body) == [body EXCEPT !.eol = "lf"]

(* The manifest pins the hash of the body as it arrived.                   *)
BodyHolds(entry) == Normalized(entry.body) = entry.body

(* Load: every file is there and whole, and every body matches its hash.   *)
Loads(artifact) ==
    /\ artifact.whole
    /\ \A i \in DOMAIN artifact.capture.entries : BodyHolds(artifact.capture.entries[i])

(* ContentHash: the manifest, and the bodies by file name.                 *)
ContentHash(artifact) == IF Loads(artifact) THEN artifact.capture ELSE None

(* VerifyContentHash: nothing in place is no error.                        *)
VerifyContentHash(name) ==
    name \in DOMAIN artifacts => ContentHash(artifacts[name]) = name

(* Replay: what a loaded capture answers, and an error for any other key.  *)
(* The bodies are a map, filled in the manifest's order.                   *)
Replay(capture, call) ==
    LET hits == {i \in DOMAIN capture.entries : Key(capture.entries[i].call) = Key(call)}
    IN  IF hits = {} THEN None
        ELSE capture.entries[CHOOSE i \in hits : \A j \in hits : j <= i].body

-----------------------------------------------------------------------------
(* SaveContentAddressed *)

Goes(p, from, to) == pc[p] = from /\ pc' = [pc EXCEPT ![p] = to]

(* The process goes on to its next measurement, with a recorder of its own;*)
(* the temporary directory is removed.                                     *)
Rest(p) ==
    /\ pc' = [pc EXCEPT ![p] = "recording"]
    /\ recorder' = [recorder EXCEPT ![p] = Blank]
    /\ heard' = [heard EXCEPT ![p] = <<>>]
    /\ hash' = [hash EXCEPT ![p] = None]

Fault == faults < MaxFaults /\ faults' = faults + 1

(* The ladder is done, and every rung of it was measured; a capture of     *)
(* nothing is refused.                                                     *)
BeginSave(p) ==
    /\ recorder[p].entries # <<>>
    /\ Goes(p, "recording", "writing")
    /\ heard' = [heard EXCEPT ![p] = <<>>]
    /\ UNCHANGED <<now, recorder, hash, artifacts, records, disturbed, faults>>

(* A measurement that failed, has a rung without a result, or whose        *)
(* capture was refused goes without a record.                              *)
Abandon(p) ==
    /\ pc[p] = "refused" \/ (pc[p] = "recording" /\ heard[p] # <<>>)
    /\ Rest(p)
    /\ UNCHANGED <<now, artifacts, records, disturbed, faults>>

(* Bodies, then the manifest, go into the temporary directory, which is    *)
(* read back for its hash.                                                 *)
Temporary(p) == [capture |-> recorder[p], whole |-> TRUE, written |-> FALSE]

WriteAndHash(p) ==
    /\ ContentHash(Temporary(p)) # None
    /\ Goes(p, "writing", "hashed")
    /\ hash' = [hash EXCEPT ![p] = ContentHash(Temporary(p))]
    /\ UNCHANGED <<now, recorder, heard, artifacts, records, disturbed, faults>>

HashFails(p) ==
    /\ ContentHash(Temporary(p)) = None
    /\ Goes(p, "writing", "refused")
    /\ UNCHANGED <<now, recorder, heard, hash, artifacts, records, disturbed, faults>>

(* Mutant of SaveFails: what a failed save cleans up is the destination.   *)
SaveFailsClean(p) ==
    /\ pc[p] \in {"writing", "hashed", "absent"}
    /\ artifacts' = [n \in DOMAIN artifacts \ {hash[p]} |-> artifacts[n]]
    /\ Rest(p)
    /\ UNCHANGED <<now, records, disturbed, faults>>

(* A write, a stat or the rename fails.                                    *)
SaveFails(p) ==
    /\ pc[p] \in {"writing", "hashed", "absent"}
    /\ Rest(p)
    /\ UNCHANGED <<now, artifacts, records, disturbed, faults>>

StatAbsent(p) ==
    /\ hash[p] \notin DOMAIN artifacts
    /\ Goes(p, "hashed", "absent")
    /\ UNCHANGED <<now, recorder, heard, hash, artifacts, records, disturbed, faults>>

(* The artifact is in place, found before the rename or by the rename.     *)
Occupied(p) == pc[p] \in {"hashed", "absent"} /\ hash[p] \in DOMAIN artifacts

Reuse(p) ==
    /\ Occupied(p)
    /\ VerifyContentHash(hash[p])
    /\ pc' = [pc EXCEPT ![p] = "saved"]
    /\ UNCHANGED <<now, recorder, heard, hash, artifacts, records, disturbed, faults>>

(* Mutant of ReuseFails: a rename that finds its name taken is an error.   *)
ReuseFailsRaced(p) ==
    /\ Occupied(p)
    /\ ~VerifyContentHash(hash[p]) \/ pc[p] = "absent"
    /\ pc' = [pc EXCEPT ![p] = "refused"]
    /\ UNCHANGED <<now, recorder, heard, hash, artifacts, records, disturbed, faults>>

ReuseFails(p) ==
    /\ Occupied(p)
    /\ ~VerifyContentHash(hash[p])
    /\ pc' = [pc EXCEPT ![p] = "refused"]
    /\ UNCHANGED <<now, recorder, heard, hash, artifacts, records, disturbed, faults>>

Rename(p) ==
    /\ hash[p] \notin DOMAIN artifacts
    /\ Goes(p, "absent", "saved")
    /\ artifacts' = [n \in DOMAIN artifacts \cup {hash[p]} |->
                        IF n = hash[p] THEN Temporary(p) ELSE artifacts[n]]
    /\ UNCHANGED <<now, recorder, heard, hash, records, disturbed, faults>>

(* The record that names the artifact is appended and flushed.             *)
AppendRecord(p) ==
    /\ pc[p] = "saved"
    /\ records' = records \cup {hash[p]}
    /\ Rest(p)
    /\ UNCHANGED <<now, artifacts, disturbed, faults>>

-----------------------------------------------------------------------------
(* The operating system writes an artifact out in its own time.            *)
Writeback(n) ==
    /\ ~artifacts[n].written
    /\ artifacts' = [artifacts EXCEPT ![n].written = artifacts[n].whole]
    /\ UNCHANGED <<now, pc, recorder, heard, hash, records, disturbed, faults>>

(* The append failed, or the process died; in either case the measurement  *)
(* goes without a record, and its temporary directory stays behind.        *)
Kill(p) ==
    /\ pc[p] \notin {"recording", "refused"}
    /\ Rest(p)
    /\ UNCHANGED <<now, artifacts, records, disturbed, faults>>

(* The power fails: every artifact not written out is gone, or some of its *)
(* files are, and the machine is up again in a later second.               *)
PowerLoss ==
    LET loose == {n \in DOMAIN artifacts : ~artifacts[n].written}
    IN  /\ Fault
        /\ now' = now + 1
        /\ pc' = [p \in Processes |-> "recording"]
        /\ recorder' = [p \in Processes |-> Blank]
        /\ heard' = [p \in Processes |-> <<>>]
        /\ hash' = [p \in Processes |-> None]
        /\ \E gone \in SUBSET loose :
              artifacts' = [n \in DOMAIN artifacts \ gone |->
                               [artifacts[n] EXCEPT !.whole = @ /\ n \notin loose]]
        /\ disturbed' = disturbed \cup loose
        /\ UNCHANGED records

(* Somebody edits a file of a stored artifact.                             *)
Edit(n) ==
    /\ artifacts[n].whole
    /\ Fault
    /\ artifacts' = [artifacts EXCEPT ![n].whole = FALSE]
    /\ disturbed' = disturbed \cup {n}
    /\ UNCHANGED <<now, pc, recorder, heard, hash, records>>

SaveStep(p) == \/ BeginSave(p) \/ Abandon(p) \/ WriteAndHash(p) \/ HashFails(p) \/ SaveFails(p)
               \/ StatAbsent(p) \/ Reuse(p) \/ ReuseFails(p) \/ Rename(p)
               \/ AppendRecord(p)

Next == \/ \E p \in Processes : RoundTrip(p) \/ SaveStep(p) \/ Kill(p)
        \/ PowerLoss
        \/ \E n \in DOMAIN artifacts : Writeback(n) \/ Edit(n)

Spec == Init /\ [][Next]_vars

-----------------------------------------------------------------------------
(* What a capture replays to a request of its own measurement is the       *)
(* answer that request got, or an earlier answer to the same key: "a       *)
(* snapshot and the run that produced it" disagree in no other way, and no *)
(* request goes unanswered (record.go:80-82).                              *)
ReplayIsTheRun ==
    \A p \in Processes : \A i \in DOMAIN heard[p] :
        LET replayed == Replay(recorder[p], heard[p][i].call)
        IN  /\ replayed # None
            /\ \E k \in 1 .. i : /\ Key(heard[p][k].call) = Key(heard[p][i].call)
                                 /\ heard[p][k].body = replayed
                                 /\ \A j \in 1 .. k - 1 :
                                        Key(heard[p][j].call) # Key(heard[p][k].call)

(* The artifact a stored record names is in place, loads and hashes to its *)
(* name, whatever was killed, failed, or saved the same capture at the same*)
(* time, unless it was edited or the power failed before the system had    *)
(* written it out (record.go:255-289, file.go:343-346).                    *)
EvidenceIsKept ==
    \A n \in records \ disturbed : n \in DOMAIN artifacts /\ VerifyContentHash(n)

(* A measurement loses its evidence, and with it its record, only to a     *)
(* fault, or to a body with CRLF line endings: the manifest pins the bytes *)
(* that arrived and Load hashes others (snapshot.go:226-235).              *)
OnlyCRLFIsRefused ==
    \A p \in Processes : pc[p] = "refused" =>
        \/ hash[p] \in disturbed
        \/ \E i \in DOMAIN recorder[p].entries : recorder[p].entries[i].body.eol = "crlf"

(* What was recorded can be read back: a body lives in its file "byte for  *)
(* byte as it arrived" and its hash "pins those bytes so an edited fixture *)
(* fails to load" (snapshot.go:110-114).                                   *)
CapturesLoad == \A p \in Processes : pc[p] = "refused" => hash[p] \in disturbed
=============================================================================
