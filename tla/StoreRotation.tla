--------------------------- MODULE StoreRotation ----------------------------
(***************************************************************************)
(* FileStore.Rotate (runstore/file.go) on top of RunStore: every chain     *)
(* longer than a ceiling is cut to its newest records, which are re-sealed *)
(* from Genesis and written over the file.  Corridors are visited in       *)
(* sorted order under the mutex; the first failure ends the rotation and   *)
(* leaves the corridors already done as they are.                          *)
(***************************************************************************)
EXTENDS RunStore, FiniteSetsExt

CONSTANT Ceilings   \* ceilings an operator may ask for: 0 is refused

ASSUME CeilingsAssumption == Ceilings \subseteq Nat

VARIABLES
    rot,        \* the rotation in progress
    out,        \* the corridors it has rotated: the report Rotate will return
    (* history *)
    dropped,    \* corridor -> DroppedSeqEnd of its last rotation, reported or not
    reported,   \* corridor -> DroppedSeqEnd the operator was last told
    cut         \* corridor -> a rotation of it stopped after truncating

rotVars == <<rot, out, dropped, reported, cut>>
allVars == <<vars, rotVars>>

NoRotation == [step |-> "idle", todo |-> {}, ceiling |-> 0, kept |-> <<>>]
RotInit ==
    /\ Init
    /\ rot = NoRotation
    /\ out = {}
    /\ dropped = [c \in Corridors |-> 0]
    /\ reported = [c \in Corridors |-> 0]
    /\ cut = [c \in Corridors |-> FALSE]

(* Re-sealing from the new head: prev_hash and hash move, contents do not. *)
(* Each record's new hash commits to the window up to and including it.    *)
Resealed(lines) ==
    LET contents == [i \in DOMAIN lines |-> lines[i].content]
    IN  [i \in DOMAIN lines |-> Seal(contents[i], SubSeq(contents, 1, i - 1))]

(* Mutant of Newest: the wrong end of the chain is kept. *)
Oldest(lines, n) == SubSeq(lines, 1, n)

Newest(lines, n) == SubSeq(lines, Len(lines) - n + 1, Len(lines))
Current == Min(rot.todo)

(* Mutant of ReadBack: a chain that loads is cut without being verified. *)
ReadUnverified(c) == Loads(file[c])

(* Rotate re-reads each chain from disk and verifies it before it cuts. *)
ReadBack(c) == Verifies(file[c])

(* Rotate refuses a ceiling of zero before it takes the mutex. *)
BeginRotate(n) ==
    /\ up
    /\ lock = "free"
    /\ n > 0
    /\ lock' = "rotate"
    /\ rot' = [step |-> "scan", todo |-> {c \in Corridors : tips[c] # Nil},
               ceiling |-> n, kept |-> <<>>]
    /\ UNCHANGED <<diskVars, up, tips, op, historyVars, faults, out, dropped, reported, cut>>

(* Rotate returns.  Every way but RotateDone is `return nil, err`: the      *)
(* report of the corridors already rotated is thrown away with it.          *)
EndRotate ==
    /\ lock' = "free"
    /\ rot' = NoRotation
    /\ out' = {}

(* A chain at or under the ceiling is left as it is. *)
RotateSkip ==
    /\ rot.step = "scan"
    /\ rot.todo # {}
    /\ ReadBack(Current)
    /\ Len(file[Current]) <= rot.ceiling
    /\ rot' = [rot EXCEPT !.todo = @ \ {Current}]
    /\ UNCHANGED <<vars, out, dropped, reported, cut>>

(* A chain that does not load or verify is refused, and Rotate returns. *)
RotateRefuse ==
    /\ rot.step = "scan"
    /\ rot.todo # {}
    /\ ~ReadBack(Current)
    /\ EndRotate
    /\ UNCHANGED <<diskVars, up, tips, op, historyVars, faults, dropped, reported, cut>>

(* The window is re-sealed in memory and the file is opened with O_TRUNC. *)
RotateTruncate ==
    LET c == Current IN
    /\ rot.step = "scan"
    /\ rot.todo # {}
    /\ ReadBack(c)
    /\ Len(file[c]) > rot.ceiling
    /\ rot' = [rot EXCEPT !.step = "truncated",
                          !.kept = Resealed(Newest(file[c], rot.ceiling))]
    /\ file' = [file EXCEPT ![c] = <<>>]
    /\ eol' = [eol EXCEPT ![c] = TRUE]
    /\ unsynced' = [unsynced EXCEPT ![c] = 0]
    /\ UNCHANGED <<up, lock, tips, op, historyVars, faults, out, dropped, reported, cut>>

RotateWrite ==
    LET c == Current IN
    /\ rot.step = "truncated"
    /\ rot' = [rot EXCEPT !.step = "rewritten"]
    /\ file' = [file EXCEPT ![c] = rot.kept]
    /\ unsynced' = [unsynced EXCEPT ![c] = Len(rot.kept)]
    /\ UNCHANGED <<eol, up, lock, tips, op, historyVars, faults, out, dropped, reported, cut>>

(* The write stops short: some whole lines, then perhaps a torn one.       *)
(* Rotate returns the error; the index still holds the old tip.            *)
RotateWriteFails ==
    LET c == Current IN
    /\ rot.step = "truncated"
    /\ Fault("write")
    /\ \E n \in 0..(Len(rot.kept) - 1), torn \in BOOLEAN :
         LET whole == SubSeq(rot.kept, 1, n)
         IN  /\ file' = [file EXCEPT ![c] = IF torn THEN Append(whole, Torn) ELSE whole]
             /\ eol' = [eol EXCEPT ![c] = ~torn]
             /\ unsynced' = [unsynced EXCEPT ![c] = Len(file'[c])]
    /\ residue' = [residue EXCEPT ![c] = TRUE]
    /\ cut' = [cut EXCEPT ![c] = TRUE]
    /\ EndRotate
    /\ UNCHANGED <<up, tips, op, written, acked, tampered, dropped, reported>>

(* Mutant of RotatedTips: the index keeps the tip from before the cut. *)
StaleTips(c) == tips

RotatedTips(c) == [tips EXCEPT ![c] = TipOf(rot.kept)]

(* The window is on disk: the tip is its last record, and the corridor is  *)
(* on the report Rotate holds until every corridor is done.                *)
RotateSync ==
    LET c == Current IN
    /\ rot.step = "rewritten"
    /\ unsynced' = [unsynced EXCEPT ![c] = 0]
    /\ tips' = RotatedTips(c)
    /\ dropped' = [dropped EXCEPT ![c] = rot.kept[1].content.seq - 1]
    /\ out' = out \cup {c}
    /\ residue' = [residue EXCEPT ![c] = FALSE]
    /\ rot' = [rot EXCEPT !.step = "scan", !.todo = @ \ {c}, !.kept = <<>>]
    /\ UNCHANGED <<file, eol, up, lock, op, written, acked, tampered, faults, reported, cut>>

RotateSyncFails ==
    LET c == Current IN
    /\ rot.step = "rewritten"
    /\ Fault("sync")
    /\ residue' = [residue EXCEPT ![c] = TRUE]
    /\ cut' = [cut EXCEPT ![c] = TRUE]
    /\ EndRotate
    /\ UNCHANGED <<diskVars, up, tips, op, written, acked, tampered, dropped, reported>>

(* Every corridor is done: the operator is told what was dropped of each. *)
RotateDone ==
    /\ rot.step = "scan"
    /\ rot.todo = {}
    /\ EndRotate
    /\ reported' = [c \in Corridors |-> IF c \in out THEN dropped[c] ELSE reported[c]]
    /\ UNCHANGED <<diskVars, up, tips, op, historyVars, faults, dropped, cut>>

(* The process dies; a rotation past its truncation stops there. *)
KillAnywhere ==
    /\ Kill
    /\ cut' = [c \in Corridors |->
                 cut[c] \/ (rot.step \in {"truncated", "rewritten"} /\ c = Current)]
    /\ rot' = NoRotation
    /\ out' = {}
    /\ UNCHANGED <<dropped, reported>>

RotateStep ==
    \/ \E n \in Ceilings : BeginRotate(n)
    \/ RotateSkip
    \/ RotateRefuse
    \/ RotateTruncate
    \/ RotateWrite
    \/ RotateWriteFails
    \/ RotateSync
    \/ RotateSyncFails
    \/ RotateDone

RotNext ==
    \/ RotateStep
    \/ KillAnywhere
    \/ /\ Open \/ AppendStep \/ \E c \in Corridors : LoseTail(c) \/ Edit(c)
       /\ UNCHANGED rotVars

RotSpec == RotInit /\ [][RotNext]_allVars

-----------------------------------------------------------------------------
(* A window that verifies is an unbroken run of contents the store wrote:  *)
(* rotation never blesses an edit, not even one made while it runs, and    *)
(* never leaves a hole, wherever it stops.                                 *)
VerifiedWindowIsWritten ==
    \A c \in Corridors : Verifies(file[c]) =>
       \A i \in DOMAIN file[c] :
          /\ file[c][i].content \in written[c]
          /\ i > 1 => file[c][i].content.seq = file[c][i - 1].content.seq + 1

Rotating(c) == rot.step \in {"truncated", "rewritten"} /\ c = Current

(* A rotation takes only the oldest records, and a report tells only what  *)
(* happened: on a chain nobody edited and no rotation was cut off in, every *)
(* acknowledged record past the last one a rotation dropped is durable,     *)
(* and every line is past the last one an operator was told is gone         *)
(* (file.go:512-549).  The other direction is not the code's: a drop may    *)
(* never be reported, for Rotate returns nothing but the error when a later *)
(* corridor is refused or fails (file.go:489-539).                          *)
OnlyOldestIsDropped ==
    \A c \in Corridors : ~tampered[c] /\ ~cut[c] /\ ~Rotating(c) =>
       /\ \A r \in acked[c] : r.seq > dropped[c] => Stored(c, r)
       /\ \A i \in DOMAIN file[c] :
             file[c][i] # Torn => file[c][i].content.seq > reported[c]

(* The window ends on the newest measurement, and numbering goes on from   *)
(* it after a rotation (ADR 007), with the same exception.                 *)
WindowEndsOnNewest ==
    up /\ lock = "free" =>
       \A c \in Corridors :
          ~residue[c] /\ ~tampered[c] /\ ~cut[c] /\ acked[c] # {} =>
             /\ Latest(c) # Nil
             /\ Latest(c) = TipOf(file[c])
             /\ \A r \in acked[c] : r.seq <= Latest(c).content.seq
=============================================================================
