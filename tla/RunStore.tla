------------------------------ MODULE RunStore ------------------------------
(***************************************************************************)
(* The file-backed run store of runstore/file.go: one NDJSON chain file    *)
(* per corridor, an in-memory index of chain tips, and one writer behind a *)
(* mutex.  The process may be killed, the machine may lose what was not    *)
(* synced, a write or a sync may fail, and somebody with access to the     *)
(* directory may edit a stored record.                                     *)
(*                                                                         *)
(* A file is a sequence of lines.  A line is a record, or Torn: any line   *)
(* decodeLine refuses, be it cut JSON or a schema this build does not      *)
(* know.  Blank lines are skipped by readAll and are left out.             *)
(*                                                                         *)
(* The hash of a record is the sequence of contents it commits to.  Append *)
(* is injective in both arguments and never yields <<>>, so this is the    *)
(* collision-free reading of sha256(preimage) with prev_hash inside the    *)
(* preimage, and Genesis = <<>> is the hash of no record.                  *)
(***************************************************************************)
EXTENDS Integers, Sequences, FiniteSets

CONSTANTS
    Corridors,  \* corridors, by the position of their names in sorted order
    Body,       \* what a sweep can measure
    Forged,     \* a body no sweep measured: what an editor writes
    Torn,       \* a line decodeLine refuses
    Nil,        \* the absent record
    MaxSeq,     \* bound on the records appended to one chain
    FaultKinds, \* what may go wrong in a behaviour
    MaxFaults   \* bound on failures, crashes and edits in a behaviour

ASSUME CorridorsAssumption == Corridors \subseteq Nat \ {0}
ASSUME BodyAssumption == Forged \notin Body
ASSUME FaultsAssumption ==
    FaultKinds \subseteq {"refuse", "write", "sync", "kill", "loss", "edit"}
ASSUME BoundsAssumption == MaxSeq \in Nat /\ MaxFaults \in Nat

(* The measured part of a record: everything hashed except prev_hash. *)
Content == [body : Body \cup {Forged}, seq : Nat \ {0}]
Hash == Seq(Content)
Genesis == <<>>
Digest(content, prev) == Append(prev, content)

Record == [content : Content, prev : Hash, hash : Hash]
Line == Record \cup {Torn}

ASSUME MarkersAssumption == Torn \notin Record /\ Nil \notin Record

Seal(content, prev) ==
    [content |-> content, prev |-> prev, hash |-> Digest(content, prev)]

VARIABLES
    file,       \* corridor -> lines of its chain file
    eol,        \* corridor -> the file is empty or its last byte is a newline
    unsynced,   \* corridor -> trailing lines a power loss may still take
    up,         \* a process has the store open
    lock,       \* who holds FileStore.mu: "free", "append" or "rotate"
    tips,       \* corridor -> newest record of the open store, or Nil
    op,         \* the Append in progress: its record and where it stands
    (* history *)
    written,    \* corridor -> contents the store ever put in its file
    acked,      \* corridor -> contents whose Append returned nil
    residue,    \* corridor -> an Append of this process failed after its bytes
                \*   reached the file
    tampered,   \* corridor -> somebody edited the file
    faults      \* failures, crashes and edits so far

diskVars == <<file, eol, unsynced>>
historyVars == <<written, acked, residue, tampered>>
vars == <<diskVars, up, lock, tips, op, historyVars, faults>>

Idle == [step |-> "idle", corridor |-> Nil, rec |-> Nil]
Op == [step : {"idle", "sealed", "flushed"},
       corridor : Corridors \cup {Nil}, rec : Record \cup {Nil}]

TypeOK ==
    /\ file \in [Corridors -> Seq(Line)]
    /\ eol \in [Corridors -> BOOLEAN]
    /\ unsynced \in [Corridors -> Nat]
    /\ up \in BOOLEAN
    /\ lock \in {"free", "append", "rotate"}
    /\ tips \in [Corridors -> Record \cup {Nil}]
    /\ op \in Op
    /\ written \in [Corridors -> SUBSET Content]
    /\ acked \in [Corridors -> SUBSET Content]
    /\ residue \in [Corridors -> BOOLEAN]
    /\ tampered \in [Corridors -> BOOLEAN]
    /\ faults \in Nat

-----------------------------------------------------------------------------
(* Reading a chain. *)

(* readAll: every line decodes. *)
Loads(lines) == \A i \in DOMAIN lines : lines[i] # Torn

LinkBefore(lines, i) == IF i = 1 THEN Genesis ELSE lines[i - 1].hash

(* Mutant of Verifies: nothing ties a record to the one before it. *)
HashesOnly(lines) ==
    /\ Loads(lines)
    /\ \A i \in DOMAIN lines : lines[i].hash = Digest(lines[i].content, lines[i].prev)

(* Mutant of Verifies: an undecodable line is skipped, not reported. *)
SkipsTorn(lines) ==
    \A i \in DOMAIN lines : lines[i] # Torn =>
       lines[i].hash = Digest(lines[i].content, lines[i].prev)

(* verifyChain on what readAll returned: each record hashes to its own     *)
(* hash and carries the hash of the one before it.                         *)
Verifies(lines) ==
    /\ Loads(lines)
    /\ \A i \in DOMAIN lines :
          /\ lines[i].hash = Digest(lines[i].content, lines[i].prev)
          /\ lines[i].prev = LinkBefore(lines, i)

(* The tip Open indexes for a chain, and what Latest answers from it. *)
TipOf(lines) == IF lines = <<>> THEN Nil ELSE lines[Len(lines)]
Latest(c) == tips[c]

-----------------------------------------------------------------------------
Init ==
    /\ file = [c \in Corridors |-> <<>>]
    /\ eol = [c \in Corridors |-> TRUE]
    /\ unsynced = [c \in Corridors |-> 0]
    /\ up = FALSE
    /\ lock = "free"
    /\ tips = [c \in Corridors |-> Nil]
    /\ op = Idle
    /\ written = [c \in Corridors |-> {}]
    /\ acked = [c \in Corridors |-> {}]
    /\ residue = [c \in Corridors |-> FALSE]
    /\ tampered = [c \in Corridors |-> FALSE]
    /\ faults = 0

Fault(kind) ==
    /\ kind \in FaultKinds
    /\ faults < MaxFaults
    /\ faults' = faults + 1

(* Mutant of Openable: a store opens over whatever the files hold. *)
OpensAnything == TRUE

(* OpenFS: every chain of the directory loads and verifies. *)
Openable == \A c \in Corridors : Verifies(file[c])

(* Open: every chain must load and verify, or the process does not start. *)
Open ==
    /\ ~up
    /\ Openable
    /\ up' = TRUE
    /\ tips' = [c \in Corridors |-> TipOf(file[c])]
    /\ residue' = [c \in Corridors |-> FALSE]
    /\ UNCHANGED <<diskVars, lock, op, written, acked, tampered, faults>>

(* Mutant of NextSeq: the successor repeats its tip's number. *)
SameSeq(tip) == IF tip = Nil THEN 1 ELSE tip.content.seq

NextSeq(tip) == IF tip = Nil THEN 1 ELSE tip.content.seq + 1

(* Append takes the mutex and seals the record against the tip. *)
BeginAppend(c, body) ==
    LET tip == tips[c]
        content == [body |-> body, seq |-> NextSeq(tip)]
        prev == IF tip = Nil THEN Genesis ELSE tip.hash
    IN  /\ up
        /\ lock = "free"
        /\ content.seq <= MaxSeq
        /\ lock' = "append"
        /\ op' = [step |-> "sealed", corridor |-> c, rec |-> Seal(content, prev)]
        /\ UNCHANGED <<diskVars, up, tips, historyVars, faults>>

(* Opening, stating or reading the tail of the file fails, or a write puts *)
(* nothing in it: Append returns the error with the file as it was.        *)
AppendRefused ==
    /\ op.step = "sealed"
    /\ Fault("refuse")
    /\ lock' = "free"
    /\ op' = Idle
    /\ UNCHANGED <<diskVars, up, tips, historyVars>>

(* The last line lacks its newline: write the separator first. *)
TerminateLastLine ==
    /\ op.step = "sealed"
    /\ ~eol[op.corridor]
    /\ eol' = [eol EXCEPT ![op.corridor] = TRUE]
    /\ UNCHANGED <<file, unsynced, up, lock, tips, op, historyVars, faults>>

(* Mutant of WriteLine: a write that took effect is made once more. *)
WriteLineTwice ==
    LET c == op.corridor IN
    /\ op.step = "sealed"
    /\ eol[c]
    /\ file' = [file EXCEPT ![c] = @ \o <<op.rec, op.rec>>]
    /\ unsynced' = [unsynced EXCEPT ![c] = @ + 2]
    /\ op' = [op EXCEPT !.step = "flushed"]
    /\ written' = [written EXCEPT ![c] = @ \cup {op.rec.content}]
    /\ UNCHANGED <<eol, up, lock, tips, acked, residue, tampered, faults>>

(* The record's line goes into the page cache. *)
WriteLine ==
    LET c == op.corridor IN
    /\ op.step = "sealed"
    /\ eol[c]
    /\ file' = [file EXCEPT ![c] = Append(@, op.rec)]
    /\ unsynced' = [unsynced EXCEPT ![c] = @ + 1]
    /\ op' = [op EXCEPT !.step = "flushed"]
    /\ written' = [written EXCEPT ![c] = @ \cup {op.rec.content}]
    /\ UNCHANGED <<eol, up, lock, tips, acked, residue, tampered, faults>>

(* A write that stops short: a torn line, or the whole record without its  *)
(* newline.                                                                *)
PartialWrite(c) ==
    /\ op.step = "sealed"
    /\ c = op.corridor
    /\ eol[c]
    /\ \/ /\ file' = [file EXCEPT ![c] = Append(@, Torn)]
          /\ UNCHANGED written
       \/ /\ file' = [file EXCEPT ![c] = Append(@, op.rec)]
          /\ written' = [written EXCEPT ![c] = @ \cup {op.rec.content}]
    /\ eol' = [eol EXCEPT ![c] = FALSE]
    /\ unsynced' = [unsynced EXCEPT ![c] = @ + 1]

(* Append returns the write's error; the tip stays where it was. *)
WriteFails ==
    /\ Fault("write")
    /\ \E c \in Corridors :
          /\ PartialWrite(c)
          /\ residue' = [residue EXCEPT ![c] = TRUE]
    /\ lock' = "free"
    /\ op' = Idle
    /\ UNCHANGED <<up, tips, acked, tampered>>

(* Mutant of Synced: the sync is skipped. *)
NotSynced(c) == unsynced

Synced(c) == [unsynced EXCEPT ![c] = 0]

(* The sync succeeds: the tip advances and Append returns nil. *)
SyncSucceeds ==
    LET c == op.corridor IN
    /\ op.step = "flushed"
    /\ unsynced' = Synced(c)
    /\ tips' = [tips EXCEPT ![c] = op.rec]
    /\ acked' = [acked EXCEPT ![c] = @ \cup {op.rec.content}]
    /\ lock' = "free"
    /\ op' = Idle
    /\ UNCHANGED <<file, eol, up, written, residue, tampered, faults>>

(* The sync fails: Append returns the error, the line stays in the file    *)
(* and the tip does not advance.                                           *)
SyncFails ==
    /\ op.step = "flushed"
    /\ Fault("sync")
    /\ residue' = [residue EXCEPT ![op.corridor] = TRUE]
    /\ lock' = "free"
    /\ op' = Idle
    /\ UNCHANGED <<diskVars, up, tips, written, acked, tampered>>

(* The process dies, perhaps in the middle of a write; what it wrote is    *)
(* still in the page cache.                                                *)
Kill ==
    /\ up
    /\ Fault("kill")
    /\ \/ UNCHANGED <<diskVars, written>>
       \/ \E c \in Corridors : PartialWrite(c)
    /\ up' = FALSE
    /\ lock' = "free"
    /\ op' = Idle
    /\ tips' = [c \in Corridors |-> Nil]
    /\ UNCHANGED <<acked, residue, tampered>>

(* The machine went down with the process: the last lines not yet synced   *)
(* are lost, and the first of them may survive in part.                    *)
LoseTail(c) ==
    /\ ~up
    /\ Fault("loss")
    /\ \E lost \in 1..unsynced[c] :
         LET kept == SubSeq(file[c], 1, Len(file[c]) - lost)
             first == file[c][Len(file[c]) - lost + 1]
         IN  \/ /\ file' = [file EXCEPT ![c] = kept]
                /\ eol' = [eol EXCEPT ![c] = TRUE]
             \/ \E rest \in {Torn, first} :
                   /\ file' = [file EXCEPT ![c] = Append(kept, rest)]
                   /\ eol' = [eol EXCEPT ![c] = FALSE]
    /\ unsynced' = [unsynced EXCEPT ![c] = 0]
    /\ UNCHANGED <<up, lock, tips, op, historyVars>>

(* External: somebody changes one synced record and leaves the others as   *)
(* they are: alters it, garbles it, alters it and re-seals it, or removes  *)
(* it.  The last two need a synced successor: nothing after the end of a   *)
(* chain vouches for its last record, and the store claims no more.        *)
Edit(c) ==
    /\ Fault("edit")
    /\ \E i \in 1..(Len(file[c]) - unsynced[c]) :
         LET r == file[c][i]
             forged == [r.content EXCEPT !.body = Forged]
         IN  /\ r # Torn
             /\ \/ file' = [file EXCEPT ![c][i].content = forged]
                \/ file' = [file EXCEPT ![c][i] = Torn]
                \/ /\ i < Len(file[c]) - unsynced[c]
                   /\ \/ file' = [file EXCEPT ![c][i] = Seal(forged, r.prev)]
                      \/ file' = [file EXCEPT ![c] =
                            SubSeq(@, 1, i - 1) \o SubSeq(@, i + 1, Len(@))]
    /\ tampered' = [tampered EXCEPT ![c] = TRUE]
    /\ UNCHANGED <<eol, unsynced, up, lock, tips, op, written, acked, residue>>

AppendStep ==
    \/ \E c \in Corridors, body \in Body : BeginAppend(c, body)
    \/ AppendRefused
    \/ TerminateLastLine
    \/ WriteLine
    \/ WriteFails
    \/ SyncSucceeds
    \/ SyncFails

Next ==
    \/ Open
    \/ AppendStep
    \/ Kill
    \/ \E c \in Corridors : LoseTail(c) \/ Edit(c)

Spec == Init /\ [][Next]_vars

-----------------------------------------------------------------------------
(* A chain that verifies is history the store itself wrote, without a gap: *)
(* no edit, crash or failed write makes it read otherwise.                 *)
VerifiedHistoryIsWritten ==
    \A c \in Corridors : Verifies(file[c]) =>
       /\ \A i \in DOMAIN file[c] : file[c][i].content \in written[c]
       /\ \A i \in DOMAIN file[c] : file[c][i].content.seq = i

(* Content r is in a line that no crash can take. *)
Stored(c, r) ==
    \E i \in 1..(Len(file[c]) - unsynced[c]) :
       file[c][i] # Torn /\ file[c][i].content = r

(* A record whose Append returned nil stays in the file, through failed    *)
(* writes, kills and power loss, unless somebody edits the file.           *)
AckedIsDurable ==
    \A c \in Corridors : ~tampered[c] =>
       \A r \in acked[c] : Stored(c, r)

(* No two acknowledged records of a corridor carry the same seq, across    *)
(* failures and restarts: seq is the pagination cursor of the trend API.   *)
AckedSeqUnique ==
    \A c \in Corridors : \A r, s \in acked[c] : r.seq = s.seq => r = s

(* Between operations, the index that answers Latest is the end of a file  *)
(* that verifies, unless an Append of this process failed part-way or the  *)
(* file was edited.                                                        *)
TipMatchesFile ==
    up /\ lock = "free" =>
       \A c \in Corridors : ~residue[c] /\ ~tampered[c] =>
          Verifies(file[c]) /\ Latest(c) = TipOf(file[c])

-----------------------------------------------------------------------------
(* The store as a RunLog: a chain's records before a torn line, of which   *)
(* those up to the last acknowledged one are committed.                    *)
Intact(lines) ==
    CHOOSE n \in 0..Len(lines) :
       /\ Loads(SubSeq(lines, 1, n))
       /\ n = Len(lines) \/ lines[n + 1] = Torn
Committed(c) ==
    CHOOSE n \in {0} \cup {r.seq : r \in acked[c]} : \A r \in acked[c] : r.seq <= n

Log == INSTANCE RunLog WITH
    log <- [c \in Corridors |-> [i \in 1..Intact(file[c]) |-> file[c][i].content]],
    committed <- [c \in Corridors |-> Committed(c)],
    trusted <- [c \in Corridors |-> ~residue[c] /\ ~tampered[c]]

(* The store is such a log: kills and power loss take only what was never  *)
(* acknowledged, and a restart goes on from what is left, after failed     *)
(* writes too; only while a process runs on past one, and for a corridor   *)
(* whose file was edited, is nothing promised (runstore.go:264-275).       *)
StoreIsLog == Log!Spec
=============================================================================
