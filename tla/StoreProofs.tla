----------------------------- MODULE StoreProofs -----------------------------
(***************************************************************************)
(* What the run store promises for any corridors, bodies, ceilings and     *)
(* bounds, proved: RunStore's own safety, from the inductive IInv; that a  *)
(* verified chain is the written history and that RunStore implements      *)
(* RunLog, from what the hashes of a chain commit to; what is left of that *)
(* under StoreRotation, from the inductive RotInv; and that a client of    *)
(* StoreReaders pages through it without a gap, from ReadInv.              *)
(***************************************************************************)
EXTENDS StoreReaders, FiniteSetTheorems, TLAPS

(* An Append under way holds the mutex of a running process. *)
OpOK ==
    op.step # "idle" =>
       /\ op.corridor \in Corridors
       /\ op.rec \in Record
       /\ up
       /\ lock = "append"

UnsyncedOK == \A c \in Corridors : unsynced[c] <= Len(file[c])

TypeInv == TypeOK /\ OpOK /\ UnsyncedOK

(* h commits to contents of W alone, numbered from 1. *)
HonestIn(W, h) == \A j \in 1..Len(h) : h[j] \in W /\ h[j].seq = j

(* The last line no crash can take and the lines after it: no edit makes   *)
(* one of them commit to anything but written history, nor to less of it   *)
(* than was acknowledged.                                                  *)
EndOK(c) ==
    /\ acked[c] # {} => Len(file[c]) - unsynced[c] >= 1
    /\ \A i \in 1..Len(file[c]) :
          i >= Len(file[c]) - unsynced[c] /\ file[c][i] # Torn =>
             /\ HonestIn(written[c], file[c][i].hash)
             /\ \A r \in acked[c] : r.seq <= Len(file[c][i].hash)

TipOK(c) ==
    /\ up /\ tips[c] = Nil => acked[c] = {}
    /\ tips[c] # Nil =>
          /\ tips[c].hash = Digest(tips[c].content, tips[c].prev)
          /\ HonestIn(written[c], tips[c].hash)
          /\ \A r \in acked[c] : r.seq <= tips[c].content.seq

(* The record being appended is sealed on top of the tip. *)
RecOK ==
    op.step # "idle" =>
       LET c == op.corridor IN
       /\ op.rec.hash = Digest(op.rec.content, op.rec.prev)
       /\ op.rec.prev = IF tips[c] = Nil THEN Genesis ELSE tips[c].hash
       /\ op.rec.content.seq = Len(op.rec.prev) + 1
       /\ HonestIn(written[c], op.rec.prev)
       /\ \A r \in acked[c] : r.seq < op.rec.content.seq

(* After the write its line is the file's last, unless somebody edited. *)
FlushedOK ==
    op.step = "flushed" =>
       LET c == op.corridor IN
       /\ op.rec.content \in written[c]
       /\ unsynced[c] >= 1
       /\ file[c][Len(file[c])] = op.rec

(* A chain nothing went wrong with verifies, and the tip is its end, but   *)
(* for the moment between an Append's write and its sync.                  *)
CleanOK(c) ==
    up /\ ~residue[c] /\ ~tampered[c] =>
       /\ Verifies(file[c])
       /\ ~(op.step = "flushed" /\ op.corridor = c) => tips[c] = TipOf(file[c])

IInv ==
    /\ TypeInv
    /\ \A c \in Corridors : EndOK(c) /\ TipOK(c) /\ CleanOK(c)
    /\ RecOK
    /\ FlushedOK
    /\ AckedIsDurable
    /\ AckedSeqUnique

-----------------------------------------------------------------------------
(* A sealed record is a record, and its fields are what went into it. *)
LEMMA SealType ==
    ASSUME NEW content \in Content, NEW prev \in Hash
    PROVE  /\ Seal(content, prev) \in Record
           /\ Seal(content, prev).content = content
           /\ Seal(content, prev).prev = prev
           /\ Seal(content, prev).hash = Digest(content, prev)
BY DEF Seal, Record, Hash, Digest

(* The fields of a record have their types; it is neither marker. *)
LEMMA RecordFields ==
    ASSUME NEW r \in Record
    PROVE  /\ r.content \in Content /\ r.prev \in Hash /\ r.hash \in Hash
           /\ r # Torn /\ r # Nil
           /\ r.content.seq \in Nat \ {0}
BY MarkersAssumption DEF Record, Content

(* Sequence numbers are positive. *)
LEMMA NextSeqType ==
    ASSUME NEW tip \in Record \cup {Nil}
    PROVE  NextSeq(tip) \in Nat \ {0}
BY RecordFields DEF NextSeq

(* The tip of lines that load is one of them. *)
LEMMA TipOfType ==
    ASSUME NEW lines \in Seq(Line), Loads(lines)
    PROVE  TipOf(lines) \in Record \cup {Nil}
BY DEF TipOf, Loads, Line

(* A partial write appends one line that decodes or not. *)
LEMMA PartialWriteType ==
    ASSUME TypeInv, NEW c \in Corridors, PartialWrite(c)
    PROVE  /\ file' \in [Corridors -> Seq(Line)]
           /\ eol' \in [Corridors -> BOOLEAN]
           /\ unsynced' \in [Corridors -> Nat]
           /\ written' \in [Corridors -> SUBSET Content]
           /\ UnsyncedOK'
<1>1. op.rec \in Line /\ Torn \in Line /\ op.rec.content \in Content /\ file[c] \in Seq(Line)
  BY RecordFields DEF TypeInv, TypeOK, OpOK, PartialWrite, Line
<1>2. PICK l \in Line : file' = [file EXCEPT ![c] = Append(@, l)]
  BY <1>1 DEF PartialWrite
<1>3. unsynced' = [unsynced EXCEPT ![c] = @ + 1] /\ eol' = [eol EXCEPT ![c] = FALSE]
  BY DEF PartialWrite
<1>4. file' \in [Corridors -> Seq(Line)]
  BY <1>2 DEF TypeInv, TypeOK
<1>5. written' \in [Corridors -> SUBSET Content]
  <2>1. written \in [Corridors -> SUBSET Content]
    BY DEF TypeInv, TypeOK
  <2>2. written' = written \/ written' = [written EXCEPT ![c] = @ \cup {op.rec.content}]
    BY DEF PartialWrite
  <2> QED
    BY <2>1, <2>2, <1>1
<1>6. UnsyncedOK'
  BY <1>1, <1>2, <1>3 DEF TypeInv, TypeOK, UnsyncedOK
<1>7. eol' \in [Corridors -> BOOLEAN]
  BY <1>3 DEF TypeInv, TypeOK
<1>8. unsynced' \in [Corridors -> Nat]
  BY <1>3 DEF TypeInv, TypeOK
<1> QED
  BY <1>4, <1>5, <1>6, <1>7, <1>8

(* The lines from the last synced one on, after an edit: the same ones,    *)
(* only that the last synced one may be garbled or have its content        *)
(* altered under its old hash.                                             *)
EndKept(c, lines) ==
    /\ Len(lines) - unsynced[c] >= 1
    /\ \A j \in 1..Len(lines) : j >= Len(lines) - unsynced[c] /\ lines[j] # Torn =>
          LET k == j + Len(file[c]) - Len(lines) IN
          /\ k \in 1..Len(file[c])
          /\ file[c][k] # Torn
          /\ lines[j].hash = file[c][k].hash
    /\ unsynced[c] >= 1 => lines[Len(lines)] = file[c][Len(file[c])]

(* Past the first of two sequences their concatenation is the second.      *)
LEMMA ConcatAfter ==
    ASSUME NEW S, NEW s \in Seq(S), NEW t \in Seq(S), NEW k \in 1..Len(t)
    PROVE  (s \o t)[Len(s) + k] = t[k]
OBVIOUS

(* What an edit does to a file leaves its end as EndKept describes. *)
LEMMA EditKeepsEnd ==
    ASSUME TypeInv, NEW c \in Corridors, Edit(c)
    PROVE  \E lines \in Seq(Line) :
              /\ file' = [file EXCEPT ![c] = lines]
              /\ EndKept(c, lines)
<1> DEFINE old == file[c]
           last == Len(old) - unsynced[c]
           Forge(i) == [old[i].content EXCEPT !.body = Forged]
<1>1. file \in [Corridors -> Seq(Line)] /\ old \in Seq(Line) /\ unsynced[c] \in Nat
  BY DEF TypeInv, TypeOK
<1>2. PICK i \in 1..last :
         /\ old[i] # Torn
         /\ \/ file' = [file EXCEPT ![c][i].content = Forge(i)]
            \/ file' = [file EXCEPT ![c][i] = Torn]
            \/ /\ i < last
               /\ \/ file' = [file EXCEPT ![c][i] = Seal(Forge(i), old[i].prev)]
                  \/ file' = [file EXCEPT ![c] =
                        SubSeq(@, 1, i - 1) \o SubSeq(@, i + 1, Len(@))]
  BY DEF Edit
<1>3. i \in 1..Len(old) /\ old[i] \in Record /\ Torn \in Line
  BY <1>1, <1>2 DEF Line
<1>4. Forge(i) \in Content
  BY <1>3 DEF Record, Content
<1>5. CASE file' = [file EXCEPT ![c][i].content = Forge(i)]
  <2> DEFINE lines == [old EXCEPT ![i] = [old[i] EXCEPT !.content = Forge(i)]]
  <2>1. [old[i] EXCEPT !.content = Forge(i)] \in Record
    BY <1>3, <1>4 DEF Record
  <2>2. lines \in Seq(Line) /\ Len(lines) = Len(old)
    BY <2>1, <1>1, <1>3 DEF Line
  <2>3. [old[i] EXCEPT !.content = Forge(i)].hash = old[i].hash
    BY <1>3 DEF Record
  <2>4. EndKept(c, lines)
    BY <2>2, <2>3, <1>1, <1>2, <1>3 DEF EndKept
  <2> QED
    BY <1>5, <1>1, <2>2, <2>4
<1>6. CASE file' = [file EXCEPT ![c][i] = Torn]
  <2> DEFINE lines == [old EXCEPT ![i] = Torn]
  <2>1. lines \in Seq(Line) /\ Len(lines) = Len(old)
    BY <1>1, <1>3
  <2>2. EndKept(c, lines)
    BY <2>1, <1>1, <1>2, <1>3 DEF EndKept
  <2> QED
    BY <1>6, <1>1, <2>1, <2>2
<1>7. CASE i < last /\ file' = [file EXCEPT ![c][i] = Seal(Forge(i), old[i].prev)]
  <2> DEFINE lines == [old EXCEPT ![i] = Seal(Forge(i), old[i].prev)]
  <2>1. Seal(Forge(i), old[i].prev) \in Line
    BY <1>3, <1>4, SealType, RecordFields DEF Line
  <2>2. lines \in Seq(Line) /\ Len(lines) = Len(old)
    BY <2>1, <1>1, <1>3
  <2>3. EndKept(c, lines)
    BY <2>2, <1>1, <1>3, <1>7 DEF EndKept
  <2> QED
    BY <1>7, <1>1, <2>2, <2>3
<1>8. CASE /\ i < last
           /\ file' = [file EXCEPT ![c] = SubSeq(@, 1, i - 1) \o SubSeq(@, i + 1, Len(@))]
  <2> DEFINE lines == SubSeq(old, 1, i - 1) \o SubSeq(old, i + 1, Len(old))
  <2> DEFINE before == SubSeq(old, 1, i - 1)
             after == SubSeq(old, i + 1, Len(old))
  <2>a. /\ before \in Seq(Line) /\ Len(before) = i - 1
        /\ after \in Seq(Line) /\ Len(after) = Len(old) - i
        /\ \A j \in 1..Len(after) : after[j] = old[j + i]
    BY <1>1, <1>3
  <2>b. lines = before \o after
    OBVIOUS
  <2> HIDE DEF before, after, lines
  <2>1. lines \in Seq(Line) /\ Len(lines) = Len(old) - 1
    BY <2>a, <2>b, <1>1, <1>3
  <2>2. ASSUME NEW j \in i..Len(lines)
        PROVE  lines[j] = old[j + 1]
    <3>1. j - (i - 1) \in 1..Len(after) /\ j \in Len(before) + 1..Len(before) + Len(after)
      BY <2>a, <2>1, <1>1, <1>3
    <3>2. lines[j] = after[j - (i - 1)]
      <4>1. (before \o after)[Len(before) + (j - (i - 1))] = after[j - (i - 1)]
        BY <2>a, <3>1, ConcatAfter
      <4>2. Len(before) + (j - (i - 1)) = j
        BY <2>a, <1>3, <2>1
      <4> QED
        BY <2>b, <4>1, <4>2
    <3>3. after[j - (i - 1)] = old[j - (i - 1) + i]
      BY <2>a, <3>1
    <3> QED
      BY <3>2, <3>3, <1>3, <2>1
  <2>3. EndKept(c, lines)
    BY <2>1, <2>2, <1>1, <1>3, <1>8 DEF EndKept
  <2> QED
    BY <1>8, <1>1, <2>1, <2>3 DEF lines
<1> QED
  BY <1>2, <1>5, <1>6, <1>7, <1>8

(* A power loss takes unsynced lines, and tears or keeps the first of them. *)
LEMMA LoseTailLines ==
    ASSUME TypeInv, NEW c \in Corridors, LoseTail(c)
    PROVE  \E lost \in 1..unsynced[c], lines \in Seq(Line) :
              /\ file' = [file EXCEPT ![c] = lines]
              /\ Len(lines) \in {Len(file[c]) - lost, Len(file[c]) - lost + 1}
              /\ \A i \in 1..Len(lines) : lines[i] # Torn => lines[i] = file[c][i]
              /\ \A i \in 1..(Len(file[c]) - lost) : lines[i] = file[c][i]
<1>1. PICK lost \in 1..unsynced[c] :
         \/ file' = [file EXCEPT ![c] = SubSeq(file[c], 1, Len(file[c]) - lost)]
         \/ \E rest \in {Torn, file[c][Len(file[c]) - lost + 1]} :
              file' = [file EXCEPT ![c] =
                        Append(SubSeq(file[c], 1, Len(file[c]) - lost), rest)]
  BY DEF LoseTail
<1> DEFINE kept == SubSeq(file[c], 1, Len(file[c]) - lost)
           first == file[c][Len(file[c]) - lost + 1]
<1>2. file[c] \in Seq(Line) /\ lost \in 1..Len(file[c])
  BY DEF TypeInv, TypeOK, UnsyncedOK
<1>3. /\ kept \in Seq(Line) /\ Len(kept) = Len(file[c]) - lost
      /\ \A i \in 1..Len(kept) : kept[i] = file[c][i]
  BY <1>2
<1>4. first \in Line /\ Torn \in Line
  BY <1>2 DEF Line
<1> HIDE DEF kept, first
<1>5. CASE file' = [file EXCEPT ![c] = kept]
  BY <1>3, <1>5
<1>6. ASSUME NEW rest \in {Torn, first}, file' = [file EXCEPT ![c] = Append(kept, rest)]
      PROVE  \E lines \in Seq(Line) :
              /\ file' = [file EXCEPT ![c] = lines]
              /\ Len(lines) = Len(kept) + 1
              /\ \A i \in 1..Len(lines) : lines[i] # Torn => lines[i] = file[c][i]
              /\ \A i \in 1..Len(kept) : lines[i] = file[c][i]
  <2>1. rest \in Line
    BY <1>4
  <2>2. kept \in Seq(Line) /\ Len(kept) \in Nat
    BY <1>3
  <2> DEFINE lines == Append(kept, rest)
  <2>3. lines \in Seq(Line) /\ Len(lines) = Len(kept) + 1
    BY <2>1, <2>2
  <2>4. \A i \in 1..Len(kept) : lines[i] = kept[i]
    BY <2>1, <2>2
  <2>5. lines[Len(kept) + 1] = rest
    BY <2>1, <2>2
  <2>6. rest = Torn \/ rest = file[c][Len(kept) + 1]
    BY <1>2, <1>3 DEF first
  <2>7. \A i \in 1..Len(lines) : i \in 1..Len(kept) \/ i = Len(kept) + 1
    BY <2>2, <2>3
  <2> HIDE DEF lines
  <2>8. \A i \in 1..Len(lines) : lines[i] # Torn => lines[i] = file[c][i]
    BY <2>4, <2>5, <2>6, <2>7, <1>3
  <2> QED
    BY <1>6, <1>3, <2>3, <2>4, <2>8 DEF lines
<1>7. CASE \E rest \in {Torn, first} : file' = [file EXCEPT ![c] = Append(kept, rest)]
  BY <1>3, <1>6, <1>7
<1> QED
  BY <1>1, <1>5, <1>7 DEF kept, first

(* An empty store is well-typed. *)
LEMMA TypeInit == Init => TypeInv
<1> SUFFICES ASSUME Init PROVE TypeInv
  OBVIOUS
<1>1. file \in [Corridors -> Seq(Line)] /\ unsynced \in [Corridors -> Nat] /\ UnsyncedOK
  BY DEF Init, UnsyncedOK
<1>2. /\ eol \in [Corridors -> BOOLEAN]
      /\ residue \in [Corridors -> BOOLEAN]
      /\ tampered \in [Corridors -> BOOLEAN]
  BY DEF Init
<1>3. /\ written \in [Corridors -> SUBSET Content]
      /\ acked \in [Corridors -> SUBSET Content]
  BY DEF Init
<1>4. op \in Op /\ OpOK
  BY DEF Init, Op, Idle, OpOK
<1>5. up \in BOOLEAN /\ lock \in {"free", "append", "rotate"} /\ faults \in Nat
  BY DEF Init
<1>6. tips \in [Corridors -> Record \cup {Nil}]
  BY DEF Init
<1> QED
  BY <1>1, <1>2, <1>3, <1>4, <1>5, <1>6 DEF TypeInv, TypeOK

(* No step breaks the types; one case per action of Next. *)
LEMMA TypeNext == TypeInv /\ [Next]_vars => TypeInv'
<1> SUFFICES ASSUME TypeInv, [Next]_vars
             PROVE  TypeInv'
  OBVIOUS
<1> USE DEF TypeInv
<1>1. CASE Open
  <2>1. \A c \in Corridors : TipOf(file[c]) \in Record \cup {Nil}
    BY <1>1, TipOfType DEF Open, Openable, Verifies, TypeOK
  <2> QED
    BY <1>1, <2>1 DEF Open, TypeOK, OpOK, UnsyncedOK, diskVars
<1>2. ASSUME NEW c \in Corridors, NEW body \in Body, BeginAppend(c, body)
      PROVE  TypeInv'
  <2> DEFINE tip == tips[c]
             content == [body |-> body, seq |-> NextSeq(tip)]
             prev == IF tip = Nil THEN Genesis ELSE tip.hash
  <2>1. content \in Content
    BY NextSeqType DEF Content, TypeOK
  <2>2. prev \in Hash
    BY RecordFields DEF TypeOK, Genesis, Hash
  <2>3. Seal(content, prev) \in Record
    BY <2>1, <2>2, SealType
  <2>4. op' = [step |-> "sealed", corridor |-> c, rec |-> Seal(content, prev)]
    BY <1>2 DEF BeginAppend
  <2> HIDE DEF content, prev
  <2> QED
    BY <1>2, <2>3, <2>4 DEF BeginAppend, TypeOK, OpOK, UnsyncedOK, Op, diskVars, historyVars
<1>3. CASE AppendRefused
  BY <1>3 DEF AppendRefused, Fault, TypeOK, OpOK, UnsyncedOK, Op, Idle, diskVars, historyVars
<1>4. CASE TerminateLastLine
  BY <1>4 DEF TerminateLastLine, TypeOK, OpOK, UnsyncedOK, historyVars
<1>5. CASE WriteLine
  <2>1. op.corridor \in Corridors /\ op.rec \in Line /\ op.rec \in Record /\ op.rec.content \in Content
    BY <1>5, RecordFields DEF WriteLine, OpOK, Line
  <2>2. file' \in [Corridors -> Seq(Line)]
    BY <1>5, <2>1 DEF WriteLine, TypeOK
  <2>3. written' \in [Corridors -> SUBSET Content] /\ unsynced' \in [Corridors -> Nat]
    BY <1>5, <2>1 DEF WriteLine, TypeOK
  <2>4. op' \in Op /\ OpOK'
    BY <1>5, <2>1 DEF WriteLine, TypeOK, OpOK, Op
  <2>5. UnsyncedOK'
    BY <1>5, <2>1 DEF WriteLine, TypeOK, UnsyncedOK
  <2> QED
    BY <1>5, <2>2, <2>3, <2>4, <2>5 DEF WriteLine, TypeOK
<1>6. CASE WriteFails
  <2>1. PICK c \in Corridors : PartialWrite(c) /\ residue' = [residue EXCEPT ![c] = TRUE]
    BY <1>6 DEF WriteFails
  <2> QED
    BY <1>6, <2>1, PartialWriteType DEF WriteFails, Fault, TypeOK, OpOK, Op, Idle
<1>7. CASE SyncSucceeds
  <2>1. op.corridor \in Corridors /\ op.rec \in Record /\ op.rec.content \in Content
    BY <1>7, RecordFields DEF SyncSucceeds, OpOK
  <2> QED
    BY <1>7, <2>1 DEF SyncSucceeds, Synced, TypeOK, OpOK, UnsyncedOK, Op, Idle
<1>8. CASE SyncFails
  BY <1>8 DEF SyncFails, Fault, TypeOK, OpOK, UnsyncedOK, Op, Idle, diskVars
<1>9. CASE Kill
  <2>1. /\ up' = FALSE /\ lock' = "free" /\ op' = Idle
        /\ tips' = [c \in Corridors |-> Nil]
        /\ faults' = faults + 1
        /\ UNCHANGED <<acked, residue, tampered>>
    BY <1>9 DEF Kill, Fault
  <2>a. up' \in BOOLEAN /\ lock' \in {"free", "append", "rotate"}
    BY <2>1
  <2>c. faults' \in Nat
    BY <2>1 DEF TypeOK
  <2>b. op' \in Op /\ OpOK'
    BY <2>1 DEF Op, Idle, OpOK
  <2>2. /\ up' \in BOOLEAN /\ lock' \in {"free", "append", "rotate"} /\ op' \in Op /\ OpOK'
        /\ tips' \in [Corridors -> Record \cup {Nil}] /\ faults' \in Nat
    BY <2>1, <2>a, <2>b, <2>c
  <2>3. CASE UNCHANGED <<diskVars, written>>
    BY <2>1, <2>2, <2>3 DEF TypeOK, UnsyncedOK, diskVars
  <2>4. ASSUME NEW c \in Corridors, PartialWrite(c)
        PROVE  TypeInv'
    BY <2>1, <2>2, <2>4, PartialWriteType DEF TypeOK
  <2> QED
    BY <1>9, <2>3, <2>4 DEF Kill
<1>10. ASSUME NEW c \in Corridors, LoseTail(c)
       PROVE  TypeInv'
  <2>1. PICK lines \in Seq(Line) : file' = [file EXCEPT ![c] = lines]
    BY <1>10, LoseTailLines
  <2>2. \E b \in BOOLEAN : eol' = [eol EXCEPT ![c] = b]
    BY <1>10 DEF LoseTail
  <2>5. file' \in [Corridors -> Seq(Line)] /\ eol' \in [Corridors -> BOOLEAN]
    BY <2>1, <2>2 DEF TypeOK
  <2>6. unsynced' \in [Corridors -> Nat] /\ UnsyncedOK'
    BY <1>10, <2>5 DEF LoseTail, TypeOK, UnsyncedOK
  <2> QED
    BY <1>10, <2>5, <2>6 DEF LoseTail, Fault, TypeOK, OpOK, historyVars
<1>11. ASSUME NEW c \in Corridors, Edit(c)
       PROVE  TypeInv'
  <2>1. PICK lines \in Seq(Line) :
           /\ file' = [file EXCEPT ![c] = lines]
           /\ unsynced[c] <= Len(lines)
    BY <1>11, EditKeepsEnd DEF EndKept, TypeOK
  <2> QED
    BY <1>11, <2>1 DEF Edit, Fault, TypeOK, OpOK, UnsyncedOK
<1> QED
  BY <1>1, <1>2, <1>3, <1>4, <1>5, <1>6, <1>7, <1>8, <1>9, <1>10, <1>11
     DEF Next, AppendStep, vars, diskVars, historyVars, TypeOK, OpOK, UnsyncedOK

(* The store only ever holds values of the types the code declares, under  *)
(* every failure, crash and edit.                                          *)
THEOREM TypeCorrect == Spec => []TypeOK
<1>1. Spec => []TypeInv
  BY TypeInit, TypeNext, PTL DEF Spec
<1> QED
  BY <1>1, PTL DEF TypeInv

-----------------------------------------------------------------------------
(* A hash that commits to written history still does when more is written *)
LEMMA HonestMore ==
    ASSUME NEW V, NEW W, V \subseteq W, NEW h, HonestIn(V, h)
    PROVE  HonestIn(W, h)
BY DEF HonestIn

(* Sealing the next number on written history commits to written history. *)
LEMMA HonestAppend ==
    ASSUME NEW W, NEW h \in Hash, HonestIn(W, h),
           NEW r \in Content, r \in W, r.seq = Len(h) + 1
    PROVE  HonestIn(W, Digest(r, h)) /\ Len(Digest(r, h)) = r.seq
<1>1. Digest(r, h) = Append(h, r) /\ h \in Seq(Content)
  BY DEF Digest, Hash
<1>2. Len(Append(h, r)) = Len(h) + 1 /\ Append(h, r)[Len(h) + 1] = r
  BY <1>1
<1>3. \A j \in 1..Len(h) : Append(h, r)[j] = h[j]
  BY <1>1
<1> QED
  BY <1>1, <1>2, <1>3 DEF HonestIn

(* A record sealed on written history was written, and numbers its end. *)
LEMMA HonestEnd ==
    ASSUME NEW W, NEW r \in Record, r.hash = Digest(r.content, r.prev), HonestIn(W, r.hash)
    PROVE  /\ r.content \in W
           /\ r.content.seq = Len(r.hash)
<1>1. r.content \in Content /\ r.prev \in Seq(Content) /\ r.hash = Append(r.prev, r.content)
  BY DEF Record, Digest, Hash
<1>2. Len(r.hash) \in 1..Len(r.hash) /\ r.hash[Len(r.hash)] = r.content
  BY <1>1
<1> QED
  BY <1>2 DEF HonestIn

(* What the store ever wrote, it has written for good. *)
LEMMA WrittenGrows ==
    ASSUME TypeInv, [Next]_vars, NEW c \in Corridors
    PROVE  written[c] \subseteq written'[c]
<1> USE DEF TypeInv
<1>1. written \in [Corridors -> SUBSET Content]
  BY DEF TypeOK
<1>2. ASSUME NEW d, NEW r, written' = [written EXCEPT ![d] = @ \cup {r}]
      PROVE  written[c] \subseteq written'[c]
  BY <1>1, <1>2
<1>3. ASSUME NEW d \in Corridors, PartialWrite(d)
      PROVE  written[c] \subseteq written'[c]
  BY <1>2, <1>3 DEF PartialWrite
<1>4. CASE WriteLine
  BY <1>2, <1>4 DEF WriteLine
<1>5. CASE WriteFails
  BY <1>3, <1>5 DEF WriteFails
<1>6. CASE Kill
  BY <1>3, <1>6 DEF Kill
<1>7. CASE UNCHANGED written
  BY <1>7
<1> QED
  BY <1>4, <1>5, <1>6, <1>7 DEF Next, AppendStep, vars, historyVars, Open, BeginAppend,
     AppendRefused, TerminateLastLine, SyncSucceeds, SyncFails, LoseTail, Edit

-----------------------------------------------------------------------------
(* A line joins the end of a chain: it is torn or the record being appended. *)
LEMMA GrowEnd ==
    ASSUME IInv, TypeInv', [Next]_vars, op.step = "sealed",
           NEW c \in Corridors, NEW d \in Corridors, d = op.corridor,
           NEW l \in Line, l = Torn \/ (l = op.rec /\ l.content \in written'[d]),
           file' = [file EXCEPT ![d] = Append(@, l)],
           unsynced' = [unsynced EXCEPT ![d] = @ + 1],
           UNCHANGED acked
    PROVE  EndOK(c)'
<1>1. /\ file \in [Corridors -> Seq(Line)] /\ unsynced \in [Corridors -> Nat]
      /\ file[c] \in Seq(Line) /\ EndOK(c) /\ unsynced[c] <= Len(file[c])
  BY DEF IInv, TypeInv, TypeOK, UnsyncedOK
<1>2. written[c] \subseteq written'[c]
  BY WrittenGrows DEF IInv
<1>a. \A h : HonestIn(written[c], h) => HonestIn(written'[c], h)
  BY <1>2, HonestMore
<1>3. CASE c # d
  <2>1. file'[c] = file[c] /\ unsynced'[c] = unsynced[c]
    BY <1>1, <1>3
  <2> QED
    BY <1>1, <1>a, <2>1 DEF EndOK
<1>4. CASE c = d
  <2>1. Len(file'[c]) = Len(file[c]) + 1 /\ unsynced'[c] = unsynced[c] + 1
    BY <1>1, <1>4
  <2>2. file'[c][Len(file'[c])] = l /\ \A i \in 1..Len(file[c]) : file'[c][i] = file[c][i]
    BY <1>1, <1>4
  <2>3. ASSUME l # Torn
        PROVE  /\ HonestIn(written'[c], l.hash)
               /\ \A r \in acked[c] : r.seq <= Len(l.hash)
    <3>1. l = op.rec /\ op.rec \in Record /\ op.rec.content \in Content /\ op.rec.prev \in Hash
      BY <2>3, RecordFields DEF IInv, TypeInv, OpOK
    <3>2. /\ op.rec.hash = Digest(op.rec.content, op.rec.prev)
          /\ op.rec.content.seq = Len(op.rec.prev) + 1
          /\ HonestIn(written[c], op.rec.prev)
          /\ \A r \in acked[c] : r.seq < op.rec.content.seq
      BY <1>4 DEF IInv, RecOK
    <3>3. HonestIn(written'[c], op.rec.prev)
      BY <1>2, <3>2, HonestMore
    <3>4. HonestIn(written'[c], l.hash) /\ Len(l.hash) = op.rec.content.seq
      BY <2>3, <3>1, <3>2, <3>3, <1>4, HonestAppend
    <3>5. \A r \in acked[c] : r.seq \in Nat
      BY DEF IInv, TypeInv, TypeOK, Content
    <3> QED
      BY <3>1, <3>2, <3>4, <3>5 DEF Content
  <2>4. ASSUME NEW i \in 1..Len(file[c]), i >= Len(file[c]) - unsynced[c], file[c][i] # Torn
        PROVE  /\ HonestIn(written'[c], file[c][i].hash)
               /\ \A r \in acked[c] : r.seq <= Len(file[c][i].hash)
    BY <1>1, <1>2, <2>4, HonestMore DEF EndOK
  <2> QED
    BY <1>1, <2>1, <2>2, <2>3, <2>4 DEF EndOK
<1> QED
  BY <1>3, <1>4

(* A write that stops short adds one line: a torn one, or the record. *)
LEMMA PartialWriteGrows ==
    ASSUME TypeInv, NEW d \in Corridors, PartialWrite(d)
    PROVE  /\ op.step = "sealed" /\ d = op.corridor
           /\ unsynced' = [unsynced EXCEPT ![d] = @ + 1]
           /\ \E l \in Line :
                 /\ l = Torn \/ (l = op.rec /\ l.content \in written'[d])
                 /\ file' = [file EXCEPT ![d] = Append(@, l)]
<1>1. op.step = "sealed" /\ d = op.corridor /\ unsynced' = [unsynced EXCEPT ![d] = @ + 1]
  BY DEF PartialWrite
<1>2. op.rec \in Line /\ Torn \in Line
  BY <1>1 DEF TypeInv, OpOK, Line
<1>3. written \in [Corridors -> SUBSET Content]
  BY DEF TypeInv, TypeOK
<1>4. CASE file' = [file EXCEPT ![d] = Append(@, Torn)]
  BY <1>1, <1>2, <1>4
<1>5. CASE /\ file' = [file EXCEPT ![d] = Append(@, op.rec)]
           /\ written' = [written EXCEPT ![d] = @ \cup {op.rec.content}]
  <2>1. op.rec.content \in written'[d]
    BY <1>3, <1>5
  <2> QED
    BY <1>1, <1>2, <1>5, <2>1
<1> QED
  BY <1>4, <1>5 DEF PartialWrite

(* No step spoils the end of a file. *)
LEMMA EndNext ==
    ASSUME IInv, TypeInv', [Next]_vars, NEW c \in Corridors
    PROVE  EndOK(c)'
<1>1. /\ file \in [Corridors -> Seq(Line)] /\ unsynced \in [Corridors -> Nat]
      /\ file[c] \in Seq(Line) /\ EndOK(c) /\ unsynced[c] \in Nat
      /\ unsynced[c] <= Len(file[c])
  BY DEF IInv, TypeInv, TypeOK, UnsyncedOK
<1>2. written[c] \subseteq written'[c]
  BY WrittenGrows DEF IInv
<1>a. \A h : HonestIn(written[c], h) => HonestIn(written'[c], h)
  BY <1>2, HonestMore
<1>3. CASE UNCHANGED <<file, unsynced, acked>>
  BY <1>1, <1>a, <1>3 DEF EndOK
<1>4. ASSUME NEW d \in Corridors, PartialWrite(d), UNCHANGED acked
      PROVE  EndOK(c)'
  BY <1>4, PartialWriteGrows, GrowEnd DEF IInv
<1>5. CASE WriteLine
  <2>1. /\ op.step = "sealed" /\ op.corridor \in Corridors /\ op.rec \in Line
        /\ written \in [Corridors -> SUBSET Content]
    BY <1>5 DEF WriteLine, IInv, TypeInv, TypeOK, OpOK, Line
  <2>2. /\ file' = [file EXCEPT ![op.corridor] = Append(@, op.rec)]
        /\ unsynced' = [unsynced EXCEPT ![op.corridor] = @ + 1]
        /\ written' = [written EXCEPT ![op.corridor] = @ \cup {op.rec.content}]
        /\ UNCHANGED acked
    BY <1>5 DEF WriteLine
  <2>3. op.rec.content \in written'[op.corridor]
    BY <2>1, <2>2
  <2> QED
    BY <2>1, <2>2, <2>3, GrowEnd
<1>6. CASE WriteFails
  BY <1>4, <1>6 DEF WriteFails
<1>7. CASE SyncSucceeds
  <2>1. /\ op.step = "flushed" /\ op.corridor \in Corridors
        /\ file' = file
        /\ unsynced' = [unsynced EXCEPT ![op.corridor] = 0]
        /\ acked' = [acked EXCEPT ![op.corridor] = @ \cup {op.rec.content}]
    BY <1>7 DEF SyncSucceeds, Synced, IInv, TypeInv, OpOK
  <2>2. acked \in [Corridors -> SUBSET Content]
    BY DEF IInv, TypeInv, TypeOK
  <2>3. CASE c # op.corridor
    BY <1>1, <1>a, <2>1, <2>2, <2>3 DEF EndOK
  <2>4. CASE c = op.corridor
    <3>1. unsynced'[c] = 0 /\ acked'[c] = acked[c] \cup {op.rec.content}
      BY <1>1, <2>1, <2>2, <2>4
    <3>2. /\ op.rec.content \in written[c] /\ Len(file[c]) >= 1
          /\ file[c][Len(file[c])] = op.rec /\ unsynced[c] >= 1
      BY <1>1, <2>1, <2>4 DEF IInv, FlushedOK
    <3>3. /\ op.rec \in Record /\ op.rec.content \in Content
          /\ op.rec.hash = Digest(op.rec.content, op.rec.prev)
          /\ op.rec # Torn
      BY <2>1, RecordFields DEF IInv, RecOK, TypeInv, OpOK
    <3>4. HonestIn(written[c], op.rec.hash) /\ \A r \in acked[c] : r.seq <= Len(op.rec.hash)
      BY <1>1, <3>2, <3>3 DEF EndOK
    <3>5. op.rec.content.seq = Len(op.rec.hash) /\ Len(op.rec.hash) \in Nat
      BY <3>3, <3>4, HonestEnd, RecordFields DEF Hash
    <3>6. HonestIn(written'[c], op.rec.hash)
      BY <1>2, <3>4, HonestMore
    <3> QED
      BY <1>1, <2>1, <3>1, <3>2, <3>4, <3>5, <3>6 DEF EndOK
  <2> QED
    BY <2>3, <2>4
<1>8. CASE Kill
  BY <1>3, <1>4, <1>8 DEF Kill, diskVars
<1>9. ASSUME NEW d \in Corridors, LoseTail(d)
      PROVE  EndOK(c)'
  <2>1. PICK lost \in 1..unsynced[d], lines \in Seq(Line) :
           /\ file' = [file EXCEPT ![d] = lines]
           /\ Len(lines) \in {Len(file[d]) - lost, Len(file[d]) - lost + 1}
           /\ \A i \in 1..Len(lines) : lines[i] # Torn => lines[i] = file[d][i]
    BY <1>9, LoseTailLines DEF IInv
  <2>2. unsynced' = [unsynced EXCEPT ![d] = 0] /\ UNCHANGED <<acked, written>>
    BY <1>9 DEF LoseTail, historyVars
  <2>3. CASE c # d
    BY <1>1, <2>1, <2>2, <2>3 DEF EndOK
  <2>4. CASE c = d
    <3>1. file'[c] = lines /\ unsynced'[c] = 0
      BY <1>1, <2>1, <2>2, <2>4
    <3>2. acked[c] # {} => Len(lines) >= 1
      BY <1>1, <2>1, <2>4 DEF EndOK
    <3>3. ASSUME NEW i \in 1..Len(lines), i >= Len(lines), lines[i] # Torn
          PROVE  /\ HonestIn(written[c], lines[i].hash)
                 /\ \A r \in acked[c] : r.seq <= Len(lines[i].hash)
      <4>1. i \in 1..Len(file[c]) /\ i >= Len(file[c]) - unsynced[c] /\ lines[i] = file[c][i]
        BY <1>1, <2>1, <2>4, <3>3
      <4> QED
        BY <1>1, <3>3, <4>1 DEF EndOK
    <3> QED
      BY <2>2, <3>1, <3>2, <3>3 DEF EndOK
  <2> QED
    BY <2>3, <2>4
<1>10. ASSUME NEW d \in Corridors, Edit(d)
       PROVE  EndOK(c)'
  <2>1. PICK lines \in Seq(Line) : file' = [file EXCEPT ![d] = lines] /\ EndKept(d, lines)
    BY <1>10, EditKeepsEnd DEF IInv
  <2>2. UNCHANGED <<unsynced, acked, written>>
    BY <1>10 DEF Edit
  <2>3. CASE c # d
    BY <1>1, <2>1, <2>2, <2>3 DEF EndOK
  <2>4. CASE c = d
    <3>1. file'[c] = lines
      BY <1>1, <2>1, <2>4
    <3>2. Len(lines) - unsynced[c] >= 1
      BY <2>1, <2>4 DEF EndKept
    <3>3. ASSUME NEW j \in 1..Len(lines), j >= Len(lines) - unsynced[c], lines[j] # Torn
          PROVE  /\ HonestIn(written[c], lines[j].hash)
                 /\ \A r \in acked[c] : r.seq <= Len(lines[j].hash)
      <4> DEFINE k == j + Len(file[c]) - Len(lines)
      <4>1. k \in 1..Len(file[c]) /\ file[c][k] # Torn /\ lines[j].hash = file[c][k].hash
        BY <2>1, <2>4, <3>3 DEF EndKept
      <4>2. k >= Len(file[c]) - unsynced[c]
        BY <1>1, <2>1, <3>3
      <4> HIDE DEF k
      <4> QED
        BY <1>1, <4>1, <4>2 DEF EndOK
    <3> QED
      BY <2>2, <3>1, <3>2, <3>3 DEF EndOK
  <2> QED
    BY <2>3, <2>4
<1> QED
  BY <1>3, <1>5, <1>6, <1>7, <1>8, <1>9, <1>10
     DEF Next, AppendStep, vars, diskVars, historyVars, Open, BeginAppend,
         AppendRefused, TerminateLastLine, SyncFails

(* No step makes a tip commit to anything but written history. *)
LEMMA TipNext ==
    ASSUME IInv, TypeInv', [Next]_vars, NEW c \in Corridors
    PROVE  TipOK(c)'
<1>1. /\ TipOK(c) /\ tips \in [Corridors -> Record \cup {Nil}]
      /\ acked \in [Corridors -> SUBSET Content]
      /\ file[c] \in Seq(Line) /\ unsynced[c] \in Nat
  BY DEF IInv, TypeInv, TypeOK
<1>2. \A h : HonestIn(written[c], h) => HonestIn(written'[c], h)
  BY WrittenGrows, HonestMore DEF IInv
<1>3. CASE UNCHANGED <<up, tips, acked>>
  BY <1>1, <1>2, <1>3 DEF TipOK
<1>4. CASE Open
  <2>1. Verifies(file[c]) /\ tips'[c] = TipOf(file[c]) /\ UNCHANGED <<acked, written>>
    BY <1>4 DEF Open, Openable
  <2>2. CASE file[c] = <<>>
    BY <1>1, <2>1, <2>2 DEF TipOf, TipOK, IInv, EndOK
  <2>3. CASE file[c] # <<>>
    <3>1. Len(file[c]) \in 1..Len(file[c]) /\ tips'[c] = file[c][Len(file[c])]
      BY <1>1, <2>1, <2>3 DEF TipOf
    <3>2. tips'[c] \in Record
      BY <1>1, <2>1, <3>1 DEF Verifies, Loads, Line
    <3>3. tips'[c] # Torn /\ tips'[c] # Nil
      BY <3>2, RecordFields
    <3>4. tips'[c].hash = Digest(tips'[c].content, tips'[c].prev)
      BY <2>1, <3>1 DEF Verifies
    <3>5. /\ HonestIn(written[c], tips'[c].hash)
          /\ \A r \in acked[c] : r.seq <= Len(tips'[c].hash)
      BY <1>1, <3>1, <3>3 DEF IInv, EndOK
    <3>6. tips'[c].content.seq = Len(tips'[c].hash)
      BY <3>2, <3>4, <3>5, HonestEnd
    <3> QED
      BY <2>1, <3>3, <3>4, <3>5, <3>6 DEF TipOK
  <2> QED
    BY <2>2, <2>3
<1>5. CASE SyncSucceeds
  <2>1. /\ op.step = "flushed" /\ op.corridor \in Corridors /\ op.rec \in Record
        /\ tips' = [tips EXCEPT ![op.corridor] = op.rec]
        /\ acked' = [acked EXCEPT ![op.corridor] = @ \cup {op.rec.content}]
        /\ UNCHANGED <<up, written>>
    BY <1>5 DEF SyncSucceeds, IInv, TypeInv, OpOK
  <2>2. CASE c # op.corridor
    BY <1>1, <2>1, <2>2 DEF TipOK
  <2>3. CASE c = op.corridor
    <3>1. tips'[c] = op.rec /\ acked'[c] = acked[c] \cup {op.rec.content}
      BY <1>1, <2>1, <2>3
    <3>2. /\ op.rec # Nil /\ op.rec.content \in Content /\ op.rec.prev \in Hash
          /\ op.rec.content.seq \in Nat
      BY <2>1, RecordFields
    <3>3. /\ op.rec.hash = Digest(op.rec.content, op.rec.prev)
          /\ op.rec.content.seq = Len(op.rec.prev) + 1
          /\ HonestIn(written[c], op.rec.prev)
          /\ \A r \in acked[c] : r.seq < op.rec.content.seq
          /\ op.rec.content \in written[c]
      BY <2>1, <2>3 DEF IInv, RecOK, FlushedOK
    <3>4. HonestIn(written[c], op.rec.hash)
      BY <3>2, <3>3, HonestAppend
    <3>5. \A r \in acked'[c] : r.seq <= op.rec.content.seq
      <4>1. \A r \in acked[c] : r.seq \in Nat
        BY <1>1 DEF Content
      <4> QED
        BY <3>1, <3>2, <3>3, <4>1
    <3> QED
      BY <2>1, <3>1, <3>2, <3>3, <3>4, <3>5 DEF TipOK
  <2> QED
    BY <2>2, <2>3
<1>6. CASE Kill
  <2>1. up' = FALSE /\ tips'[c] = Nil
    BY <1>6 DEF Kill
  <2> QED
    BY <2>1 DEF TipOK
<1> QED
  BY <1>3, <1>4, <1>5, <1>6
     DEF Next, AppendStep, vars, historyVars, BeginAppend, AppendRefused, WriteFails,
         TerminateLastLine, WriteLine, SyncFails, LoseTail, Edit

(* The record under way stays sealed on the tip until it is done with. *)
LEMMA RecNext ==
    ASSUME IInv, TypeInv', [Next]_vars
    PROVE  RecOK'
<1>1. /\ tips \in [Corridors -> Record \cup {Nil}] /\ RecOK /\ OpOK
      /\ acked \in [Corridors -> SUBSET Content]
  BY DEF IInv, TypeInv, TypeOK
<1>2. \A c \in Corridors : \A h : HonestIn(written[c], h) => HonestIn(written'[c], h)
  BY WrittenGrows, HonestMore DEF IInv
<1>3. CASE op'.step = "idle"
  BY <1>3 DEF RecOK
<1>4. CASE /\ op.step # "idle" /\ op'.corridor = op.corridor /\ op'.rec = op.rec
           /\ UNCHANGED <<tips, acked>>
  <2>1. op.corridor \in Corridors
    BY <1>1, <1>4 DEF OpOK
  <2> QED
    BY <1>1, <1>2, <1>4, <2>1 DEF RecOK
<1>5. ASSUME NEW c \in Corridors, NEW body \in Body, BeginAppend(c, body)
      PROVE  RecOK'
  <2> DEFINE tip == tips[c]
             content == [body |-> body, seq |-> NextSeq(tip)]
             prev == IF tip = Nil THEN Genesis ELSE tip.hash
  <2>1. /\ op' = [step |-> "sealed", corridor |-> c, rec |-> Seal(content, prev)]
        /\ up /\ UNCHANGED <<tips, acked, written>>
    BY <1>5 DEF BeginAppend, historyVars
  <2>a. content \in Content
    BY <1>1, NextSeqType DEF Content
  <2>b. prev \in Hash
    BY <1>1, RecordFields DEF Genesis, Hash
  <2>2. content \in Content /\ prev \in Hash
    BY <2>a, <2>b
  <2>3. /\ op'.rec.content = content /\ op'.rec.prev = prev
        /\ op'.rec.hash = Digest(content, prev) /\ op'.corridor = c
    BY <2>1, <2>2, SealType
  <2>4. CASE tip = Nil
    <3>1. prev = <<>> /\ NextSeq(tip) = 1 /\ acked[c] = {}
      BY <2>1, <2>4 DEF IInv, TipOK, Genesis, NextSeq
    <3> QED
      BY <2>1, <2>3, <2>4, <3>1 DEF RecOK, HonestIn
  <2>5. CASE tip # Nil
    <3>1. tip \in Record
      BY <1>1, <2>5
    <3>2. /\ tip.hash = Digest(tip.content, tip.prev) /\ HonestIn(written[c], tip.hash)
          /\ \A r \in acked[c] : r.seq <= tip.content.seq
      BY <2>5 DEF IInv, TipOK
    <3>3. tip.content.seq = Len(tip.hash) /\ tip.content.seq \in Nat
      BY <3>1, <3>2, HonestEnd, RecordFields
    <3>4. prev = tip.hash /\ NextSeq(tip) = tip.content.seq + 1
      BY <2>5 DEF NextSeq
    <3>5. \A r \in acked[c] : r.seq < NextSeq(tip)
      BY <1>1, <3>2, <3>3, <3>4 DEF Content
    <3> QED
      BY <2>1, <2>3, <2>5, <3>2, <3>3, <3>4, <3>5 DEF RecOK
  <2> QED
    BY <2>4, <2>5
<1>6. CASE Open \/ \E c \in Corridors : LoseTail(c)
  BY <1>1, <1>3, <1>6 DEF Open, LoseTail, OpOK
<1>7. CASE AppendRefused \/ WriteFails \/ SyncSucceeds \/ SyncFails \/ Kill
  BY <1>3, <1>7 DEF AppendRefused, WriteFails, SyncSucceeds, SyncFails, Kill, Idle
<1>8. CASE WriteLine
  <2>1. op \in Op
    BY DEF IInv, TypeInv, TypeOK
  <2> QED
    BY <1>4, <1>8, <2>1 DEF WriteLine, Op
<1>9. CASE TerminateLastLine \/ (\E c \in Corridors : Edit(c)) \/ UNCHANGED vars
  BY <1>3, <1>4, <1>9 DEF TerminateLastLine, Edit, vars, historyVars
<1> QED
  BY <1>5, <1>6, <1>7, <1>8, <1>9 DEF Next, AppendStep

(* Between the write and the sync the record is the last line. *)
LEMMA FlushedNext ==
    ASSUME TypeInv, FlushedOK, TypeInv', [Next]_vars
    PROVE  FlushedOK'
<1>1. /\ file \in [Corridors -> Seq(Line)] /\ unsynced \in [Corridors -> Nat]
      /\ written \in [Corridors -> SUBSET Content]
      /\ FlushedOK /\ OpOK /\ op \in Op
  BY DEF TypeInv, TypeOK
<1>2. CASE op'.step # "flushed"
  BY <1>2 DEF FlushedOK
<1>3. CASE UNCHANGED <<op, file, unsynced, written>>
  BY <1>1, <1>3 DEF FlushedOK
<1>4. CASE WriteLine
  <2> DEFINE c == op.corridor
  <2>1. /\ op.step = "sealed" /\ c \in Corridors /\ op.rec \in Record /\ op.rec \in Line
        /\ file' = [file EXCEPT ![c] = Append(@, op.rec)]
        /\ unsynced' = [unsynced EXCEPT ![c] = @ + 1]
        /\ written' = [written EXCEPT ![c] = @ \cup {op.rec.content}]
        /\ op' = [op EXCEPT !.step = "flushed"]
    BY <1>1, <1>4 DEF WriteLine, OpOK, Line
  <2>2. op'.corridor = c /\ op'.rec = op.rec
    BY <1>1, <2>1 DEF Op
  <2>3. file'[c] = Append(file[c], op.rec) /\ file[c] \in Seq(Line)
    BY <1>1, <2>1
  <2>4. Len(file'[c]) >= 1 /\ file'[c][Len(file'[c])] = op.rec
    BY <2>1, <2>3
  <2>5. unsynced'[c] >= 1 /\ op.rec.content \in written'[c]
    BY <1>1, <2>1
  <2> QED
    BY <2>2, <2>4, <2>5 DEF FlushedOK
<1>5. ASSUME NEW d \in Corridors, Edit(d), op.step = "flushed"
      PROVE  FlushedOK'
  <2>1. PICK lines \in Seq(Line) : file' = [file EXCEPT ![d] = lines] /\ EndKept(d, lines)
    BY <1>5, EditKeepsEnd
  <2>2. UNCHANGED <<op, unsynced, written>> /\ op.corridor \in Corridors
    BY <1>1, <1>5 DEF Edit, OpOK
  <2>3. CASE d # op.corridor
    BY <1>1, <2>1, <2>2, <2>3 DEF FlushedOK
  <2>4. CASE d = op.corridor
    <3>1. file'[d] = lines /\ unsynced[d] >= 1 /\ unsynced[d] \in Nat
      BY <1>1, <1>5, <2>1, <2>4 DEF FlushedOK
    <3> QED
      BY <1>1, <1>5, <2>1, <2>2, <2>4, <3>1 DEF FlushedOK, EndKept
  <2> QED
    BY <2>3, <2>4
<1>6. CASE Open \/ \E c \in Corridors : LoseTail(c) \/ Edit(c)
  BY <1>1, <1>2, <1>5, <1>6 DEF Open, LoseTail, Edit, OpOK
<1>a. CASE \E c \in Corridors, body \in Body : BeginAppend(c, body)
  <2>1. op'.step = "sealed"
    BY <1>a DEF BeginAppend
  <2> QED
    BY <1>2, <2>1
<1>7. CASE AppendRefused \/ WriteFails \/ SyncSucceeds \/ SyncFails \/ Kill
  <2>1. op' = Idle
    BY <1>7 DEF AppendRefused, WriteFails, SyncSucceeds, SyncFails, Kill
  <2> QED
    BY <1>2, <2>1 DEF Idle
<1>8. CASE TerminateLastLine \/ UNCHANGED vars
  BY <1>3, <1>8 DEF TerminateLastLine, vars, diskVars, historyVars
<1> QED
  BY <1>4, <1>6, <1>a, <1>7, <1>8 DEF Next, AppendStep

-----------------------------------------------------------------------------
(* A chain that verifies, and a record sealed on its tip, verify. *)
LEMMA VerifiesAppend ==
    ASSUME NEW lines \in Seq(Line), Verifies(lines),
           NEW rec \in Record, rec.hash = Digest(rec.content, rec.prev),
           rec.prev = IF lines = <<>> THEN Genesis ELSE lines[Len(lines)].hash
    PROVE  Verifies(Append(lines, rec)) /\ TipOf(Append(lines, rec)) = rec
<1> DEFINE more == Append(lines, rec)
<1>1. rec \in Line /\ rec # Torn
  BY RecordFields DEF Line
<1>2. /\ more \in Seq(Line) /\ Len(more) = Len(lines) + 1 /\ more[Len(lines) + 1] = rec
      /\ \A i \in 1..Len(lines) : more[i] = lines[i]
      /\ Len(lines) \in Nat
  BY <1>1
<1> HIDE DEF more
<1>3. DOMAIN more = 1..(Len(lines) + 1) /\ DOMAIN lines = 1..Len(lines) /\ more # <<>>
  BY <1>2
<1>4. ASSUME NEW i \in 1..Len(lines)
      PROVE  /\ more[i] # Torn /\ more[i].hash = Digest(more[i].content, more[i].prev)
             /\ more[i].prev = LinkBefore(more, i)
  <2>1. lines[i].prev = LinkBefore(lines, i) /\ lines[i] # Torn
        /\ lines[i].hash = Digest(lines[i].content, lines[i].prev)
    BY <1>3 DEF Verifies, Loads
  <2>2. i # 1 => i - 1 \in 1..Len(lines)
    BY <1>2
  <2> QED
    BY <1>2, <2>1, <2>2 DEF LinkBefore
<1>5. rec.prev = LinkBefore(more, Len(lines) + 1)
  <2>1. CASE lines = <<>>
    BY <2>1 DEF LinkBefore
  <2>2. CASE lines # <<>>
    <3>1. Len(lines) \in 1..Len(lines)
      BY <2>2
    <3> QED
      BY <1>2, <2>2, <3>1 DEF LinkBefore
  <2> QED
    BY <2>1, <2>2
<1>6. \A i \in DOMAIN more : i \in 1..Len(lines) \/ i = Len(lines) + 1
  BY <1>2, <1>3
<1>7. Verifies(more)
  BY <1>1, <1>2, <1>4, <1>5, <1>6 DEF Verifies, Loads
<1>8. TipOf(more) = rec
  BY <1>2, <1>3 DEF TipOf
<1> QED
  BY <1>7, <1>8 DEF more

(* What nothing went wrong with goes on verifying; one case per action. *)
LEMMA CleanNext ==
    ASSUME IInv, TypeInv', [Next]_vars, NEW c \in Corridors
    PROVE  CleanOK(c)'
<1>1. /\ file \in [Corridors -> Seq(Line)] /\ file[c] \in Seq(Line)
      /\ tips \in [Corridors -> Record \cup {Nil}]
      /\ residue \in [Corridors -> BOOLEAN] /\ tampered \in [Corridors -> BOOLEAN]
      /\ CleanOK(c) /\ OpOK /\ op \in Op
  BY DEF IInv, TypeInv, TypeOK
<1>2. CASE /\ op'.step # "flushed" /\ op.step # "flushed"
           /\ UNCHANGED <<file, tips, up, residue, tampered>>
  BY <1>1, <1>2 DEF CleanOK
<1>3. CASE Open
  <2>1. /\ UNCHANGED <<op, file>> /\ Verifies(file[c]) /\ tips'[c] = TipOf(file[c])
    BY <1>3 DEF Open, Openable, diskVars
  <2> QED
    BY <2>1 DEF CleanOK
<1>4. CASE WriteLine
  <2> DEFINE d == op.corridor
  <2>1. /\ op.step = "sealed" /\ d \in Corridors /\ op.rec \in Record
        /\ file' = [file EXCEPT ![d] = Append(@, op.rec)]
        /\ op'.step = "flushed" /\ op'.corridor = d
        /\ UNCHANGED <<up, tips, residue, tampered>>
    BY <1>1, <1>4 DEF WriteLine, OpOK, Op
  <2>2. CASE c # d
    <3>1. file'[c] = file[c]
      BY <1>1, <2>1, <2>2
    <3> QED
      BY <2>1, <3>1, <1>1 DEF CleanOK
  <2>3. ASSUME c = d, up, ~residue[c], ~tampered[c]
        PROVE  Verifies(file'[c])
    <3>1. Verifies(file[c]) /\ tips[c] = TipOf(file[c])
      BY <1>1, <2>1, <2>3 DEF CleanOK
    <3>2. /\ op.rec.hash = Digest(op.rec.content, op.rec.prev)
          /\ op.rec.prev = IF tips[c] = Nil THEN Genesis ELSE tips[c].hash
      BY <2>1, <2>3 DEF IInv, RecOK
    <3>3. file[c] # <<>> => tips[c] \in Record
      <4>1. file[c] # <<>> => Len(file[c]) \in 1..Len(file[c])
        BY <1>1
      <4> QED
        BY <1>1, <3>1, <4>1 DEF TipOf, Verifies, Loads, Line
    <3>4. op.rec.prev = IF file[c] = <<>> THEN Genesis ELSE file[c][Len(file[c])].hash
      BY <3>1, <3>2, <3>3, MarkersAssumption DEF TipOf
    <3>5. Verifies(Append(file[c], op.rec))
      BY <1>1, <2>1, <3>1, <3>2, <3>4, VerifiesAppend
    <3> QED
      BY <1>1, <2>1, <2>3, <3>5
  <2> QED
    BY <2>1, <2>2, <2>3 DEF CleanOK
<1>5. CASE SyncSucceeds
  <2> DEFINE d == op.corridor
  <2>1. /\ op.step = "flushed" /\ d \in Corridors /\ op'.step = "idle"
        /\ tips' = [tips EXCEPT ![d] = op.rec]
        /\ UNCHANGED <<file, up, residue, tampered>>
    BY <1>1, <1>5 DEF SyncSucceeds, OpOK, Idle
  <2>2. CASE c # d
    <3>1. tips'[c] = tips[c]
      BY <1>1, <2>1, <2>2
    <3> QED
      BY <1>1, <2>1, <2>2, <3>1 DEF CleanOK
  <2>3. CASE c = d
    <3>b. FlushedOK /\ unsynced[c] <= Len(file[c]) /\ Len(file[c]) \in Nat /\ unsynced[c] \in Nat
      BY DEF IInv, TypeInv, TypeOK, UnsyncedOK
    <3>a. Len(file[c]) >= 1 /\ file[c][Len(file[c])] = op.rec
      BY <2>1, <2>3, <3>b DEF FlushedOK
    <3>1. file[c] # <<>> /\ file[c][Len(file[c])] = op.rec /\ tips'[c] = op.rec
      BY <1>1, <2>1, <2>3, <3>a
    <3> QED
      BY <1>1, <2>1, <3>1 DEF CleanOK, TipOf
  <2> QED
    BY <2>2, <2>3
<1>6. CASE SyncFails
  <2> DEFINE d == op.corridor
  <2>1. /\ op.step = "flushed" /\ d \in Corridors /\ op'.step = "idle"
        /\ residue' = [residue EXCEPT ![d] = TRUE]
        /\ UNCHANGED <<file, tips, up, tampered>>
    BY <1>1, <1>6 DEF SyncFails, OpOK, Idle, diskVars
  <2>2. CASE c # d
    <3>1. residue'[c] = residue[c]
      BY <1>1, <2>1, <2>2
    <3> QED
      BY <1>1, <2>1, <2>2, <3>1 DEF CleanOK
  <2>3. CASE c = d
    <3>1. residue'[c] = TRUE
      BY <1>1, <2>1, <2>3
    <3> QED
      BY <3>1 DEF CleanOK
  <2> QED
    BY <2>2, <2>3
<1>7. CASE WriteFails
  <2>1. PICK d \in Corridors : PartialWrite(d) /\ residue' = [residue EXCEPT ![d] = TRUE]
    BY <1>7 DEF WriteFails
  <2>2. op.step = "sealed" /\ op'.step = "idle" /\ UNCHANGED <<up, tips, tampered>>
    BY <1>7, <2>1 DEF WriteFails, PartialWrite, Idle
  <2>3. CASE c # d
    <3>1. residue'[c] = residue[c] /\ file'[c] = file[c]
      BY <1>1, <2>1, <2>3, PartialWriteGrows DEF IInv
    <3> QED
      BY <1>1, <2>2, <3>1 DEF CleanOK
  <2>4. CASE c = d
    <3>1. residue'[c] = TRUE
      BY <1>1, <2>1, <2>4
    <3> QED
      BY <3>1 DEF CleanOK
  <2> QED
    BY <2>3, <2>4
<1>8. CASE Kill \/ \E d \in Corridors : LoseTail(d)
  BY <1>8 DEF Kill, LoseTail, CleanOK
<1>9. ASSUME NEW d \in Corridors, Edit(d)
      PROVE  CleanOK(c)'
  <2>1. PICK lines : file' = [file EXCEPT ![d] = lines]
    BY <1>9, EditKeepsEnd DEF IInv
  <2>2. tampered' = [tampered EXCEPT ![d] = TRUE] /\ UNCHANGED <<up, tips, op, residue>>
    BY <1>9 DEF Edit
  <2>3. CASE c # d
    <3>1. tampered'[c] = tampered[c] /\ file'[c] = file[c]
      BY <1>1, <2>1, <2>2, <2>3
    <3> QED
      BY <1>1, <2>2, <3>1 DEF CleanOK
  <2>4. CASE c = d
    <3>1. tampered'[c] = TRUE
      BY <1>1, <2>2, <2>4
    <3> QED
      BY <3>1 DEF CleanOK
  <2> QED
    BY <2>3, <2>4
<1>10. CASE AppendRefused \/ TerminateLastLine
  BY <1>1, <1>2, <1>10 DEF AppendRefused, TerminateLastLine, Idle, diskVars, historyVars
<1>a. ASSUME NEW d \in Corridors, NEW body \in Body, BeginAppend(d, body)
      PROVE  CleanOK(c)'
  <2>1. op'.step = "sealed" /\ UNCHANGED <<file, tips, up, residue, tampered>>
    BY <1>a DEF BeginAppend, diskVars, historyVars
  <2>2. op.step = "idle"
    BY <1>1, <1>a DEF BeginAppend, OpOK
  <2> QED
    BY <1>2, <2>1, <2>2
<1>11. CASE UNCHANGED vars
  BY <1>1, <1>11 DEF CleanOK, vars, diskVars, historyVars
<1> QED
  BY <1>3, <1>4, <1>5, <1>6, <1>7, <1>8, <1>9, <1>10, <1>a, <1>11 DEF Next, AppendStep

-----------------------------------------------------------------------------
(* The lines no crash can take, before and after a step that neither syncs *)
(* nor edits: the old ones are still there.                                *)
LEMMA StoredStays ==
    ASSUME TypeInv, TypeInv', NEW c \in Corridors,
           Len(file[c]) - unsynced[c] <= Len(file'[c]) - unsynced'[c],
           \A i \in 1..(Len(file[c]) - unsynced[c]) : file'[c][i] = file[c][i]
    PROVE  \A r : Stored(c, r) => Stored(c, r)'
<1>1. /\ Len(file[c]) \in Nat /\ Len(file'[c]) \in Nat
      /\ unsynced[c] \in Nat /\ unsynced'[c] \in Nat
  BY DEF TypeInv, TypeOK
<1>2. \A i \in 1..(Len(file[c]) - unsynced[c]) : i \in 1..(Len(file'[c]) - unsynced'[c])
  BY <1>1
<1> QED
  BY <1>2 DEF Stored

(* No step takes an acknowledged record off the disk. *)
LEMMA DurableNext ==
    ASSUME IInv, TypeInv', [Next]_vars
    PROVE  AckedIsDurable'
<1> SUFFICES ASSUME NEW c \in Corridors, ~tampered'[c], NEW r \in acked'[c]
             PROVE  Stored(c, r)'
  BY DEF AckedIsDurable, Stored
<1>1. /\ file \in [Corridors -> Seq(Line)] /\ file[c] \in Seq(Line)
      /\ unsynced \in [Corridors -> Nat] /\ unsynced[c] <= Len(file[c])
      /\ acked \in [Corridors -> SUBSET Content]
      /\ tampered \in [Corridors -> BOOLEAN]
      /\ Len(file[c]) \in Nat /\ unsynced[c] \in Nat
  BY DEF IInv, TypeInv, TypeOK, UnsyncedOK
<1>2. ASSUME ~tampered[c], r \in acked[c],
             Len(file[c]) - unsynced[c] <= Len(file'[c]) - unsynced'[c],
             \A i \in 1..(Len(file[c]) - unsynced[c]) : file'[c][i] = file[c][i]
      PROVE  Stored(c, r)'
  BY <1>2, StoredStays DEF IInv, AckedIsDurable
<1>3. CASE file' = file /\ unsynced' = unsynced /\ acked' = acked /\ tampered' = tampered
  BY <1>1, <1>2, <1>3
<1>4. ASSUME NEW d \in Corridors, NEW l \in Line,
             file' = [file EXCEPT ![d] = Append(@, l)],
             unsynced' = [unsynced EXCEPT ![d] = @ + 1],
             UNCHANGED <<acked, tampered>>
      PROVE  Stored(c, r)'
  <2>1. CASE c # d
    BY <1>1, <1>2, <1>4, <2>1
  <2>2. CASE c = d
    <3>1. /\ file'[c] = Append(file[c], l) /\ unsynced'[c] = unsynced[c] + 1
      BY <1>1, <1>4, <2>2
    <3>2. Len(file'[c]) = Len(file[c]) + 1 /\ \A i \in 1..Len(file[c]) : file'[c][i] = file[c][i]
      BY <1>1, <3>1
    <3> QED
      BY <1>1, <1>2, <1>4, <3>1, <3>2
  <2> QED
    BY <2>1, <2>2
<1>5. CASE WriteLine
  <2>1. op.corridor \in Corridors /\ op.rec \in Line
    BY <1>5 DEF WriteLine, IInv, TypeInv, OpOK, Line
  <2> QED
    BY <1>4, <1>5, <2>1 DEF WriteLine
<1>6. ASSUME NEW d \in Corridors, PartialWrite(d), UNCHANGED <<acked, tampered>>
      PROVE  Stored(c, r)'
  BY <1>4, <1>6, PartialWriteGrows DEF IInv
<1>7. CASE WriteFails
  BY <1>6, <1>7 DEF WriteFails
<1>8. CASE Kill
  BY <1>3, <1>6, <1>8 DEF Kill, diskVars
<1>9. CASE SyncSucceeds
  <2> DEFINE d == op.corridor
  <2>1. /\ op.step = "flushed" /\ d \in Corridors /\ op.rec \in Record
        /\ file' = file /\ tampered' = tampered
        /\ unsynced' = [unsynced EXCEPT ![d] = 0]
        /\ acked' = [acked EXCEPT ![d] = @ \cup {op.rec.content}]
    BY <1>9 DEF SyncSucceeds, Synced, IInv, TypeInv, OpOK
  <2>2. unsynced'[c] <= unsynced[c] /\ unsynced'[c] \in Nat
    BY <1>1, <2>1
  <2>3. CASE r \in acked[c]
    BY <1>1, <1>2, <2>1, <2>2, <2>3
  <2>4. CASE c = d /\ r = op.rec.content
    <3>a. FlushedOK /\ unsynced[c] <= Len(file[c]) /\ Len(file[c]) \in Nat /\ unsynced[c] \in Nat
      BY <1>1 DEF IInv
    <3>1. Len(file[c]) >= 1 /\ file[c][Len(file[c])] = op.rec
      BY <2>1, <2>4, <3>a DEF FlushedOK
    <3>2. Len(file'[c]) \in 1..(Len(file'[c]) - unsynced'[c]) /\ file'[c][Len(file'[c])] = op.rec
      BY <1>1, <2>1, <2>4, <3>1
    <3>3. op.rec # Torn
      BY <2>1, RecordFields
    <3> QED
      BY <2>4, <3>2, <3>3 DEF Stored
  <2> QED
    BY <1>1, <2>1, <2>3, <2>4
<1>10. ASSUME NEW d \in Corridors, LoseTail(d)
       PROVE  Stored(c, r)'
  <2>1. PICK lost \in 1..unsynced[d], lines \in Seq(Line) :
           /\ file' = [file EXCEPT ![d] = lines]
           /\ Len(lines) \in {Len(file[d]) - lost, Len(file[d]) - lost + 1}
           /\ \A i \in 1..(Len(file[d]) - lost) : lines[i] = file[d][i]
    BY <1>10, LoseTailLines DEF IInv
  <2>2. unsynced' = [unsynced EXCEPT ![d] = 0] /\ UNCHANGED <<acked, tampered>>
    BY <1>10 DEF LoseTail, historyVars
  <2>3. CASE c # d
    BY <1>1, <1>2, <2>1, <2>2, <2>3
  <2>4. CASE c = d
    <3>1. file'[c] = lines /\ unsynced'[c] = 0
      BY <1>1, <2>1, <2>2, <2>4
    <3> QED
      BY <1>1, <1>2, <2>1, <2>2, <2>4, <3>1
  <2> QED
    BY <2>3, <2>4
<1>11. ASSUME NEW d \in Corridors, Edit(d)
       PROVE  Stored(c, r)'
  <2>1. /\ tampered' = [tampered EXCEPT ![d] = TRUE] /\ UNCHANGED <<unsynced, acked>>
    BY <1>11 DEF Edit
  <2>2. PICK lines : file' = [file EXCEPT ![d] = lines]
    BY <1>11, EditKeepsEnd DEF IInv
  <2>3. c # d
    BY <1>1, <2>1
  <2>4. file'[c] = file[c] /\ ~tampered[c]
    BY <1>1, <2>1, <2>2, <2>3
  <2> QED
    BY <1>1, <1>2, <2>1, <2>4
<1> QED
  BY <1>3, <1>5, <1>7, <1>8, <1>9, <1>10, <1>11
     DEF Next, AppendStep, vars, diskVars, historyVars, Open, BeginAppend, AppendRefused,
         TerminateLastLine, SyncFails

(* No step acknowledges a number twice: the new one is above the others. *)
LEMMA UniqueNext ==
    ASSUME IInv, [Next]_vars
    PROVE  AckedSeqUnique'
<1>1. /\ acked \in [Corridors -> SUBSET Content] /\ AckedSeqUnique
      /\ \A c \in Corridors : \A r \in acked[c] : r.seq \in Nat
  BY DEF IInv, TypeInv, TypeOK, Content
<1>2. CASE UNCHANGED acked
  BY <1>1, <1>2 DEF AckedSeqUnique
<1>3. CASE SyncSucceeds
  <2>1. /\ op.step # "idle" /\ op.corridor \in Corridors
        /\ acked' = [acked EXCEPT ![op.corridor] = @ \cup {op.rec.content}]
        /\ op.rec.content.seq \in Nat
    BY <1>3, RecordFields DEF SyncSucceeds, IInv, TypeInv, OpOK
  <2>2. \A r \in acked[op.corridor] : r.seq < op.rec.content.seq
    BY <2>1 DEF IInv, RecOK
  <2> QED
    BY <1>1, <2>1, <2>2 DEF AckedSeqUnique
<1> QED
  BY <1>2, <1>3
     DEF Next, AppendStep, vars, historyVars, Open, BeginAppend, AppendRefused, WriteFails,
         TerminateLastLine, WriteLine, SyncFails, Kill, LoseTail, Edit

-----------------------------------------------------------------------------
(* IInv holds in the initial states and no step breaks it. *)
LEMMA Inductive == Spec => []IInv
<1>1. Init => IInv
  <2> SUFFICES ASSUME Init PROVE IInv
    OBVIOUS
  <2>1. TypeInv
    BY TypeInit
  <2>2. \A c \in Corridors : EndOK(c) /\ TipOK(c) /\ CleanOK(c)
    BY DEF Init, EndOK, TipOK, CleanOK
  <2>3. RecOK /\ FlushedOK
    BY DEF Init, Idle, RecOK, FlushedOK
  <2>4. AckedIsDurable /\ AckedSeqUnique
    BY DEF Init, AckedIsDurable, AckedSeqUnique
  <2> QED
    BY <2>1, <2>2, <2>3, <2>4 DEF IInv
<1>2. IInv /\ [Next]_vars => IInv'
  <2> SUFFICES ASSUME IInv, [Next]_vars PROVE IInv'
    OBVIOUS
  <2>1. TypeInv'
    BY TypeNext DEF IInv
  <2>2. \A c \in Corridors : (EndOK(c) /\ TipOK(c) /\ CleanOK(c))'
    BY <2>1, EndNext, TipNext, CleanNext
  <2>3. RecOK' /\ FlushedOK' /\ AckedIsDurable' /\ AckedSeqUnique'
    BY <2>1, RecNext, FlushedNext, DurableNext, UniqueNext DEF IInv
  <2> QED
    BY <2>1, <2>2, <2>3 DEF IInv
<1> QED
  BY <1>1, <1>2, PTL DEF Spec

(* An acknowledged record survives every failed write, kill and power      *)
(* loss: Append syncs before it returns nil (file.go 248-258).             *)
THEOREM Durability == Spec => []AckedIsDurable
BY Inductive, PTL DEF IInv

(* Numbering never repeats an acknowledged seq, whatever fails and whoever *)
(* edits: Append numbers against the tip (file.go 193-202).                *)
THEOREM SeqsAreUnique == Spec => []AckedSeqUnique
BY Inductive, PTL DEF IInv

(* The index Latest answers from is the end of a verified file between     *)
(* operations (file.go 60-76, 256-257, 261-268).                           *)
THEOREM IndexFollowsFile == Spec => []TipMatchesFile
<1>1. IInv => TipMatchesFile
  <2> SUFFICES ASSUME IInv, up, lock = "free", NEW c \in Corridors, ~residue[c], ~tampered[c]
               PROVE  Verifies(file[c]) /\ Latest(c) = TipOf(file[c])
    BY DEF TipMatchesFile
  <2>1. op.step = "idle"
    BY DEF IInv, TypeInv, OpOK
  <2> QED
    BY <2>1 DEF IInv, CleanOK, Latest
<1> QED
  BY Inductive, <1>1, PTL

(* The record an opened store resumes from commits, by its hash alone, to  *)
(* contents the store itself wrote, numbered from one without a gap; edits *)
(* before it do not change what it commits to (file.go 148-163).           *)
TipCommitsToHistory ==
    \A c \in Corridors : tips[c] # Nil => HonestIn(written[c], tips[c].hash)

(* Every tip of a running store commits to written history (file.go:60-76, *)
(* 198-204), which is what makes each later record vouch for it.           *)
THEOREM TipIsHonest == Spec => []TipCommitsToHistory
<1>1. IInv => TipCommitsToHistory
  BY DEF IInv, TipOK, TipCommitsToHistory
<1> QED
  BY Inductive, <1>1, PTL

-----------------------------------------------------------------------------
(* Verified chains and the log.  What the hashes of a verified chain        *)
(* commit to is shown along the chain, by the least index at which it       *)
(* would fail.                                                              *)

(* Naturals have a least element: the least of the intervals 1..n.         *)
LEMMA LeastNat ==
    ASSUME NEW X, X \subseteq Nat, X # {}
    PROVE  \E n \in X : \A m \in X : n <= m
<1> DEFINE T == {1..n : n \in X}
           R == StrictSubsetOrdering(Nat)
<1>1. T \subseteq FiniteSubsetsOf(Nat)
  <2>1. \A n \in X : 1..n \in SUBSET Nat /\ IsFiniteSet(1..n)
    BY FS_Interval
  <2> QED
    BY <2>1 DEF FiniteSubsetsOf
<1>2. T # {}
  OBVIOUS
<1>3. IsWellFoundedOn(R, FiniteSubsetsOf(Nat))
  BY FS_StrictSubsetOrderingWellFounded
<1> HIDE DEF R
<1>4. \E t \in T : \A s \in T : ~(<<s, t>> \in R)
  BY <1>1, <1>2, <1>3, WFMin
<1>5. PICK n \in X : \A m \in X : ~(<<1..m, 1..n>> \in R)
  BY <1>4
<1>6. ASSUME NEW m \in X, m < n PROVE FALSE
  <2>1. m \in Nat /\ n \in Nat
    OBVIOUS
  <2>2. 1..m \in SUBSET Nat /\ 1..n \in SUBSET Nat /\ 1..m \subseteq 1..n
    BY <1>6, <2>1
  <2>3. n \in 1..n /\ n \notin 1..m
    BY <1>6, <2>1
  <2>4. <<1..m, 1..n>> \in R
    BY <2>2, <2>3 DEF R, StrictSubsetOrdering
  <2> QED
    BY <1>5, <2>4
<1> QED
  BY <1>6


(* In a chain that verifies, the hash of the i-th record commits to the    *)
(* contents of the first i.                                                *)
LEMMA ChainCommits ==
    ASSUME NEW lines \in Seq(Line), Verifies(lines), NEW i \in 1..Len(lines)
    PROVE  /\ lines[i] \in Record
           /\ Len(lines[i].hash) = i
           /\ \A j \in 1..i : lines[i].hash[j] = lines[j].content
<1> DEFINE Good(n) == /\ Len(lines[n].hash) = n
                      /\ \A j \in 1..n : lines[n].hash[j] = lines[j].content
           Bad == {n \in 1..Len(lines) : ~Good(n)}
<1>1. \A n \in 1..Len(lines) :
         /\ lines[n] \in Record
         /\ lines[n].hash = Append(lines[n].prev, lines[n].content)
         /\ lines[n].prev = IF n = 1 THEN <<>> ELSE lines[n - 1].hash
  BY DEF Verifies, Loads, Line, Digest, LinkBefore, Genesis
<1>2. \A n \in 1..Len(lines) :
         lines[n].prev \in Seq(Content) /\ lines[n].content \in Content
  BY <1>1, RecordFields DEF Hash
<1>3. ASSUME NEW n \in 1..Len(lines), \A m \in 1..Len(lines) : m < n => Good(m)
      PROVE  Good(n)
  <2>1. /\ Len(lines[n].hash) = Len(lines[n].prev) + 1
        /\ lines[n].hash[Len(lines[n].prev) + 1] = lines[n].content
        /\ \A j \in 1..Len(lines[n].prev) : lines[n].hash[j] = lines[n].prev[j]
    <3>1. PICK before \in Seq(Content), new \in Content :
             before = lines[n].prev /\ new = lines[n].content
      BY <1>2
    <3>2. lines[n].hash = Append(before, new)
      BY <1>1, <3>1
    <3>3. /\ Len(Append(before, new)) = Len(before) + 1
          /\ Append(before, new)[Len(before) + 1] = new
          /\ \A j \in 1..Len(before) : Append(before, new)[j] = before[j]
      OBVIOUS
    <3> QED
      BY <3>1, <3>2, <3>3
  <2>2. CASE n = 1
    <3>1. lines[n].prev = <<>>
      BY <1>1, <2>2
    <3>2. Len(lines[n].prev) = 0
      BY <3>1
    <3> QED
      BY <2>1, <2>2, <3>2
  <2>3. CASE n # 1
    <3>1. n - 1 \in 1..Len(lines) /\ n - 1 < n
      BY <2>3
    <3>2. Good(n - 1) /\ lines[n].prev = lines[n - 1].hash
      BY <1>1, <1>3, <2>3, <3>1
    <3>3. Len(lines[n].prev) = n - 1 /\ \A j \in 1..(n - 1) : lines[n].prev[j] = lines[j].content
      BY <3>2
    <3>4. Len(lines[n].hash) = n /\ lines[n].hash[n] = lines[n].content
      BY <2>1, <3>3
    <3>5. \A j \in 1..n : j = n \/ j \in 1..(n - 1)
      OBVIOUS
    <3> QED
      BY <2>1, <3>3, <3>4, <3>5
  <2> QED
    BY <2>2, <2>3
<1>4. CASE Bad # {}
  <2> HIDE DEF Good
  <2>1. Bad \subseteq Nat
    OBVIOUS
  <2>2. PICK n \in Bad : \A m \in Bad : n <= m
    BY <1>4, <2>1, LeastNat
  <2>3. \A m \in 1..Len(lines) : m < n => Good(m)
    BY <2>2
  <2> QED
    BY <1>3, <2>2, <2>3
<1>5. CASE Bad = {}
  BY <1>1, <1>5
<1> QED
  BY <1>4, <1>5

(* A chain whose last hash commits to contents of W is made of them. *)
LEMMA HonestChain ==
    ASSUME NEW lines \in Seq(Line), Verifies(lines), NEW W,
           lines # <<>> => HonestIn(W, lines[Len(lines)].hash)
    PROVE  \A i \in 1..Len(lines) : lines[i].content \in W /\ lines[i].content.seq = i
<1> SUFFICES ASSUME NEW i \in 1..Len(lines)
             PROVE  lines[i].content \in W /\ lines[i].content.seq = i
  OBVIOUS
<1>1. Len(lines) \in 1..Len(lines) /\ lines # <<>>
  OBVIOUS
<1>2. /\ Len(lines[Len(lines)].hash) = Len(lines)
      /\ \A j \in 1..Len(lines) : lines[Len(lines)].hash[j] = lines[j].content
  BY <1>1, ChainCommits
<1> QED
  BY <1>1, <1>2 DEF HonestIn

(* The last line of a file that is not empty is one no edit may make lie.  *)
LEMMA EndIsHonest ==
    ASSUME IInv, NEW c \in Corridors, Verifies(file[c])
    PROVE  /\ file[c] \in Seq(Line)
           /\ file[c] # <<>> => HonestIn(written[c], file[c][Len(file[c])].hash)
<1>1. file[c] \in Seq(Line) /\ unsynced[c] \in Nat
  BY DEF IInv, TypeInv, TypeOK
<1>2. ASSUME file[c] # <<>> PROVE HonestIn(written[c], file[c][Len(file[c])].hash)
  <2>1. Len(file[c]) \in 1..Len(file[c]) /\ Len(file[c]) >= Len(file[c]) - unsynced[c]
    BY <1>1, <1>2
  <2>2. file[c][Len(file[c])] # Torn
    BY <2>1, <1>1 DEF Verifies, Loads
  <2> QED
    BY <2>1, <2>2 DEF IInv, EndOK
<1> QED
  BY <1>1, <1>2

(* A chain that verifies holds what the store wrote and nothing else, in   *)
(* order and without a gap, whatever was edited, cut or lost               *)
(* (file.go:121-163, runstore.go:264-275).                                 *)
THEOREM HistoryIsWritten == Spec => []VerifiedHistoryIsWritten
<1>1. ASSUME IInv PROVE VerifiedHistoryIsWritten
  <2> SUFFICES ASSUME NEW c \in Corridors, Verifies(file[c]), NEW i \in DOMAIN file[c]
               PROVE  file[c][i].content \in written[c] /\ file[c][i].content.seq = i
    BY DEF VerifiedHistoryIsWritten
  <2>1. i \in 1..Len(file[c])
    BY <1>1 DEF IInv, TypeInv, TypeOK
  <2> QED
    BY <1>1, <2>1, EndIsHonest, HonestChain
<1> QED
  BY <1>1, Inductive, PTL

-----------------------------------------------------------------------------
(* The records before the first torn line. *)

IsIntact(lines, n) ==
    /\ n \in 0..Len(lines)
    /\ \A i \in 1..n : lines[i] # Torn
    /\ n = Len(lines) \/ lines[n + 1] = Torn

LogOf(lines) == [i \in 1..Intact(lines) |-> lines[i].content]

(* A beginning loads when none of its lines is torn. *)
LEMMA LoadsTo ==
    ASSUME NEW lines \in Seq(Line), NEW n \in 0..Len(lines)
    PROVE  Loads(SubSeq(lines, 1, n)) <=> \A i \in 1..n : lines[i] # Torn
<1>1. Len(SubSeq(lines, 1, n)) = n /\ \A i \in 1..n : SubSeq(lines, 1, n)[i] = lines[i]
  OBVIOUS
<1>2. DOMAIN SubSeq(lines, 1, n) = 1..n
  OBVIOUS
<1> QED
  BY <1>1, <1>2 DEF Loads

(* There is such a number, and Intact is it. *)
LEMMA IntactIs ==
    ASSUME NEW lines \in Seq(Line)
    PROVE  IsIntact(lines, Intact(lines))
<1> DEFINE P(n) == Loads(SubSeq(lines, 1, n)) /\ (n = Len(lines) \/ lines[n + 1] = Torn)
           Cut == {i \in 1..Len(lines) : lines[i] = Torn}
<1>1. \A n \in 0..Len(lines) : P(n) <=> IsIntact(lines, n)
  BY LoadsTo DEF IsIntact
<1>2. \E n \in 0..Len(lines) : IsIntact(lines, n)
  <2>1. CASE Cut = {}
    <3>1. IsIntact(lines, Len(lines)) /\ Len(lines) \in 0..Len(lines)
      BY <2>1 DEF IsIntact
    <3> QED
      BY <3>1
  <2>2. CASE Cut # {}
    <3>0. Cut \subseteq Nat
      OBVIOUS
    <3>1. PICK i \in Cut : \A j \in Cut : i <= j
      BY <2>2, <3>0, LeastNat
    <3>2. i - 1 \in 0..Len(lines) /\ lines[(i - 1) + 1] = Torn
      BY <3>1
    <3>3. \A j \in 1..(i - 1) : lines[j] # Torn
      BY <3>1
    <3>4. IsIntact(lines, i - 1)
      BY <3>2, <3>3 DEF IsIntact
    <3> QED
      BY <3>2, <3>4
  <2> QED
    BY <2>1, <2>2
<1>3. \E n \in 0..Len(lines) : P(n)
  BY <1>1, <1>2
<1>4. Intact(lines) = CHOOSE n \in 0..Len(lines) : P(n)
  BY DEF Intact
<1> HIDE DEF P
<1>5. Intact(lines) \in 0..Len(lines) /\ P(Intact(lines))
  BY <1>3, <1>4
<1> QED
  BY <1>1, <1>5

(* There is one such number. *)
LEMMA IntactUnique ==
    ASSUME NEW lines \in Seq(Line), NEW n, IsIntact(lines, n)
    PROVE  Intact(lines) = n
<1>1. IsIntact(lines, Intact(lines))
  BY IntactIs
<1> QED
  BY <1>1 DEF IsIntact

(* What a line at the end of intact ones adds to the log. *)
LEMMA LogAppend ==
    ASSUME NEW lines \in Seq(Line), Intact(lines) = Len(lines), NEW l \in Line
    PROVE  /\ LogOf(lines) \in Seq(Content) /\ Len(LogOf(lines)) = Len(lines)
           /\ l = Torn =>
                 /\ Intact(Append(lines, l)) = Len(lines)
                 /\ LogOf(Append(lines, l)) = LogOf(lines)
           /\ l # Torn =>
                 /\ Intact(Append(lines, l)) = Len(lines) + 1
                 /\ LogOf(Append(lines, l)) = Append(LogOf(lines), l.content)
<1> DEFINE more == Append(lines, l)
<1>1. /\ more \in Seq(Line) /\ Len(more) = Len(lines) + 1
      /\ \A i \in 1..Len(lines) : more[i] = lines[i]
      /\ more[Len(lines) + 1] = l
  OBVIOUS
<1>2. \A i \in 1..Len(lines) : lines[i] # Torn /\ lines[i].content \in Content
  BY IntactIs, RecordFields DEF IsIntact, Line
<1>3. LogOf(lines) = [i \in 1..Len(lines) |-> lines[i].content]
  BY DEF LogOf
<1>4. LogOf(lines) \in Seq(Content) /\ Len(LogOf(lines)) = Len(lines)
  BY <1>2, <1>3
<1> HIDE DEF more
<1>5. CASE l = Torn
  <2>1. IsIntact(more, Len(lines))
    BY <1>1, <1>2, <1>5 DEF IsIntact
  <2>2. Intact(more) = Len(lines)
    BY <1>1, <2>1, IntactUnique
  <2>3. LogOf(more) = LogOf(lines)
    BY <1>1, <1>3, <2>2 DEF LogOf
  <2> QED
    BY <1>4, <1>5, <2>2, <2>3 DEF more
<1>6. CASE l # Torn
  <2>1. \A i \in 1..(Len(lines) + 1) : i \in 1..Len(lines) \/ i = Len(lines) + 1
    OBVIOUS
  <2>2. IsIntact(more, Len(lines) + 1)
    BY <1>1, <1>2, <1>6, <2>1 DEF IsIntact
  <2>3. Intact(more) = Len(lines) + 1
    BY <1>1, <2>2, IntactUnique
  <2>4. LogOf(more) = [i \in 1..(Len(lines) + 1) |-> more[i].content]
    BY <2>3 DEF LogOf
  <2>5. Append(LogOf(lines), l.content) =
           [i \in 1..(Len(lines) + 1) |-> IF i = Len(lines) + 1 THEN l.content ELSE LogOf(lines)[i]]
    BY <1>4
  <2>6. \A i \in 1..(Len(lines) + 1) :
           more[i].content = IF i = Len(lines) + 1 THEN l.content ELSE LogOf(lines)[i]
    BY <1>1, <1>3, <2>1
  <2>7. LogOf(more) = Append(LogOf(lines), l.content)
    BY <2>4, <2>5, <2>6
  <2> QED
    BY <1>4, <1>6, <2>3, <2>7 DEF more
<1> QED
  BY <1>5, <1>6

-----------------------------------------------------------------------------
(* What the refinement needs beyond IInv. *)

(* The store appends what a sweep measured, within the bound on a chain.   *)
BodyOK ==
    /\ op.step # "idle" => op.rec.content.body \in Body /\ op.rec.content.seq <= MaxSeq
    /\ \A c \in Corridors : \A r \in acked[c] : r.seq <= MaxSeq

(* Also while no process runs, at most the last line of a file nothing     *)
(* went wrong with is torn, and the others are numbered from one.          *)
IntactOK(c) ==
    ~residue[c] /\ ~tampered[c] =>
       /\ Intact(file[c]) >= Len(file[c]) - 1
       /\ \A i \in 1..Intact(file[c]) : file[c][i].content.seq = i

LogInv == IInv /\ BodyOK /\ \A c \in Corridors : IntactOK(c)

(* No step appends a body nobody measured or exceeds the bound. *)
LEMMA BodyNext == IInv /\ BodyOK /\ [Next]_vars => BodyOK'
<1> SUFFICES ASSUME IInv, BodyOK, [Next]_vars PROVE BodyOK'
  OBVIOUS
<1>1. /\ acked \in [Corridors -> SUBSET Content] /\ tips \in [Corridors -> Record \cup {Nil}]
      /\ op \in Op /\ (op.step # "idle" => op.corridor \in Corridors)
  BY DEF IInv, TypeInv, TypeOK, OpOK
<1>2. CASE UNCHANGED <<op, acked>>
  BY <1>2 DEF BodyOK
<1>3. CASE op' = Idle /\ acked' = acked
  BY <1>3 DEF BodyOK, Idle
<1>4. ASSUME NEW c \in Corridors, NEW body \in Body, BeginAppend(c, body)
      PROVE  BodyOK'
  <2> DEFINE content == [body |-> body, seq |-> NextSeq(tips[c])]
  <2>1. /\ op'.rec.content = content /\ content.seq <= MaxSeq
        /\ acked' = acked
    BY <1>4 DEF BeginAppend, Seal, historyVars
  <2> QED
    BY <2>1 DEF BodyOK
<1>5. CASE WriteLine
  <2>1. op'.rec = op.rec /\ op.step # "idle" /\ acked' = acked
    BY <1>1, <1>5 DEF WriteLine, Op
  <2> QED
    BY <2>1 DEF BodyOK
<1>6. CASE SyncSucceeds
  <2>1. /\ op' = Idle /\ op.step # "idle"
        /\ acked' = [acked EXCEPT ![op.corridor] = @ \cup {op.rec.content}]
    BY <1>6 DEF SyncSucceeds
  <2> QED
    BY <1>1, <2>1 DEF BodyOK, Idle
<1> QED
  BY <1>2, <1>3, <1>4, <1>5, <1>6
     DEF Next, AppendStep, vars, historyVars, Open, AppendRefused, WriteFails, SyncFails,
         TerminateLastLine, Kill, LoseTail, Edit

(* A chain that verifies is all log. *)
LEMMA VerifiesIntact ==
    ASSUME NEW lines \in Seq(Line), Verifies(lines)
    PROVE  Intact(lines) = Len(lines)
<1>1. IsIntact(lines, Len(lines))
  BY DEF IsIntact, Verifies, Loads
<1> QED
  BY <1>1, IntactUnique

(* The chain of a corridor that verifies is all log, numbered from one. *)
LEMMA CleanChain ==
    ASSUME IInv, NEW c \in Corridors, Verifies(file[c])
    PROVE  /\ file[c] \in Seq(Line)
           /\ Intact(file[c]) = Len(file[c])
           /\ \A i \in 1..Len(file[c]) : file[c][i].content.seq = i
BY EndIsHonest, HonestChain, VerifiesIntact

(* The record under way is sealed on the end of a clean chain. *)
LEMMA SealedNext ==
    ASSUME IInv, op.step = "sealed", NEW c \in Corridors, c = op.corridor,
           ~residue[c], ~tampered[c]
    PROVE  /\ Verifies(file[c])
           /\ op.rec.content.seq = Len(file[c]) + 1
<1>1. file[c] \in Seq(Line) /\ up /\ tips \in [Corridors -> Record \cup {Nil}]
  BY DEF IInv, TypeInv, TypeOK, OpOK
<1>2. Verifies(file[c]) /\ tips[c] = TipOf(file[c])
  BY <1>1 DEF IInv, CleanOK
<1>3. /\ op.rec.prev = IF tips[c] = Nil THEN Genesis ELSE tips[c].hash
      /\ op.rec.content.seq = Len(op.rec.prev) + 1
  BY DEF IInv, RecOK
<1>4. CASE file[c] = <<>>
  BY <1>2, <1>3, <1>4 DEF TipOf, Genesis
<1>5. CASE file[c] # <<>>
  <2>1. Len(file[c]) \in 1..Len(file[c]) /\ tips[c] = file[c][Len(file[c])]
    BY <1>1, <1>2, <1>5 DEF TipOf
  <2>2. tips[c] \in Record /\ Len(tips[c].hash) = Len(file[c])
    BY <1>1, <1>2, <2>1, ChainCommits
  <2> QED
    BY <1>2, <1>3, <2>2, RecordFields
<1> QED
  BY <1>4, <1>5

(* After its write the record under way is the end of a clean chain. *)
LEMMA FlushedEnd ==
    ASSUME IInv, op.step = "flushed", NEW c \in Corridors, c = op.corridor,
           ~residue[c], ~tampered[c]
    PROVE  /\ Verifies(file[c])
           /\ op.rec.content.seq = Len(file[c])
<1>1. /\ file[c] \in Seq(Line) /\ up /\ unsynced[c] \in Nat /\ unsynced[c] <= Len(file[c])
      /\ unsynced[c] >= 1 /\ file[c][Len(file[c])] = op.rec
  BY DEF IInv, TypeInv, TypeOK, OpOK, UnsyncedOK, FlushedOK
<1>2. Verifies(file[c]) /\ Len(file[c]) \in 1..Len(file[c])
  BY <1>1 DEF IInv, CleanOK
<1> QED
  BY <1>1, <1>2, CleanChain

(* A power loss leaves a beginning of the log, which holds what no crash   *)
(* can take.                                                               *)
LEMMA LossCuts ==
    ASSUME LogInv, NEW c \in Corridors, LoseTail(c), ~residue[c], ~tampered[c]
    PROVE  /\ file'[c] \in Seq(Line)
           /\ Intact(file'[c]) <= Intact(file[c])
           /\ Intact(file'[c]) >= Len(file[c]) - unsynced[c]
           /\ Intact(file'[c]) >= Len(file'[c]) - 1
           /\ \A i \in 1..Intact(file'[c]) : file'[c][i] = file[c][i]
<1>1. /\ file \in [Corridors -> Seq(Line)] /\ file[c] \in Seq(Line)
      /\ unsynced[c] \in Nat /\ unsynced[c] <= Len(file[c])
  BY DEF LogInv, IInv, TypeInv, TypeOK, UnsyncedOK
<1>2. PICK lost \in 1..unsynced[c], lines \in Seq(Line) :
         /\ file' = [file EXCEPT ![c] = lines]
         /\ Len(lines) \in {Len(file[c]) - lost, Len(file[c]) - lost + 1}
         /\ \A i \in 1..Len(lines) : lines[i] # Torn => lines[i] = file[c][i]
         /\ \A i \in 1..(Len(file[c]) - lost) : lines[i] = file[c][i]
  BY LoseTailLines DEF LogInv, IInv
<1> DEFINE kept == Len(file[c]) - lost
           n == Intact(file[c])
<1>3. file'[c] = lines
  BY <1>1, <1>2
<1>4. IsIntact(file[c], n) /\ n >= Len(file[c]) - 1
  BY <1>1, IntactIs DEF LogInv, IntactOK
<1>5. kept \in 0..n
  BY <1>1, <1>4 DEF IsIntact
<1>6. \A i \in 1..kept : lines[i] # Torn
  BY <1>2, <1>4, <1>5 DEF IsIntact
<1>7. CASE Len(lines) = kept \/ lines[kept + 1] = Torn
  <2>1. IsIntact(lines, kept)
    BY <1>2, <1>5, <1>6, <1>7 DEF IsIntact
  <2>2. Intact(lines) = kept
    BY <2>1, IntactUnique
  <2> QED
    BY <1>1, <1>2, <1>3, <1>5, <2>2
<1>8. CASE Len(lines) = kept + 1 /\ lines[kept + 1] # Torn
  <2>1. kept + 1 \in 1..Len(lines) /\ lines[kept + 1] = file[c][kept + 1]
    BY <1>2, <1>5, <1>8
  <2>2. kept + 1 <= n
    BY <1>1, <1>4, <1>5, <1>8, <2>1 DEF IsIntact
  <2>3. \A i \in 1..(kept + 1) : i \in 1..kept \/ i = kept + 1
    BY <1>5
  <2>4. IsIntact(lines, kept + 1)
    BY <1>5, <1>6, <1>8, <2>3 DEF IsIntact
  <2>5. Intact(lines) = kept + 1
    BY <2>4, IntactUnique
  <2> QED
    BY <1>1, <1>2, <1>3, <1>5, <2>1, <2>2, <2>3, <2>5
<1> QED
  BY <1>2, <1>7, <1>8

(* While a process runs, a file nothing went wrong with verifies. *)
LEMMA RunningIntact ==
    ASSUME TypeInv, NEW c \in Corridors, EndOK(c), CleanOK(c), up
    PROVE  IntactOK(c)
<1> SUFFICES ASSUME ~residue[c], ~tampered[c]
             PROVE  /\ Intact(file[c]) >= Len(file[c]) - 1
                    /\ \A i \in 1..Intact(file[c]) : file[c][i].content.seq = i
  BY DEF IntactOK
<1>1. file[c] \in Seq(Line) /\ unsynced[c] \in Nat /\ Verifies(file[c])
  BY DEF TypeInv, TypeOK, CleanOK
<1>2. ASSUME file[c] # <<>> PROVE HonestIn(written[c], file[c][Len(file[c])].hash)
  <2>1. Len(file[c]) \in 1..Len(file[c]) /\ Len(file[c]) >= Len(file[c]) - unsynced[c]
    BY <1>1, <1>2
  <2>2. file[c][Len(file[c])] # Torn
    BY <2>1, <1>1 DEF Verifies, Loads
  <2> QED
    BY <2>1, <2>2 DEF EndOK
<1>3. \A i \in 1..Len(file[c]) : file[c][i].content.seq = i
  BY <1>1, <1>2, HonestChain
<1>4. Intact(file[c]) = Len(file[c])
  BY <1>1, VerifiesIntact
<1> QED
  BY <1>1, <1>3, <1>4

(* The same of the state after a step. *)
LEMMA RunningIntactNext ==
    ASSUME TypeInv', NEW c \in Corridors, EndOK(c)', CleanOK(c)', up'
    PROVE  IntactOK(c)'
BY RunningIntact, PTL

(* What a write cut short adds to the log of a clean chain. *)
LEMMA PartialExtends ==
    ASSUME IInv, NEW c \in Corridors, PartialWrite(c), ~residue[c], ~tampered[c]
    PROVE  /\ Intact(file[c]) = Len(file[c])
           /\ Intact(file'[c]) >= Len(file'[c]) - 1
           /\ \A i \in 1..Intact(file'[c]) : file'[c][i].content.seq = i
           /\ \/ LogOf(file'[c]) = LogOf(file[c])
              \/ /\ LogOf(file'[c]) = Append(LogOf(file[c]), op.rec.content)
                 /\ op.rec.content.seq = Len(LogOf(file[c])) + 1
<1>1. /\ file \in [Corridors -> Seq(Line)] /\ file[c] \in Seq(Line)
      /\ op.step = "sealed" /\ c = op.corridor /\ op.rec \in Record
  BY DEF IInv, TypeInv, TypeOK, OpOK, PartialWrite
<1>2. Verifies(file[c]) /\ op.rec.content.seq = Len(file[c]) + 1
  BY <1>1, SealedNext
<1>3. /\ Intact(file[c]) = Len(file[c])
      /\ \A i \in 1..Len(file[c]) : file[c][i].content.seq = i
  BY <1>2, CleanChain
<1>4. PICK l \in {Torn, op.rec} : file'[c] = Append(file[c], l)
  BY <1>1 DEF PartialWrite
<1>5. l \in Line /\ op.rec # Torn
  BY <1>1, RecordFields DEF Line
<1>6. /\ Len(file'[c]) = Len(file[c]) + 1 /\ file'[c][Len(file[c]) + 1] = l
      /\ \A i \in 1..Len(file[c]) : file'[c][i] = file[c][i]
  BY <1>1, <1>4, <1>5
<1>7. \A i \in 1..(Len(file[c]) + 1) : i \in 1..Len(file[c]) \/ i = Len(file[c]) + 1
  BY <1>1
<1>8. CASE l = Torn
  BY <1>1, <1>3, <1>4, <1>5, <1>6, <1>8, LogAppend
<1>9. CASE l = op.rec
  BY <1>1, <1>2, <1>3, <1>4, <1>5, <1>6, <1>7, <1>9, LogAppend
<1> QED
  BY <1>8, <1>9

(* No step tears more than the last line of such a file. *)
LEMMA IntactNext ==
    ASSUME LogInv, IInv', [Next]_vars, NEW c \in Corridors
    PROVE  IntactOK(c)'
<1>1. /\ file \in [Corridors -> Seq(Line)] /\ residue \in [Corridors -> BOOLEAN]
      /\ tampered \in [Corridors -> BOOLEAN] /\ up \in BOOLEAN /\ up' \in BOOLEAN
      /\ IInv /\ IntactOK(c)
  BY DEF LogInv, IInv, TypeInv, TypeOK
<1>2. CASE up'
  BY <1>2, RunningIntactNext DEF IInv
<1>3. CASE file'[c] = file[c] /\ residue'[c] = residue[c] /\ tampered'[c] = tampered[c]
  BY <1>1, <1>3 DEF IntactOK
<1>4. ASSUME NEW d \in Corridors, PartialWrite(d), Kill
      PROVE  IntactOK(c)'
  <2>1. residue' = residue /\ tampered' = tampered
    BY <1>4 DEF Kill
  <2>2. CASE c = d
    BY <1>1, <1>4, <2>1, <2>2, PartialExtends DEF IntactOK
  <2>3. CASE c # d
    BY <1>1, <1>3, <1>4, <2>1, <2>3, PartialWriteGrows DEF IInv
  <2> QED
    BY <2>2, <2>3
<1>5. ASSUME NEW d \in Corridors, LoseTail(d)
      PROVE  IntactOK(c)'
  <2>1. residue' = residue /\ tampered' = tampered
    BY <1>5 DEF LoseTail, historyVars
  <2>2. CASE c = d
    <3> SUFFICES ASSUME ~residue[c], ~tampered[c]
                 PROVE  /\ Intact(file'[c]) >= Len(file'[c]) - 1
                        /\ \A i \in 1..Intact(file'[c]) : file'[c][i].content.seq = i
      BY <2>1 DEF IntactOK
    <3>1. /\ file'[c] \in Seq(Line) /\ file[c] \in Seq(Line)
          /\ Intact(file'[c]) <= Intact(file[c])
          /\ Intact(file'[c]) >= Len(file'[c]) - 1
          /\ \A i \in 1..Intact(file'[c]) : file'[c][i] = file[c][i]
      BY <1>1, <1>5, <2>2, LossCuts
    <3>2. Intact(file'[c]) \in Nat /\ Intact(file[c]) \in Nat
      BY <3>1, IntactIs DEF IsIntact
    <3>3. \A i \in 1..Intact(file'[c]) : i \in 1..Intact(file[c])
      BY <3>1, <3>2
    <3> QED
      BY <1>1, <3>1, <3>3 DEF IntactOK
  <2>3. CASE c # d
    <3>1. file'[c] = file[c]
      BY <1>1, <1>5, <2>3, LoseTailLines DEF IInv
    <3> QED
      BY <1>3, <2>1, <3>1
  <2> QED
    BY <2>2, <2>3
<1>6. ASSUME NEW d \in Corridors, Edit(d)
      PROVE  IntactOK(c)'
  <2>1. /\ \E lines : file' = [file EXCEPT ![d] = lines]
        /\ tampered' = [tampered EXCEPT ![d] = TRUE] /\ residue' = residue
    BY <1>1, <1>6, EditKeepsEnd DEF Edit, IInv
  <2>2. CASE c = d
    BY <1>1, <2>1, <2>2 DEF IntactOK
  <2>3. CASE c # d
    BY <1>1, <1>3, <2>1, <2>3
  <2> QED
    BY <2>2, <2>3
<1>7. CASE Kill /\ UNCHANGED <<diskVars, written>>
  BY <1>3, <1>7 DEF Kill, diskVars
<1>8. CASE UNCHANGED vars
  BY <1>3, <1>8 DEF vars, diskVars, historyVars
<1>9. ASSUME ~up', ~Kill, \A d \in Corridors : ~LoseTail(d) /\ ~Edit(d)
      PROVE  UNCHANGED vars
  <2>1. ~up => op.step = "idle"
    BY DEF LogInv, IInv, TypeInv, OpOK
  <2>2. CASE up
    BY <1>9, <2>2 DEF Next, AppendStep, Open, BeginAppend, AppendRefused, TerminateLastLine, WriteLine,
       WriteFails, SyncSucceeds, SyncFails, vars
  <2>3. CASE ~up
    <3>1. ~Open
      BY <1>9 DEF Open
    <3>2. ~AppendStep
      BY <2>1, <2>3 DEF AppendStep, BeginAppend, AppendRefused, TerminateLastLine, WriteLine,
         WriteFails, PartialWrite, SyncSucceeds, SyncFails
    <3> QED
      BY <1>9, <3>1, <3>2 DEF Next
  <2> QED
    BY <2>2, <2>3
<1> QED
  BY <1>2, <1>4, <1>5, <1>6, <1>7, <1>8, <1>9 DEF Kill

-----------------------------------------------------------------------------
(* The steps of RunLog in terms of the store's variables. *)

Trusted(c) == ~residue[c] /\ ~tampered[c]

(* The log of c says what it said. *)
Untouched(c) ==
    /\ LogOf(file'[c]) = LogOf(file[c])
    /\ Committed(c)' = Committed(c)
    /\ Trusted(c)' = Trusted(c)

UntouchedBut(c) == \A d \in Corridors \ {c} : Untouched(d)

(* Nothing a corridor depends on changes: its log says what it said. *)
LEMMA Unchanged ==
    ASSUME NEW c, file'[c] = file[c], acked'[c] = acked[c],
           residue'[c] = residue[c], tampered'[c] = tampered[c]
    PROVE  Untouched(c)
BY DEF Untouched, LogOf, Committed, Trusted

(* That is what RunLog calls the same. *)
LEMMA UntouchedSame ==
    ASSUME NEW c \in Corridors, Untouched(c)
    PROVE  Log!Same(c)
BY DEF Log!Same, Untouched, LogOf, Trusted

(* When it holds of all corridors, RunLog stutters. *)
LEMMA Stutters ==
    ASSUME \A c \in Corridors : Untouched(c)
    PROVE  UNCHANGED Log!logVars
BY DEF Log!logVars, Untouched, LogOf, Trusted

(* RunLog extends the log of c. *)
LEMMA Extends ==
    ASSUME NEW c \in Corridors, NEW b \in Body, UntouchedBut(c),
           acked'[c] = acked[c], Trusted(c), Trusted(c)',
           LogOf(file'[c]) = Append(LogOf(file[c]), [body |-> b, seq |-> Len(LogOf(file[c])) + 1])
    PROVE  Log!Extend(c)
<1>1. \A d \in Corridors : d # c => LogOf(file'[d]) = LogOf(file[d])
  BY DEF UntouchedBut, Untouched
<1>2. \A d \in Corridors : Committed(d)' = Committed(d)
  <2> SUFFICES ASSUME NEW d \in Corridors PROVE Committed(d)' = Committed(d)
    OBVIOUS
  <2>1. CASE d = c
    BY <2>1 DEF Committed
  <2>2. CASE d # c
    BY <2>2 DEF UntouchedBut, Untouched
  <2> QED
    BY <2>1, <2>2
<1>3. \A d \in Corridors : Trusted(d)' = Trusted(d)
  <2> SUFFICES ASSUME NEW d \in Corridors PROVE Trusted(d)' = Trusted(d)
    OBVIOUS
  <2>1. CASE d = c
    BY <2>1 DEF Trusted
  <2>2. CASE d # c
    BY <2>2 DEF UntouchedBut, Untouched
  <2> QED
    BY <2>1, <2>2
<1> DEFINE all == [d \in Corridors |-> LogOf(file[d])]
           next == [body |-> b, seq |-> Len(all[c]) + 1]
<1>4. all' = [all EXCEPT ![c] = Append(@, next)]
  BY <1>1
<1>5. /\ UNCHANGED [d \in Corridors |-> Committed(d)]
      /\ UNCHANGED [d \in Corridors |-> Trusted(d)]
      /\ [d \in Corridors |-> Trusted(d)][c]
  BY <1>2, <1>3
<1> QED
  BY <1>4, <1>5 DEF Log!Extend, LogOf, Trusted

(* RunLog commits the log of c. *)
LEMMA Commits ==
    ASSUME NEW c \in Corridors, UntouchedBut(c), file'[c] = file[c],
           Trusted(c), Trusted(c)', Committed(c) < Len(LogOf(file[c])),
           Committed(c)' = Len(LogOf(file[c]))
    PROVE  Log!Commit(c)
<1>1. \A d \in Corridors : LogOf(file'[d]) = LogOf(file[d])
  BY DEF UntouchedBut, Untouched
<1>2. \A d \in Corridors : d # c => Committed(d)' = Committed(d)
  BY DEF UntouchedBut, Untouched
<1>3. \A d \in Corridors : Trusted(d)' = Trusted(d)
  <2> SUFFICES ASSUME NEW d \in Corridors PROVE Trusted(d)' = Trusted(d)
    OBVIOUS
  <2>1. CASE d = c
    BY <2>1 DEF Trusted
  <2>2. CASE d # c
    BY <2>2 DEF UntouchedBut, Untouched
  <2> QED
    BY <2>1, <2>2
<1> QED
  BY <1>1, <1>2, <1>3 DEF Log!Commit, LogOf, Trusted

(* RunLog loses the end of the log of c. *)
LEMMA Loses ==
    ASSUME NEW c \in Corridors, UntouchedBut(c), acked'[c] = acked[c], Trusted(c), Trusted(c)',
           NEW n \in Committed(c)..(Len(LogOf(file[c])) - 1),
           LogOf(file'[c]) = SubSeq(LogOf(file[c]), 1, n)
    PROVE  Log!Lose(c)
<1>1. \A d \in Corridors : d # c => LogOf(file'[d]) = LogOf(file[d])
  BY DEF UntouchedBut, Untouched
<1>2. \A d \in Corridors : Committed(d)' = Committed(d)
  <2> SUFFICES ASSUME NEW d \in Corridors PROVE Committed(d)' = Committed(d)
    OBVIOUS
  <2>1. CASE d = c
    BY <2>1 DEF Committed
  <2>2. CASE d # c
    BY <2>2 DEF UntouchedBut, Untouched
  <2> QED
    BY <2>1, <2>2
<1>3. \A d \in Corridors : Trusted(d)' = Trusted(d)
  <2> SUFFICES ASSUME NEW d \in Corridors PROVE Trusted(d)' = Trusted(d)
    OBVIOUS
  <2>1. CASE d = c
    BY <2>1 DEF Trusted
  <2>2. CASE d # c
    BY <2>2 DEF UntouchedBut, Untouched
  <2> QED
    BY <2>1, <2>2
<1> DEFINE all == [d \in Corridors |-> LogOf(file[d])]
<1>4. all' = [all EXCEPT ![c] = SubSeq(@, 1, n)]
  BY <1>1
<1>5. /\ UNCHANGED [d \in Corridors |-> Committed(d)]
      /\ UNCHANGED [d \in Corridors |-> Trusted(d)]
      /\ [d \in Corridors |-> Trusted(d)][c]
  BY <1>2, <1>3
<1>6. n \in [d \in Corridors |-> Committed(d)][c]..(Len(all[c]) - 1)
  OBVIOUS
<1> QED
  BY <1>4, <1>5, <1>6 DEF Log!Lose, LogOf, Trusted

(* The promise about c is broken. *)
LEMMA Disturbs ==
    ASSUME NEW c \in Corridors, UntouchedBut(c), Committed(c)' >= Committed(c), ~Trusted(c)'
    PROVE  Log!Disturb(c)
<1>1. \A d \in Corridors \ {c} : Log!Same(d)
  BY UntouchedSame DEF UntouchedBut
<1> QED
  BY <1>1 DEF Log!Disturb, Trusted

(* The promise about some corridors is good again. *)
LEMMA Resumes ==
    ASSUME \A c \in Corridors :
              \/ Untouched(c)
              \/ /\ ~Trusted(c) /\ Trusted(c)'
                 /\ Committed(c)' >= Committed(c) /\ Committed(c)' <= Len(LogOf(file'[c]))
    PROVE  Log!Resume
<1> SUFFICES ASSUME NEW c \in Corridors,
                    /\ ~Trusted(c) /\ Trusted(c)'
                    /\ Committed(c)' >= Committed(c) /\ Committed(c)' <= Len(LogOf(file'[c]))
             PROVE  Log!Resume!(c)!2
  BY UntouchedSame DEF Log!Resume
<1> QED
  BY DEF Log!Resume, LogOf, Trusted

-----------------------------------------------------------------------------
(* The greatest acknowledged number. *)

CommittedOK(c) ==
    /\ Committed(c) \in Nat
    /\ \A r \in acked[c] : r.seq \in Nat /\ r.seq <= Committed(c)
    /\ Committed(c) = 0 \/ \E r \in acked[c] : r.seq = Committed(c)

(* There is a greatest one, because a chain has a bound. *)
LEMMA CommittedIs ==
    ASSUME TypeInv, BodyOK, NEW c \in Corridors
    PROVE  CommittedOK(c)
<1> DEFINE Seqs == {0} \cup {r.seq : r \in acked[c]}
           P(n) == \A r \in acked[c] : r.seq <= n
           Gaps == {MaxSeq - n : n \in Seqs}
<1>1. \A r \in acked[c] : r.seq \in Nat /\ r.seq <= MaxSeq
  BY DEF TypeInv, TypeOK, Content, BodyOK
<1>2. MaxSeq \in Nat /\ Seqs \subseteq 0..MaxSeq
  BY <1>1, BoundsAssumption
<1>3. \E n \in Seqs : P(n)
  <2>1. Gaps \subseteq Nat /\ Gaps # {}
    BY <1>2
  <2> HIDE DEF Gaps
  <2>2. PICK g \in Gaps : \A h \in Gaps : g <= h
    BY <2>1, LeastNat
  <2>3. PICK n \in Seqs : g = MaxSeq - n
    BY DEF Gaps
  <2>4. ASSUME NEW r \in acked[c] PROVE r.seq <= n
    <3>1. r.seq \in Seqs /\ MaxSeq - r.seq \in Gaps
      BY DEF Gaps
    <3>2. g <= MaxSeq - r.seq
      BY <2>2, <3>1
    <3>3. n \in 0..MaxSeq /\ r.seq \in 0..MaxSeq
      BY <1>2, <2>3, <3>1
    <3> QED
      BY <1>2, <2>3, <3>2, <3>3
  <2> QED
    BY <2>4
<1>4. Committed(c) = CHOOSE n \in Seqs : P(n)
  BY DEF Committed
<1> HIDE DEF P
<1>5. Committed(c) \in Seqs /\ P(Committed(c))
  BY <1>3, <1>4
<1> QED
  BY <1>1, <1>2, <1>5 DEF P, CommittedOK

(* The same of the state after a step. *)
LEMMA CommittedNext ==
    ASSUME TypeInv', BodyOK', NEW c \in Corridors
    PROVE  CommittedOK(c)'
BY CommittedIs, PTL

(* It does not decrease. *)
LEMMA CommittedGrows ==
    ASSUME LogInv, LogInv', NEW c \in Corridors, acked[c] \subseteq acked'[c]
    PROVE  Committed(c)' >= Committed(c)
BY CommittedIs, CommittedNext DEF LogInv, IInv, CommittedOK

(* What is committed is among the records no crash can take. *)
LEMMA CommittedWithin ==
    ASSUME LogInv, NEW c \in Corridors, Trusted(c)
    PROVE  /\ Committed(c) <= Len(file[c]) - unsynced[c]
           /\ Committed(c) <= Intact(file[c])
<1>1. /\ file[c] \in Seq(Line) /\ unsynced[c] \in Nat /\ unsynced[c] <= Len(file[c])
  BY DEF LogInv, IInv, TypeInv, TypeOK, UnsyncedOK
<1>2. /\ Intact(file[c]) >= Len(file[c]) - 1
      /\ \A i \in 1..Intact(file[c]) : file[c][i].content.seq = i
  BY DEF LogInv, IntactOK, Trusted
<1>3. IsIntact(file[c], Intact(file[c]))
  BY <1>1, IntactIs
<1>4. ASSUME NEW r \in acked[c]
      PROVE  r.seq <= Len(file[c]) - unsynced[c] /\ r.seq <= Intact(file[c])
  <2>1. PICK i \in 1..(Len(file[c]) - unsynced[c]) : file[c][i] # Torn /\ file[c][i].content = r
    BY DEF LogInv, IInv, AckedIsDurable, Stored, Trusted
  <2>2. i \in 1..Intact(file[c])
    BY <1>1, <1>2, <1>3, <2>1 DEF IsIntact
  <2> QED
    BY <1>1, <1>2, <2>1, <2>2
<1>5. Committed(c) = 0 \/ \E r \in acked[c] : r.seq = Committed(c)
  BY CommittedIs DEF LogInv, IInv, CommittedOK
<1> QED
  BY <1>1, <1>3, <1>4, <1>5 DEF IsIntact

(* The length of a log. *)
LEMMA LogLength ==
    ASSUME NEW lines \in Seq(Line)
    PROVE  LogOf(lines) \in Seq(Content) /\ Len(LogOf(lines)) = Intact(lines)
<1>1. Intact(lines) \in 0..Len(lines) /\ \A i \in 1..Intact(lines) : lines[i] # Torn
  BY IntactIs DEF IsIntact
<1>2. \A i \in 1..Intact(lines) : lines[i].content \in Content
  BY <1>1, RecordFields DEF Line
<1> QED
  BY <1>1, <1>2 DEF LogOf

-----------------------------------------------------------------------------
(* Every step of the store is one of the log, or none. *)

(* The record of a write that ends is the next of the log. *)
LEMMA NextOfLog ==
    ASSUME LogInv, op.step = "sealed", NEW c \in Corridors, c = op.corridor, Trusted(c)
    PROVE  \E b \in Body : op.rec.content = [body |-> b, seq |-> Len(LogOf(file[c])) + 1]
<1>1. /\ op.rec.content \in Content /\ op.rec.content.body \in Body
      /\ file[c] \in Seq(Line)
  BY RecordFields DEF LogInv, BodyOK, IInv, TypeInv, TypeOK, OpOK
<1>2. Verifies(file[c]) /\ op.rec.content.seq = Len(file[c]) + 1
  BY SealedNext DEF LogInv, Trusted
<1>3. Len(LogOf(file[c])) = Len(file[c])
  BY <1>1, <1>2, VerifiesIntact, LogLength
<1>4. op.rec.content = [body |-> op.rec.content.body, seq |-> op.rec.content.seq]
  BY <1>1 DEF Content
<1> QED
  BY <1>1, <1>2, <1>3, <1>4

(* A write extends the log, if it is trusted. *)
LEMMA WriteRefines ==
    ASSUME LogInv, LogInv', WriteLine, NEW c \in Corridors, c = op.corridor
    PROVE  Log!Extend(c) \/ Log!Disturb(c)
<1>1. /\ file \in [Corridors -> Seq(Line)] /\ op.rec \in Record
      /\ file[c] \in Seq(Line) /\ op.step = "sealed"
  BY DEF LogInv, IInv, TypeInv, TypeOK, OpOK, WriteLine
<1>2. /\ file' = [file EXCEPT ![c] = Append(@, op.rec)]
      /\ UNCHANGED <<acked, residue, tampered>>
  BY DEF WriteLine
<1>3. UntouchedBut(c)
  BY <1>1, <1>2, Unchanged DEF UntouchedBut
<1>4. CASE Trusted(c)
  <2>1. Verifies(file[c]) /\ Intact(file[c]) = Len(file[c])
    BY <1>1, <1>4, SealedNext, VerifiesIntact DEF LogInv, Trusted
  <2>2. op.rec \in Line /\ op.rec # Torn /\ file'[c] = Append(file[c], op.rec)
    BY <1>1, <1>2, RecordFields DEF Line
  <2>3. LogOf(file'[c]) = Append(LogOf(file[c]), op.rec.content)
    BY <1>1, <2>1, <2>2, LogAppend
  <2>4. PICK b \in Body : op.rec.content = [body |-> b, seq |-> Len(LogOf(file[c])) + 1]
    BY <1>1, <1>4, NextOfLog
  <2>5. acked'[c] = acked[c] /\ Trusted(c)'
    BY <1>2, <1>4 DEF Trusted
  <2>6. Log!Extend(c)
    BY <1>1, <1>3, <1>4, <2>3, <2>4, <2>5, Extends
  <2> QED
    BY <2>6
<1>5. CASE ~Trusted(c)
  <2>1. ~Trusted(c)'
    BY <1>2, <1>5 DEF Trusted
  <2>2. Committed(c)' >= Committed(c)
    BY <1>1, <1>2, CommittedGrows
  <2>3. Log!Disturb(c)
    BY <1>1, <1>3, <2>1, <2>2, Disturbs
  <2> QED
    BY <2>3
<1> QED
  BY <1>4, <1>5

(* A sync commits it. *)
LEMMA SyncRefines ==
    ASSUME LogInv, LogInv', SyncSucceeds, NEW c \in Corridors, c = op.corridor
    PROVE  Log!Commit(c) \/ Log!Disturb(c)
<1>1. /\ op.rec \in Record /\ op.step = "flushed"
      /\ acked \in [Corridors -> SUBSET Content]
  BY DEF LogInv, IInv, TypeInv, TypeOK, OpOK, SyncSucceeds
<1>2. /\ acked' = [acked EXCEPT ![c] = @ \cup {op.rec.content}]
      /\ UNCHANGED <<file, residue, tampered>>
  BY DEF SyncSucceeds
<1>3. UntouchedBut(c) /\ acked'[c] = acked[c] \cup {op.rec.content}
  BY <1>1, <1>2, Unchanged DEF UntouchedBut
<1>4. CASE Trusted(c)
  <2>1. /\ file[c] \in Seq(Line) /\ Verifies(file[c]) /\ op.rec.content.seq = Len(file[c])
    BY <1>1, <1>4, FlushedEnd, CleanChain DEF LogInv, Trusted
  <2>2. Len(LogOf(file[c])) = Len(file[c]) /\ Len(file[c]) \in Nat
    BY <2>1, VerifiesIntact, LogLength
  <2>3. \A r \in acked[c] : r.seq < op.rec.content.seq
    BY <1>1 DEF LogInv, IInv, RecOK
  <2>4. CommittedOK(c) /\ CommittedOK(c)'
    BY <1>1, CommittedIs, CommittedNext DEF LogInv, IInv
  <2>5. op.rec.content.seq \in Nat \ {0}
    BY <1>1, RecordFields
  <2>6. Committed(c) < Len(file[c])
    BY <2>1, <2>3, <2>4, <2>5 DEF CommittedOK
  <2>7. Committed(c)' = Len(file[c])
    <3>1. Committed(c)' \in Nat /\ Committed(c)' >= Len(file[c])
      BY <1>3, <2>1, <2>4 DEF CommittedOK
    <3>2. \A r \in acked'[c] : r.seq \in Nat /\ r.seq <= Len(file[c])
      BY <1>3, <2>1, <2>3, <2>4, <2>5 DEF CommittedOK
    <3>3. Committed(c)' = 0 \/ \E r \in acked'[c] : r.seq = Committed(c)'
      BY <2>4 DEF CommittedOK
    <3> QED
      BY <2>2, <3>1, <3>2, <3>3
  <2>8. file'[c] = file[c] /\ Trusted(c)'
    BY <1>2, <1>4 DEF Trusted
  <2>9. Log!Commit(c)
    BY <1>1, <1>3, <1>4, <2>2, <2>6, <2>7, <2>8, Commits
  <2> QED
    BY <2>9
<1>5. CASE ~Trusted(c)
  <2>1. ~Trusted(c)'
    BY <1>2, <1>5 DEF Trusted
  <2>2. Committed(c)' >= Committed(c)
    BY <1>1, <1>3, CommittedGrows
  <2>3. Log!Disturb(c)
    BY <1>1, <1>3, <2>1, <2>2, Disturbs
  <2> QED
    BY <2>3
<1> QED
  BY <1>4, <1>5

(* A power loss loses its end, or takes nothing of it. *)
LEMMA LossRefines ==
    ASSUME LogInv, LogInv', NEW c \in Corridors, LoseTail(c)
    PROVE  [Log!Lose(c) \/ Log!Disturb(c)]_(Log!logVars)
<1>1. /\ file \in [Corridors -> Seq(Line)] /\ file[c] \in Seq(Line)
      /\ UNCHANGED <<acked, residue, tampered>>
  BY DEF LogInv, IInv, TypeInv, TypeOK, LoseTail, historyVars
<1>2. \E lines : file' = [file EXCEPT ![c] = lines]
  BY LoseTailLines DEF LogInv, IInv
<1>3. UntouchedBut(c)
  BY <1>1, <1>2, Unchanged DEF UntouchedBut
<1>4. CASE Trusted(c)
  <2> DEFINE n == Intact(file'[c])
  <2>1. /\ file'[c] \in Seq(Line) /\ n <= Intact(file[c])
        /\ n >= Len(file[c]) - unsynced[c]
        /\ \A i \in 1..n : file'[c][i] = file[c][i]
    BY <1>4, LossCuts DEF Trusted
  <2>2. n \in Nat /\ Intact(file[c]) \in Nat /\ Len(LogOf(file[c])) = Intact(file[c])
        /\ LogOf(file[c]) \in Seq(Content)
    BY <1>1, <2>1, IntactIs, LogLength DEF IsIntact
  <2>3. LogOf(file'[c]) = [i \in 1..n |-> LogOf(file[c])[i]]
    BY <2>1, <2>2 DEF LogOf
  <2>4. Trusted(c)' /\ acked'[c] = acked[c] /\ Committed(c)' = Committed(c)
    BY <1>1, <1>4 DEF Trusted, Committed
  <2>5. CASE n = Intact(file[c])
    <3>1. LogOf(file'[c]) = LogOf(file[c])
      BY <2>2, <2>3, <2>5
    <3>2. Untouched(c)
      BY <1>4, <2>4, <3>1 DEF Untouched
    <3>3. \A d \in Corridors : Untouched(d)
      BY <1>3, <3>2 DEF UntouchedBut
    <3> QED
      BY <3>3, Stutters
  <2>6. CASE n < Intact(file[c])
    <3>1. Committed(c) <= Len(file[c]) - unsynced[c] /\ Committed(c) \in Nat
          /\ Len(file[c]) \in Nat /\ unsynced[c] \in Nat
      BY <1>1, <1>4, CommittedWithin, CommittedIs
         DEF CommittedOK, LogInv, IInv, TypeInv, TypeOK
    <3>2. n \in Committed(c)..(Len(LogOf(file[c])) - 1)
      BY <2>1, <2>2, <2>6, <3>1
    <3>3. LogOf(file'[c]) = SubSeq(LogOf(file[c]), 1, n)
      BY <2>2, <2>3, <2>6
    <3>4. Log!Lose(c)
      BY <1>3, <1>4, <2>4, <3>2, <3>3, Loses
    <3> QED
      BY <3>4
  <2> QED
    BY <2>1, <2>2, <2>5, <2>6
<1>5. CASE ~Trusted(c)
  <2>1. ~Trusted(c)'
    BY <1>1, <1>5 DEF Trusted
  <2>2. Committed(c)' >= Committed(c)
    BY <1>1, CommittedGrows
  <2>3. Log!Disturb(c)
    BY <1>3, <2>1, <2>2, Disturbs
  <2> QED
    BY <2>3
<1> QED
  BY <1>4, <1>5

(* A kill in the middle of a write extends it, or adds nothing to it. *)
LEMMA KillRefines ==
    ASSUME LogInv, LogInv', NEW c \in Corridors, PartialWrite(c),
           UNCHANGED <<acked, residue, tampered>>
    PROVE  [Log!Extend(c) \/ Log!Disturb(c)]_(Log!logVars)
<1>1. \E l : file' = [file EXCEPT ![c] = Append(@, l)]
  BY DEF PartialWrite
<1>2. file \in [Corridors -> Seq(Line)] /\ op.step = "sealed" /\ c = op.corridor
  BY DEF LogInv, IInv, TypeInv, TypeOK, PartialWrite
<1>3. UntouchedBut(c)
  BY <1>1, <1>2, Unchanged DEF UntouchedBut
<1>4. CASE Trusted(c)
  <2>1. Trusted(c)' /\ acked'[c] = acked[c] /\ Committed(c)' = Committed(c)
    BY <1>4 DEF Trusted, Committed
  <2>2. CASE LogOf(file'[c]) = LogOf(file[c])
    <3>1. Untouched(c)
      BY <1>4, <2>1, <2>2 DEF Untouched
    <3>2. \A d \in Corridors : Untouched(d)
      BY <1>3, <3>1 DEF UntouchedBut
    <3> QED
      BY <3>2, Stutters
  <2>3. CASE LogOf(file'[c]) = Append(LogOf(file[c]), op.rec.content)
    <3>1. PICK b \in Body : op.rec.content = [body |-> b, seq |-> Len(LogOf(file[c])) + 1]
      BY <1>2, <1>4, NextOfLog
    <3>2. Log!Extend(c)
      BY <1>3, <1>4, <2>1, <2>3, <3>1, Extends
    <3> QED
      BY <3>2
  <2> QED
    BY <1>4, <2>2, <2>3, PartialExtends DEF LogInv, Trusted
<1>5. CASE ~Trusted(c)
  <2>1. ~Trusted(c)'
    BY <1>5 DEF Trusted
  <2>2. Committed(c)' >= Committed(c)
    BY CommittedGrows
  <2>3. Log!Disturb(c)
    BY <1>3, <2>1, <2>2, Disturbs
  <2> QED
    BY <2>3
<1> QED
  BY <1>4, <1>5

(* A step after which nothing is promised of c. *)
LEMMA BreakRefines ==
    ASSUME LogInv, LogInv', NEW c \in Corridors, UntouchedBut(c),
           acked' = acked, ~Trusted(c)'
    PROVE  Log!Disturb(c)
<1>1. Committed(c)' >= Committed(c)
  BY CommittedGrows
<1> QED
  BY <1>1, Disturbs

(* A start resumes the logs of corridors an Append failed in. *)
LEMMA OpenRefines ==
    ASSUME LogInv, LogInv', Open
    PROVE  Log!Resume
<1> SUFFICES ASSUME NEW c \in Corridors
             PROVE  \/ Untouched(c)
                    \/ /\ ~Trusted(c) /\ Trusted(c)'
                       /\ Committed(c)' >= Committed(c)
                       /\ Committed(c)' <= Len(LogOf(file'[c]))
  BY Resumes
<1>1. /\ file' = file /\ acked' = acked /\ tampered' = tampered
      /\ ~residue'[c] /\ Verifies(file[c])
  BY DEF Open, Openable, diskVars
<1>2. LogOf(file'[c]) = LogOf(file[c]) /\ Committed(c)' = Committed(c)
  BY <1>1 DEF LogOf, Committed
<1>3. CASE Trusted(c)' = Trusted(c)
  BY <1>2, <1>3 DEF Untouched
<1>4. CASE ~Trusted(c) /\ Trusted(c)'
  <2>1. /\ file[c] \in Seq(Line) /\ Intact(file[c]) = Len(file[c])
        /\ \A i \in 1..Len(file[c]) : file[c][i].content.seq = i
    BY <1>1, CleanChain DEF LogInv
  <2>2. ASSUME NEW r \in acked[c] PROVE r.seq <= Len(file[c])
    <3>1. ~tampered[c]
      BY <1>1, <1>4 DEF Trusted
    <3>2. PICK i \in 1..(Len(file[c]) - unsynced[c]) : file[c][i].content = r
      BY <3>1 DEF LogInv, IInv, AckedIsDurable, Stored
    <3>3. unsynced[c] \in Nat /\ Len(file[c]) \in Nat
      BY DEF LogInv, IInv, TypeInv, TypeOK
    <3> QED
      BY <2>1, <3>2, <3>3
  <2>3. CommittedOK(c)
    BY CommittedIs DEF LogInv, IInv
  <2>4. Committed(c) <= Len(LogOf(file[c])) /\ Committed(c) \in Nat
    BY <2>1, <2>2, <2>3, LogLength DEF CommittedOK
  <2> QED
    BY <1>2, <1>4, <2>4
<1>5. ~Trusted(c)' => ~Trusted(c)
  BY <1>1 DEF Trusted
<1> QED
  BY <1>3, <1>4, <1>5 DEF Trusted

(* Every step of the store is a step of the log. *)
LEMMA StepRefines ==
    ASSUME LogInv, LogInv', [Next]_vars
    PROVE  [Log!Next]_(Log!logVars)
<1>1. /\ file \in [Corridors -> Seq(Line)]
      /\ residue \in [Corridors -> BOOLEAN] /\ tampered \in [Corridors -> BOOLEAN]
      /\ (op.step # "idle" => op.corridor \in Corridors)
  BY DEF LogInv, IInv, TypeInv, TypeOK, OpOK
<1>2. CASE UNCHANGED <<file, acked, residue, tampered>>
  BY <1>2, Unchanged, Stutters
<1>3. CASE Open
  BY <1>3, OpenRefines DEF Log!Next
<1>4. CASE WriteLine
  <2>1. PICK c \in Corridors : c = op.corridor
    BY <1>1, <1>4 DEF WriteLine
  <2> QED
    BY <1>4, <2>1, WriteRefines DEF Log!Next
<1>5. CASE SyncSucceeds
  <2>1. PICK c \in Corridors : c = op.corridor
    BY <1>1, <1>5 DEF SyncSucceeds
  <2> QED
    BY <1>5, <2>1, SyncRefines DEF Log!Next
<1>6. CASE WriteFails
  <2>1. PICK c \in Corridors : PartialWrite(c) /\ residue' = [residue EXCEPT ![c] = TRUE]
    BY <1>6 DEF WriteFails
  <2>2. acked' = acked /\ tampered' = tampered /\ \E l : file' = [file EXCEPT ![c] = Append(@, l)]
    BY <1>6, <2>1 DEF WriteFails, PartialWrite
  <2>3. UntouchedBut(c) /\ ~Trusted(c)'
    BY <1>1, <2>1, <2>2, Unchanged DEF UntouchedBut, Trusted
  <2>4. Log!Disturb(c)
    BY <2>2, <2>3, BreakRefines
  <2> QED
    BY <2>4 DEF Log!Next
<1>7. CASE SyncFails
  <2>1. PICK c \in Corridors : c = op.corridor
    BY <1>1, <1>7 DEF SyncFails
  <2>2. /\ file' = file /\ acked' = acked /\ tampered' = tampered
        /\ residue' = [residue EXCEPT ![c] = TRUE]
    BY <1>7, <2>1 DEF SyncFails, diskVars
  <2>3. UntouchedBut(c) /\ ~Trusted(c)'
    BY <1>1, <2>2, Unchanged DEF UntouchedBut, Trusted
  <2>4. Log!Disturb(c)
    BY <2>2, <2>3, BreakRefines
  <2> QED
    BY <2>4 DEF Log!Next
<1>8. CASE Kill
  <2>1. CASE UNCHANGED file
    BY <1>2, <1>8, <2>1 DEF Kill
  <2>2. CASE \E c \in Corridors : PartialWrite(c)
    BY <1>8, <2>2, KillRefines DEF Kill, Log!Next
  <2> QED
    BY <1>8, <2>1, <2>2 DEF Kill, diskVars
<1>9. ASSUME NEW c \in Corridors, LoseTail(c)
      PROVE  [Log!Next]_(Log!logVars)
  BY <1>9, LossRefines DEF Log!Next
<1>10. ASSUME NEW c \in Corridors, Edit(c)
       PROVE  [Log!Next]_(Log!logVars)
  <2>1. /\ \E lines : file' = [file EXCEPT ![c] = lines]
        /\ acked' = acked /\ residue' = residue
        /\ tampered' = [tampered EXCEPT ![c] = TRUE]
    BY <1>10, EditKeepsEnd DEF Edit, LogInv, IInv
  <2>2. UntouchedBut(c) /\ ~Trusted(c)'
    BY <1>1, <2>1, Unchanged DEF UntouchedBut, Trusted
  <2>3. Log!Disturb(c)
    BY <2>1, <2>2, BreakRefines
  <2> QED
    BY <2>3 DEF Log!Next
<1> QED
  BY <1>2, <1>3, <1>4, <1>5, <1>6, <1>7, <1>8, <1>9, <1>10
     DEF Next, AppendStep, vars, diskVars, historyVars, BeginAppend, AppendRefused, TerminateLastLine

(* An empty store is an empty log. *)
LEMMA InitRefines == Init => Log!Init
<1> SUFFICES ASSUME Init PROVE Log!Init
  OBVIOUS
<1>1. ASSUME NEW c \in Corridors
      PROVE  /\ [i \in 1..Intact(file[c]) |-> file[c][i].content] = <<>>
             /\ Committed(c) = 0
             /\ (~residue[c] /\ ~tampered[c]) = TRUE
  <2>1. file[c] = <<>> /\ file[c] \in Seq(Line) /\ acked[c] = {} /\ ~residue[c] /\ ~tampered[c]
    BY DEF Init
  <2>2. IsIntact(file[c], 0)
    BY <2>1 DEF IsIntact
  <2>3. Intact(file[c]) = 0
    BY <2>1, <2>2, IntactUnique
  <2>4. Committed(c) = CHOOSE n \in {0} : TRUE
    BY <2>1 DEF Committed
  <2> QED
    BY <2>1, <2>3, <2>4
<1> QED
  BY <1>1 DEF Log!Init

(* Spec keeps what the refinement rests on. *)
LEMMA LogInductive == Spec => []LogInv
<1>1. Init => BodyOK /\ \A c \in Corridors : IntactOK(c)
  <2> SUFFICES ASSUME Init PROVE BodyOK /\ \A c \in Corridors : IntactOK(c)
    OBVIOUS
  <2>1. BodyOK
    BY DEF Init, BodyOK, Idle
  <2>2. ASSUME NEW c \in Corridors PROVE IntactOK(c)
    <3>1. file[c] = <<>> /\ file[c] \in Seq(Line)
      BY DEF Init
    <3>2. IsIntact(file[c], 0)
      BY <3>1 DEF IsIntact
    <3>3. Intact(file[c]) = 0
      BY <3>1, <3>2, IntactUnique
    <3> QED
      BY <3>1, <3>3 DEF IntactOK
  <2> QED
    BY <2>1, <2>2
<1>2. LogInv /\ IInv' /\ [Next]_vars => LogInv'
  BY BodyNext, IntactNext DEF LogInv
<1>3. Init /\ IInv => LogInv
  BY <1>1 DEF LogInv
<1> QED
  BY <1>2, <1>3, Inductive, PTL DEF Spec

(* The store implements the log its interface promises: kills and power    *)
(* loss take only what was never acknowledged, records are numbered on     *)
(* from the last, and a restart goes on from what is left                  *)
(* (runstore.go:264-275, file.go:60-76, 193-258).                          *)
THEOREM Refinement == Spec => StoreIsLog
<1> QED
  BY LogInductive, InitRefines, StepRefines, PTL DEF Spec, StoreIsLog, Log!Spec

-----------------------------------------------------------------------------
(* Rotation.  After one a hash commits to a window of the history that      *)
(* need not begin at 1, and while one is under way a file is cut before it  *)
(* is whole again: RotInv says what still holds.                            *)

RotationSteps == {"idle", "scan", "truncated", "rewritten"}

RotTypeOK ==
    /\ rot \in [step : RotationSteps, todo : SUBSET Corridors,
                ceiling : Nat, kept : Seq(Record)]
    /\ dropped \in [Corridors -> Nat]
    /\ cut \in [Corridors -> BOOLEAN]

(* A rotation under way holds the mutex of a running process. *)
RotOK == rot.step # "idle" => up /\ lock = "rotate" /\ rot.ceiling >= 1

(* h commits to contents of W alone, numbered without a gap. *)
Top(h) == h[Len(h)]
UnbrokenIn(W, h) ==
    /\ Len(h) >= 1
    /\ \A j \in 1..Len(h) : h[j] \in W /\ (j > 1 => h[j].seq = h[j - 1].seq + 1)

(* h reaches up to the last acknowledged record. *)
Covers(c, h) == \A r \in acked[c] : r.seq <= Top(h).seq

(* No rotation of this chain was cut off, nor has truncated it just now. *)
Whole(c) == ~cut[c] /\ ~Rotating(c)

(* The lines no crash and no edit can make lie, as in EndOK. *)
WindowOK(c) ==
    /\ Whole(c) /\ acked[c] # {} => Len(file[c]) - unsynced[c] >= 1
    /\ \A i \in 1..Len(file[c]) :
          i >= Len(file[c]) - unsynced[c] /\ file[c][i] # Torn =>
             /\ UnbrokenIn(written[c], file[c][i].hash)
             /\ Whole(c) => Covers(c, file[c][i].hash)

IndexOK(c) ==
    /\ tips[c] # Nil =>
          /\ tips[c].hash = Digest(tips[c].content, tips[c].prev)
          /\ UnbrokenIn(written[c], tips[c].hash)
    /\ up /\ ~cut[c] =>
          IF tips[c] = Nil THEN acked[c] = {} ELSE Covers(c, tips[c].hash)

SealedOK ==
    op.step # "idle" =>
       LET tip == tips[op.corridor] IN
       /\ op.rec.hash = Digest(op.rec.content, op.rec.prev)
       /\ op.rec.prev = IF tip = Nil THEN Genesis ELSE tip.hash
       /\ op.rec.content.seq = NextSeq(tip)

(* Nothing went wrong with this chain, and no rotation has it open. *)
SoundOK(c) ==
    up /\ ~residue[c] /\ ~tampered[c] /\ ~Rotating(c) =>
       /\ Verifies(file[c])
       /\ ~(op.step = "flushed" /\ op.corridor = c) => tips[c] = TipOf(file[c])

(* What was dropped was numbered below everything still there. *)
AboveDropped(c) ==
    Whole(c) /\ ~tampered[c] =>
       /\ dropped[c] > 0 => Len(file[c]) - unsynced[c] >= 1
       /\ \A i \in 1..Len(file[c]) :
             file[c][i] # Torn => file[c][i].content.seq > dropped[c]
       /\ \A r \in acked[c] : r.seq > dropped[c] => Stored(c, r)

TipAboveDropped(c) ==
    up /\ ~tampered[c] /\ ~cut[c] =>
       IF tips[c] = Nil THEN dropped[c] = 0 ELSE tips[c].content.seq > dropped[c]

(* The window about to take the place of a file: a chain of what was       *)
(* written, up to the last acknowledged record, that misses none of the    *)
(* acknowledged ones after its first.                                      *)
KeptChain(c) ==
    /\ rot.kept # <<>>
    /\ Verifies(rot.kept)
    /\ \A j \in 1..Len(rot.kept) : UnbrokenIn(written[c], rot.kept[j].hash)
    /\ ~cut[c] => Covers(c, rot.kept[Len(rot.kept)].hash)
    /\ ~cut[c] /\ ~tampered[c] =>
          \A r \in acked[c] : r.seq >= rot.kept[1].content.seq =>
             \E j \in 1..Len(rot.kept) : rot.kept[j].content = r

KeptOK ==
    rot.step \in {"truncated", "rewritten"} =>
       /\ rot.todo # {}
       /\ KeptChain(Current)
       /\ IF rot.step = "truncated"
          THEN file[Current] = <<>> /\ unsynced[Current] = 0
          ELSE file[Current] = rot.kept /\ unsynced[Current] = Len(rot.kept)

ChainInv(c) ==
    WindowOK(c) /\ IndexOK(c) /\ SoundOK(c) /\ AboveDropped(c) /\ TipAboveDropped(c)

RotInv ==
    /\ TypeInv /\ RotTypeOK /\ RotOK
    /\ SealedOK /\ FlushedOK /\ KeptOK
    /\ \A c \in Corridors : ChainInv(c)

-----------------------------------------------------------------------------
(* What was written is still written when more is. *)
LEMMA UnbrokenMore ==
    ASSUME NEW V, NEW W, V \subseteq W, NEW h, UnbrokenIn(V, h)
    PROVE  UnbrokenIn(W, h)
BY DEF UnbrokenIn

(* The hash of a sealed record ends in its content. *)
LEMMA SealedTop ==
    ASSUME NEW r \in Record, r.hash = Digest(r.content, r.prev)
    PROVE  /\ r.hash \in Seq(Content) /\ Len(r.hash) >= 1
           /\ Top(r.hash) = r.content
           /\ \A W : UnbrokenIn(W, r.hash) => r.content \in W
<1>1. r.content \in Content /\ r.prev \in Seq(Content) /\ r.hash = Append(r.prev, r.content)
  BY DEF Record, Digest, Hash
<1>2. /\ r.hash \in Seq(Content) /\ Len(r.hash) = Len(r.prev) + 1 /\ Len(r.prev) \in Nat
      /\ r.hash[Len(r.prev) + 1] = r.content
  BY <1>1
<1>3. Len(r.hash) >= 1 /\ Len(r.hash) \in 1..Len(r.hash) /\ Top(r.hash) = r.content
  BY <1>2 DEF Top
<1> QED
  BY <1>2, <1>3 DEF UnbrokenIn, Top

(* The next number, sealed on an unbroken window, leaves it unbroken. *)
LEMMA UnbrokenAppend ==
    ASSUME NEW W, NEW h \in Hash, NEW r \in Content, r \in W,
           h = <<>> \/ (UnbrokenIn(W, h) /\ r.seq = Top(h).seq + 1)
    PROVE  UnbrokenIn(W, Digest(r, h)) /\ Top(Digest(r, h)) = r
<1> DEFINE g == Digest(r, h)
<1>1. g = Append(h, r) /\ h \in Seq(Content)
  BY DEF Digest, Hash
<1>2. /\ Len(g) = Len(h) + 1 /\ g[Len(h) + 1] = r /\ Len(h) \in Nat
      /\ \A j \in 1..Len(h) : g[j] = h[j]
  BY <1>1
<1> HIDE DEF g
<1>3. Top(g) = r /\ Len(g) >= 1
  BY <1>2 DEF Top
<1>4. ASSUME NEW j \in 1..Len(g)
      PROVE  g[j] \in W /\ (j > 1 => g[j].seq = g[j - 1].seq + 1)
  <2>1. CASE j = Len(h) + 1
    <3>1. j > 1 => h # <<>> /\ Len(h) \in 1..Len(h) /\ j - 1 = Len(h)
      BY <1>1, <1>2, <2>1
    <3> QED
      BY <1>2, <2>1, <3>1 DEF Top
  <2>2. CASE j # Len(h) + 1
    <3>1. j \in 1..Len(h) /\ (j > 1 => j - 1 \in 1..Len(h))
      BY <1>2, <2>2
    <3>2. UnbrokenIn(W, h)
      BY <1>2, <3>1, <1>1
    <3> QED
      BY <1>2, <3>1, <3>2 DEF UnbrokenIn
  <2> QED
    BY <2>1, <2>2
<1> QED
  BY <1>3, <1>4 DEF UnbrokenIn, g

(* Numbers without a gap count up from the first. *)
LEMMA CountsUp ==
    ASSUME NEW W, NEW h \in Seq(Content), UnbrokenIn(W, h), NEW i \in 1..Len(h)
    PROVE  h[i].seq = h[1].seq + (i - 1)
<1> DEFINE Bad == {n \in 1..Len(h) : h[n].seq # h[1].seq + (n - 1)}
<1>1. \A n \in 1..Len(h) : h[n].seq \in Nat
  <2>1. \A n \in 1..Len(h) : h[n] \in Content
    OBVIOUS
  <2>2. \A r \in Content : r.seq \in Nat
    BY DEF Content
  <2> QED
    BY <2>1, <2>2
<1>2. ASSUME NEW n \in Bad, \A m \in Bad : n <= m
      PROVE  FALSE
  <2>1. n \in 1..Len(h) /\ h[n].seq # h[1].seq + (n - 1) /\ 1 \in 1..Len(h)
    OBVIOUS
  <2>2. n # 1
    BY <1>1, <2>1
  <2>3. n - 1 \in 1..Len(h) /\ n > 1
    BY <2>1, <2>2
  <2>4. h[n].seq = h[n - 1].seq + 1
    BY <2>1, <2>3 DEF UnbrokenIn
  <2>5. n - 1 \notin Bad
    BY <1>2, <2>1
  <2>6. h[n - 1].seq = h[1].seq + (n - 2)
    BY <2>3, <2>5
  <2>7. PICK a \in Nat, b \in Nat, k \in Nat :
           a = h[n - 1].seq /\ b = h[1].seq /\ k = n
    BY <1>1, <2>1, <2>3
  <2>8. h[n].seq = a + 1 /\ a = b + (k - 2) /\ h[n].seq # b + (k - 1)
    BY <2>1, <2>4, <2>6, <2>7
  <2> QED
    BY <2>8
<1>3. Bad = {}
  <2>1. Bad \subseteq Nat
    OBVIOUS
  <2> HIDE DEF Bad
  <2> QED
    BY <1>2, <2>1, LeastNat
<1> QED
  BY <1>3

(* The contents of a chain that verifies are what its last hash says. *)
LEMMA UnbrokenChain ==
    ASSUME NEW lines \in Seq(Line), Verifies(lines), NEW W,
           lines # <<>>, UnbrokenIn(W, lines[Len(lines)].hash)
    PROVE  /\ \A i \in 1..Len(lines) :
                 /\ lines[i] \in Record
                 /\ lines[i].content \in W
                 /\ i > 1 => lines[i].content.seq = lines[i - 1].content.seq + 1
                 /\ lines[i].content.seq = lines[1].content.seq + (i - 1)
           /\ Top(lines[Len(lines)].hash) = lines[Len(lines)].content
<1> DEFINE h == lines[Len(lines)].hash
<1>1. Len(lines) \in 1..Len(lines) /\ 1 \in 1..Len(lines)
  OBVIOUS
<1>2. /\ Len(h) = Len(lines)
      /\ \A j \in 1..Len(lines) : h[j] = lines[j].content
      /\ \A j \in 1..Len(lines) : lines[j] \in Record
  BY <1>1, ChainCommits
<1>3. h \in Seq(Content)
  BY <1>1, <1>2, RecordFields DEF Hash
<1> HIDE DEF h
<1>4. UnbrokenIn(W, h)
  BY DEF h
<1>5. ASSUME NEW i \in 1..Len(lines)
      PROVE  /\ lines[i].content \in W
             /\ i > 1 => lines[i].content.seq = lines[i - 1].content.seq + 1
             /\ lines[i].content.seq = lines[1].content.seq + (i - 1)
  <2>1. i > 1 => i - 1 \in 1..Len(lines)
    OBVIOUS
  <2>2. h[i].seq = h[1].seq + (i - 1)
    BY <1>2, <1>3, <1>4, CountsUp
  <2> QED
    BY <1>1, <1>2, <1>4, <2>1, <2>2 DEF UnbrokenIn
<1>6. Top(h) = lines[Len(lines)].content
  BY <1>1, <1>2 DEF Top
<1> QED
  BY <1>2, <1>5, <1>6 DEF h

(* The last line of a file that verifies is one of those WindowOK speaks of. *)
LEMMA FileUnbroken ==
    ASSUME RotInv, NEW c \in Corridors, Verifies(file[c]), file[c] # <<>>
    PROVE  /\ UnbrokenIn(written[c], file[c][Len(file[c])].hash)
           /\ Whole(c) => Covers(c, file[c][Len(file[c])].hash)
<1>1. /\ file[c] \in Seq(Line) /\ unsynced[c] \in Nat /\ WindowOK(c)
  BY DEF RotInv, ChainInv, TypeInv, TypeOK
<1>2. Len(file[c]) \in 1..Len(file[c]) /\ Len(file[c]) >= Len(file[c]) - unsynced[c]
  BY <1>1
<1>3. file[c][Len(file[c])] # Torn
  BY <1>1, <1>2 DEF Verifies, Loads
<1> QED
  BY <1>1, <1>2, <1>3 DEF WindowOK

-----------------------------------------------------------------------------
(* The corridor under way is one of those still to be done. *)
LEMMA CurrentIs ==
    ASSUME RotTypeOK, rot.todo # {}
    PROVE  Current \in rot.todo /\ Current \in Corridors
<1>1. rot.todo \subseteq Corridors /\ rot.todo \subseteq Nat
  BY CorridorsAssumption DEF RotTypeOK
<1>2. \E n \in rot.todo : \A m \in rot.todo : n <= m
  BY <1>1, LeastNat
<1> QED
  BY <1>1, <1>2 DEF Current, Min

(* Rotating, no record is under way. *)
LEMMA RotatingAlone ==
    ASSUME TypeInv, RotOK, rot.step # "idle"
    PROVE  op.step = "idle" /\ up /\ lock = "rotate"
BY DEF TypeInv, OpOK, RotOK

(* A rotation step appends nothing and acknowledges nothing. *)
LEMMA RotateQuiet ==
    ASSUME TypeInv, RotOK, RotateStep
    PROVE  op.step = "idle" /\ up /\ UNCHANGED <<up, op, written, acked, tampered>>
<1>1. ASSUME NEW n \in Ceilings, BeginRotate(n)
      PROVE  op.step = "idle" /\ up /\ UNCHANGED <<up, op, written, acked, tampered>>
  BY <1>1 DEF BeginRotate, TypeInv, OpOK, historyVars
<1>2. ASSUME rot.step # "idle", UNCHANGED <<up, op, written, acked, tampered>>
      PROVE  op.step = "idle" /\ up /\ UNCHANGED <<up, op, written, acked, tampered>>
  BY <1>2, RotatingAlone
<1>3. CASE RotateSkip \/ RotateRefuse \/ RotateTruncate \/ RotateDone
  BY <1>2, <1>3 DEF RotateSkip, RotateRefuse, RotateTruncate, RotateDone, vars, historyVars
<1>4. CASE RotateWrite \/ RotateWriteFails \/ RotateSync \/ RotateSyncFails
  BY <1>2, <1>4 DEF RotateWrite, RotateWriteFails, RotateSync, RotateSyncFails, historyVars
<1> QED
  BY <1>1, <1>3, <1>4 DEF RotateStep

(* An idle store with no rotation is well-typed. *)
LEMMA RotTypeInit == RotInit => TypeInv /\ RotTypeOK /\ RotOK
<1> SUFFICES ASSUME RotInit PROVE TypeInv /\ RotTypeOK /\ RotOK
  OBVIOUS
<1>1. TypeInv
  BY TypeInit DEF RotInit
<1>2. rot.step = "idle" /\ dropped \in [Corridors -> Nat] /\ cut \in [Corridors -> BOOLEAN]
  BY DEF RotInit, NoRotation
<1>3. rot \in [step : RotationSteps, todo : SUBSET Corridors, ceiling : Nat, kept : Seq(Record)]
  BY DEF RotInit, NoRotation, RotationSteps
<1> QED
  BY <1>1, <1>2, <1>3 DEF RotTypeOK, RotOK

(* The newest lines of a chain, re-sealed, are records over the same contents. *)
LEMMA ResealedType ==
    ASSUME NEW lines \in Seq(Line), \A i \in 1..Len(lines) : lines[i] \in Record,
           NEW n \in 1..Len(lines)
    PROVE  /\ Resealed(Newest(lines, n)) \in Seq(Record)
           /\ Len(Resealed(Newest(lines, n))) = n
           /\ \A j \in 1..n :
                 /\ Resealed(Newest(lines, n))[j].content = lines[Len(lines) - n + j].content
                 /\ Resealed(Newest(lines, n))[j].hash
                       = Digest(Resealed(Newest(lines, n))[j].content,
                                Resealed(Newest(lines, n))[j].prev)
                 /\ Len(Resealed(Newest(lines, n))[j].hash) = j
                 /\ \A k \in 1..j : Resealed(Newest(lines, n))[j].hash[k]
                       = lines[Len(lines) - n + k].content
           /\ Verifies(Resealed(Newest(lines, n)))
<1> DEFINE new == Newest(lines, n)
           cs == [i \in DOMAIN new |-> new[i].content]
           kept == Resealed(new)
<1>1. /\ new \in Seq(Line) /\ Len(new) = n
      /\ \A j \in 1..n : new[j] = lines[Len(lines) - n + j]
  BY DEF Newest
<1>2. \A j \in 1..n : Len(lines) - n + j \in 1..Len(lines)
  OBVIOUS
<1>3. \A j \in 1..n : new[j] \in Record /\ new[j].content \in Content
  BY <1>1, <1>2, RecordFields
<1> HIDE DEF new
<1>4. /\ cs \in Seq(Content) /\ Len(cs) = n
      /\ \A j \in 1..n : cs[j] = new[j].content
  BY <1>1, <1>3
<1>5. kept = [i \in 1..n |-> Seal(cs[i], SubSeq(cs, 1, i - 1))]
  BY <1>1 DEF Resealed
<1> HIDE DEF cs, kept
<1>6. ASSUME NEW j \in 1..n
      PROVE  /\ cs[j] \in Content /\ SubSeq(cs, 1, j - 1) \in Hash
             /\ Len(SubSeq(cs, 1, j - 1)) = j - 1
             /\ \A k \in 1..(j - 1) : SubSeq(cs, 1, j - 1)[k] = cs[k]
  BY <1>4 DEF Hash
<1>7. ASSUME NEW j \in 1..n
      PROVE  /\ kept[j] \in Record /\ kept[j].content = cs[j]
             /\ kept[j].prev = SubSeq(cs, 1, j - 1)
             /\ kept[j].hash = Append(SubSeq(cs, 1, j - 1), cs[j])
             /\ kept[j].hash = Digest(kept[j].content, kept[j].prev)
  <2>1. kept[j] = Seal(cs[j], SubSeq(cs, 1, j - 1))
    BY <1>5
  <2>2. PICK a \in Content, b \in Hash : a = cs[j] /\ b = SubSeq(cs, 1, j - 1)
    BY <1>6
  <2>3. /\ Seal(a, b) \in Record /\ Seal(a, b).content = a /\ Seal(a, b).prev = b
        /\ Seal(a, b).hash = Append(b, a)
    BY SealType DEF Digest
  <2>4. kept[j] = Seal(a, b)
    BY <2>1, <2>2
  <2>5. /\ kept[j] \in Record /\ kept[j].content = a /\ kept[j].prev = b
        /\ kept[j].hash = Append(b, a)
    BY <2>3, <2>4
  <2> QED
    BY <2>2, <2>5 DEF Digest
<1>8. kept \in Seq(Record) /\ Len(kept) = n
  BY <1>5, <1>7
<1>9. ASSUME NEW j \in 1..n
      PROVE  Len(kept[j].hash) = j /\ \A k \in 1..j : kept[j].hash[k] = cs[k]
  <2>1. \A k \in 1..j : k = j \/ k \in 1..(j - 1)
    OBVIOUS
  <2> DEFINE prev == SubSeq(cs, 1, j - 1)
  <2>2. /\ prev \in Seq(Content) /\ Len(prev) = j - 1 /\ cs[j] \in Content
        /\ \A k \in 1..(j - 1) : prev[k] = cs[k]
    BY <1>6 DEF Hash
  <2>3. kept[j].hash = Append(prev, cs[j])
    BY <1>7
  <2> HIDE DEF prev
  <2>4. /\ Len(kept[j].hash) = j /\ kept[j].hash[j] = cs[j]
        /\ \A k \in 1..(j - 1) : kept[j].hash[k] = prev[k]
    BY <2>2, <2>3
  <2> QED
    BY <2>1, <2>2, <2>4
<1>10. ASSUME NEW j \in 1..n
       PROVE  kept[j].prev = LinkBefore(kept, j)
  <2>1. CASE j = 1
    <3>1. Len(kept[j].prev) = 0 /\ kept[j].prev \in Seq(Content)
      BY <1>6, <1>7, <2>1 DEF Hash
    <3> QED
      BY <2>1, <3>1 DEF LinkBefore, Genesis
  <2>2. CASE j # 1
    <3>1. j - 1 \in 1..n
      BY <2>2
    <3>2. /\ kept[j - 1].hash \in Seq(Content) /\ Len(kept[j - 1].hash) = j - 1
          /\ \A k \in 1..(j - 1) : kept[j - 1].hash[k] = cs[k]
      BY <1>7, <1>9, <3>1, RecordFields DEF Hash
    <3>3. /\ kept[j].prev \in Seq(Content) /\ Len(kept[j].prev) = j - 1
          /\ \A k \in 1..(j - 1) : kept[j].prev[k] = cs[k]
      BY <1>6, <1>7 DEF Hash
    <3>4. kept[j].prev = kept[j - 1].hash
      BY <3>2, <3>3
    <3> QED
      BY <2>2, <3>4 DEF LinkBefore
  <2> QED
    BY <2>1, <2>2
<1>11. DOMAIN kept = 1..n /\ Loads(kept)
  <2>1. DOMAIN kept = 1..n
    BY <1>8
  <2> QED
    BY <2>1, <1>7, RecordFields DEF Loads
<1>12. Verifies(kept)
  BY <1>7, <1>10, <1>11 DEF Verifies
<1>13. \A j \in 1..n : cs[j] = lines[Len(lines) - n + j].content
  BY <1>1, <1>4
<1>14. \A j \in 1..n : \A k \in 1..j : kept[j].hash[k] = lines[Len(lines) - n + k].content
  BY <1>9, <1>13
<1> QED
  BY <1>7, <1>8, <1>9, <1>12, <1>13, <1>14 DEF kept, new

(* The newest lines of a chain that verifies, re-sealed, may replace it. *)
LEMMA MayReplace ==
    ASSUME RotInv, NEW c \in Corridors, Verifies(file[c]), Whole(c) \/ cut[c],
           NEW n \in 1..Len(file[c]), NEW kept, kept = Resealed(Newest(file[c], n))
    PROVE  /\ kept \in Seq(Record) /\ Len(kept) = n
           /\ Verifies(kept)
           /\ \A j \in 1..n : UnbrokenIn(written[c], kept[j].hash)
           /\ Top(kept[n].hash) = Top(file[c][Len(file[c])].hash)
           /\ ~cut[c] => Covers(c, kept[n].hash)
           /\ ~cut[c] /\ ~tampered[c] =>
                 \A r \in acked[c] : r.seq >= kept[1].content.seq =>
                    \E j \in 1..n : kept[j].content = r
<1> DEFINE lines == file[c]
           skip == Len(lines) - n
<1>1. /\ lines \in Seq(Line) /\ Len(lines) \in Nat /\ lines # <<>>
      /\ unsynced[c] \in Nat
  BY DEF RotInv, TypeInv, TypeOK
<1>2. /\ UnbrokenIn(written[c], lines[Len(lines)].hash)
      /\ Whole(c) => Covers(c, lines[Len(lines)].hash)
  BY <1>1, FileUnbroken
<1>3. /\ \A i \in 1..Len(lines) :
            /\ lines[i] \in Record
            /\ lines[i].content \in written[c]
            /\ i > 1 => lines[i].content.seq = lines[i - 1].content.seq + 1
            /\ lines[i].content.seq = lines[1].content.seq + (i - 1)
      /\ Top(lines[Len(lines)].hash) = lines[Len(lines)].content
  BY <1>1, <1>2, UnbrokenChain
<1>4. PICK s \in Nat : s = skip /\ s + n = Len(lines)
  BY <1>1
<1> HIDE DEF skip
<1>5. /\ kept \in Seq(Record) /\ Len(kept) = n /\ Verifies(kept)
      /\ \A j \in 1..n :
            /\ kept[j].content = lines[s + j].content
            /\ Len(kept[j].hash) = j
            /\ \A k \in 1..j : kept[j].hash[k] = lines[s + k].content
  <2>1. lines \in Seq(Line) /\ \A i \in 1..Len(lines) : lines[i] \in Record
    BY <1>1, <1>3
  <2>2. skip = Len(lines) - n
    BY DEF skip
  <2> HIDE DEF lines
  <2>3. kept = Resealed(Newest(lines, n)) /\ n \in 1..Len(lines)
    BY DEF lines
  <2>4. /\ kept \in Seq(Record) /\ Len(kept) = n /\ Verifies(kept)
        /\ \A j \in 1..n :
            /\ kept[j].content = lines[Len(lines) - n + j].content
            /\ Len(kept[j].hash) = j
            /\ \A k \in 1..j : kept[j].hash[k] = lines[Len(lines) - n + k].content
    BY <2>1, <2>3, ResealedType
  <2> QED
    BY <2>2, <2>4, <1>4
<1> HIDE DEF lines
<1>6. \A j \in 1..n : s + j \in 1..Len(lines) /\ (j > 1 => s + j > 1 /\ (s + j) - 1 = s + (j - 1))
  BY <1>4
<1>7. ASSUME NEW j \in 1..n
      PROVE  UnbrokenIn(written[c], kept[j].hash)
  <2>1. ASSUME NEW k \in 1..j
        PROVE  /\ kept[j].hash[k] \in written[c]
               /\ k > 1 => kept[j].hash[k].seq = kept[j].hash[k - 1].seq + 1
    <3>1. k \in 1..n /\ kept[j].hash[k] = lines[s + k].content
      BY <1>5
    <3>a. k > 1 => k - 1 \in 1..j
      OBVIOUS
    <3>2. k > 1 => kept[j].hash[k - 1] = lines[s + (k - 1)].content
      BY <1>5, <3>a
    <3>3. s + k \in 1..Len(lines) /\ (k > 1 => s + k > 1 /\ (s + k) - 1 = s + (k - 1))
      BY <1>6, <3>1
    <3> QED
      BY <1>3, <3>1, <3>2, <3>3
  <2> QED
    BY <1>5, <2>1 DEF UnbrokenIn
<1>8. Top(kept[n].hash) = Top(lines[Len(lines)].hash)
  <2>1. n \in 1..n /\ s + n = Len(lines)
    BY <1>4
  <2>2. Len(kept[n].hash) = n /\ kept[n].hash[n] = lines[s + n].content
    BY <1>5, <2>1
  <2>3. Top(kept[n].hash) = kept[n].hash[n]
    BY <2>2 DEF Top
  <2> QED
    BY <1>3, <2>1, <2>2, <2>3
<1>9. ~cut[c] => Covers(c, kept[n].hash)
  BY <1>2, <1>8 DEF Covers
<1>10. ASSUME ~cut[c], ~tampered[c], NEW r \in acked[c], r.seq >= kept[1].content.seq
       PROVE  \E j \in 1..n : kept[j].content = r
  <2>1. 1 \in 1..n /\ s + 1 \in 1..Len(lines)
    BY <1>6
  <2>2. kept[1].content = lines[s + 1].content /\ lines[s + 1] # Torn
    BY <1>3, <1>5, <2>1, RecordFields
  <2>3. AboveDropped(c) /\ acked[c] \subseteq Content /\ dropped[c] \in Nat
    BY DEF RotInv, ChainInv, TypeInv, TypeOK, RotTypeOK
  <2>4. PICK a \in Nat, b \in Nat, d \in Nat :
           a = r.seq /\ b = lines[s + 1].content.seq /\ d = dropped[c]
    BY <1>3, <2>1, <2>3, RecordFields DEF Content
  <2>5. b > d
    BY <1>10, <2>1, <2>2, <2>3, <2>4 DEF AboveDropped, lines
  <2>6. a >= b
    BY <1>10, <2>2, <2>4
  <2>7. r.seq > dropped[c]
    BY <2>4, <2>5, <2>6
  <2>8. Stored(c, r)
    BY <1>10, <2>3, <2>7 DEF AboveDropped
  <2>9. PICK i \in 1..Len(lines) : lines[i].content = r
    BY <1>1, <2>8 DEF Stored, lines
  <2>10. PICK f \in Nat : f = lines[1].content.seq
    <3>1. 1 \in 1..Len(lines)
      BY <2>1
    <3> QED
      BY <1>3, <3>1, RecordFields
  <2>11. a = f + (i - 1) /\ b = f + ((s + 1) - 1)
    BY <1>3, <2>1, <2>4, <2>9, <2>10
  <2>12. PICK j \in 1..n : i = s + j
    <3>1. i >= s + 1
      BY <2>6, <2>11
    <3>2. PICK l \in Nat : l = Len(lines) /\ s + n = l /\ i <= l
      BY <1>1, <1>4 DEF lines
    <3>3. i - s \in 1..n /\ i = s + (i - s)
      BY <3>1, <3>2
    <3> QED
      BY <3>3
  <2> QED
    BY <1>5, <2>9, <2>12
<1> QED
  BY <1>5, <1>7, <1>8, <1>9, <1>10 DEF lines

(* What a chain's step past truncation finds: the window, and the file. *)
LEMMA InHand ==
    ASSUME RotInv, rot.step \in {"truncated", "rewritten"}
    PROVE  /\ Current \in Corridors
           /\ rot.kept \in Seq(Record) /\ rot.kept \in Seq(Line)
           /\ Len(rot.kept) >= 1 /\ Len(rot.kept) \in 1..Len(rot.kept)
           /\ KeptChain(Current)
           /\ Rotating(Current)
<1>1. Current \in Corridors /\ KeptChain(Current)
  BY CurrentIs DEF RotInv, KeptOK
<1>2. rot.kept \in Seq(Record)
  BY DEF RotInv, RotTypeOK
<1>3. rot.kept # <<>>
  BY <1>1 DEF KeptChain
<1>4. Rotating(Current)
  BY DEF Rotating
<1>5. rot.kept \in Seq(Line)
  BY <1>2 DEF Line
<1>6. Len(rot.kept) >= 1 /\ Len(rot.kept) \in 1..Len(rot.kept)
  BY <1>2, <1>3
<1> QED
  BY <1>1, <1>2, <1>4, <1>5, <1>6

(* What a rotation cuts is a chain that verifies, longer than the ceiling. *)
LEMMA Truncates ==
    ASSUME RotInv, RotateTruncate
    PROVE  /\ Current \in Corridors /\ rot.todo # {} /\ rot.step = "scan"
           /\ Verifies(file[Current])
           /\ rot.ceiling \in 1..Len(file[Current])
           /\ rot'.kept = Resealed(Newest(file[Current], rot.ceiling))
           /\ rot'.kept \in Seq(Record)
           /\ rot' = [rot EXCEPT !.step = "truncated", !.kept = rot'.kept]
           /\ rot'.step = "truncated" /\ rot'.todo = rot.todo
           /\ file' = [file EXCEPT ![Current] = <<>>]
           /\ unsynced' = [unsynced EXCEPT ![Current] = 0]
           /\ UNCHANGED <<tips, residue, dropped, cut, lock>>
<1>1. /\ rot.step = "scan" /\ rot.todo # {} /\ Verifies(file[Current])
      /\ Len(file[Current]) > rot.ceiling
      /\ rot' = [rot EXCEPT !.step = "truncated",
                            !.kept = Resealed(Newest(file[Current], rot.ceiling))]
      /\ file' = [file EXCEPT ![Current] = <<>>]
      /\ unsynced' = [unsynced EXCEPT ![Current] = 0]
      /\ UNCHANGED <<tips, residue, dropped, cut, lock>>
  BY DEF RotateTruncate, ReadBack, historyVars
<1>2. Current \in Corridors
  BY <1>1, CurrentIs DEF RotInv
<1>3. rot.ceiling \in Nat /\ rot.ceiling >= 1 /\ file[Current] \in Seq(Line)
  BY <1>1, <1>2 DEF RotInv, RotTypeOK, RotOK, TypeInv, TypeOK
<1>4. rot.ceiling \in 1..Len(file[Current])
  BY <1>1, <1>3
<1>5. /\ rot'.kept = Resealed(Newest(file[Current], rot.ceiling))
      /\ rot'.step = "truncated" /\ rot'.todo = rot.todo
  BY <1>1 DEF RotInv, RotTypeOK
<1>6. Whole(Current) \/ cut[Current]
  BY <1>1 DEF Whole, Rotating
<1>7. rot'.kept \in Seq(Record)
  BY <1>1, <1>2, <1>4, <1>5, <1>6, MayReplace
<1> QED
  BY <1>1, <1>2, <1>4, <1>5, <1>7

(* No step of a rotation breaks the types; one case per action. *)
LEMMA RotateType ==
    ASSUME RotInv, RotateStep
    PROVE  TypeInv' /\ RotTypeOK' /\ RotOK'
<1>1. /\ op.step = "idle" /\ up /\ UNCHANGED <<up, op, written, acked, tampered>>
      /\ TypeInv /\ RotTypeOK /\ RotOK
  BY RotateQuiet DEF RotInv
<1>2. /\ file \in [Corridors -> Seq(Line)] /\ eol \in [Corridors -> BOOLEAN]
      /\ unsynced \in [Corridors -> Nat] /\ tips \in [Corridors -> Record \cup {Nil}]
      /\ residue \in [Corridors -> BOOLEAN] /\ faults \in Nat
      /\ lock \in {"free", "append", "rotate"}
      /\ \A c \in Corridors : unsynced[c] <= Len(file[c])
  BY <1>1 DEF TypeInv, TypeOK, UnsyncedOK
<1>3. /\ rot \in [step : RotationSteps, todo : SUBSET Corridors,
                  ceiling : Nat, kept : Seq(Record)]
      /\ dropped \in [Corridors -> Nat] /\ cut \in [Corridors -> BOOLEAN]
  BY <1>1 DEF RotTypeOK
<1>4. ASSUME /\ file' \in [Corridors -> Seq(Line)] /\ eol' \in [Corridors -> BOOLEAN]
             /\ unsynced' \in [Corridors -> Nat] /\ tips' \in [Corridors -> Record \cup {Nil}]
             /\ residue' \in [Corridors -> BOOLEAN] /\ faults' \in Nat
             /\ lock' \in {"free", "append", "rotate"}
             /\ \A c \in Corridors : unsynced'[c] <= Len(file'[c])
      PROVE  TypeInv'
  BY <1>1, <1>4 DEF TypeInv, TypeOK, OpOK, UnsyncedOK
<1>5. ASSUME /\ UNCHANGED <<diskVars, tips, residue, faults>>
             /\ lock' \in {"free", "append", "rotate"}
      PROVE  TypeInv'
  BY <1>2, <1>4, <1>5 DEF diskVars
<1>6. NoRotation \in [step : RotationSteps, todo : SUBSET Corridors,
                      ceiling : Nat, kept : Seq(Record)]
  BY DEF NoRotation, RotationSteps
<1>7. ASSUME EndRotate, dropped' = dropped, cut' \in [Corridors -> BOOLEAN]
      PROVE  RotTypeOK' /\ RotOK' /\ lock' = "free"
  BY <1>3, <1>6, <1>7 DEF EndRotate, RotTypeOK, RotOK, NoRotation
<1>8. ASSUME NEW n \in Ceilings, BeginRotate(n)
      PROVE  TypeInv' /\ RotTypeOK' /\ RotOK'
  <2>1. n \in Nat /\ n >= 1
    BY <1>8, CeilingsAssumption DEF BeginRotate
  <2>2. /\ rot' = [step |-> "scan", todo |-> {c \in Corridors : tips[c] # Nil},
                   ceiling |-> n, kept |-> <<>>]
        /\ lock' = "rotate" /\ UNCHANGED <<diskVars, tips, residue, faults, dropped, cut>>
    BY <1>8 DEF BeginRotate, historyVars
  <2>3. TypeInv'
    BY <1>5, <2>2
  <2>4. rot' \in [step : RotationSteps, todo : SUBSET Corridors,
                  ceiling : Nat, kept : Seq(Record)]
    BY <2>1, <2>2 DEF RotationSteps
  <2> QED
    BY <1>1, <1>3, <2>1, <2>2, <2>3, <2>4 DEF RotTypeOK, RotOK
<1>9. CASE RotateSkip
  <2>1. /\ rot' = [rot EXCEPT !.todo = @ \ {Current}] /\ rot.step = "scan"
        /\ UNCHANGED <<diskVars, tips, residue, faults, lock, dropped, cut>>
    BY <1>9 DEF RotateSkip, vars, historyVars
  <2>2. TypeInv'
    BY <1>2, <1>5, <2>1
  <2>3. /\ rot' \in [step : RotationSteps, todo : SUBSET Corridors,
                     ceiling : Nat, kept : Seq(Record)]
        /\ rot'.step = "scan" /\ rot'.ceiling = rot.ceiling
    BY <1>3, <2>1
  <2> QED
    BY <1>1, <1>3, <2>1, <2>2, <2>3 DEF RotTypeOK, RotOK
<1>10. CASE RotateRefuse \/ RotateDone
  <2>1. EndRotate /\ UNCHANGED <<diskVars, tips, residue, faults, dropped, cut>>
    BY <1>10 DEF RotateRefuse, RotateDone, historyVars
  <2> QED
    BY <1>3, <1>5, <1>7, <2>1
<1>11. CASE RotateTruncate
  <2>1. /\ Current \in Corridors /\ rot'.kept \in Seq(Record) /\ rot.step = "scan"
        /\ rot' = [rot EXCEPT !.step = "truncated", !.kept = rot'.kept]
        /\ file' = [file EXCEPT ![Current] = <<>>]
        /\ unsynced' = [unsynced EXCEPT ![Current] = 0]
        /\ UNCHANGED <<tips, residue, dropped, cut, lock>>
    BY <1>11, Truncates
  <2>2. eol' = [eol EXCEPT ![Current] = TRUE] /\ faults' = faults
    BY <1>11 DEF RotateTruncate
  <2>3. /\ file' \in [Corridors -> Seq(Line)] /\ unsynced' \in [Corridors -> Nat]
        /\ \A c \in Corridors : unsynced'[c] <= Len(file'[c])
    BY <1>2, <2>1
  <2>4. TypeInv'
    BY <1>2, <1>4, <2>1, <2>2, <2>3
  <2>5. /\ rot' \in [step : RotationSteps, todo : SUBSET Corridors,
                     ceiling : Nat, kept : Seq(Record)]
        /\ rot'.ceiling = rot.ceiling
    BY <1>3, <2>1 DEF RotationSteps
  <2> QED
    BY <1>1, <1>3, <2>1, <2>4, <2>5 DEF RotTypeOK, RotOK
<1>12. CASE RotateWrite
  <2>1. /\ rot.step = "truncated" /\ rot' = [rot EXCEPT !.step = "rewritten"]
        /\ file' = [file EXCEPT ![Current] = rot.kept]
        /\ unsynced' = [unsynced EXCEPT ![Current] = Len(rot.kept)]
        /\ UNCHANGED <<eol, lock, tips, residue, faults, dropped, cut>>
    BY <1>12 DEF RotateWrite, historyVars
  <2>2. Current \in Corridors /\ rot.kept \in Seq(Line) /\ Len(rot.kept) \in Nat
    BY <2>1, InHand
  <2>3. /\ file' \in [Corridors -> Seq(Line)] /\ unsynced' \in [Corridors -> Nat]
        /\ \A c \in Corridors : unsynced'[c] <= Len(file'[c])
    BY <1>2, <2>1, <2>2
  <2>4. TypeInv'
    BY <1>2, <1>4, <2>1, <2>3
  <2>5. /\ rot' \in [step : RotationSteps, todo : SUBSET Corridors,
                     ceiling : Nat, kept : Seq(Record)]
        /\ rot'.ceiling = rot.ceiling
    BY <1>3, <2>1 DEF RotationSteps
  <2> QED
    BY <1>1, <1>3, <2>1, <2>4, <2>5 DEF RotTypeOK, RotOK
<1>13. CASE RotateWriteFails
  <2>1. PICK n \in 0..(Len(rot.kept) - 1), torn \in BOOLEAN :
           /\ file' = [file EXCEPT ![Current] = IF torn THEN Append(SubSeq(rot.kept, 1, n), Torn)
                                                ELSE SubSeq(rot.kept, 1, n)]
           /\ eol' = [eol EXCEPT ![Current] = ~torn]
           /\ unsynced' = [unsynced EXCEPT ![Current] = Len(file'[Current])]
    BY <1>13 DEF RotateWriteFails
  <2>2. /\ rot.step = "truncated" /\ faults' = faults + 1 /\ EndRotate
        /\ residue' = [residue EXCEPT ![Current] = TRUE]
        /\ cut' = [cut EXCEPT ![Current] = TRUE] /\ UNCHANGED <<tips, dropped>>
    BY <1>13 DEF RotateWriteFails, Fault
  <2>3. Current \in Corridors /\ rot.kept \in Seq(Line) /\ Torn \in Line
    BY <2>2, InHand DEF Line
  <2>4. SubSeq(rot.kept, 1, n) \in Seq(Line)
    BY <2>1, <2>3
  <2>5. PICK lines \in Seq(Line) : file' = [file EXCEPT ![Current] = lines]
    <3>1. Append(SubSeq(rot.kept, 1, n), Torn) \in Seq(Line)
      BY <2>3, <2>4
    <3> QED
      BY <2>1, <2>4, <3>1
  <2>6. file' \in [Corridors -> Seq(Line)] /\ file'[Current] = lines
    BY <1>2, <2>3, <2>5
  <2>7. /\ unsynced' \in [Corridors -> Nat]
        /\ \A c \in Corridors : unsynced'[c] <= Len(file'[c])
    BY <1>2, <2>1, <2>3, <2>5, <2>6
  <2>8. eol' \in [Corridors -> BOOLEAN] /\ residue' \in [Corridors -> BOOLEAN]
        /\ cut' \in [Corridors -> BOOLEAN] /\ faults' \in Nat
    BY <1>2, <1>3, <2>1, <2>2, <2>3
  <2> QED
    BY <1>2, <1>4, <1>7, <2>2, <2>6, <2>7, <2>8
<1>14. CASE RotateSync
  <2>1. /\ rot.step = "rewritten" /\ unsynced' = [unsynced EXCEPT ![Current] = 0]
        /\ tips' = [tips EXCEPT ![Current] = TipOf(rot.kept)]
        /\ dropped' = [dropped EXCEPT ![Current] = rot.kept[1].content.seq - 1]
        /\ residue' = [residue EXCEPT ![Current] = FALSE]
        /\ rot' = [rot EXCEPT !.step = "scan", !.todo = @ \ {Current}, !.kept = <<>>]
        /\ UNCHANGED <<file, eol, lock, faults, cut>>
    BY <1>14 DEF RotateSync, RotatedTips
  <2>2. /\ Current \in Corridors /\ rot.kept \in Seq(Record) /\ Len(rot.kept) >= 1
        /\ Len(rot.kept) \in 1..Len(rot.kept)
    BY <2>1, InHand
  <2>3. rot.kept[1] \in Record /\ TipOf(rot.kept) \in Record
    BY <2>2 DEF TipOf
  <2>4. rot.kept[1].content.seq \in Nat \ {0}
    BY <2>3, RecordFields
  <2>5. PICK k \in Nat : k = rot.kept[1].content.seq - 1
    BY <2>4
  <2>6. dropped' \in [Corridors -> Nat]
    BY <1>3, <2>1, <2>5
  <2>7. tips' \in [Corridors -> Record \cup {Nil}] /\ residue' \in [Corridors -> BOOLEAN]
    BY <1>2, <2>1, <2>3
  <2>8. unsynced' \in [Corridors -> Nat] /\ \A c \in Corridors : unsynced'[c] <= Len(file'[c])
    BY <1>2, <2>1, <2>2
  <2>9. TypeInv'
    BY <1>2, <1>4, <2>1, <2>7, <2>8
  <2>a. <<>> \in Seq(Record) /\ rot.todo \ {Current} \subseteq Corridors
    BY <1>3
  <2>10. /\ rot' \in [step : RotationSteps, todo : SUBSET Corridors,
                      ceiling : Nat, kept : Seq(Record)]
         /\ rot'.ceiling = rot.ceiling
    BY <1>3, <2>1, <2>a DEF RotationSteps
  <2> QED
    BY <1>1, <1>3, <2>1, <2>6, <2>9, <2>10 DEF RotTypeOK, RotOK
<1>15. CASE RotateSyncFails
  <2>1. /\ rot.step = "rewritten" /\ faults' = faults + 1 /\ EndRotate
        /\ residue' = [residue EXCEPT ![Current] = TRUE]
        /\ cut' = [cut EXCEPT ![Current] = TRUE] /\ UNCHANGED <<diskVars, tips, dropped>>
    BY <1>15 DEF RotateSyncFails, Fault
  <2>a. residue' \in [Corridors -> BOOLEAN] /\ cut' \in [Corridors -> BOOLEAN]
    BY <1>2, <1>3, <2>1
  <2>2. residue' \in [Corridors -> BOOLEAN] /\ cut' \in [Corridors -> BOOLEAN] /\ faults' \in Nat
    BY <1>2, <2>1, <2>a
  <2> QED
    BY <1>2, <1>4, <1>7, <2>1, <2>2 DEF diskVars
<1> QED
  BY <1>8, <1>9, <1>10, <1>11, <1>12, <1>13, <1>14, <1>15 DEF RotateStep

-----------------------------------------------------------------------------
(* A rotation step leaves a good window to write, and to sync. *)
LEMMA RotateKept ==
    ASSUME RotInv, RotateStep
    PROVE  KeptOK'
<1>1. UNCHANGED <<written, acked, tampered>>
  BY RotateQuiet DEF RotInv
<1>2. /\ file \in [Corridors -> Seq(Line)] /\ unsynced \in [Corridors -> Nat]
      /\ rot \in [step : RotationSteps, todo : SUBSET Corridors,
                  ceiling : Nat, kept : Seq(Record)]
      /\ KeptOK
  BY DEF RotInv, TypeInv, TypeOK, RotTypeOK
<1>3. CASE rot'.step \in {"idle", "scan"}
  BY <1>3 DEF KeptOK
<1>4. CASE RotateTruncate
  <2>1. /\ Current \in Corridors /\ rot.todo # {} /\ rot.step = "scan"
        /\ Verifies(file[Current])
        /\ rot.ceiling \in 1..Len(file[Current])
        /\ rot'.kept = Resealed(Newest(file[Current], rot.ceiling))
        /\ rot'.step = "truncated" /\ rot'.todo = rot.todo
        /\ file' = [file EXCEPT ![Current] = <<>>]
        /\ unsynced' = [unsynced EXCEPT ![Current] = 0]
        /\ UNCHANGED <<tips, residue, dropped, cut>>
    BY <1>4, Truncates
  <2>2. Whole(Current) \/ cut[Current]
    BY <2>1 DEF Whole, Rotating
  <2>3. PICK c \in Corridors, n \in 1..Len(file[Current]) : c = Current /\ n = rot.ceiling
    BY <2>1
  <2>a. PICK kept \in Seq(Record) :
           kept = rot'.kept /\ kept = Resealed(Newest(file[c], n))
    BY <1>4, <2>1, <2>3, Truncates
  <2>b. Verifies(file[c]) /\ (Whole(c) \/ cut[c]) /\ n \in 1..Len(file[c])
    BY <2>1, <2>2, <2>3
  <2>4. /\ Len(kept) = n
        /\ Verifies(kept)
        /\ \A j \in 1..n : UnbrokenIn(written[c], kept[j].hash)
        /\ ~cut[c] => Covers(c, kept[n].hash)
        /\ ~cut[c] /\ ~tampered[c] =>
              \A r \in acked[c] : r.seq >= kept[1].content.seq =>
                 \E j \in 1..n : kept[j].content = r
    BY <2>a, <2>b, MayReplace
  <2>5. kept # <<>>
    BY <2>4
  <2>6. Current' = c /\ cut' = cut
    BY <2>1, <2>3 DEF Current
  <2>7. ~cut'[c] => Covers(c, kept[n].hash)'
    BY <1>1, <2>4, <2>6 DEF Covers
  <2>8. KeptChain(c)'
    BY <1>1, <2>a, <2>4, <2>5, <2>6, <2>7 DEF KeptChain
  <2>9. file'[c] = <<>> /\ unsynced'[c] = 0
    BY <1>2, <2>1, <2>3
  <2> QED
    BY <2>1, <2>6, <2>8, <2>9 DEF KeptOK
<1>5. CASE RotateWrite
  <2>1. /\ rot.step = "truncated" /\ rot' = [rot EXCEPT !.step = "rewritten"]
        /\ file' = [file EXCEPT ![Current] = rot.kept]
        /\ unsynced' = [unsynced EXCEPT ![Current] = Len(rot.kept)]
        /\ cut' = cut
    BY <1>5 DEF RotateWrite
  <2>2. /\ rot'.step = "rewritten" /\ rot'.todo = rot.todo /\ rot'.kept = rot.kept
    BY <1>2, <2>1
  <2>3. Current \in Corridors /\ KeptChain(Current) /\ rot.todo # {}
    BY <1>2, <2>1, InHand DEF KeptOK
  <2>4. Current' = Current
    BY <2>2 DEF Current
  <2>5. KeptChain(Current)'
    BY <1>1, <2>1, <2>2, <2>3, <2>4 DEF KeptChain, Covers
  <2>6. file'[Current] = rot.kept /\ unsynced'[Current] = Len(rot.kept)
    BY <1>2, <2>1, <2>3
  <2> QED
    BY <2>2, <2>3, <2>4, <2>5, <2>6 DEF KeptOK
<1>6. ASSUME NEW n \in Ceilings, BeginRotate(n)
      PROVE  KeptOK'
  BY <1>3, <1>6 DEF BeginRotate
<1>7. CASE RotateSkip \/ RotateSync
  BY <1>2, <1>3, <1>7 DEF RotateSkip, RotateSync
<1>8. CASE RotateRefuse \/ RotateWriteFails \/ RotateSyncFails \/ RotateDone
  BY <1>3, <1>8 DEF RotateRefuse, RotateWriteFails, RotateSyncFails, RotateDone, EndRotate,
     NoRotation
<1> QED
  BY <1>4, <1>5, <1>6, <1>7, <1>8 DEF RotateStep

(* A chain that the step does not touch is as good as it was. *)
LEMMA OtherChains ==
    ASSUME RotInv, RotateStep, NEW c \in Corridors, ~Rotating(c), ~Rotating(c)',
           file'[c] = file[c], unsynced'[c] = unsynced[c], tips'[c] = tips[c],
           residue'[c] = residue[c], dropped'[c] = dropped[c], cut'[c] = cut[c]
    PROVE  ChainInv(c)'
<1>1. UNCHANGED <<up, op, written, acked, tampered>> /\ ChainInv(c)
  BY RotateQuiet DEF RotInv
<1>2. Whole(c)' <=> Whole(c)
  BY DEF Whole
<1>3. WindowOK(c)'
  BY <1>1, <1>2 DEF ChainInv, WindowOK, Covers
<1>4. IndexOK(c)'
  BY <1>1 DEF ChainInv, IndexOK, Covers
<1>5. SoundOK(c)'
  BY <1>1 DEF ChainInv, SoundOK
<1>6. \A r : Stored(c, r)' <=> Stored(c, r)
  BY DEF Stored
<1>7. AboveDropped(c)'
  BY <1>1, <1>2, <1>6 DEF ChainInv, AboveDropped
<1>8. TipAboveDropped(c)'
  BY <1>1 DEF ChainInv, TipAboveDropped
<1> QED
  BY <1>3, <1>4, <1>5, <1>7, <1>8 DEF ChainInv

(* Truncated, and after it written, a chain is excused until it is whole.  *)
LEMMA CutChain ==
    ASSUME RotInv, RotateStep, NEW c \in Corridors,
           cut'[c] \/ Rotating(c)',
           tips'[c] = tips[c], dropped'[c] = dropped[c],
           cut[c] => cut'[c],
           residue'[c] \/ Rotating(c)',
           \A i \in 1..Len(file'[c]) : file'[c][i] # Torn =>
              UnbrokenIn(written[c], file'[c][i].hash)
    PROVE  ChainInv(c)'
<1>1. UNCHANGED <<up, op, written, acked, tampered>> /\ ChainInv(c)
  BY RotateQuiet DEF RotInv
<1>2. ~Whole(c)'
  BY DEF Whole
<1>3. WindowOK(c)' /\ AboveDropped(c)' /\ SoundOK(c)'
  BY <1>1, <1>2 DEF WindowOK, AboveDropped, SoundOK
<1>4. IndexOK(c)' /\ TipAboveDropped(c)'
  BY <1>1 DEF ChainInv, IndexOK, TipAboveDropped, Covers
<1> QED
  BY <1>3, <1>4 DEF ChainInv

(* The window written and synced, the chain is sound and whole again. *)
LEMMA SyncedChain ==
    ASSUME RotInv, RotateSync, RotTypeOK', NEW c \in Corridors, c = Current
    PROVE  ChainInv(c)'
<1>1. /\ rot.step = "rewritten" /\ unsynced' = [unsynced EXCEPT ![c] = 0]
      /\ tips' = [tips EXCEPT ![c] = TipOf(rot.kept)]
      /\ dropped' = [dropped EXCEPT ![c] = rot.kept[1].content.seq - 1]
      /\ rot'.step = "scan"
      /\ UNCHANGED <<file, cut, up, op, written, acked, tampered>>
  BY DEF RotateSync, RotatedTips, RotInv, RotTypeOK
<1>2. /\ rot.kept \in Seq(Record) /\ rot.kept \in Seq(Line)
      /\ Len(rot.kept) >= 1 /\ Len(rot.kept) \in 1..Len(rot.kept)
      /\ KeptChain(c) /\ file[c] = rot.kept
  BY <1>1, InHand DEF RotInv, KeptOK
<1>3. PICK kept \in Seq(Record), n \in Nat \ {0} : kept = rot.kept /\ n = Len(kept)
  BY <1>2
<1>4. /\ kept # <<>> /\ Verifies(kept) /\ n \in 1..n
      /\ \A j \in 1..n : UnbrokenIn(written[c], kept[j].hash)
      /\ ~cut[c] => Covers(c, kept[n].hash)
      /\ ~cut[c] /\ ~tampered[c] =>
            \A r \in acked[c] : r.seq >= kept[1].content.seq =>
               \E j \in 1..n : kept[j].content = r
  BY <1>2, <1>3 DEF KeptChain
<1>5. /\ \A i \in 1..n : kept[i] \in Record
      /\ \A i \in 1..n : kept[i].content.seq = kept[1].content.seq + (i - 1)
      /\ Top(kept[n].hash) = kept[n].content
  BY <1>2, <1>3, <1>4, UnbrokenChain
<1>6. /\ file'[c] = kept /\ unsynced'[c] = 0 /\ tips'[c] = kept[n]
      /\ dropped'[c] = kept[1].content.seq - 1 /\ cut'[c] = cut[c]
      /\ ~Rotating(c)'
  <2>1. /\ tips \in [Corridors -> Record \cup {Nil}] /\ unsynced \in [Corridors -> Nat]
        /\ dropped \in [Corridors -> Nat]
    BY DEF RotInv, TypeInv, TypeOK, RotTypeOK
  <2>2. ~Rotating(c)'
    BY <1>1 DEF Rotating
  <2>3. TipOf(kept) = kept[n]
    BY <1>3, <1>4 DEF TipOf
  <2> QED
    BY <1>1, <1>2, <1>3, <2>1, <2>2, <2>3
<1>7. PICK b \in Nat \ {0} : b = kept[1].content.seq
  <2>1. 1 \in 1..n
    BY <1>3
  <2> QED
    BY <1>5, <2>1, RecordFields
<1>8. kept[n] # Nil /\ kept[n] # Torn /\ \A i \in 1..n : kept[i] # Torn
  BY <1>4, <1>5, RecordFields
<1>9. kept[n].hash = Digest(kept[n].content, kept[n].prev)
  <2>1. n \in DOMAIN kept
    BY <1>3, <1>4
  <2> QED
    BY <1>4, <2>1 DEF Verifies
<1>10. ~cut[c] => Covers(c, kept[n].hash)'
  BY <1>1, <1>4 DEF Covers
<1>11. WindowOK(c)'
  <2>1. Len(file'[c]) = n /\ Len(file'[c]) - unsynced'[c] = n
    BY <1>3, <1>6
  <2>2. \A i \in 1..n : i >= n => i = n
    OBVIOUS
  <2>3. Whole(c)' => ~cut[c]
    BY <1>6 DEF Whole
  <2> QED
    BY <1>1, <1>3, <1>4, <1>6, <1>10, <2>1, <2>2, <2>3 DEF WindowOK
<1>12. IndexOK(c)'
  BY <1>1, <1>4, <1>6, <1>8, <1>9, <1>10 DEF IndexOK
<1>13. SoundOK(c)'
  BY <1>3, <1>4, <1>6 DEF SoundOK, TipOf
<1>14. \A i \in 1..n : kept[i].content.seq > b - 1
  BY <1>5, <1>7
<1>15. AboveDropped(c)'
  <2>1. Len(file'[c]) = n /\ Len(file'[c]) - unsynced'[c] = n /\ n >= 1
    BY <1>3, <1>6
  <2>2. ASSUME ~cut[c], ~tampered[c], NEW r \in acked[c], r.seq > b - 1
        PROVE  Stored(c, r)'
    <3>1. acked[c] \subseteq Content
      BY DEF RotInv, TypeInv, TypeOK
    <3>2. r.seq \in Nat
      BY <3>1 DEF Content
    <3>3. r.seq >= kept[1].content.seq
      BY <1>7, <2>2, <3>2
    <3>4. PICK j \in 1..n : kept[j].content = r
      BY <1>4, <2>2, <3>3
    <3> QED
      BY <1>6, <1>8, <2>1, <3>4 DEF Stored
  <2>3. dropped'[c] = b - 1
    BY <1>6, <1>7
  <2>4. Whole(c)' => ~cut[c]
    BY <1>6 DEF Whole
  <2> QED
    BY <1>1, <1>6, <1>14, <2>1, <2>2, <2>3, <2>4 DEF AboveDropped
<1>16. TipAboveDropped(c)'
  BY <1>4, <1>6, <1>7, <1>8, <1>14 DEF TipAboveDropped
<1> QED
  BY <1>11, <1>12, <1>13, <1>15, <1>16 DEF ChainInv

(* A rotation step keeps every chain; one case per action. *)
LEMMA RotateChains ==
    ASSUME RotInv, RotateStep, RotTypeOK', KeptOK', NEW c \in Corridors
    PROVE  ChainInv(c)'
<1>1. /\ file \in [Corridors -> Seq(Line)] /\ unsynced \in [Corridors -> Nat]
      /\ tips \in [Corridors -> Record \cup {Nil}] /\ residue \in [Corridors -> BOOLEAN]
      /\ dropped \in [Corridors -> Nat] /\ cut \in [Corridors -> BOOLEAN]
      /\ rot \in [step : RotationSteps, todo : SUBSET Corridors,
                  ceiling : Nat, kept : Seq(Record)]
  BY DEF RotInv, TypeInv, TypeOK, RotTypeOK
<1>2. ASSUME rot.step \in {"idle", "scan"}, rot'.step \in {"idle", "scan"},
             UNCHANGED <<file, unsynced, tips, residue, dropped, cut>>
      PROVE  ChainInv(c)'
  BY <1>2, OtherChains DEF Rotating
<1>3. ASSUME c # Current, rot'.step \in {"idle", "scan"} \/ rot'.todo = rot.todo,
             file'[c] = file[c], unsynced'[c] = unsynced[c], tips'[c] = tips[c],
             residue'[c] = residue[c], dropped'[c] = dropped[c], cut'[c] = cut[c]
      PROVE  ChainInv(c)'
  <2>1. ~Rotating(c) /\ ~Rotating(c)'
    BY <1>3 DEF Rotating, Current
  <2> QED
    BY <1>3, <2>1, OtherChains
<1>4. ASSUME NEW n \in Ceilings, BeginRotate(n)
      PROVE  ChainInv(c)'
  <2>1. rot.step = "idle"
    BY <1>4 DEF BeginRotate, RotInv, RotOK
  <2> QED
    BY <1>2, <1>4, <2>1 DEF BeginRotate, diskVars, historyVars
<1>5. CASE RotateSkip
  BY <1>1, <1>2, <1>5 DEF RotateSkip, vars, diskVars, historyVars
<1>6. CASE RotateRefuse \/ RotateDone
  BY <1>2, <1>6 DEF RotateRefuse, RotateDone, EndRotate, NoRotation, diskVars, historyVars
<1>7. CASE RotateTruncate
  <2>1. /\ Current \in Corridors /\ rot'.step = "truncated" /\ rot'.todo = rot.todo
        /\ file' = [file EXCEPT ![Current] = <<>>]
        /\ unsynced' = [unsynced EXCEPT ![Current] = 0]
        /\ UNCHANGED <<tips, residue, dropped, cut>>
    BY <1>7, Truncates
  <2>2. CASE c # Current
    BY <1>1, <1>3, <2>1, <2>2
  <2>3. CASE c = Current
    <3>1. Rotating(c)' /\ file'[c] = <<>>
      BY <1>1, <2>1, <2>3 DEF Rotating, Current
    <3> QED
      BY <2>1, <3>1, CutChain
  <2> QED
    BY <2>2, <2>3
<1>8. CASE RotateWrite
  <2>1. /\ rot.step = "truncated" /\ rot' = [rot EXCEPT !.step = "rewritten"]
        /\ file' = [file EXCEPT ![Current] = rot.kept]
        /\ unsynced' = [unsynced EXCEPT ![Current] = Len(rot.kept)]
        /\ UNCHANGED <<tips, residue, dropped, cut>>
    BY <1>8 DEF RotateWrite, historyVars
  <2>2. rot'.step = "rewritten" /\ rot'.todo = rot.todo
    BY <1>1, <2>1
  <2>3. Current \in Corridors /\ KeptChain(Current)
    BY <2>1, InHand
  <2>4. CASE c # Current
    BY <1>1, <1>3, <2>1, <2>2, <2>4
  <2>5. CASE c = Current
    <3>1. Rotating(c)' /\ file'[c] = rot.kept
      BY <1>1, <2>1, <2>2, <2>5 DEF Rotating, Current
    <3>2. \A i \in 1..Len(rot.kept) : UnbrokenIn(written[c], rot.kept[i].hash)
      BY <2>3, <2>5 DEF KeptChain
    <3> QED
      BY <2>1, <3>1, <3>2, CutChain
  <2> QED
    BY <2>4, <2>5
<1>9. CASE RotateWriteFails
  <2>1. PICK n \in 0..(Len(rot.kept) - 1), torn \in BOOLEAN :
           file' = [file EXCEPT ![Current] = IF torn THEN Append(SubSeq(rot.kept, 1, n), Torn)
                                             ELSE SubSeq(rot.kept, 1, n)]
    BY <1>9 DEF RotateWriteFails
  <2>2. /\ rot.step = "truncated" /\ rot' = NoRotation
        /\ residue' = [residue EXCEPT ![Current] = TRUE]
        /\ cut' = [cut EXCEPT ![Current] = TRUE] /\ UNCHANGED <<tips, dropped>>
        /\ \E k : unsynced' = [unsynced EXCEPT ![Current] = k]
    BY <1>9 DEF RotateWriteFails, EndRotate
  <2>3. Current \in Corridors /\ KeptChain(Current) /\ rot.kept \in Seq(Line) /\ Torn \in Line
    BY <2>2, InHand DEF Line
  <2>4. CASE c # Current
    <3>1. rot'.step = "idle"
      BY <2>2 DEF NoRotation
    <3>2. /\ file'[c] = file[c] /\ unsynced'[c] = unsynced[c] /\ residue'[c] = residue[c]
          /\ cut'[c] = cut[c]
      BY <1>1, <2>1, <2>2, <2>4
    <3> QED
      BY <1>3, <2>2, <2>4, <3>1, <3>2
  <2>5. CASE c = Current
    <3> DEFINE whole == SubSeq(rot.kept, 1, n)
    <3>1. /\ whole \in Seq(Line) /\ Len(whole) = n /\ n \in Nat
          /\ \A i \in 1..n : i \in 1..Len(rot.kept) /\ whole[i] = rot.kept[i]
      BY <2>3
    <3>2. \A i \in 1..n : UnbrokenIn(written[c], whole[i].hash)
      BY <2>3, <2>5, <3>1 DEF KeptChain
    <3> HIDE DEF whole
    <3>3. /\ Len(Append(whole, Torn)) = n + 1 /\ Append(whole, Torn)[n + 1] = Torn
          /\ \A i \in 1..n : Append(whole, Torn)[i] = whole[i]
      BY <2>3, <3>1
    <3>4. file'[c] = whole \/ file'[c] = Append(whole, Torn)
      BY <1>1, <2>1, <2>3, <2>5 DEF whole
    <3>5. \A i \in 1..(n + 1) : i = n + 1 \/ i \in 1..n
      BY <3>1
    <3>6. \A i \in 1..Len(file'[c]) : file'[c][i] # Torn =>
             UnbrokenIn(written[c], file'[c][i].hash)
      BY <3>1, <3>2, <3>3, <3>4, <3>5
    <3>7. cut'[c] /\ residue'[c]
      BY <1>1, <2>2, <2>5
    <3> QED
      BY <2>2, <3>6, <3>7, CutChain
  <2> QED
    BY <2>4, <2>5
<1>10. CASE RotateSync
  <2>1. CASE c = Current
    BY <1>10, <2>1, SyncedChain
  <2>2. CASE c # Current
    <3>1. /\ rot' = [rot EXCEPT !.step = "scan", !.todo = @ \ {Current}, !.kept = <<>>]
          /\ unsynced' = [unsynced EXCEPT ![Current] = 0]
          /\ tips' = [tips EXCEPT ![Current] = TipOf(rot.kept)]
          /\ dropped' = [dropped EXCEPT ![Current] = rot.kept[1].content.seq - 1]
          /\ residue' = [residue EXCEPT ![Current] = FALSE]
          /\ UNCHANGED <<file, cut>>
      BY <1>10 DEF RotateSync, RotatedTips
    <3>2. rot'.step = "scan"
      BY <1>1, <3>1
    <3>3. /\ unsynced'[c] = unsynced[c] /\ tips'[c] = tips[c]
          /\ dropped'[c] = dropped[c] /\ residue'[c] = residue[c]
      BY <1>1, <2>2, <3>1
    <3> QED
      BY <1>3, <2>2, <3>1, <3>2, <3>3
  <2> QED
    BY <2>1, <2>2
<1>11. CASE RotateSyncFails
  <2>1. /\ rot.step = "rewritten" /\ rot' = NoRotation
        /\ residue' = [residue EXCEPT ![Current] = TRUE]
        /\ cut' = [cut EXCEPT ![Current] = TRUE]
        /\ UNCHANGED <<file, unsynced, tips, dropped>>
    BY <1>11 DEF RotateSyncFails, EndRotate, diskVars
  <2>2. Current \in Corridors /\ KeptChain(Current) /\ file[Current] = rot.kept
    BY <2>1, InHand DEF RotInv, KeptOK
  <2>3. CASE c # Current
    <3>1. rot'.step = "idle" /\ residue'[c] = residue[c] /\ cut'[c] = cut[c]
      BY <1>1, <2>1, <2>3 DEF NoRotation
    <3> QED
      BY <1>3, <2>1, <2>3, <3>1
  <2>4. CASE c = Current
    <3>1. cut'[c] /\ residue'[c]
      BY <1>1, <2>1, <2>4
    <3>2. \A i \in 1..Len(file'[c]) : UnbrokenIn(written[c], file'[c][i].hash)
      BY <2>1, <2>2, <2>4 DEF KeptChain
    <3> QED
      BY <2>1, <3>1, <3>2, CutChain
  <2> QED
    BY <2>3, <2>4
<1> QED
  BY <1>4, <1>5, <1>6, <1>7, <1>8, <1>9, <1>10, <1>11 DEF RotateStep

-----------------------------------------------------------------------------
(* The steps that are not a rotation's own. *)
StoreStep == Open \/ AppendStep \/ \E c \in Corridors : LoseTail(c) \/ Edit(c)

StoreMoves ==
    \/ StoreStep /\ UNCHANGED rotVars
    \/ KillAnywhere
    \/ UNCHANGED allVars

(* They are steps of the store. *)
LEMMA MovesAreSteps == StoreMoves => [Next]_vars
BY DEF StoreMoves, StoreStep, KillAnywhere, Next, allVars

(* A chain that is whole after such a step was whole before it. *)
LEMMA WholeBefore ==
    ASSUME StoreMoves, NEW c \in Corridors
    PROVE  /\ dropped'[c] = dropped[c]
           /\ ~cut'[c] => ~cut[c]
           /\ Whole(c)' => Whole(c)
           /\ up' /\ ~Rotating(c)' => ~Rotating(c)
<1>1. CASE UNCHANGED rotVars
  BY <1>1 DEF rotVars, Whole, Rotating, Current
<1>2. CASE KillAnywhere
  <2>1. ~up' /\ dropped' = dropped
    BY <1>2 DEF KillAnywhere, Kill
  <2>2. cut'[c] <=> (cut[c] \/ (rot.step \in {"truncated", "rewritten"} /\ c = Current))
    BY <1>2 DEF KillAnywhere
  <2> QED
    BY <2>1, <2>2 DEF Whole, Rotating
<1> QED
  BY <1>1, <1>2 DEF StoreMoves, allVars

(* While a rotation is under way the store is edited or killed, or rests. *)
LEMMA RotatingBlocks ==
    ASSUME RotInv, StoreMoves, rot.step # "idle"
    PROVE  \/ UNCHANGED allVars
           \/ KillAnywhere
           \/ UNCHANGED rotVars /\ \E d \in Corridors : Edit(d)
<1>1. op.step = "idle" /\ up /\ lock = "rotate"
  BY RotatingAlone DEF RotInv
<1>2. ~AppendStep
  BY <1>1 DEF AppendStep, BeginAppend, AppendRefused, TerminateLastLine, WriteLine, WriteFails,
     PartialWrite, SyncSucceeds, SyncFails
<1>3. ~Open /\ \A d \in Corridors : ~LoseTail(d)
  BY <1>1 DEF Open, LoseTail
<1> QED
  BY <1>2, <1>3 DEF StoreMoves, StoreStep

(* A killed process has no rotation. *)
LEMMA KilledIdle ==
    ASSUME KillAnywhere
    PROVE  rot' = NoRotation /\ rot'.step = "idle" /\ ~up'
BY DEF KillAnywhere, Kill, NoRotation

(* The types survive them. *)
LEMMA MovesType ==
    ASSUME RotInv, StoreMoves
    PROVE  TypeInv' /\ RotTypeOK' /\ RotOK'
<1>1. TypeInv'
  BY MovesAreSteps, TypeNext DEF RotInv
<1>2. CASE KillAnywhere
  <2>1. /\ rot' = NoRotation /\ rot'.step = "idle"
        /\ dropped' = dropped /\ dropped \in [Corridors -> Nat]
        /\ cut \in [Corridors -> BOOLEAN]
    BY <1>2, KilledIdle DEF KillAnywhere, RotInv, RotTypeOK
  <2>2. cut' \in [Corridors -> BOOLEAN]
    BY <1>2, <2>1 DEF KillAnywhere
  <2>3. rot' \in [step : RotationSteps, todo : SUBSET Corridors,
                  ceiling : Nat, kept : Seq(Record)]
    BY <2>1 DEF NoRotation, RotationSteps
  <2> QED
    BY <1>1, <2>1, <2>2, <2>3 DEF RotTypeOK, RotOK
<1>3. CASE ~KillAnywhere
  <2>1. UNCHANGED rotVars
    BY <1>3 DEF StoreMoves, allVars
  <2>2. RotTypeOK'
    BY <2>1 DEF RotInv, RotTypeOK, rotVars
  <2>3. rot.step # "idle" => UNCHANGED <<up, lock>>
    BY <1>3, RotatingBlocks DEF Edit, allVars, vars
  <2>4. RotOK'
    BY <2>1, <2>3 DEF RotInv, RotOK, rotVars
  <2> QED
    BY <1>1, <2>2, <2>4
<1> QED
  BY <1>2, <1>3

(* No edit touches a chain a rotation has open: none of it is synced. *)
LEMMA MovesKept ==
    ASSUME RotInv, StoreMoves
    PROVE  KeptOK'
<1>1. KeptOK /\ file \in [Corridors -> Seq(Line)] /\ tampered \in [Corridors -> BOOLEAN]
  BY DEF RotInv, TypeInv, TypeOK
<1>2. CASE KillAnywhere
  BY <1>2, KilledIdle DEF KeptOK
<1>3. CASE UNCHANGED allVars
  BY <1>1, <1>3
     DEF KeptOK, KeptChain, Current, Covers, allVars, rotVars, vars, diskVars, historyVars
<1>4. CASE rot.step = "idle" /\ ~KillAnywhere
  <2>1. rot' = rot
    BY <1>4 DEF StoreMoves, allVars, rotVars
  <2> QED
    BY <1>4, <2>1 DEF KeptOK
<1>5. ASSUME rot.step # "idle", UNCHANGED rotVars, NEW d \in Corridors, Edit(d)
      PROVE  KeptOK'
  <2>1. CASE rot.step \notin {"truncated", "rewritten"}
    BY <1>5, <2>1 DEF KeptOK, rotVars
  <2>2. CASE rot.step \in {"truncated", "rewritten"}
    <3>1. /\ Current \in Corridors /\ KeptChain(Current)
          /\ rot.kept \in Seq(Line) /\ Len(rot.kept) \in Nat
      BY <2>2, InHand
    <3>2. Len(file[Current]) - unsynced[Current] = 0
      BY <1>1, <2>2, <3>1 DEF KeptOK
    <3>3. d # Current
      BY <1>5, <3>2 DEF Edit
    <3>4. PICK lines : file' = [file EXCEPT ![d] = lines]
      BY <1>5, EditKeepsEnd DEF RotInv
    <3>5. /\ tampered' = [tampered EXCEPT ![d] = TRUE]
          /\ UNCHANGED <<unsynced, written, acked, rot, cut>>
      BY <1>5 DEF Edit, rotVars
    <3>6. file'[Current] = file[Current] /\ tampered'[Current] = tampered[Current]
      BY <1>1, <3>1, <3>3, <3>4, <3>5
    <3>7. Current' = Current
      BY <3>5 DEF Current
    <3>8. KeptChain(Current)'
      BY <3>1, <3>5, <3>6, <3>7 DEF KeptChain, Covers
    <3> QED
      BY <1>1, <2>2, <3>5, <3>6, <3>7, <3>8 DEF KeptOK
  <2> QED
    BY <2>1, <2>2
<1> QED
  BY <1>2, <1>3, <1>4, <1>5, RotatingBlocks

-----------------------------------------------------------------------------
(* What the record under way commits to, once it is written. *)
LEMMA UnderWay ==
    ASSUME RotInv, op.step # "idle", NEW c \in Corridors, c = op.corridor
    PROVE  /\ op.rec \in Record /\ op.rec \in Line
           /\ \A W : written[c] \subseteq W /\ op.rec.content \in W =>
                        UnbrokenIn(W, op.rec.hash)
           /\ Top(op.rec.hash) = op.rec.content
           /\ ~cut[c] => \A r \in acked[c] : r.seq < op.rec.content.seq
           /\ ~cut[c] /\ ~tampered[c] => op.rec.content.seq > dropped[c]
           /\ up /\ \A d \in Corridors : ~Rotating(d)
<1>1. /\ op.rec \in Record /\ up /\ tips[c] \in Record \cup {Nil} /\ lock = "append"
      /\ op.rec.hash = Digest(op.rec.content, op.rec.prev)
      /\ op.rec.prev = IF tips[c] = Nil THEN Genesis ELSE tips[c].hash
      /\ op.rec.content.seq = NextSeq(tips[c])
      /\ acked[c] \subseteq Content /\ dropped[c] \in Nat
      /\ IndexOK(c) /\ TipAboveDropped(c)
  BY DEF RotInv, ChainInv, TypeInv, TypeOK, OpOK, SealedOK, RotTypeOK
<1>2. op.rec.content \in Content /\ op.rec.prev \in Hash /\ op.rec \in Line
  BY <1>1, RecordFields DEF Line
<1>3. Top(op.rec.hash) = op.rec.content
  BY <1>1, SealedTop
<1>4. \A r \in acked[c] : r.seq \in Nat
  BY <1>1 DEF Content
<1>5. \A d \in Corridors : ~Rotating(d)
  BY <1>1 DEF RotInv, RotOK, Rotating
<1>6. CASE tips[c] = Nil
  <2>1. op.rec.prev = <<>> /\ op.rec.content.seq = 1
    BY <1>1, <1>6 DEF Genesis, NextSeq
  <2>2. \A W : op.rec.content \in W => UnbrokenIn(W, op.rec.hash)
    BY <1>1, <1>2, <2>1, UnbrokenAppend
  <2>3. ~cut[c] => acked[c] = {}
    BY <1>1, <1>6 DEF IndexOK
  <2>4. ~cut[c] /\ ~tampered[c] => dropped[c] = 0
    BY <1>1, <1>6 DEF TipAboveDropped
  <2> QED
    BY <1>1, <1>2, <1>3, <1>5, <2>1, <2>2, <2>3, <2>4
<1>7. CASE tips[c] # Nil
  <2>1. /\ tips[c] \in Record /\ tips[c].hash = Digest(tips[c].content, tips[c].prev)
        /\ UnbrokenIn(written[c], tips[c].hash)
        /\ ~cut[c] => Covers(c, tips[c].hash)
    BY <1>1, <1>7 DEF IndexOK
  <2>2. Top(tips[c].hash) = tips[c].content
    BY <2>1, SealedTop
  <2>3. PICK t \in Nat : t = tips[c].content.seq
    BY <2>1, RecordFields
  <2>4. op.rec.prev = tips[c].hash /\ op.rec.content.seq = t + 1
    BY <1>1, <1>7, <2>3 DEF NextSeq
  <2>5. ASSUME NEW W, written[c] \subseteq W, op.rec.content \in W
        PROVE  UnbrokenIn(W, op.rec.hash)
    <3>1. UnbrokenIn(W, op.rec.prev) /\ op.rec.content.seq = Top(op.rec.prev).seq + 1
      BY <2>1, <2>2, <2>3, <2>4, <2>5, UnbrokenMore
    <3> QED
      BY <1>1, <1>2, <2>5, <3>1, UnbrokenAppend
  <2>6. ~cut[c] => \A r \in acked[c] : r.seq < op.rec.content.seq
    BY <1>4, <2>1, <2>2, <2>3, <2>4 DEF Covers
  <2>7. ~cut[c] /\ ~tampered[c] => op.rec.content.seq > dropped[c]
    BY <1>1, <1>7, <2>3, <2>4 DEF TipAboveDropped
  <2> QED
    BY <1>1, <1>2, <1>3, <1>5, <2>5, <2>6, <2>7
<1> QED
  BY <1>6, <1>7

(* A line joins the end of a chain: torn, or the record being appended. *)
LEMMA GrowWindow ==
    ASSUME RotInv, StoreMoves, op.step = "sealed",
           NEW c \in Corridors, NEW d \in Corridors, d = op.corridor,
           NEW l \in Line, l = Torn \/ (l = op.rec /\ l.content \in written'[d]),
           file' = [file EXCEPT ![d] = Append(@, l)],
           unsynced' = [unsynced EXCEPT ![d] = @ + 1],
           UNCHANGED acked
    PROVE  WindowOK(c)'
<1>1. /\ file \in [Corridors -> Seq(Line)] /\ unsynced \in [Corridors -> Nat]
      /\ file[c] \in Seq(Line) /\ WindowOK(c) /\ unsynced[c] <= Len(file[c])
  BY DEF RotInv, ChainInv, TypeInv, TypeOK, UnsyncedOK
<1>2. written[c] \subseteq written'[c]
  BY MovesAreSteps, WrittenGrows DEF RotInv
<1>3. Whole(c)' => Whole(c)
  BY WholeBefore
<1>4. ASSUME NEW i \in 1..Len(file[c]), i >= Len(file[c]) - unsynced[c], file[c][i] # Torn
      PROVE  /\ UnbrokenIn(written'[c], file[c][i].hash)
             /\ Whole(c)' => Covers(c, file[c][i].hash)
  BY <1>1, <1>2, <1>3, <1>4, UnbrokenMore DEF WindowOK
<1>5. CASE c # d
  <2>1. file'[c] = file[c] /\ unsynced'[c] = unsynced[c]
    BY <1>1, <1>5
  <2> QED
    BY <1>1, <1>3, <1>4, <2>1 DEF WindowOK, Covers
<1>6. CASE c = d
  <2>1. Len(file'[c]) = Len(file[c]) + 1 /\ unsynced'[c] = unsynced[c] + 1
    BY <1>1, <1>6
  <2>2. file'[c][Len(file'[c])] = l /\ \A i \in 1..Len(file[c]) : file'[c][i] = file[c][i]
    BY <1>1, <1>6
  <2>3. ASSUME l # Torn
        PROVE  UnbrokenIn(written'[c], l.hash) /\ (Whole(c)' => Covers(c, l.hash))
    <3>1. l = op.rec /\ op.rec.content \in written'[c]
      BY <1>6, <2>3
    <3>2. /\ UnbrokenIn(written'[c], op.rec.hash) /\ Top(op.rec.hash) = op.rec.content
          /\ ~cut[c] => \A r \in acked[c] : r.seq < op.rec.content.seq
          /\ op.rec \in Record
      BY <1>2, <1>6, <3>1, UnderWay
    <3>3. \A r \in acked[c] : r.seq \in Nat
      BY DEF RotInv, TypeInv, TypeOK, Content
    <3>4. op.rec.content.seq \in Nat
      BY <3>2, RecordFields
    <3> QED
      BY <1>3, <3>1, <3>2, <3>3, <3>4 DEF Covers, Whole
  <2> HIDE DEF Whole, Covers
  <2>4. Len(file'[c]) - unsynced'[c] = Len(file[c]) - unsynced[c] /\ Len(file[c]) \in Nat
    BY <1>1, <2>1
  <2>5. Whole(c)' /\ acked'[c] # {} => Len(file'[c]) - unsynced'[c] >= 1
    BY <1>1, <1>3, <2>4 DEF WindowOK
  <2>6. ASSUME NEW i \in 1..Len(file'[c]), i >= Len(file'[c]) - unsynced'[c], file'[c][i] # Torn
        PROVE  UnbrokenIn(written'[c], file'[c][i].hash) /\ (Whole(c)' => Covers(c, file'[c][i].hash))
    <3>1. i = Len(file[c]) + 1 \/ i \in 1..Len(file[c])
      BY <1>1, <2>1
    <3> QED
      BY <1>4, <2>1, <2>2, <2>3, <2>4, <2>6, <3>1
  <2>7. \A h : Covers(c, h)' <=> Covers(c, h)
    BY DEF Covers
  <2>8. \A i \in 1..Len(file'[c]) : i >= Len(file'[c]) - unsynced'[c] /\ file'[c][i] # Torn =>
           UnbrokenIn(written'[c], file'[c][i].hash) /\ (Whole(c)' => Covers(c, file'[c][i].hash))
    BY <2>6
  <2> QED
    BY <2>5, <2>8 DEF WindowOK, Covers
<1> QED
  BY <1>5, <1>6

(* No step of the store spoils the end of a window. *)
LEMMA MovesWindow ==
    ASSUME RotInv, StoreMoves, NEW c \in Corridors
    PROVE  WindowOK(c)'
<1>1. /\ file \in [Corridors -> Seq(Line)] /\ unsynced \in [Corridors -> Nat]
      /\ file[c] \in Seq(Line) /\ WindowOK(c) /\ unsynced[c] \in Nat
      /\ unsynced[c] <= Len(file[c]) /\ TypeInv
  BY DEF RotInv, ChainInv, TypeInv, TypeOK, UnsyncedOK
<1>2. written[c] \subseteq written'[c]
  BY MovesAreSteps, WrittenGrows DEF RotInv
<1>3. Whole(c)' => Whole(c)
  BY WholeBefore
<1>4. \A h : UnbrokenIn(written[c], h) => UnbrokenIn(written'[c], h)
  BY <1>2, UnbrokenMore
<1>5. CASE UNCHANGED <<file, unsynced, acked>>
  BY <1>1, <1>3, <1>4, <1>5 DEF WindowOK, Covers
<1>6. ASSUME NEW d \in Corridors, PartialWrite(d), UNCHANGED acked
      PROVE  WindowOK(c)'
  BY <1>1, <1>6, PartialWriteGrows, GrowWindow
<1>7. CASE WriteLine
  <2>1. /\ op.step = "sealed" /\ op.corridor \in Corridors /\ op.rec \in Line
        /\ written \in [Corridors -> SUBSET Content]
    BY <1>1, <1>7 DEF WriteLine, TypeInv, TypeOK, OpOK, Line
  <2>2. /\ file' = [file EXCEPT ![op.corridor] = Append(@, op.rec)]
        /\ unsynced' = [unsynced EXCEPT ![op.corridor] = @ + 1]
        /\ written' = [written EXCEPT ![op.corridor] = @ \cup {op.rec.content}]
        /\ UNCHANGED acked
    BY <1>7 DEF WriteLine
  <2>3. op.rec.content \in written'[op.corridor]
    BY <2>1, <2>2
  <2> QED
    BY <2>1, <2>2, <2>3, GrowWindow
<1>8. CASE WriteFails
  BY <1>6, <1>8 DEF WriteFails
<1>9. CASE SyncSucceeds
  <2>1. /\ op.step = "flushed" /\ op.corridor \in Corridors
        /\ file' = file
        /\ unsynced' = [unsynced EXCEPT ![op.corridor] = 0]
        /\ acked' = [acked EXCEPT ![op.corridor] = @ \cup {op.rec.content}]
        /\ acked \in [Corridors -> SUBSET Content]
    BY <1>1, <1>9 DEF SyncSucceeds, Synced, TypeInv, TypeOK, OpOK
  <2>2. CASE c # op.corridor
    <3>1. unsynced'[c] = unsynced[c] /\ acked'[c] = acked[c]
      BY <1>1, <2>1, <2>2
    <3> QED
      BY <1>1, <1>3, <1>4, <2>1, <3>1 DEF WindowOK, Covers
  <2>3. CASE c = op.corridor
    <3>1. unsynced'[c] = 0 /\ acked'[c] = acked[c] \cup {op.rec.content}
      BY <1>1, <2>1, <2>3
    <3>2. /\ op.rec.content \in written[c] /\ unsynced[c] >= 1
          /\ file[c][Len(file[c])] = op.rec
      BY <2>1, <2>3 DEF RotInv, FlushedOK
    <3>3. Len(file[c]) >= 1 /\ Len(file[c]) \in Nat
      BY <1>1, <3>2
    <3>4. /\ UnbrokenIn(written[c], op.rec.hash) /\ Top(op.rec.hash) = op.rec.content
          /\ ~cut[c] => \A r \in acked[c] : r.seq < op.rec.content.seq
          /\ op.rec \in Record
      BY <2>1, <2>3, <3>2, UnderWay
    <3>5. \A r \in acked[c] : r.seq \in Nat
      BY <2>1 DEF Content
    <3>6. op.rec.content.seq \in Nat
      BY <3>4, RecordFields
    <3>7. Whole(c)' => \A r \in acked'[c] : r.seq <= op.rec.content.seq
      BY <1>3, <3>1, <3>4, <3>5, <3>6 DEF Whole
    <3>8. \A i \in 1..Len(file'[c]) : i >= Len(file'[c]) - unsynced'[c] => i = Len(file[c])
      BY <2>1, <3>1, <3>3
    <3>9. Len(file'[c]) - unsynced'[c] >= 1
      BY <2>1, <3>1, <3>3
    <3>10. UnbrokenIn(written'[c], op.rec.hash)
      BY <1>4, <3>4
    <3> QED
      BY <2>1, <3>2, <3>4, <3>7, <3>8, <3>9, <3>10 DEF WindowOK, Covers
  <2> QED
    BY <2>2, <2>3
<1>10. CASE Kill
  BY <1>5, <1>6, <1>10 DEF Kill, diskVars
<1>11. ASSUME NEW d \in Corridors, LoseTail(d)
       PROVE  WindowOK(c)'
  <2>1. PICK lost \in 1..unsynced[d], lines \in Seq(Line) :
           /\ file' = [file EXCEPT ![d] = lines]
           /\ Len(lines) \in {Len(file[d]) - lost, Len(file[d]) - lost + 1}
           /\ \A i \in 1..Len(lines) : lines[i] # Torn => lines[i] = file[d][i]
    BY <1>1, <1>11, LoseTailLines
  <2>2. unsynced' = [unsynced EXCEPT ![d] = 0] /\ UNCHANGED <<acked, written>>
    BY <1>11 DEF LoseTail, historyVars
  <2>3. CASE c # d
    <3>1. file'[c] = file[c] /\ unsynced'[c] = unsynced[c]
      BY <1>1, <2>1, <2>2, <2>3
    <3> QED
      BY <1>1, <1>3, <2>2, <3>1 DEF WindowOK, Covers
  <2>4. CASE c = d
    <3>1. file'[c] = lines /\ unsynced'[c] = 0
      BY <1>1, <2>1, <2>2, <2>4
    <3>2. /\ Len(lines) >= Len(file[c]) - unsynced[c] /\ Len(lines) <= Len(file[c])
          /\ Len(lines) \in Nat
      BY <1>1, <2>1, <2>4
    <3>3. Whole(c)' /\ acked[c] # {} => Len(lines) >= 1
      BY <1>1, <1>3, <3>2 DEF WindowOK
    <3>4. ASSUME NEW i \in 1..Len(lines), i >= Len(lines), lines[i] # Torn
          PROVE  UnbrokenIn(written[c], lines[i].hash) /\ (Whole(c)' => Covers(c, lines[i].hash))
      <4>1. i \in 1..Len(file[c]) /\ i >= Len(file[c]) - unsynced[c]
        BY <1>1, <3>2, <3>4
      <4>2. lines[i] = file[c][i]
        BY <2>1, <2>4, <3>4
      <4> QED
        BY <1>1, <1>3, <3>4, <4>1, <4>2 DEF WindowOK
    <3>5. Len(lines) - 0 = Len(lines)
      BY <3>2
    <3> QED
      BY <2>2, <3>1, <3>3, <3>4, <3>5 DEF WindowOK, Covers
  <2> QED
    BY <2>3, <2>4
<1>12. ASSUME NEW d \in Corridors, Edit(d)
       PROVE  WindowOK(c)'
  <2>1. PICK lines \in Seq(Line) : file' = [file EXCEPT ![d] = lines] /\ EndKept(d, lines)
    BY <1>1, <1>12, EditKeepsEnd
  <2>2. UNCHANGED <<unsynced, acked, written>>
    BY <1>12 DEF Edit
  <2>3. CASE c # d
    <3>1. file'[c] = file[c]
      BY <1>1, <2>1, <2>3
    <3> QED
      BY <1>1, <1>3, <2>2, <3>1 DEF WindowOK, Covers
  <2>4. CASE c = d
    <3>1. file'[c] = lines /\ Len(lines) - unsynced[c] >= 1
      BY <1>1, <2>1, <2>4 DEF EndKept
    <3>2. ASSUME NEW j \in 1..Len(lines), j >= Len(lines) - unsynced[c], lines[j] # Torn
          PROVE  UnbrokenIn(written[c], lines[j].hash) /\ (Whole(c)' => Covers(c, lines[j].hash))
      <4> DEFINE k == j + Len(file[c]) - Len(lines)
      <4>1. k \in 1..Len(file[c]) /\ file[c][k] # Torn /\ lines[j].hash = file[c][k].hash
        BY <2>1, <2>4, <3>2 DEF EndKept
      <4>2. k >= Len(file[c]) - unsynced[c]
        BY <1>1, <2>1, <3>2
      <4> HIDE DEF k
      <4> QED
        BY <1>1, <1>3, <4>1, <4>2 DEF WindowOK
    <3> QED
      BY <2>2, <3>1, <3>2 DEF WindowOK, Covers
  <2> QED
    BY <2>3, <2>4
<1> QED
  BY <1>5, <1>7, <1>8, <1>9, <1>10, <1>11, <1>12
     DEF StoreMoves, StoreStep, KillAnywhere, AppendStep, allVars, vars, diskVars, historyVars,
         Open, BeginAppend, AppendRefused, TerminateLastLine, SyncFails

(* No step of the store makes the index lie. *)
LEMMA MovesIndex ==
    ASSUME RotInv, StoreMoves, NEW c \in Corridors
    PROVE  IndexOK(c)'
<1>1. /\ IndexOK(c) /\ tips \in [Corridors -> Record \cup {Nil}]
      /\ acked \in [Corridors -> SUBSET Content]
      /\ file[c] \in Seq(Line) /\ unsynced[c] \in Nat /\ TypeInv
  BY DEF RotInv, ChainInv, TypeInv, TypeOK
<1>2. \A h : UnbrokenIn(written[c], h) => UnbrokenIn(written'[c], h)
  BY MovesAreSteps, WrittenGrows, UnbrokenMore DEF RotInv
<1>3. ~cut'[c] => ~cut[c]
  BY WholeBefore
<1>4. CASE UNCHANGED <<up, tips, acked>>
  BY <1>1, <1>2, <1>3, <1>4 DEF IndexOK, Covers
<1>5. CASE Open
  <2>1. /\ Verifies(file[c]) /\ tips'[c] = TipOf(file[c]) /\ ~up
        /\ UNCHANGED <<acked, written, cut>>
    BY <1>5, MovesAreSteps DEF Open, Openable, StoreMoves, KillAnywhere, Kill, rotVars, allVars
  <2>2. ~cut[c] => Whole(c)
    BY <2>1 DEF RotInv, RotOK, Whole, Rotating
  <2>3. CASE file[c] = <<>>
    <3>1. ~cut[c] => acked[c] = {}
      BY <1>1, <2>2, <2>3 DEF RotInv, ChainInv, WindowOK
    <3> QED
      BY <2>1, <2>3, <3>1 DEF TipOf, IndexOK
  <2>4. CASE file[c] # <<>>
    <3>1. Len(file[c]) \in 1..Len(file[c]) /\ tips'[c] = file[c][Len(file[c])]
      BY <1>1, <2>1, <2>4 DEF TipOf
    <3>2. tips'[c] \in Record
      BY <1>1, <2>1, <3>1 DEF Verifies, Loads, Line
    <3>3. tips'[c] # Nil
      BY <3>2, RecordFields
    <3>4. tips'[c].hash = Digest(tips'[c].content, tips'[c].prev)
      BY <2>1, <3>1 DEF Verifies
    <3>5. UnbrokenIn(written[c], tips'[c].hash) /\ (~cut[c] => Covers(c, file[c][Len(file[c])].hash))
      BY <2>1, <2>2, <2>4, <3>1, FileUnbroken
    <3>6. ~cut'[c] => \A r \in acked'[c] : r.seq <= Top(tips'[c].hash).seq
      BY <2>1, <3>1, <3>5 DEF Covers
    <3> QED
      BY <2>1, <3>3, <3>4, <3>5, <3>6 DEF IndexOK, Covers
  <2> QED
    BY <2>3, <2>4
<1>6. CASE SyncSucceeds
  <2>1. /\ op.step = "flushed" /\ op.corridor \in Corridors
        /\ tips' = [tips EXCEPT ![op.corridor] = op.rec]
        /\ acked' = [acked EXCEPT ![op.corridor] = @ \cup {op.rec.content}]
        /\ UNCHANGED <<up, written>>
    BY <1>1, <1>6 DEF SyncSucceeds, TypeInv, OpOK
  <2>2. CASE c # op.corridor
    <3>1. tips'[c] = tips[c] /\ acked'[c] = acked[c]
      BY <1>1, <2>1, <2>2
    <3> QED
      BY <1>1, <1>3, <2>1, <3>1 DEF IndexOK, Covers
  <2>3. CASE c = op.corridor
    <3>1. tips'[c] = op.rec /\ acked'[c] = acked[c] \cup {op.rec.content}
      BY <1>1, <2>1, <2>3
    <3>2. op.rec.content \in written[c] /\ op.rec.hash = Digest(op.rec.content, op.rec.prev)
      BY <2>1, <2>3 DEF RotInv, FlushedOK, SealedOK
    <3>3. /\ UnbrokenIn(written[c], op.rec.hash) /\ Top(op.rec.hash) = op.rec.content
          /\ ~cut[c] => \A r \in acked[c] : r.seq < op.rec.content.seq
          /\ op.rec \in Record
      BY <2>1, <2>3, <3>2, UnderWay
    <3>4. op.rec # Nil /\ op.rec.content.seq \in Nat
      BY <3>3, RecordFields
    <3>5. \A r \in acked[c] : r.seq \in Nat
      BY <1>1 DEF Content
    <3>6. ~cut[c] => \A r \in acked'[c] : r.seq <= op.rec.content.seq
      BY <3>1, <3>3, <3>4, <3>5
    <3> QED
      BY <1>3, <2>1, <3>1, <3>2, <3>3, <3>4, <3>6 DEF IndexOK, Covers
  <2> QED
    BY <2>2, <2>3
<1>7. CASE Kill
  <2>1. up' = FALSE /\ tips'[c] = Nil
    BY <1>7 DEF Kill
  <2> QED
    BY <2>1 DEF IndexOK
<1> QED
  BY <1>4, <1>5, <1>6, <1>7
     DEF StoreMoves, StoreStep, KillAnywhere, AppendStep, allVars, vars, historyVars,
         BeginAppend, AppendRefused, WriteFails, TerminateLastLine, WriteLine, SyncFails,
         LoseTail, Edit

(* The record under way stays sealed on the tip until it is done with. *)
LEMMA MovesSealed ==
    ASSUME RotInv, StoreMoves
    PROVE  SealedOK'
<1>1. /\ tips \in [Corridors -> Record \cup {Nil}] /\ SealedOK /\ OpOK /\ op \in Op
  BY DEF RotInv, TypeInv, TypeOK
<1>2. CASE op'.step = "idle"
  BY <1>2 DEF SealedOK
<1>3. CASE op.step # "idle" /\ op'.corridor = op.corridor /\ op'.rec = op.rec /\ tips' = tips
  BY <1>1, <1>3 DEF SealedOK
<1>4. ASSUME NEW c \in Corridors, NEW body \in Body, BeginAppend(c, body)
      PROVE  SealedOK'
  <2> DEFINE tip == tips[c]
             content == [body |-> body, seq |-> NextSeq(tip)]
             prev == IF tip = Nil THEN Genesis ELSE tip.hash
  <2>1. op' = [step |-> "sealed", corridor |-> c, rec |-> Seal(content, prev)] /\ tips' = tips
    BY <1>4 DEF BeginAppend
  <2>2. content \in Content
    BY <1>1, NextSeqType DEF Content
  <2>3. prev \in Hash
    BY <1>1, RecordFields DEF Genesis, Hash
  <2>4. /\ op'.rec.content = content /\ op'.rec.prev = prev
        /\ op'.rec.hash = Digest(content, prev) /\ op'.corridor = c
    BY <2>1, <2>2, <2>3, SealType
  <2> QED
    BY <2>1, <2>4 DEF SealedOK
<1>5. CASE Open \/ \E c \in Corridors : LoseTail(c)
  BY <1>1, <1>2, <1>5 DEF Open, LoseTail, OpOK
<1>6. CASE AppendRefused \/ WriteFails \/ SyncSucceeds \/ SyncFails \/ Kill
  BY <1>2, <1>6 DEF AppendRefused, WriteFails, SyncSucceeds, SyncFails, Kill, Idle
<1>7. CASE WriteLine
  BY <1>1, <1>3, <1>7 DEF WriteLine, Op
<1>8. CASE TerminateLastLine \/ (\E c \in Corridors : Edit(c)) \/ UNCHANGED vars
  BY <1>2, <1>3, <1>8 DEF TerminateLastLine, Edit, vars, historyVars
<1> QED
  BY <1>4, <1>5, <1>6, <1>7, <1>8 DEF StoreMoves, StoreStep, KillAnywhere, AppendStep, allVars

(* What nothing went wrong with goes on verifying. *)
LEMMA MovesSound ==
    ASSUME RotInv, StoreMoves, NEW c \in Corridors
    PROVE  SoundOK(c)'
<1>1. /\ file \in [Corridors -> Seq(Line)] /\ file[c] \in Seq(Line)
      /\ tips \in [Corridors -> Record \cup {Nil}]
      /\ residue \in [Corridors -> BOOLEAN] /\ tampered \in [Corridors -> BOOLEAN]
      /\ SoundOK(c) /\ OpOK /\ op \in Op /\ TypeInv
  BY DEF RotInv, ChainInv, TypeInv, TypeOK
<1>2. up' /\ ~Rotating(c)' => ~Rotating(c)
  BY WholeBefore
<1>3. CASE /\ op'.step # "flushed" /\ op.step # "flushed"
           /\ UNCHANGED <<file, tips, up, residue, tampered>>
  BY <1>1, <1>2, <1>3 DEF SoundOK
<1>4. CASE Open
  <2>1. UNCHANGED <<op, file>> /\ Verifies(file[c]) /\ tips'[c] = TipOf(file[c])
    BY <1>4 DEF Open, Openable, diskVars
  <2> QED
    BY <2>1 DEF SoundOK
<1>5. CASE WriteLine
  <2> DEFINE d == op.corridor
  <2>1. /\ op.step = "sealed" /\ d \in Corridors /\ op.rec \in Record
        /\ file' = [file EXCEPT ![d] = Append(@, op.rec)]
        /\ op'.step = "flushed" /\ op'.corridor = d
        /\ UNCHANGED <<up, tips, residue, tampered>>
    BY <1>1, <1>5 DEF WriteLine, OpOK, Op
  <2>2. CASE c # d
    <3>1. file'[c] = file[c]
      BY <1>1, <2>1, <2>2
    <3> QED
      BY <2>1, <3>1, <1>1, <1>2 DEF SoundOK
  <2>3. ASSUME c = d, up, ~residue[c], ~tampered[c]
        PROVE  Verifies(file'[c])
    <3>a. ~Rotating(c)
      BY <2>1, UnderWay
    <3>1. Verifies(file[c]) /\ tips[c] = TipOf(file[c])
      BY <1>1, <2>1, <2>3, <3>a DEF SoundOK
    <3>2. /\ op.rec.hash = Digest(op.rec.content, op.rec.prev)
          /\ op.rec.prev = IF tips[c] = Nil THEN Genesis ELSE tips[c].hash
      BY <2>1, <2>3 DEF RotInv, SealedOK
    <3>3. file[c] # <<>> => tips[c] \in Record
      <4>1. file[c] # <<>> => Len(file[c]) \in 1..Len(file[c])
        BY <1>1
      <4> QED
        BY <1>1, <3>1, <4>1 DEF TipOf, Verifies, Loads, Line
    <3>4. op.rec.prev = IF file[c] = <<>> THEN Genesis ELSE file[c][Len(file[c])].hash
      BY <3>1, <3>2, <3>3, MarkersAssumption DEF TipOf
    <3>5. Verifies(Append(file[c], op.rec))
      BY <1>1, <2>1, <3>1, <3>2, <3>4, VerifiesAppend
    <3> QED
      BY <1>1, <2>1, <2>3, <3>5
  <2> QED
    BY <2>1, <2>2, <2>3 DEF SoundOK
<1>6. CASE SyncSucceeds
  <2> DEFINE d == op.corridor
  <2>1. /\ op.step = "flushed" /\ d \in Corridors /\ op'.step = "idle"
        /\ tips' = [tips EXCEPT ![d] = op.rec]
        /\ UNCHANGED <<file, up, residue, tampered>>
    BY <1>1, <1>6 DEF SyncSucceeds, OpOK, Idle
  <2>2. CASE c # d
    <3>1. tips'[c] = tips[c]
      BY <1>1, <2>1, <2>2
    <3> QED
      BY <1>1, <1>2, <2>1, <2>2, <3>1 DEF SoundOK
  <2>3. CASE c = d
    <3>1. FlushedOK /\ unsynced[c] <= Len(file[c]) /\ Len(file[c]) \in Nat /\ unsynced[c] \in Nat
      BY DEF RotInv, TypeInv, TypeOK, UnsyncedOK
    <3>2. Len(file[c]) >= 1 /\ file[c][Len(file[c])] = op.rec
      BY <2>1, <2>3, <3>1 DEF FlushedOK
    <3>3. file[c] # <<>> /\ tips'[c] = op.rec
      BY <1>1, <2>1, <2>3, <3>2
    <3> QED
      BY <1>1, <1>2, <2>1, <2>3, <3>2, <3>3 DEF SoundOK, TipOf
  <2> QED
    BY <2>2, <2>3
<1>7. ASSUME NEW d \in Corridors, residue' = [residue EXCEPT ![d] = TRUE],
             c # d => file'[c] = file[c],
             op'.step = "idle", op.step = "flushed" => op.corridor = d,
             UNCHANGED <<up, tips, tampered>>
      PROVE  SoundOK(c)'
  <2>1. CASE c # d
    <3>1. residue'[c] = residue[c] /\ file'[c] = file[c]
      BY <1>1, <1>7, <2>1
    <3> QED
      BY <1>1, <1>2, <1>7, <2>1, <3>1 DEF SoundOK
  <2>2. CASE c = d
    <3>1. residue'[c] = TRUE
      BY <1>1, <1>7, <2>2
    <3> QED
      BY <3>1 DEF SoundOK
  <2> QED
    BY <2>1, <2>2
<1>8. CASE SyncFails
  <2>1. op.corridor \in Corridors /\ op'.step = "idle"
    BY <1>1, <1>8 DEF SyncFails, OpOK, Idle
  <2> QED
    BY <1>7, <1>8, <2>1 DEF SyncFails, diskVars
<1>9. CASE WriteFails
  <2>1. PICK d \in Corridors : PartialWrite(d) /\ residue' = [residue EXCEPT ![d] = TRUE]
    BY <1>9 DEF WriteFails
  <2>2. op.step = "sealed" /\ op'.step = "idle" /\ UNCHANGED <<up, tips, tampered>>
    BY <1>9, <2>1 DEF WriteFails, PartialWrite, Idle
  <2>3. c # d => file'[c] = file[c]
    BY <1>1, <2>1, PartialWriteGrows
  <2> QED
    BY <1>7, <2>1, <2>2, <2>3
<1>10. CASE Kill \/ \E d \in Corridors : LoseTail(d)
  BY <1>10 DEF Kill, LoseTail, SoundOK
<1>11. ASSUME NEW d \in Corridors, Edit(d)
       PROVE  SoundOK(c)'
  <2>1. PICK lines : file' = [file EXCEPT ![d] = lines]
    BY <1>1, <1>11, EditKeepsEnd
  <2>2. tampered' = [tampered EXCEPT ![d] = TRUE] /\ UNCHANGED <<up, tips, op, residue>>
    BY <1>11 DEF Edit
  <2>3. CASE c # d
    <3>1. tampered'[c] = tampered[c] /\ file'[c] = file[c]
      BY <1>1, <2>1, <2>2, <2>3
    <3> QED
      BY <1>1, <1>2, <2>2, <3>1 DEF SoundOK
  <2>4. CASE c = d
    <3>1. tampered'[c] = TRUE
      BY <1>1, <2>2, <2>4
    <3> QED
      BY <3>1 DEF SoundOK
  <2> QED
    BY <2>3, <2>4
<1>12. CASE AppendRefused \/ TerminateLastLine
  BY <1>1, <1>3, <1>12 DEF AppendRefused, TerminateLastLine, Idle, diskVars, historyVars
<1>13. ASSUME NEW d \in Corridors, NEW body \in Body, BeginAppend(d, body)
       PROVE  SoundOK(c)'
  <2>1. op'.step = "sealed" /\ UNCHANGED <<file, tips, up, residue, tampered>>
    BY <1>13 DEF BeginAppend, diskVars, historyVars
  <2>2. op.step = "idle"
    BY <1>1, <1>13 DEF BeginAppend, OpOK
  <2> QED
    BY <1>3, <2>1, <2>2
<1>14. CASE UNCHANGED vars
  BY <1>1, <1>2, <1>14 DEF SoundOK, vars, diskVars, historyVars
<1> QED
  BY <1>4, <1>5, <1>6, <1>8, <1>9, <1>10, <1>11, <1>12, <1>13, <1>14
     DEF StoreMoves, StoreStep, KillAnywhere, AppendStep, allVars

(* What is still there stays above what was dropped, and stays there. *)
LEMMA MovesAbove ==
    ASSUME RotInv, StoreMoves, TypeInv', NEW c \in Corridors
    PROVE  AboveDropped(c)'
<1>1. /\ file \in [Corridors -> Seq(Line)] /\ file[c] \in Seq(Line)
      /\ unsynced \in [Corridors -> Nat] /\ unsynced[c] <= Len(file[c])
      /\ acked \in [Corridors -> SUBSET Content] /\ tampered \in [Corridors -> BOOLEAN]
      /\ Len(file[c]) \in Nat /\ unsynced[c] \in Nat /\ TypeInv
  BY DEF RotInv, TypeInv, TypeOK, UnsyncedOK
<1>2. dropped'[c] = dropped[c] /\ (Whole(c)' => Whole(c)) /\ AboveDropped(c)
  BY WholeBefore DEF RotInv, ChainInv
<1>3. ASSUME tampered'[c] = tampered[c], acked'[c] = acked[c],
             Len(file[c]) - unsynced[c] <= Len(file'[c]) - unsynced'[c],
             \A i \in 1..(Len(file[c]) - unsynced[c]) : file'[c][i] = file[c][i],
             Whole(c)' /\ ~tampered[c] =>
                \A i \in 1..Len(file'[c]) : file'[c][i] # Torn =>
                   \/ file'[c][i].content.seq > dropped[c]
                   \/ i \in 1..Len(file[c]) /\ file'[c][i] = file[c][i]
      PROVE  AboveDropped(c)'
  <2>1. \A r : Stored(c, r) => Stored(c, r)'
    BY <1>1, <1>3, StoredStays
  <2>2. SUFFICES ASSUME Whole(c)', ~tampered[c]
                 PROVE  /\ dropped[c] > 0 => Len(file'[c]) - unsynced'[c] >= 1
                        /\ \A i \in 1..Len(file'[c]) :
                              file'[c][i] # Torn => file'[c][i].content.seq > dropped[c]
                        /\ \A r \in acked[c] : r.seq > dropped[c] => Stored(c, r)'
    BY <1>2, <1>3 DEF AboveDropped
  <2>3. /\ dropped[c] > 0 => Len(file[c]) - unsynced[c] >= 1
        /\ \A i \in 1..Len(file[c]) :
              file[c][i] # Torn => file[c][i].content.seq > dropped[c]
        /\ \A r \in acked[c] : r.seq > dropped[c] => Stored(c, r)
    BY <1>2, <2>2 DEF AboveDropped
  <2>4. dropped[c] > 0 => Len(file'[c]) - unsynced'[c] >= 1
    <3>1. Len(file'[c]) \in Nat /\ unsynced'[c] \in Nat
      BY DEF TypeInv, TypeOK
    <3> QED
      BY <1>1, <1>3, <2>3, <3>1
  <2>5. \A i \in 1..Len(file'[c]) : file'[c][i] # Torn => file'[c][i].content.seq > dropped[c]
    BY <1>3, <2>2, <2>3
  <2> QED
    BY <2>1, <2>3, <2>4, <2>5
<1>4. ASSUME file'[c] = file[c], unsynced'[c] <= unsynced[c], unsynced'[c] \in Nat,
             tampered'[c] = tampered[c], acked'[c] = acked[c]
      PROVE  AboveDropped(c)'
  <2>1. Len(file[c]) - unsynced[c] <= Len(file'[c]) - unsynced'[c]
    BY <1>1, <1>4
  <2> QED
    BY <1>3, <1>4, <2>1
<1>5. CASE UNCHANGED <<file, unsynced, acked, tampered>>
  BY <1>1, <1>4, <1>5
<1>6. ASSUME op.step = "sealed",
             NEW d \in Corridors, d = op.corridor,
             NEW l \in Line, l = Torn \/ l = op.rec,
             file' = [file EXCEPT ![d] = Append(@, l)],
             unsynced' = [unsynced EXCEPT ![d] = @ + 1],
             UNCHANGED <<acked, tampered>>
      PROVE  AboveDropped(c)'
  <2>1. CASE c # d
    BY <1>1, <1>4, <1>6, <2>1
  <2>2. CASE c = d
    <3>1. file'[c] = Append(file[c], l) /\ unsynced'[c] = unsynced[c] + 1
      BY <1>1, <1>6, <2>2
    <3>2. /\ Len(file'[c]) = Len(file[c]) + 1 /\ file'[c][Len(file[c]) + 1] = l
          /\ \A i \in 1..Len(file[c]) : file'[c][i] = file[c][i]
      BY <1>1, <1>6, <3>1
    <3>3. ~cut[c] /\ ~tampered[c] => l = Torn \/ l.content.seq > dropped[c]
      BY <1>6, <2>2, UnderWay
    <3>4. Whole(c)' => ~cut[c]
      BY <1>2 DEF Whole
    <3>5. Len(file[c]) - unsynced[c] <= Len(file'[c]) - unsynced'[c]
      BY <1>1, <3>1, <3>2
    <3>6. \A i \in 1..Len(file'[c]) : i \in 1..Len(file[c]) \/ i = Len(file[c]) + 1
      BY <1>1, <3>2
    <3>7. \A i \in 1..(Len(file[c]) - unsynced[c]) : i \in 1..Len(file[c])
      BY <1>1
    <3> QED
      BY <1>3, <1>6, <3>2, <3>3, <3>4, <3>5, <3>6, <3>7
  <2> QED
    BY <2>1, <2>2
<1>7. CASE WriteLine
  <2>1. op.step = "sealed" /\ op.corridor \in Corridors /\ op.rec \in Line
    BY <1>1, <1>7 DEF WriteLine, TypeInv, OpOK, Line
  <2> QED
    BY <1>6, <1>7, <2>1 DEF WriteLine
<1>8. ASSUME NEW d \in Corridors, PartialWrite(d), UNCHANGED <<acked, tampered>>
      PROVE  AboveDropped(c)'
  BY <1>1, <1>6, <1>8, PartialWriteGrows
<1>9. CASE WriteFails
  BY <1>8, <1>9 DEF WriteFails
<1>10. CASE Kill
  BY <1>5, <1>8, <1>10 DEF Kill, diskVars
<1>11. CASE SyncSucceeds
  <2> DEFINE d == op.corridor
  <2>1. /\ op.step = "flushed" /\ d \in Corridors /\ op.rec \in Record
        /\ file' = file /\ tampered' = tampered
        /\ unsynced' = [unsynced EXCEPT ![d] = 0]
        /\ acked' = [acked EXCEPT ![d] = @ \cup {op.rec.content}]
    BY <1>1, <1>11 DEF SyncSucceeds, Synced, TypeInv, OpOK
  <2>2. CASE c # d
    BY <1>1, <1>4, <2>1, <2>2
  <2>3. CASE c = d
    <3>1. /\ unsynced'[c] = 0 /\ acked'[c] = acked[c] \cup {op.rec.content}
          /\ file'[c] = file[c] /\ tampered'[c] = tampered[c]
      BY <1>1, <2>1, <2>3
    <3>2. unsynced[c] >= 1 /\ file[c][Len(file[c])] = op.rec
      BY <2>1, <2>3 DEF RotInv, FlushedOK
    <3>3. Len(file[c]) >= 1 /\ Len(file'[c]) - unsynced'[c] = Len(file[c])
      BY <1>1, <3>1, <3>2
    <3>4. op.rec # Torn
      BY <2>1, RecordFields
    <3>5. PICK r : r = op.rec.content
      OBVIOUS
    <3>6. Stored(c, r)'
      BY <1>1, <3>1, <3>2, <3>3, <3>4, <3>5 DEF Stored
    <3>7. Len(file[c]) - unsynced[c] <= Len(file'[c]) - unsynced'[c]
      BY <1>1, <3>3
    <3>8. \A s : Stored(c, s) => Stored(c, s)'
      BY <1>1, <3>1, <3>7, StoredStays
    <3>9. /\ Len(file'[c]) - unsynced'[c] >= 1
          /\ acked'[c] = acked[c] \cup {r}
      BY <3>1, <3>3, <3>5
    <3> QED
      BY <1>2, <3>1, <3>6, <3>8, <3>9 DEF AboveDropped
  <2> QED
    BY <2>2, <2>3
<1>12. ASSUME NEW d \in Corridors, LoseTail(d)
       PROVE  AboveDropped(c)'
  <2>1. PICK lost \in 1..unsynced[d], lines \in Seq(Line) :
           /\ file' = [file EXCEPT ![d] = lines]
           /\ Len(lines) \in {Len(file[d]) - lost, Len(file[d]) - lost + 1}
           /\ \A i \in 1..Len(lines) : lines[i] # Torn => lines[i] = file[d][i]
           /\ \A i \in 1..(Len(file[d]) - lost) : lines[i] = file[d][i]
    BY <1>1, <1>12, LoseTailLines
  <2>2. unsynced' = [unsynced EXCEPT ![d] = 0] /\ UNCHANGED <<acked, tampered>>
    BY <1>12 DEF LoseTail, historyVars
  <2>3. CASE c # d
    BY <1>1, <1>4, <2>1, <2>2, <2>3
  <2>4. CASE c = d
    <3>1. file'[c] = lines /\ unsynced'[c] = 0
      BY <1>1, <2>1, <2>2, <2>4
    <3>2. PICK m \in Nat, n \in Nat, u \in Nat :
             m = Len(lines) /\ n = Len(file[c]) /\ u = unsynced[c]
      BY <1>1
    <3>3. n - u <= m /\ m <= n
      BY <2>1, <2>4, <3>2
    <3>4. Len(file[c]) - unsynced[c] <= Len(file'[c]) - unsynced'[c]
      BY <3>1, <3>2, <3>3
    <3>5. \A i \in 1..(Len(file[c]) - unsynced[c]) : i \in 1..(Len(file[d]) - lost)
      BY <1>1, <2>1, <2>4
    <3>6. \A i \in 1..Len(lines) : i \in 1..Len(file[c])
      BY <3>2, <3>3
    <3>7. \A i \in 1..Len(lines) : lines[i] # Torn => lines[i] = file[c][i]
      BY <2>1, <2>4
    <3>8. \A i \in 1..(Len(file[c]) - unsynced[c]) : lines[i] = file[c][i]
      BY <2>1, <2>4, <3>5
    <3> QED
      BY <1>3, <2>2, <3>1, <3>4, <3>6, <3>7, <3>8
  <2> QED
    BY <2>3, <2>4
<1>13. ASSUME NEW d \in Corridors, Edit(d)
       PROVE  AboveDropped(c)'
  <2>1. tampered' = [tampered EXCEPT ![d] = TRUE] /\ UNCHANGED <<unsynced, acked>>
    BY <1>13 DEF Edit
  <2>2. PICK lines : file' = [file EXCEPT ![d] = lines]
    BY <1>1, <1>13, EditKeepsEnd
  <2>3. CASE c # d
    BY <1>1, <1>4, <2>1, <2>2, <2>3
  <2>4. CASE c = d
    <3>1. tampered'[c] = TRUE
      BY <1>1, <2>1, <2>4
    <3> QED
      BY <3>1 DEF AboveDropped
  <2> QED
    BY <2>3, <2>4
<1> QED
  BY <1>5, <1>7, <1>9, <1>10, <1>11, <1>12, <1>13
     DEF StoreMoves, StoreStep, KillAnywhere, AppendStep, allVars, vars, diskVars, historyVars,
         Open, BeginAppend, AppendRefused, TerminateLastLine, SyncFails

(* Numbering goes on above what was dropped, after a restart too. *)
LEMMA MovesTip ==
    ASSUME RotInv, StoreMoves, NEW c \in Corridors
    PROVE  TipAboveDropped(c)'
<1>1. /\ TipAboveDropped(c) /\ tips \in [Corridors -> Record \cup {Nil}]
      /\ file[c] \in Seq(Line) /\ unsynced[c] \in Nat /\ dropped[c] \in Nat
      /\ tampered \in [Corridors -> BOOLEAN] /\ AboveDropped(c) /\ OpOK
  BY DEF RotInv, ChainInv, TypeInv, TypeOK, RotTypeOK
<1>2. dropped'[c] = dropped[c] /\ (~cut'[c] => ~cut[c])
  BY WholeBefore
<1>3. CASE UNCHANGED <<up, tips, tampered>>
  BY <1>1, <1>2, <1>3 DEF TipAboveDropped
<1>4. CASE Open
  <2>1. /\ Verifies(file[c]) /\ tips'[c] = TipOf(file[c]) /\ ~up /\ tampered' = tampered
    BY <1>4 DEF Open, Openable
  <2>2. ~cut[c] => Whole(c)
    BY <2>1 DEF RotInv, RotOK, Whole, Rotating
  <2>3. CASE file[c] = <<>>
    <3>1. tips'[c] = Nil /\ Len(file[c]) = 0
      BY <2>1, <2>3 DEF TipOf
    <3>2. ~tampered[c] /\ ~cut[c] => ~(dropped[c] > 0)
      BY <1>1, <2>2, <3>1 DEF AboveDropped
    <3> QED
      BY <1>1, <1>2, <2>1, <3>1, <3>2 DEF TipAboveDropped
  <2>4. CASE file[c] # <<>>
    <3>1. Len(file[c]) \in 1..Len(file[c]) /\ tips'[c] = file[c][Len(file[c])]
      BY <1>1, <2>1, <2>4 DEF TipOf
    <3>2. tips'[c] \in Record
      BY <1>1, <2>1, <3>1 DEF Verifies, Loads, Line
    <3>3. tips'[c] # Nil /\ tips'[c] # Torn
      BY <3>2, RecordFields
    <3>4. ~tampered[c] /\ ~cut[c] => tips'[c].content.seq > dropped[c]
      BY <1>1, <2>2, <3>1, <3>3 DEF AboveDropped
    <3> QED
      BY <1>2, <2>1, <3>3, <3>4 DEF TipAboveDropped
  <2> QED
    BY <2>3, <2>4
<1>5. CASE SyncSucceeds
  <2>1. /\ op.step = "flushed" /\ op.corridor \in Corridors
        /\ tips' = [tips EXCEPT ![op.corridor] = op.rec]
        /\ UNCHANGED <<up, tampered>>
    BY <1>1, <1>5 DEF SyncSucceeds, OpOK
  <2>2. CASE c # op.corridor
    <3>1. tips'[c] = tips[c]
      BY <1>1, <2>1, <2>2
    <3> QED
      BY <1>1, <1>2, <2>1, <3>1 DEF TipAboveDropped
  <2>3. CASE c = op.corridor
    <3>1. tips'[c] = op.rec
      BY <1>1, <2>1, <2>3
    <3>2. /\ op.rec \in Record
          /\ ~cut[c] /\ ~tampered[c] => op.rec.content.seq > dropped[c]
      BY <2>1, <2>3, UnderWay
    <3>3. op.rec # Nil
      BY <3>2, RecordFields
    <3> QED
      BY <1>2, <2>1, <3>1, <3>2, <3>3 DEF TipAboveDropped
  <2> QED
    BY <2>2, <2>3
<1>6. CASE Kill
  BY <1>6 DEF Kill, TipAboveDropped
<1>7. ASSUME NEW d \in Corridors, Edit(d)
      PROVE  TipAboveDropped(c)'
  <2>1. tampered' = [tampered EXCEPT ![d] = TRUE] /\ UNCHANGED <<up, tips>>
    BY <1>7 DEF Edit
  <2>2. ~tampered'[c] => ~tampered[c]
    BY <1>1, <2>1
  <2> QED
    BY <1>1, <1>2, <2>1, <2>2 DEF TipAboveDropped
<1> QED
  BY <1>3, <1>4, <1>5, <1>6, <1>7
     DEF StoreMoves, StoreStep, KillAnywhere, AppendStep, allVars, vars, historyVars,
         BeginAppend, AppendRefused, WriteFails, TerminateLastLine, WriteLine, SyncFails, LoseTail

-----------------------------------------------------------------------------
(* RotInv holds in the initial states. *)
LEMMA RotInvInit == RotInit => RotInv
<1> SUFFICES ASSUME RotInit PROVE RotInv
  OBVIOUS
<1>1. TypeInv /\ RotTypeOK /\ RotOK
  BY RotTypeInit
<1>2. /\ op.step = "idle" /\ rot.step = "idle" /\ ~up
      /\ \A c \in Corridors : /\ file[c] = <<>> /\ unsynced[c] = 0 /\ tips[c] = Nil
                              /\ acked[c] = {} /\ dropped[c] = 0
  BY DEF RotInit, Init, Idle, NoRotation
<1>3. SealedOK /\ FlushedOK /\ KeptOK
  BY <1>2 DEF SealedOK, FlushedOK, KeptOK
<1>4. ASSUME NEW c \in Corridors PROVE ChainInv(c)
  <2>1. Len(file[c]) = 0
    BY <1>2
  <2> QED
    BY <1>2, <2>1 DEF ChainInv, WindowOK, IndexOK, SoundOK, AboveDropped, TipAboveDropped
<1> QED
  BY <1>1, <1>3, <1>4 DEF RotInv

(* A step is one of a rotation or one of the store. *)
LEMMA RotSteps == [RotNext]_allVars => RotateStep \/ StoreMoves
BY DEF RotNext, StoreMoves, StoreStep

(* No step breaks RotInv. *)
LEMMA RotInvNext == RotInv /\ [RotNext]_allVars => RotInv'
<1> SUFFICES ASSUME RotInv, [RotNext]_allVars PROVE RotInv'
  OBVIOUS
<1>1. CASE RotateStep
  <2>1. TypeInv' /\ RotTypeOK' /\ RotOK' /\ KeptOK'
    BY <1>1, RotateType, RotateKept
  <2>2. \A c \in Corridors : ChainInv(c)'
    BY <1>1, <2>1, RotateChains
  <2>3. op'.step = "idle"
    BY <1>1, RotateQuiet DEF RotInv
  <2>4. SealedOK' /\ FlushedOK'
    BY <2>3 DEF SealedOK, FlushedOK
  <2> QED
    BY <2>1, <2>2, <2>4 DEF RotInv
<1>2. CASE StoreMoves
  <2>1. TypeInv' /\ RotTypeOK' /\ RotOK' /\ KeptOK' /\ SealedOK'
    BY <1>2, MovesType, MovesKept, MovesSealed
  <2>2. FlushedOK'
    BY <1>2, <2>1, MovesAreSteps, FlushedNext DEF RotInv
  <2>3. \A c \in Corridors : ChainInv(c)'
    BY <1>2, <2>1, MovesWindow, MovesIndex, MovesSound, MovesAbove, MovesTip DEF ChainInv
  <2> QED
    BY <2>1, <2>2, <2>3 DEF RotInv
<1> QED
  BY <1>1, <1>2, RotSteps

(* RotInv is an invariant of the store with its rotations. *)
LEMMA RotInductive == RotSpec => []RotInv
BY RotInvInit, RotInvNext, PTL DEF RotSpec

(* A window that verifies is an unbroken run of what the store wrote,      *)
(* wherever a rotation, a crash or an edit left it (file.go:121-163,       *)
(* 489-535).                                                               *)
THEOREM WindowsAreWritten == RotSpec => []VerifiedWindowIsWritten
<1>1. ASSUME RotInv PROVE VerifiedWindowIsWritten
  <2> SUFFICES ASSUME NEW c \in Corridors, Verifies(file[c]), NEW i \in DOMAIN file[c]
               PROVE  /\ file[c][i].content \in written[c]
                      /\ i > 1 => file[c][i].content.seq = file[c][i - 1].content.seq + 1
    BY DEF VerifiedWindowIsWritten
  <2>1. file[c] \in Seq(Line) /\ i \in 1..Len(file[c]) /\ file[c] # <<>>
    BY <1>1 DEF RotInv, TypeInv, TypeOK
  <2>2. UnbrokenIn(written[c], file[c][Len(file[c])].hash)
    BY <1>1, <2>1, FileUnbroken
  <2> QED
    BY <2>1, <2>2, UnbrokenChain
<1> QED
  BY <1>1, RotInductive, PTL

(* What has been reported of a chain is what a rotation dropped, and what  *)
(* is about to replace a file begins after all that was dropped before.    *)
ReportOK(c) ==
    ~cut[c] /\ ~tampered[c] =>
       /\ reported[c] <= dropped[c]
       /\ Rotating(c) => rot.kept[1].content.seq > dropped[c]

ReportInv ==
    /\ RotInv
    /\ reported \in [Corridors -> Nat]
    /\ \A c \in Corridors : ReportOK(c)

(* The window a rotation cuts a chain to begins after what was dropped.    *)
LEMMA TruncateReports ==
    ASSUME RotInv, RotateTruncate, ~cut[Current], ~tampered[Current]
    PROVE  rot'.kept[1].content.seq > dropped[Current]
<1>1. /\ Current \in Corridors /\ rot.step = "scan"
      /\ rot.ceiling \in 1..Len(file[Current])
      /\ rot'.kept = Resealed(Newest(file[Current], rot.ceiling))
  BY Truncates
<1>2. AboveDropped(Current) /\ Whole(Current) /\ file[Current] \in Seq(Line)
  BY <1>1 DEF RotInv, ChainInv, TypeInv, TypeOK, Whole, Rotating
<1>3. Verifies(file[Current])
  BY DEF RotateTruncate, ReadBack
<1> DEFINE lines == file[Current]
           n == rot.ceiling
           k == Len(lines) - n + 1
<1>4. k \in 1..Len(lines) /\ n \in 1..Len(lines)
  BY <1>1, <1>2
<1>5. Newest(lines, n)[1] = lines[k] /\ Len(Newest(lines, n)) = n
  BY <1>2, <1>4 DEF Newest
<1>6. rot'.kept[1].content = lines[k].content
  BY <1>1, <1>4, <1>5 DEF Resealed, Seal
<1>7. lines[k] # Torn
  <2>1. k \in DOMAIN lines
    BY <1>2, <1>4
  <2> QED
    BY <1>3, <2>1 DEF Verifies, Loads
<1> QED
  BY <1>2, <1>4, <1>6, <1>7 DEF AboveDropped

(* A step of a rotation reports nothing that did not happen. *)
LEMMA RotateReports ==
    ASSUME ReportInv, RotateStep
    PROVE  reported' \in [Corridors -> Nat] /\ \A c \in Corridors : ReportOK(c)'
<1>1. /\ RotInv /\ UNCHANGED tampered
      /\ reported \in [Corridors -> Nat] /\ dropped \in [Corridors -> Nat]
      /\ cut \in [Corridors -> BOOLEAN]
      /\ \A c \in Corridors : ReportOK(c)
  BY RotateQuiet DEF ReportInv, RotInv, RotTypeOK
<1>2. ASSUME rot'.step \notin {"truncated", "rewritten"}, UNCHANGED <<dropped, reported>>,
             \A c \in Corridors : cut[c] => cut'[c]
      PROVE  reported' \in [Corridors -> Nat] /\ \A c \in Corridors : ReportOK(c)'
  BY <1>1, <1>2 DEF ReportOK, Rotating
<1>3. CASE RotateSkip \/ RotateRefuse \/ \E n \in Ceilings : BeginRotate(n)
  <2>1. rot'.step \notin {"truncated", "rewritten"} /\ UNCHANGED <<dropped, reported, cut>>
    <3>1. CASE RotateSkip
      <4>1. rot' = [rot EXCEPT !.todo = @ \ {Current}] /\ rot.step = "scan"
        BY <3>1 DEF RotateSkip
      <4>2. rot'.step = "scan"
        BY <1>1, <4>1 DEF RotInv, RotTypeOK
      <4> QED
        BY <3>1, <4>2 DEF RotateSkip
    <3>2. CASE RotateRefuse
      BY <3>2 DEF RotateRefuse, EndRotate, NoRotation
    <3>3. CASE \E n \in Ceilings : BeginRotate(n)
      BY <3>3 DEF BeginRotate
    <3> QED
      BY <1>3, <3>1, <3>2, <3>3
  <2> QED
    BY <1>2, <2>1
<1>4. CASE RotateWriteFails \/ RotateSyncFails
  <2>1. EndRotate /\ UNCHANGED <<dropped, reported>> /\ cut' = [cut EXCEPT ![Current] = TRUE]
    BY <1>4 DEF RotateWriteFails, RotateSyncFails
  <2>2. rot'.step = "idle"
    BY <2>1 DEF EndRotate, NoRotation
  <2>3. \A c \in Corridors : cut[c] => cut'[c]
    BY <1>1, <2>1
  <2> QED
    BY <1>2, <2>1, <2>2, <2>3
<1>5. CASE RotateDone
  <2>1. /\ rot'.step = "idle" /\ UNCHANGED <<dropped, cut>>
        /\ reported' = [c \in Corridors |-> IF c \in out THEN dropped[c] ELSE reported[c]]
    BY <1>5 DEF RotateDone, EndRotate, NoRotation
  <2> QED
    BY <1>1, <2>1 DEF ReportOK, Rotating
<1>6. CASE RotateTruncate
  <2>1. /\ rot'.todo = rot.todo /\ UNCHANGED <<dropped, reported, cut>>
    BY <1>6 DEF RotateTruncate
  <2>2. SUFFICES ASSUME NEW c \in Corridors PROVE ReportOK(c)'
    BY <1>1, <2>1
  <2>3. Rotating(c)' => c = Current
    BY <2>1 DEF Rotating, Current
  <2> QED
    BY <1>1, <1>6, <2>1, <2>3, TruncateReports DEF ReportOK
<1>7. CASE RotateWrite
  <2>1. /\ rot'.todo = rot.todo /\ rot'.kept = rot.kept /\ rot.step = "truncated"
        /\ UNCHANGED <<dropped, reported, cut>>
    BY <1>7 DEF RotateWrite
  <2>2. \A c \in Corridors : Rotating(c)' => Rotating(c)
    BY <2>1 DEF Rotating, Current
  <2> QED
    BY <1>1, <2>1, <2>2 DEF ReportOK
<1>8. CASE RotateSync
  <2>1. /\ Current \in Corridors /\ rot.step = "rewritten" /\ rot'.step = "scan"
        /\ dropped' = [dropped EXCEPT ![Current] = rot.kept[1].content.seq - 1]
        /\ UNCHANGED <<reported, cut>>
    BY <1>1, <1>8, InHand DEF RotateSync
  <2>2. SUFFICES ASSUME NEW c \in Corridors, ~cut[c], ~tampered[c] PROVE reported'[c] <= dropped'[c]
    BY <1>1, <2>1 DEF ReportOK, Rotating
  <2>3. CASE c # Current
    BY <1>1, <2>1, <2>2, <2>3 DEF ReportOK
  <2>4. CASE c = Current
    <3>1. rot.kept[1].content.seq > dropped[c] /\ reported[c] <= dropped[c]
      BY <1>1, <2>1, <2>2, <2>4 DEF ReportOK, Rotating
    <3>2. rot.kept[1].content.seq \in Nat
      <4>1. rot.kept[1] \in Record
        BY <1>1, <2>1, InHand
      <4> QED
        BY <4>1, RecordFields
    <3>3. dropped'[c] = rot.kept[1].content.seq - 1
      BY <1>1, <2>1, <2>4
    <3> QED
      BY <1>1, <2>1, <3>1, <3>2, <3>3
  <2> QED
    BY <2>3, <2>4
<1> QED
  BY <1>3, <1>4, <1>5, <1>6, <1>7, <1>8 DEF RotateStep

(* Nothing else reports or drops. *)
LEMMA MovesReport ==
    ASSUME ReportInv, StoreMoves
    PROVE  reported' \in [Corridors -> Nat] /\ \A c \in Corridors : ReportOK(c)'
<1>1. /\ RotInv /\ reported \in [Corridors -> Nat] /\ dropped \in [Corridors -> Nat]
      /\ tampered \in [Corridors -> BOOLEAN]
      /\ \A c \in Corridors : ReportOK(c)
  BY DEF ReportInv, RotInv, RotTypeOK, TypeInv, TypeOK
<1>2. \A c \in Corridors : tampered[c] => tampered'[c]
  BY <1>1 DEF StoreMoves, StoreStep, KillAnywhere, AppendStep, allVars, vars, historyVars,
       Open, BeginAppend, AppendRefused, TerminateLastLine, WriteLine, WriteFails,
       SyncSucceeds, SyncFails, Kill, LoseTail, Edit
<1>3. \/ UNCHANGED rotVars
      \/ /\ UNCHANGED <<dropped, reported>> /\ rot' = NoRotation
         /\ \A c \in Corridors : cut[c] => cut'[c]
  BY DEF StoreMoves, KillAnywhere, allVars
<1>4. CASE UNCHANGED rotVars
  BY <1>1, <1>2, <1>4 DEF rotVars, ReportOK, Rotating, Current
<1>5. CASE /\ UNCHANGED <<dropped, reported>> /\ rot' = NoRotation
           /\ \A c \in Corridors : cut[c] => cut'[c]
  BY <1>1, <1>2, <1>5 DEF ReportOK, Rotating, NoRotation
<1> QED
  BY <1>3, <1>4, <1>5

LEMMA ReportInductive == RotSpec => []ReportInv
<1>1. RotInit => ReportInv
  <2> SUFFICES ASSUME RotInit PROVE ReportInv
    OBVIOUS
  <2>1. /\ RotInv /\ rot.step = "idle"
        /\ reported = [c \in Corridors |-> 0] /\ dropped = [c \in Corridors |-> 0]
    BY RotInvInit DEF RotInit, NoRotation
  <2> QED
    BY <2>1 DEF ReportInv, ReportOK, Rotating
<1>2. ReportInv /\ [RotNext]_allVars => ReportInv'
  <2> SUFFICES ASSUME ReportInv, [RotNext]_allVars PROVE ReportInv'
    OBVIOUS
  <2>1. RotInv'
    BY RotInvNext DEF ReportInv
  <2>2. reported' \in [Corridors -> Nat] /\ \A c \in Corridors : ReportOK(c)'
    BY RotSteps, RotateReports, MovesReport
  <2> QED
    BY <2>1, <2>2 DEF ReportInv
<1> QED
  BY <1>1, <1>2, PTL DEF RotSpec

(* A rotation takes only the oldest records, since the chain is read back   *)
(* and verified before it is cut, and an operator is told only of what was  *)
(* really dropped (file.go:489-552).  That every drop is reported is not    *)
(* claimed: Rotate throws its report away when a later corridor fails.      *)
THEOREM OldestAreDropped == RotSpec => []OnlyOldestIsDropped
<1>1. ASSUME ReportInv PROVE OnlyOldestIsDropped
  <2> SUFFICES ASSUME NEW c \in Corridors, ~tampered[c], ~cut[c], ~Rotating(c)
               PROVE  /\ \A r \in acked[c] : r.seq > dropped[c] => Stored(c, r)
                      /\ \A i \in DOMAIN file[c] :
                            file[c][i] # Torn => file[c][i].content.seq > reported[c]
    BY DEF OnlyOldestIsDropped
  <2>1. /\ AboveDropped(c) /\ Whole(c) /\ file[c] \in Seq(Line)
        /\ dropped \in [Corridors -> Nat] /\ reported \in [Corridors -> Nat]
        /\ reported[c] <= dropped[c]
    BY <1>1 DEF ReportInv, ReportOK, RotInv, RotTypeOK, ChainInv, TypeInv, TypeOK, Whole
  <2>2. \A r \in acked[c] : r.seq > dropped[c] => Stored(c, r)
    BY <2>1 DEF AboveDropped
  <2>3. ASSUME NEW i \in DOMAIN file[c], file[c][i] # Torn
        PROVE  file[c][i].content.seq > reported[c]
    <3>1. i \in 1..Len(file[c]) /\ file[c][i] \in Record
      BY <2>1, <2>3 DEF Line
    <3>2. file[c][i].content.seq > dropped[c] /\ file[c][i].content.seq \in Nat
      BY <2>1, <2>3, <3>1, RecordFields DEF AboveDropped
    <3> QED
      BY <2>1, <3>2
  <2> QED
    BY <2>2, <2>3
<1> QED
  BY <1>1, ReportInductive, PTL

(* After a rotation, as before it, the index is the end of the file and    *)
(* numbering goes on from the newest measurement (file.go:541-549).        *)
THEOREM NewestIsKept == RotSpec => []WindowEndsOnNewest
<1>1. ASSUME RotInv PROVE WindowEndsOnNewest
  <2> SUFFICES ASSUME up, lock = "free", NEW c \in Corridors,
                      ~residue[c], ~tampered[c], ~cut[c], acked[c] # {}
               PROVE  /\ Latest(c) # Nil
                      /\ Latest(c) = TipOf(file[c])
                      /\ \A r \in acked[c] : r.seq <= Latest(c).content.seq
    BY DEF WindowEndsOnNewest
  <2>1. op.step = "idle" /\ rot.step = "idle"
    BY <1>1 DEF RotInv, TypeInv, OpOK, RotOK
  <2>2. IndexOK(c) /\ SoundOK(c) /\ tips[c] \in Record \cup {Nil}
    BY <1>1 DEF RotInv, ChainInv, TypeInv, TypeOK
  <2>3. tips[c] = TipOf(file[c])
    BY <2>1, <2>2 DEF SoundOK, Rotating
  <2>4. /\ tips[c] # Nil /\ Covers(c, tips[c].hash)
        /\ tips[c].hash = Digest(tips[c].content, tips[c].prev)
    BY <2>2 DEF IndexOK
  <2>5. Top(tips[c].hash) = tips[c].content
    BY <2>2, <2>4, SealedTop
  <2> QED
    BY <2>3, <2>4, <2>5 DEF Latest, Covers
<1> QED
  BY <1>1, RotInductive, PTL

(* The record a running store appends to commits, by its hash alone, to an *)
(* unbroken run of what the store wrote, also after a rotation.            *)
TipCommitsToRun ==
    \A c \in Corridors : tips[c] # Nil => UnbrokenIn(written[c], tips[c].hash)

(* Every tip of a running store commits to an unbroken run of written      *)
(* records, which is what makes each later record vouch for the window.    *)
THEOREM TipVouches == RotSpec => []TipCommitsToRun
<1>1. RotInv => TipCommitsToRun
  BY DEF RotInv, ChainInv, IndexOK, TipCommitsToRun
<1> QED
  BY <1>1, RotInductive, PTL

-----------------------------------------------------------------------------
(* A client pages backwards.  What it was served ends at a cursor, and no  *)
(* chain it may still be given ends below that cursor.                     *)

(* The lines no crash and no edit can take end no earlier than s. *)
EndAbove(c, s) ==
    /\ Len(file[c]) - unsynced[c] >= 1
    /\ \A i \in 1..Len(file[c]) :
          i >= Len(file[c]) - unsynced[c] /\ file[c][i] # Torn => s <= Top(file[c][i].hash).seq

(* Nor does the tip, nor the window that is about to replace the file. *)
TipAbove(c, s) == tips[c] # Nil /\ s <= Top(tips[c].hash).seq
KeptAbove(s) == s <= Top(rot.kept[Len(rot.kept)].hash).seq

FloorOK(c, s) ==
    ~cut[c] =>
       /\ ~Rotating(c) => EndAbove(c, s)
       /\ up => TipAbove(c, s)
       /\ Rotating(c) => KeptAbove(s)

(* A flushed chain ends in the record the running store appends to, or one *)
(* whose content somebody altered under its hash.                          *)
FlushedTip(c) ==
    LET last == file[c][Len(file[c])] IN
    up /\ unsynced[c] = 0 /\ file[c] # <<>> /\ last # Torn =>
       tips[c] # Nil /\ tips[c].hash = last.hash

(* The record under way is numbered above whatever its tip is above. *)
LEMMA SealedAbove ==
    ASSUME RotInv, op.step # "idle", NEW c \in Corridors, c = op.corridor,
           NEW s \in Nat, TipAbove(c, s)
    PROVE  s <= Top(op.rec.hash).seq
<1>1. /\ op.rec.content.seq = NextSeq(tips[c]) /\ tips[c] # Nil
      /\ tips[c] \in Record
      /\ tips[c].hash = Digest(tips[c].content, tips[c].prev)
  BY DEF RotInv, ChainInv, IndexOK, SealedOK, TypeInv, TypeOK, TipAbove
<1>2. Top(op.rec.hash) = op.rec.content
  BY UnderWay
<1>3. Top(tips[c].hash) = tips[c].content
  BY <1>1, SealedTop
<1>4. PICK t \in Nat : t = tips[c].content.seq
  BY <1>1, RecordFields
<1> QED
  BY <1>1, <1>2, <1>3, <1>4 DEF TipAbove, NextSeq

(* A line that joins the end of a chain does not end it earlier. *)
LEMMA GrowsAbove ==
    ASSUME RotInv, op.step = "sealed", NEW s \in Nat,
           NEW c \in Corridors, EndAbove(c, s), TipAbove(c, s),
           NEW d \in Corridors, d = op.corridor,
           NEW l \in Line, l = Torn \/ l = op.rec,
           file' = [file EXCEPT ![d] = Append(@, l)],
           unsynced' = [unsynced EXCEPT ![d] = @ + 1]
    PROVE  EndAbove(c, s)'
<1>1. /\ file \in [Corridors -> Seq(Line)] /\ unsynced \in [Corridors -> Nat]
      /\ file[c] \in Seq(Line) /\ unsynced[c] \in Nat /\ unsynced[c] <= Len(file[c])
  BY DEF RotInv, TypeInv, TypeOK, UnsyncedOK
<1>2. CASE c # d
  <2>1. file'[c] = file[c] /\ unsynced'[c] = unsynced[c]
    BY <1>1, <1>2
  <2> QED
    BY <2>1 DEF EndAbove
<1>3. CASE c = d
  <2>1. Len(file'[c]) = Len(file[c]) + 1 /\ unsynced'[c] = unsynced[c] + 1
    BY <1>1, <1>3
  <2>2. file'[c][Len(file'[c])] = l /\ \A i \in 1..Len(file[c]) : file'[c][i] = file[c][i]
    BY <1>1, <1>3
  <2>3. l # Torn => s <= Top(l.hash).seq
    BY <1>3, SealedAbove
  <2>4. Len(file'[c]) - unsynced'[c] = Len(file[c]) - unsynced[c] /\ Len(file[c]) \in Nat
    BY <1>1, <2>1
  <2>5. ASSUME NEW i \in 1..Len(file'[c]), i >= Len(file'[c]) - unsynced'[c], file'[c][i] # Torn
        PROVE  s <= Top(file'[c][i].hash).seq
    <3>1. i = Len(file[c]) + 1 \/ i \in 1..Len(file[c])
      BY <1>1, <2>1
    <3> QED
      BY <2>1, <2>2, <2>3, <2>4, <2>5, <3>1 DEF EndAbove
  <2> QED
    BY <2>4, <2>5 DEF EndAbove
<1> QED
  BY <1>2, <1>3

(* No step of the store ends a chain earlier. *)
LEMMA MovesEndAbove ==
    ASSUME RotInv, StoreMoves, NEW s \in Nat,
           NEW c \in Corridors, EndAbove(c, s), up => TipAbove(c, s)
    PROVE  EndAbove(c, s)'
<1>1. /\ file \in [Corridors -> Seq(Line)] /\ unsynced \in [Corridors -> Nat]
      /\ file[c] \in Seq(Line) /\ unsynced[c] \in Nat
      /\ unsynced[c] <= Len(file[c]) /\ TypeInv
  BY DEF RotInv, TypeInv, TypeOK, UnsyncedOK
<1>2. op.step # "idle" => TipAbove(c, s)
  BY DEF RotInv, TypeInv, OpOK
<1>3. CASE UNCHANGED <<file, unsynced>>
  BY <1>3 DEF EndAbove
<1>4. ASSUME NEW d \in Corridors, PartialWrite(d)
      PROVE  EndAbove(c, s)'
  BY <1>1, <1>2, <1>4, PartialWriteGrows, GrowsAbove
<1>5. CASE WriteLine
  <2>1. /\ op.step = "sealed" /\ op.corridor \in Corridors /\ op.rec \in Line
        /\ file' = [file EXCEPT ![op.corridor] = Append(@, op.rec)]
        /\ unsynced' = [unsynced EXCEPT ![op.corridor] = @ + 1]
    BY <1>1, <1>5 DEF WriteLine, TypeInv, OpOK, Line
  <2> QED
    BY <1>2, <2>1, GrowsAbove
<1>6. CASE SyncSucceeds
  <2>1. /\ op.step = "flushed" /\ op.corridor \in Corridors /\ file' = file
        /\ unsynced' = [unsynced EXCEPT ![op.corridor] = 0]
    BY <1>1, <1>6 DEF SyncSucceeds, Synced, TypeInv, OpOK
  <2>2. unsynced'[c] = unsynced[c] \/ unsynced'[c] = 0
    BY <1>1, <2>1
  <2>3. unsynced'[c] \in Nat /\ unsynced'[c] <= unsynced[c]
    BY <1>1, <2>2
  <2> QED
    BY <1>1, <2>1, <2>3 DEF EndAbove
<1>7. CASE Kill
  BY <1>3, <1>4, <1>7 DEF Kill, diskVars
<1>8. ASSUME NEW d \in Corridors, LoseTail(d)
      PROVE  EndAbove(c, s)'
  <2>1. PICK lost \in 1..unsynced[d], lines \in Seq(Line) :
           /\ file' = [file EXCEPT ![d] = lines]
           /\ Len(lines) \in {Len(file[d]) - lost, Len(file[d]) - lost + 1}
           /\ \A i \in 1..Len(lines) : lines[i] # Torn => lines[i] = file[d][i]
    BY <1>1, <1>8, LoseTailLines
  <2>2. unsynced' = [unsynced EXCEPT ![d] = 0]
    BY <1>8 DEF LoseTail
  <2>3. CASE c # d
    <3>1. file'[c] = file[c] /\ unsynced'[c] = unsynced[c]
      BY <1>1, <2>1, <2>2, <2>3
    <3> QED
      BY <3>1 DEF EndAbove
  <2>4. CASE c = d
    <3>1. file'[c] = lines /\ unsynced'[c] = 0
      BY <1>1, <2>1, <2>2, <2>4
    <3>2. /\ Len(lines) >= Len(file[c]) - unsynced[c] /\ Len(lines) <= Len(file[c])
          /\ Len(lines) \in Nat
      BY <1>1, <2>1, <2>4
    <3>3. ASSUME NEW i \in 1..Len(lines), i >= Len(lines), lines[i] # Torn
          PROVE  s <= Top(lines[i].hash).seq
      <4>1. i \in 1..Len(file[c]) /\ i >= Len(file[c]) - unsynced[c]
        BY <1>1, <3>2, <3>3
      <4>2. lines[i] = file[c][i]
        BY <2>1, <2>4, <3>3
      <4> QED
        BY <3>3, <4>1, <4>2 DEF EndAbove
    <3>4. Len(lines) >= 1 /\ Len(lines) - 0 = Len(lines)
      BY <1>1, <3>2 DEF EndAbove
    <3> QED
      BY <3>1, <3>3, <3>4 DEF EndAbove
  <2> QED
    BY <2>3, <2>4
<1>9. ASSUME NEW d \in Corridors, Edit(d)
      PROVE  EndAbove(c, s)'
  <2>1. PICK lines \in Seq(Line) : file' = [file EXCEPT ![d] = lines] /\ EndKept(d, lines)
    BY <1>1, <1>9, EditKeepsEnd
  <2>2. unsynced' = unsynced
    BY <1>9 DEF Edit
  <2>3. CASE c # d
    <3>1. file'[c] = file[c]
      BY <1>1, <2>1, <2>3
    <3> QED
      BY <2>2, <3>1 DEF EndAbove
  <2>4. CASE c = d
    <3>1. file'[c] = lines /\ Len(lines) - unsynced[c] >= 1
      BY <1>1, <2>1, <2>4 DEF EndKept
    <3>2. ASSUME NEW j \in 1..Len(lines), j >= Len(lines) - unsynced[c], lines[j] # Torn
          PROVE  s <= Top(lines[j].hash).seq
      <4> DEFINE k == j + Len(file[c]) - Len(lines)
      <4>1. k \in 1..Len(file[c]) /\ file[c][k] # Torn /\ lines[j].hash = file[c][k].hash
        BY <2>1, <2>4, <3>2 DEF EndKept
      <4>2. k >= Len(file[c]) - unsynced[c]
        BY <1>1, <2>1, <3>2
      <4> HIDE DEF k
      <4> QED
        BY <4>1, <4>2 DEF EndAbove
    <3> QED
      BY <2>2, <3>1, <3>2 DEF EndAbove
  <2> QED
    BY <2>3, <2>4
<1> QED
  BY <1>3, <1>4, <1>5, <1>6, <1>7, <1>8, <1>9
     DEF StoreMoves, StoreStep, KillAnywhere, AppendStep, allVars, vars, diskVars, historyVars,
         Open, BeginAppend, AppendRefused, TerminateLastLine, WriteFails, SyncFails

(* A chain that verifies ends no earlier than any cursor into it. *)
LEMMA VerifiedEnd ==
    ASSUME RotInv, NEW c \in Corridors, Verifies(file[c]), NEW s \in Nat, EndAbove(c, s)
    PROVE  LET last == file[c][Len(file[c])] IN
           /\ file[c] # <<>> /\ last \in Record
           /\ s <= Top(last.hash).seq /\ s <= last.content.seq
<1>1. file[c] \in Seq(Line) /\ unsynced[c] \in Nat /\ unsynced[c] <= Len(file[c])
  BY DEF RotInv, TypeInv, TypeOK, UnsyncedOK
<1>2. /\ file[c] # <<>> /\ Len(file[c]) \in 1..Len(file[c])
      /\ Len(file[c]) >= Len(file[c]) - unsynced[c]
  BY <1>1 DEF EndAbove
<1>3. file[c][Len(file[c])] \in Record /\ file[c][Len(file[c])] # Torn
  BY <1>1, <1>2 DEF Verifies, Loads, Line
<1>4. s <= Top(file[c][Len(file[c])].hash).seq
  BY <1>2, <1>3 DEF EndAbove
<1>5. Top(file[c][Len(file[c])].hash) = file[c][Len(file[c])].content
  BY <1>2, <1>3, SealedTop DEF Verifies
<1> QED
  BY <1>2, <1>3, <1>4, <1>5

(* No step of the store lets the tip fall below a cursor. *)
LEMMA MovesTipAbove ==
    ASSUME RotInv, StoreMoves, NEW s \in Nat, NEW c \in Corridors,
           up => TipAbove(c, s), ~up => EndAbove(c, s)
    PROVE  up' => TipAbove(c, s)'
<1>1. /\ tips \in [Corridors -> Record \cup {Nil}] /\ TypeInv
      /\ file[c] \in Seq(Line)
  BY DEF RotInv, TypeInv, TypeOK
<1>2. CASE UNCHANGED <<up, tips>>
  BY <1>2 DEF TipAbove
<1>3. CASE Open
  <2>1. Verifies(file[c]) /\ tips'[c] = TipOf(file[c]) /\ ~up
    BY <1>3 DEF Open, Openable
  <2>2. /\ file[c] # <<>> /\ file[c][Len(file[c])] \in Record
        /\ s <= Top(file[c][Len(file[c])].hash).seq
    BY <2>1, VerifiedEnd
  <2>3. tips'[c] = file[c][Len(file[c])] /\ tips'[c] # Nil
    BY <2>1, <2>2, RecordFields DEF TipOf
  <2> QED
    BY <2>2, <2>3 DEF TipAbove
<1>4. CASE SyncSucceeds
  <2>1. /\ op.step = "flushed" /\ op.corridor \in Corridors /\ op.rec \in Record /\ up
        /\ tips' = [tips EXCEPT ![op.corridor] = op.rec]
    BY <1>1, <1>4 DEF SyncSucceeds, TypeInv, OpOK
  <2>2. CASE c # op.corridor
    <3>1. tips'[c] = tips[c]
      BY <1>1, <2>1, <2>2
    <3> QED
      BY <2>1, <3>1 DEF TipAbove
  <2>3. CASE c = op.corridor
    <3>1. tips'[c] = op.rec /\ op.rec # Nil
      BY <1>1, <2>1, <2>3, RecordFields
    <3>2. s <= Top(op.rec.hash).seq
      BY <2>1, <2>3, SealedAbove
    <3> QED
      BY <3>1, <3>2 DEF TipAbove
  <2> QED
    BY <2>2, <2>3
<1>5. CASE Kill
  BY <1>5 DEF Kill
<1> QED
  BY <1>2, <1>3, <1>4, <1>5
     DEF StoreMoves, StoreStep, KillAnywhere, AppendStep, allVars, vars, historyVars,
         BeginAppend, AppendRefused, WriteFails, TerminateLastLine, WriteLine, SyncFails,
         LoseTail, Edit

(* No step of the store puts a cursor out of a chain's reach. *)
LEMMA MovesFloor ==
    ASSUME RotInv, StoreMoves, NEW c \in Corridors, NEW s \in Nat, FloorOK(c, s)
    PROVE  FloorOK(c, s)'
<1> SUFFICES ASSUME ~cut'[c]
             PROVE  /\ ~Rotating(c)' => EndAbove(c, s)'
                    /\ up' => TipAbove(c, s)'
                    /\ Rotating(c)' => KeptAbove(s)'
  BY DEF FloorOK
<1>1. ~cut[c] /\ (Whole(c)' => Whole(c))
  BY WholeBefore
<1>2. up => TipAbove(c, s)
  BY <1>1 DEF FloorOK
<1>3. ~Rotating(c)' => EndAbove(c, s)'
  <2> SUFFICES ASSUME ~Rotating(c)' PROVE EndAbove(c, s)'
    OBVIOUS
  <2>1. ~Rotating(c)
    BY <1>1 DEF Whole
  <2> QED
    BY <1>1, <1>2, <2>1, MovesEndAbove DEF FloorOK
<1>4. up' => TipAbove(c, s)'
  <2>1. ~up => ~Rotating(c)
    BY DEF RotInv, RotOK, Rotating
  <2> QED
    BY <1>1, <1>2, <2>1, MovesTipAbove DEF FloorOK
<1>5. Rotating(c)' => KeptAbove(s)'
  <2>1. CASE KillAnywhere
    BY <2>1, KilledIdle DEF Rotating
  <2>2. CASE UNCHANGED rotVars
    BY <1>1, <2>2 DEF rotVars, Rotating, Current, KeptAbove, FloorOK
  <2> QED
    BY <2>1, <2>2 DEF StoreMoves, allVars
<1> QED
  BY <1>3, <1>4, <1>5


(* A rotation step that leaves a chain alone leaves its cursors alone. *)
LEMMA FloorSame ==
    ASSUME NEW c \in Corridors, NEW s \in Nat, FloorOK(c, s), up, ~Rotating(c), ~Rotating(c)',
           file'[c] = file[c], unsynced'[c] = unsynced[c], tips'[c] = tips[c],
           cut'[c] = cut[c]
    PROVE  FloorOK(c, s)'
BY DEF FloorOK, EndAbove, TipAbove

(* No step of a rotation puts a cursor out of a chain's reach; one case    *)
(* per action.                                                             *)
LEMMA RotateFloor ==
    ASSUME RotInv, RotateStep, NEW c \in Corridors, NEW s \in Nat, FloorOK(c, s)
    PROVE  FloorOK(c, s)'
<1>1. /\ file \in [Corridors -> Seq(Line)] /\ unsynced \in [Corridors -> Nat]
      /\ tips \in [Corridors -> Record \cup {Nil}]
      /\ cut \in [Corridors -> BOOLEAN]
      /\ rot \in [step : RotationSteps, todo : SUBSET Corridors,
                  ceiling : Nat, kept : Seq(Record)]
      /\ up
  BY RotateQuiet DEF RotInv, TypeInv, TypeOK, RotTypeOK
<1>2. ASSUME rot.step \in {"idle", "scan"}, rot'.step \in {"idle", "scan"},
             UNCHANGED <<file, unsynced, tips, cut>>
      PROVE  FloorOK(c, s)'
  BY <1>1, <1>2, FloorSame DEF Rotating
<1>3. ASSUME c # Current, rot'.step \in {"idle", "scan"} \/ rot'.todo = rot.todo,
             file'[c] = file[c], unsynced'[c] = unsynced[c], tips'[c] = tips[c],
             cut'[c] = cut[c]
      PROVE  FloorOK(c, s)'
  <2>1. ~Rotating(c) /\ ~Rotating(c)'
    BY <1>3 DEF Rotating, Current
  <2> QED
    BY <1>1, <1>3, <2>1, FloorSame
<1>4. ASSUME NEW n \in Ceilings, BeginRotate(n)
      PROVE  FloorOK(c, s)'
  <2>1. rot.step = "idle"
    BY <1>4 DEF BeginRotate, RotInv, RotOK
  <2> QED
    BY <1>2, <1>4, <2>1 DEF BeginRotate, diskVars, historyVars
<1>5. CASE RotateSkip
  BY <1>1, <1>2, <1>5 DEF RotateSkip, vars, diskVars, historyVars
<1>6. CASE RotateRefuse \/ RotateDone
  BY <1>2, <1>6 DEF RotateRefuse, RotateDone, EndRotate, NoRotation, diskVars, historyVars
<1>7. CASE RotateTruncate
  <2>1. /\ Current \in Corridors /\ rot.step = "scan" /\ Verifies(file[Current])
        /\ rot.ceiling \in 1..Len(file[Current])
        /\ rot'.kept = Resealed(Newest(file[Current], rot.ceiling))
        /\ rot'.step = "truncated" /\ rot'.todo = rot.todo
        /\ file' = [file EXCEPT ![Current] = <<>>]
        /\ unsynced' = [unsynced EXCEPT ![Current] = 0]
        /\ UNCHANGED <<tips, cut>>
    BY <1>7, Truncates
  <2>2. CASE c # Current
    BY <1>1, <1>3, <2>1, <2>2
  <2>3. CASE c = Current
    <3>1. Rotating(c)' /\ ~Rotating(c)
      BY <2>1, <2>3 DEF Rotating, Current
    <3>2. PICK n \in 1..Len(file[c]) : n = rot.ceiling
      BY <2>1, <2>3
    <3>a. PICK kept : kept = rot'.kept
      OBVIOUS
    <3>b. kept = Resealed(Newest(file[c], n))
      BY <2>1, <2>3, <3>2, <3>a
    <3>3. Whole(c) \/ cut[c]
      BY <3>1 DEF Whole
    <3>4. /\ kept \in Seq(Record) /\ Len(kept) = n
          /\ Top(kept[n].hash) = Top(file[c][Len(file[c])].hash)
      BY <2>1, <2>3, <3>b, <3>3, MayReplace
    <3>5. ~cut[c] => s <= Top(file[c][Len(file[c])].hash).seq
      BY <2>1, <2>3, <3>1, VerifiedEnd DEF FloorOK
    <3>6. ~cut[c] => KeptAbove(s)'
      BY <3>a, <3>4, <3>5 DEF KeptAbove
    <3>7. ~cut[c] => TipAbove(c, s)
      BY <1>1 DEF FloorOK
    <3> QED
      BY <2>1, <3>1, <3>6, <3>7 DEF FloorOK, TipAbove
  <2> QED
    BY <2>2, <2>3
<1>8. CASE RotateWrite
  <2>1. /\ rot.step = "truncated" /\ rot' = [rot EXCEPT !.step = "rewritten"]
        /\ file' = [file EXCEPT ![Current] = rot.kept]
        /\ unsynced' = [unsynced EXCEPT ![Current] = Len(rot.kept)]
        /\ UNCHANGED <<tips, cut, up>>
    BY <1>8 DEF RotateWrite, historyVars
  <2>2. rot'.step = "rewritten" /\ rot'.todo = rot.todo /\ rot'.kept = rot.kept
    BY <1>1, <2>1
  <2>3. CASE c # Current
    BY <1>1, <1>3, <2>1, <2>2, <2>3
  <2>4. CASE c = Current
    <3>1. Rotating(c) /\ Rotating(c)'
      BY <2>1, <2>2, <2>4 DEF Rotating, Current
    <3> QED
      BY <2>1, <2>2, <3>1 DEF FloorOK, TipAbove, KeptAbove
  <2> QED
    BY <2>3, <2>4
<1>9. CASE RotateWriteFails
  <2>1. /\ rot.step = "truncated" /\ rot' = NoRotation
        /\ cut' = [cut EXCEPT ![Current] = TRUE] /\ UNCHANGED tips
        /\ \E k : unsynced' = [unsynced EXCEPT ![Current] = k]
        /\ \E k : file' = [file EXCEPT ![Current] = k]
    BY <1>9 DEF RotateWriteFails, EndRotate
  <2>2. rot'.step = "idle" /\ Current \in Corridors
    BY <2>1, InHand DEF NoRotation
  <2>3. CASE c # Current
    <3>1. file'[c] = file[c] /\ unsynced'[c] = unsynced[c] /\ cut'[c] = cut[c]
      BY <1>1, <2>1, <2>3
    <3> QED
      BY <1>3, <2>1, <2>2, <2>3, <3>1
  <2>4. CASE c = Current
    BY <1>1, <2>1, <2>4 DEF FloorOK
  <2> QED
    BY <2>3, <2>4
<1>10. CASE RotateSync
  <2>1. /\ rot' = [rot EXCEPT !.step = "scan", !.todo = @ \ {Current}, !.kept = <<>>]
        /\ rot.step = "rewritten"
        /\ unsynced' = [unsynced EXCEPT ![Current] = 0]
        /\ tips' = [tips EXCEPT ![Current] = TipOf(rot.kept)]
        /\ UNCHANGED <<file, cut>>
    BY <1>10 DEF RotateSync, RotatedTips
  <2>2. rot'.step = "scan"
    BY <1>1, <2>1
  <2>3. CASE c # Current
    <3>1. unsynced'[c] = unsynced[c] /\ tips'[c] = tips[c]
      BY <1>1, <2>1, <2>3
    <3> QED
      BY <1>3, <2>1, <2>2, <2>3, <3>1
  <2>4. CASE c = Current
    <3>1. /\ rot.kept \in Seq(Record) /\ Len(rot.kept) >= 1 /\ Len(rot.kept) \in 1..Len(rot.kept)
          /\ Rotating(c) /\ file[c] = rot.kept
      BY <2>1, <2>4, InHand DEF RotInv, KeptOK
    <3>2. PICK kept \in Seq(Record), n \in Nat : kept = rot.kept /\ n = Len(kept)
      BY <3>1
    <3>3. /\ file'[c] = kept /\ unsynced'[c] = 0 /\ tips'[c] = kept[n] /\ n >= 1 /\ n \in 1..n
          /\ ~Rotating(c)'
      BY <1>1, <2>1, <2>2, <2>4, <3>1, <3>2 DEF TipOf, Rotating
    <3>4. kept[n] # Nil
      BY <3>2, <3>3, RecordFields
    <3>5. ~cut[c] => s <= Top(kept[n].hash).seq
      BY <3>1, <3>2 DEF FloorOK, KeptAbove
    <3>6. /\ Len(file'[c]) - unsynced'[c] = n
          /\ \A i \in 1..Len(file'[c]) : i >= n => i = n
      BY <3>2, <3>3
    <3> QED
      BY <2>1, <3>3, <3>4, <3>5, <3>6 DEF FloorOK, EndAbove, TipAbove
  <2> QED
    BY <2>3, <2>4
<1>11. CASE RotateSyncFails
  <2>1. /\ rot.step = "rewritten" /\ rot' = NoRotation
        /\ cut' = [cut EXCEPT ![Current] = TRUE]
        /\ UNCHANGED <<file, unsynced, tips>>
    BY <1>11 DEF RotateSyncFails, EndRotate, diskVars
  <2>2. rot'.step = "idle" /\ Current \in Corridors
    BY <2>1, InHand DEF NoRotation
  <2>3. CASE c # Current
    <3>1. cut'[c] = cut[c]
      BY <1>1, <2>1, <2>3
    <3> QED
      BY <1>3, <2>1, <2>2, <2>3, <3>1
  <2>4. CASE c = Current
    BY <1>1, <2>1, <2>4 DEF FloorOK
  <2> QED
    BY <2>3, <2>4
<1> QED
  BY <1>4, <1>5, <1>6, <1>7, <1>8, <1>9, <1>10, <1>11 DEF RotateStep

(* No step breaks that a flushed chain ends in the tip's hash. *)
LEMMA FlushedTipNext ==
    ASSUME RotInv, [RotNext]_allVars, NEW c \in Corridors, FlushedTip(c)
    PROVE  FlushedTip(c)'
<1>1. /\ file \in [Corridors -> Seq(Line)] /\ unsynced \in [Corridors -> Nat]
      /\ tips \in [Corridors -> Record \cup {Nil}]
      /\ file[c] \in Seq(Line) /\ unsynced[c] \in Nat
      /\ unsynced[c] <= Len(file[c]) /\ TypeInv
  BY DEF RotInv, TypeInv, TypeOK, UnsyncedOK
<1>2. CASE UNCHANGED <<up, unsynced, file, tips>>
  BY <1>2 DEF FlushedTip
<1>3. CASE ~up'
  BY <1>3 DEF FlushedTip
<1>4. ASSUME NEW d \in Corridors, NEW k \in Nat \ {0}, unsynced' = [unsynced EXCEPT ![d] = k],
             NEW l, file' = [file EXCEPT ![d] = l], UNCHANGED <<up, tips>>
      PROVE  FlushedTip(c)'
  <2>1. CASE c = d
    BY <1>1, <1>4, <2>1 DEF FlushedTip
  <2>2. CASE c # d
    BY <1>1, <1>4, <2>2 DEF FlushedTip
  <2> QED
    BY <2>1, <2>2
<1>5. ASSUME NEW d \in Corridors, NEW l, file' = [file EXCEPT ![d] = l],
             unsynced' = [unsynced EXCEPT ![d] = @ + 1], UNCHANGED <<up, tips>>
      PROVE  FlushedTip(c)'
  <2>1. unsynced[d] + 1 \in Nat \ {0}
    BY <1>1
  <2> QED
    BY <1>4, <1>5, <2>1
<1>6. CASE Open
  <2>1. /\ Verifies(file[c]) /\ tips'[c] = TipOf(file[c]) /\ UNCHANGED <<file, unsynced>>
    BY <1>6 DEF Open, Openable, diskVars
  <2>2. file[c] # <<>> => Len(file[c]) \in 1..Len(file[c])
    BY <1>1
  <2>3. file[c] # <<>> => tips'[c] = file[c][Len(file[c])] /\ tips'[c] \in Record
    BY <1>1, <2>1, <2>2 DEF TipOf, Verifies, Loads, Line
  <2> QED
    BY <2>1, <2>3, RecordFields DEF FlushedTip
<1>7. CASE WriteLine
  BY <1>1, <1>5, <1>7 DEF WriteLine, TypeInv, OpOK
<1>8. CASE WriteFails
  <2>1. PICK d \in Corridors : PartialWrite(d) /\ UNCHANGED <<up, tips>>
    BY <1>8 DEF WriteFails
  <2>2. /\ unsynced' = [unsynced EXCEPT ![d] = @ + 1]
        /\ \E l \in Line : file' = [file EXCEPT ![d] = Append(@, l)]
    BY <1>1, <2>1, PartialWriteGrows
  <2> QED
    BY <1>5, <2>1, <2>2
<1>9. CASE SyncSucceeds
  <2>1. /\ op.step = "flushed" /\ op.corridor \in Corridors /\ op.rec \in Record
        /\ unsynced' = [unsynced EXCEPT ![op.corridor] = 0]
        /\ tips' = [tips EXCEPT ![op.corridor] = op.rec]
        /\ UNCHANGED <<file, up>>
    BY <1>1, <1>9 DEF SyncSucceeds, Synced, TypeInv, OpOK
  <2>2. CASE c # op.corridor
    BY <1>1, <2>1, <2>2 DEF FlushedTip
  <2>3. CASE c = op.corridor
    <3>1. tips'[c] = op.rec /\ op.rec # Nil
      BY <1>1, <2>1, <2>3, RecordFields
    <3>2. file[c][Len(file[c])] = op.rec
      BY <2>1, <2>3 DEF RotInv, FlushedOK
    <3> QED
      BY <2>1, <3>1, <3>2 DEF FlushedTip
  <2> QED
    BY <2>2, <2>3
<1>10. CASE Kill
  BY <1>3, <1>10 DEF Kill
<1>11. ASSUME NEW d \in Corridors, LoseTail(d)
       PROVE  FlushedTip(c)'
  BY <1>3, <1>11 DEF LoseTail
<1>12. ASSUME NEW d \in Corridors, Edit(d)
       PROVE  FlushedTip(c)'
  <2>1. PICK lines \in Seq(Line) : file' = [file EXCEPT ![d] = lines] /\ EndKept(d, lines)
    BY <1>1, <1>12, EditKeepsEnd
  <2>2. UNCHANGED <<up, unsynced, tips>>
    BY <1>12 DEF Edit
  <2>3. CASE c # d
    <3>1. file'[c] = file[c]
      BY <1>1, <2>1, <2>3
    <3> QED
      BY <2>2, <3>1 DEF FlushedTip
  <2>4. CASE c = d
    <3>1. file'[c] = lines /\ Len(lines) - unsynced[c] >= 1
      BY <1>1, <2>1, <2>4 DEF EndKept
    <3> SUFFICES ASSUME up, unsynced[c] = 0, lines[Len(lines)] # Torn
                 PROVE  tips[c] # Nil /\ tips[c].hash = lines[Len(lines)].hash
      BY <2>2, <3>1 DEF FlushedTip
    <3> DEFINE k == Len(lines) + Len(file[c]) - Len(lines)
    <3>2. Len(lines) \in 1..Len(lines) /\ Len(lines) >= Len(lines) - unsynced[c]
      BY <1>1, <2>1, <3>1
    <3>3. k \in 1..Len(file[c]) /\ file[c][k] # Torn /\ lines[Len(lines)].hash = file[c][k].hash
      BY <2>1, <2>4, <3>2 DEF EndKept
    <3>4. k = Len(file[c])
      BY <1>1, <2>1
    <3>5. file[c] # <<>>
      BY <1>1, <3>3
    <3> HIDE DEF k
    <3> QED
      BY <3>3, <3>4, <3>5 DEF FlushedTip
  <2> QED
    BY <2>3, <2>4
<1>13. CASE RotateTruncate
  <2>1. /\ file' = [file EXCEPT ![Current] = <<>>]
        /\ unsynced' = [unsynced EXCEPT ![Current] = 0] /\ UNCHANGED <<tips, up>>
    BY <1>13 DEF RotateTruncate
  <2>2. CASE c # Current
    BY <1>1, <2>1, <2>2 DEF FlushedTip
  <2>3. CASE c = Current
    BY <1>1, <2>1, <2>3 DEF FlushedTip
  <2> QED
    BY <2>2, <2>3
<1>14. CASE RotateWrite
  <2>1. /\ file' = [file EXCEPT ![Current] = rot.kept]
        /\ unsynced' = [unsynced EXCEPT ![Current] = Len(rot.kept)] /\ UNCHANGED <<tips, up>>
        /\ rot.step = "truncated"
    BY <1>14 DEF RotateWrite
  <2>2. Current \in Corridors /\ Len(rot.kept) \in Nat \ {0}
    BY <2>1, InHand
  <2> QED
    BY <1>4, <2>1, <2>2
<1>15. CASE RotateWriteFails
  <2>1. PICK n \in 0..(Len(rot.kept) - 1), torn \in BOOLEAN :
           /\ file' = [file EXCEPT ![Current] = IF torn THEN Append(SubSeq(rot.kept, 1, n), Torn)
                                                ELSE SubSeq(rot.kept, 1, n)]
           /\ unsynced' = [unsynced EXCEPT ![Current] = Len(file'[Current])]
    BY <1>15 DEF RotateWriteFails
  <2>2. rot.step = "truncated" /\ UNCHANGED <<tips, up>>
    BY <1>15 DEF RotateWriteFails
  <2>3. Current \in Corridors /\ rot.kept \in Seq(Line) /\ Torn \in Line
    BY <2>2, InHand DEF Line
  <2>4. CASE c # Current
    BY <1>1, <2>1, <2>2, <2>4 DEF FlushedTip
  <2>5. CASE c = Current
    <3>1. SubSeq(rot.kept, 1, n) \in Seq(Line)
      BY <2>3
    <3>2. Append(SubSeq(rot.kept, 1, n), Torn) \in Seq(Line)
      BY <2>3, <3>1
    <3>3. file'[c] \in Seq(Line) /\ unsynced'[c] = Len(file'[c])
      BY <1>1, <2>1, <2>3, <2>5, <3>1, <3>2
    <3>4. PICK l \in Seq(Line) : l = file'[c]
      BY <3>3
    <3>5. Len(l) = 0 => l = <<>>
      OBVIOUS
    <3> QED
      BY <3>3, <3>4, <3>5 DEF FlushedTip
  <2> QED
    BY <2>4, <2>5
<1>16. CASE RotateSync
  <2>1. /\ rot.step = "rewritten" /\ unsynced' = [unsynced EXCEPT ![Current] = 0]
        /\ tips' = [tips EXCEPT ![Current] = TipOf(rot.kept)]
        /\ UNCHANGED <<file, up>>
    BY <1>16 DEF RotateSync, RotatedTips
  <2>2. /\ rot.kept \in Seq(Record) /\ Len(rot.kept) >= 1 /\ Len(rot.kept) \in 1..Len(rot.kept)
        /\ Current \in Corridors /\ file[Current] = rot.kept
    BY <2>1, InHand DEF RotInv, KeptOK
  <2>3. TipOf(rot.kept) = rot.kept[Len(rot.kept)] /\ TipOf(rot.kept) \in Record
    BY <2>2 DEF TipOf
  <2>4. CASE c # Current
    BY <1>1, <2>1, <2>4 DEF FlushedTip
  <2>5. CASE c = Current
    BY <1>1, <2>1, <2>2, <2>3, <2>5, RecordFields DEF FlushedTip
  <2> QED
    BY <2>4, <2>5
<1>17. CASE (\E n \in Ceilings : BeginRotate(n)) \/ RotateSkip \/ RotateRefuse \/ RotateDone
            \/ RotateSyncFails
  BY <1>2, <1>17 DEF BeginRotate, RotateSkip, RotateRefuse, RotateDone, RotateSyncFails,
     EndRotate, vars, diskVars, historyVars
<1> QED
  BY <1>2, <1>6, <1>7, <1>8, <1>9, <1>10, <1>11, <1>12, <1>13, <1>14, <1>15, <1>16, <1>17
     DEF RotNext, RotateStep, KillAnywhere, AppendStep, allVars, vars, diskVars, historyVars,
         BeginAppend, AppendRefused, TerminateLastLine, SyncFails


-----------------------------------------------------------------------------
(* The smaller of two numbers. *)
LEMMA MinOfTwo ==
    ASSUME NEW a \in Nat, NEW b \in Nat
    PROVE  Min({a, b}) = IF a <= b THEN a ELSE b
<1> DEFINE n == IF a <= b THEN a ELSE b
<1>1. n \in {a, b} /\ \A y \in {a, b} : n <= y
  OBVIOUS
<1>2. \A x \in {a, b} : (\A y \in {a, b} : x <= y) => x = n
  OBVIOUS
<1> HIDE DEF n
<1>3. Min({a, b}) \in {a, b} /\ \A y \in {a, b} : Min({a, b}) <= y
  BY <1>1 DEF Min
<1> QED
  BY <1>2, <1>3 DEF n

(* The newest n lines are the last n, in their order. *)
LEMMA NewestIs ==
    ASSUME NEW S, NEW lines \in Seq(S), NEW n \in 0..Len(lines)
    PROVE  /\ Newest(lines, n) \in Seq(S) /\ Len(Newest(lines, n)) = n
           /\ \A k \in 1..n : Newest(lines, n)[k] = lines[(Len(lines) - n) + k]
<1>1. PICK l \in Nat, b \in Nat \ {0} : l = Len(lines) /\ b = (l - n) + 1
  OBVIOUS
<1>2. b - 1 = l - n /\ (l - b) + 1 = n /\ b <= l + 1
  BY <1>1
<1>3. Newest(lines, n) = SubSeq(lines, b, l)
  <2>1. Len(lines) - n + 1 = b
    BY <1>1
  <2> QED
    BY <1>1, <2>1 DEF Newest
<1>4. /\ SubSeq(lines, b, l) \in Seq(S) /\ Len(SubSeq(lines, b, l)) = n
      /\ \A k \in 1..n : SubSeq(lines, b, l)[k] = lines[(b + k) - 1]
  BY <1>1, <1>2
<1>5. \A k \in 1..n : (b + k) - 1 = (l - n) + k
  BY <1>1
<1> QED
  BY <1>1, <1>3, <1>4, <1>5

(* The newest n of the first m lines are the last of those, in their order. *)
LEMMA NewestOfPrefix ==
    ASSUME NEW S, NEW lines \in Seq(S), NEW m \in 0..Len(lines), NEW n \in Nat,
           NEW r \in Nat, r = (IF n <= m THEN n ELSE m)
    PROVE  /\ NewestOf(lines, 1..m, n) \in Seq(S) /\ Len(NewestOf(lines, 1..m, n)) = r
           /\ \A k \in 1..r : NewestOf(lines, 1..m, n)[k] = lines[(m - r) + k]
<1>a. r = (IF n <= m THEN n ELSE m) /\ r <= m
  OBVIOUS
<1>b. m - r \in Nat /\ m \in Nat
  BY <1>a
<1>1. PICK d \in Nat : d = m - r
  BY <1>b
<1> DEFINE recent == {i \in 1..m : Cardinality({j \in 1..m : j > i}) < n}
           Place(k) == CHOOSE i \in recent : Cardinality({j \in recent : j < i}) = k - 1
<1>2. recent = (d + 1)..m
  <2>1. ASSUME NEW i \in 1..m
        PROVE  Cardinality({j \in 1..m : j > i}) < n <=> i >= d + 1
    <3>1. {j \in 1..m : j > i} = (i + 1)..m
      <4>1. \A j \in Nat : j \in 1..m /\ j > i <=> j \in (i + 1)..m
        OBVIOUS
      <4> QED
        BY <4>1
    <3>2. Cardinality((i + 1)..m) = m - i
      <4>1. Cardinality((i + 1)..m) = IF i + 1 > m THEN 0 ELSE (m - (i + 1)) + 1
        BY FS_Interval
      <4> QED
        BY <4>1
    <3>3. m - i < n <=> i >= d + 1
      <4>1. PICK x \in Nat, y \in Nat : x = m /\ y = i /\ y <= x
        BY <1>b
      <4>2. d = x - r /\ r = (IF n <= x THEN n ELSE x) /\ y >= 1
        BY <1>a, <1>1, <4>1
      <4>3. x - y < n <=> y >= d + 1
        BY <4>1, <4>2
      <4> QED
        BY <4>1, <4>3
    <3> QED
      BY <3>1, <3>2, <3>3
  <2>2. \A i \in (d + 1)..m : i \in 1..m
    BY <1>1
  <2> QED
    BY <2>1, <2>2
<1> HIDE DEF recent
<1>3. Cardinality(recent) = r
  <2>1. Cardinality((d + 1)..m) = IF d + 1 > m THEN 0 ELSE (m - (d + 1)) + 1
    BY FS_Interval
  <2> QED
    BY <1>1, <1>2, <2>1
<1>4. ASSUME NEW k \in 1..r
      PROVE  Place(k) = d + k
  <2>1. ASSUME NEW i \in recent
        PROVE  Cardinality({j \in recent : j < i}) = k - 1 <=> i = d + k
    <3>1. {j \in recent : j < i} = (d + 1)..(i - 1) /\ i \in (d + 1)..m
      BY <1>2, <2>1
    <3>2. Cardinality((d + 1)..(i - 1)) = IF d + 1 > i - 1 THEN 0 ELSE ((i - 1) - (d + 1)) + 1
      BY <3>1, FS_Interval
    <3>3. Cardinality((d + 1)..(i - 1)) = (i - d) - 1
      BY <3>1, <3>2
    <3>4. (i - d) - 1 = k - 1 <=> i = d + k
      BY <3>1
    <3> QED
      BY <3>1, <3>3, <3>4
  <2>2. d + k \in recent
    BY <1>1, <1>2
  <2> QED
    BY <2>1, <2>2
<1>5. NewestOf(lines, 1..m, n) = [k \in 1..Cardinality(recent) |-> lines[Place(k)]]
  BY DEF NewestOf, recent
<1> HIDE DEF Place
<1>6. \A k \in 1..r : lines[Place(k)] = lines[d + k] /\ lines[d + k] \in S
  <2>1. \A k \in 1..r : d + k \in 1..Len(lines)
    BY <1>a, <1>1
  <2> QED
    BY <1>4, <2>1
<1>7. [k \in 1..r |-> lines[Place(k)]] \in [1..r -> S]
  BY <1>6
<1> QED
  BY <1>a, <1>1, <1>3, <1>5, <1>6, <1>7

(* A page: the newest of the runs before the cursor, as many as fit, when  *)
(* those are the first m of the chain.                                     *)
LEMMA PageIs ==
    ASSUME RotInv, NEW c \in Corridors, Trend(c),
           NEW m \in Nat, m <= Len(file[c]),
           {i \in DOMAIN file[c] : reader.before > 0 => file[c][i].content.seq < reader.before}
              = 1..m
    PROVE  \E p \in Nat, q \in Seq(Nat \ {0}) :
              /\ p <= m /\ Len(q) = p
              /\ \A k \in 1..p : q[k] = file[c][(m - p) + k].content.seq
              /\ reader'.corridor = c /\ reader'.got = q \o reader.got
              /\ reader'.at \in {"more", "end"}
              /\ reader'.at = "more" => p >= 1 /\ reader'.before = q[1]
              /\ reader'.sound = (reader.sound /\ Verifies(file[c]) /\ unsynced[c] = 0)
<1> DEFINE recent == RecentBefore(c, Limit + 1, reader.before)
           hasMore == Len(recent) > Limit
           page == Newest(recent, Min({Limit, Len(recent)}))
           seqs == [i \in DOMAIN page |-> page[i].content.seq]
<1>1. /\ Loads(file[c])
      /\ reader' = At(IF hasMore THEN "more" ELSE "end", c,
                      IF hasMore THEN seqs[1] ELSE 0, seqs \o reader.got,
                      reader.sound /\ Verifies(file[c]) /\ unsynced[c] = 0)
  BY DEF Trend
<1>2. Limit \in Nat \ {0} /\ file[c] \in Seq(Line)
  BY LimitAssumption DEF RotInv, TypeInv, TypeOK
<1>3. PICK r \in Nat : r = IF Limit + 1 <= m THEN Limit + 1 ELSE m
  BY <1>2
<1>4. r <= m /\ \A k \in 1..r : (m - r) + k \in 1..Len(file[c])
  <2>1. r <= m
    BY <1>2, <1>3
  <2> QED
    BY <1>2, <2>1
<1>5. /\ recent \in Seq(Line) /\ Len(recent) = r
      /\ \A k \in 1..r : recent[k] = file[c][(m - r) + k]
  <2>1. recent = NewestOf(file[c], 1..m, Limit + 1)
    BY DEF RecentBefore
  <2>2. PICK n \in Nat : n = Limit + 1
    BY <1>2
  <2>3. r = (IF n <= m THEN n ELSE m) /\ m \in 0..Len(file[c])
    BY <1>2, <1>3, <2>2
  <2>4. recent = NewestOf(file[c], 1..m, n)
    BY <2>1, <2>2
  <2> HIDE DEF recent
  <2>5. /\ NewestOf(file[c], 1..m, n) \in Seq(Line) /\ Len(NewestOf(file[c], 1..m, n)) = r
        /\ \A k \in 1..r : NewestOf(file[c], 1..m, n)[k] = file[c][(m - r) + k]
    BY <1>2, <2>3, NewestOfPrefix
  <2> QED
    BY <2>4, <2>5
<1> HIDE DEF recent
<1>6. \A i \in 1..Len(file[c]) : file[c][i] \in Record
  BY <1>1, <1>2 DEF Loads, Line
<1>7. recent \in Seq(Record) /\ Len(recent) = r
  <2>1. \A k \in 1..r : recent[k] \in Record
    BY <1>4, <1>5, <1>6
  <2> QED
    BY <1>5, <2>1
<1>8. PICK p \in Nat : p = Min({Limit, Len(recent)}) /\ p = IF Limit <= r THEN Limit ELSE r
  BY <1>2, <1>7, MinOfTwo
<1>9. p \in 0..Len(recent) /\ page = Newest(recent, p)
  BY <1>7, <1>8
<1> HIDE DEF page
<1>10. /\ page \in Seq(Record) /\ Len(page) = p
       /\ \A k \in 1..p : page[k] = recent[(r - p) + k]
  BY <1>7, <1>9, NewestIs
<1>11. seqs \in Seq(Nat \ {0}) /\ Len(seqs) = p /\ \A k \in 1..p : seqs[k] = page[k].content.seq
  <2>1. DOMAIN page = 1..p
    BY <1>10
  <2>2. \A k \in 1..p : page[k].content.seq \in Nat \ {0}
    BY <1>10, RecordFields
  <2> QED
    BY <2>1, <2>2
<1>12. ASSUME NEW k \in 1..p
       PROVE  seqs[k] = file[c][(m - p) + k].content.seq
  <2>1. (r - p) + k \in 1..r /\ (m - r) + ((r - p) + k) = (m - p) + k
    BY <1>3, <1>8
  <2>2. recent[(r - p) + k] = file[c][(m - p) + k]
    BY <1>5, <2>1
  <2> QED
    BY <1>10, <1>11, <2>2
<1> HIDE DEF seqs
<1>13. p <= m
  BY <1>2, <1>3, <1>8
<1>14. hasMore => p >= 1
  BY <1>2, <1>7, <1>8
<1> HIDE DEF hasMore
<1>15. /\ reader'.corridor = c /\ reader'.got = seqs \o reader.got
       /\ reader'.at = (IF hasMore THEN "more" ELSE "end")
       /\ hasMore => reader'.before = seqs[1]
       /\ reader'.sound = (reader.sound /\ Verifies(file[c]) /\ unsynced[c] = 0)
  BY <1>1 DEF At
<1> QED
  BY <1>11, <1>12, <1>13, <1>14, <1>15


-----------------------------------------------------------------------------
(* Each number is the successor of the one before it. *)
Consecutive(q) == \A i \in 2..Len(q) : q[i] = q[i - 1] + 1

(* What a client holds as long as its pages were sound: numbers without a  *)
(* hole, from the cursor on, and a cursor every chain it may be given next *)
(* still reaches.                                                          *)
ReaderOK ==
    reader.sound =>
       /\ reader.got \in Seq(Nat \ {0})
       /\ reader.at = "start" => reader.got = <<>> /\ reader.before = 0
       /\ (\A c \in Corridors : cut[c] => c # reader.corridor) => Consecutive(reader.got)
       /\ reader.at = "more" =>
             /\ reader.corridor \in Corridors
             /\ reader.got # <<>> /\ reader.before = reader.got[1]
             /\ FloorOK(reader.corridor, reader.before)

ReadInv == RotInv /\ (\A c \in Corridors : FlushedTip(c)) /\ ReaderOK

(* Two runs of numbers that meet are one. *)
LEMMA JoinUp ==
    ASSUME NEW q \in Seq(Nat \ {0}), NEW g \in Seq(Nat \ {0}),
           Consecutive(q), Consecutive(g),
           q # <<>> /\ g # <<>> => g[1] = q[Len(q)] + 1
    PROVE  /\ q \o g \in Seq(Nat \ {0}) /\ Consecutive(q \o g)
           /\ q # <<>> => q \o g # <<>> /\ (q \o g)[1] = q[1]
<1> DEFINE h == q \o g
<1>1. /\ h \in Seq(Nat \ {0}) /\ Len(h) = Len(q) + Len(g)
      /\ \A i \in 1..Len(q) : h[i] = q[i]
      /\ \A i \in 1..Len(g) : h[Len(q) + i] = g[i]
  OBVIOUS
<1>2. PICK n \in Nat, k \in Nat : n = Len(q) /\ k = Len(g)
  OBVIOUS
<1> HIDE DEF h
<1>3. ASSUME NEW i \in 2..Len(h)
      PROVE  h[i] = h[i - 1] + 1
  <2>1. CASE i <= n
    <3>1. i \in 2..Len(q) /\ i \in 1..Len(q) /\ i - 1 \in 1..Len(q)
      BY <1>2, <2>1
    <3> QED
      BY <1>1, <3>1 DEF Consecutive
  <2>2. CASE i = n + 1
    <3>1. i - 1 = n /\ n >= 1 /\ k >= 1 /\ n \in 1..Len(q) /\ 1 \in 1..Len(g)
      BY <1>1, <1>2, <2>2
    <3>2. h[i] = g[1] /\ h[i - 1] = q[n]
      BY <1>1, <1>2, <2>2, <3>1
    <3>3. q # <<>> /\ g # <<>>
      BY <1>2, <3>1
    <3> QED
      BY <1>2, <3>2, <3>3
  <2>3. CASE i > n + 1
    <3>1. PICK j \in 2..k : i = n + j
      <4>1. i - n \in 2..k /\ i = n + (i - n)
        BY <1>1, <1>2, <2>3
      <4> QED
        BY <4>1
    <3>2. j \in 2..Len(g) /\ j \in 1..Len(g) /\ j - 1 \in 1..Len(g) /\ i - 1 = n + (j - 1)
      BY <1>2, <3>1
    <3>3. h[i] = g[j] /\ h[i - 1] = g[j - 1]
      BY <1>1, <1>2, <3>1, <3>2
    <3> QED
      BY <3>2, <3>3 DEF Consecutive
  <2>4. i \in Int /\ n \in Int
    BY <1>1
  <2> QED
    BY <2>1, <2>2, <2>3, <2>4
<1>4. q # <<>> => Len(h) >= 1 /\ h[1] = q[1]
  <2>1. q # <<>> => 1 \in 1..Len(q)
    OBVIOUS
  <2> QED
    BY <1>1, <1>2, <2>1
<1>5. Len(h) >= 1 => h # <<>>
  OBVIOUS
<1> QED
  BY <1>1, <1>3, <1>4, <1>5 DEF Consecutive, h

(* A cut chain stays cut. *)
LEMMA CutStays ==
    ASSUME RotInv, [RotNext]_allVars, NEW c \in Corridors, cut[c]
    PROVE  cut'[c]
<1>1. cut \in [Corridors -> BOOLEAN]
  BY DEF RotInv, RotTypeOK
<1>2. CASE StoreMoves
  BY <1>2, WholeBefore
<1>3. CASE RotateStep
  <2>1. cut' = cut \/ cut' = [cut EXCEPT ![Current] = TRUE]
    BY <1>3 DEF RotateStep, BeginRotate, RotateSkip, RotateRefuse, RotateTruncate, RotateWrite,
       RotateWriteFails, RotateSync, RotateSyncFails, RotateDone
  <2> QED
    BY <1>1, <2>1
<1> QED
  BY <1>2, <1>3, RotSteps

(* While the store takes a step, what a client holds stays as good. *)
LEMMA ReaderWaits ==
    ASSUME ReadInv, [RotNext]_allVars, reader' = reader
    PROVE  ReaderOK'
<1> SUFFICES ASSUME reader.sound
             PROVE  /\ reader.got \in Seq(Nat \ {0})
                    /\ reader.at = "start" => reader.got = <<>> /\ reader.before = 0
                    /\ (\A c \in Corridors : cut'[c] => c # reader.corridor)
                         => Consecutive(reader.got)
                    /\ reader.at = "more" =>
                          /\ reader.corridor \in Corridors
                          /\ reader.got # <<>> /\ reader.before = reader.got[1]
                          /\ FloorOK(reader.corridor, reader.before)'
  BY DEF ReaderOK
<1>1. \A c \in Corridors : cut[c] => cut'[c]
  BY CutStays DEF ReadInv
<1>2. ASSUME reader.at = "more"
      PROVE  FloorOK(reader.corridor, reader.before)'
  <2>1. /\ reader.corridor \in Corridors /\ FloorOK(reader.corridor, reader.before)
        /\ reader.got \in Seq(Nat \ {0}) /\ reader.got # <<>> /\ reader.before = reader.got[1]
    BY <1>2 DEF ReadInv, ReaderOK
  <2>2. PICK c \in Corridors, s \in Nat : c = reader.corridor /\ s = reader.before
    BY <2>1
  <2>3. FloorOK(c, s)
    BY <2>1, <2>2
  <2>4. FloorOK(c, s)'
    BY <2>3, RotSteps, RotateFloor, MovesFloor DEF ReadInv
  <2> QED
    BY <2>2, <2>4
<1> QED
  BY <1>1, <1>2 DEF ReadInv, ReaderOK

(* A flushed chain that verifies reaches every run in it. *)
LEMMA FloorHere ==
    ASSUME RotInv, Between, NEW c \in Corridors, FlushedTip(c),
           Verifies(file[c]), unsynced[c] = 0, NEW i \in 1..Len(file[c])
    PROVE  FloorOK(c, file[c][i].content.seq)
<1>1. /\ file[c] \in Seq(Line) /\ file[c] # <<>> /\ up /\ ~Rotating(c)
      /\ Len(file[c]) \in 1..Len(file[c])
  BY DEF RotInv, TypeInv, TypeOK, Between, Rotating, NoRotation
<1>2. UnbrokenIn(written[c], file[c][Len(file[c])].hash)
  BY <1>1, FileUnbroken
<1>3. /\ \A j \in 1..Len(file[c]) :
            /\ file[c][j] \in Record
            /\ file[c][j].content.seq = file[c][1].content.seq + (j - 1)
      /\ Top(file[c][Len(file[c])].hash) = file[c][Len(file[c])].content
  BY <1>1, <1>2, UnbrokenChain
<1>4. PICK f \in Nat, l \in Nat : f = file[c][1].content.seq /\ l = Len(file[c])
  <2>1. 1 \in 1..Len(file[c])
    BY <1>1
  <2> QED
    BY <1>1, <1>3, <2>1, RecordFields
<1>5. file[c][i].content.seq = f + (i - 1) /\ file[c][l].content.seq = f + (l - 1)
  BY <1>1, <1>3, <1>4
<1>6. file[c][i].content.seq <= Top(file[c][l].hash).seq
  <2>1. i \in 1..l /\ f + (i - 1) <= f + (l - 1)
    BY <1>4
  <2>2. Top(file[c][l].hash) = file[c][l].content
    BY <1>3, <1>4
  <2> QED
    BY <1>5, <2>1, <2>2
<1>7. EndAbove(c, file[c][i].content.seq)
  <2>1. \A j \in 1..Len(file[c]) : j >= Len(file[c]) - unsynced[c] => j = l
    BY <1>1, <1>4
  <2>2. Len(file[c]) - unsynced[c] >= 1
    BY <1>1
  <2> QED
    BY <1>6, <2>1, <2>2 DEF EndAbove
<1>8. TipAbove(c, file[c][i].content.seq)
  <2>1. file[c][l] # Torn
    BY <1>1, <1>3, <1>4, RecordFields
  <2> QED
    BY <1>1, <1>4, <1>6, <2>1 DEF TipAbove, FlushedTip
<1> QED
  BY <1>1, <1>7, <1>8 DEF FloorOK

(* The runs of a chain before a cursor are its first ones; they end where  *)
(* the cursor is if the chain reaches up to it.                            *)
LEMMA BeforeCursor ==
    ASSUME RotInv, NEW c \in Corridors, Verifies(file[c]), NEW b \in Nat
    PROVE  \E m \in 0..Len(file[c]) :
              /\ {i \in DOMAIN file[c] : b > 0 => file[c][i].content.seq < b} = 1..m
              /\ \A i \in 1..m : i > 1 => file[c][i].content.seq = file[c][i - 1].content.seq + 1
              /\ m >= 1 /\ b > 0 /\ b <= file[c][Len(file[c])].content.seq =>
                    file[c][m].content.seq + 1 = b
<1> DEFINE passed == {i \in DOMAIN file[c] : b > 0 => file[c][i].content.seq < b}
<1>1. file[c] \in Seq(Line) /\ DOMAIN file[c] = 1..Len(file[c])
  BY DEF RotInv, TypeInv, TypeOK
<1>2. CASE file[c] = <<>>
  <2>1. Len(file[c]) = 0 /\ passed = {}
    BY <1>1, <1>2
  <2>2. 0 \in 0..Len(file[c]) /\ passed = 1..0
    BY <2>1
  <2> QED
    BY <2>2
<1>3. CASE file[c] # <<>>
  <2>1. UnbrokenIn(written[c], file[c][Len(file[c])].hash)
    BY <1>3, FileUnbroken
  <2>2. \A j \in 1..Len(file[c]) :
           /\ file[c][j] \in Record
           /\ j > 1 => file[c][j].content.seq = file[c][j - 1].content.seq + 1
           /\ file[c][j].content.seq = file[c][1].content.seq + (j - 1)
    BY <1>1, <1>3, <2>1, UnbrokenChain
  <2>3. PICK f \in Nat \ {0}, l \in Nat \ {0} : f = file[c][1].content.seq /\ l = Len(file[c])
    <3>1. 1 \in 1..Len(file[c]) /\ Len(file[c]) \in Nat \ {0}
      BY <1>1, <1>3
    <3> QED
      BY <2>2, <3>1, RecordFields
  <2>4. \A j \in 1..l : file[c][j].content.seq = f + (j - 1)
    BY <2>2, <2>3
  <2>5. passed = {j \in 1..l : b > 0 => f + (j - 1) < b}
    BY <1>1, <2>3, <2>4
  <2>6. PICK m \in 0..l :
           /\ \A j \in 1..l : (b > 0 => f + (j - 1) < b) <=> j <= m
           /\ m >= 1 /\ b > 0 /\ b <= f + (l - 1) => f + (m - 1) + 1 = b
    <3>1. CASE b = 0 \/ b > f + (l - 1)
      <4>1. \A j \in 1..l : b > 0 => f + (j - 1) < b
        BY <3>1
      <4> WITNESS l \in 0..l
      <4> QED
        BY <3>1, <4>1
    <3>2. CASE b > 0 /\ b <= f
      <4>1. \A j \in 1..l : ~(f + (j - 1) < b)
        BY <3>2
      <4> WITNESS 0 \in 0..l
      <4> QED
        BY <3>2, <4>1
    <3>3. CASE b > f /\ b <= f + (l - 1)
      <4>1. PICK n \in 0..l : n = b - f
        BY <3>3
      <4>2. \A j \in 1..l : f + (j - 1) < b <=> j <= n
        BY <3>3, <4>1
      <4>3. (f + (n - 1)) + 1 = b
        BY <4>1
      <4> WITNESS n \in 0..l
      <4> QED
        BY <3>3, <4>2, <4>3
    <3> QED
      BY <3>1, <3>2, <3>3
  <2>7. passed = 1..m
    <3>1. \A j \in 1..l : j \in passed <=> j \in 1..m
      BY <2>5, <2>6
    <3>2. passed \subseteq 1..l /\ 1..m \subseteq 1..l
      BY <2>5
    <3> QED
      BY <3>1, <3>2
  <2> HIDE DEF passed
  <2>8. \A i \in 1..m : i > 1 => file[c][i].content.seq = file[c][i - 1].content.seq + 1
    BY <2>2, <2>3
  <2>9. m >= 1 /\ b > 0 /\ b <= file[c][Len(file[c])].content.seq => file[c][m].content.seq + 1 = b
    <3>1. l \in 1..l /\ (m >= 1 => m \in 1..l)
      OBVIOUS
    <3> QED
      BY <2>3, <2>4, <2>6, <3>1
  <2>10. m \in 0..Len(file[c])
    BY <2>3
  <2> QED
    BY <2>7, <2>8, <2>9, <2>10 DEF passed
<1> QED
  BY <1>2, <1>3


(* The next page of a sound chain goes on where the last one began. *)
LEMMA PageFollows ==
    ASSUME ReadInv, NEW c \in Corridors, Trend(c), reader'.sound
    PROVE  ReaderOK'
<1>1. /\ reader.sound /\ Verifies(file[c]) /\ unsynced[c] = 0 /\ Between
      /\ UNCHANGED allVars
      /\ \/ reader.at = "start"
         \/ reader.at = "more" /\ reader.corridor = c
  BY DEF Trend, At
<1>2. RotInv /\ FlushedTip(c) /\ reader.got \in Seq(Nat \ {0}) /\ file[c] \in Seq(Line)
  BY <1>1 DEF ReadInv, ReaderOK, RotInv, TypeInv, TypeOK
<1>3. PICK b \in Nat : /\ b = reader.before
                       /\ reader.at = "start" => reader.got = <<>>
                       /\ reader.got # <<>> => b > 0 /\ b = reader.got[1] /\ FloorOK(c, b)
  <2>1. CASE reader.at = "start"
    BY <1>1, <2>1 DEF ReadInv, ReaderOK
  <2>2. CASE reader.at = "more" /\ reader.corridor = c
    <3>1. /\ reader.got # <<>> /\ reader.before = reader.got[1] /\ FloorOK(c, reader.before)
      BY <1>1, <2>2 DEF ReadInv, ReaderOK
    <3>2. reader.before \in Nat \ {0}
      BY <1>2, <3>1
    <3> QED
      BY <2>2, <3>1, <3>2
  <2> QED
    BY <1>1, <2>1, <2>2
<1>4. PICK m \in 0..Len(file[c]) :
         /\ {i \in DOMAIN file[c] : b > 0 => file[c][i].content.seq < b} = 1..m
         /\ \A i \in 1..m : i > 1 => file[c][i].content.seq = file[c][i - 1].content.seq + 1
         /\ m >= 1 /\ b > 0 /\ b <= file[c][Len(file[c])].content.seq =>
               file[c][m].content.seq + 1 = b
  BY <1>1, <1>2, BeforeCursor
<1>5. PICK p \in Nat, q \in Seq(Nat \ {0}) :
         /\ p <= m /\ Len(q) = p
         /\ \A k \in 1..p : q[k] = file[c][(m - p) + k].content.seq
         /\ reader'.corridor = c /\ reader'.got = q \o reader.got
         /\ reader'.at \in {"more", "end"}
         /\ reader'.at = "more" => p >= 1 /\ reader'.before = q[1]
  <2>1. m \in Nat /\ m <= Len(file[c])
    BY <1>2
  <2>2. {i \in DOMAIN file[c] : reader.before > 0 => file[c][i].content.seq < reader.before}
           = 1..m
    BY <1>3, <1>4
  <2> QED
    BY <1>2, <2>1, <2>2, PageIs
<1>6. PICK l \in Nat : l = Len(file[c]) /\ m <= l
  BY <1>2
<1>7. \A k \in 1..p : (m - p) + k \in 1..m /\ (m - p) + k \in 1..l
  BY <1>5, <1>6
<1>8. Consecutive(q)
  <2>1. ASSUME NEW k \in 2..p PROVE q[k] = q[k - 1] + 1
    <3>1. k \in 1..p /\ k - 1 \in 1..p /\ (m - p) + k > 1 /\ ((m - p) + k) - 1 = (m - p) + (k - 1)
      <4>1. m - p \in Nat
        BY <1>2, <1>5
      <4>2. PICK x \in Nat : x = m - p
        BY <4>1
      <4> QED
        BY <4>2
    <3>2. /\ q[k] = file[c][(m - p) + k].content.seq
          /\ q[k - 1] = file[c][(m - p) + (k - 1)].content.seq
      BY <1>5, <3>1
    <3>3. file[c][(m - p) + k].content.seq = file[c][((m - p) + k) - 1].content.seq + 1
      BY <1>4, <1>7, <3>1
    <3> QED
      BY <3>1, <3>2, <3>3
  <2> QED
    BY <1>5, <2>1 DEF Consecutive
<1>9. ASSUME ~cut[c] PROVE Consecutive(q \o reader.got)
  <2>1. Consecutive(reader.got)
    <3>1. CASE reader.at = "start"
      BY <1>3, <3>1 DEF Consecutive
    <3>2. CASE reader.at = "more" /\ reader.corridor = c
      BY <1>1, <1>9, <3>2 DEF ReadInv, ReaderOK
    <3> QED
      BY <1>1, <3>1, <3>2
  <2>2. ASSUME q # <<>>, reader.got # <<>>
        PROVE  reader.got[1] = q[Len(q)] + 1
    <3>1. b > 0 /\ b = reader.got[1] /\ FloorOK(c, b)
      BY <1>3, <2>2
    <3>2. ~Rotating(c)
      BY <1>1 DEF Between, Rotating, NoRotation
    <3>3. EndAbove(c, b)
      BY <1>9, <3>1, <3>2 DEF FloorOK
    <3>4. b <= file[c][Len(file[c])].content.seq
      BY <1>1, <1>2, <3>3, VerifiedEnd
    <3>5. p \in 1..p /\ (m - p) + p = m /\ m >= 1
      BY <1>5, <1>6, <2>2
    <3>6. q[p] = file[c][m].content.seq
      BY <1>5, <3>5
    <3>7. q[p] + 1 = b
      BY <1>4, <3>1, <3>4, <3>5, <3>6
    <3> QED
      BY <1>5, <3>1, <3>7
  <2> QED
    BY <1>2, <2>1, <2>2, <1>8, JoinUp
<1>10. ASSUME reader'.at = "more"
       PROVE  /\ reader'.got # <<>> /\ reader'.before = reader'.got[1]
              /\ FloorOK(c, reader'.before)
  <2>1. p >= 1 /\ reader'.before = q[1] /\ 1 \in 1..p /\ 1 \in 1..Len(q)
    BY <1>5, <1>10
  <2>2. reader'.got # <<>> /\ reader'.got[1] = q[1]
    BY <1>2, <1>5, <2>1
  <2>3. PICK i \in 1..Len(file[c]) : i = (m - p) + 1
    BY <1>6, <1>7, <2>1
  <2>4. q[1] = file[c][i].content.seq
    BY <1>5, <2>1, <2>3
  <2>5. FloorOK(c, file[c][i].content.seq)
    BY <1>1, <1>2, FloorHere
  <2> QED
    BY <2>1, <2>2, <2>4, <2>5
<1>11. reader'.got \in Seq(Nat \ {0})
  BY <1>2, <1>5
<1>12. FloorOK(c, reader'.before) => FloorOK(reader.corridor, reader.before)'
  <2>1. UNCHANGED <<file, unsynced, up, tips, rot, cut>>
    BY <1>1 DEF allVars, rotVars, vars, diskVars
  <2> QED
    BY <1>5, <2>1 DEF FloorOK, EndAbove, TipAbove, KeptAbove, Rotating, Current
<1>13. (\A d \in Corridors : cut'[d] => d # reader'.corridor) => Consecutive(reader'.got)
  <2>1. cut' = cut
    BY <1>1 DEF allVars, rotVars
  <2> QED
    BY <1>5, <1>9, <2>1
<1> QED
  BY <1>5, <1>10, <1>11, <1>12, <1>13 DEF ReaderOK

(* No step of the store, of a rotation or of the client breaks ReadInv. *)
LEMMA ReadNextKeeps == ReadInv /\ [ReadNext]_<<allVars, reader>> => ReadInv'
<1> SUFFICES ASSUME ReadInv, [ReadNext]_<<allVars, reader>> PROVE ReadInv'
  OBVIOUS
<1>1. [RotNext]_allVars
  BY DEF ReadNext, Trend
<1>2. RotInv' /\ \A c \in Corridors : FlushedTip(c)'
  BY <1>1, RotInvNext, FlushedTipNext DEF ReadInv
<1>3. CASE reader' = reader
  BY <1>1, <1>2, <1>3, ReaderWaits DEF ReadInv
<1>4. ASSUME NEW c \in Corridors, Trend(c)
      PROVE  ReaderOK'
  BY <1>4, PageFollows DEF ReaderOK
<1> QED
  BY <1>2, <1>3, <1>4 DEF ReadNext, ReadInv

(* Over all its pages a client misses no run and gets none twice, whatever *)
(* the store does between two of them, if each came from a flushed chain   *)
(* that verified and no rotation of the chain was cut off                  *)
(* (trend.go:400-415, file.go:270-304).                                    *)
THEOREM PagesGapless == ReadSpec => []PagesAreGapless
<1>1. ReadInit => ReadInv
  <2> SUFFICES ASSUME ReadInit PROVE ReadInv
    OBVIOUS
  <2>1. RotInv
    BY RotInvInit DEF ReadInit
  <2>2. ~up
    BY DEF ReadInit, RotInit, Init
  <2>3. \A c \in Corridors : FlushedTip(c)
    BY <2>2 DEF FlushedTip
  <2>4. reader.got = <<>> /\ reader.at = "start" /\ reader.before = 0
    BY DEF ReadInit, At
  <2>5. ReaderOK
    BY <2>4 DEF ReaderOK, Consecutive
  <2> QED
    BY <2>1, <2>3, <2>5 DEF ReadInv
<1>2. ReadInv => PagesAreGapless
  BY DEF ReadInv, ReaderOK, Consecutive, PagesAreGapless
<1> QED
  BY <1>1, <1>2, ReadNextKeeps, PTL DEF ReadSpec
=============================================================================
