---------------------------- MODULE StoreReaders ----------------------------
(***************************************************************************)
(* A client of the HTTP API that pages back through a corridor's trend by  *)
(* sequence number (server/trend.go) while the store is appended to,       *)
(* rotated, cut off and started again.  Each page is read under the        *)
(* store's mutex, so it falls between two operations; nothing is held      *)
(* between the pages.  Reading changes nothing, so one client is enough.   *)
(***************************************************************************)
EXTENDS StoreRotation

CONSTANT Limit      \* runs on one page of a trend

ASSUME LimitAssumption == Limit \in Nat \ {0}

VARIABLE reader     \* the client: the cursor it was given, 0 for none, and
                    \*   the sequence numbers it holds, oldest first

At(where, corridor, before, got, sound) ==
    [at |-> where, corridor |-> corridor, before |-> before, got |-> got, sound |-> sound]

ReadInit ==
    /\ RotInit
    /\ reader = At("start", Nil, 0, <<>>, TRUE)

Between == up /\ lock = "free" /\ rot = NoRotation

(* The newest n records of those a test lets through, oldest first. *)
NewestOf(lines, passed, n) ==
    LET recent == {i \in passed : Cardinality({j \in passed : j > i}) < n}
        Place(k) == CHOOSE i \in recent : Cardinality({j \in recent : j < i}) = k - 1
    IN  [k \in 1..Cardinality(recent) |-> lines[Place(k)]]

(* Mutant of RecentBefore: the run the cursor names is included. *)
RecentUpTo(c, n, before) ==
    NewestOf(file[c], {i \in DOMAIN file[c] : before > 0 => file[c][i].content.seq <= before}, n)

(* The newest n records before a cursor. *)
RecentBefore(c, n, before) ==
    NewestOf(file[c], {i \in DOMAIN file[c] : before > 0 => file[c][i].content.seq < before}, n)

(* One page: a record more than fits says that an older page exists, and   *)
(* the oldest on the page is then the cursor to it.  A chain that does not *)
(* load is a server error, and the client asks again.                      *)
Trend(c) ==
    LET recent == RecentBefore(c, Limit + 1, reader.before)
        hasMore == Len(recent) > Limit
        page == Newest(recent, Min({Limit, Len(recent)}))
        seqs == [i \in DOMAIN page |-> page[i].content.seq]
    IN  /\ Between
        /\ Loads(file[c])
        /\ \/ reader.at = "start" /\ tips[c] # Nil
           \/ reader.at = "more" /\ reader.corridor = c
        /\ reader' = At(IF hasMore THEN "more" ELSE "end", c,
                        IF hasMore THEN seqs[1] ELSE 0, seqs \o reader.got,
                        reader.sound /\ Verifies(file[c]) /\ unsynced[c] = 0)
        /\ UNCHANGED allVars

ReadNext ==
    \/ RotNext /\ UNCHANGED reader
    \/ \E c \in Corridors : Trend(c)

ReadSpec == ReadInit /\ [][ReadNext]_<<allVars, reader>>

-----------------------------------------------------------------------------
(* Over all the pages a client has put together, no run is missing and     *)
(* none is there twice, whatever was appended, rotated away, lost or       *)
(* started again between two of them, as long as each page came from a     *)
(* chain that verified and was flushed (trend.go:400-415).  Open serves    *)
(* what a killed process did not flush, without flushing it: a power loss  *)
(* may still take what a client was served.  A rotation of the chain cut   *)
(* off after its truncation starts the numbering over: the other exception. *)
PagesAreGapless ==
    reader.sound /\ (\A c \in Corridors : cut[c] => c # reader.corridor) =>
       \A i \in 2..Len(reader.got) : reader.got[i] = reader.got[i - 1] + 1
=============================================================================
