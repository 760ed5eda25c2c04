------------------------------- MODULE RunLog -------------------------------
(***************************************************************************)
(* What the Store interface of runstore/runstore.go promises: for each     *)
(* corridor a log that grows by one record at a time, each numbered after  *)
(* the one before it, of which the committed part never changes.  A crash  *)
(* may take uncommitted records off the end.                               *)
(*                                                                         *)
(* A write that fails part-way, or somebody's edit, ends the promise for   *)
(* one corridor.  It resumes when a process opens the store again, on a    *)
(* log that still holds as many records as were ever committed.            *)
(***************************************************************************)
EXTENDS Integers, Sequences

CONSTANTS Corridors, Body

VARIABLES
    log,            \* corridor -> its records' contents, oldest first
    committed,      \* corridor -> how many of them are committed
    trusted         \* corridor -> whether the promise holds

logVars == <<log, committed, trusted>>

Init ==
    /\ log = [c \in Corridors |-> <<>>]
    /\ committed = [c \in Corridors |-> 0]
    /\ trusted = [c \in Corridors |-> TRUE]

Extend(c) ==
    /\ trusted[c]
    /\ \E b \in Body :
         log' = [log EXCEPT ![c] = Append(@, [body |-> b, seq |-> Len(@) + 1])]
    /\ UNCHANGED <<committed, trusted>>

Commit(c) ==
    /\ trusted[c]
    /\ committed[c] < Len(log[c])
    /\ committed' = [committed EXCEPT ![c] = Len(log[c])]
    /\ UNCHANGED <<log, trusted>>

Lose(c) ==
    /\ trusted[c]
    /\ \E n \in committed[c]..(Len(log[c]) - 1) :
         log' = [log EXCEPT ![c] = SubSeq(@, 1, n)]
    /\ UNCHANGED <<committed, trusted>>

Same(c) == log'[c] = log[c] /\ committed'[c] = committed[c] /\ trusted'[c] = trusted[c]

(* One corridor's promise is broken, or something happens to a broken one. *)
Disturb(c) ==
    /\ committed'[c] >= committed[c]
    /\ ~trusted'[c]
    /\ \A d \in Corridors \ {c} : Same(d)

(* Broken corridors, if any, are trusted again.                            *)
Resume ==
    \A c \in Corridors :
       \/ Same(c)
       \/ /\ ~trusted[c] /\ trusted'[c]
          /\ committed'[c] >= committed[c] /\ committed'[c] <= Len(log'[c])

Next == Resume \/ \E c \in Corridors : Extend(c) \/ Commit(c) \/ Lose(c) \/ Disturb(c)

Spec == Init /\ [][Next]_logVars
=============================================================================
