--------------------------- MODULE MCStoreReaders ---------------------------
(* StoreReaders on small instances; constants come from the .cfg file.     *)
EXTENDS StoreReaders

CONSTANTS Alone,      \* faults where no client reads
          Beside,     \* faults where a client reads and there are two chains
          Quiet       \* a chain left alone where a client meets all the faults

(* Two chains under three faults, beside a client under one; and one chain  *)
(* and a client under four, enough for a power loss that takes more than    *)
(* one record the client was served.                                        *)
Bounds ==
    \/ faults <= (IF reader.at = "start" THEN Alone ELSE Beside)
    \/ written[Quiet] = {}
=============================================================================
