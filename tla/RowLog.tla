-------------------------------- MODULE RowLog --------------------------------
(***************************************************************************)
(* What the call log promises its readers, without queue, writer and file: *)
(* the rows that can be read back only ever grow by a newer row, except    *)
(* that the newest one, written without its newline, may be lost when the  *)
(* next append runs into it.                                               *)
(***************************************************************************)
EXTENDS Naturals, Sequences

CONSTANT Entry          \* the rows, numbered by the calls they record

VARIABLES rows,         \* what can be read, oldest first
          fragile       \* the newest row still lacks its newline

Newer(entry) == \A i \in DOMAIN rows : rows[i].id < entry.id

Add == /\ ~fragile
       /\ \E entry \in Entry : Newer(entry) /\ rows' = Append(rows, entry)
       /\ fragile' \in BOOLEAN

LoseNewest == /\ fragile
              /\ rows' = SubSeq(rows, 1, Len(rows) - 1)
              /\ fragile' = FALSE

RowLogSpec == /\ rows = <<>> /\ fragile = FALSE
              /\ [][Add \/ LoseNewest]_<<rows, fragile>>
=============================================================================
