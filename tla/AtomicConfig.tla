----------------------------- MODULE AtomicConfig -----------------------------
(***************************************************************************)
(* What a store of the configuration should promise: config.yaml changes   *)
(* from one whole configuration to another, each time by one edit of what  *)
(* the server takes for stored, or of what its start made of that.  That   *)
(* is what is stored, unless the start could not read it and began with    *)
(* nothing; then the next save puts what it was given in its place.  A     *)
(* crash changes nothing.                                                  *)
(***************************************************************************)
EXTENDS ConfigEdits

CONSTANT Initial        \* configurations a first start may find

VARIABLES stored,
          known         \* what the running server takes for stored

atomicVars == <<stored, known>>

AtomicInit == stored \in Initial /\ known = stored

(* An admin's request edits what is known, or what memory holds of it. *)
StoreEdit == /\ \E cfg \in {known, Booted(known)} : IsEdit(cfg, stored')
             /\ known' = stored'

(* A start that finds no admin stores one. *)
StoreSeed == ~known.admin /\ stored' = Booted(known) /\ known' = stored'

(* A start reads what is stored, or cannot. *)
StoreRead == known' \in {stored, Blank} /\ UNCHANGED stored

AtomicNext == StoreEdit \/ StoreSeed \/ StoreRead

AtomicSpec == AtomicInit /\ [][AtomicNext]_atomicVars
=============================================================================
