------------------------------- MODULE MCConfig -------------------------------
(***************************************************************************)
(* Instances of ConfigStore: first starts with no file, with one that does *)
(* not parse, with one of the old format, and with an ordinary one.        *)
(***************************************************************************)
EXTENDS ConfigStore, TLC

CONSTANT rules

Old(name, key) == [Blank EXCEPT !.legacy = <<name>>, !.keys = <<[key |-> key, active |-> TRUE]>>]

Current(name) == [Blank EXCEPT !.tiers = [t \in Tier |-> IF t = "basic" THEN <<name>> ELSE <<>>],
                               !.routing = rules, !.admin = TRUE]

MCFiles == {Absent, Garbled} \cup {Old(name, key) : name \in Names, key \in KeyNames}
                             \cup {Current(name) : name \in Names}

(* A server that has never been started. *)
MCFresh == {Absent}

(* What the .tmp holds matters only to a saver that has yet to rename it. *)
SaveView ==
    <<file, global, lbCfg, saver, histories,
      IF \E s \in Savers : saver[s].phase \in {"writing", "renaming"} THEN tmp ELSE Absent>>

Renamings == Permutations(Names) \cup Permutations(KeyNames)
=============================================================================
