----------------------------- MODULE ConfigEdits ------------------------------
(***************************************************************************)
(* The contents of config.yaml and what the admin handlers of              *)
(* internal/handler/admin.go make of them, as operators: an edit takes a   *)
(* configuration and gives the edited one.                                 *)
(*                                                                         *)
(* A backend model is its name, with the rest of its fields left out; all  *)
(* of the routing section is one value; Unset stands for the zero values   *)
(* that applyDefaults fills in when the file is loaded.                    *)
(***************************************************************************)
EXTENDS Naturals, SequencesExt

CONSTANTS Names,            \* names of backend models
          KeyNames,         \* client API keys
          RoutingValues,    \* routing sections an admin may save
          Unset,            \* the zero routing section
          DefaultRouting,   \* what applyDefaults makes of it
          NoKey             \* the old_key of a request that renames no key

Tier == {"advanced", "basic"}

APIKey == [key : KeyNames, active : BOOLEAN]

(* The map may lack either tier, or both. *)
Tiers == {<<>>} \cup [{"advanced"} -> Seq(Names)] \cup [{"basic"} -> Seq(Names)] \cup [Tier -> Seq(Names)]

Config == [tiers : Tiers,
           legacy : Seq(Names),                 \* backend_models, the old flat list
           routing : RoutingValues \cup {Unset, DefaultRouting},
           keys : Seq(APIKey),
           admin : BOOLEAN]                     \* is there a user who can log in

(* What Load starts from when there is no file, or none that parses. *)
Blank == [tiers |-> <<>>, legacy |-> <<>>, routing |-> Unset, keys |-> <<>>, admin |-> FALSE]

-----------------------------------------------------------------------------
(* The tiers. *)

Models(cfg, tier) == IF tier \in DOMAIN cfg.tiers THEN cfg.tiers[tier] ELSE <<>>

WithModels(cfg, tier, models) ==
    [cfg EXCEPT !.tiers = [t \in DOMAIN cfg.tiers \cup {tier} |->
                              IF t = tier THEN models ELSE cfg.tiers[t]]]

HasModel(cfg, tier, name) == Contains(Models(cfg, tier), name)

AddModel(cfg, tier, name) == WithModels(cfg, tier, Append(Models(cfg, tier), name))

removeModel(cfg, tier, name) == WithModels(cfg, tier, RemoveFirst(Models(cfg, tier), name))

-----------------------------------------------------------------------------
(* The API keys: a delete or a rename takes out the first entry of the key.  *)

HasKey(cfg, key) == \E i \in DOMAIN cfg.keys : cfg.keys[i].key = key

removeKey(cfg, key) == [cfg EXCEPT !.keys = RemoveFirstMatch(@, LAMBDA k : k.key = key)]

AppendsAlways(cfg, entry) ==    \* mutated SetKey: no look for an entry to update
    [cfg EXCEPT !.keys = Append(@, entry)]

(* The first entry of the key is updated, or a new one is appended. *)
SetKey(cfg, entry) ==
    [cfg EXCEPT !.keys = IF HasKey(cfg, entry.key)
                         THEN ReplaceAt(@, SelectInSeq(@, LAMBDA k : k.key = entry.key), entry)
                         ELSE Append(@, entry)]

upsertKey(cfg, old, entry) == SetKey(removeKey(cfg, old), entry)

(* A client is let in if the first entry of its key is active. *)
ValidateAPIKey(cfg, key) ==
    \E i \in DOMAIN cfg.keys : /\ cfg.keys[i] = [key |-> key, active |-> TRUE]
                              /\ \A j \in 1..(i - 1) : cfg.keys[j].key # key

-----------------------------------------------------------------------------
(* Loading. *)

MigratesAside(cfg) ==   \* mutated migrateLegacy: the list goes to a tier nobody routes to
    IF DOMAIN cfg.tiers # {} \/ cfg.legacy = <<>> THEN cfg
    ELSE [cfg EXCEPT !.tiers = [t \in {"default"} |-> cfg.legacy], !.legacy = <<>>]

(* The old flat list becomes the basic tier, if there are no tiers. *)
migrateLegacy(cfg) ==
    IF DOMAIN cfg.tiers # {} \/ cfg.legacy = <<>> THEN cfg
    ELSE [cfg EXCEPT !.tiers = [t \in {"basic"} |-> cfg.legacy], !.legacy = <<>>]

applyDefaults(cfg) == [cfg EXCEPT !.routing = IF @ = Unset THEN DefaultRouting ELSE @]

(* What memory holds once the server is up: defaults filled in, the old list  *)
(* migrated, the default admin added if nobody could log in.                  *)
Booted(cfg) == [migrateLegacy(applyDefaults(cfg)) EXCEPT !.admin = TRUE]

-----------------------------------------------------------------------------

(* What one request of an admin may make of the configuration. *)
IsEdit(cfg, edited) ==
    \/ \E tier \in Tier, name \in Names :
          /\ ~HasModel(cfg, tier, name)
          /\ edited = AddModel(cfg, tier, name)
    \/ \E oldTier, tier \in Tier, oldName, name \in Names :
          /\ HasModel(cfg, oldTier, oldName)
          /\ edited \in {removeModel(cfg, oldTier, oldName),
                         AddModel(removeModel(cfg, oldTier, oldName), tier, name)}
    \/ \E routing \in RoutingValues \cup {Unset} : edited = [cfg EXCEPT !.routing = routing]
    \/ \E old \in KeyNames \cup {NoKey}, entry \in APIKey : edited = upsertKey(cfg, old, entry)
    \/ \E key \in KeyNames : HasKey(cfg, key) /\ edited = removeKey(cfg, key)
=============================================================================
