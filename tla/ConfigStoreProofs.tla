--------------------------- MODULE ConfigStoreProofs ---------------------------
(***************************************************************************)
(* Proofs about the store of the configuration.  Types hold for any number *)
(* of admins.  The rest is for one: then saves do not overlap, and the     *)
(* invariant StoreInv says, phase by phase, what the save under way has    *)
(* achieved (SaveShape), by what edit it got there (ChangeShape) and how   *)
(* far memory has followed the file (MemoryShape).  From it come the       *)
(* stored changes, the agreement of memory and disk and the refinement of  *)
(* AtomicConfig, and with KeysInv the fate of revoked keys.                *)
(***************************************************************************)
EXTENDS ConfigStore, SequenceLemmas

-----------------------------------------------------------------------------
(* The edits stay within the configurations. *)

LEMMA TiersShape ==
    ASSUME NEW tiers
    PROVE  tiers \in Tiers <=> /\ tiers \in [DOMAIN tiers -> Seq(Names)]
                               /\ DOMAIN tiers \subseteq Tier
<1>1. <<>> \in [{} -> Seq(Names)] /\ \A f \in [{} -> Seq(Names)] : f = <<>>
  OBVIOUS
<1>2. ASSUME NEW D, D \subseteq Tier
      PROVE  D = {} \/ D = {"advanced"} \/ D = {"basic"} \/ D = Tier
  BY <1>2 DEF Tier
<1> QED
  BY <1>1, <1>2 DEF Tiers, Tier

(* The parts of a configuration. *)
LEMMA ConfigParts ==
    ASSUME NEW cfg \in Config
    PROVE  /\ cfg.tiers \in Tiers
           /\ cfg.legacy \in Seq(Names)
           /\ cfg.routing \in RoutingValues \cup {Unset, DefaultRouting}
           /\ cfg.keys \in Seq(APIKey)
           /\ cfg.admin \in BOOLEAN
           /\ DOMAIN cfg.keys = 1..Len(cfg.keys) /\ Len(cfg.keys) \in Nat
           /\ \A i \in 1..Len(cfg.keys) : cfg.keys[i] \in APIKey /\ cfg.keys[i].key \in KeyNames
           /\ \A tier : Models(cfg, tier) \in Seq(Names)
<1>1. /\ cfg.tiers \in Tiers /\ cfg.legacy \in Seq(Names) /\ cfg.keys \in Seq(APIKey)
      /\ cfg.routing \in RoutingValues \cup {Unset, DefaultRouting} /\ cfg.admin \in BOOLEAN
  BY DEF Config
<1>2. \A i \in 1..Len(cfg.keys) : cfg.keys[i] \in APIKey
  BY <1>1
<1>3. \A k \in APIKey : k.key \in KeyNames
  BY DEF APIKey
<1>4. ASSUME NEW tier
      PROVE  Models(cfg, tier) \in Seq(Names)
  BY <1>1, TiersShape DEF Models
<1> QED
  BY <1>1, <1>2, <1>3, <1>4

LEMMA BlankType == Blank \in Config
<1>1. <<>> \in Tiers
  BY DEF Tiers
<1>2. <<>> \in Seq(Names) /\ <<>> \in Seq(APIKey)
  OBVIOUS
<1> QED
  BY <1>1, <1>2 DEF Blank, Config

LEMMA WithModelsType ==
    ASSUME NEW cfg \in Config, NEW tier \in Tier, NEW models \in Seq(Names)
    PROVE  /\ WithModels(cfg, tier, models) \in Config
           /\ WithModels(cfg, tier, models).keys = cfg.keys
<1> DEFINE tiers == [t \in DOMAIN cfg.tiers \cup {tier} |-> IF t = tier THEN models ELSE cfg.tiers[t]]
<1>1. cfg.tiers \in [DOMAIN cfg.tiers -> Seq(Names)] /\ DOMAIN cfg.tiers \subseteq Tier
  BY ConfigParts, TiersShape
<1>2. tiers \in [DOMAIN tiers -> Seq(Names)] /\ DOMAIN tiers \subseteq Tier
  BY <1>1
<1> HIDE DEF tiers
<1>3. tiers \in Tiers
  BY <1>2, TiersShape
<1>4. WithModels(cfg, tier, models) = [cfg EXCEPT !.tiers = tiers]
  BY DEF WithModels, tiers
<1> QED
  BY <1>3, <1>4 DEF Config

LEMMA ModelEditTypes ==
    ASSUME NEW cfg \in Config, NEW tier \in Tier, NEW name \in Names
    PROVE  /\ AddModel(cfg, tier, name) \in Config
           /\ AddModel(cfg, tier, name).keys = cfg.keys
           /\ removeModel(cfg, tier, name) \in Config
           /\ removeModel(cfg, tier, name).keys = cfg.keys
<1>1. Models(cfg, tier) \in Seq(Names)
  BY ConfigParts
<1>2. Append(Models(cfg, tier), name) \in Seq(Names)
  BY <1>1
<1>3. RemoveFirst(Models(cfg, tier), name) \in Seq(Names)
  BY <1>1, RemoveFirstType
<1> QED
  BY <1>2, <1>3, WithModelsType DEF AddModel, removeModel

(* Every key has one entry. *)
DistinctKeys(cfg) ==
    \A i, j \in DOMAIN cfg.keys : cfg.keys[i].key = cfg.keys[j].key => i = j

(* Taking out the first entry of a key keeps the others in order; if no key    *)
(* has two entries, nothing is left of it.                                     *)
LEMMA removeKeyShape ==
    ASSUME NEW cfg \in Config, NEW key
    PROVE  /\ removeKey(cfg, key) \in Config
           /\ \A i \in DOMAIN removeKey(cfg, key).keys :
                  \E j \in DOMAIN cfg.keys : removeKey(cfg, key).keys[i] = cfg.keys[j]
           /\ DistinctKeys(cfg) => /\ DistinctKeys(removeKey(cfg, key))
                                   /\ ~HasKey(removeKey(cfg, key), key)
<1> DEFINE keys == RemoveFirstMatch(cfg.keys, LAMBDA k : k.key = key)
           I == {i \in 1..Len(cfg.keys) : cfg.keys[i].key = key}
<1>1. /\ cfg.keys \in Seq(APIKey)
      /\ DOMAIN cfg.keys = 1..Len(cfg.keys) /\ Len(cfg.keys) \in Nat
  BY ConfigParts
<1>2. removeKey(cfg, key) = [cfg EXCEPT !.keys = keys]
  BY DEF removeKey
<1>3. CASE I = {}
  <2>1. keys = cfg.keys
    BY <1>3 DEF RemoveFirstMatch
  <2>2. removeKey(cfg, key) = cfg
    BY <1>2, <2>1 DEF Config
  <2> QED
    BY <1>1, <1>3, <2>2 DEF HasKey
<1>4. CASE I # {}
  <2>1. Min(I) \in I
    <3>1. I \subseteq Nat
      OBVIOUS
    <3> QED
      BY <1>4, <3>1, MinIsLeast
  <2>2. SelectInSeq(cfg.keys, LAMBDA k : k.key = key) = Min(I)
    BY <1>4 DEF SelectInSeq
  <2>3. PICK f \in I : keys = RemoveAt(cfg.keys, f)
    BY <1>4, <2>1, <2>2 DEF RemoveFirstMatch
  <2> HIDE DEF keys
  <2>4. /\ keys \in Seq(APIKey)
        /\ Len(keys) = Len(cfg.keys) - 1
        /\ \A j \in 1..(Len(cfg.keys) - 1) :
               keys[j] = IF j < f THEN cfg.keys[j] ELSE cfg.keys[j + 1]
    BY <1>1, <2>3, RemoveAtShape
  <2>5. removeKey(cfg, key) \in Config /\ removeKey(cfg, key).keys = keys
    BY <1>2, <2>4 DEF Config
  <2>6. DOMAIN keys = 1..(Len(cfg.keys) - 1)
    BY <1>1, <2>4
  <2>7. ASSUME NEW j \in DOMAIN keys
        PROVE  \E i \in DOMAIN cfg.keys : /\ keys[j] = cfg.keys[i] /\ i # f
                                          /\ i = IF j < f THEN j ELSE j + 1
    BY <1>1, <2>3, <2>4, <2>6
  <2>8. \A i \in DOMAIN keys : \E j \in DOMAIN cfg.keys : keys[i] = cfg.keys[j]
    BY <2>7
  <2>9. ASSUME DistinctKeys(cfg)
        PROVE  ~HasKey(removeKey(cfg, key), key)
    BY <1>1, <2>3, <2>5, <2>7, <2>9 DEF HasKey, DistinctKeys
  <2>10. ASSUME DistinctKeys(cfg), NEW i \in DOMAIN keys, NEW j \in DOMAIN keys,
                keys[i].key = keys[j].key
         PROVE  i = j
    <3>1. PICK m, n \in DOMAIN cfg.keys :
              /\ keys[i] = cfg.keys[m] /\ m = IF i < f THEN i ELSE i + 1
              /\ keys[j] = cfg.keys[n] /\ n = IF j < f THEN j ELSE j + 1
      BY <2>7
    <3>2. m = n
      BY <2>10, <3>1 DEF DistinctKeys
    <3> QED
      BY <1>1, <2>3, <2>6, <3>1, <3>2
  <2> QED
    BY <2>5, <2>8, <2>9, <2>10 DEF DistinctKeys
<1> QED
  BY <1>3, <1>4

(* Updating or appending an entry touches no other key. *)
LEMMA SetKeyShape ==
    ASSUME NEW cfg \in Config, NEW entry \in APIKey
    PROVE  /\ SetKey(cfg, entry) \in Config
           /\ \A i \in DOMAIN SetKey(cfg, entry).keys :
                  \/ SetKey(cfg, entry).keys[i] = entry
                  \/ \E j \in DOMAIN cfg.keys : SetKey(cfg, entry).keys[i] = cfg.keys[j]
           /\ \E i \in DOMAIN SetKey(cfg, entry).keys : SetKey(cfg, entry).keys[i] = entry
           /\ DistinctKeys(cfg) => DistinctKeys(SetKey(cfg, entry))
<1> DEFINE I == {i \in 1..Len(cfg.keys) : cfg.keys[i].key = entry.key}
           keys == SetKey(cfg, entry).keys
<1>1. /\ cfg.keys \in Seq(APIKey)
      /\ DOMAIN cfg.keys = 1..Len(cfg.keys) /\ Len(cfg.keys) \in Nat
  BY ConfigParts
<1>2. CASE HasKey(cfg, entry.key)
  <2>1. I # {} /\ I \subseteq Nat
    BY <1>1, <1>2 DEF HasKey
  <2>2. Min(I) \in I
    BY <2>1, MinIsLeast
  <2>3. SelectInSeq(cfg.keys, LAMBDA k : k.key = entry.key) = Min(I)
    BY <2>1 DEF SelectInSeq
  <2>4. PICK f \in I : SetKey(cfg, entry) = [cfg EXCEPT !.keys = [cfg.keys EXCEPT ![f] = entry]]
    BY <1>2, <2>2, <2>3 DEF SetKey, ReplaceAt
  <2>5. /\ [cfg.keys EXCEPT ![f] = entry] \in Seq(APIKey)
        /\ DOMAIN [cfg.keys EXCEPT ![f] = entry] = DOMAIN cfg.keys
    BY <1>1
  <2>6. SetKey(cfg, entry) \in Config /\ keys = [cfg.keys EXCEPT ![f] = entry]
    BY <2>4, <2>5 DEF Config
  <2>7. /\ \A i \in DOMAIN cfg.keys : keys[i].key = cfg.keys[i].key
        /\ \A i \in DOMAIN cfg.keys : keys[i] = entry \/ keys[i] = cfg.keys[i]
        /\ f \in DOMAIN cfg.keys /\ keys[f] = entry
    BY <1>1, <2>4, <2>6
  <2> QED
    BY <2>5, <2>6, <2>7 DEF DistinctKeys
<1>3. CASE ~HasKey(cfg, entry.key)
  <2>1. SetKey(cfg, entry) = [cfg EXCEPT !.keys = Append(cfg.keys, entry)]
    BY <1>3 DEF SetKey
  <2>2. Append(cfg.keys, entry) \in Seq(APIKey)
    BY <1>1
  <2>3. SetKey(cfg, entry) \in Config /\ keys = Append(cfg.keys, entry)
    BY <2>1, <2>2 DEF Config
  <2>4. /\ DOMAIN keys = 1..(Len(cfg.keys) + 1)
        /\ \A i \in 1..Len(cfg.keys) : keys[i] = cfg.keys[i]
        /\ keys[Len(cfg.keys) + 1] = entry
    BY <1>1, <2>3, AppendProperties
  <2>5. /\ \A i \in DOMAIN keys : keys[i] = entry \/ \E j \in DOMAIN cfg.keys : keys[i] = cfg.keys[j]
        /\ Len(cfg.keys) + 1 \in DOMAIN keys
    BY <1>1, <2>4
  <2>6. ASSUME DistinctKeys(cfg), NEW i \in DOMAIN keys, NEW j \in DOMAIN keys,
               keys[i].key = keys[j].key
        PROVE  i = j
    BY <1>1, <1>3, <2>3, <2>4, <2>6 DEF HasKey, DistinctKeys
  <2> QED
    BY <2>3, <2>4, <2>5, <2>6 DEF DistinctKeys
<1> QED
  BY <1>2, <1>3

LEMMA BootedType ==
    ASSUME NEW cfg \in Config
    PROVE  /\ Booted(cfg) \in Config
           /\ Booted(cfg).keys = cfg.keys
           /\ Booted(cfg).admin
<1> DEFINE defaults == applyDefaults(cfg)
<1>1. defaults \in Config /\ defaults.keys = cfg.keys
  BY DEF applyDefaults, Config
<1> HIDE DEF defaults
<1>2. migrateLegacy(defaults) \in Config /\ migrateLegacy(defaults).keys = cfg.keys
  <2>1. CASE migrateLegacy(defaults) = defaults
    BY <1>1, <2>1
  <2>2. CASE migrateLegacy(defaults) # defaults
    <3>1. migrateLegacy(defaults) =
              [defaults EXCEPT !.tiers = [t \in {"basic"} |-> defaults.legacy], !.legacy = <<>>]
      BY <2>2 DEF migrateLegacy
    <3>2. [t \in {"basic"} |-> defaults.legacy] \in Tiers /\ <<>> \in Seq(Names)
      BY <1>1 DEF Config, Tiers
    <3> QED
      BY <1>1, <3>1, <3>2 DEF Config
  <2> QED
    BY <2>1, <2>2
<1> QED
  BY <1>2 DEF Booted, defaults, Config

-----------------------------------------------------------------------------
(* Types, with any number of admins. *)

(* What a saver has in hand until it is done is a configuration. *)
StoreTypes ==
    /\ TypeOK
    /\ up => global # NoConfig
    /\ global = NoConfig => \A s \in Savers : saver[s] = Idle
    /\ \A s \in Savers : saver[s].phase \notin {"idle", "done"} => saver[s].cfg \in Config

LEMMA LoadedType ==
    ASSUME NEW content \in Content
    PROVE  Loaded(content) \in Config
  BY BlankType DEF Loaded, Content

LEMMA IdleType == Idle \in Saver /\ Idle.phase = "idle"
<1>1. KeepsKeys("seed") \in Op
  BY DEF KeepsKeys, Op
<1> QED
  BY <1>1 DEF Idle, Saver, Phase

(* A step that gives one saver its new record, while the process runs. *)
LEMMA OneRecordTypes ==
    ASSUME StoreTypes, NEW s \in Savers, NEW rec \in Saver,
           saver' = [saver EXCEPT ![s] = rec],
           rec.phase \notin {"idle", "done"} => rec.cfg \in Config,
           file' \in Content, tmp' \in Content,
           global' \in Config, lbCfg' \in Config \cup {NoConfig},
           unread' \in BOOLEAN, removed' \subseteq KeyNames
    PROVE  StoreTypes'
<1>1. saver \in [Savers -> Saver]
  BY DEF StoreTypes, TypeOK
<1>2. saver' \in [Savers -> Saver]
  BY <1>1
<1>3. global' # NoConfig
  BY StoreAssumption
<1>4. \A t \in Savers : saver'[t] = IF t = s THEN rec ELSE saver[t]
  BY <1>1
<1>5. \A t \in Savers : saver'[t].phase \notin {"idle", "done"} => saver'[t].cfg \in Config
  BY <1>4 DEF StoreTypes
<1>6. TypeOK'
  BY <1>2 DEF TypeOK
<1> QED
  BY <1>3, <1>5, <1>6 DEF StoreTypes

(* What is edited is again a configuration. *)
LEMMA EditType ==
    ASSUME NEW cfg \in Config, NEW edited, IsEdit(cfg, edited)
    PROVE  edited \in Config
<1>1. ASSUME NEW tier \in Tier, NEW name \in Names, edited = AddModel(cfg, tier, name)
      PROVE  edited \in Config
  BY <1>1, ModelEditTypes
<1>2. ASSUME NEW oldTier \in Tier, NEW tier \in Tier, NEW oldName \in Names, NEW name \in Names,
             edited \in {removeModel(cfg, oldTier, oldName),
                        AddModel(removeModel(cfg, oldTier, oldName), tier, name)}
      PROVE  edited \in Config
  BY <1>2, ModelEditTypes
<1>3. ASSUME NEW routing \in RoutingValues \cup {Unset}, edited = [cfg EXCEPT !.routing = routing]
      PROVE  edited \in Config
  BY <1>3 DEF Config
<1>4. ASSUME NEW old \in KeyNames \cup {NoKey}, NEW entry \in APIKey,
             edited = upsertKey(cfg, old, entry)
      PROVE  edited \in Config
  BY <1>4, removeKeyShape, SetKeyShape DEF upsertKey
<1>5. ASSUME NEW key \in KeyNames, edited = removeKey(cfg, key)
      PROVE  edited \in Config
  BY <1>5, removeKeyShape
<1> QED
  BY <1>1, <1>2, <1>3, <1>4, <1>5 DEF IsEdit

(* What a request does to the keys: nothing, an upsert or a delete. *)
KeyChange(cfg, edited, op) ==
    \/ op = KeepsKeys(op.kind) /\ edited.keys = cfg.keys
    \/ \E old \in KeyNames \cup {NoKey}, entry \in APIKey :
          op = Upserts(old, entry) /\ edited = upsertKey(cfg, old, entry)
    \/ \E key \in KeyNames : op = Deletes(key) /\ edited = removeKey(cfg, key)

LEMMA OpTypes ==
    /\ \A kind \in {"model", "routing", "key", "seed"} :
           KeepsKeys(kind) \in Op /\ KeepsKeys(kind).kind = kind
    /\ \A old \in KeyNames \cup {NoKey}, entry \in APIKey :
           Upserts(old, entry) \in Op /\ Upserts(old, entry).kind = "key"
    /\ \A key \in KeyNames : Deletes(key) \in Op /\ Deletes(key).kind = "key"
<1>1. ASSUME NEW old \in KeyNames \cup {NoKey}, NEW entry \in APIKey
      PROVE  Upserts(old, entry) \in Op /\ Upserts(old, entry).kind = "key"
  <2>1. entry.key \in KeyNames
    BY DEF APIKey
  <2> QED
    BY <2>1 DEF Upserts, Op
<1> QED
  BY <1>1 DEF KeepsKeys, Deletes, Op

(* The handlers save one edit of the snapshot; those of keys leave the models  *)
(* and the routing alone.                                                      *)
LEMMA RequestShape ==
    ASSUME StoreTypes, NEW s \in Admins, Request(s)
    PROVE  \E edited \in Config, op \in Op :
               /\ saver' = [saver EXCEPT ![s] = Saving(edited, op)]
               /\ UNCHANGED <<file, tmp, global, lbCfg, unread, removed>>
               /\ IsEdit(global, edited) /\ KeyChange(global, edited, op)
               /\ op.kind \in {"model", "routing", "key"}
               /\ op.kind = "key" => edited.tiers = global.tiers /\ edited.routing = global.routing
<1> DEFINE Goal(edited, op) ==
               /\ saver' = [saver EXCEPT ![s] = Saving(edited, op)]
               /\ UNCHANGED <<file, tmp, global, lbCfg, unread, removed>>
               /\ IsEdit(global, edited) /\ KeyChange(global, edited, op)
               /\ op.kind \in {"model", "routing", "key"}
               /\ op.kind = "key" => edited.tiers = global.tiers /\ edited.routing = global.routing
<1> SUFFICES \E edited \in Config, op \in Op : Goal(edited, op)
  OBVIOUS
<1>1. global \in Config
  BY DEF Request, StoreTypes, TypeOK
<1>2. ASSUME NEW edited, NEW op \in Op, Begin(s, edited, op),
             IsEdit(global, edited), KeyChange(global, edited, op),
             op.kind \in {"model", "routing", "key"},
             op.kind = "key" => edited.tiers = global.tiers /\ edited.routing = global.routing
      PROVE  \E e \in Config, o \in Op : Goal(e, o)
  <2>1. Goal(edited, op)
    BY <1>2 DEF Begin, histories
  <2> HIDE DEF Goal
  <2>2. edited \in Config
    BY <1>1, <1>2, EditType
  <2> QED
    BY <2>1, <2>2
<1>3. ASSUME NEW edited, NEW kind \in {"model", "routing"},
             Begin(s, edited, KeepsKeys(kind)), IsEdit(global, edited), edited.keys = global.keys
      PROVE  \E e \in Config, o \in Op : Goal(e, o)
  <2>1. KeepsKeys(kind) \in Op /\ KeepsKeys(kind).kind = kind
    BY OpTypes
  <2>2. KeyChange(global, edited, KeepsKeys(kind))
    BY <1>3, <2>1 DEF KeyChange
  <2> HIDE DEF Goal
  <2> QED
    BY <1>2, <1>3, <2>1, <2>2
<1> HIDE DEF Goal
<1>4. CASE CreateModel(s)
  <2>1. PICK tier \in Tier, name \in Names :
            /\ ~HasModel(global, tier, name)
            /\ Begin(s, AddModel(global, tier, name), KeepsKeys("model"))
    BY <1>4 DEF CreateModel
  <2>2. IsEdit(global, AddModel(global, tier, name))
    BY <2>1 DEF IsEdit
  <2> QED
    BY <1>1, <1>3, <2>1, <2>2, ModelEditTypes
<1>5. CASE UpdateModel(s)
  <2>1. PICK oldTier \in Tier, tier \in Tier, oldName \in Names, name \in Names :
            /\ HasModel(global, oldTier, oldName)
            /\ Begin(s, AddModel(removeModel(global, oldTier, oldName), tier, name),
                     KeepsKeys("model"))
    BY <1>5 DEF UpdateModel
  <2> DEFINE rest == removeModel(global, oldTier, oldName)
  <2>2. IsEdit(global, AddModel(rest, tier, name))
    BY <2>1 DEF IsEdit
  <2>3. rest \in Config /\ rest.keys = global.keys
    BY <1>1, ModelEditTypes
  <2>4. Begin(s, AddModel(rest, tier, name), KeepsKeys("model"))
    BY <2>1
  <2> HIDE DEF rest
  <2>5. AddModel(rest, tier, name).keys = global.keys
    BY <2>3, ModelEditTypes
  <2> QED
    BY <1>3, <2>2, <2>4, <2>5
<1>6. CASE DeleteModel(s)
  <2>1. PICK tier \in Tier, name \in Names :
            /\ HasModel(global, tier, name)
            /\ Begin(s, removeModel(global, tier, name), KeepsKeys("model"))
    BY <1>6 DEF DeleteModel
  <2>2. IsEdit(global, removeModel(global, tier, name))
    BY <2>1 DEF IsEdit
  <2> QED
    BY <1>1, <1>3, <2>1, <2>2, ModelEditTypes
<1>7. CASE UpdateRouting(s)
  <2>1. PICK routing \in RoutingValues \cup {Unset} :
            Begin(s, [global EXCEPT !.routing = routing], KeepsKeys("routing"))
    BY <1>7 DEF UpdateRouting
  <2>2. IsEdit(global, [global EXCEPT !.routing = routing])
    BY <2>1 DEF IsEdit
  <2>3. [global EXCEPT !.routing = routing].keys = global.keys
    BY <1>1 DEF Config
  <2> QED
    BY <1>3, <2>1, <2>2, <2>3
<1>8. CASE UpsertKey(s)
  <2>1. PICK old \in KeyNames \cup {NoKey}, entry \in APIKey :
            Begin(s, upsertKey(global, old, entry), Upserts(old, entry))
    BY <1>8 DEF UpsertKey
  <2>2. /\ upsertKey(global, old, entry).tiers = global.tiers
        /\ upsertKey(global, old, entry).routing = global.routing
    BY <1>1, removeKeyShape DEF upsertKey, SetKey, removeKey, Config
  <2>3. IsEdit(global, upsertKey(global, old, entry))
    BY DEF IsEdit
  <2>4. KeyChange(global, upsertKey(global, old, entry), Upserts(old, entry))
    BY DEF KeyChange
  <2> QED
    BY <1>2, <2>1, <2>2, <2>3, <2>4, OpTypes
<1>9. CASE DeleteKey(s)
  <2>1. PICK key \in KeyNames :
            HasKey(global, key) /\ Begin(s, removeKey(global, key), Deletes(key))
    BY <1>9 DEF DeleteKey
  <2>2. /\ removeKey(global, key).tiers = global.tiers
        /\ removeKey(global, key).routing = global.routing
    BY <1>1 DEF removeKey, Config
  <2>3. IsEdit(global, removeKey(global, key))
    BY <2>1 DEF IsEdit
  <2>4. KeyChange(global, removeKey(global, key), Deletes(key))
    BY DEF KeyChange
  <2> QED
    BY <1>2, <2>1, <2>2, <2>3, <2>4, OpTypes
<1> QED
  BY <1>4, <1>5, <1>6, <1>7, <1>8, <1>9 DEF Request

LEMMA OverwrittenType ==
    ASSUME NEW content \in Content, NEW cfg \in Config, NEW whole \in BOOLEAN,
           NEW written \in Overwritten(content, cfg, whole)
    PROVE  written \in Content
  BY DEF Overwritten, Content

(* The steps of a save, by what they do to the saver's record. *)
LEMMA SaveTypes ==
    ASSUME StoreTypes, NEW s \in Savers, Save(s)
    PROVE  StoreTypes'
<1>1. /\ file \in Content /\ tmp \in Content
      /\ global \in Config \cup {NoConfig} /\ lbCfg \in Config \cup {NoConfig}
      /\ saver \in [Savers -> Saver]
      /\ saver[s] \in Saver
      /\ unread \in BOOLEAN /\ removed \subseteq KeyNames
  BY DEF StoreTypes, TypeOK
<1>2. saver[s].phase # "idle"
  BY DEF Save, Open, Write, WriteFails, Rename, RenameFails, Swap, Reload, Answer
<1>3. global \in Config
  BY <1>1, <1>2, IdleType DEF StoreTypes, TypeOK
<1>4. saver[s].phase # "done" => saver[s].cfg \in Config
  BY <1>2 DEF StoreTypes
<1>5. Absent \in Content /\ Empty \in Content
  BY DEF Content
<1> DEFINE historyTypes == unread' \in BOOLEAN /\ removed' \subseteq KeyNames
<1>16. historyTypes
  <2>1. saver[s].op \in Op
    BY <1>1 DEF Saver
  <2>2. saver[s].op.revoked \subseteq KeyNames
    BY <2>1 DEF Op
  <2>3. unread' \in {unread, FALSE} /\ removed' \subseteq removed \cup saver[s].op.revoked
    BY DEF Save, Open, Write, WriteFails, Rename, RenameFails, Swap, Reload, Answer, histories
  <2> QED
    BY <1>1, <2>2, <2>3
<1>6. ASSUME NEW whole \in BOOLEAN, Writes(s, whole), saver[s].phase = "writing"
      PROVE  file' \in Content /\ tmp' \in Content
  BY <1>1, <1>4, <1>6, OverwrittenType DEF Writes
<1> DEFINE finished(ok) == [saver[s] EXCEPT !.phase = "done", !.ok = ok, !.fd = "none"]
<1>7. ASSUME NEW ok \in BOOLEAN, Finish(s, ok), historyTypes, file' \in Content, tmp' \in Content,
             global' \in Config, lbCfg' \in Config \cup {NoConfig}
      PROVE  StoreTypes'
  <2>1. finished(ok) \in Saver /\ finished(ok).phase = "done"
    BY <1>1 DEF Saver, Phase
  <2>2. saver' = [saver EXCEPT ![s] = finished(ok)]
    BY <1>1, <1>7 DEF Finish
  <2> QED
    BY <1>7, <2>1, <2>2, OneRecordTypes
<1>8. CASE Open(s)
  <2> DEFINE rec == [saver[s] EXCEPT !.phase = "writing", !.fd = "tmp"]
  <2>1. rec \in Saver /\ rec.cfg = saver[s].cfg
    BY <1>1 DEF Saver, Phase
  <2>2. saver' = [saver EXCEPT ![s] = rec]
    BY <1>1, <1>8 DEF Open
  <2> QED
    BY <1>1, <1>3, <1>4, <1>5, <1>8, <1>16, <2>1, <2>2, OneRecordTypes DEF Open
<1>9. CASE Write(s)
  <2> DEFINE rec == [saver[s] EXCEPT !.phase = "renaming", !.fd = "none"]
  <2>1. rec \in Saver /\ rec.cfg = saver[s].cfg
    BY <1>1 DEF Saver, Phase
  <2>2. saver' = [saver EXCEPT ![s] = rec]
    BY <1>1, <1>9 DEF Write
  <2>3. file' \in Content /\ tmp' \in Content
    BY <1>6, <1>9 DEF Write
  <2> QED
    BY <1>1, <1>3, <1>4, <1>9, <1>16, <2>1, <2>2, <2>3, OneRecordTypes DEF Write
<1>10. CASE WriteFails(s)
  <2>1. Finish(s, FALSE) /\ UNCHANGED <<global, lbCfg>>
    BY <1>10 DEF WriteFails
  <2>2. file' \in Content /\ tmp' \in Content
    BY <1>1, <1>6, <1>10 DEF WriteFails
  <2> QED
    BY <1>1, <1>3, <1>7, <1>16, <2>1, <2>2
<1>11. CASE Rename(s)
  <2>1. ASSUME NEW t \in Savers
        PROVE  /\ saver'[t] \in Saver
               /\ saver'[t].phase \notin {"idle", "done"} => saver'[t].cfg \in Config
    <3>1. saver[t] \in Saver
      BY <1>1
    <3>2. CASE t = s
      <4>1. saver'[t] = [saver[s] EXCEPT !.phase = "swapping"]
        BY <1>11, <3>2 DEF Rename
      <4> QED
        BY <1>4, <1>11, <3>1, <3>2, <4>1 DEF Saver, Phase, Rename
    <3>3. CASE t # s
      <4>1. saver'[t] = [saver[t] EXCEPT !.fd = Renamed(saver[t].fd)]
        BY <1>11, <3>3 DEF Rename
      <4>2. Renamed(saver[t].fd) \in {"none", "file", "gone"}
        BY <3>1 DEF Saver, Renamed
      <4> QED
        BY <3>1, <4>1, <4>2 DEF Saver, StoreTypes
    <3> QED
      BY <3>2, <3>3
  <2>2. saver' \in [Savers -> Saver]
    BY <1>11, <2>1 DEF Rename
  <2>3. file' \in Content /\ tmp' \in Content /\ UNCHANGED <<global, lbCfg>>
    BY <1>1, <1>5, <1>11 DEF Rename
  <2> QED
    BY <1>1, <1>3, <1>16, <2>1, <2>2, <2>3, StoreAssumption DEF StoreTypes, TypeOK
<1>12. CASE RenameFails(s)
  BY <1>1, <1>3, <1>7, <1>12, <1>16 DEF RenameFails
<1>13. CASE Swap(s)
  <2> DEFINE rec == [saver[s] EXCEPT !.phase = "reloading"]
  <2>1. global' = saver[s].cfg /\ UNCHANGED <<file, tmp, lbCfg>> /\ saver[s].cfg \in Config
    BY <1>4, <1>13 DEF Swap
  <2>2. CASE Finish(s, TRUE)
    BY <1>1, <1>7, <1>16, <2>1, <2>2
  <2>3. CASE Step(s, "reloading")
    <3>1. rec \in Saver /\ rec.cfg = saver[s].cfg
      BY <1>1 DEF Saver, Phase
    <3>2. saver' = [saver EXCEPT ![s] = rec]
      BY <1>1, <2>3 DEF Step
    <3> QED
      BY <1>1, <1>16, <2>1, <3>1, <3>2, OneRecordTypes
  <2> QED
    BY <1>13, <2>2, <2>3 DEF Swap
<1>14. CASE Reload(s)
  BY <1>1, <1>3, <1>4, <1>7, <1>14, <1>16 DEF Reload
<1>15. CASE Answer(s)
  BY <1>1, <1>3, <1>15, <1>16, IdleType, OneRecordTypes DEF Answer
<1> QED
  BY <1>8, <1>9, <1>10, <1>11, <1>12, <1>13, <1>14, <1>15 DEF Save

LEMMA StoreTypesStep == StoreTypes /\ [StoreNext]_storeVars => StoreTypes'
<1> SUFFICES ASSUME StoreTypes, [StoreNext]_storeVars
             PROVE  StoreTypes'
  OBVIOUS
<1>1. /\ file \in Content /\ tmp \in Content
      /\ global \in Config \cup {NoConfig} /\ lbCfg \in Config \cup {NoConfig}
      /\ saver \in [Savers -> Saver] /\ Boot \in Savers
      /\ unread \in BOOLEAN /\ removed \subseteq KeyNames
  BY DEF StoreTypes, TypeOK, Savers
<1>2. CASE Start
  <2>1. PICK read \in {Loaded(file), Blank} :
            /\ unread' = (read # Loaded(file))
            /\ global' = Booted(read)
            /\ IF read.admin
               THEN lbCfg' = global' /\ UNCHANGED saver
               ELSE /\ saver' = [saver EXCEPT ![Boot] = Saving(global', KeepsKeys("seed"))]
                    /\ UNCHANGED lbCfg
            /\ UNCHANGED <<file, tmp, removed>>
    BY <1>2 DEF Start
  <2> DEFINE rec == Saving(Booted(read), KeepsKeys("seed"))
  <2>2. global' \in Config
    BY <1>1, <2>1, LoadedType, BlankType, BootedType
  <2>3. CASE lbCfg' = global' /\ UNCHANGED saver
    BY <1>1, <2>1, <2>2, <2>3, StoreAssumption DEF StoreTypes, TypeOK
  <2>4. CASE saver' = [saver EXCEPT ![Boot] = rec] /\ UNCHANGED lbCfg
    <3>1. rec \in Saver /\ rec.cfg \in Config
      BY <2>1, <2>2, OpTypes DEF Saving, Saver, Phase
    <3> QED
      BY <1>1, <2>1, <2>2, <2>4, <3>1, OneRecordTypes
  <2> QED
    BY <2>1, <2>3, <2>4
<1>3. CASE Serve
  <2>1. global \in Config
    BY <1>1, <1>3, IdleType DEF Serve, StoreTypes, TypeOK
  <2> QED
    BY <1>1, <1>3, <2>1, IdleType, OneRecordTypes DEF Serve, histories
<1>4. CASE Crash
  <2>1. saver' \in [Savers -> Saver] /\ \A s \in Savers : saver'[s] = Idle
    BY <1>4, IdleType DEF Crash
  <2> QED
    BY <1>1, <1>4, <2>1, IdleType DEF Crash, StoreTypes, TypeOK, up
<1>5. ASSUME NEW s \in Admins, Request(s)
      PROVE  StoreTypes'
  <2>1. PICK edited \in Config, op \in Op :
            /\ saver' = [saver EXCEPT ![s] = Saving(edited, op)]
            /\ UNCHANGED <<file, tmp, global, lbCfg, unread, removed>>
    BY <1>5, RequestShape
  <2>2. Saving(edited, op) \in Saver /\ Saving(edited, op).cfg \in Config
    BY DEF Saving, Saver, Phase
  <2>3. global \in Config /\ s \in Savers
    BY <1>1, <1>5 DEF Request, StoreTypes, Savers
  <2> QED
    BY <1>1, <2>1, <2>2, <2>3, OneRecordTypes
<1>6. ASSUME NEW s \in Savers, Save(s)
      PROVE  StoreTypes'
  BY <1>6, SaveTypes
<1>7. CASE UNCHANGED storeVars
  BY <1>7 DEF storeVars, StoreTypes, TypeOK, up
<1> QED
  BY <1>2, <1>3, <1>4, <1>5, <1>6, <1>7 DEF StoreNext

LEMMA StoreInitTypes == StoreInit => StoreTypes
<1> SUFFICES ASSUME StoreInit
             PROVE  StoreTypes
  OBVIOUS
<1>1. file \in Content /\ tmp \in Content
  BY StoreAssumption DEF StoreInit, Content
<1>2. saver \in [Savers -> Saver] /\ \A s \in Savers : saver[s] = Idle
  BY IdleType DEF StoreInit
<1> QED
  BY <1>1, <1>2, IdleType DEF StoreInit, StoreTypes, TypeOK, up

LEMMA StoreTypesInvariant == StoreSpec => []StoreTypes
<1> QED
  BY StoreInitTypes, StoreTypesStep, PTL DEF StoreSpec

(* Whatever is on disk, in memory or in a saver's hands is a configuration, or *)
(* a file that loads as none (an interrupted or overwritten write), for any    *)
(* number of admins.                                                           *)
THEOREM StoreTypeInvariant == StoreSpec => []TypeOK
<1>1. StoreTypes => TypeOK
  BY DEF StoreTypes
<1> QED
  BY <1>1, StoreTypesInvariant, PTL

-----------------------------------------------------------------------------
(* One admin. *)

OneAdmin == \A a, b \in Admins : a = b

(* There is one save at a time: the first one comes before the server is up. *)
OneSaver ==
    /\ \A s, t \in Savers : saver[s] # Idle /\ saver[t] # Idle => s = t
    /\ saver[Boot] # Idle => ~up

Before == {"saving", "writing", "renaming"}      \* the file is not replaced yet

(* What each phase of a save has achieved. *)
SaveShape(s) ==
    LET phase == saver[s].phase
        cfg == saver[s].cfg
        stored == phase \in {"swapping", "reloading"} \/ Acknowledged(s)
    IN  /\ phase = "idle" => saver[s] = Idle
        /\ phase = "writing" => saver[s].fd = "tmp" /\ tmp = Empty
        /\ phase # "writing" => saver[s].fd = "none"
        /\ phase = "renaming" => tmp = cfg
        /\ stored => file = cfg /\ ~unread
        /\ stored /\ phase # "swapping" => global = cfg
        /\ Acknowledged(s) /\ saver[s].op.kind \in {"model", "routing"} => lbCfg = cfg
        /\ saver[s] # Idle => (saver[s].op.kind = "seed" <=> s = Boot)
        /\ phase = "reloading" => s # Boot

(* What a save changes: a start adds an admin to what it has read, a request   *)
(* makes one edit of the snapshot, and those of keys leave the routing alone.  *)
ChangeShape(s) ==
    LET cfg == saver[s].cfg
    IN  saver[s].phase \in Before \cup {"swapping"} =>
            IF s = Boot
            THEN /\ cfg = global
                 /\ saver[s].phase \in Before =>
                        ~Known.admin /\ cfg = Booted(Known)
            ELSE /\ IsEdit(global, cfg)
                 /\ saver[s].op.kind = "key" => /\ cfg.tiers = global.tiers
                                               /\ cfg.routing = global.routing

(* Memory holds what is known of the file, but between rename and swap; and    *)
(* the load balancer follows, but between the swap and its reload.             *)
MemoryShape ==
    /\ global # NoConfig /\ (\A s \in Savers : saver[s].phase # "swapping") =>
           global \in {Known, Booted(Known)}
    /\ up /\ (\A s \in Savers : saver[s].phase # "reloading") =>
           lbCfg.tiers = global.tiers /\ lbCfg.routing = global.routing

StoreInv == /\ StoreTypes /\ OneSaver /\ MemoryShape
            /\ \A s \in Savers : SaveShape(s) /\ ChangeShape(s)

(* What the invariant says while s saves: nobody else does. *)
LEMMA SavingAlone ==
    ASSUME StoreInv, NEW s \in Savers, saver[s].phase # "idle"
    PROVE  /\ \A t \in Savers \ {s} : saver[t] = Idle
           /\ saver \in [Savers -> Saver] /\ saver[s] \in Saver
           /\ global \in Config /\ lbCfg \in Config \cup {NoConfig}
           /\ saver[s].phase # "done" => saver[s].cfg \in Config
           /\ SaveShape(s) /\ ChangeShape(s)
           /\ saver[s].phase # "swapping" => global \in {Known, Booted(Known)}
           /\ up /\ saver[s].phase # "reloading" =>
                  lbCfg.tiers = global.tiers /\ lbCfg.routing = global.routing
           /\ s = Boot => ~up
<1>1. /\ saver \in [Savers -> Saver]
      /\ global \in Config \cup {NoConfig} /\ lbCfg \in Config \cup {NoConfig}
      /\ global = NoConfig => saver[s] = Idle
  BY DEF StoreInv, StoreTypes, TypeOK
<1>2. saver[s] # Idle
  BY IdleType
<1>3. \A t \in Savers \ {s} : saver[t] = Idle
  BY <1>2 DEF StoreInv, OneSaver
<1>4. \A t \in Savers : t # s => saver[t].phase = "idle"
  BY <1>3, IdleType
<1> QED
  BY <1>1, <1>2, <1>3, <1>4, StoreAssumption DEF StoreInv, StoreTypes, OneSaver, MemoryShape

(* A step that gives the only saver its new record keeps the invariant, if it  *)
(* does so for this saver.                                                     *)
LEMMA OneRecordInv ==
    ASSUME StoreInv, StoreTypes', NEW s \in Savers, NEW rec,
           saver' = [saver EXCEPT ![s] = rec],
           \A t \in Savers \ {s} : saver[t] = Idle,
           s = Boot /\ rec # Idle => ~up',
           SaveShape(s)', ChangeShape(s)',
           rec.phase # "swapping" => global' \in {Known', Booted(Known')},
           up' /\ rec.phase # "reloading" =>
               lbCfg'.tiers = global'.tiers /\ lbCfg'.routing = global'.routing
    PROVE  StoreInv'
<1>1. saver \in [Savers -> Saver]
  BY DEF StoreInv, StoreTypes, TypeOK
<1>2. /\ saver'[s] = rec
      /\ \A t \in Savers \ {s} : saver'[t] = Idle
  BY <1>1
<1>3. ASSUME NEW t \in Savers, t # s
      PROVE  SaveShape(t)' /\ ChangeShape(t)'
  <2>1. saver'[t] = Idle
    BY <1>2, <1>3
  <2> QED
    BY <2>1 DEF SaveShape, ChangeShape, Acknowledged, Idle, Before
<1>4. OneSaver'
  <2>1. \A t \in Savers : saver'[t] # Idle => t = s
    BY <1>2
  <2>2. saver'[Boot] # Idle => ~up'
    BY <1>2, <2>1 DEF Savers
  <2> QED
    BY <2>1, <2>2 DEF OneSaver
<1>5. MemoryShape'
  BY <1>2 DEF MemoryShape
<1> QED
  BY <1>3, <1>4, <1>5 DEF StoreInv

(* A save that ends without success leaves disk and memory as they are; the    *)
(* .tmp, in whatever state, is nobody's.                                       *)
LEMMA FailInv ==
    ASSUME StoreInv, StoreTypes', NEW s \in Savers, saver[s].phase \in Before,
           Finish(s, FALSE), UNCHANGED <<file, global, lbCfg, unread>>
    PROVE  StoreInv'
<1> DEFINE rec == [saver[s] EXCEPT !.phase = "done", !.ok = FALSE, !.fd = "none"]
<1>1. /\ saver \in [Savers -> Saver] /\ saver[s] \in Saver
      /\ \A t \in Savers \ {s} : saver[t] = Idle
      /\ SaveShape(s)
      /\ global \in {Known, Booted(Known)}
      /\ up => lbCfg.tiers = global.tiers /\ lbCfg.routing = global.routing
      /\ s = Boot => ~up
  BY SavingAlone DEF Before
<1>2. saver' = [saver EXCEPT ![s] = rec]
  BY <1>1 DEF Finish
<1>3. /\ rec.phase = "done" /\ ~rec.ok /\ rec.fd = "none"
      /\ rec.op = saver[s].op /\ saver[s] # Idle
  BY <1>1, IdleType DEF Saver, Before
<1>4. saver'[s] = rec
  BY <1>1, <1>2
<1> HIDE DEF rec
<1>5. SaveShape(s)'
  BY <1>1, <1>3, <1>4 DEF SaveShape, Acknowledged
<1>6. ChangeShape(s)'
  BY <1>3, <1>4 DEF ChangeShape, Before
<1>7. Known' = Known
  BY DEF Known
<1> QED
  BY <1>1, <1>2, <1>3, <1>5, <1>6, <1>7, OneRecordInv DEF up

LEMMA OpenInv ==
    ASSUME StoreInv, StoreTypes', NEW s \in Savers, Open(s)
    PROVE  StoreInv'
<1> DEFINE rec == [saver[s] EXCEPT !.phase = "writing", !.fd = "tmp"]
<1>1. /\ saver \in [Savers -> Saver] /\ saver[s] \in Saver
      /\ \A t \in Savers \ {s} : saver[t] = Idle
      /\ SaveShape(s) /\ ChangeShape(s) /\ saver[s].phase = "saving"
      /\ global \in {Known, Booted(Known)}
      /\ up => lbCfg.tiers = global.tiers /\ lbCfg.routing = global.routing
      /\ s = Boot => ~up
  BY SavingAlone DEF Open
<1>2. saver' = [saver EXCEPT ![s] = rec] /\ tmp' = Empty /\ UNCHANGED <<file, global, lbCfg, unread>>
  BY <1>1 DEF Open, histories
<1>3. /\ rec.phase = "writing" /\ rec.fd = "tmp" /\ saver[s] # Idle
      /\ rec.op = saver[s].op /\ rec.cfg = saver[s].cfg
  BY <1>1, IdleType DEF Saver
<1>4. saver'[s] = rec
  BY <1>1, <1>2
<1> HIDE DEF rec
<1>5. SaveShape(s)'
  BY <1>1, <1>2, <1>3, <1>4 DEF SaveShape, Acknowledged
<1>6. Known' = Known
  BY <1>2 DEF Known
<1>7. ChangeShape(s)'
  BY <1>1, <1>2, <1>3, <1>4, <1>6 DEF ChangeShape, Before
<1> QED
  BY <1>1, <1>2, <1>3, <1>5, <1>6, <1>7, OneRecordInv DEF up

(* Only this saver's bytes go to the .tmp, which its open has truncated. *)
LEMMA WriteInv ==
    ASSUME StoreInv, StoreTypes', NEW s \in Savers, Write(s)
    PROVE  StoreInv'
<1> DEFINE rec == [saver[s] EXCEPT !.phase = "renaming", !.fd = "none"]
<1>1. /\ saver \in [Savers -> Saver] /\ saver[s] \in Saver
      /\ \A t \in Savers \ {s} : saver[t] = Idle
      /\ SaveShape(s) /\ ChangeShape(s) /\ saver[s].phase = "writing"
      /\ global \in {Known, Booted(Known)}
      /\ up => lbCfg.tiers = global.tiers /\ lbCfg.routing = global.routing
      /\ s = Boot => ~up
  BY SavingAlone DEF Write
<1>2. saver[s].fd = "tmp" /\ tmp = Empty
  BY <1>1 DEF SaveShape
<1>3. /\ saver' = [saver EXCEPT ![s] = rec]
      /\ tmp' = saver[s].cfg /\ UNCHANGED <<file, global, lbCfg, unread>>
  BY <1>1, <1>2 DEF Write, Writes, Overwritten, histories
<1>4. /\ rec.phase = "renaming" /\ rec.fd = "none" /\ saver[s] # Idle
      /\ rec.op = saver[s].op /\ rec.cfg = saver[s].cfg
  BY <1>1, IdleType DEF Saver
<1>5. saver'[s] = rec
  BY <1>1, <1>3
<1> HIDE DEF rec
<1>6. SaveShape(s)'
  BY <1>1, <1>3, <1>4, <1>5 DEF SaveShape, Acknowledged
<1>7. Known' = Known
  BY <1>3 DEF Known
<1>8. ChangeShape(s)'
  BY <1>1, <1>3, <1>4, <1>5, <1>7 DEF ChangeShape, Before
<1> QED
  BY <1>1, <1>3, <1>4, <1>6, <1>7, <1>8, OneRecordInv DEF up

(* The file becomes what is saved, as a whole. *)
LEMMA RenameInv ==
    ASSUME StoreInv, StoreTypes', NEW s \in Savers, Rename(s)
    PROVE  StoreInv' /\ file' = saver[s].cfg /\ ~unread'
<1> DEFINE rec == [saver[s] EXCEPT !.phase = "swapping"]
<1>1. /\ saver \in [Savers -> Saver] /\ saver[s] \in Saver
      /\ \A t \in Savers \ {s} : saver[t] = Idle
      /\ SaveShape(s) /\ ChangeShape(s) /\ saver[s].phase = "renaming"
      /\ up => lbCfg.tiers = global.tiers /\ lbCfg.routing = global.routing
      /\ s = Boot => ~up
  BY SavingAlone DEF Rename
<1>2. [Idle EXCEPT !.fd = Renamed(Idle.fd)] = Idle
  <2>1. Renamed("none") = "none"
    BY DEF Renamed
  <2>2. Idle.fd = "none"
    BY DEF Idle
  <2> QED
    BY <2>1, <2>2, IdleType DEF Saver
<1>3. saver' = [t \in Savers |-> IF t = s THEN rec ELSE Idle]
  <2>1. saver' = [t \in Savers |-> IF t = s THEN rec ELSE [saver[t] EXCEPT !.fd = Renamed(saver[t].fd)]]
    BY DEF Rename
  <2>2. \A t \in Savers \ {s} : [saver[t] EXCEPT !.fd = Renamed(saver[t].fd)] = Idle
    BY <1>1, <1>2
  <2> HIDE DEF rec
  <2> QED
    BY <2>1, <2>2
<1>4. saver' = [saver EXCEPT ![s] = rec]
  <2> HIDE DEF rec
  <2> QED
    BY <1>1, <1>3
<1>5. file' = saver[s].cfg /\ ~unread' /\ UNCHANGED <<global, lbCfg>>
  BY <1>1 DEF Rename, SaveShape
<1>6. /\ rec.phase = "swapping" /\ rec.fd = "none" /\ saver[s] # Idle
      /\ rec.op = saver[s].op /\ rec.cfg = saver[s].cfg
  BY <1>1, IdleType DEF Saver, SaveShape
<1>7. saver'[s] = rec
  BY <1>3
<1> HIDE DEF rec
<1>8. SaveShape(s)'
  BY <1>1, <1>5, <1>6, <1>7 DEF SaveShape, Acknowledged
<1>9. ChangeShape(s)'
  BY <1>1, <1>5, <1>6, <1>7 DEF ChangeShape, Before
<1> QED
  BY <1>1, <1>4, <1>5, <1>6, <1>8, <1>9, OneRecordInv DEF up

(* The snapshot follows the file; a key's save ends here, and needs no reload. *)
LEMMA SwapInv ==
    ASSUME StoreInv, StoreTypes', NEW s \in Savers, Swap(s)
    PROVE  StoreInv'
<1> DEFINE reloads == saver[s].op.kind \in {"model", "routing"}
           rec == IF reloads THEN [saver[s] EXCEPT !.phase = "reloading"]
                  ELSE [saver[s] EXCEPT !.phase = "done", !.ok = TRUE, !.fd = "none"]
<1>1. /\ saver \in [Savers -> Saver] /\ saver[s] \in Saver
      /\ \A t \in Savers \ {s} : saver[t] = Idle
      /\ SaveShape(s) /\ ChangeShape(s) /\ saver[s].phase = "swapping"
      /\ up => lbCfg.tiers = global.tiers /\ lbCfg.routing = global.routing
      /\ s = Boot => ~up
      /\ saver[s].cfg \in Config
  BY SavingAlone DEF Swap
<1>2. saver' = [saver EXCEPT ![s] = rec]
  BY <1>1 DEF Swap, Step, Finish
<1>3. /\ global' = saver[s].cfg /\ file = saver[s].cfg
      /\ ~unread /\ UNCHANGED <<file, lbCfg, unread>>
  BY <1>1 DEF Swap, SaveShape
<1>4. /\ rec.phase = IF reloads THEN "reloading" ELSE "done"
      /\ rec.fd = "none" /\ saver[s] # Idle
      /\ rec.op = saver[s].op /\ rec.cfg = saver[s].cfg
  BY <1>1, IdleType DEF Saver, SaveShape
<1>5. saver'[s] = rec
  BY <1>1, <1>2
<1> HIDE DEF rec
<1>6. SaveShape(s)'
  BY <1>1, <1>3, <1>4, <1>5 DEF SaveShape, Acknowledged
<1>7. ChangeShape(s)'
  BY <1>4, <1>5 DEF ChangeShape, Before
<1>8. Known' = saver[s].cfg
  BY <1>1, <1>3, StoreAssumption DEF Known, Loaded
<1>9. saver[s].op.kind \in {"model", "routing", "key", "seed"}
  BY <1>1 DEF Saver, Op
<1>10. up /\ rec.phase # "reloading" =>
          lbCfg.tiers = saver[s].cfg.tiers /\ lbCfg.routing = saver[s].cfg.routing
  BY <1>1, <1>4, <1>9 DEF SaveShape, ChangeShape
<1> QED
  BY <1>1, <1>2, <1>3, <1>6, <1>7, <1>8, <1>10, OneRecordInv DEF up

LEMMA ReloadInv ==
    ASSUME StoreInv, StoreTypes', NEW s \in Savers, Reload(s)
    PROVE  StoreInv'
<1> DEFINE rec == [saver[s] EXCEPT !.phase = "done", !.ok = TRUE, !.fd = "none"]
<1>1. /\ saver \in [Savers -> Saver] /\ saver[s] \in Saver
      /\ \A t \in Savers \ {s} : saver[t] = Idle
      /\ SaveShape(s) /\ saver[s].phase = "reloading"
      /\ global \in {Known, Booted(Known)}
  BY SavingAlone DEF Reload
<1>2. saver' = [saver EXCEPT ![s] = rec]
  BY <1>1 DEF Reload, Finish
<1>3. /\ lbCfg' = saver[s].cfg /\ global = saver[s].cfg /\ file = saver[s].cfg
      /\ ~unread /\ UNCHANGED <<file, global, unread>>
  BY <1>1 DEF Reload, SaveShape, histories
<1>4. /\ rec.phase = "done" /\ rec.fd = "none" /\ saver[s] # Idle
      /\ rec.op = saver[s].op /\ rec.cfg = saver[s].cfg
  BY <1>1, IdleType DEF Saver
<1>5. saver'[s] = rec
  BY <1>1, <1>2
<1> HIDE DEF rec
<1>6. SaveShape(s)'
  BY <1>1, <1>3, <1>4, <1>5 DEF SaveShape, Acknowledged
<1>7. ChangeShape(s)'
  BY <1>4, <1>5 DEF ChangeShape, Before
<1>8. s # Boot
  BY <1>1, <1>4 DEF SaveShape
<1>9. Known' = Known
  BY <1>3 DEF Known
<1> QED
  BY <1>1, <1>2, <1>3, <1>4, <1>6, <1>7, <1>8, <1>9, OneRecordInv

(* The saver is idle again. *)
LEMMA IdleAgain ==
    ASSUME StoreInv, StoreTypes', NEW s \in Savers, saver[s].phase = "done",
           saver' = [saver EXCEPT ![s] = Idle], UNCHANGED <<file, global, unread>>,
           lbCfg' = IF s = Boot THEN global ELSE lbCfg
    PROVE  StoreInv'
<1>1. /\ \A t \in Savers \ {s} : saver[t] = Idle
      /\ saver \in [Savers -> Saver]
      /\ global \in {Known, Booted(Known)}
      /\ up => lbCfg.tiers = global.tiers /\ lbCfg.routing = global.routing
  BY SavingAlone
<1>2. saver'[s] = Idle
  BY <1>1
<1>3. SaveShape(s)' /\ ChangeShape(s)'
  BY <1>2 DEF SaveShape, ChangeShape, Acknowledged, Idle, Before
<1>4. up' => lbCfg'.tiers = global'.tiers /\ lbCfg'.routing = global'.routing
  BY <1>1 DEF up
<1>5. Known' = Known
  BY DEF Known
<1> QED
  BY <1>1, <1>3, <1>4, <1>5, OneRecordInv

(* A start takes up what it has read, with nobody saving yet. *)
LEMMA StartInv ==
    ASSUME StoreInv, StoreTypes', Start
    PROVE  StoreInv'
<1>1. /\ saver \in [Savers -> Saver]
      /\ \A t \in Savers : saver[t] = Idle
      /\ ~up /\ Boot \in Savers
  BY DEF Start, StoreInv, StoreTypes, TypeOK, Savers
<1>2. PICK read \in {Loaded(file), Blank} :
          /\ unread' = (read # Loaded(file))
          /\ global' = Booted(read)
          /\ IF read.admin
             THEN lbCfg' = global' /\ UNCHANGED saver
             ELSE /\ saver' = [saver EXCEPT ![Boot] = Saving(global', KeepsKeys("seed"))]
                  /\ UNCHANGED lbCfg
          /\ UNCHANGED <<file, tmp, removed>>
  BY DEF Start
<1>3. Known' = read
  BY <1>2 DEF Known
<1>4. CASE read.admin
  <2>1. lbCfg' = global' /\ saver' = saver
    BY <1>2, <1>4
  <2>2. saver' = [saver EXCEPT ![Boot] = Idle]
    BY <1>1, <2>1
  <2>3. saver'[Boot] = Idle
    BY <1>1, <2>1
  <2>4. SaveShape(Boot)' /\ ChangeShape(Boot)'
    BY <2>3 DEF SaveShape, ChangeShape, Acknowledged, Idle, Before
  <2> QED
    BY <1>1, <1>2, <1>3, <2>1, <2>2, <2>4, OneRecordInv
<1>5. CASE ~read.admin
  <2> DEFINE rec == Saving(global', KeepsKeys("seed"))
  <2>1. lbCfg' = lbCfg /\ saver' = [saver EXCEPT ![Boot] = rec]
    BY <1>2, <1>5
  <2>2. /\ rec.phase = "saving" /\ rec.cfg = global' /\ rec.op.kind = "seed"
        /\ rec.fd = "none" /\ ~rec.ok
    BY DEF Saving, KeepsKeys
  <2>3. saver'[Boot] = rec
    BY <1>1, <2>1
  <2> HIDE DEF rec
  <2>4. SaveShape(Boot)'
    BY <2>2, <2>3 DEF SaveShape, Acknowledged
  <2>5. ChangeShape(Boot)'
    BY <1>2, <1>3, <1>5, <2>2, <2>3 DEF ChangeShape, Before
  <2> QED
    BY <1>1, <1>2, <1>3, <2>1, <2>2, <2>4, <2>5, OneRecordInv DEF up
<1> QED
  BY <1>4, <1>5

LEMMA CrashInv ==
    ASSUME StoreInv, StoreTypes', Crash
    PROVE  StoreInv'
<1>1. global' = NoConfig /\ ~up' /\ \A s \in Savers : saver'[s] = Idle
  BY DEF Crash, up
<1>2. Boot \in Savers
  BY DEF Savers
<1>3. ASSUME NEW s \in Savers
      PROVE  SaveShape(s)' /\ ChangeShape(s)'
  <2>1. saver'[s] = Idle
    BY <1>1
  <2> QED
    BY <2>1 DEF SaveShape, ChangeShape, Acknowledged, Idle, Before
<1> QED
  BY <1>1, <1>2, <1>3 DEF StoreInv, OneSaver, MemoryShape

(* A request of the only admin begins once the start has ended. *)
LEMMA RequestInv ==
    ASSUME OneAdmin, StoreInv, StoreTypes', NEW s \in Admins, Request(s)
    PROVE  StoreInv'
<1>1. PICK edited \in Config, op \in Op :
          /\ saver' = [saver EXCEPT ![s] = Saving(edited, op)]
          /\ UNCHANGED <<file, tmp, global, lbCfg, unread, removed>>
          /\ IsEdit(global, edited)
          /\ op.kind \in {"model", "routing", "key"}
          /\ op.kind = "key" => edited.tiers = global.tiers /\ edited.routing = global.routing
  BY RequestShape DEF StoreInv
<1>2. s \in Savers /\ s # Boot /\ saver \in [Savers -> Saver]
  BY StoreAssumption DEF Savers, StoreInv, StoreTypes, TypeOK
<1>3. saver[Boot] = Idle /\ saver[s] = Idle
  BY <1>2 DEF StoreInv, OneSaver, Request, SaveShape
<1>4. \A t \in Savers : saver[t] = Idle
  BY <1>3 DEF Savers, OneAdmin
<1>5. /\ global \in {Known, Booted(Known)}
      /\ lbCfg.tiers = global.tiers /\ lbCfg.routing = global.routing
  BY <1>4, IdleType DEF StoreInv, StoreTypes, MemoryShape, Request
<1>6. Known' = Known
  BY <1>1 DEF Known
<1> DEFINE rec == Saving(edited, op)
<1>7. rec.phase = "saving" /\ rec.cfg = edited /\ rec.op = op /\ rec.fd = "none" /\ ~rec.ok
  BY DEF Saving
<1>8. saver' = [saver EXCEPT ![s] = rec]
  BY <1>1
<1>9. saver'[s] = rec
  BY <1>2, <1>8
<1> HIDE DEF rec
<1>10. SaveShape(s)'
  BY <1>1, <1>2, <1>7, <1>9 DEF SaveShape, Acknowledged
<1>11. ChangeShape(s)'
  BY <1>1, <1>2, <1>7, <1>9 DEF ChangeShape, Before
<1> QED
  BY <1>1, <1>2, <1>4, <1>5, <1>6, <1>7, <1>8, <1>10, <1>11, OneRecordInv DEF up

LEMMA SaveInv ==
    ASSUME StoreInv, StoreTypes', NEW s \in Savers, Save(s)
    PROVE  StoreInv'
<1>1. CASE WriteFails(s)
  <2>1. saver[s].phase \in Before /\ Finish(s, FALSE) /\ UNCHANGED <<global, lbCfg, unread>>
    BY <1>1 DEF WriteFails, Before, histories
  <2>2. saver[s].phase = "writing" => saver[s].fd = "tmp"
    BY DEF StoreInv, SaveShape
  <2>3. UNCHANGED file
    BY <1>1, <2>2 DEF WriteFails, Writes
  <2> QED
    BY <2>1, <2>3, FailInv
<1>2. CASE RenameFails(s)
  BY <1>2, FailInv DEF RenameFails, Before, histories
<1>3. CASE Answer(s)
  <2>1. s # Boot
    BY <1>3, StoreAssumption DEF Answer
  <2> QED
    BY <1>3, <2>1, IdleAgain DEF Answer, histories
<1> QED
  BY <1>1, <1>2, <1>3, OpenInv, WriteInv, RenameInv, SwapInv, ReloadInv DEF Save

LEMMA StoreInvStep ==
    ASSUME OneAdmin, StoreInv, [StoreNext]_storeVars
    PROVE  StoreInv'
<1>1. StoreTypes'
  BY StoreTypesStep DEF StoreInv
<1>2. CASE Start
  BY <1>1, <1>2, StartInv
<1>3. CASE Serve
  <2>1. Boot \in Savers
    BY DEF Savers
  <2> QED
    BY <1>1, <1>3, <2>1, IdleAgain DEF Serve, histories
<1>4. CASE Crash
  BY <1>1, <1>4, CrashInv
<1>5. ASSUME NEW s \in Admins, Request(s)
      PROVE  StoreInv'
  BY <1>1, <1>5, RequestInv
<1>6. ASSUME NEW s \in Savers, Save(s)
      PROVE  StoreInv'
  BY <1>1, <1>6, SaveInv
<1>7. CASE UNCHANGED storeVars
  BY <1>1, <1>7 DEF storeVars, StoreInv, OneSaver, MemoryShape, SaveShape, ChangeShape,
                    Acknowledged, Known, up
<1> QED
  BY <1>2, <1>3, <1>4, <1>5, <1>6, <1>7 DEF StoreNext

LEMMA StoreInvariant ==
    ASSUME OneAdmin
    PROVE  StoreSpec => []StoreInv
<1>1. StoreInit => StoreInv
  <2> SUFFICES ASSUME StoreInit
               PROVE  StoreInv
    OBVIOUS
  <2>1. StoreTypes
    BY StoreInitTypes
  <2>2. global = NoConfig /\ ~up /\ Boot \in Savers /\ \A s \in Savers : saver[s] = Idle
    BY DEF StoreInit, up, Savers
  <2>3. ASSUME NEW s \in Savers
        PROVE  SaveShape(s) /\ ChangeShape(s)
    <3>1. saver[s] = Idle
      BY <2>2
    <3> QED
      BY <3>1 DEF SaveShape, ChangeShape, Acknowledged, Idle, Before
  <2> QED
    BY <2>1, <2>2, <2>3 DEF StoreInv, OneSaver, MemoryShape
<1>2. StoreInv /\ [StoreNext]_storeVars => StoreInv'
  BY StoreInvStep
<1> QED
  BY <1>1, <1>2, PTL DEF StoreSpec

(* A change that was answered with 200 is on disk and in force.                *)
THEOREM ChangesAreStored ==
    ASSUME OneAdmin
    PROVE  StoreSpec => []AckedIsStored
<1>1. StoreInv => AckedIsStored
  BY DEF StoreInv, SaveShape, AckedIsStored, Acknowledged
<1> QED
  BY <1>1, StoreInvariant, PTL

(* Between requests the snapshots agree with what is known of the file: its    *)
(* contents, or nothing since a start that could not read it.                  *)
THEOREM MemoryFollowsFile ==
    ASSUME OneAdmin
    PROVE  StoreSpec => []MemoryAgrees
<1>1. StoreInv => MemoryAgrees
  BY IdleType DEF StoreInv, StoreTypes, MemoryShape, MemoryAgrees
<1> QED
  BY <1>1, StoreInvariant, PTL

-----------------------------------------------------------------------------
(* The store implements AtomicConfig. *)

(* A rename is the only step of a save that changes the file.                  *)
LEMMA FileChanges ==
    ASSUME StoreInv, NEW s \in Savers, Save(s)
    PROVE  \/ UNCHANGED <<file, unread>>
           \/ /\ saver[s].phase = "renaming"
              /\ file' = saver[s].cfg /\ saver[s].cfg \in Config /\ ~unread'
<1>1. saver[s].phase = "writing" => saver[s].fd = "tmp"
  BY DEF StoreInv, SaveShape
<1>2. saver[s].phase = "renaming" => tmp = saver[s].cfg /\ saver[s].cfg \in Config
  BY DEF StoreInv, StoreTypes, SaveShape
<1>3. CASE Rename(s)
  BY <1>2, <1>3 DEF Rename
<1>4. CASE ~Rename(s)
  BY <1>1, <1>4 DEF Save, Open, Write, Writes, WriteFails, RenameFails, Swap, Reload, Answer,
                    histories
<1> QED
  BY <1>3, <1>4

(* AtomicConfig takes the operators of the edits through INSTANCE. *)
LEMMA SameSequences ==
    /\ \A s, e : Contains(s, e) = Atomic!Contains(s, e)
    /\ \A s, e : RemoveFirst(s, e) = Atomic!RemoveFirst(s, e)
    /\ \A s, i, e : ReplaceAt(s, i, e) = Atomic!ReplaceAt(s, i, e)
  BY Zenon DEF Contains, Atomic!Contains, RemoveFirst, Atomic!RemoveFirst, RemoveAt, Atomic!RemoveAt,
               SelectInSeq, Atomic!SelectInSeq, Min, Atomic!Min, ReplaceAt, Atomic!ReplaceAt

LEMMA SameModelEdits ==
    ASSUME NEW cfg, NEW tier, NEW name
    PROVE  /\ HasModel(cfg, tier, name) = Atomic!HasModel(cfg, tier, name)
           /\ AddModel(cfg, tier, name) = Atomic!AddModel(cfg, tier, name)
           /\ removeModel(cfg, tier, name) = Atomic!removeModel(cfg, tier, name)
  BY SameSequences, Zenon
     DEF HasModel, Atomic!HasModel, AddModel, Atomic!AddModel, removeModel, Atomic!removeModel,
         WithModels, Atomic!WithModels, Models, Atomic!Models

LEMMA SameRemoveKey ==
    ASSUME NEW cfg, NEW key
    PROVE  removeKey(cfg, key) = Atomic!removeKey(cfg, key)
  BY Zenon DEF removeKey, Atomic!removeKey, RemoveFirstMatch, Atomic!RemoveFirstMatch,
               RemoveAt, Atomic!RemoveAt, SelectInSeq, Atomic!SelectInSeq, Min, Atomic!Min

LEMMA SameSetKey ==
    ASSUME NEW cfg, NEW entry
    PROVE  SetKey(cfg, entry) = Atomic!SetKey(cfg, entry)
  BY Zenon DEF SetKey, Atomic!SetKey, HasKey, Atomic!HasKey, ReplaceAt, Atomic!ReplaceAt,
               SelectInSeq, Atomic!SelectInSeq, Min, Atomic!Min

LEMMA EditIsAtomic ==
    ASSUME NEW cfg, NEW edited, IsEdit(cfg, edited)
    PROVE  Atomic!IsEdit(cfg, edited)
<1>1. Tier = Atomic!Tier /\ APIKey = Atomic!APIKey
  BY DEF Tier, Atomic!Tier, APIKey, Atomic!APIKey
<1>2. \A key : HasKey(cfg, key) = Atomic!HasKey(cfg, key)
  BY DEF HasKey, Atomic!HasKey
<1>3. \A old, entry : upsertKey(cfg, old, entry) = Atomic!upsertKey(cfg, old, entry)
  BY SameRemoveKey, SameSetKey, Zenon DEF upsertKey, Atomic!upsertKey
<1>4. \A key : removeKey(cfg, key) = Atomic!removeKey(cfg, key)
  BY SameRemoveKey, Zenon
<1>5. \A c, tier, name : /\ HasModel(c, tier, name) = Atomic!HasModel(c, tier, name)
                         /\ AddModel(c, tier, name) = Atomic!AddModel(c, tier, name)
                         /\ removeModel(c, tier, name) = Atomic!removeModel(c, tier, name)
  BY SameModelEdits, Zenon
<1> QED
  BY <1>1, <1>2, <1>3, <1>4, <1>5 DEF IsEdit, Atomic!IsEdit

LEMMA BootIsAtomic ==
    ASSUME NEW cfg
    PROVE  Booted(cfg) = Atomic!Booted(cfg)
  BY DEF Booted, Atomic!Booted, migrateLegacy, Atomic!migrateLegacy,
         applyDefaults, Atomic!applyDefaults

LEMMA AtomicStep ==
    ASSUME StoreInv, [StoreNext]_storeVars
    PROVE  [Atomic!AtomicNext]_(Atomic!atomicVars)
<1> USE DEF Atomic!atomicVars
<1>1. ASSUME NEW s \in Savers, Save(s)
      PROVE  [Atomic!AtomicNext]_(Atomic!atomicVars)
  <2>1. CASE UNCHANGED <<file, unread>>
    BY <2>1 DEF Loaded, Known
  <2>2. CASE /\ saver[s].phase = "renaming"
             /\ file' = saver[s].cfg /\ saver[s].cfg \in Config /\ ~unread'
    <3>1. Loaded(file)' = saver[s].cfg /\ Known' = Loaded(file)'
      BY <2>2, StoreAssumption DEF Loaded, Known
    <3>2. ChangeShape(s) /\ global \in {Known, Booted(Known)}
      BY <2>2, SavingAlone
    <3>3. CASE s = Boot
      <4>1. ~Known.admin /\ saver[s].cfg = Booted(Known)
        BY <2>2, <3>2, <3>3 DEF ChangeShape, Before
      <4> QED
        BY <3>1, <4>1, BootIsAtomic DEF Atomic!AtomicNext, Atomic!StoreSeed
    <3>4. CASE s # Boot
      <4>1. IsEdit(global, saver[s].cfg)
        BY <2>2, <3>2, <3>4 DEF ChangeShape, Before
      <4>2. Atomic!IsEdit(global, Loaded(file)')
        BY <3>1, <4>1, EditIsAtomic
      <4>3. global \in {Known, Atomic!Booted(Known)}
        BY <3>2, BootIsAtomic
      <4> HIDE DEF Known, Loaded
      <4> QED
        BY <3>1, <4>2, <4>3 DEF Atomic!AtomicNext, Atomic!StoreEdit
    <3> QED
      BY <3>3, <3>4
  <2> QED
    BY <1>1, <2>1, <2>2, FileChanges
<1>2. CASE Start \/ Crash
  <2>1. UNCHANGED file /\ Known' \in {Loaded(file), Blank}
    BY <1>2 DEF Start, Crash, Known
  <2>2. Blank = Atomic!Blank /\ Loaded(file)' = Loaded(file)
    BY <2>1 DEF Blank, Atomic!Blank, Loaded
  <2> QED
    BY <2>1, <2>2 DEF Atomic!AtomicNext, Atomic!StoreRead
<1>3. CASE Serve \/ UNCHANGED storeVars
  <2>1. UNCHANGED <<file, unread>>
    BY <1>3 DEF Serve, storeVars, histories
  <2> QED
    BY <2>1 DEF Loaded, Known
<1>4. ASSUME NEW s \in Admins, Request(s)
      PROVE  [Atomic!AtomicNext]_(Atomic!atomicVars)
  <2>1. UNCHANGED <<file, unread>>
    BY <1>4, RequestShape DEF StoreInv
  <2> QED
    BY <2>1 DEF Loaded, Known
<1> QED
  BY <1>1, <1>2, <1>3, <1>4 DEF StoreNext

(* config.yaml goes from one whole configuration to another by one edit at a   *)
(* time of what the process has read or saved, whatever fails and whenever the *)
(* process dies.                                                               *)
THEOREM StoreIsAtomic ==
    ASSUME OneAdmin
    PROVE  StoreSpec => ImplementsAtomic
<1>1. StoreInit => Atomic!AtomicInit
  BY DEF StoreInit, Atomic!AtomicInit, Known
<1>2. StoreInv /\ [StoreNext]_storeVars => [Atomic!AtomicNext]_(Atomic!atomicVars)
  BY AtomicStep
<1> QED
  BY <1>1, <1>2, StoreInvariant, PTL DEF StoreSpec, ImplementsAtomic, Atomic!AtomicSpec

-----------------------------------------------------------------------------
(* The keys. *)

InHand(s) == saver[s].phase \notin {"idle", "done"}

Refuses(cfg, keys) == \A key \in keys : ~ValidateAPIKey(cfg, key)

(* The keys stay distinct; no configuration, stored, in memory or to be saved, *)
(* admits a key that was taken away, but one that the save in hand adds again. *)
KeysInv ==
    /\ DistinctKeys(Loaded(file)) /\ Refuses(Loaded(file), removed)
    /\ global # NoConfig => DistinctKeys(global) /\ Refuses(global, removed)
    /\ \A s \in Savers : InHand(s) =>
           /\ DistinctKeys(saver[s].cfg)
           /\ Refuses(saver[s].cfg, (removed \ {saver[s].op.added}) \cup saver[s].op.revoked)
           /\ saver[s].phase = "swapping" => saver[s].op.added \notin removed

LEMMA SameKeys ==
    ASSUME NEW cfg, NEW edited, edited.keys = cfg.keys, NEW keys
    PROVE  /\ DistinctKeys(edited) <=> DistinctKeys(cfg)
           /\ Refuses(edited, keys) <=> Refuses(cfg, keys)
  BY DEF DistinctKeys, Refuses, ValidateAPIKey

(* With one entry per key, a key is admitted if it has an active one. *)
LEMMA AdmittedKey ==
    ASSUME NEW cfg \in Config, DistinctKeys(cfg), NEW key
    PROVE  ValidateAPIKey(cfg, key) <=>
               \E i \in DOMAIN cfg.keys : cfg.keys[i] = [key |-> key, active |-> TRUE]
<1>1. DOMAIN cfg.keys = 1..Len(cfg.keys) /\ Len(cfg.keys) \in Nat
  BY ConfigParts
<1>2. ASSUME NEW i \in DOMAIN cfg.keys, cfg.keys[i] = [key |-> key, active |-> TRUE],
             NEW j \in 1..(i - 1)
      PROVE  cfg.keys[j].key # key
  BY <1>1, <1>2 DEF DistinctKeys
<1> QED
  BY <1>2 DEF ValidateAPIKey

LEMMA UpsertRefuses ==
    ASSUME NEW cfg \in Config, DistinctKeys(cfg), NEW keys, Refuses(cfg, keys),
           NEW old \in KeyNames \cup {NoKey}, NEW entry \in APIKey
    PROVE  LET edited == upsertKey(cfg, old, entry)
               op == Upserts(old, entry)
           IN  DistinctKeys(edited) /\ Refuses(edited, (keys \ {op.added}) \cup op.revoked)
<1> DEFINE rest == removeKey(cfg, old)
           edited == SetKey(rest, entry)
           op == Upserts(old, entry)
<1>1. /\ rest \in Config /\ DistinctKeys(rest) /\ ~HasKey(rest, old)
      /\ \A i \in DOMAIN rest.keys : \E j \in DOMAIN cfg.keys : rest.keys[i] = cfg.keys[j]
  BY removeKeyShape
<1>2. edited = upsertKey(cfg, old, entry)
  BY DEF upsertKey
<1> HIDE DEF rest
<1>3. /\ edited \in Config /\ DistinctKeys(edited)
      /\ \A i \in DOMAIN edited.keys :
             \/ edited.keys[i] = entry
             \/ \E j \in DOMAIN rest.keys : edited.keys[i] = rest.keys[j]
      /\ \E i \in DOMAIN edited.keys : edited.keys[i] = entry
  BY <1>1, SetKeyShape
<1> HIDE DEF edited
<1>4. /\ op.revoked = ({old} \ {NoKey, entry.key}) \cup (IF entry.active THEN {} ELSE {entry.key})
      /\ op.added = IF entry.active THEN entry.key ELSE NoKey
  BY DEF Upserts
<1> HIDE DEF op
<1>5. ASSUME NEW key, ValidateAPIKey(edited, key), key \in (keys \ {op.added}) \cup op.revoked
      PROVE  FALSE
  <2>1. PICK i \in DOMAIN edited.keys : edited.keys[i] = [key |-> key, active |-> TRUE]
    BY <1>3, <1>5, AdmittedKey
  <2>2. CASE edited.keys[i] = entry
    BY <1>4, <1>5, <2>1, <2>2
  <2>3. CASE edited.keys[i] # entry
    <3>1. PICK j \in DOMAIN rest.keys : rest.keys[j] = [key |-> key, active |-> TRUE]
      BY <1>3, <2>1, <2>3
    <3>2. PICK k \in DOMAIN cfg.keys : cfg.keys[k] = [key |-> key, active |-> TRUE]
      BY <1>1, <3>1
    <3>3. ValidateAPIKey(cfg, key)
      BY <3>2, AdmittedKey
    <3>4. key \notin keys
      BY <3>3 DEF Refuses
    <3>5. key # old
      BY <1>1, <3>1 DEF HasKey
    <3>6. key = entry.key
      BY <1>4, <1>5, <3>4, <3>5
    <3>7. PICK e \in DOMAIN edited.keys : edited.keys[e] = entry
      BY <1>3
    <3>8. edited.keys[e].key = edited.keys[i].key
      BY <2>1, <3>6, <3>7
    <3>9. e = i
      BY <1>3, <3>8 DEF DistinctKeys
    <3> QED
      BY <2>3, <3>7, <3>9
  <2> QED
    BY <2>2, <2>3
<1>6. Refuses(edited, (keys \ {op.added}) \cup op.revoked)
  BY <1>5 DEF Refuses
<1> QED
  BY <1>2, <1>3, <1>6 DEF op

LEMMA DeleteRefuses ==
    ASSUME NEW cfg \in Config, DistinctKeys(cfg), NEW keys, Refuses(cfg, keys), NEW key
    PROVE  DistinctKeys(removeKey(cfg, key)) /\ Refuses(removeKey(cfg, key), keys \cup {key})
<1> DEFINE edited == removeKey(cfg, key)
<1>1. /\ edited \in Config /\ DistinctKeys(edited) /\ ~HasKey(edited, key)
      /\ \A i \in DOMAIN edited.keys : \E j \in DOMAIN cfg.keys : edited.keys[i] = cfg.keys[j]
  BY removeKeyShape
<1> HIDE DEF edited
<1>2. ASSUME NEW k, ValidateAPIKey(edited, k), k \in keys \cup {key}
      PROVE  FALSE
  <2>1. PICK i \in DOMAIN edited.keys : edited.keys[i] = [key |-> k, active |-> TRUE]
    BY <1>1, <1>2, AdmittedKey
  <2>2. k # key
    BY <1>1, <2>1 DEF HasKey
  <2>3. ValidateAPIKey(cfg, k)
    BY <1>1, <2>1, AdmittedKey
  <2> QED
    BY <1>2, <2>2, <2>3 DEF Refuses
<1> QED
  BY <1>1, <1>2 DEF edited, Refuses

(* An edit admits no key that was refused before, but the one it adds, and     *)
(* none of those it takes away.                                                *)
LEMMA EditRefuses ==
    ASSUME NEW cfg \in Config, DistinctKeys(cfg), NEW keys, Refuses(cfg, keys),
           NEW edited, NEW op, KeyChange(cfg, edited, op)
    PROVE  DistinctKeys(edited) /\ Refuses(edited, (keys \ {op.added}) \cup op.revoked)
<1>1. CASE op = KeepsKeys(op.kind) /\ edited.keys = cfg.keys
  <2>1. op.revoked = {}
    BY <1>1 DEF KeepsKeys
  <2>2. (keys \ {op.added}) \cup op.revoked \subseteq keys
    BY <2>1
  <2> QED
    BY <1>1, <2>2, SameKeys DEF Refuses
<1>2. ASSUME NEW old \in KeyNames \cup {NoKey}, NEW entry \in APIKey,
             op = Upserts(old, entry), edited = upsertKey(cfg, old, entry)
      PROVE  DistinctKeys(edited) /\ Refuses(edited, (keys \ {op.added}) \cup op.revoked)
  BY <1>2, UpsertRefuses
<1>3. ASSUME NEW key \in KeyNames, op = Deletes(key), edited = removeKey(cfg, key)
      PROVE  DistinctKeys(edited) /\ Refuses(edited, (keys \ {op.added}) \cup op.revoked)
  <2>1. (keys \ {op.added}) \cup op.revoked \subseteq keys \cup {key}
    BY <1>3 DEF Deletes
  <2> QED
    BY <1>3, <2>1, DeleteRefuses DEF Refuses
<1> QED
  BY <1>1, <1>2, <1>3 DEF KeyChange

(* What the other savers have in hand while s saves: nothing. *)
LEMMA SaverKeeps ==
    ASSUME StoreInv, NEW s \in Savers, Save(s), NEW t \in Savers, InHand(t)'
    PROVE  /\ t = s /\ InHand(s)
           /\ saver'[s].cfg = saver[s].cfg /\ saver'[s].op = saver[s].op
           /\ saver'[s].phase = "swapping" => Rename(s)
<1>1. saver[s].phase # "idle"
  BY DEF Save, Open, Write, WriteFails, Rename, RenameFails, Swap, Reload, Answer
<1>2. /\ \A r \in Savers \ {s} : saver[r] = Idle
      /\ saver \in [Savers -> Saver] /\ saver[s] \in Saver
  BY <1>1, SavingAlone
<1>3. CASE Rename(s)
  <2>1. \A r \in Savers \ {s} : saver'[r] = [saver[r] EXCEPT !.fd = Renamed(saver[r].fd)]
    BY <1>3 DEF Rename
  <2>2. \A r \in Savers \ {s} : saver'[r].phase = "idle"
    <3>1. \A fd : [Idle EXCEPT !.fd = fd].phase = "idle"
      BY DEF Idle
    <3> QED
      BY <1>2, <2>1, <3>1
  <2>3. t = s
    BY <2>2 DEF InHand
  <2>4. saver'[s] = [saver[s] EXCEPT !.phase = "swapping"]
    BY <1>3 DEF Rename
  <2> QED
    BY <1>2, <1>3, <2>3, <2>4 DEF Rename, InHand, Saver
<1>4. CASE ~Rename(s)
  <2>1. \A r \in Savers \ {s} : saver'[r] = saver[r]
    BY <1>2, <1>4 DEF Save, Open, Write, WriteFails, RenameFails, Swap, Reload, Answer, Step, Finish
  <2>2. t = s
    BY <1>2, <2>1, IdleType DEF InHand
  <2>3. /\ InHand(s)
        /\ saver'[s].cfg = saver[s].cfg /\ saver'[s].op = saver[s].op
        /\ saver'[s].phase # "swapping"
    <3>1. CASE Open(s)
      BY <1>2, <3>1 DEF Open, Saver, InHand
    <3>2. CASE Write(s)
      BY <1>2, <3>2 DEF Write, Saver, InHand
    <3>3. CASE Swap(s)
      BY <1>2, <2>2, <3>3 DEF Swap, Step, Finish, Saver, InHand
    <3>4. CASE WriteFails(s) \/ RenameFails(s) \/ Reload(s) \/ Answer(s)
      <4>1. Answer(s) \/ \E ok \in BOOLEAN : Finish(s, ok)
        BY <3>4 DEF WriteFails, RenameFails, Reload
      <4>2. CASE Answer(s)
        BY <1>2, <2>2, <4>2, IdleType DEF Answer, InHand
      <4>3. ASSUME NEW ok \in BOOLEAN, Finish(s, ok)
            PROVE  saver'[s].phase = "done"
        BY <1>2, <4>3 DEF Finish, Saver
      <4> QED
        BY <2>2, <4>1, <4>2, <4>3 DEF InHand
    <3> QED
      BY <1>4, <3>1, <3>2, <3>3, <3>4 DEF Save
  <2> QED
    BY <2>2, <2>3
<1> QED
  BY <1>3, <1>4

LEMMA SaveKeys ==
    ASSUME StoreInv, KeysInv, NEW s \in Savers, Save(s)
    PROVE  KeysInv'
<1> DEFINE op == saver[s].op
           cfg == saver[s].cfg
<1>1. InHand(s) => /\ DistinctKeys(cfg) /\ Refuses(cfg, (removed \ {op.added}) \cup op.revoked)
                   /\ saver[s].phase = "swapping" => op.added \notin removed
  BY DEF KeysInv
<1>2. CASE Rename(s)
  <2>1. /\ InHand(s) /\ removed' = removed \ {op.added} /\ UNCHANGED global
    BY <1>2 DEF Rename, InHand
  <2>2. Loaded(file)' = cfg
    <3>1. file' = cfg /\ cfg \in Config
      BY <1>2, RenameInv, FileChanges, StoreTypesStep DEF StoreInv, StoreNext, Rename, StoreTypes
    <3> QED
      BY <3>1, StoreAssumption DEF Loaded
  <2>3. removed' \subseteq removed
    BY <2>1
  <2>4. DistinctKeys(Loaded(file))' /\ Refuses(Loaded(file), removed)'
    <3>1. DistinctKeys(cfg) /\ Refuses(cfg, removed')
      BY <1>1, <2>1 DEF Refuses
    <3> QED
      BY <2>2, <3>1 DEF DistinctKeys, Refuses, ValidateAPIKey
  <2>5. global' # NoConfig => DistinctKeys(global)' /\ Refuses(global, removed)'
    BY <2>1, <2>3 DEF KeysInv, DistinctKeys, Refuses, ValidateAPIKey
  <2>6. ASSUME NEW t \in Savers, InHand(t)'
        PROVE  /\ DistinctKeys(saver[t].cfg)'
               /\ Refuses(saver[t].cfg, (removed \ {saver[t].op.added}) \cup saver[t].op.revoked)'
               /\ saver'[t].phase = "swapping" => saver'[t].op.added \notin removed'
    <3>1. t = s /\ saver'[s].cfg = cfg /\ saver'[s].op = op
      BY <2>6, SaverKeeps
    <3>2. Refuses(cfg, (removed' \ {op.added}) \cup op.revoked)
      BY <1>1, <2>1 DEF Refuses
    <3> HIDE DEF cfg, op
    <3> QED
      BY <1>1, <2>1, <3>1, <3>2 DEF DistinctKeys, Refuses, ValidateAPIKey
  <2> QED
    BY <2>4, <2>5, <2>6 DEF KeysInv
<1>3. CASE Swap(s)
  <2>1. /\ InHand(s) /\ saver[s].phase = "swapping" /\ file = cfg
        /\ global' = cfg /\ removed' = removed \cup op.revoked /\ UNCHANGED file
    BY <1>3 DEF Swap, InHand, StoreInv, SaveShape
  <2>2. Loaded(file)' = cfg
    <3>1. cfg \in Config
      BY <2>1 DEF InHand, StoreInv, StoreTypes
    <3> QED
      BY <2>1, <3>1, StoreAssumption DEF Loaded
  <2>3. DistinctKeys(cfg) /\ Refuses(cfg, removed')
    BY <1>1, <2>1 DEF Refuses
  <2>4. /\ DistinctKeys(Loaded(file))' /\ Refuses(Loaded(file), removed)'
        /\ DistinctKeys(global)' /\ Refuses(global, removed)'
    BY <2>1, <2>2, <2>3 DEF DistinctKeys, Refuses, ValidateAPIKey
  <2>5. ASSUME NEW t \in Savers, InHand(t)'
        PROVE  /\ DistinctKeys(saver[t].cfg)'
               /\ Refuses(saver[t].cfg, (removed \ {saver[t].op.added}) \cup saver[t].op.revoked)'
               /\ saver'[t].phase # "swapping"
    <3>1. /\ t = s /\ saver'[s].cfg = cfg /\ saver'[s].op = op
          /\ saver'[s].phase = "swapping" => Rename(s)
      BY <2>5, SaverKeeps
    <3>2. ~Rename(s)
      BY <2>1 DEF Rename
    <3>3. Refuses(cfg, (removed' \ {op.added}) \cup op.revoked)
      BY <1>1, <2>1 DEF Refuses
    <3> HIDE DEF cfg, op
    <3> QED
      BY <2>3, <3>1, <3>2, <3>3 DEF DistinctKeys, Refuses, ValidateAPIKey
  <2> QED
    BY <2>4, <2>5 DEF KeysInv
<1>4. CASE ~Rename(s) /\ ~Swap(s)
  <2>1. UNCHANGED <<global, removed, file>>
    <3>1. saver[s].phase = "writing" => saver[s].fd = "tmp"
      BY DEF StoreInv, SaveShape
    <3> QED
      BY <1>4, <3>1 DEF Save, Open, Write, Writes, WriteFails, RenameFails, Reload, Answer,
                        histories
  <2>2. ASSUME NEW t \in Savers, InHand(t)'
        PROVE  /\ DistinctKeys(saver[t].cfg)'
               /\ Refuses(saver[t].cfg, (removed \ {saver[t].op.added}) \cup saver[t].op.revoked)'
               /\ saver'[t].phase # "swapping"
    <3>1. /\ t = s /\ saver'[s].cfg = cfg /\ saver'[s].op = op
          /\ saver'[s].phase # "swapping" /\ InHand(s)
      BY <1>4, <2>2, SaverKeeps
    <3> HIDE DEF cfg, op
    <3> QED
      BY <1>1, <2>1, <3>1 DEF DistinctKeys, Refuses, ValidateAPIKey
  <2>3. /\ DistinctKeys(Loaded(file))' /\ Refuses(Loaded(file), removed)'
        /\ global' # NoConfig => DistinctKeys(global)' /\ Refuses(global, removed)'
    BY <2>1 DEF KeysInv, DistinctKeys, Refuses, ValidateAPIKey, Loaded
  <2> QED
    BY <2>2, <2>3 DEF KeysInv
<1> QED
  BY <1>2, <1>3, <1>4

(* A request takes its keys out of a snapshot that has each once at most. *)
LEMMA RequestKeys ==
    ASSUME StoreTypes, KeysInv, NEW s \in Admins, Request(s)
    PROVE  KeysInv'
<1>1. PICK edited \in Config, op \in Op :
          /\ saver' = [saver EXCEPT ![s] = Saving(edited, op)]
          /\ UNCHANGED <<file, tmp, global, lbCfg, unread, removed>>
          /\ KeyChange(global, edited, op)
  BY RequestShape
<1>2. global \in Config /\ DistinctKeys(global) /\ Refuses(global, removed)
  BY StoreAssumption DEF Request, StoreTypes, TypeOK, KeysInv
<1>3. DistinctKeys(edited) /\ Refuses(edited, (removed \ {op.added}) \cup op.revoked)
  BY <1>1, <1>2, EditRefuses
<1>4. /\ saver'[s] = Saving(edited, op)
      /\ \A t \in Savers \ {s} : saver'[t] = saver[t]
  BY <1>1 DEF StoreTypes, TypeOK, Savers
<1>5. ASSUME NEW t \in Savers, InHand(t)'
      PROVE  /\ DistinctKeys(saver[t].cfg)'
             /\ Refuses(saver[t].cfg, (removed \ {saver[t].op.added}) \cup saver[t].op.revoked)'
             /\ saver'[t].phase = "swapping" => saver'[t].op.added \notin removed'
  <2>1. CASE t = s
    <3>1. saver'[t].cfg = edited /\ saver'[t].op = op /\ saver'[t].phase = "saving"
      BY <1>4, <2>1 DEF Saving
    <3> QED
      BY <1>1, <1>3, <3>1 DEF DistinctKeys, Refuses, ValidateAPIKey
  <2>2. CASE t # s
    <3>1. saver'[t] = saver[t] /\ InHand(t)
      BY <1>4, <1>5, <2>2 DEF InHand
    <3> QED
      BY <1>1, <3>1 DEF KeysInv, DistinctKeys, Refuses, ValidateAPIKey
  <2> QED
    BY <2>1, <2>2
<1>6. /\ DistinctKeys(Loaded(file))' /\ Refuses(Loaded(file), removed)'
      /\ global' # NoConfig => DistinctKeys(global)' /\ Refuses(global, removed)'
  BY <1>1 DEF KeysInv, DistinctKeys, Refuses, ValidateAPIKey, Loaded
<1> QED
  BY <1>5, <1>6 DEF KeysInv

(* A start finds the keys of the file, or none. *)
LEMMA StartKeys ==
    ASSUME StoreInv, KeysInv, Start
    PROVE  KeysInv'
<1>1. PICK read \in {Loaded(file), Blank} :
          /\ global' = Booted(read)
          /\ \/ UNCHANGED saver
             \/ saver' = [saver EXCEPT ![Boot] = Saving(global', KeepsKeys("seed"))]
          /\ UNCHANGED <<file, removed>>
  BY DEF Start
<1>2. /\ Loaded(file) \in Config /\ saver \in [Savers -> Saver]
      /\ \A s \in Savers : saver[s] = Idle
  BY LoadedType DEF StoreInv, StoreTypes, TypeOK, Start
<1>3. read \in Config /\ global'.keys = read.keys
  BY <1>1, <1>2, BlankType, BootedType
<1>4. DistinctKeys(read) /\ Refuses(read, removed)
  <2>1. DistinctKeys(Blank) /\ Refuses(Blank, removed)
    BY DEF Blank, DistinctKeys, Refuses, ValidateAPIKey
  <2> QED
    BY <1>1, <2>1 DEF KeysInv
<1>5. DistinctKeys(global') /\ Refuses(global', removed)
  BY <1>3, <1>4, SameKeys
<1>6. ASSUME NEW s \in Savers, InHand(s)'
      PROVE  /\ DistinctKeys(saver[s].cfg)'
             /\ Refuses(saver[s].cfg, (removed \ {saver[s].op.added}) \cup saver[s].op.revoked)'
             /\ saver'[s].phase # "swapping"
  <2>1. saver'[s] = Idle \/ saver'[s] = Saving(global', KeepsKeys("seed"))
    BY <1>1, <1>2
  <2>2. saver'[s] = Saving(global', KeepsKeys("seed"))
    BY <1>6, <2>1, IdleType DEF InHand
  <2>3. /\ saver'[s].cfg = global' /\ saver'[s].phase = "saving"
        /\ saver'[s].op.revoked = {}
    BY <2>2 DEF Saving, KeepsKeys
  <2>4. (removed' \ {saver'[s].op.added}) \cup saver'[s].op.revoked \subseteq removed
    BY <1>1, <2>3
  <2> QED
    BY <1>5, <2>3, <2>4 DEF DistinctKeys, Refuses, ValidateAPIKey
<1>7. /\ DistinctKeys(Loaded(file))' /\ Refuses(Loaded(file), removed)'
      /\ DistinctKeys(global)' /\ Refuses(global, removed)'
  BY <1>1, <1>5 DEF KeysInv, DistinctKeys, Refuses, ValidateAPIKey, Loaded
<1> QED
  BY <1>6, <1>7 DEF KeysInv

LEMMA KeysStep ==
    ASSUME StoreInv, KeysInv, [StoreNext]_storeVars
    PROVE  KeysInv'
<1>1. CASE Serve \/ Crash \/ UNCHANGED storeVars
  <2>1. UNCHANGED <<file, removed>> /\ global' \in {global, NoConfig}
    BY <1>1 DEF Serve, Crash, storeVars, histories
  <2>2. \A s \in Savers : saver'[s] \in {saver[s], Idle}
    BY <1>1 DEF Serve, Crash, storeVars, StoreInv, StoreTypes, TypeOK
  <2>3. /\ DistinctKeys(Loaded(file))' /\ Refuses(Loaded(file), removed)'
        /\ global' # NoConfig => DistinctKeys(global)' /\ Refuses(global, removed)'
    BY <2>1 DEF KeysInv, DistinctKeys, Refuses, ValidateAPIKey, Loaded
  <2>4. ASSUME NEW s \in Savers, InHand(s)'
        PROVE  /\ DistinctKeys(saver[s].cfg)'
               /\ Refuses(saver[s].cfg, (removed \ {saver[s].op.added}) \cup saver[s].op.revoked)'
               /\ saver'[s].phase = "swapping" => saver'[s].op.added \notin removed'
    <3>1. saver'[s] = saver[s] /\ InHand(s)
      BY <2>2, <2>4, IdleType DEF InHand
    <3> QED
      BY <2>1, <3>1 DEF KeysInv, DistinctKeys, Refuses, ValidateAPIKey
  <2> QED
    BY <2>3, <2>4 DEF KeysInv
<1>2. ASSUME NEW s \in Admins, Request(s)
      PROVE  KeysInv'
  BY <1>2, RequestKeys DEF StoreInv
<1>3. ASSUME NEW s \in Savers, Save(s)
      PROVE  KeysInv'
  BY <1>3, SaveKeys
<1> QED
  BY <1>1, <1>2, <1>3, StartKeys DEF StoreNext

(* A key that was taken away is refused from the answer on, until it is added  *)
(* again, if the file of the first start has no key twice: UpsertKey and       *)
(* DeleteKey never make two of one.                                            *)
THEOREM RevokedKeysStayOut ==
    ASSUME OneAdmin, \A content \in InitialFiles : DistinctKeys(Loaded(content))
    PROVE  StoreSpec => []RevokedKeyRefused
<1>1. StoreInit => KeysInv
  <2> SUFFICES ASSUME StoreInit
               PROVE  KeysInv
    OBVIOUS
  <2>1. /\ DistinctKeys(Loaded(file)) /\ global = NoConfig /\ removed = {}
        /\ \A s \in Savers : saver[s] = Idle
    BY DEF StoreInit
  <2> QED
    BY <2>1, IdleType DEF KeysInv, InHand, Refuses
<1>2. StoreInv /\ KeysInv /\ [StoreNext]_storeVars => KeysInv'
  BY KeysStep
<1>3. KeysInv => RevokedKeyRefused
  BY DEF KeysInv, Refuses, RevokedKeyRefused
<1> QED
  BY <1>1, <1>2, <1>3, StoreInvariant, PTL DEF StoreSpec
=============================================================================
