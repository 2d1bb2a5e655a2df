----------------------------- MODULE ConfigStore ------------------------------
(***************************************************************************)
(* The configuration of internal/config/config.go under the admin API of   *)
(* internal/handler/admin.go: config.yaml and its .tmp on disk, and the    *)
(* two snapshots in memory, of the config package and of the load          *)
(* balancer.                                                               *)
(*                                                                         *)
(* Each admin has one request at a time.  A handler edits a clone of the   *)
(* snapshot and saves it in steps that other admins' steps, failures of    *)
(* the file system and crashes of the process can separate.  Every saver   *)
(* uses the same .tmp: a descriptor follows the file it was opened on      *)
(* through renames, as it does in a POSIX file system.                     *)
(***************************************************************************)
EXTENDS ConfigEdits

CONSTANTS Admins, Boot,     \* who saves: admins, and main at start
          InitialFiles,     \* what config.yaml may be before the first start
          MaxModels,        \* bound on the models of an edited configuration
          Absent, Empty, Garbled,   \* no file; truncated; not YAML, or a mixture
          NoConfig          \* a snapshot that is not there

Savers == Admins \cup {Boot}
Content == Config \cup {Absent, Empty, Garbled}

ASSUME StoreAssumption == /\ InitialFiles \subseteq Content
                          /\ Boot \notin Admins
                          /\ NoConfig \notin Config
                          /\ {Absent, Empty, Garbled} \cap Config = {}
                          /\ NoKey \notin KeyNames

VARIABLES file, tmp,    \* contents of config.yaml and of config.yaml.tmp
          global,       \* config.globalConfig
          lbCfg,        \* the load balancer's configuration; its making starts the server
          saver,        \* the request in hand of each saver
          unread,       \* history: the start could not read what config.yaml still holds
          removed       \* history: keys taken away with answer 200, and not added since

storeVars == <<file, tmp, global, lbCfg, saver, unread, removed>>
histories == <<unread, removed>>

Op == [kind : {"model", "routing", "key", "seed"},  \* which handler saves
       revoked : SUBSET KeyNames,                   \* the keys it takes away
       added : KeyNames \cup {NoKey}]               \* the key it makes active, if any

Phase == {"idle", "saving", "writing", "renaming", "swapping", "reloading", "done"}

(* fd: where the bytes go that the saver writes, once it has opened the .tmp. *)
Saver == [phase : Phase, cfg : Config \cup {NoConfig}, op : Op,
          ok : BOOLEAN, fd : {"none", "tmp", "file", "gone"}]

KeepsKeys(kind) == [kind |-> kind, revoked |-> {}, added |-> NoKey]

Idle == [phase |-> "idle", cfg |-> NoConfig, op |-> KeepsKeys("seed"),
         ok |-> FALSE, fd |-> "none"]

Saving(cfg, op) ==
    [phase |-> "saving", cfg |-> cfg, op |-> op, ok |-> FALSE, fd |-> "none"]

up == lbCfg # NoConfig

TypeOK == /\ file \in Content /\ tmp \in Content
          /\ {global, lbCfg} \subseteq Config \cup {NoConfig}
          /\ saver \in [Savers -> Saver]
          /\ unread \in BOOLEAN /\ removed \subseteq KeyNames

StoreInit == /\ file \in InitialFiles /\ tmp = Absent
             /\ global = NoConfig /\ lbCfg = NoConfig
             /\ saver = [s \in Savers |-> Idle]
             /\ unread = FALSE /\ removed = {}

-----------------------------------------------------------------------------
(* The process. *)

Loaded(content) == IF content \in {Absent, Empty, Garbled} THEN Blank ELSE content

(* Load, and EnsureDefaultAdmin up to its save: it changes the snapshot in place. *)
(* A file that is there but cannot be read counts as none.                        *)
Start == /\ global = NoConfig
         /\ \E read \in {Loaded(file), Blank} :
               /\ unread' = (read # Loaded(file))
               /\ global' = Booted(read)
               /\ IF read.admin
                  THEN lbCfg' = global' /\ UNCHANGED saver
                  ELSE /\ saver' = [saver EXCEPT ![Boot] = Saving(global', KeepsKeys("seed"))]
                       /\ UNCHANGED lbCfg
         /\ UNCHANGED <<file, tmp, removed>>

(* The rest of main: the server comes up whether the save succeeded or not. *)
Serve == /\ saver[Boot].phase = "done"
         /\ lbCfg' = global
         /\ saver' = [saver EXCEPT ![Boot] = Idle]
         /\ UNCHANGED <<file, tmp, global, histories>>

(* A kill or a shutdown, which waits for nobody. *)
Crash == /\ global # NoConfig
         /\ global' = NoConfig /\ lbCfg' = NoConfig
         /\ saver' = [s \in Savers |-> Idle]
         /\ unread' = FALSE
         /\ UNCHANGED <<file, tmp, removed>>

-----------------------------------------------------------------------------
(* The handlers, up to the save.  A request that is refused changes nothing. *)

Begin(s, cfg, op) ==
    /\ Len(Models(cfg, "advanced")) + Len(Models(cfg, "basic")) <= MaxModels
    /\ saver' = [saver EXCEPT ![s] = Saving(cfg, op)]
    /\ UNCHANGED <<file, tmp, global, lbCfg, histories>>

CreateModel(s) ==
    \E tier \in Tier, name \in Names :
        /\ ~HasModel(global, tier, name)
        /\ Begin(s, AddModel(global, tier, name), KeepsKeys("model"))

UpdateModel(s) ==
    \E oldTier, tier \in Tier, oldName, name \in Names :
        /\ HasModel(global, oldTier, oldName)
        /\ Begin(s, AddModel(removeModel(global, oldTier, oldName), tier, name), KeepsKeys("model"))

DeleteModel(s) ==
    \E tier \in Tier, name \in Names :
        /\ HasModel(global, tier, name)
        /\ Begin(s, removeModel(global, tier, name), KeepsKeys("model"))

UpdateRouting(s) ==
    \E routing \in RoutingValues \cup {Unset} :
        Begin(s, [global EXCEPT !.routing = routing], KeepsKeys("routing"))

(* The entry's key becomes active or inactive; a key it is renamed from goes. *)
Upserts(old, entry) ==
    [kind |-> "key",
     revoked |-> ({old} \ {NoKey, entry.key}) \cup (IF entry.active THEN {} ELSE {entry.key}),
     added |-> IF entry.active THEN entry.key ELSE NoKey]

UpsertKey(s) ==
    \E old \in KeyNames \cup {NoKey}, entry \in APIKey :
        Begin(s, upsertKey(global, old, entry), Upserts(old, entry))

Deletes(key) == [kind |-> "key", revoked |-> {key}, added |-> NoKey]

DeleteKey(s) ==
    \E key \in KeyNames :
        /\ HasKey(global, key)
        /\ Begin(s, removeKey(global, key), Deletes(key))

-----------------------------------------------------------------------------
(* SaveConfig and saveAndReload, step by step. *)

Step(s, phase) == saver' = [saver EXCEPT ![s].phase = phase]

Finish(s, ok) == saver' = [saver EXCEPT ![s].phase = "done", ![s].ok = ok, ![s].fd = "none"]

InPlace(s) ==           \* mutated Open: no .tmp, config.yaml itself is truncated
    /\ saver[s].phase = "saving"
    /\ file' = Empty
    /\ saver' = [saver EXCEPT ![s].phase = "writing", ![s].fd = "file"]
    /\ UNCHANGED <<tmp, global, lbCfg, histories>>

(* os.WriteFile creates the .tmp or truncates it, whoever else has it open. *)
Open(s) == /\ saver[s].phase = "saving"
           /\ tmp' = Empty
           /\ saver' = [saver EXCEPT ![s].phase = "writing", ![s].fd = "tmp"]
           /\ UNCHANGED <<file, global, lbCfg, histories>>

(* All of cfg's bytes go to the start of the file, where a longer old text shows  *)
(* behind them; or a part of them does, or none.                                  *)
Overwritten(content, cfg, whole) ==
    IF ~whole THEN {content, Garbled} ELSE IF content = Empty THEN {cfg} ELSE {cfg, Garbled}

Writes(s, whole) ==
    LET fd == saver[s].fd
        cfg == saver[s].cfg
    IN  /\ IF fd = "tmp" THEN tmp' \in Overwritten(tmp, cfg, whole) ELSE UNCHANGED tmp
        /\ IF fd = "file" THEN file' \in Overwritten(file, cfg, whole) ELSE UNCHANGED file

Write(s) == /\ saver[s].phase = "writing"
            /\ Writes(s, TRUE)
            /\ saver' = [saver EXCEPT ![s].phase = "renaming", ![s].fd = "none"]
            /\ UNCHANGED <<global, lbCfg, histories>>

FailureIgnored(s) ==    \* mutated WriteFails: a short write goes on to the rename
    \/ /\ saver[s].phase = "saving"
       /\ Finish(s, FALSE)
       /\ UNCHANGED <<file, tmp, global, lbCfg, histories>>
    \/ /\ saver[s].phase = "writing"
       /\ Writes(s, FALSE)
       /\ saver' = [saver EXCEPT ![s].phase = "renaming", ![s].fd = "none"]
       /\ UNCHANGED <<global, lbCfg, histories>>

(* The .tmp cannot be opened, or a part of cfg or nothing is written. *)
WriteFails(s) ==
    \/ /\ saver[s].phase = "saving"
       /\ Finish(s, FALSE)
       /\ UNCHANGED <<file, tmp, global, lbCfg, histories>>
    \/ /\ saver[s].phase = "writing"
       /\ Writes(s, FALSE)
       /\ Finish(s, FALSE)
       /\ UNCHANGED <<global, lbCfg, histories>>

(* What the others have open keeps its contents under its new name, or under none. *)
Renamed(fd) == [none |-> "none", tmp |-> "file", file |-> "gone", gone |-> "gone"][fd]

Rename(s) == /\ saver[s].phase = "renaming"
             /\ tmp # Absent
             /\ file' = tmp /\ tmp' = Absent
             /\ saver' = [t \in Savers |-> IF t = s THEN [saver[s] EXCEPT !.phase = "swapping"]
                                           ELSE [saver[t] EXCEPT !.fd = Renamed(@)]]
             /\ unread' = FALSE
             /\ removed' = removed \ {saver[s].op.added}
             /\ UNCHANGED <<global, lbCfg>>

RenameFails(s) == /\ saver[s].phase = "renaming"
                  /\ Finish(s, FALSE)
                  /\ UNCHANGED <<file, tmp, global, lbCfg, histories>>

ReloadsForModelsOnly(s) ==  \* mutated Swap: a change of the routing is not reloaded
    /\ saver[s].phase = "swapping"
    /\ global' = saver[s].cfg
    /\ IF saver[s].op.kind = "model" THEN Step(s, "reloading") ELSE Finish(s, TRUE)
    /\ removed' = removed \cup saver[s].op.revoked
    /\ UNCHANGED <<file, tmp, lbCfg, unread>>

(* The end of SaveConfig, which the key handlers and main call directly. *)
Swap(s) == /\ saver[s].phase = "swapping"
           /\ global' = saver[s].cfg
           /\ IF saver[s].op.kind \in {"model", "routing"}
              THEN Step(s, "reloading") ELSE Finish(s, TRUE)
           /\ removed' = removed \cup saver[s].op.revoked
           /\ UNCHANGED <<file, tmp, lbCfg, unread>>

Reload(s) == /\ saver[s].phase = "reloading"
             /\ lbCfg' = saver[s].cfg
             /\ Finish(s, TRUE)
             /\ UNCHANGED <<file, tmp, global, histories>>

(* The answer is out, 200 or 500. *)
Answer(s) == /\ s \in Admins
             /\ saver[s].phase = "done"
             /\ saver' = [saver EXCEPT ![s] = Idle]
             /\ UNCHANGED <<file, tmp, global, lbCfg, histories>>

-----------------------------------------------------------------------------

Request(s) ==
    /\ up
    /\ saver[s].phase = "idle"
    /\ \/ CreateModel(s) \/ UpdateModel(s) \/ DeleteModel(s)
       \/ UpdateRouting(s) \/ UpsertKey(s) \/ DeleteKey(s)

Save(s) == \/ Open(s) \/ Write(s) \/ WriteFails(s) \/ Rename(s) \/ RenameFails(s)
           \/ Swap(s) \/ Reload(s) \/ Answer(s)

StoreNext == \/ Start \/ Serve \/ Crash
             \/ \E s \in Admins : Request(s)
             \/ \E s \in Savers : Save(s)

StoreSpec == StoreInit /\ [][StoreNext]_storeVars

-----------------------------------------------------------------------------
(* Properties. *)

Acknowledged(s) == saver[s].phase = "done" /\ saver[s].ok

(* What the running process takes for the contents of config.yaml. *)
Known == IF unread THEN Blank ELSE Loaded(file)

(* Between requests memory is what the process knows of the disk: the config    *)
(* package holds what is stored, or what a start makes of it, or of nothing if  *)
(* the start could not read it, and the load balancer routes by the same models *)
(* and rules (Load, SaveConfig, lb.Reload).                                     *)
MemoryAgrees ==
    up /\ (\A s \in Savers : saver[s] = Idle) =>
        /\ global \in {Known, Booted(Known)}
        /\ lbCfg.tiers = global.tiers
        /\ lbCfg.routing = global.routing

(* A change that was answered with 200 is on disk as a whole and in force:     *)
(* a restart that can read it keeps it (saveAndReload's order of save and      *)
(* answer).                                                                    *)
AckedIsStored ==
    \A s \in Savers : Acknowledged(s) =>
        /\ file = saver[s].cfg
        /\ global = saver[s].cfg
        /\ saver[s].op.kind \in {"model", "routing"} => lbCfg = saver[s].cfg

(* A key that a delete, a rename or a deactivation took away admits no call    *)
(* from the answer on, also after failed saves and restarts, until an admin    *)
(* adds it again: taking out or changing its first entry is enough, because no *)
(* sequence of saves leaves two (UpsertKey, DeleteKey, ValidateAPIKey).        *)
RevokedKeyRefused ==
    global # NoConfig => \A key \in removed : ~ValidateAPIKey(global, key)

(* Whatever fails and whenever the process dies, config.yaml goes from one     *)
(* whole configuration to another, by one edit at a time of what the process   *)
(* has read or saved (SaveConfig's rename).                                    *)
Atomic == INSTANCE AtomicConfig WITH stored <- Loaded(file), known <- Known,
                                     Initial <- {Loaded(content) : content \in InitialFiles}
ImplementsAtomic == Atomic!AtomicSpec

-----------------------------------------------------------------------------
(* What the documents say and the code does not do. *)

Publishes(s) == saver[s].phase = "renaming" /\ saver'[s].phase = "swapping"

ModelNames(cfg) == ToSet(cfg.legacy) \cup UNION {ToSet(Models(cfg, tier)) : tier \in Tier}

(* README.md:325: a model that has reached config.yaml is kept when another    *)
(* admin's save of the routing rules follows it.  A handler that has cloned    *)
(* the snapshot before the model was added breaks it.                          *)
RoutingSaveKeepsModels ==
    [][\A s \in Admins :
          Publishes(s) /\ saver[s].op.kind = "routing" /\ file' = saver[s].cfg /\ ~unread
          => ModelNames(Loaded(file)) \subseteq ModelNames(file')]_storeVars

(* config.go:280: EnsureDefaultAdmin seeds an admin when none is configured.   *)
(* It also does so, over the whole of a config.yaml that names one, when that  *)
(* could not be read.                                                          *)
SeedsWhenNoneConfigured ==
    [][Publishes(Boot) => ~Loaded(file).admin]_storeVars
=============================================================================
