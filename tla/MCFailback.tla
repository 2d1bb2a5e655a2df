----------------------------- MODULE MCFailback ------------------------------
(***************************************************************************)
(* An instance of Failover for liveness: opus and sonnet, which was given  *)
(* no priority, as siblings that take turns; after a save, opus strictly   *)
(* before sonnet, whose base URL is malformed then.  Chats and streams are *)
(* routed, embeddings name sonnet.                                         *)
(***************************************************************************)
EXTENDS Failover

Model(name, priority, urlOk) ==
    [name |-> name, technicalName |-> name, priority |-> priority, longContext |-> FALSE,
     maxContextTokens |-> 0, enabled |-> TRUE, urlOk |-> urlOk]

Config(models) ==
    [tiers |-> [advanced |-> models], rules |-> {}, longContextThreshold |-> 2,
     modelAlias |-> <<>>, defaultTier |-> "advanced", headerOverride |-> TRUE]

MCConfigs == << Config(<<Model("opus", 1, TRUE), Model("sonnet", 0, TRUE)>>),
                Config(<<Model("opus", 1, TRUE), Model("sonnet", 2, FALSE)>>) >>

MCKeys == {"advanced"} \X {"opus", "sonnet"}

Input(kind, name) == [kind |-> kind, model |-> name, tierHeader |-> "", turns |-> 1,
                      tokens |-> 1, tools |-> FALSE, code |-> FALSE]

MCInputs == {Input("chat", "auto"), Input("stream", "auto"), Input("embed", "sonnet")}
=============================================================================
