--------------------------- MODULE MCEdgePublish ---------------------------
(* EdgePublish for TLC: two directories, one with a _headers file.         *)
EXTENDS EdgePublish, TLC

CONSTANTS c1, c2

MCBundles == {"one", "two"}

MCHeaders == "one" :> "plain" @@ "two" :> "none"

OneDomain == <<"www">>

TwoDomains == <<"www", "apex">>

LiveOnly == {[environment |-> "production", promote |-> TRUE]}

LiveOrNot == {[environment |-> "production", promote |-> p] : p \in BOOLEAN}

\* One operator deploys, rolls back and recovers; another moves the static
\* Worker, changes what is active or deletes beside the first.
MCKinds ==
  c1 :> {"cloudflare_static", "hybrid_edge", "rollback", "recover_static", "recover_hybrid"}
  @@ c2 :> {"origin_assisted", "refresh", "promote", "delete",
            "publish_static", "activate_static"}

MCMaxCommands == c1 :> 2 @@ c2 :> 1

HybridOnly == c1 :> {"hybrid_edge"}

TwoDeploys == c1 :> 2
=============================================================================
