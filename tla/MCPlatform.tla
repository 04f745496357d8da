----------------------------- MODULE MCPlatform -----------------------------
(***************************************************************************)
(* One community of the manifest and one an operator provisions.           *)
(***************************************************************************)
EXTENDS Platform, TLC

CONSTANTS valley, acme

MCPlanFeatures == "community" :> {"community"} @@ "premium" :> {"community", "market"}

\* The media asset of the valley is stored under another tenant's folder.
MCRows == {[id |-> 1, tenant |-> valley, sound |-> TRUE],
           [id |-> 2, tenant |-> valley, sound |-> FALSE],
           [id |-> 3, tenant |-> acme, sound |-> TRUE]}
=============================================================================
