-------------------------- MODULE MCHubPoolClient --------------------------
(* Values for model-checking HubPoolClient.                                *)
EXTENDS HubPoolClient

MCChainIdList == <<1, 10>>

(* Bundles before and after the second chain is added, and end blocks      *)
(* beyond what a number can hold.                                          *)
MCBundleForms ==
  {[leaves |-> 1, ends |-> <<1>>], [leaves |-> 2, ends |-> <<2, 1>>],
   [leaves |-> 1, ends |-> <<2, 1>>], [leaves |-> 1, ends |-> <<3, 999>>]}

(* One dispute or cancellation is as good as another, and token listings   *)
(* do not mix with bundles.                                                *)
Scenario(kinds, events, last, ends, f, t) ==
  [kinds |-> kinds, events |-> events, last |-> last, toBlocks |-> ends,
   failures |-> f, throws |-> t]
OnlyBundles ==
  {Scenario({"ProposeRootBundle", "RootBundleExecuted", "RootBundleDisputed"}, 4, 5, {}, 0, 0)}

=============================================================================
