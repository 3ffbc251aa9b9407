----------------------------- MODULE MCCapture ------------------------------
(***************************************************************************)
(* Capture with one webhook that two tenants register for, one operation   *)
(* that subscribes and emits, one that unsubscribes and one that mints an  *)
(* identifier.                                                             *)
(***************************************************************************)
EXTENDS Capture, TLC

MCWebhooks == {"changed"}
MCScopes == {"", "acme"}
MCKeys == MCWebhooks \X MCScopes
MCRequests == 1..MaxRequests
MCOperations == {"subscribe", "unsubscribe", "create"}

For(kind) == [kind |-> kind, webhook |-> "changed"]
MCRules == [op \in MCOperations |->
  CASE op = "subscribe" -> <<For("callback"), For("register")>>
    [] op = "unsubscribe" -> <<For("unregister")>>
    [] op = "create" -> <<[kind |-> "link"]>>]
MCEmits == [op \in MCOperations |-> IF op = "subscribe" THEN <<"changed">> ELSE <<>>]

Subscribe(scope, url) ==
  [op |-> "subscribe", scope |-> scope, url |-> url, id |-> Unresolved, accepted |-> TRUE]
Unsubscribe ==
  [op |-> "unsubscribe", scope |-> "acme", url |-> FALSE, id |-> Unresolved, accepted |-> TRUE]
Create(id, accepted) ==
  [op |-> "create", scope |-> Unresolved, url |-> FALSE, id |-> id, accepted |-> accepted]

\* A request that is not accepted does nothing, whatever its operation: one
\* operation stands for all.
MCInputs ==
  {Subscribe("acme", TRUE), Subscribe("acme", FALSE), Subscribe(Unresolved, TRUE), Unsubscribe}
  \cup {Create(id, accepted) : id \in Ids, accepted \in BOOLEAN}
  \cup {Create(Unresolved, TRUE)}

\* The registry and the links share nothing but the pass.
MCMixes == {{"subscribe", "unsubscribe", "control"}, {"create"}}

IdSymmetry == Permutations(Ids)
=============================================================================
