--------------------------- MODULE WebhookClaims ---------------------------
(***************************************************************************)
(* What a comment of convex/deliveryLedger.ts says of a redelivery, which  *)
(* the handler in convex/http.ts does not keep.                            *)
(***************************************************************************)
EXTENDS GitHubWebhook

Done(d, s, n) == effects[d, <<s, n>>] = 1

\* What a delivery has begun it has brought to its end: the reviewer, or the
\* coordinator, is told; the mission has its tasks and is announced.
Finished(d) ==
  /\ Done(d, "review-task", 0) =>
       Done(d, "review-notice", 0) \/ Done(d, "reviewer-unresolved", 0)
  /\ Done(d, "mission", 0) =>
       /\ \A n \in 0..LastStep - 1 : Done(d, "cascade-task", n)
       /\ Done(d, "issue-opened-notice", 0)

Alone(a) ==
  \A b \in Attempt \ {a} :
    attempt[b].delivery = attempt[a].delivery => attempt[b].pc \notin Waiting

\* "a redelivery redoes exactly the work that never committed"
\* (deliveryLedger.ts:51): when a run answers 200 and no other run of its
\* delivery is in progress, nothing the delivery began is left undone.
RedeliveryRedoes ==
  [][\A a \in Attempt : \A d \in Delivery :
       attempt[a].delivery = d /\ attempt[a].pc \in Waiting /\ attempt'[a].pc = "ok" /\ Alone(a)
         => Finished(d)']_vars
=============================================================================
