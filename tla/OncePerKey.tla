----------------------------- MODULE OncePerKey -----------------------------
(***************************************************************************)
(* What the delivery ledger promises (convex/deliveryLedger.ts): whatever  *)
(* is delivered again, each piece of work takes effect at most once.       *)
(***************************************************************************)
EXTENDS Naturals

CONSTANT Key

VARIABLE effects      \* how often the work of a key has taken effect

Init == effects = [k \in Key |-> 0]

TakeEffect(k) ==
  /\ effects[k] = 0
  /\ effects' = [effects EXCEPT ![k] = 1]

Next == \E k \in Key : TakeEffect(k)

Spec == Init /\ [][Next]_effects
=============================================================================
