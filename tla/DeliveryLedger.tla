--------------------------- MODULE DeliveryLedger ---------------------------
(***************************************************************************)
(* The ledger of webhook deliveries (convex/deliveryLedger.ts).  GitHub    *)
(* delivers an event under one id, again under the same id on request and  *)
(* for a few days only; a mutation claims its step of the delivery as the  *)
(* first write of its own transaction; a cron drops old claims.            *)
(***************************************************************************)
EXTENDS Integers, FiniteSets

CONSTANTS
  Delivery,        \* x-github-delivery ids
  Step,            \* the creating call sites inside one delivery
  WindowDays,      \* how long GitHub lets a delivery be sent again
  RetentionDays,   \* WEBHOOK_DELIVERY_RETENTION_MS
  PurgeBatch,      \* WEBHOOK_DELIVERY_PURGE_BATCH
  MaxDay           \* bound: the calendar stops here

\* "GitHub allows a delivery to be redelivered for 3 days; keep the ledger 7."
ASSUME LedgerAssumption ==
  /\ WindowDays \in Nat /\ RetentionDays \in Nat /\ MaxDay \in Nat
  /\ WindowDays <= RetentionDays
  /\ PurgeBatch \in Nat \ {0}

VARIABLES
  day,
  webhookDeliveries     \* the claims

ledgerVars == <<day, webhookDeliveries>>

Claim == [delivery : Delivery, step : Step, receivedAt : Nat]

LedgerInit == day = 0 /\ webhookDeliveries = {}

Claimed(d, s) == \E x \in webhookDeliveries : x.delivery = d /\ x.step = s

\* claimDeliveryStep, when it returns true.
ClaimDeliveryStep(d, s) ==
  /\ ~Claimed(d, s)
  /\ webhookDeliveries' = webhookDeliveries \cup
       {[delivery |-> d, step |-> s, receivedAt |-> day]}

\* Variant: retention counted from the start of the day.
ExpiredToday == {x \in webhookDeliveries : x.receivedAt < day}

Expired == {x \in webhookDeliveries : x.receivedAt < day - RetentionDays}

\* purgeExpired: the oldest expired claims, at most PurgeBatch of them.
PurgeExpired ==
  /\ \E S \in SUBSET Expired :
       /\ S # {}
       /\ S = Expired \/ Cardinality(S) = PurgeBatch
       /\ Cardinality(S) <= PurgeBatch
       /\ \A x \in S, y \in Expired \ S : x.receivedAt <= y.receivedAt
       /\ webhookDeliveries' = webhookDeliveries \ S
  /\ UNCHANGED day
=============================================================================
