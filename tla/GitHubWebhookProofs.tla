------------------------ MODULE GitHubWebhookProofs ------------------------
(***************************************************************************)
(* The webhook keeps its types, and it implements OncePerKey: each claimed *)
(* step of a delivery takes effect at most once, for any number of         *)
(* deliveries, runs and days.  The error monitor, whose issues the same    *)
(* endpoint turns into missions, declares a recurrence only for an error   *)
(* that was quiet for the window (RecurrencesAreMeasured).                 *)
(***************************************************************************)
EXTENDS GitHubWebhook, ErrorMonitor, FiniteSetTheorems, TLAPS

Running(a) == attempt[a].pc \in Waiting

\* Where a run is agrees with what its delivery stands for.
Placed(a) ==
  LET d == attempt[a].delivery
      pc == attempt[a].pc
  IN  /\ d \in Delivery /\ event[d] \in Event /\ event[d] # Nothing
      /\ pc \in {"review-task", "close"} => event[d].on \in PullRequest
      /\ pc \in {"look", "mission"} => event[d].on \in Issue /\ attempt[a].n = 0
      /\ pc = "cascade-task" => attempt[a].n < LastStep

TypeInv == TypeOK /\ \A a \in Attempt : Running(a) => Placed(a)

AttemptsPlaced ==
  /\ attempt \in [Attempt -> [delivery : Delivery \cup {Nothing},
                              pc : {"idle"} \cup Waiting \cup Final,
                              n : 0..LastStep]]
  /\ \A a \in Attempt : Running(a) => Placed(a)

\* A run never sits at a step of a claim outside Step.
LEMMA ClaimedSteps ==
  /\ \A s \in {"review-task", "review-notice", "reviewer-unresolved", "mission",
               "bridge-covered", "issue-opened-notice"} : <<s, 0>> \in Step
  /\ \A n \in 0..LastStep : <<"cascade-task", n>> \in Step
BY WebhookAssumption DEF StepNames

\* What a commit or a skipped claim does to the claims and to the history.
LEMMA CommitTypes ==
  ASSUME TypeInv, NEW d \in Delivery, NEW s \in Step, CommitOrSkip(d, s)
  PROVE  /\ webhookDeliveries' \subseteq Claim
         /\ effects' \in [Delivery \X Step -> Nat]
<1>1. CASE Commit(d, s)
  <2>1. [delivery |-> d, step |-> s, receivedAt |-> day] \in Claim
    BY LedgerAssumption DEF TypeInv, TypeOK, Claim
  <2>2. webhookDeliveries' \subseteq Claim
    BY <1>1, <2>1 DEF Commit, ClaimDeliveryStep, TypeInv, TypeOK
  <2>3. PICK k \in Delivery \X Step : k = <<d, s>>
    OBVIOUS
  <2>4. effects' = [effects EXCEPT ![k] = effects[k] + 1]
    BY <1>1, <2>3 DEF Commit
  <2>5. effects' \in [Delivery \X Step -> Nat]
    BY <2>4 DEF TypeInv, TypeOK
  <2> QED
    BY <2>2, <2>5
<1>2. CASE UNCHANGED <<webhookDeliveries, effects>>
  BY <1>2 DEF TypeInv, TypeOK
<1> QED BY <1>1, <1>2 DEF CommitOrSkip

\* A run that goes on, or ends, leaves every run placed.
LEMMA Moves ==
  ASSUME TypeInv, NEW a \in Attempt, NEW pc \in Waiting \cup Final,
         Running(a), Goto(a, pc), UNCHANGED event,
         pc \in {"review-task", "close", "look", "cascade-task"} => FALSE,
         pc = "mission" => At(a, "look")
  PROVE  AttemptsPlaced'
BY DEF AttemptsPlaced, TypeInv, TypeOK, Running, Placed, Goto, At, Waiting, Final
-----------------------------------------------------------------------------
LEMMA TypeStart == Init => TypeInv
BY LedgerAssumption, WebhookAssumption
   DEF Init, LedgerInit, TypeInv, TypeOK, Idle, NoReview, Running, Waiting

LEMMA SendTypes ==
  ASSUME TypeInv, NEW d \in Delivery, NEW e \in Event, Send(d, e),
         pull' \in [PullRequest -> {"none", "open", "closed"}]
  PROVE  TypeInv'
BY DEF TypeInv, TypeOK, Send, ledgerVars, tableVars, Running, Placed

LEMMA MutationTypes ==
  ASSUME TypeInv, NEW a \in Attempt, NEW s \in Step, NEW pc \in Waiting,
         NEW next \in {"ok", "reviewer-unresolved", "issue-opened-notice"},
         Mutation(a, pc, s, next)
  PROVE  TypeInv'
<1> DEFINE d == attempt[a].delivery
<1>1. Running(a) /\ d \in Delivery
  BY DEF Mutation, At, TypeInv, Running, Placed
<1>2. /\ webhookDeliveries' \subseteq Claim
      /\ effects' \in [Delivery \X Step -> Nat]
  <2>1. CommitOrSkip(d, s)
    BY DEF Mutation
  <2> QED BY <1>1, <2>1, CommitTypes
<1>3. next \in Waiting \cup Final
  BY DEF Waiting, Final
<1>4. AttemptsPlaced'
  BY <1>1, <1>3, Moves DEF Mutation, hubVars
<1> QED
  BY <1>2, <1>4 DEF Mutation, hubVars, tableVars, AttemptsPlaced, TypeInv, TypeOK

LEMMA RunTypes ==
  ASSUME TypeInv, NEW a \in Attempt, Run(a)
  PROVE  TypeInv'
<1> DEFINE d == attempt[a].delivery
           Names == {"review-task", "review-notice", "reviewer-unresolved",
                     "mission", "bridge-covered", "issue-opened-notice"}
<1>a. \A s \in Names : <<s, 0>> \in Step
  BY ClaimedSteps
<1>b. \A n \in 0..LastStep : <<"cascade-task", n>> \in Step
  BY ClaimedSteps
<1>c. LastStep \in 0..LastStep
  BY WebhookAssumption
<1>1. CASE ReviewTask(a)
  <2>1. /\ Running(a) /\ d \in Delivery /\ Subject(a) \in PullRequest
        /\ <<"review-task", 0>> \in Step
    BY <1>1, <1>a DEF ReviewTask, At, Running, Waiting, TypeInv, Placed, Subject
  <2>2. CommitOrSkip(d, <<"review-task", 0>>)
    BY <1>1 DEF ReviewTask, CommitOrSkip
  <2>3. webhookDeliveries' \subseteq Claim /\ effects' \in [Delivery \X Step -> Nat]
    BY <2>1, <2>2, CommitTypes
  <2>4. \E pc \in {"ok", "review-notice", "reviewer-unresolved"} : Goto(a, pc)
    BY <1>1 DEF ReviewTask
  <2>5. AttemptsPlaced'
    BY <1>1, <2>1, <2>4, Moves DEF ReviewTask, hubVars, Waiting, Final
  <2>6. Reviewer \in Agent \cup {Nothing}
    BY DEF Reviewer, TypeInv, TypeOK, Config
  <2>7. review' \in [ReviewRow -> [status : OpenStatus \cup {"absent", "done"},
                                  pull : PullRequest \cup {Nothing},
                                  assignedTo : Agent \cup {Nothing}]]
    BY <1>1, <2>1, <2>6 DEF ReviewTask, CreateOrUpdate, TypeInv, TypeOK, OpenStatus
  <2> QED
    BY <1>1, <2>3, <2>5, <2>7 DEF ReviewTask, hubVars, AttemptsPlaced, TypeInv, TypeOK
<1>2. CASE ReviewNotice(a)
  BY <1>2, <1>a, MutationTypes DEF ReviewNotice, Waiting
<1>3. CASE CloseReviews(a)
  <2>1. Running(a)
    BY <1>3 DEF CloseReviews, At, Running, Waiting
  <2>2. AttemptsPlaced'
    BY <1>3, <2>1, Moves DEF CloseReviews, hubVars, Final
  <2>3. review' \in [ReviewRow -> [status : OpenStatus \cup {"absent", "done"},
                                  pull : PullRequest \cup {Nothing},
                                  assignedTo : Agent \cup {Nothing}]]
    BY <1>3 DEF CloseReviews, TypeInv, TypeOK
  <2> QED
    BY <1>3, <2>2, <2>3 DEF CloseReviews, ledgerVars, hubVars, AttemptsPlaced, TypeInv, TypeOK
<1>4. CASE Look(a)
  <2>1. Running(a)
    BY <1>4 DEF Look, At, Running, Waiting
  <2>2. \E pc \in {"ok", "mission", "bridge-covered"} : Goto(a, pc)
    BY <1>4 DEF Look
  <2>3. AttemptsPlaced'
    BY <1>4, <2>1, <2>2, Moves DEF Look, hubVars, Waiting, Final
  <2> QED
    BY <1>4, <2>3 DEF Look, ledgerVars, hubVars, tableVars, AttemptsPlaced, TypeInv, TypeOK
<1>5. CASE Bridge(a)
  BY <1>5, <1>a, MutationTypes DEF Bridge, Waiting
<1>6. CASE CreateMission(a)
  <2>1. /\ Running(a) /\ d \in Delivery /\ Subject(a) \in Issue
        /\ attempt[a].n = 0 /\ <<"mission", 0>> \in Step
    BY <1>6, <1>a DEF CreateMission, At, Running, Waiting, TypeInv, Placed, Subject
  <2>2. CommitOrSkip(d, <<"mission", 0>>)
    BY <1>6 DEF CreateMission, CommitOrSkip
  <2>3. webhookDeliveries' \subseteq Claim /\ effects' \in [Delivery \X Step -> Nat]
    BY <2>1, <2>2, CommitTypes
  <2>4. Goto(a, "ok") \/ Goto(a, StepKind(0))
    BY <1>6 DEF CreateMission
  <2>5. AttemptsPlaced'
    BY <1>6, <2>1, <2>4, WebhookAssumption
       DEF CreateMission, hubVars, Goto, StepKind, AttemptsPlaced, TypeInv, TypeOK,
           Running, Placed, Waiting, Final
  <2> QED
    BY <1>6, <2>1, <2>3, <2>5 DEF CreateMission, hubVars, AttemptsPlaced, TypeInv, TypeOK
<1>7. CASE CascadeTask(a)
  <2>1. Running(a) /\ d \in Delivery /\ attempt[a].n \in 0..LastStep /\ attempt[a].n < LastStep
    BY <1>7 DEF CascadeTask, At, Running, Waiting, TypeInv, TypeOK, Placed
  <2>2. webhookDeliveries' \subseteq Claim /\ effects' \in [Delivery \X Step -> Nat]
    <3>1. CommitOrSkip(d, <<"cascade-task", attempt[a].n>>)
      BY <1>7 DEF CascadeTask
    <3> QED BY <1>b, <2>1, <3>1, CommitTypes
  <2>3. AttemptsPlaced'
    <3> DEFINE m == attempt[a].n + 1
               after == [delivery |-> d, pc |-> StepKind(m), n |-> m]
    <3>1. m \in 0..LastStep /\ (m = LastStep \/ m < LastStep)
      BY <2>1, WebhookAssumption
    <3>2. /\ StepKind(m) \in {"resolve", "cascade-task"}
          /\ StepKind(m) = "cascade-task" => m < LastStep
      BY <3>1 DEF StepKind
    <3>3. attempt' = [attempt EXCEPT ![a] = after]
      BY <1>7 DEF CascadeTask
    <3>4. UNCHANGED event
      BY <1>7 DEF CascadeTask, hubVars
    <3> HIDE DEF m
    <3>5. after \in [delivery : Delivery \cup {Nothing}, pc : {"idle"} \cup Waiting \cup Final,
                    n : 0..LastStep]
      BY <2>1, <3>1, <3>2 DEF Waiting
    <3>6. /\ attempt'[a] = after
          /\ \A b \in Attempt \ {a} : attempt'[b] = attempt[b]
      BY <3>3 DEF TypeInv, TypeOK
    <3>7. Placed(a)'
      BY <2>1, <3>2, <3>4, <3>6 DEF TypeInv, Placed
    <3>8. \A b \in Attempt \ {a} : Running(b)' => Placed(b)'
      BY <3>4, <3>6 DEF TypeInv, Running, Placed
    <3> QED
      BY <3>3, <3>5, <3>7, <3>8 DEF AttemptsPlaced, TypeInv, TypeOK
  <2> QED
    BY <1>7, <2>2, <2>3 DEF CascadeTask, hubVars, tableVars, AttemptsPlaced, TypeInv, TypeOK
<1>8. CASE ResolveForRepo(a)
  <2>1. Running(a)
    BY <1>8 DEF ResolveForRepo, At, Running, Waiting
  <2>2. \E pc \in {"reviewer-unresolved", "cascade-review"} : Goto(a, pc)
    BY <1>8 DEF ResolveForRepo
  <2>3. AttemptsPlaced'
    BY <1>8, <2>1, <2>2, Moves DEF ResolveForRepo, hubVars, Waiting
  <2> QED
    BY <1>8, <2>3 DEF ResolveForRepo, ledgerVars, hubVars, tableVars,
                       AttemptsPlaced, TypeInv, TypeOK
<1>9. CASE CascadeReview(a)
  BY <1>9, <1>b, <1>c, MutationTypes DEF CascadeReview, Waiting
<1>10. CASE IssueNotice(a)
  BY <1>10, <1>a, MutationTypes DEF IssueNotice, Waiting
<1>11. CASE NotifyUnresolved(a)
  BY <1>11, <1>a, MutationTypes DEF NotifyUnresolved, Waiting
<1> QED BY <1>1, <1>2, <1>3, <1>4, <1>5, <1>6, <1>7, <1>8, <1>9, <1>10, <1>11 DEF Run

LEMMA TypeStep == TypeInv /\ [Next]_vars => TypeInv'
<1> SUFFICES ASSUME TypeInv, [Next]_vars PROVE TypeInv'
  OBVIOUS
<1>1. ASSUME NEW d \in Delivery, NEW p \in PullRequest, PullEvent(d, p) PROVE TypeInv'
  <2> DEFINE E(k) == [kind |-> k, on |-> p]
  <2>1. \A k \in {"opened", "synchronize", "closed"} : E(k) \in Event
    BY DEF Event
  <2>2. pull' \in [PullRequest -> {"none", "open", "closed"}]
    BY <1>1 DEF PullEvent, TypeInv, TypeOK
  <2>3. \E k \in {"opened", "synchronize", "closed"} : Send(d, E(k))
    BY <1>1 DEF PullEvent
  <2> QED BY <2>1, <2>2, <2>3, SendTypes
<1>2. ASSUME NEW d \in Delivery, NEW i \in Issue, IssueEvent(d, i) PROVE TypeInv'
  <2>1. [kind |-> "issue", on |-> i] \in Event
    BY DEF Event
  <2>2. pull' \in [PullRequest -> {"none", "open", "closed"}]
    BY <1>2 DEF IssueEvent, TypeInv, TypeOK
  <2> QED BY <1>2, <2>1, <2>2, SendTypes DEF IssueEvent
<1>3. ASSUME NEW p \in PullRequest, Reopen(p) PROVE TypeInv'
  BY <1>3 DEF Reopen, TypeInv, TypeOK, ledgerVars, tableVars, Running, Placed
<1>4. CASE Tick
  BY <1>4, LedgerAssumption
     DEF Tick, TypeInv, TypeOK, hubVars, tableVars, Running, Waiting, Final
<1>5. CASE Purge
  BY <1>5 DEF Purge, PurgeExpired, TypeInv, TypeOK, hubVars, tableVars, Running, Placed
<1>6. ASSUME NEW a \in Attempt, NEW d \in Delivery, Begin(a, d) PROVE TypeInv'
  BY <1>6, WebhookAssumption
     DEF Begin, FirstStep, TypeInv, TypeOK, ledgerVars, hubVars, tableVars,
         Running, Placed, Waiting, Final, Event
<1>7. ASSUME NEW a \in Attempt, Run(a) PROVE TypeInv'
  BY <1>7, RunTypes
<1>8. ASSUME NEW a \in Attempt, Die(a) PROVE TypeInv'
  BY <1>8 DEF Die, TypeInv, TypeOK, ledgerVars, hubVars, tableVars,
              Running, Placed, Waiting, Final
<1>9. ASSUME NEW x \in ReviewRow, Move(x) PROVE TypeInv'
  BY <1>9, WebhookAssumption
     DEF Move, TypeInv, TypeOK, ledgerVars, hubVars, Running, Placed, OpenStatus
<1>10. ASSUME NEW c \in Config, Configure(c) PROVE TypeInv'
  BY <1>10, WebhookAssumption
     DEF Configure, TypeInv, TypeOK, ledgerVars, hubVars, tableVars, Running, Placed
<1>11. CASE UNCHANGED vars
  BY <1>11 DEF vars, ledgerVars, hubVars, tableVars, TypeInv, TypeOK, Running, Placed
<1> QED
  BY <1>1, <1>2, <1>3, <1>4, <1>5, <1>6, <1>7, <1>8, <1>9, <1>10, <1>11 DEF Next, GitHub

\* Every column of the webhook's tables and runs keeps its type.
THEOREM WebhookTypeCorrect == Spec => []TypeOK
<1>1. TypeInv => TypeOK
  BY DEF TypeInv
<1> QED BY <1>1, TypeStart, TypeStep, PTL DEF Spec
-----------------------------------------------------------------------------
(* Once: while GitHub offers a delivery, a step that took effect still has *)
(* its claim, because the ledger keeps a claim at least as long.           *)

Offered(d) == day <= sentAt[d] + WindowDays

Kept(k) ==
  \E x \in webhookDeliveries : <<x.delivery, x.step>> = k /\ sentAt[k[1]] <= x.receivedAt

Remembered(k) ==
  effects[k] # 0 => /\ effects[k] = 1
                    /\ event[k[1]] # Nothing
                    /\ Offered(k[1]) => Kept(k)

OnceInv ==
  /\ \A d \in Delivery : sentAt[d] <= day
  /\ \A a \in Attempt : Running(a) => Offered(attempt[a].delivery)
  /\ \A k \in Delivery \X Step : Remembered(k)

LEMMA OnceStart == Init => OnceInv
BY LedgerAssumption
   DEF Init, LedgerInit, OnceInv, Remembered, Running, Waiting, Idle

\* A step that writes neither the ledger nor the history.
LEMMA Elsewhere ==
  ASSUME TypeInv, OnceInv, UNCHANGED <<webhookDeliveries, effects, day, event, sentAt>>,
         \A a \in Attempt : Running(a)' =>
           Running(a) /\ attempt'[a].delivery = attempt[a].delivery
  PROVE  OnceInv' /\ UNCHANGED effects
BY DEF OnceInv, Running, Offered, Kept, Remembered

\* A claimed step of a running attempt.
LEMMA CommitOnce ==
  ASSUME TypeInv, OnceInv, NEW a \in Attempt, Running(a),
         NEW d \in Delivery, d = attempt[a].delivery,
         NEW s \in Step, CommitOrSkip(d, s),
         UNCHANGED <<day, event, sentAt>>,
         \A b \in Attempt : Running(b)' =>
           Running(b) /\ attempt'[b].delivery = attempt[b].delivery
  PROVE  OnceInv' /\ [Once!Next]_effects
<1> DEFINE k == <<d, s>>
<1>1. /\ d \in Delivery /\ event[d] # Nothing /\ Offered(d)
      /\ k \in Delivery \X Step /\ k[1] = d /\ event'[k[1]] # Nothing
  BY DEF TypeInv, OnceInv, Placed
<1>2. CASE Commit(d, s)
  <2>1. ~Kept(k)
    BY <1>2 DEF Commit, ClaimDeliveryStep, Claimed, Kept
  <2>2. effects[k] = 0
    BY <1>1, <2>1 DEF OnceInv, Remembered
  <2>3. /\ webhookDeliveries \subseteq webhookDeliveries'
        /\ [delivery |-> d, step |-> s, receivedAt |-> day] \in webhookDeliveries'
    BY <1>2 DEF Commit, ClaimDeliveryStep
  <2>4. Kept(k)'
    <3> DEFINE x == [delivery |-> d, step |-> s, receivedAt |-> day]
    <3>1. /\ x \in webhookDeliveries'
          /\ <<x.delivery, x.step>> = k
          /\ sentAt'[k[1]] <= x.receivedAt
      <4>1. sentAt'[k[1]] <= day
        BY <1>1 DEF OnceInv
      <4> QED BY <2>3, <4>1
    <3> QED BY <3>1 DEF Kept
  <2>5. effects' = [effects EXCEPT ![k] = effects[k] + 1]
    BY <1>2 DEF Commit
  <2> HIDE DEF k
  <2>6. effects' = [effects EXCEPT ![k] = 1]
    BY <2>2, <2>5
  <2>7. effects'[k] = 1 /\ \A j \in (Delivery \X Step) \ {k} : effects'[j] = effects[j]
    BY <1>1, <2>6 DEF TypeInv, TypeOK
  <2>8. Remembered(k)'
    <3>1. event'[k[1]] # Nothing
      BY <1>1
    <3> QED BY <2>4, <2>7, <3>1 DEF Remembered
  <2>9. ASSUME NEW j \in (Delivery \X Step) \ {k} PROVE Remembered(j)'
    <3>1. Kept(j) => Kept(j)'
      BY <2>3 DEF Kept
    <3>2. Offered(j[1])' = Offered(j[1])
      BY DEF Offered
    <3> QED BY <2>7, <3>1, <3>2 DEF OnceInv, Remembered
  <2>10. OnceInv'
    <3>1. \A j \in Delivery \X Step : Remembered(j)'
      BY <2>8, <2>9
    <3>2. \A b \in Attempt : Running(b)' => Offered(attempt[b].delivery)'
      BY DEF OnceInv, Offered
    <3>3. \A e \in Delivery : sentAt'[e] <= day'
      BY DEF OnceInv
    <3> QED BY <3>1, <3>2, <3>3 DEF OnceInv
  <2>11. Once!Next
    BY <1>1, <2>2, <2>6 DEF Once!Next, Once!TakeEffect
  <2> QED BY <2>10, <2>11
<1>3. CASE UNCHANGED <<webhookDeliveries, effects>>
  BY <1>3, Elsewhere
<1> QED BY <1>2, <1>3 DEF CommitOrSkip

LEMMA MutationOnce ==
  ASSUME TypeInv, OnceInv, NEW a \in Attempt, NEW s \in Step, NEW pc \in Waiting,
         NEW next, Mutation(a, pc, s, next)
  PROVE  OnceInv' /\ [Once!Next]_effects
<1>1. Running(a) /\ attempt[a].delivery \in Delivery
  BY DEF Mutation, At, TypeInv, Running, Placed
<1>2. \A b \in Attempt : Running(b)' =>
        Running(b) /\ attempt'[b].delivery = attempt[b].delivery
  BY <1>1 DEF Mutation, Goto, TypeInv, TypeOK, Running
<1>3. CommitOrSkip(attempt[a].delivery, s) /\ UNCHANGED <<day, event, sentAt>>
  BY DEF Mutation, hubVars
<1> QED BY <1>1, <1>2, <1>3, CommitOnce

LEMMA RunOnce ==
  ASSUME TypeInv, OnceInv, NEW a \in Attempt, Run(a)
  PROVE  OnceInv' /\ [Once!Next]_effects
<1> DEFINE d == attempt[a].delivery
           Names == {"review-task", "review-notice", "reviewer-unresolved",
                     "mission", "bridge-covered", "issue-opened-notice"}
           RunsKept == \A b \in Attempt : Running(b)' =>
                         Running(b) /\ attempt'[b].delivery = attempt[b].delivery
<1>a. \A s \in Names : <<s, 0>> \in Step
  BY ClaimedSteps
<1>b. \A n \in 0..LastStep : <<"cascade-task", n>> \in Step
  BY ClaimedSteps
<1>c. LastStep \in 0..LastStep
  BY WebhookAssumption
<1>d. ASSUME NEW pc, Goto(a, pc), Running(a) PROVE RunsKept
  BY <1>d DEF Goto, TypeInv, TypeOK, Running
<1>1. CASE ReviewTask(a)
  <2>1. Running(a) /\ d \in Delivery
    BY <1>1 DEF ReviewTask, At, Running, Waiting, TypeInv, Placed
  <2>2. CommitOrSkip(d, <<"review-task", 0>>) /\ UNCHANGED <<day, event, sentAt>>
    BY <1>1 DEF ReviewTask, CommitOrSkip, hubVars
  <2>3. RunsKept
    BY <1>1, <1>d, <2>1 DEF ReviewTask
  <2> QED BY <1>a, <2>1, <2>2, <2>3, CommitOnce
<1>2. CASE ReviewNotice(a)
  BY <1>2, <1>a, MutationOnce DEF ReviewNotice, Waiting
<1>3. CASE CloseReviews(a)
  <2>1. RunsKept
    BY <1>3, <1>d DEF CloseReviews, At, Running, Waiting
  <2> QED BY <1>3, <2>1, Elsewhere DEF CloseReviews, ledgerVars, hubVars
<1>4. CASE Look(a)
  <2>1. RunsKept
    BY <1>4, <1>d DEF Look, At, Running, Waiting
  <2> QED BY <1>4, <2>1, Elsewhere DEF Look, ledgerVars, hubVars
<1>5. CASE Bridge(a)
  BY <1>5, <1>a, MutationOnce DEF Bridge, Waiting
<1>6. CASE CreateMission(a)
  <2>1. Running(a) /\ d \in Delivery
    BY <1>6 DEF CreateMission, At, Running, Waiting, TypeInv, Placed
  <2>2. CommitOrSkip(d, <<"mission", 0>>) /\ UNCHANGED <<day, event, sentAt>>
    BY <1>6 DEF CreateMission, CommitOrSkip, hubVars
  <2>3. RunsKept
    BY <1>6, <1>d, <2>1 DEF CreateMission
  <2> QED BY <1>a, <2>1, <2>2, <2>3, CommitOnce
<1>7. CASE CascadeTask(a)
  <2>1. Running(a) /\ d \in Delivery /\ attempt[a].n \in 0..LastStep
    BY <1>7 DEF CascadeTask, At, Running, Waiting, TypeInv, TypeOK, Placed
  <2>2. CommitOrSkip(d, <<"cascade-task", attempt[a].n>>) /\ UNCHANGED <<day, event, sentAt>>
    BY <1>7 DEF CascadeTask, hubVars
  <2>3. RunsKept
    BY <1>7, <2>1 DEF CascadeTask, TypeInv, TypeOK, Running
  <2> QED BY <1>b, <2>1, <2>2, <2>3, CommitOnce
<1>8. CASE ResolveForRepo(a)
  <2>1. RunsKept
    BY <1>8, <1>d DEF ResolveForRepo, At, Running, Waiting
  <2> QED BY <1>8, <2>1, Elsewhere DEF ResolveForRepo, ledgerVars, hubVars
<1>9. CASE CascadeReview(a)
  BY <1>9, <1>b, <1>c, MutationOnce DEF CascadeReview, Waiting
<1>10. CASE IssueNotice(a)
  BY <1>10, <1>a, MutationOnce DEF IssueNotice, Waiting
<1>11. CASE NotifyUnresolved(a)
  BY <1>11, <1>a, MutationOnce DEF NotifyUnresolved, Waiting
<1> QED BY <1>1, <1>2, <1>3, <1>4, <1>5, <1>6, <1>7, <1>8, <1>9, <1>10, <1>11 DEF Run

\* A new event: nothing has run or taken effect under its delivery id yet.
LEMMA SendOnce ==
  ASSUME TypeInv, OnceInv, NEW d \in Delivery, NEW e \in Event, Send(d, e)
  PROVE  OnceInv' /\ UNCHANGED effects
<1>1. /\ event[d] = Nothing /\ UNCHANGED <<day, webhookDeliveries, effects, attempt>>
      /\ sentAt'[d] = day
      /\ \A c \in Delivery \ {d} : sentAt'[c] = sentAt[c] /\ event'[c] = event[c]
  BY DEF Send, ledgerVars, TypeInv, TypeOK
<1>2. \A c \in Delivery : sentAt'[c] <= day'
  BY <1>1 DEF OnceInv, TypeInv, TypeOK
<1>3. \A a \in Attempt : Running(a)' => Offered(attempt[a].delivery)'
  BY <1>1 DEF OnceInv, TypeInv, Running, Placed, Offered
<1>4. ASSUME NEW k \in Delivery \X Step PROVE Remembered(k)'
  <2>1. CASE k[1] = d
    BY <1>1, <2>1 DEF OnceInv, Remembered
  <2>2. CASE k[1] # d
    BY <1>1, <2>2 DEF OnceInv, Remembered, Kept, Offered
  <2> QED BY <2>1, <2>2
<1> QED BY <1>1, <1>2, <1>3, <1>4 DEF OnceInv

LEMMA OnceStep ==
  ASSUME TypeInv, OnceInv, [Next]_vars
  PROVE  OnceInv' /\ [Once!Next]_effects
<1>1. ASSUME NEW d \in Delivery, NEW p \in PullRequest, PullEvent(d, p)
      PROVE  OnceInv' /\ UNCHANGED effects
  <2> DEFINE E(k) == [kind |-> k, on |-> p]
  <2>1. \A k \in {"opened", "synchronize", "closed"} : E(k) \in Event
    BY DEF Event
  <2>2. \E k \in {"opened", "synchronize", "closed"} : Send(d, E(k))
    BY <1>1 DEF PullEvent
  <2> QED BY <2>1, <2>2, SendOnce
<1>2. ASSUME NEW d \in Delivery, NEW i \in Issue, IssueEvent(d, i)
      PROVE  OnceInv' /\ UNCHANGED effects
  <2>1. [kind |-> "issue", on |-> i] \in Event
    BY DEF Event
  <2> QED BY <1>2, <2>1, SendOnce DEF IssueEvent
<1>3. ASSUME NEW p \in PullRequest, Reopen(p) PROVE OnceInv' /\ UNCHANGED effects
  BY <1>3, Elsewhere DEF Reopen, ledgerVars, Running
<1>4. CASE Tick
  <2>1. \A a \in Attempt : ~Running(a)'
    BY <1>4 DEF Tick, Running, Waiting, TypeInv, TypeOK
  <2>2. /\ \A d \in Delivery : sentAt'[d] <= day' /\ (Offered(d)' => Offered(d))
        /\ UNCHANGED <<webhookDeliveries, sentAt, event, effects>>
    BY <1>4, LedgerAssumption DEF Tick, hubVars, OnceInv, Offered, TypeInv, TypeOK
  <2>3. \A k \in Delivery \X Step : Remembered(k)'
    BY <2>2 DEF OnceInv, Remembered, Kept
  <2> QED BY <2>1, <2>2, <2>3 DEF OnceInv
<1>5. CASE Purge
  <2>1. /\ UNCHANGED <<day, event, sentAt, attempt, effects>>
        /\ \A x \in webhookDeliveries \ webhookDeliveries' : x.receivedAt < day - RetentionDays
    BY <1>5 DEF Purge, PurgeExpired, Expired, hubVars
  <2>2. ASSUME NEW k \in Delivery \X Step, Kept(k), Offered(k[1]) PROVE Kept(k)'
    <3>1. PICK x \in webhookDeliveries :
             <<x.delivery, x.step>> = k /\ sentAt[k[1]] <= x.receivedAt
      BY <2>2 DEF Kept
    <3>2. /\ x.receivedAt \in Nat /\ sentAt[k[1]] \in Nat /\ day \in Nat
          /\ day <= sentAt[k[1]] + WindowDays
      BY <2>2 DEF TypeInv, TypeOK, Claim, Offered
    <3>3. ~(x.receivedAt < day - RetentionDays)
      BY <3>1, <3>2, LedgerAssumption
    <3> QED BY <2>1, <3>1, <3>3 DEF Kept
  <2>3. \A k \in Delivery \X Step : Remembered(k)'
    BY <2>1, <2>2 DEF OnceInv, Remembered, Offered
  <2> QED BY <2>1, <2>3 DEF OnceInv, Running, Offered
<1>6. ASSUME NEW a \in Attempt, NEW d \in Delivery, Begin(a, d)
      PROVE  OnceInv' /\ UNCHANGED effects
  <2>1. /\ UNCHANGED <<webhookDeliveries, effects, day, event, sentAt>>
        /\ Offered(d)
        /\ attempt'[a].delivery = d
        /\ \A b \in Attempt \ {a} : attempt'[b] = attempt[b]
    BY <1>6 DEF Begin, ledgerVars, hubVars, Offered, TypeInv, TypeOK
  <2> QED BY <2>1 DEF OnceInv, Running, Offered, Remembered, Kept
<1>7. ASSUME NEW a \in Attempt, Run(a) PROVE OnceInv' /\ [Once!Next]_effects
  BY <1>7, RunOnce
<1>8. ASSUME NEW a \in Attempt, Die(a) PROVE OnceInv' /\ UNCHANGED effects
  <2>1. \A b \in Attempt : Running(b)' =>
          Running(b) /\ attempt'[b].delivery = attempt[b].delivery
    BY <1>8 DEF Die, Running, TypeInv, TypeOK
  <2> QED BY <1>8, <2>1, Elsewhere DEF Die, ledgerVars, hubVars
<1>9. ASSUME NEW x \in ReviewRow, Move(x) PROVE OnceInv' /\ UNCHANGED effects
  BY <1>9, Elsewhere DEF Move, ledgerVars, hubVars, Running
<1>10. ASSUME NEW c \in Config, Configure(c) PROVE OnceInv' /\ UNCHANGED effects
  BY <1>10, Elsewhere DEF Configure, ledgerVars, hubVars, Running
<1>11. CASE UNCHANGED vars
  BY <1>11, Elsewhere DEF vars, ledgerVars, hubVars, Running
<1> QED
  BY <1>1, <1>2, <1>3, <1>4, <1>5, <1>6, <1>7, <1>8, <1>9, <1>10, <1>11 DEF Next, GitHub

\* Each claimed step of a delivery takes effect at most once, although runs of
\* the handler overlap, die and are repeated and the ledger is purged: the
\* webhook implements OncePerKey.
THEOREM WebhookIsOnce == Spec => EffectsOnce
<1>1. Init => Once!Init
  BY DEF Init, Once!Init
<1>2. Spec => [](TypeInv /\ OnceInv)
  <2>1. Init => TypeInv /\ OnceInv
    BY TypeStart, OnceStart
  <2>2. TypeInv /\ OnceInv /\ [Next]_vars => (TypeInv /\ OnceInv)'
    BY TypeStep, OnceStep
  <2> QED BY <2>1, <2>2, PTL DEF Spec
<1>3. TypeInv /\ OnceInv /\ [Next]_vars => [Once!Next]_effects
  BY OnceStep
<1> QED BY <1>1, <1>2, <1>3, PTL DEF Spec, EffectsOnce, Once!Spec
-----------------------------------------------------------------------------
(* The one place a review task comes from. *)

LEMMA InsertedBy ==
  ASSUME TypeInv, [Next]_vars, NEW x \in ReviewRow, Inserted(x)
  PROVE  \E p : /\ OpenReviews(p) = {} /\ Reviewer # Nothing
               /\ review'[x] = [status |-> "todo", pull |-> p, assignedTo |-> Reviewer]
<1>1. review' # review
  BY DEF Inserted
<1>2. ASSUME NEW a \in Attempt, ReviewTask(a)
      PROVE  \E p : /\ OpenReviews(p) = {} /\ Reviewer # Nothing
                   /\ review'[x] = [status |-> "todo", pull |-> p, assignedTo |-> Reviewer]
  <2>1. PICK resolved \in BOOLEAN : CreateOrUpdate(Subject(a), resolved)
    BY <1>1, <1>2 DEF ReviewTask
  <2>2. PICK y \in ReviewRow :
          review' = [review EXCEPT ![y] =
            [status |-> "todo", pull |-> Subject(a), assignedTo |-> Reviewer]]
    BY <1>1, <2>1 DEF CreateOrUpdate
  <2>3. x = y
    BY <2>2 DEF Inserted, TypeInv, TypeOK
  <2>4. OpenReviews(Subject(a)) = {} /\ Reviewer # Nothing
    BY <1>1, <2>1 DEF CreateOrUpdate
  <2> QED BY <2>2, <2>3, <2>4 DEF TypeInv, TypeOK
<1>3. ASSUME NEW a \in Attempt, CloseReviews(a) PROVE FALSE
  BY <1>3 DEF CloseReviews, OpenReviews, OpenStatus, Inserted, TypeInv, TypeOK
<1>4. ASSUME NEW y \in ReviewRow, Move(y) PROVE FALSE
  BY <1>4 DEF Move, Inserted, TypeInv, TypeOK
<1>5. \A d \in Delivery : /\ \A p \in PullRequest : ~PullEvent(d, p)
                         /\ \A i \in Issue : ~IssueEvent(d, i)
  BY <1>1 DEF PullEvent, IssueEvent, Send, tableVars
<1>6. \A p \in PullRequest : ~Reopen(p)
  BY <1>1 DEF Reopen, tableVars
<1>7. ~Tick /\ ~Purge /\ \A c \in Config : ~Configure(c)
  BY <1>1 DEF Tick, Purge, Configure, tableVars
<1>8. \A a \in Attempt : ~Die(a) /\ \A d \in Delivery : ~Begin(a, d)
  BY <1>1 DEF Die, Begin, tableVars
<1>9. \A a \in Attempt : ~Look(a) /\ ~CreateMission(a) /\ ~CascadeTask(a) /\ ~ResolveForRepo(a)
  BY <1>1 DEF Look, CreateMission, CascadeTask, ResolveForRepo, tableVars
<1>10. \A a \in Attempt : /\ ~ReviewNotice(a) /\ ~Bridge(a) /\ ~CascadeReview(a)
                         /\ ~IssueNotice(a) /\ ~NotifyUnresolved(a)
  BY <1>1 DEF ReviewNotice, Bridge, CascadeReview, IssueNotice, NotifyUnresolved,
              Mutation, tableVars
<1>11. ~UNCHANGED vars
  BY <1>1 DEF vars, tableVars
<1> QED
  BY <1>2, <1>3, <1>4, <1>5, <1>6, <1>7, <1>8, <1>9, <1>10, <1>11 DEF Next, GitHub, Run

\* No second review task is created for a pull request while one is open, in
\* whatever status its reviewer has moved it to.
THEOREM OneReviewPerPull == Spec => NoSecondReview
<1>1. ASSUME TypeInv, [Next]_vars, NEW x \in ReviewRow, NEW y \in ReviewRow,
             Inserted(x), review[y].pull = review'[x].pull
      PROVE  review[y].status \notin OpenStatus
  <2>1. PICK p :
          /\ OpenReviews(p) = {} /\ Reviewer # Nothing
          /\ review'[x] = [status |-> "todo", pull |-> p, assignedTo |-> Reviewer]
    BY <1>1, InsertedBy
  <2>2. review'[x].pull = p
    BY <2>1
  <2> QED BY <1>1, <2>1, <2>2 DEF OpenReviews
<1>2. TypeInv /\ [Next]_vars =>
        \A x, y \in ReviewRow :
          Inserted(x) /\ review[y].pull = review'[x].pull => review[y].status \notin OpenStatus
  BY <1>1
<1> QED BY <1>2, TypeStart, TypeStep, PTL DEF Spec, NoSecondReview

\* A pull request is never given to its own author for review.
THEOREM AuthorsDoNotReview == Spec => AuthorNeverReviews
<1>1. ASSUME TypeInv, [Next]_vars, NEW x \in ReviewRow, Inserted(x)
      PROVE  review'[x].assignedTo # config.orchestrator
  <2>1. PICK p :
          /\ OpenReviews(p) = {} /\ Reviewer # Nothing
          /\ review'[x] = [status |-> "todo", pull |-> p, assignedTo |-> Reviewer]
    BY <1>1, InsertedBy
  <2>2. review'[x].assignedTo = Reviewer
    BY <2>1
  <2> QED BY <2>1, <2>2 DEF Reviewer
<1>2. TypeInv /\ [Next]_vars =>
        \A x \in ReviewRow : Inserted(x) => review'[x].assignedTo # config.orchestrator
  BY <1>1
<1> QED BY <1>2, TypeStart, TypeStep, PTL DEF Spec, AuthorNeverReviews

-----------------------------------------------------------------------------
(* The error monitor.                                                      *)

\* What the actions hold refers to rows and issues there are.
HoldersRefer ==
  /\ \A f \in filings : /\ errorLogs[f.of] # Nothing /\ f.issue \in 0 .. Len(issues)
                        /\ f.pc = "link" => f.issue # 0
  /\ \A i \in DOMAIN resolver : LET stale == resolver[i] IN
       /\ errorLogs[stale.of] # Nothing
       /\ stale.issueNumber \in DOMAIN issues /\ stale.mission \in DOMAIN issues
  /\ poll # Nothing => poll.upTo <= Len(entries)

\* An error without a row was never counted; an issue is created by its number.
RowsRefer ==
  \A e \in Error : /\ errorLogs[e] = Nothing <=> counted[e] = <<>>
                   /\ errorLogs[e] # Nothing /\ errorLogs[e].issueCreated => errorLogs[e].issueNumber # 0

\* An armed baseline stands before a gap, and past every recurrence declared.
Armed(e) ==
  LET b == errorLogs[e].reRaiseBaselineCount IN
  errorLogs[e] # Nothing /\ b # Nothing =>
    /\ b \in Nat /\ 1 <= b /\ b < Len(counted[e]) /\ Gap(e, b + 1)
    /\ \A k \in Declared(e) : k <= b

DeclaredCounted == \A e \in Error : \A k \in Declared(e) : k \in Nat /\ k <= Len(counted[e])

Measures == DeclaredCounted /\ RecurrenceIsMeasured /\ \A e \in Error : Armed(e)

AlarmInv == AlarmsTyped /\ HoldersRefer /\ RowsRefer /\ Measures

LEMMA DeclaredBy ==
  ASSUME NEW e, NEW k
  PROVE  k \in Declared(e) <=> \/ \E f \in filings : f.of = e /\ f.recurring /\ k = f.at
                               \/ \E n \in DOMAIN issues :
                                    issues[n].of = e /\ issues[n].recurring /\ k = issues[n].at
BY DEF Declared

LEMMA DeclaredByThen ==
  ASSUME NEW e, NEW k
  PROVE  k \in Declared(e)' <=> \/ \E f \in filings' : f.of = e /\ f.recurring /\ k = f.at
                                \/ \E n \in DOMAIN issues' :
                                     issues'[n].of = e /\ issues'[n].recurring /\ k = issues'[n].at
BY DEF Declared

\* A step that counts nothing, declares nothing and arms nothing.
LEMMA MeasuresStay ==
  ASSUME Measures, UNCHANGED counted,
         \A e \in Error : Declared(e)' \subseteq Declared(e),
         \A e \in Error : errorLogs'[e] # Nothing =>
            /\ errorLogs[e] # Nothing
            /\ errorLogs'[e].reRaiseBaselineCount = errorLogs[e].reRaiseBaselineCount
  PROVE  Measures'
<1>1. DeclaredCounted'
  BY DEF Measures, DeclaredCounted
<1>2. RecurrenceIsMeasured'
  BY DEF Measures, RecurrenceIsMeasured, Gap
<1>3. ASSUME NEW e \in Error PROVE Armed(e)'
  BY DEF Measures, Armed, Gap
<1> QED BY <1>1, <1>2, <1>3 DEF Measures

\* Filings and issues that keep of, at and recurring declare what was declared.
LEMMA DeclareNothing ==
  ASSUME \A g \in filings' : \/ \E f \in filings : g.of = f.of /\ g.at = f.at /\ g.recurring = f.recurring,
         \A m \in DOMAIN issues' :
            \/ \E n \in DOMAIN issues : /\ issues'[m].of = issues[n].of /\ issues'[m].at = issues[n].at
                                        /\ issues'[m].recurring = issues[n].recurring
            \/ \E f \in filings : /\ issues'[m].of = f.of /\ issues'[m].at = f.at
                                  /\ issues'[m].recurring = f.recurring
  PROVE  \A e \in Error : Declared(e)' \subseteq Declared(e)
<1> SUFFICES ASSUME NEW e \in Error, NEW k, k \in Declared(e)' PROVE k \in Declared(e)
  OBVIOUS
<1>1. CASE \E f \in filings' : f.of = e /\ f.recurring /\ k = f.at
  BY <1>1, DeclaredBy
<1>2. CASE \E n \in DOMAIN issues' : issues'[n].of = e /\ issues'[n].recurring /\ k = issues'[n].at
  BY <1>2, DeclaredBy
<1> QED BY <1>1, <1>2, DeclaredByThen

LEMMA AlarmStart == AlarmInit => AlarmInv
<1> SUFFICES ASSUME AlarmInit PROVE AlarmInv
  OBVIOUS
<1>1. AlarmsTyped
  BY AlarmAssumption DEF AlarmInit, AlarmsTyped
<1>2. HoldersRefer /\ RowsRefer
  BY DEF AlarmInit, HoldersRefer, RowsRefer
<1>3. \A e \in Error : Declared(e) = {}
  BY DEF AlarmInit, Declared
<1>4. Measures
  BY <1>3 DEF AlarmInit, Measures, DeclaredCounted, RecurrenceIsMeasured, Armed
<1> QED BY <1>1, <1>2, <1>4 DEF AlarmInv

-----------------------------------------------------------------------------
\* Counting an error.

\* What UpsertError writes to a row.
Written(row, n, t, b, c) ==
  [row EXCEPT !.count = n, !.lastSeen = t, !.reRaiseBaselineCount = b, !.issueCreated = c]

LEMMA RowWritten ==
  ASSUME NEW row \in ErrorLog, NEW n \in Nat, NEW t \in Nat,
         NEW b \in Nat \cup {Nothing}, NEW c \in BOOLEAN,
         NEW r, r = Written(row, n, t, b, c)
  PROVE  /\ r \in ErrorLog
         /\ r.count = n /\ r.lastSeen = t /\ r.reRaiseBaselineCount = b /\ r.issueCreated = c
         /\ r.issueNumber = row.issueNumber /\ r.irpMissionId = row.irpMissionId
<1>1. r.count = n /\ r.lastSeen = t
  BY DEF ErrorLog, Written
<1>2. r.reRaiseBaselineCount = b /\ r.issueNumber = row.issueNumber /\ r.irpMissionId = row.irpMissionId
  BY DEF ErrorLog, Written
<1>3. r.issueCreated = c
  BY Zenon DEF ErrorLog, Written
<1>4. r \in ErrorLog
  BY DEF ErrorLog, Written
<1> QED BY <1>1, <1>2, <1>3, <1>4

LEMMA ResolverTyped ==
  ASSUME AlarmsTyped
  PROVE  \A i \in DOMAIN resolver : resolver[i] \in Stale /\ resolver[i].of \in Error
<1>1. \A i \in DOMAIN resolver : resolver[i] \in Stale
  BY DEF AlarmsTyped
<1> QED BY <1>1 DEF Stale

LEMMA UpsertKeeps ==
  ASSUME AlarmInv, NEW e \in Error, UpsertError(e)
  PROVE  AlarmInv'
<1> DEFINE row == errorLogs[e]
           n == Len(counted[e])
<1>1. counted' = [counted EXCEPT ![e] = Append(counted[e], time)]
  BY DEF UpsertError
<1>2. counted[e] \in Seq(Nat) /\ time \in Nat /\ n \in Nat
  BY DEF AlarmInv, AlarmsTyped
<1>3. /\ counted' \in [Error -> Seq(Nat)]
      /\ \A d \in Error \ {e} : counted'[d] = counted[d]
      /\ Len(counted'[e]) = n + 1 /\ counted'[e][n + 1] = time
      /\ \A i \in 1 .. n : counted'[e][i] = counted[e][i]
  BY <1>1, <1>2 DEF AlarmInv, AlarmsTyped
<1>4. \A d \in Error : \A g \in 1 .. Len(counted[d]) : Gap(d, g)' = Gap(d, g)
  BY <1>1, <1>2, <1>3 DEF Gap, AlarmInv, AlarmsTyped
<1>5. CASE row = Nothing
  <2>1. errorLogs' = [errorLogs EXCEPT ![e] = FreshRow] /\ filings' = filings /\ issues' = issues
    BY <1>5 DEF UpsertError
  <2>2. FreshRow \in ErrorLog
    BY <1>2 DEF FreshRow, ErrorLog
  <2>3. n = 0
    BY <1>5 DEF AlarmInv, RowsRefer
  <2>4. AlarmsTyped'
    <3>1. errorLogs' \in [Error -> ErrorLog \cup {Nothing}] /\ errorLogs'[e] = FreshRow
      BY <2>1, <2>2 DEF AlarmInv, AlarmsTyped
    <3>2. poll' \in Poll \cup {Nothing}
      BY DEF UpsertError, AlarmInv, AlarmsTyped, Poll
    <3>3. Last(counted'[e]) = time
      BY <1>3, <2>3 DEF Last
    <3>4. FreshRow.issueNumber = 0 /\ FreshRow.irpMissionId = 0 /\ FreshRow.count = 1 /\ FreshRow.lastSeen = time
      BY DEF FreshRow
    <3>5. ASSUME NEW d \in Error, errorLogs'[d] # Nothing
          PROVE  /\ errorLogs'[d].issueNumber \in 0 .. Len(issues) /\ errorLogs'[d].irpMissionId \in 0 .. Len(issues)
                 /\ errorLogs'[d].count = Len(counted'[d]) /\ errorLogs'[d].lastSeen = Last(counted'[d])
      <4>1. CASE d = e
        BY <4>1, <3>1, <3>3, <3>4, <1>3, <2>3 DEF AlarmInv, AlarmsTyped
      <4>2. CASE d # e
        BY <4>2, <3>5, <2>1, <1>3 DEF AlarmInv, AlarmsTyped
      <4> QED BY <4>1, <4>2
    <3> QED BY <2>1, <3>1, <3>2, <1>3, <3>5 DEF UpsertError, AlarmInv, AlarmsTyped
  <2>5. HoldersRefer' /\ RowsRefer'
    <3>1. \A d \in Error \ {e} : errorLogs'[d] = errorLogs[d]
      BY <2>1 DEF AlarmInv, AlarmsTyped
    <3>2. errorLogs'[e] = FreshRow /\ ~FreshRow.issueCreated /\ FreshRow # Nothing
      BY <2>1, <2>2, AlarmAssumption DEF AlarmInv, AlarmsTyped, FreshRow
    <3>3. poll' # Nothing => poll'.upTo <= Len(entries')
      BY DEF UpsertError, AlarmInv, AlarmsTyped, HoldersRefer, Poll
    <3>4. \A d \in Error : errorLogs[d] # Nothing => errorLogs'[d] # Nothing
      BY <3>1, <3>2
    <3>5. \A f \in filings : f.of \in Error
      BY DEF AlarmInv, AlarmsTyped, Filing
    <3>6. \A i \in DOMAIN resolver : resolver[i].of \in Error
      BY ResolverTyped DEF AlarmInv
    <3>7. HoldersRefer'
      BY <3>3, <3>4, <3>5, <3>6, <2>1 DEF UpsertError, AlarmInv, HoldersRefer
    <3> QED BY <3>1, <3>2, <3>7, <1>3 DEF RowsRefer, AlarmInv
  <2>6. \A d \in Error : Declared(d)' = Declared(d)
    BY <2>1 DEF Declared
  <2>7. DeclaredCounted'
    <3>1. \A d \in Error : Len(counted[d]) \in Nat /\ Len(counted'[d]) \in Nat /\ Len(counted[d]) <= Len(counted'[d])
      <4>1. \A d \in Error : counted[d] \in Seq(Nat) /\ counted'[d] \in Seq(Nat)
        BY <1>3 DEF AlarmInv, AlarmsTyped
      <4>2. \A d \in Error : Len(counted[d]) \in Nat /\ Len(counted'[d]) \in Nat
        BY <4>1
      <4>3. ASSUME NEW d \in Error PROVE Len(counted[d]) <= Len(counted'[d])
        <5>1. CASE d = e
          BY <5>1, <1>2, <1>3
        <5>2. CASE d # e
          BY <5>2, <4>2, <1>3
        <5> QED BY <5>1, <5>2
      <4> QED BY <4>2, <4>3
    <3>2. \A d \in Error : \A k \in Declared(d) : k \in Nat /\ k <= Len(counted[d])
      BY DEF AlarmInv, Measures, DeclaredCounted
    <3> QED BY <2>6, <3>1, <3>2 DEF DeclaredCounted
  <2>8. RecurrenceIsMeasured'
    <3> SUFFICES ASSUME NEW d \in Error, NEW k \in Declared(d)
                 PROVE  \E g \in 2 .. k : /\ Gap(d, g)' /\ k - g + 1 >= Threshold
                                          /\ \A j \in Declared(d) : j < k => j < g
      BY <2>6 DEF RecurrenceIsMeasured
    <3>1. PICK g \in 2 .. k : Gap(d, g) /\ k - g + 1 >= Threshold
                              /\ \A j \in Declared(d) : j < k => j < g
      BY DEF AlarmInv, Measures, RecurrenceIsMeasured
    <3>2. k \in Nat /\ k <= Len(counted[d])
      BY DEF AlarmInv, Measures, DeclaredCounted
    <3>3. g \in 1 .. Len(counted[d])
      BY <3>2
    <3> QED BY <3>1, <3>3, <1>4
  <2>9. ASSUME NEW d \in Error PROVE Armed(d)'
    <3>1. CASE d = e
      BY <3>1, <2>1 DEF Armed, FreshRow, AlarmInv, AlarmsTyped
    <3>2. CASE d # e
      <4>1. errorLogs'[d] = errorLogs[d] /\ counted'[d] = counted[d] /\ Declared(d)' = Declared(d)
        BY <3>2, <2>1, <2>6, <1>3 DEF AlarmInv, AlarmsTyped
      <4>2. Armed(d)
        BY DEF AlarmInv, Measures
      <4> QED BY <4>1, <4>2 DEF Armed, Gap
    <3> QED BY <3>1, <3>2
  <2> QED BY <2>4, <2>5, <2>7, <2>8, <2>9 DEF AlarmInv, Measures
<1>6. CASE row # Nothing
  <2> DEFINE measured == IsMeasuredReRaise(row)
  <2>1. row \in ErrorLog /\ row.count = n /\ row.lastSeen = Last(counted[e]) /\ row \in [count : Nat, lastSeen : Nat, issueCreated : BOOLEAN, issueNumber : Nat,
             irpMissionId : Nat, reRaiseBaselineCount : Nat \cup {Nothing},
             autoResolved : BOOLEAN]
    BY <1>6 DEF AlarmInv, AlarmsTyped, ErrorLog
  <2>2. PICK b \in Nat \cup {Nothing} : b = IF measured THEN Nothing ELSE Baseline(row)
    BY <2>1 DEF Baseline
  <2>3. PICK c \in BOOLEAN : c = (row.issueCreated /\ ~measured)
    OBVIOUS
  <2>31. PICK m \in Nat : m = row.count + 1
    BY <2>1, <1>2
  <2>32. PICK now \in Nat : now = time
    BY <1>2
  <2>4. PICK r : r = Written(row, m, now, b, c)
    OBVIOUS
  <2>5. r \in ErrorLog /\ m = n + 1 /\ r.count = m /\ r.lastSeen = time /\ r.reRaiseBaselineCount = b
        /\ r.issueCreated = c /\ r.issueNumber = row.issueNumber /\ r.irpMissionId = row.irpMissionId
    <3>1. PICK old \in ErrorLog : old = row
      BY <2>1
    <3>4. r = Written(old, m, now, b, c)
      BY <3>1, <2>4
    <3>2. /\ r \in ErrorLog /\ r.count = m /\ r.lastSeen = now /\ r.reRaiseBaselineCount = b
          /\ r.issueCreated = c /\ r.issueNumber = old.issueNumber /\ r.irpMissionId = old.irpMissionId
      BY <3>4, RowWritten
    <3>3. m = n + 1
      BY <2>1, <2>31
    <3> QED BY <3>1, <3>2, <3>3, <2>32
  <2>6. errorLogs' = [errorLogs EXCEPT ![e] = r]
    BY <1>6, <2>2, <2>3, <2>31, <2>32, <2>4 DEF UpsertError, AlarmInv, AlarmsTyped, Written
  <2>7. PICK again \in BOOLEAN : again = measured
    BY DEF IsMeasuredReRaise, Attested
  <2>8. PICK fresh \in SUBSET {[of |-> e, at |-> m, recurring |-> again, pc |-> "scheduled", issue |-> 0]} :
          filings' = filings \cup fresh /\ (measured => fresh # {})
    <3>1. filings' = filings \cup
               {f \in {[of |-> e, at |-> row.count + 1, recurring |-> IsMeasuredReRaise(row),
                        pc |-> "scheduled", issue |-> 0]} : ShouldCreateIssue(row)}
      BY <1>6 DEF UpsertError
    <3>2. measured => ShouldCreateIssue(row)
      BY DEF ShouldCreateIssue
    <3> HIDE DEF measured
    <3> WITNESS {f \in {[of |-> e, at |-> m, recurring |-> again, pc |-> "scheduled", issue |-> 0]} : ShouldCreateIssue(row)}
                  \in SUBSET {[of |-> e, at |-> m, recurring |-> again, pc |-> "scheduled", issue |-> 0]}
    <3> QED BY <3>1, <3>2, <2>7, <2>31 DEF measured
  <2>9. \A f \in fresh : f \in Filing /\ f.of = e /\ f.at = m /\ f.recurring = again /\ f.issue = 0 /\ f.pc = "scheduled"
    BY <2>8 DEF Filing
  <2>10. issues' = issues /\ resolver' = resolver /\ entries' = entries /\ time' = time /\ lastCursor' = lastCursor
    BY DEF UpsertError
  <2>11. \A d \in Error \ {e} : errorLogs'[d] = errorLogs[d]
    BY <2>6 DEF AlarmInv, AlarmsTyped
  <2>12. errorLogs' \in [Error -> ErrorLog \cup {Nothing}] /\ errorLogs'[e] = r
    BY <2>5, <2>6 DEF AlarmInv, AlarmsTyped
  <2>13. AlarmsTyped'
    <3>1. poll' \in Poll \cup {Nothing}
      BY DEF UpsertError, AlarmInv, AlarmsTyped, Poll
    <3>2. Len(counted'[e]) = m /\ Last(counted'[e]) = time
      BY <1>3, <2>5 DEF Last
    <3>3. row.issueNumber \in 0 .. Len(issues) /\ row.irpMissionId \in 0 .. Len(issues)
      BY <1>6 DEF AlarmInv, AlarmsTyped
    <3>4. ASSUME NEW d \in Error, errorLogs'[d] # Nothing
          PROVE  /\ errorLogs'[d].issueNumber \in 0 .. Len(issues) /\ errorLogs'[d].irpMissionId \in 0 .. Len(issues)
                 /\ errorLogs'[d].count = Len(counted'[d]) /\ errorLogs'[d].lastSeen = Last(counted'[d])
      <4>1. CASE d = e
        BY <4>1, <2>12, <3>2, <3>3, <2>5
      <4>2. CASE d # e
        BY <4>2, <3>4, <2>11, <1>3 DEF AlarmInv, AlarmsTyped
      <4> QED BY <4>1, <4>2
    <3>5. filings' \subseteq Filing
      BY <2>8, <2>9 DEF AlarmInv, AlarmsTyped
    <3> QED BY <2>10, <2>12, <3>1, <1>3, <3>4, <3>5 DEF AlarmInv, AlarmsTyped
  <2>14. HoldersRefer'
    <3>1. poll' # Nothing => poll'.upTo <= Len(entries')
      BY DEF UpsertError, AlarmInv, AlarmsTyped, HoldersRefer, Poll
    <3>2. \A d \in Error : errorLogs[d] # Nothing => errorLogs'[d] # Nothing
      BY <2>11, <2>12, <2>5, AlarmAssumption
    <3>3. \A f \in filings : f.of \in Error
      BY DEF AlarmInv, AlarmsTyped, Filing
    <3>4. \A i \in DOMAIN resolver : resolver[i].of \in Error
      BY ResolverTyped DEF AlarmInv
    <3>5. errorLogs'[e] # Nothing /\ 0 \in 0 .. Len(issues)
      BY <3>2, <1>6 DEF AlarmInv, AlarmsTyped
    <3> QED BY <3>1, <3>2, <3>3, <3>4, <3>5, <2>8, <2>9, <2>10 DEF AlarmInv, HoldersRefer
  <2>15. RowsRefer'
    <3>1. r # Nothing /\ (r.issueCreated => r.issueNumber # 0)
      BY <2>5, <2>3, <1>6, AlarmAssumption DEF AlarmInv, RowsRefer
    <3>2. counted'[e] # <<>>
      BY <1>3, <1>2
    <3> QED BY <3>1, <3>2, <2>11, <2>12, <1>3 DEF AlarmInv, RowsRefer
  <2>16. \A d \in Error \ {e} : Declared(d)' = Declared(d)
    <3> SUFFICES ASSUME NEW d \in Error \ {e}, NEW k PROVE k \in Declared(d)' <=> k \in Declared(d)
      OBVIOUS
    <3>1. k \in Declared(d)' <=> \/ \E f \in filings' : f.of = d /\ f.recurring /\ k = f.at
                                 \/ \E i \in DOMAIN issues : issues[i].of = d /\ issues[i].recurring /\ k = issues[i].at
      BY <2>10, DeclaredByThen
    <3> QED BY <3>1, DeclaredBy, <2>8, <2>9
  <2>17. \A k : k \in Declared(e)' <=> k \in Declared(e) \/ (measured /\ k = m)
    <3> SUFFICES ASSUME NEW k PROVE k \in Declared(e)' <=> k \in Declared(e) \/ (measured /\ k = m)
      OBVIOUS
    <3>1. k \in Declared(e)' <=> \/ \E f \in filings' : f.of = e /\ f.recurring /\ k = f.at
                                 \/ \E i \in DOMAIN issues : issues[i].of = e /\ issues[i].recurring /\ k = issues[i].at
      BY <2>10, DeclaredByThen
    <3>2. (\E f \in fresh : f.of = e /\ f.recurring /\ k = f.at) <=> (measured /\ k = m)
      BY <2>7, <2>8, <2>9
    <3> QED BY <3>1, <3>2, DeclaredBy, <2>8
  <2>18. 1 <= n /\ row.lastSeen = counted[e][n] /\ row.lastSeen \in Nat
    <3>1. counted[e] # <<>>
      BY <1>6 DEF AlarmInv, RowsRefer
    <3> QED BY <3>1, <1>2, <2>1 DEF Last
  <2>180. PICK base : base = Baseline(row)
    OBVIOUS
  <2>19. ASSUME base # Nothing
         PROVE  /\ base \in 1 .. n /\ \A g : g = base + 1 => Gap(e, g)'
                /\ \A k \in Declared(e) : k <= base
    <3>1. CASE base = row.reRaiseBaselineCount
      <4>1. Armed(e)
        BY DEF AlarmInv, Measures
      <4>2. /\ base \in Nat /\ 1 <= base /\ base < n /\ Gap(e, base + 1)
            /\ \A k \in Declared(e) : k <= base
        BY <4>1, <3>1, <2>19, <1>6 DEF Armed
      <4>3. base + 1 \in 1 .. Len(counted[e])
        BY <4>2, <1>2
      <4> QED BY <4>2, <4>3, <1>2, <1>4
    <3>2. CASE base = row.count /\ time - row.lastSeen >= Window
      <4>1. base = n
        BY <3>2, <2>1
      <4>2. PICK g \in Nat : g = n + 1
        BY <1>2
      <4>30. n \in 1 .. n /\ g > 1 /\ g - 1 = n
        BY <4>2, <2>18, <1>2
      <4>31. counted'[e][n] = counted[e][n]
        BY <4>30, <1>3
      <4>32. counted'[e][g] = time
        BY <4>2, <1>3
      <4>3. counted'[e][g] = time /\ counted'[e][n] = counted[e][n] /\ g > 1 /\ g - 1 = n
        BY <4>30, <4>31, <4>32
      <4>4. Gap(e, g)'
        BY <4>3, <3>2, <2>18 DEF Gap
      <4>5. \A k \in Declared(e) : k <= n
        BY DEF AlarmInv, Measures, DeclaredCounted
      <4> QED BY <4>1, <4>2, <4>4, <4>5, <2>18, <1>2
    <3> QED BY <3>1, <3>2, <2>180 DEF Baseline
  <2>20. DeclaredCounted'
    <3>1. \A k \in Declared(e) : k \in Nat /\ k <= n
      BY DEF AlarmInv, Measures, DeclaredCounted
    <3>2. \A k \in Declared(e)' : k \in Nat /\ k <= Len(counted'[e])
      BY <3>1, <2>17, <2>5, <1>2, <1>3
    <3>3. \A d \in Error \ {e} : \A k \in Declared(d)' : k \in Nat /\ k <= Len(counted'[d])
      BY <2>16, <1>3 DEF AlarmInv, Measures, DeclaredCounted
    <3> QED BY <3>2, <3>3 DEF DeclaredCounted
  <2>21. RecurrenceIsMeasured'
    <3> SUFFICES ASSUME NEW d \in Error, NEW k \in Declared(d)'
                 PROVE  \E g \in 2 .. k : /\ Gap(d, g)' /\ k - g + 1 >= Threshold
                                          /\ \A j \in Declared(d)' : j < k => j < g
      BY DEF RecurrenceIsMeasured
    <3>1. CASE k \in Declared(d)
      <4>1. PICK g \in 2 .. k : Gap(d, g) /\ k - g + 1 >= Threshold
                                /\ \A j \in Declared(d) : j < k => j < g
        BY <3>1 DEF AlarmInv, Measures, RecurrenceIsMeasured
      <4>2. k \in Nat /\ k <= Len(counted[d])
        BY <3>1 DEF AlarmInv, Measures, DeclaredCounted
      <4>3. g \in 1 .. Len(counted[d])
        BY <4>2
      <4>4. \A j \in Declared(d)' : j < k => j \in Declared(d)
        BY <4>2, <2>16, <2>17, <2>5, <1>2
      <4> QED BY <4>1, <4>3, <4>4, <1>4
    <3>2. CASE d = e /\ measured /\ k = m
      <4>1. base # Nothing /\ row.count + 1 - base >= Threshold
        BY <3>2, <2>180 DEF IsMeasuredReRaise
      <4>0. base \in 1 .. n
        BY <4>1, <2>19
      <4>2. PICK g \in Nat : g = base + 1
        BY <4>0
      <4>30. row.count = n /\ k = n + 1 /\ n \in Nat
        BY <2>1, <2>5, <3>2, <1>2
      <4> HIDE DEF row, n, measured
      <4>31. k - g + 1 = n + 1 - base /\ g \in 2 .. k
        BY <4>0, <4>2, <4>30
      <4>3. g \in 2 .. k /\ k - g + 1 >= Threshold
        BY <4>1, <4>30, <4>31
      <4>4. \A j \in Declared(e)' : j < k => j < g
        BY <4>1, <4>2, <2>19, <2>17, <2>20, <3>2 DEF DeclaredCounted
      <4>5. Gap(e, g)'
        BY <4>1, <4>2, <2>19
      <4> QED BY <4>3, <4>4, <4>5, <3>2
    <3> QED BY <3>1, <3>2, <2>16, <2>17
  <2>22. ASSUME NEW d \in Error PROVE Armed(d)'
    <3>1. CASE d = e
      <4> SUFFICES ASSUME r.reRaiseBaselineCount # Nothing
                   PROVE  /\ b \in Nat /\ 1 <= b /\ b < Len(counted'[e]) /\ Gap(e, b + 1)'
                          /\ \A k \in Declared(e)' : k <= b
        BY <3>1, <2>12, <2>5 DEF Armed
      <4>1. ~measured /\ b = base /\ base # Nothing
        BY <2>2, <2>5, <2>180
      <4>2. b \in 1 .. n /\ (\A g : g = b + 1 => Gap(e, g)') /\ \A k \in Declared(e) : k <= b
        BY <4>1, <2>19
      <4> QED BY <4>1, <4>2, <2>17, <1>2, <1>3
    <3>2. CASE d # e
      <4>1. errorLogs'[d] = errorLogs[d] /\ counted'[d] = counted[d] /\ Declared(d)' = Declared(d)
        BY <3>2, <2>11, <2>16, <1>3
      <4>2. Armed(d)
        BY DEF AlarmInv, Measures
      <4> QED BY <4>1, <4>2 DEF Armed, Gap
    <3> QED BY <3>1, <3>2
  <2> QED BY <2>13, <2>14, <2>15, <2>20, <2>21, <2>22 DEF AlarmInv, Measures
<1> QED BY <1>5, <1>6

-----------------------------------------------------------------------------
\* The poll and the clock.

LEMMA PollKeeps ==
  ASSUME AlarmInv,
         \/ \E e \in Error : Fail(e) \/ SkipGroup(e)
         \/ FetchLogs \/ UpdateCursor \/ PollDies \/ Pass
  PROVE  AlarmInv'
<1>1. UNCHANGED <<errorLogs, filings, issues, resolver, counted>>
  BY DEF Fail, SkipGroup, FetchLogs, UpdateCursor, PollDies, Pass
<1>2. Measures'
  <2>1. \A e \in Error : Declared(e)' \subseteq Declared(e)
    BY <1>1 DEF Declared
  <2> QED BY <1>1, <2>1, MeasuresStay DEF AlarmInv
<1>3. RowsRefer'
  BY <1>1 DEF AlarmInv, RowsRefer
<1>4. /\ time' \in 0 .. MaxTime /\ entries' \in Seq(Error) /\ lastCursor' \in 0 .. Len(entries')
      /\ poll' \in Poll \cup {Nothing} /\ (poll' # Nothing => poll'.upTo <= Len(entries'))
  <2> USE DEF AlarmInv, AlarmsTyped, HoldersRefer
  <2>1. ASSUME NEW e \in Error, Fail(e) PROVE <1>4!:
    <3>1. entries' \in Seq(Error) /\ Len(entries') = Len(entries) + 1 /\ Len(entries) \in Nat
      BY <2>1 DEF Fail
    <3> QED BY <2>1, <3>1 DEF Fail, Poll
  <2>2. ASSUME NEW e \in Error, SkipGroup(e) PROVE <1>4!:
    BY <2>2 DEF SkipGroup, Poll
  <2>3. CASE FetchLogs
    <3>1. {entries[i] : i \in lastCursor + 1 .. Len(entries)} \subseteq Error
      OBVIOUS
    <3> QED BY <2>3, <3>1 DEF FetchLogs, Poll
  <2>4. CASE UpdateCursor
    BY <2>4 DEF UpdateCursor, Poll
  <2>5. CASE PollDies
    BY <2>5 DEF PollDies
  <2>6. CASE Pass
    BY <2>6, AlarmAssumption DEF Pass
  <2> QED BY <2>1, <2>2, <2>3, <2>4, <2>5, <2>6
<1>5. HoldersRefer'
  BY <1>1, <1>4 DEF AlarmInv, HoldersRefer
<1>6. AlarmsTyped'
  BY <1>1, <1>4 DEF AlarmInv, AlarmsTyped
<1> QED BY <1>2, <1>3, <1>5, <1>6 DEF AlarmInv

-----------------------------------------------------------------------------
\* The filing of an issue.

LEMMA FilingTyped ==
  ASSUME AlarmsTyped, NEW f \in filings
  PROVE  /\ f \in Filing /\ f.of \in Error /\ f.at \in Nat /\ f.recurring \in BOOLEAN
         /\ f.pc \in {"scheduled", "check", "file", "link"} /\ f.issue \in Nat
BY DEF AlarmsTyped, Filing

\* A filing that goes on, or ends, and touches nothing else.
LEMMA FilingMoves ==
  ASSUME AlarmInv, NEW f \in filings,
         UNCHANGED <<time, entries, lastCursor, poll, errorLogs, issues, resolver, counted>>,
         \/ filings' = filings \ {f}
         \/ \E g \in Filing : /\ filings' = (filings \ {f}) \cup {g}
                              /\ g.of = f.of /\ g.at = f.at /\ g.recurring = f.recurring
                              /\ g.pc # "link" /\ g.issue \in 0 .. Len(issues)
  PROVE  AlarmInv'
<1>1. Measures'
  <2>1. \A g \in filings' : \E h \in filings : g.of = h.of /\ g.at = h.at /\ g.recurring = h.recurring
    OBVIOUS
  <2>2. \A e \in Error : Declared(e)' \subseteq Declared(e)
    BY <2>1, DeclareNothing
  <2> QED BY <2>2, MeasuresStay DEF AlarmInv
<1>2. AlarmsTyped'
  BY DEF AlarmInv, AlarmsTyped
<1>3. HoldersRefer'
  <2>1. \A g \in filings' : errorLogs[g.of] # Nothing /\ g.issue \in 0 .. Len(issues) /\ (g.pc = "link" => g.issue # 0)
    BY DEF AlarmInv, HoldersRefer
  <2> QED BY <2>1 DEF AlarmInv, HoldersRefer
<1>4. RowsRefer'
  BY DEF AlarmInv, RowsRefer
<1> QED BY <1>1, <1>2, <1>3, <1>4 DEF AlarmInv

LEMMA FilingKeeps ==
  ASSUME AlarmInv, NEW f \in filings,
         \/ GetErrorLogById(f) \/ CommentOnExistingIssue(f) \/ NoOpenIssue(f) \/ FilingEnds(f)
  PROVE  AlarmInv'
<1>1. AlarmsTyped
  BY DEF AlarmInv
<1>2. CASE GetErrorLogById(f)
  <2>1. PICK k \in 0 .. Len(issues) : k = errorLogs[f.of].issueNumber
    BY FilingTyped, <1>1 DEF AlarmInv, AlarmsTyped, HoldersRefer
  <2>2. k \in Nat
    BY <2>1, <1>1 DEF AlarmsTyped
  <2>3. PICK g : g = [f EXCEPT !.pc = "check", !.issue = k]
    OBVIOUS
  <2>4. /\ g \in Filing /\ g.of = f.of /\ g.at = f.at /\ g.recurring = f.recurring
        /\ g.pc = "check" /\ g.issue = k
    BY <2>2, <2>3, <1>1, FilingTyped DEF Filing
  <2>5. filings' = (filings \ {f}) \cup {g}
    BY <1>2, <2>1, <2>3 DEF GetErrorLogById, FilingStep
  <2> QED BY <1>2, <2>4, <2>5, FilingMoves DEF GetErrorLogById
<1>3. CASE NoOpenIssue(f)
  <2>1. PICK g : g = [f EXCEPT !.pc = "file"]
    OBVIOUS
  <2>2. /\ g \in Filing /\ g.of = f.of /\ g.at = f.at /\ g.recurring = f.recurring
        /\ g.pc = "file" /\ g.issue = f.issue
    BY <2>1, <1>1, FilingTyped DEF Filing
  <2>3. filings' = (filings \ {f}) \cup {g}
    BY <1>3, <2>1 DEF NoOpenIssue, FilingStep
  <2>4. f.issue \in 0 .. Len(issues)
    BY DEF AlarmInv, HoldersRefer
  <2> QED BY <1>3, <2>2, <2>3, <2>4, FilingMoves DEF NoOpenIssue
<1>4. CASE CommentOnExistingIssue(f) \/ FilingEnds(f)
  BY <1>4, FilingMoves DEF CommentOnExistingIssue, FilingEnds
<1> QED BY <1>2, <1>3, <1>4

\* Issues are only appended, or change what no measurement reads.
LEMMA IssuesGrow ==
  ASSUME AlarmInv, issues' \in Seq(IssueRow), Len(issues) <= Len(issues'),
         UNCHANGED <<time, entries, lastCursor, poll, errorLogs, counted>>,
         \A g \in filings' : \/ g \in filings
                             \/ g \in Filing /\ errorLogs[g.of] # Nothing /\ g.issue \in 1 .. Len(issues'),
         \A e \in Error : Declared(e)' \subseteq Declared(e)
  PROVE  /\ Measures' /\ RowsRefer' /\ (resolver' \in Seq(Stale) => AlarmsTyped')
         /\ resolver' = resolver => HoldersRefer'
<1>1. Measures'
  BY MeasuresStay DEF AlarmInv
<1>2. RowsRefer'
  BY DEF AlarmInv, RowsRefer
<1>3. Len(issues) \in Nat /\ Len(issues') \in Nat
  BY DEF AlarmInv, AlarmsTyped
<1>4. resolver' \in Seq(Stale) => AlarmsTyped'
  <2>1. \A k \in 0 .. Len(issues) : k \in 0 .. Len(issues')
    BY <1>3
  <2>2. \A e \in Error : errorLogs'[e] # Nothing =>
          /\ errorLogs'[e].issueNumber \in 0 .. Len(issues') /\ errorLogs'[e].irpMissionId \in 0 .. Len(issues')
          /\ errorLogs'[e].count = Len(counted'[e]) /\ errorLogs'[e].lastSeen = Last(counted'[e])
    BY <2>1 DEF AlarmInv, AlarmsTyped
  <2> QED BY <2>2 DEF AlarmInv, AlarmsTyped
<1>5. resolver' = resolver => HoldersRefer'
  <2> SUFFICES ASSUME resolver' = resolver PROVE HoldersRefer'
    OBVIOUS
  <2>1. DOMAIN issues \subseteq DOMAIN issues' /\ \A k \in 0 .. Len(issues) : k \in 0 .. Len(issues')
    BY <1>3 DEF AlarmInv, AlarmsTyped
  <2>2. \A g \in filings' : errorLogs[g.of] # Nothing /\ g.issue \in 0 .. Len(issues') /\ (g.pc = "link" => g.issue # 0)
    BY <2>1, <1>3 DEF AlarmInv, HoldersRefer
  <2> QED BY <2>1, <2>2 DEF AlarmInv, HoldersRefer
<1> QED BY <1>1, <1>2, <1>4, <1>5

LEMMA FileKeeps ==
  ASSUME AlarmInv, NEW f \in filings, FileIssue(f)
  PROVE  AlarmInv'
<1>1. AlarmsTyped /\ Len(issues) \in Nat /\ issues \in Seq(IssueRow)
  BY DEF AlarmInv, AlarmsTyped
<1>2. /\ f \in Filing /\ f.of \in Error /\ f.at \in Nat /\ f.recurring \in BOOLEAN
  BY <1>1, FilingTyped
<1>3. PICK row : row = [of |-> f.of, at |-> f.at, recurring |-> f.recurring, open |-> TRUE,
                        hook |-> "opened", mission |-> "none"]
  OBVIOUS
<1>4. row \in IssueRow /\ row.of = f.of /\ row.at = f.at /\ row.recurring = f.recurring
  BY <1>2, <1>3 DEF IssueRow
<1>5. issues' = Append(issues, row)
  BY <1>3 DEF FileIssue
<1>6. /\ issues' \in Seq(IssueRow) /\ Len(issues') = Len(issues) + 1 /\ issues'[Len(issues')] = row
      /\ \A n \in DOMAIN issues : issues'[n] = issues[n]
      /\ \A n \in DOMAIN issues' : n \in DOMAIN issues \/ n = Len(issues')
  BY <1>1, <1>4, <1>5
<1>61. PICK number \in Nat : number = Len(issues) + 1
  BY <1>1
<1>7. PICK g : g = [f EXCEPT !.pc = "link", !.issue = number]
  OBVIOUS
<1>8. /\ g \in Filing /\ g.of = f.of /\ g.at = f.at /\ g.recurring = f.recurring /\ g.issue = Len(issues')
  <2>1. g \in Filing /\ g.of = f.of /\ g.at = f.at /\ g.recurring = f.recurring /\ g.issue = number
    BY <1>2, <1>7 DEF Filing
  <2> QED BY <2>1, <1>6, <1>61
<1>9. filings' = (filings \ {f}) \cup {g}
  BY <1>7, <1>61 DEF FileIssue, FilingStep
<1>10. UNCHANGED <<time, entries, lastCursor, poll, errorLogs, resolver, counted>>
  BY DEF FileIssue
<1>11. \A e \in Error : Declared(e)' \subseteq Declared(e)
  <2>1. \A h \in filings' : \E k \in filings : h.of = k.of /\ h.at = k.at /\ h.recurring = k.recurring
    BY <1>8, <1>9
  <2>2. \A m \in DOMAIN issues' :
            \/ \E n \in DOMAIN issues : /\ issues'[m].of = issues[n].of /\ issues'[m].at = issues[n].at
                                        /\ issues'[m].recurring = issues[n].recurring
            \/ \E k \in filings : /\ issues'[m].of = k.of /\ issues'[m].at = k.at
                                  /\ issues'[m].recurring = k.recurring
    BY <1>4, <1>6
  <2> QED BY <2>1, <2>2, DeclareNothing
<1>12. errorLogs[g.of] # Nothing /\ g.issue \in 1 .. Len(issues')
  BY <1>1, <1>6, <1>8 DEF AlarmInv, HoldersRefer
<1>13. \A h \in filings' : h \in filings \/ (h \in Filing /\ errorLogs[h.of] # Nothing /\ h.issue \in 1 .. Len(issues'))
  BY <1>8, <1>9, <1>12
<1>14. filings' \subseteq Filing
  BY <1>1, <1>8, <1>9 DEF AlarmsTyped
<1>15. Len(issues) <= Len(issues')
  BY <1>1, <1>6
<1>16. resolver' \in Seq(Stale)
  BY <1>1, <1>10 DEF AlarmsTyped
<1> QED BY <1>6, <1>10, <1>11, <1>13, <1>14, <1>15, <1>16, IssuesGrow DEF AlarmInv

\* Linking an issue, or its mission, to a row.
LEMMA RowsLinked ==
  ASSUME AlarmInv, UNCHANGED <<time, entries, lastCursor, poll, counted>>,
         issues' \in Seq(IssueRow), Len(issues') = Len(issues), filings' \subseteq filings,
         errorLogs' \in [Error -> ErrorLog \cup {Nothing}],
         \A e \in Error :
           \/ errorLogs'[e] = errorLogs[e]
           \/ /\ errorLogs[e] \in ErrorLog /\ errorLogs'[e] \in ErrorLog
              /\ errorLogs'[e].count = errorLogs[e].count /\ errorLogs'[e].lastSeen = errorLogs[e].lastSeen
              /\ errorLogs'[e].reRaiseBaselineCount = errorLogs[e].reRaiseBaselineCount
              /\ errorLogs'[e].issueNumber \in 0 .. Len(issues)
              /\ errorLogs'[e].irpMissionId \in 0 .. Len(issues)
              /\ errorLogs'[e].issueCreated => errorLogs'[e].issueNumber # 0,
         \A e \in Error : Declared(e)' \subseteq Declared(e)
  PROVE  /\ Measures' /\ RowsRefer' /\ (resolver' \in Seq(Stale) => AlarmsTyped')
         /\ resolver' = resolver => HoldersRefer'
<1>1. \A e \in Error : errorLogs'[e] # Nothing <=> errorLogs[e] # Nothing
  BY AlarmAssumption
<1>2. Measures'
  BY <1>1, MeasuresStay DEF AlarmInv
<1>3. RowsRefer'
  BY <1>1 DEF AlarmInv, RowsRefer
<1>4. resolver' \in Seq(Stale) => AlarmsTyped'
  <2>1. \A e \in Error : errorLogs'[e] # Nothing =>
          /\ errorLogs'[e].issueNumber \in 0 .. Len(issues') /\ errorLogs'[e].irpMissionId \in 0 .. Len(issues')
          /\ errorLogs'[e].count = Len(counted'[e]) /\ errorLogs'[e].lastSeen = Last(counted'[e])
    BY <1>1 DEF AlarmInv, AlarmsTyped
  <2> QED BY <2>1 DEF AlarmInv, AlarmsTyped
<1>5. resolver' = resolver => HoldersRefer'
  <2> SUFFICES ASSUME resolver' = resolver PROVE HoldersRefer'
    OBVIOUS
  <2>1. DOMAIN issues = DOMAIN issues'
    BY DEF AlarmInv, AlarmsTyped
  <2>2. \A f \in filings : f.of \in Error
    BY FilingTyped DEF AlarmInv
  <2>3. \A i \in DOMAIN resolver : resolver[i].of \in Error
    BY ResolverTyped DEF AlarmInv
  <2> QED BY <1>1, <2>1, <2>2, <2>3 DEF AlarmInv, HoldersRefer
<1> QED BY <1>2, <1>3, <1>4, <1>5

LEMMA LinkKeeps ==
  ASSUME AlarmInv, NEW f \in filings, LinkIssue(f)
  PROVE  AlarmInv'
<1>1. AlarmsTyped /\ issues \in Seq(IssueRow)
  BY DEF AlarmInv, AlarmsTyped
<1>2. f.of \in Error /\ f.issue \in Nat
  BY <1>1, FilingTyped
<1>3. errorLogs[f.of] \in ErrorLog /\ f.issue \in 0 .. Len(issues) /\ f.issue # 0
  BY <1>1, <1>2 DEF AlarmInv, AlarmsTyped, HoldersRefer, LinkIssue
<1>4. PICK row \in ErrorLog : row = errorLogs[f.of]
  BY <1>3
<1>5. PICK r : r = [row EXCEPT !.issueNumber = f.issue, !.issueCreated = TRUE]
  OBVIOUS
<1>6. /\ r \in ErrorLog /\ r.count = row.count /\ r.lastSeen = row.lastSeen
      /\ r.reRaiseBaselineCount = row.reRaiseBaselineCount /\ r.issueNumber = f.issue
      /\ r.irpMissionId = row.irpMissionId
  BY <1>2, <1>5 DEF ErrorLog
<1>7. errorLogs' = [errorLogs EXCEPT ![f.of] = r]
  BY <1>1, <1>2, <1>4, <1>5 DEF LinkIssue, AlarmsTyped
<1>8. row.irpMissionId \in 0 .. Len(issues)
  BY <1>1, <1>2, <1>4, AlarmAssumption DEF AlarmsTyped
<1>9. errorLogs' \in [Error -> ErrorLog \cup {Nothing}] /\ errorLogs'[f.of] = r
      /\ \A e \in Error \ {f.of} : errorLogs'[e] = errorLogs[e]
  BY <1>1, <1>2, <1>6, <1>7 DEF AlarmsTyped
<1>10. \A e \in Error : Declared(e)' \subseteq Declared(e)
  BY DeclareNothing DEF LinkIssue
<1>11. UNCHANGED <<time, entries, lastCursor, poll, issues, resolver, counted>> /\ filings' \subseteq filings
  BY DEF LinkIssue
<1>12. resolver' \in Seq(Stale)
  BY <1>1, <1>11 DEF AlarmsTyped
<1> QED BY <1>1, <1>3, <1>4, <1>6, <1>8, <1>9, <1>10, <1>11, <1>12, RowsLinked DEF AlarmInv

-----------------------------------------------------------------------------
\* GitHub, the webhook and the resolver: an issue changes in what no
\* measurement reads.

LEMMA IssueChanges ==
  ASSUME AlarmInv, UNCHANGED filings, NEW n \in DOMAIN issues, NEW row \in IssueRow,
         issues' = [issues EXCEPT ![n] = row],
         row.of = issues[n].of, row.at = issues[n].at, row.recurring = issues[n].recurring
  PROVE  /\ issues' \in Seq(IssueRow) /\ Len(issues') = Len(issues) /\ DOMAIN issues' = DOMAIN issues
         /\ \A e \in Error : Declared(e)' \subseteq Declared(e)
<1>1. issues \in Seq(IssueRow)
  BY DEF AlarmInv, AlarmsTyped
<1>2. issues' \in Seq(IssueRow) /\ Len(issues') = Len(issues) /\ DOMAIN issues' = DOMAIN issues
  BY <1>1
<1>3. \A m \in DOMAIN issues' : /\ issues'[m].of = issues[m].of /\ issues'[m].at = issues[m].at
                                /\ issues'[m].recurring = issues[m].recurring
  BY <1>1, <1>2
<1> QED BY <1>2, <1>3, DeclareNothing

LEMMA IssueTyped ==
  ASSUME AlarmInv, NEW n \in DOMAIN issues
  PROVE  issues[n] \in IssueRow /\ n \in Nat /\ n \in 1 .. Len(issues)
BY DEF AlarmInv, AlarmsTyped

\* Steps that write one issue and nothing else.
LEMMA IssueKeeps ==
  ASSUME AlarmInv, NEW n \in DOMAIN issues,
         CreateIrpMission(n) \/ HookDies(n) \/ CloseIssue(n)
  PROVE  AlarmInv'
<1>1. UNCHANGED <<time, entries, lastCursor, poll, errorLogs, filings, resolver, counted>>
  BY DEF CreateIrpMission, HookDies, CloseIssue
<1>2. PICK old \in IssueRow : old = issues[n]
  BY IssueTyped
<1>3. \E row \in IssueRow : /\ issues' = [issues EXCEPT ![n] = row]
                            /\ row.of = old.of /\ row.at = old.at /\ row.recurring = old.recurring
  <2>1. CASE CreateIrpMission(n)
    <3>1. PICK h \in {"settled", "mission"} : h = IF old.recurring THEN "settled" ELSE "mission"
      OBVIOUS
    <3>2. PICK row : row = [old EXCEPT !.hook = h, !.mission = "execute"]
      OBVIOUS
    <3>3. row \in IssueRow /\ row.of = old.of /\ row.at = old.at /\ row.recurring = old.recurring
      BY <3>2 DEF IssueRow
    <3>4. issues' = [issues EXCEPT ![n] = row]
      BY <2>1, <1>2, <3>1, <3>2 DEF CreateIrpMission, AlarmInv, AlarmsTyped
    <3> QED BY <3>3, <3>4
  <2>2. CASE HookDies(n)
    <3>1. PICK row : row = [old EXCEPT !.hook = "settled"]
      OBVIOUS
    <3>2. row \in IssueRow /\ row.of = old.of /\ row.at = old.at /\ row.recurring = old.recurring
      BY <3>1 DEF IssueRow
    <3> QED BY <2>2, <1>2, <3>1, <3>2 DEF HookDies
  <2>3. CASE CloseIssue(n)
    <3>1. PICK row : row = [old EXCEPT !.open = FALSE]
      OBVIOUS
    <3>2. row \in IssueRow /\ row.of = old.of /\ row.at = old.at /\ row.recurring = old.recurring
      BY <3>1 DEF IssueRow
    <3> QED BY <2>3, <1>2, <3>1, <3>2 DEF CloseIssue
  <2> QED BY <2>1, <2>2, <2>3
<1>4. /\ issues' \in Seq(IssueRow) /\ Len(issues') = Len(issues)
      /\ \A e \in Error : Declared(e)' \subseteq Declared(e)
  BY <1>1, <1>2, <1>3, IssueChanges
<1>5. Len(issues) <= Len(issues') /\ resolver' \in Seq(Stale)
  BY <1>1, <1>4 DEF AlarmInv, AlarmsTyped
<1> QED BY <1>1, <1>4, <1>5, IssuesGrow DEF AlarmInv

LEMMA MissionLinkKeeps ==
  ASSUME AlarmInv, NEW n \in DOMAIN issues, LinkIrpMissionByIssueNumber(n)
  PROVE  AlarmInv'
<1>1. PICK old \in IssueRow : old = issues[n]
  BY IssueTyped
<1>2. PICK row : row = [old EXCEPT !.hook = "settled"]
  OBVIOUS
<1>3. row \in IssueRow /\ row.of = old.of /\ row.at = old.at /\ row.recurring = old.recurring
  BY <1>2 DEF IssueRow
<1>4. issues' = [issues EXCEPT ![n] = row]
  BY <1>1, <1>2 DEF LinkIrpMissionByIssueNumber
<1>5. UNCHANGED <<time, entries, lastCursor, poll, filings, resolver, counted>>
  BY DEF LinkIrpMissionByIssueNumber
<1>6. /\ issues' \in Seq(IssueRow) /\ Len(issues') = Len(issues)
      /\ \A e \in Error : Declared(e)' \subseteq Declared(e)
  BY <1>1, <1>3, <1>4, <1>5, IssueChanges
<1>7. ASSUME NEW e \in Error
      PROVE  \/ errorLogs'[e] = errorLogs[e]
             \/ /\ errorLogs[e] \in ErrorLog /\ errorLogs'[e] \in ErrorLog
                /\ errorLogs'[e].count = errorLogs[e].count /\ errorLogs'[e].lastSeen = errorLogs[e].lastSeen
                /\ errorLogs'[e].reRaiseBaselineCount = errorLogs[e].reRaiseBaselineCount
                /\ errorLogs'[e].issueNumber \in 0 .. Len(issues)
                /\ errorLogs'[e].irpMissionId \in 0 .. Len(issues)
                /\ errorLogs'[e].issueCreated => errorLogs'[e].issueNumber # 0
  <2>1. CASE errorLogs[e] # Nothing /\ errorLogs[e].issueNumber = n
    <3>1. PICK was \in ErrorLog : was = errorLogs[e]
      BY <2>1 DEF AlarmInv, AlarmsTyped
    <3>2. PICK is : is = [was EXCEPT !.irpMissionId = n]
      OBVIOUS
    <3>3. /\ is \in ErrorLog /\ is.count = was.count /\ is.lastSeen = was.lastSeen
          /\ is.reRaiseBaselineCount = was.reRaiseBaselineCount /\ is.issueNumber = was.issueNumber
          /\ is.irpMissionId = n
      BY <3>2, IssueTyped DEF ErrorLog
    <3>4. errorLogs'[e] = is
      BY <2>1, <3>1, <3>2 DEF LinkIrpMissionByIssueNumber
    <3>5. n \in 0 .. Len(issues) /\ n # 0
      BY IssueTyped
    <3> QED BY <2>1, <3>1, <3>3, <3>4, <3>5
  <2>2. CASE ~(errorLogs[e] # Nothing /\ errorLogs[e].issueNumber = n)
    BY <2>2 DEF LinkIrpMissionByIssueNumber
  <2> QED BY <2>1, <2>2
<1>8. errorLogs' \in [Error -> ErrorLog \cup {Nothing}]
  <2>1. \A e \in Error : errorLogs'[e] \in ErrorLog \cup {Nothing}
    BY <1>7 DEF AlarmInv, AlarmsTyped
  <2>2. errorLogs' = [e \in Error |-> errorLogs'[e]]
    BY DEF LinkIrpMissionByIssueNumber
  <2> QED BY <2>1, <2>2
<1>9. resolver' \in Seq(Stale) /\ filings' \subseteq filings
  BY <1>5 DEF AlarmInv, AlarmsTyped
<1> QED BY <1>5, <1>6, <1>7, <1>8, <1>9, RowsLinked DEF AlarmInv

LEMMA ResolverGoes ==
  ASSUME AlarmInv, resolver # <<>>
  PROVE  /\ 1 \in DOMAIN resolver /\ Head(resolver) = resolver[1] /\ Tail(resolver) \in Seq(Stale)
         /\ \A i \in DOMAIN Tail(resolver) : \E j \in DOMAIN resolver : Tail(resolver)[i] = resolver[j]
<1>1. resolver \in Seq(Stale) /\ Len(resolver) \in Nat /\ Len(resolver) >= 1
  BY DEF AlarmInv, AlarmsTyped
<1>2. Tail(resolver) \in Seq(Stale) /\ Len(Tail(resolver)) = Len(resolver) - 1
  BY <1>1
<1>3. ASSUME NEW i \in DOMAIN Tail(resolver)
      PROVE  \E j \in DOMAIN resolver : Tail(resolver)[i] = resolver[j]
  <2>1. i + 1 \in DOMAIN resolver /\ Tail(resolver)[i] = resolver[i + 1]
    BY <1>1, <1>2
  <2> QED BY <2>1
<1> QED BY <1>1, <1>2, <1>3

\* The resolver goes on with what it listed, or with less of it.
LEMMA ResolverMoves ==
  ASSUME AlarmInv, UNCHANGED <<time, entries, lastCursor, poll, errorLogs, filings, counted>>,
         issues' \in Seq(IssueRow), Len(issues') = Len(issues),
         \A e \in Error : Declared(e)' \subseteq Declared(e),
         resolver' \in Seq(Stale),
         \A i \in DOMAIN resolver' : \E j \in DOMAIN resolver : resolver'[i] = resolver[j]
  PROVE  AlarmInv'
<1>1. Len(issues) <= Len(issues')
  BY DEF AlarmInv, AlarmsTyped
<1>2. Measures' /\ RowsRefer' /\ AlarmsTyped'
  BY <1>1, IssuesGrow
<1>3. DOMAIN issues' = DOMAIN issues
  BY DEF AlarmInv, AlarmsTyped
<1>4. HoldersRefer'
  BY <1>3 DEF AlarmInv, HoldersRefer
<1> QED BY <1>2, <1>4 DEF AlarmInv

LEMMA ResolverKeeps ==
  ASSUME AlarmInv, HasLinkedPR \/ CloseGitHubIssue \/ ResolverDies
  PROVE  AlarmInv'
<1>1. UNCHANGED <<time, entries, lastCursor, poll, errorLogs, filings, counted>>
  BY DEF HasLinkedPR, CloseGitHubIssue, ResolverDies
<1>2. resolver # <<>> /\ (resolver' = Tail(resolver) \/ resolver' = <<>>)
  BY DEF HasLinkedPR, CloseGitHubIssue, ResolverDies
<1>3. /\ resolver' \in Seq(Stale)
      /\ \A i \in DOMAIN resolver' : \E j \in DOMAIN resolver : resolver'[i] = resolver[j]
  <2>1. CASE resolver' = Tail(resolver)
    BY <1>2, <2>1, ResolverGoes
  <2>2. CASE resolver' = <<>>
    <3>1. resolver' \in Seq(Stale) /\ Len(resolver') = 0
      BY <2>2
    <3>2. \A i : i \notin DOMAIN resolver'
      BY <3>1
    <3> QED BY <3>1, <3>2
  <2> QED BY <1>2, <2>1, <2>2
<1>4. issues' \in Seq(IssueRow) /\ Len(issues') = Len(issues)
      /\ \A e \in Error : Declared(e)' \subseteq Declared(e)
  <2>1. CASE issues' = issues
    BY <2>1, <1>1, DeclareNothing DEF AlarmInv, AlarmsTyped
  <2>2. CASE CloseGitHubIssue /\ issues' # issues
    <3>1. PICK n \in DOMAIN issues : n = Head(resolver).issueNumber
      BY <1>2, ResolverGoes DEF AlarmInv, HoldersRefer
    <3>2. PICK old \in IssueRow : old = issues[n]
      BY IssueTyped
    <3>3. PICK row : row = [old EXCEPT !.open = FALSE]
      OBVIOUS
    <3>4. row \in IssueRow /\ row.of = old.of /\ row.at = old.at /\ row.recurring = old.recurring
      BY <3>3 DEF IssueRow
    <3>5. issues' = [issues EXCEPT ![n] = row]
      BY <2>2, <3>1, <3>2, <3>3 DEF CloseGitHubIssue
    <3> QED BY <1>1, <3>2, <3>4, <3>5, IssueChanges
  <2>3. issues' = issues \/ CloseGitHubIssue
    BY DEF HasLinkedPR, ResolverDies
  <2> QED BY <2>1, <2>2, <2>3
<1> QED BY <1>1, <1>3, <1>4, ResolverMoves

LEMMA ResolveKeeps ==
  ASSUME AlarmInv, ResolveStaleIrpMission
  PROVE  AlarmInv'
<1>1. /\ 1 \in DOMAIN resolver /\ Head(resolver) = resolver[1]
      /\ resolver[1] \in Stale /\ resolver[1].of \in Error
  BY ResolverGoes, ResolverTyped DEF AlarmInv, ResolveStaleIrpMission
<1>2. PICK stale \in Stale : stale = resolver[1]
  BY <1>1
<1>3. PICK n \in DOMAIN issues : n = stale.mission
  BY <1>1, <1>2 DEF AlarmInv, HoldersRefer
<1>4. PICK e \in Error : e = stale.of
  BY <1>1, <1>2
<1>5. /\ issues' \in Seq(IssueRow) /\ Len(issues') = Len(issues) /\ DOMAIN issues' = DOMAIN issues
      /\ \A d \in Error : Declared(d)' \subseteq Declared(d)
  <2>1. PICK old \in IssueRow : old = issues[n]
    BY IssueTyped
  <2>2. PICK row : row = [old EXCEPT !.mission = "complete"]
    OBVIOUS
  <2>3. row \in IssueRow /\ row.of = old.of /\ row.at = old.at /\ row.recurring = old.recurring
    BY <2>2 DEF IssueRow
  <2>4. issues' = [issues EXCEPT ![n] = row]
    BY <1>1, <1>2, <1>3, <2>1, <2>2 DEF ResolveStaleIrpMission
  <2>5. UNCHANGED filings
    BY DEF ResolveStaleIrpMission
  <2> QED BY <2>1, <2>3, <2>4, <2>5, IssueChanges
<1>6. PICK was \in ErrorLog : was = errorLogs[e]
  BY <1>1, <1>2, <1>4 DEF AlarmInv, AlarmsTyped, HoldersRefer
<1>7. PICK is : is = [was EXCEPT !.autoResolved = TRUE]
  OBVIOUS
<1>8. /\ is \in ErrorLog /\ is.count = was.count /\ is.lastSeen = was.lastSeen
      /\ is.reRaiseBaselineCount = was.reRaiseBaselineCount /\ is.issueNumber = was.issueNumber
      /\ is.irpMissionId = was.irpMissionId
  BY <1>7 DEF ErrorLog
<1>81. is.issueCreated = was.issueCreated
  BY <1>7, Zenon DEF ErrorLog
<1>9. errorLogs' = [errorLogs EXCEPT ![e] = is]
  BY <1>1, <1>2, <1>4, <1>6, <1>7 DEF ResolveStaleIrpMission
<1>10. /\ errorLogs' \in [Error -> ErrorLog \cup {Nothing}] /\ errorLogs'[e] = is
       /\ \A d \in Error \ {e} : errorLogs'[d] = errorLogs[d]
  BY <1>8, <1>9 DEF AlarmInv, AlarmsTyped
<1>11. /\ was.issueNumber \in 0 .. Len(issues) /\ was.irpMissionId \in 0 .. Len(issues)
       /\ was.issueCreated => was.issueNumber # 0
  BY <1>6, AlarmAssumption DEF AlarmInv, AlarmsTyped, RowsRefer
<1>12. UNCHANGED <<time, entries, lastCursor, poll, filings, counted>>
  BY DEF ResolveStaleIrpMission
<1>13. resolver' \in Seq(Stale) /\ DOMAIN resolver' = DOMAIN resolver
       /\ \A i \in DOMAIN resolver : /\ resolver'[i].of = resolver[i].of
                                     /\ resolver'[i].issueNumber = resolver[i].issueNumber
                                     /\ resolver'[i].mission = resolver[i].mission
  <2>1. PICK g : g = [stale EXCEPT !.pc = "resolved"]
    OBVIOUS
  <2>2. g \in Stale /\ g.of = stale.of /\ g.issueNumber = stale.issueNumber /\ g.mission = stale.mission
    BY <2>1 DEF Stale
  <2>3. resolver' = [resolver EXCEPT ![1] = g]
    BY <1>2, <2>1 DEF ResolveStaleIrpMission
  <2>4. resolver \in Seq(Stale)
    BY DEF AlarmInv, AlarmsTyped
  <2>5. resolver' \in Seq(Stale) /\ DOMAIN resolver' = DOMAIN resolver
    BY <1>1, <2>2, <2>3, <2>4
  <2> QED BY <1>1, <1>2, <2>2, <2>3, <2>4, <2>5
<1>14. \A d \in Error :
           \/ errorLogs'[d] = errorLogs[d]
           \/ /\ errorLogs[d] \in ErrorLog /\ errorLogs'[d] \in ErrorLog
              /\ errorLogs'[d].count = errorLogs[d].count /\ errorLogs'[d].lastSeen = errorLogs[d].lastSeen
              /\ errorLogs'[d].reRaiseBaselineCount = errorLogs[d].reRaiseBaselineCount
              /\ errorLogs'[d].issueNumber \in 0 .. Len(issues)
              /\ errorLogs'[d].irpMissionId \in 0 .. Len(issues)
              /\ errorLogs'[d].issueCreated => errorLogs'[d].issueNumber # 0
  BY <1>6, <1>8, <1>81, <1>10, <1>11
<1>15. filings' \subseteq filings
  BY <1>12
<1>16. Measures' /\ RowsRefer' /\ AlarmsTyped'
  BY <1>5, <1>10, <1>12, <1>13, <1>14, <1>15, RowsLinked
<1>17. HoldersRefer'
  <2>1. \A d \in Error : errorLogs[d] # Nothing => errorLogs'[d] # Nothing
    BY <1>8, <1>10, AlarmAssumption
  <2>2. \A f \in filings : f.of \in Error
    BY FilingTyped DEF AlarmInv
  <2>3. \A i \in DOMAIN resolver : resolver[i].of \in Error
    BY ResolverTyped DEF AlarmInv
  <2> QED BY <1>5, <1>12, <1>13, <2>1, <2>2, <2>3 DEF AlarmInv, HoldersRefer
<1> QED BY <1>16, <1>17 DEF AlarmInv

LEMMA ListKeeps ==
  ASSUME AlarmInv, ListStaleAutoIrp
  PROVE  AlarmInv'
<1>0. PICK rows \in Candidates : \E stale \in Quietest(Limit, {e \in rows : IsStale(e)}) :
        \E listed \in SetToSeqs(stale) :
          resolver' = [i \in DOMAIN listed |->
            [of |-> listed[i], issueNumber |-> errorLogs[listed[i]].issueNumber,
             mission |-> errorLogs[listed[i]].irpMissionId, pc |-> "listed"]]
  BY DEF ListStaleAutoIrp
<1>01. PICK stale \in Quietest(Limit, {e \in rows : IsStale(e)}) :
        \E listed \in SetToSeqs(stale) :
          resolver' = [i \in DOMAIN listed |->
            [of |-> listed[i], issueNumber |-> errorLogs[listed[i]].issueNumber,
             mission |-> errorLogs[listed[i]].irpMissionId, pc |-> "listed"]]
  BY <1>0
<1>1. PICK listed \in SetToSeqs(stale) :
        resolver' = [i \in DOMAIN listed |->
            [of |-> listed[i], issueNumber |-> errorLogs[listed[i]].issueNumber,
             mission |-> errorLogs[listed[i]].irpMissionId, pc |-> "listed"]]
  BY <1>01
<1>2. UNCHANGED <<time, entries, lastCursor, poll, errorLogs, filings, issues, counted>>
  BY DEF ListStaleAutoIrp
<1>3. \A e \in stale : e \in Error /\ errorLogs[e] # Nothing /\ errorLogs[e].issueCreated /\ errorLogs[e].irpMissionId # 0
  BY DEF Quietest, Candidates, IsStale
<1>4. PICK c \in Nat : c = Cardinality(stale)
  BY <1>3, AlarmAssumption, FS_Subset, FS_CardinalityType
<1>5. listed \in [1 .. c -> stale]
  BY <1>4 DEF SetToSeqs
<1>6. ASSUME NEW i \in 1 .. c
      PROVE  /\ resolver'[i] \in Stale /\ errorLogs[resolver'[i].of] # Nothing
             /\ resolver'[i].issueNumber \in DOMAIN issues /\ resolver'[i].mission \in DOMAIN issues
  <2>1. PICK e \in Error : e = listed[i]
    BY <1>3, <1>5
  <2>2. e \in stale
    BY <1>5, <2>1
  <2>3. PICK row \in ErrorLog : row = errorLogs[e]
    BY <1>3, <2>2 DEF AlarmInv, AlarmsTyped
  <2>4. row.issueNumber \in DOMAIN issues /\ row.irpMissionId \in DOMAIN issues
    BY <1>3, <2>2, <2>3 DEF AlarmInv, AlarmsTyped, RowsRefer
  <2>5. row.issueNumber \in Nat /\ row.irpMissionId \in Nat
    BY DEF ErrorLog
  <2>6. resolver'[i] = [of |-> e, issueNumber |-> row.issueNumber, mission |-> row.irpMissionId, pc |-> "listed"]
    BY <1>1, <1>5, <2>1, <2>3
  <2>7. resolver'[i] \in Stale
    BY <2>5, <2>6 DEF Stale
  <2> QED BY <2>4, <2>6, <2>7, <1>3, <2>2
<1>7. DOMAIN resolver' = 1 .. c
  BY <1>1, <1>5
<1>8. resolver' \in Seq(Stale)
  <2>1. resolver' = [i \in 1 .. c |-> resolver'[i]]
    BY <1>1, <1>7
  <2>2. resolver' \in [1 .. c -> Stale]
    BY <1>6, <2>1
  <2> QED BY <2>2
<1>9. Measures' /\ RowsRefer' /\ AlarmsTyped'
  <2>1. \A e \in Error : Declared(e)' \subseteq Declared(e)
    BY <1>2, DeclareNothing
  <2>2. Measures'
    BY <1>2, <2>1, MeasuresStay DEF AlarmInv
  <2> QED BY <1>2, <1>8, <2>2 DEF AlarmInv, AlarmsTyped, RowsRefer
<1>10. HoldersRefer'
  BY <1>2, <1>6, <1>7 DEF AlarmInv, HoldersRefer
<1> QED BY <1>9, <1>10 DEF AlarmInv

LEMMA AlarmStep == AlarmInv /\ [AlarmNext]_alarmVars => AlarmInv'
<1> SUFFICES ASSUME AlarmInv, [AlarmNext]_alarmVars PROVE AlarmInv'
  OBVIOUS
<1>1. ASSUME NEW e \in Error, Fail(e) \/ UpsertError(e) \/ SkipGroup(e) PROVE AlarmInv'
  BY <1>1, PollKeeps, UpsertKeeps
<1>2. CASE FetchLogs \/ UpdateCursor \/ PollDies \/ Pass
  BY <1>2, PollKeeps
<1>3. ASSUME NEW f \in filings,
             \/ GetErrorLogById(f) \/ CommentOnExistingIssue(f) \/ NoOpenIssue(f)
             \/ FileIssue(f) \/ LinkIssue(f) \/ FilingEnds(f)
      PROVE  AlarmInv'
  BY <1>3, FilingKeeps, FileKeeps, LinkKeeps
<1>4. ASSUME NEW n \in DOMAIN issues,
             CreateIrpMission(n) \/ LinkIrpMissionByIssueNumber(n) \/ HookDies(n) \/ CloseIssue(n)
      PROVE  AlarmInv'
  BY <1>4, IssueKeeps, MissionLinkKeeps
<1>5. CASE ListStaleAutoIrp \/ HasLinkedPR \/ ResolveStaleIrpMission \/ CloseGitHubIssue \/ ResolverDies
  BY <1>5, ListKeeps, ResolverKeeps, ResolveKeeps
<1>6. CASE UNCHANGED alarmVars
  <2>1. \A e \in Error : Declared(e)' \subseteq Declared(e)
    BY <1>6, DeclareNothing DEF alarmVars
  <2>2. Measures'
    BY <1>6, <2>1, MeasuresStay DEF alarmVars, AlarmInv
  <2> QED BY <1>6, <2>2 DEF alarmVars, AlarmInv, AlarmsTyped, HoldersRefer, RowsRefer
<1> QED BY <1>1, <1>2, <1>3, <1>4, <1>5, <1>6 DEF AlarmNext

\* The rows of the error monitor stay as they should be, and no recurrence is
\* scheduled or filed that was not measured: since a gap of the window, and
\* after the recurrence declared before, the error was counted as often as the
\* threshold asks.
THEOREM RecurrencesAreMeasured == AlarmSpec => []RecurrenceSound
<1>1. AlarmInv => RecurrenceSound
  BY DEF AlarmInv, Measures, RecurrenceSound
<1> QED BY <1>1, AlarmStart, AlarmStep, PTL DEF AlarmSpec
=============================================================================
