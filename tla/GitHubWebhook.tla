--------------------------- MODULE GitHubWebhook ---------------------------
(***************************************************************************)
(* POST /github/webhook (convex/http.ts) for pull requests and new issues: *)
(* an HTTP action runs one mutation after another and may die between any  *)
(* two; deliveries arrive in any order, twice at once, again, or never.    *)
(* Review tasks are created, updated and closed by the mutations of        *)
(* convex/tasks.ts, their reviewer resolved by convex/lib/reviewRouting.ts.*)
(*                                                                         *)
(* One mapped, routable repository, and a template that is not empty.  An  *)
(* event whose mutations are single claimed messages or tasks adds no step *)
(* of another kind and is left out.                                        *)
(***************************************************************************)
EXTENDS DeliveryLedger, Absence

CONSTANTS
  PullRequest, Issue,
  Attempt,         \* runs of the HTTP action; bound: each is used once
  ReviewRow,       \* ids of review tasks; bound on their number
  Agent,
  LastStep,        \* the template's last step, the review, has this number
  MaxMoves         \* bound: what reviewers and administrators do

OpenStatus == {"todo", "in_progress", "review", "blocked"}

\* The call sites that claim: stepClaim(...).
StepNames == ({"review-task", "review-notice", "reviewer-unresolved",
               "mission", "bridge-covered", "issue-opened-notice"} \X {0})
             \cup ({"cascade-task"} \X (0..LastStep))

ASSUME WebhookAssumption ==
  /\ LastStep \in Nat /\ MaxMoves \in Nat
  /\ StepNames \subseteq Step
  /\ Nothing \notin Agent

Event == [kind : {"opened", "synchronize", "closed"}, on : PullRequest]
         \cup [kind : {"issue"}, on : Issue]

Final == {"ok", "died"}
Waiting == {"review-task", "review-notice", "reviewer-unresolved", "close",
            "look", "bridge-covered", "mission", "cascade-task", "resolve",
            "cascade-review", "issue-opened-notice"}

\* githubRepoMapping and taskClosureConfig.
Config == [reviewer : Agent \cup {Nothing}, fallback : Agent \cup {Nothing},
           orchestrator : Agent, stopped : SUBSET Agent]

VARIABLES
  pull,          \* GitHub: the state of a pull request
  event, sentAt, \* GitHub: what a delivery id stands for, and since when
  attempt,       \* the runs of the action: delivery, program counter, step
  review,        \* tasks with reviewPrRepoFullName and reviewPrNumber
  mission,       \* the issues with a mission
  config,
  effects,       \* history: how often the work behind a claim was committed
  moves

hubVars == <<pull, event, sentAt>>
tableVars == <<review, mission>>
vars == <<ledgerVars, hubVars, attempt, tableVars, config, effects, moves>>

NoReview == [status |-> "absent", pull |-> Nothing, assignedTo |-> Nothing]
Idle == [delivery |-> Nothing, pc |-> "idle", n |-> 0]

Init ==
  /\ LedgerInit
  /\ pull = [p \in PullRequest |-> "none"]
  /\ event = [d \in Delivery |-> Nothing]
  /\ sentAt = [d \in Delivery |-> 0]
  /\ attempt = [a \in Attempt |-> Idle]
  /\ review = [x \in ReviewRow |-> NoReview]
  /\ mission = {}
  /\ config \in Config
  /\ effects = [k \in Delivery \X Step |-> 0]
  /\ moves = 0
-----------------------------------------------------------------------------
(* GitHub: events happen, each under a delivery id of its own. *)

Send(d, e) ==
  /\ event[d] = Nothing
  /\ event' = [event EXCEPT ![d] = e]
  /\ sentAt' = [sentAt EXCEPT ![d] = day]
  /\ UNCHANGED <<ledgerVars, attempt, tableVars, config, effects, moves>>

PullEvent(d, p) ==
  \/ /\ pull[p] = "none"
     /\ pull' = [pull EXCEPT ![p] = "open"]
     /\ Send(d, [kind |-> "opened", on |-> p])
  \/ /\ pull[p] = "open"
     /\ UNCHANGED pull
     /\ Send(d, [kind |-> "synchronize", on |-> p])
  \/ /\ pull[p] = "open"
     /\ pull' = [pull EXCEPT ![p] = "closed"]
     /\ Send(d, [kind |-> "closed", on |-> p])

IssueEvent(d, i) ==
  /\ \A x \in Delivery : event[x] # [kind |-> "issue", on |-> i]
  /\ Send(d, [kind |-> "issue", on |-> i])
  /\ UNCHANGED pull

\* "reopened" is an action the handler has no case for.
Reopen(p) ==
  /\ pull[p] = "closed"
  /\ pull' = [pull EXCEPT ![p] = "open"]
  /\ UNCHANGED <<ledgerVars, event, sentAt, attempt, tableVars, config,
                 effects, moves>>

\* The platform ends an action after minutes: none outlives a day.
Tick ==
  /\ day < MaxDay
  /\ day' = day + 1
  /\ attempt' = [a \in Attempt |-> IF attempt[a].pc \in Waiting
                                   THEN [attempt[a] EXCEPT !.pc = "died"]
                                   ELSE attempt[a]]
  /\ UNCHANGED <<webhookDeliveries, hubVars, tableVars, config, effects, moves>>

Purge ==
  /\ PurgeExpired
  /\ UNCHANGED <<hubVars, attempt, tableVars, config, effects, moves>>
-----------------------------------------------------------------------------
(* The action: where a run begins, moves to, and breaks off. *)

FirstStep(e) == CASE e.kind \in {"opened", "synchronize"} -> "review-task"
                  [] e.kind = "closed" -> "close"
                  [] e.kind = "issue" -> "look"

\* A delivery or a redelivery, while GitHub offers it.
Begin(a, d) ==
  /\ attempt[a].pc = "idle"
  /\ event[d] # Nothing
  /\ day <= sentAt[d] + WindowDays
  /\ attempt' = [attempt EXCEPT ![a] =
                   [delivery |-> d, pc |-> FirstStep(event[d]), n |-> 0]]
  /\ UNCHANGED <<ledgerVars, hubVars, tableVars, config, effects, moves>>

\* The run stops between two mutations: a throw, a 500, a restart.
Die(a) ==
  /\ attempt[a].pc \in Waiting
  /\ attempt' = [attempt EXCEPT ![a].pc = "died"]
  /\ UNCHANGED <<ledgerVars, hubVars, tableVars, config, effects, moves>>

At(a, pc) == attempt[a].pc = pc
Goto(a, pc) == attempt' = [attempt EXCEPT ![a].pc = pc]
Subject(a) == event[attempt[a].delivery].on

\* The claim and the work it guards commit together.
Commit(d, s) ==
  /\ ClaimDeliveryStep(d, s)
  /\ effects' = [effects EXCEPT ![<<d, s>>] = @ + 1]

\* A claimed step that is skipped when its claim is taken.
CommitOrSkip(d, s) ==
  \/ Commit(d, s)
  \/ Claimed(d, s) /\ UNCHANGED <<webhookDeliveries, effects>>

\* One claimed mutation that writes no table of this model.
Mutation(a, pc, s, next) ==
  /\ At(a, pc)
  /\ CommitOrSkip(attempt[a].delivery, s)
  /\ Goto(a, next)
  /\ UNCHANGED <<day, hubVars, tableVars, config, moves>>
-----------------------------------------------------------------------------
(* Pull requests. *)

\* Variant: a stopped reviewer's fallback is not compared with the author.
ReviewerOrFallback ==
  IF config.reviewer \in config.stopped /\ config.fallback \in Agent \ config.stopped
  THEN config.fallback
  ELSE IF config.reviewer = config.orchestrator THEN Nothing ELSE config.reviewer

\* resolveReviewer: the fallback stands in for a stopped reviewer unless it
\* is stopped too; the author, or nobody, resolves to Nothing.
Reviewer ==
  LET usedFallback == /\ config.reviewer \in config.stopped
                      /\ config.fallback \in Agent \ config.stopped
      picked == IF usedFallback THEN config.fallback ELSE config.reviewer
  IN  IF picked = config.orchestrator THEN Nothing ELSE picked

\* Variant: only rows nobody has started are looked up.
UntouchedReviews(p) ==
  {x \in ReviewRow : review[x].pull = p /\ review[x].status = "todo"}

\* findOpenReviewTasks.
OpenReviews(p) ==
  {x \in ReviewRow : review[x].pull = p /\ review[x].status \in OpenStatus}

\* createOrUpdateReviewTask: an open row is updated in place.
CreateOrUpdate(p, resolved) ==
  \/ OpenReviews(p) # {} /\ resolved /\ UNCHANGED review
  \/ /\ OpenReviews(p) = {} /\ Reviewer # Nothing /\ resolved
     /\ \E x \in ReviewRow :
          /\ review[x].status = "absent"
          /\ review' = [review EXCEPT ![x] =
               [status |-> "todo", pull |-> p, assignedTo |-> Reviewer]]
  \/ OpenReviews(p) = {} /\ Reviewer = Nothing /\ ~resolved /\ UNCHANGED review

\* createOrUpdateReviewTaskDelivery; a duplicate ends the run at once.
ReviewTask(a) ==
  LET d == attempt[a].delivery
      s == <<"review-task", 0>>
  IN  /\ At(a, "review-task")
      /\ \/ /\ Claimed(d, s)
            /\ Goto(a, "ok")
            /\ UNCHANGED <<webhookDeliveries, effects, review>>
         \/ /\ Commit(d, s)
            /\ \E resolved \in BOOLEAN :
                 /\ CreateOrUpdate(Subject(a), resolved)
                 /\ Goto(a, IF resolved THEN "review-notice" ELSE "reviewer-unresolved")
      /\ UNCHANGED <<day, hubVars, mission, config, moves>>

ReviewNotice(a) == Mutation(a, "review-notice", <<"review-notice", 0>>, "ok")

\* closeReviewTasksForPr: every open row of the pull request; no claim.
CloseReviews(a) ==
  /\ At(a, "close")
  /\ review' = [x \in ReviewRow |-> IF x \in OpenReviews(Subject(a))
                                    THEN [review[x] EXCEPT !.status = "done"]
                                    ELSE review[x]]
  /\ Goto(a, "ok")
  /\ UNCHANGED <<ledgerVars, hubVars, mission, config, effects, moves>>
-----------------------------------------------------------------------------
(* A new issue: a mission and its cascade of tasks. *)

\* The two queries: a mission that names the issue, and open work that
\* already covers it.
Look(a) ==
  /\ At(a, "look")
  /\ \/ Subject(a) \in mission /\ Goto(a, "ok")
     \/ Subject(a) \notin mission /\ \E pc \in {"mission", "bridge-covered"} : Goto(a, pc)
  /\ UNCHANGED <<ledgerVars, hubVars, tableVars, config, effects, moves>>

Bridge(a) == Mutation(a, "bridge-covered", <<"bridge-covered", 0>>, "ok")

\* isLastStep: the review step is created another way.
StepKind(n) == IF n = LastStep THEN "resolve" ELSE "cascade-task"

\* missions:createForWebhookDelivery; a duplicate ends the run at once.
CreateMission(a) ==
  LET d == attempt[a].delivery
      s == <<"mission", 0>>
  IN  /\ At(a, "mission")
      /\ \/ /\ Claimed(d, s)
            /\ Goto(a, "ok")
            /\ UNCHANGED <<webhookDeliveries, effects, mission>>
         \/ /\ Commit(d, s)
            /\ mission' = mission \cup {Subject(a)}
            /\ Goto(a, StepKind(0))
      /\ UNCHANGED <<day, hubVars, review, config, moves>>

CascadeTask(a) ==
  LET n == attempt[a].n
  IN  /\ At(a, "cascade-task")
      /\ CommitOrSkip(attempt[a].delivery, <<"cascade-task", n>>)
      /\ attempt' = [attempt EXCEPT ![a] =
                       [delivery |-> @.delivery, pc |-> StepKind(n + 1), n |-> n + 1]]
      /\ UNCHANGED <<day, hubVars, tableVars, config, moves>>

\* resolveForRepo, a query of its own before the review step is created.
ResolveForRepo(a) ==
  /\ At(a, "resolve")
  /\ Goto(a, IF Reviewer = Nothing THEN "reviewer-unresolved" ELSE "cascade-review")
  /\ UNCHANGED <<ledgerVars, hubVars, tableVars, config, effects, moves>>

CascadeReview(a) ==
  Mutation(a, "cascade-review", <<"cascade-task", LastStep>>, "issue-opened-notice")

IssueNotice(a) ==
  Mutation(a, "issue-opened-notice", <<"issue-opened-notice", 0>>, "ok")

\* notifyReviewerUnresolved, to the one coordinator.
NotifyUnresolved(a) ==
  Mutation(a, "reviewer-unresolved", <<"reviewer-unresolved", 0>>,
           IF event[attempt[a].delivery].kind = "issue" THEN "issue-opened-notice" ELSE "ok")
-----------------------------------------------------------------------------
(* People: a reviewer moves a review task to any status, done ones too; an *)
(* administrator changes the mapping.                                      *)

Move(x) ==
  /\ moves < MaxMoves /\ moves' = moves + 1
  /\ review[x].status # "absent"
  /\ \E s \in OpenStatus \cup {"done"} : review' = [review EXCEPT ![x].status = s]
  /\ UNCHANGED <<ledgerVars, hubVars, attempt, mission, config, effects>>

Configure(c) ==
  /\ moves < MaxMoves /\ moves' = moves + 1
  /\ config' = c
  /\ UNCHANGED <<ledgerVars, hubVars, attempt, tableVars, effects>>

Run(a) ==
  \/ ReviewTask(a) \/ ReviewNotice(a) \/ CloseReviews(a)
  \/ Look(a) \/ Bridge(a) \/ CreateMission(a) \/ CascadeTask(a)
  \/ ResolveForRepo(a) \/ CascadeReview(a) \/ IssueNotice(a)
  \/ NotifyUnresolved(a)

GitHub ==
  \/ \E d \in Delivery : \/ \E p \in PullRequest : PullEvent(d, p)
                         \/ \E i \in Issue : IssueEvent(d, i)
  \/ \E p \in PullRequest : Reopen(p)

Next ==
  \/ GitHub \/ Tick \/ Purge
  \/ \E a \in Attempt : \/ \E d \in Delivery : Begin(a, d)
                        \/ Run(a)
                        \/ Die(a)
  \/ \E x \in ReviewRow : Move(x)
  \/ \E c \in Config : Configure(c)

Spec == Init /\ [][Next]_vars
-----------------------------------------------------------------------------
(* Properties. *)

TypeOK ==
  /\ day \in 0..MaxDay
  /\ webhookDeliveries \subseteq Claim
  /\ pull \in [PullRequest -> {"none", "open", "closed"}]
  /\ event \in [Delivery -> Event \cup {Nothing}]
  /\ sentAt \in [Delivery -> 0..MaxDay]
  /\ attempt \in [Attempt -> [delivery : Delivery \cup {Nothing},
                              pc : {"idle"} \cup Waiting \cup Final,
                              n : 0..LastStep]]
  /\ review \in [ReviewRow -> [status : OpenStatus \cup {"absent", "done"},
                               pull : PullRequest \cup {Nothing},
                               assignedTo : Agent \cup {Nothing}]]
  /\ mission \subseteq Issue
  /\ config \in Config
  /\ effects \in [Delivery \X Step -> Nat]
  /\ moves \in 0..MaxMoves

\* Every claimed step of a delivery takes effect at most once, although runs
\* of the same delivery overlap, die, and are repeated until GitHub stops
\* offering the delivery, and the ledger is purged meanwhile.
Once == INSTANCE OncePerKey WITH Key <- Delivery \X Step
EffectsOnce == Once!Spec

Inserted(x) == review[x].status = "absent" /\ review'[x].status # "absent"

\* No second review task is created for a pull request while one is open, in
\* whatever status its reviewer has moved it to ("collapse to a single row").
NoSecondReview ==
  [][\A x, y \in ReviewRow :
       Inserted(x) /\ review[y].pull = review'[x].pull => review[y].status \notin OpenStatus]_vars

\* A pull request is never given to its own author for review, whoever is
\* stopped and whatever the mapping has become ("never one on the author").
AuthorNeverReviews ==
  [][\A x \in ReviewRow : Inserted(x) => review'[x].assignedTo # config.orchestrator]_vars
=============================================================================
