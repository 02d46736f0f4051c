-------------------------- MODULE MCGitHubWebhook --------------------------
(***************************************************************************)
(* One repository that eta reviews for pi, with and without a stand-in and *)
(* with eta stopped or not.  Apart from it, an error that the monitor files *)
(* again and again, and one that goes quiet.                               *)
(***************************************************************************)
EXTENDS WebhookClaims, ErrorMonitor

CONSTANTS eta, pi

VARIABLE scene

SomeConfigs ==
  [reviewer : {eta}, fallback : {pi, Nothing}, orchestrator : {pi}, stopped : {{}, {eta}}]
  \cup [reviewer : {Nothing}, fallback : {eta}, orchestrator : {pi}, stopped : {{}}]

HookInit == Init /\ config \in SomeConfigs

HookNext ==
  \/ GitHub \/ Tick \/ Purge
  \/ \E a \in Attempt : \/ \E d \in Delivery : Begin(a, d)
                        \/ Run(a)
                        \/ Die(a)
  \/ \E x \in ReviewRow : Move(x)
  \/ \E c \in SomeConfigs : Configure(c)

\* One entry of the log at a time, two in all: more is counted after a death.
OneBehind == Len(entries') <= lastCursor' + 1 /\ Len(entries') <= 2

\* An error counted, filed and linked, over and over.
FiledNext ==
  /\ \/ \E e \in Error : Fail(e) \/ UpsertError(e)
     \/ FetchLogs \/ UpdateCursor \/ PollDies
     \/ \E f \in filings :
          \/ GetErrorLogById(f) \/ CommentOnExistingIssue(f) \/ NoOpenIssue(f)
          \/ FileIssue(f) \/ LinkIssue(f) \/ FilingEnds(f)
     \/ Pass
  /\ OneBehind /\ Cardinality(filings') <= 2 /\ Len(issues') <= 2

\* An error that is filed once, its mission and the resolver.
QuietNext ==
  /\ AlarmNext
  /\ OneBehind /\ Cardinality(filings') <= 1 /\ Len(issues') <= 1
  /\ \A e \in Error : Len(counted'[e]) <= 3

MCInit ==
  /\ AlarmInit
  /\ \/ scene = "hook" /\ HookInit
     \/ scene \in {"alarm", "quiet"} /\ Init /\ config = CHOOSE c \in SomeConfigs : TRUE

MCNext ==
  /\ UNCHANGED scene
  /\ \/ scene = "hook" /\ HookNext /\ UNCHANGED alarmVars
     \/ /\ \/ scene = "alarm" /\ FiledNext
           \/ scene = "quiet" /\ QuietNext
        /\ UNCHANGED vars

\* Deliveries, runs and rows are interchangeable.
Symmetry ==
  Permutations(Delivery) \cup Permutations(Attempt) \cup Permutations(ReviewRow)

MCSpec == MCInit /\ [][MCNext]_<<vars, scene, alarmVars>>
============================================================================
