---------------------------- MODULE ErrorMonitor ----------------------------
(***************************************************************************)
(* The error monitor (convex/errorMonitor*.ts): a cron polls a             *)
(* deployment's log and counts each kind of error; an error counted often  *)
(* enough has an issue filed, whose webhook starts a mission; another cron *)
(* closes the missions of errors that went quiet.                          *)
(*                                                                         *)
(* Polls, filings, webhooks and the resolver are actions: each of their    *)
(* mutations and calls is a step, and they may die before any of them.  A  *)
(* cron never runs twice at once.  The mission of an issue has its number. *)
(***************************************************************************)
EXTENDS Integers, Sequences, FiniteSets, SequencesExt, Absence

CONSTANTS
  Error,         \* kinds of error: the hash of a group key
  Threshold,     \* DEFAULT_RECURRENCE_THRESHOLD
  Window,        \* AUTO_IRP_24H_RERAISE_WINDOW_MS, AUTO_RESOLVE_QUIET_WINDOW_MS
  Limit,         \* limit of listStaleAutoIrp
  MaxAlarms,     \* bound: counted occurrences of one kind
  MaxTime        \* bound: readings of the clock

VARIABLES
  time,
  entries,       \* kinds of error in the log, in the order they were written
  lastCursor,    \* monitoredDeployments.lastCursor
  poll,          \* the poll under way
  errorLogs,     \* the rows, Nothing where there is none
  filings,       \* scheduled or running createGitHubIssue
  issues,        \* GitHub's issues, by number, with the missions they started
  resolver,      \* what autoResolveStaleIrp listed and has not gone through
  counted        \* when each kind was counted

alarmVars == <<time, entries, lastCursor, poll, errorLogs, filings, issues, resolver, counted>>

Poll == [upTo : Nat, left : SUBSET Error]

ErrorLog == [count : Nat, lastSeen : Nat, issueCreated : BOOLEAN, issueNumber : Nat,
             irpMissionId : Nat, reRaiseBaselineCount : Nat \cup {Nothing},
             autoResolved : BOOLEAN]

ASSUME AlarmAssumption ==
  /\ IsFiniteSet(Error) /\ Nothing \notin ErrorLog
  /\ Threshold \in Nat /\ Window \in Nat /\ Limit \in Nat
  /\ MaxAlarms \in Nat /\ MaxTime \in Nat

\* at: how often the error had been counted when the filing was scheduled.
Filing == [of : Error, at : Nat, recurring : BOOLEAN,
           pc : {"scheduled", "check", "file", "link"}, issue : Nat]

IssueRow == [of : Error, at : Nat, recurring : BOOLEAN, open : BOOLEAN,
             hook : {"opened", "mission", "settled"}, mission : {"none", "execute", "complete"}]

Stale == [of : Error, issueNumber : Nat, mission : Nat, pc : {"listed", "resolved"}]

AlarmsTyped ==
  /\ time \in 0 .. MaxTime
  /\ entries \in Seq(Error) /\ lastCursor \in 0 .. Len(entries)
  /\ poll \in Poll \cup {Nothing}
  /\ errorLogs \in [Error -> ErrorLog \cup {Nothing}]
  /\ filings \subseteq Filing /\ issues \in Seq(IssueRow)
  /\ resolver \in Seq(Stale)
  /\ counted \in [Error -> Seq(Nat)]
  /\ \A e \in Error : errorLogs[e] # Nothing =>
       LET row == errorLogs[e] IN
       /\ row.issueNumber \in 0 .. Len(issues) /\ row.irpMissionId \in 0 .. Len(issues)
       /\ row.count = Len(counted[e]) /\ row.lastSeen = Last(counted[e])

AlarmInit ==
  /\ time = 0 /\ entries = <<>> /\ lastCursor = 0 /\ poll = Nothing
  /\ errorLogs = [e \in Error |-> Nothing] /\ filings = {} /\ issues = <<>>
  /\ resolver = <<>> /\ counted = [e \in Error |-> <<>>]

-----------------------------------------------------------------------------
(* The poll.                                                               *)

Fail(e) ==
  /\ entries' = Append(entries, e)
  /\ UNCHANGED <<time, lastCursor, poll, errorLogs, filings, issues, resolver, counted>>

\* One group per kind, however many entries it has.
FetchLogs ==
  /\ poll = Nothing
  /\ poll' = [upTo |-> Len(entries), left |-> {entries[i] : i \in lastCursor + 1 .. Len(entries)}]
  /\ UNCHANGED <<time, entries, lastCursor, errorLogs, filings, issues, resolver, counted>>

Attested(row) == row.issueCreated /\ row.issueNumber # 0

\* Variant: a gap alone is taken for a measured recurrence.
GapAlone(row) ==
  IF Attested(row) /\ time - row.lastSeen >= Window THEN row.count + 1 - Threshold ELSE Nothing

\* The count a measurement starts from, armed by a gap.
Baseline(row) ==
  IF Attested(row) /\ time - row.lastSeen >= Window /\ row.reRaiseBaselineCount = Nothing
  THEN row.count ELSE row.reRaiseBaselineCount

IsMeasuredReRaise(row) ==
  Attested(row) /\ Baseline(row) # Nothing /\ row.count + 1 - Baseline(row) >= Threshold

ShouldCreateIssue(row) ==
  IsMeasuredReRaise(row) \/ (~row.issueCreated /\ row.count + 1 >= Threshold)

\* Variant: the first occurrence is not counted.
UncountedRow ==
  [count |-> 0, lastSeen |-> time, issueCreated |-> FALSE, issueNumber |-> 0,
   irpMissionId |-> 0, reRaiseBaselineCount |-> Nothing, autoResolved |-> FALSE]

FreshRow ==
  [count |-> 1, lastSeen |-> time, issueCreated |-> FALSE, issueNumber |-> 0,
   irpMissionId |-> 0, reRaiseBaselineCount |-> Nothing, autoResolved |-> FALSE]

UpsertError(e) ==
  LET row == errorLogs[e] IN
  /\ poll # Nothing /\ e \in poll.left /\ Len(counted[e]) < MaxAlarms
  /\ poll' = [poll EXCEPT !.left = @ \ {e}]
  /\ counted' = [counted EXCEPT ![e] = Append(@, time)]
  /\ IF row = Nothing
     THEN errorLogs' = [errorLogs EXCEPT ![e] = FreshRow] /\ UNCHANGED filings
     ELSE /\ errorLogs' = [errorLogs EXCEPT ![e].count = @ + 1, ![e].lastSeen = time,
               ![e].reRaiseBaselineCount = IF IsMeasuredReRaise(row) THEN Nothing ELSE Baseline(row),
               ![e].issueCreated = @ /\ ~IsMeasuredReRaise(row)]
          /\ filings' = filings \cup
               {f \in {[of |-> e, at |-> row.count + 1, recurring |-> IsMeasuredReRaise(row),
                        pc |-> "scheduled", issue |-> 0]} : ShouldCreateIssue(row)}
  /\ UNCHANGED <<time, entries, lastCursor, issues, resolver>>

\* A filter rule, a working refusal or a deploy window.
SkipGroup(e) ==
  /\ poll # Nothing /\ e \in poll.left /\ poll' = [poll EXCEPT !.left = @ \ {e}]
  /\ UNCHANGED <<time, entries, lastCursor, errorLogs, filings, issues, resolver, counted>>

UpdateCursor ==
  /\ poll # Nothing /\ poll.left = {}
  /\ lastCursor' = poll.upTo /\ poll' = Nothing
  /\ UNCHANGED <<time, entries, errorLogs, filings, issues, resolver, counted>>

\* The poll dies: what it counted stays counted, the cursor stays behind.
PollDies ==
  /\ poll # Nothing /\ poll' = Nothing
  /\ UNCHANGED <<time, entries, lastCursor, errorLogs, filings, issues, resolver, counted>>

-----------------------------------------------------------------------------
(* createGitHubIssue.                                                      *)

FilingStep(f, g) == f \in filings /\ filings' = (filings \ {f}) \cup {g}

GetErrorLogById(f) ==
  /\ f.pc = "scheduled"
  /\ FilingStep(f, [f EXCEPT !.pc = "check", !.issue = errorLogs[f.of].issueNumber])
  /\ UNCHANGED <<time, entries, lastCursor, poll, errorLogs, issues, resolver, counted>>

CommentOnExistingIssue(f) ==
  /\ f.pc = "check" /\ f.issue # 0 /\ issues[f.issue].open
  /\ f \in filings /\ filings' = filings \ {f}
  /\ UNCHANGED <<time, entries, lastCursor, poll, errorLogs, issues, resolver, counted>>

\* No issue, a closed one, or one GitHub could not be asked about or comment.
NoOpenIssue(f) ==
  /\ f.pc = "check" /\ FilingStep(f, [f EXCEPT !.pc = "file"])
  /\ UNCHANGED <<time, entries, lastCursor, poll, errorLogs, issues, resolver, counted>>

FileIssue(f) ==
  /\ f.pc = "file" /\ FilingStep(f, [f EXCEPT !.pc = "link", !.issue = Len(issues) + 1])
  /\ issues' = Append(issues, [of |-> f.of, at |-> f.at, recurring |-> f.recurring, open |-> TRUE,
                               hook |-> "opened", mission |-> "none"])
  /\ UNCHANGED <<time, entries, lastCursor, poll, errorLogs, resolver, counted>>

LinkIssue(f) ==
  /\ f \in filings /\ f.pc = "link" /\ filings' = filings \ {f}
  /\ errorLogs' = [errorLogs EXCEPT ![f.of].issueNumber = f.issue, ![f.of].issueCreated = TRUE]
  /\ UNCHANGED <<time, entries, lastCursor, poll, issues, resolver, counted>>

\* The kill switch, a deploy window, a refused POST, or the action dies.
FilingEnds(f) ==
  /\ f \in filings /\ filings' = filings \ {f}
  /\ UNCHANGED <<time, entries, lastCursor, poll, errorLogs, issues, resolver, counted>>

-----------------------------------------------------------------------------
(* GitHub and the webhook of an opened issue.                              *)

\* The title of a recurrence begins with another word than [Auto]: its mission
\* is not linked.
CreateIrpMission(n) ==
  /\ issues[n].hook = "opened"
  /\ issues' = [issues EXCEPT ![n].hook = IF issues[n].recurring THEN "settled" ELSE "mission",
                              ![n].mission = "execute"]
  /\ UNCHANGED <<time, entries, lastCursor, poll, errorLogs, filings, resolver, counted>>

\* Only a row the issue was linked to by now learns of the mission.
LinkIrpMissionByIssueNumber(n) ==
  /\ issues[n].hook = "mission" /\ issues' = [issues EXCEPT ![n].hook = "settled"]
  /\ errorLogs' = [e \in Error |->
       IF errorLogs[e] # Nothing /\ errorLogs[e].issueNumber = n
       THEN [errorLogs[e] EXCEPT !.irpMissionId = n] ELSE errorLogs[e]]
  /\ UNCHANGED <<time, entries, lastCursor, poll, filings, resolver, counted>>

HookDies(n) ==
  /\ issues[n].hook # "settled" /\ issues' = [issues EXCEPT ![n].hook = "settled"]
  /\ UNCHANGED <<time, entries, lastCursor, poll, errorLogs, filings, resolver, counted>>

CloseIssue(n) ==
  /\ issues[n].open /\ issues' = [issues EXCEPT ![n].open = FALSE]
  /\ UNCHANGED <<time, entries, lastCursor, poll, errorLogs, filings, resolver, counted>>

-----------------------------------------------------------------------------
(* autoResolveStaleIrp.                                                    *)

\* The n rows of S that were quiet longest; of equals, whichever.
Quietest(n, S) ==
  {T \in SUBSET S : /\ Cardinality(T) = Min({n, Cardinality(S)})
                    /\ \A d \in T, e \in S \ T : errorLogs[d].lastSeen <= errorLogs[e].lastSeen}

\* by_issue_created; three pages are read for one.
Candidates == Quietest(3 * Limit, {e \in Error : errorLogs[e] # Nothing /\ errorLogs[e].issueCreated})

IsStale(e) ==
  LET row == errorLogs[e] IN
  row.lastSeen <= time - Window /\ ~row.autoResolved /\ row.irpMissionId # 0

ListStaleAutoIrp ==
  /\ resolver = <<>>
  /\ \E rows \in Candidates : \E stale \in Quietest(Limit, {e \in rows : IsStale(e)}) :
     \E listed \in SetToSeqs(stale) :
       /\ \A i, j \in DOMAIN listed :
            i < j => errorLogs[listed[i]].lastSeen <= errorLogs[listed[j]].lastSeen
       /\ listed # <<>>
       /\ resolver' = [i \in DOMAIN listed |->
            [of |-> listed[i], issueNumber |-> errorLogs[listed[i]].issueNumber,
             mission |-> errorLogs[listed[i]].irpMissionId, pc |-> "listed"]]
  /\ UNCHANGED <<time, entries, lastCursor, poll, errorLogs, filings, issues, counted>>

HasLinkedPR ==
  /\ resolver # <<>> /\ Head(resolver).pc = "listed" /\ resolver' = Tail(resolver)
  /\ UNCHANGED <<time, entries, lastCursor, poll, errorLogs, filings, issues, counted>>

\* The row as it was listed: whether the error came back is not read again.
ResolveStaleIrpMission ==
  LET stale == Head(resolver) IN
  /\ resolver # <<>> /\ stale.pc = "listed"
  /\ issues' = [issues EXCEPT ![stale.mission].mission = "complete"]
  /\ errorLogs' = [errorLogs EXCEPT ![stale.of].autoResolved = TRUE]
  /\ resolver' = [resolver EXCEPT ![1].pc = "resolved"]
  /\ UNCHANGED <<time, entries, lastCursor, poll, filings, counted>>

CloseGitHubIssue ==
  /\ resolver # <<>> /\ Head(resolver).pc = "resolved" /\ resolver' = Tail(resolver)
  /\ \/ issues' = [issues EXCEPT ![Head(resolver).issueNumber].open = FALSE]
     \/ UNCHANGED issues
  /\ UNCHANGED <<time, entries, lastCursor, poll, errorLogs, filings, counted>>

ResolverDies ==
  /\ resolver # <<>> /\ resolver' = <<>>
  /\ UNCHANGED <<time, entries, lastCursor, poll, errorLogs, filings, issues, counted>>

Pass ==
  /\ time < MaxTime /\ time' = time + 1
  /\ UNCHANGED <<entries, lastCursor, poll, errorLogs, filings, issues, resolver, counted>>

-----------------------------------------------------------------------------
AlarmNext ==
  \/ \E e \in Error : Fail(e) \/ UpsertError(e) \/ SkipGroup(e)
  \/ FetchLogs \/ UpdateCursor \/ PollDies
  \/ \E f \in filings :
       \/ GetErrorLogById(f) \/ CommentOnExistingIssue(f) \/ NoOpenIssue(f)
       \/ FileIssue(f) \/ LinkIssue(f) \/ FilingEnds(f)
  \/ \E n \in DOMAIN issues :
       CreateIrpMission(n) \/ LinkIrpMissionByIssueNumber(n) \/ HookDies(n) \/ CloseIssue(n)
  \/ ListStaleAutoIrp \/ HasLinkedPR \/ ResolveStaleIrpMission \/ CloseGitHubIssue \/ ResolverDies
  \/ Pass

AlarmSpec == AlarmInit /\ [][AlarmNext]_alarmVars

-----------------------------------------------------------------------------
(* Properties.                                                             *)

Gap(e, g) == g > 1 /\ counted[e][g] - counted[e][g - 1] >= Window

\* What is scheduled or filed as a recurrence was measured: since a gap of the
\* window, and after the recurrence declared before it, the error was counted
\* as often as the threshold asks, whatever was filed, linked or lost between.
Declared(e) == {f.at : f \in {g \in filings : g.of = e /\ g.recurring}}
                 \cup {issues[n].at : n \in {m \in DOMAIN issues : issues[m].of = e /\ issues[m].recurring}}

RecurrenceIsMeasured ==
  \A e \in Error : \A k \in Declared(e) :
    \E g \in 2 .. k :
      /\ Gap(e, g) /\ k - g + 1 >= Threshold
      /\ \A j \in Declared(e) : j < k => j < g

\* The rows as they should be, and RecurrenceIsMeasured.
RecurrenceSound == AlarmsTyped /\ RecurrenceIsMeasured
=============================================================================
