------------------------------- MODULE Tasks -------------------------------
(***************************************************************************)
(* The task table of the backend (convex/tasks.ts): every mutation that    *)
(* writes a row's status, actors, dependencies, waiting link or recorded   *)
(* time, and the mission a completed task may close.  A Convex mutation is *)
(* a serializable transaction, so one action is one whole mutation; two    *)
(* callers interleave between mutations.  One organisation is modelled.    *)
(*                                                                         *)
(* A column of the row is a function on Task; columns that are written     *)
(* together share a record.                                                *)
(***************************************************************************)
EXTENDS WorkSegments

CONSTANTS
  Task,                 \* row ids
  Agent,                \* agents rows, the actors named by id
  Member, Admin,        \* humans with a writer role; those with org:admin
  Fleet,                \* the verified fleet caller, acting as "system"
  Project, BillableProject,
  Mission,
  ReviewCoordinator, RepoOwner,  \* may move an automation review task
  AutomationCanceller,           \* may cancel an automation task
  InProgressCap,        \* taskClosureConfig "startTaskInProgressCap"
  Typed,                \* bound: the numbers a caller types by hand
  MaxTime,              \* bound: the clock stops here
  MaxSegments           \* bound: segments of one task

ASSUME TasksAssumption ==
  /\ Admin \subseteq Member
  /\ BillableProject \subseteq Project
  /\ Agent \cap Member = {}
  /\ Fleet \notin Agent \cup Member
  /\ IsFiniteSet(Task)
  /\ Undefined \notin Task \cup Agent \cup Member \cup Project \cup Mission
  /\ Undefined \notin {"segments", "legacy", "succeeded", "failed"}
  /\ InProgressCap \in Nat \ {0}
  /\ Typed \subseteq Nat
  /\ MaxTime \in Nat /\ MaxSegments \in Nat

Caller == Agent \cup Member \cup {Fleet}

OpenStatus == {"todo", "in_progress", "review", "blocked"}
Status == OpenStatus \cup {"done", "cancelled", "failed"}
NoRow == {"absent", "deleted"}          \* never inserted, hard-deleted

Actors == [createdBy : Agent \cup Member \cup {Undefined},
           assignedTo : Agent \cup {Undefined},
           lastAssignedTo : Agent \cup {Undefined},
           isReview : BOOLEAN,
           origin : {"human", "automation", "automation-webhook"},
           attachedBy : Agent \cup {Undefined}]

Links == [project : Project \cup {Undefined},
          mission : Mission \cup {Undefined},
          dependsOn : SUBSET Task]

Closure == [at : OptTime,
            minutes : Int \cup {Undefined},
            source : {"segments", "legacy", Undefined},
            outcome : {"succeeded", "failed", Undefined}]

Waiting == [on : Task \cup {Undefined}, nobody : BOOLEAN]

Notice == [to : Task, blocker : Task, kind : {"UNBLOCKED", "BLOCKER_FAILED"}]

VARIABLES
  now,            \* Date.now()
  status,
  actor,          \* createdById, assignedToId, ... of a row
  link,           \* project, missionId, dependsOn
  startedAt, pausedAt, workSegments,
  closure,        \* completedAt, actualMinutes, durationSource, outcome
  waiting,        \* blockedOnTaskId, blockedOnNobodyReason
  mission,        \* missions.status; "execute" stands for the open phases
  notices         \* the messages unblockWaitersOn has sent

timeVars == <<startedAt, pausedAt, workSegments>>
vars == <<now, status, actor, link, startedAt, pausedAt, workSegments,
          closure, waiting, mission, notices>>

NoActors == [createdBy |-> Undefined, assignedTo |-> Undefined,
             lastAssignedTo |-> Undefined, isReview |-> FALSE,
             origin |-> "human", attachedBy |-> Undefined]
NoLinks == [project |-> Undefined, mission |-> Undefined, dependsOn |-> {}]
NoClosure == [at |-> Undefined, minutes |-> Undefined,
              source |-> Undefined, outcome |-> Undefined]
NoWaiting == [on |-> Undefined, nobody |-> FALSE]

\* No task has a history yet.
Fresh ==
  /\ now = 0
  /\ startedAt = [t \in Task |-> Undefined]
  /\ pausedAt = [t \in Task |-> Undefined]
  /\ workSegments = [t \in Task |-> <<>>]
  /\ closure = [t \in Task |-> NoClosure]
  /\ waiting = [t \in Task |-> NoWaiting]
  /\ mission = [m \in Mission |-> "execute"]
  /\ notices = {}

Init ==
  /\ Fresh
  /\ status = [t \in Task |-> "absent"]
  /\ actor = [t \in Task |-> NoActors]
  /\ link = [t \in Task |-> NoLinks]
-----------------------------------------------------------------------------
(* Who may write a row. *)

Exists(t) == status[t] \notin NoRow
Used(t) == status[t] # "absent"      \* an id a caller can hold

IsActor(c, id) == c \in Agent /\ id = c

\* Variant: whoever was assigned last keeps its part in any task.
AuthorizedAfterHandover(t, c) ==
  \/ c \in Member
  \/ c = Fleet
  \/ IsActor(c, actor[t].createdBy)
  \/ IsActor(c, actor[t].assignedTo)
  \/ IsActor(c, actor[t].lastAssignedTo)

\* authorizeTaskActor: a member with a writer role, the fleet, the creator,
\* the assignee, or the previous assignee of a review task.
Authorized(t, c) ==
  \/ c \in Member
  \/ c = Fleet
  \/ IsActor(c, actor[t].createdBy)
  \/ IsActor(c, actor[t].assignedTo)
  \/ actor[t].isReview /\ IsActor(c, actor[t].lastAssignedTo)

\* The reviewReassignGranted exception of `update`.
MayReassignReview(t, c) ==
  /\ actor[t].origin = "automation" /\ actor[t].isReview
  /\ c \in ReviewCoordinator \cup {RepoOwner}

MayCancelAutomation(t, c) ==
  actor[t].origin # "human" /\ c \in AutomationCanceller

\* The creator rule of cancel and delete; a person needs org:admin.
MayRetire(t, c) ==
  c \in Admin \/ c = Fleet \/ IsActor(c, actor[t].createdBy)

\* assertNoConcurrentInProgress: counts the CALLER's tasks, not the assignee's.
HeldBy(a, p) ==
  {x \in Task : /\ status[x] = "in_progress"
                /\ actor[x].assignedTo = a
                /\ link[x].project = p}

\* Variant: the task being started is not counted.
AtCap(t, c) ==
  c \in Agent =>
    Cardinality(HeldBy(c, link[t].project) \ {t}) <= InProgressCap

BelowCap(t, c) ==
  c \in Agent =>
    Cardinality(HeldBy(c, link[t].project) \ {t}) < InProgressCap

\* The dependencies of a row that `start` finds not yet done.
UnmetDependencies(t) ==
  {d \in link[t].dependsOn : Exists(d) /\ status[d] # "done"}

\* The ids a row lists; one that is gone lists none.
Depends(x) == link[x].dependsOn

\* The rows a walk along dependsOn visits from A.
Reached(A) ==
  {x \in Task : \A S \in SUBSET Task :
     A \subseteq S /\ (\A y \in S : Depends(y) \subseteq S) => x \in S}

\* Variant: only the added tasks themselves are looked at.
PointsBack(A, t) == \E a \in A : t \in Depends(a)

\* The walk of appendDependencies from the added ids back to t.
ReachesBack(A, t) == t \in Reached(A)
-----------------------------------------------------------------------------
(* Rows appear and disappear. *)

Tick ==
  /\ now < MaxTime
  /\ now' = now + 1
  /\ UNCHANGED <<status, actor, link, timeVars, closure, waiting, mission,
                 notices>>

\* create: any status, any dependency ids, no check on either.
Create(t, c) ==
  /\ status[t] = "absent"
  /\ \E s \in Status : status' = [status EXCEPT ![t] = s]
  /\ \E a \in Agent, r \in BOOLEAN :
       actor' = [actor EXCEPT ![t] =
         [NoActors EXCEPT !.createdBy = IF c = Fleet THEN Undefined ELSE c,
                          !.assignedTo = a, !.isReview = r]]
  /\ \E p \in Project \cup {Undefined}, m \in Mission \cup {Undefined},
        D \in SUBSET {d \in Task : Used(d)} :
       link' = [link EXCEPT ![t] =
         [project |-> p, mission |-> m, dependsOn |-> D]]
  /\ UNCHANGED <<now, timeVars, closure, waiting, mission, notices>>

\* The inserting webhook and deploy mutations: a todo row whose creator and
\* assignee labels may resolve to no agent.  Review tasks are "automation".
CreateByAutomation(t) ==
  /\ status[t] = "absent"
  /\ status' = [status EXCEPT ![t] = "todo"]
  /\ \E cr, a \in Agent \cup {Undefined},
        o \in {"human", "automation", "automation-webhook"} :
       actor' = [actor EXCEPT ![t] =
         [NoActors EXCEPT !.createdBy = cr, !.assignedTo = a,
                          !.isReview = (o = "automation"), !.origin = o]]
  /\ \E p \in Project \cup {Undefined} :
       link' = [link EXCEPT ![t].project = p]
  /\ UNCHANGED <<now, timeVars, closure, waiting, mission, notices>>

\* deleteTask: the row goes; nothing that names it is touched.
DeleteTask(t, c) ==
  /\ Exists(t) /\ MayRetire(t, c)
  /\ status' = [status EXCEPT ![t] = "deleted"]
  /\ actor' = [actor EXCEPT ![t] = NoActors]
  /\ link' = [link EXCEPT ![t] = NoLinks]
  /\ startedAt' = [startedAt EXCEPT ![t] = Undefined]
  /\ pausedAt' = [pausedAt EXCEPT ![t] = Undefined]
  /\ workSegments' = [workSegments EXCEPT ![t] = <<>>]
  /\ closure' = [closure EXCEPT ![t] = NoClosure]
  /\ waiting' = [waiting EXCEPT ![t] = NoWaiting]
  /\ UNCHANGED <<now, mission, notices>>
-----------------------------------------------------------------------------
(* The work clock: start, pause, resume, checkout, correctSegment. *)

\* start: dependencies done, below the cap, no open segment; the row's own
\* status is not looked at.
Start(t, c) ==
  /\ Exists(t) /\ Authorized(t, c)
  /\ UnmetDependencies(t) = {}
  /\ BelowCap(t, c)
  /\ ~HasOpenSegment(workSegments[t])
  /\ Len(workSegments[t]) < MaxSegments
  /\ status' = [status EXCEPT ![t] = "in_progress"]
  /\ pausedAt' = [pausedAt EXCEPT ![t] = Undefined]
  /\ startedAt' = IF workSegments[t] = <<>>
                  THEN [startedAt EXCEPT ![t] = now] ELSE startedAt
  /\ workSegments' = [workSegments EXCEPT ![t] = OpenSegment(@, now)]
  /\ UNCHANGED <<now, actor, link, closure, waiting, mission, notices>>

\* pause: closes the open segment; the row goes back to todo.
Pause(t, c) ==
  /\ Exists(t) /\ Authorized(t, c)
  /\ HasOpenSegment(workSegments[t])
  /\ status' = [status EXCEPT ![t] = "todo"]
  /\ pausedAt' = [pausedAt EXCEPT ![t] = now]
  /\ workSegments' = [workSegments EXCEPT ![t] = CloseTrailing(@, now)]
  /\ UNCHANGED <<now, actor, link, startedAt, closure, waiting, mission,
                 notices>>

\* resume: asks only for pausedAt, neither the status nor the segments.
Resume(t, c) ==
  /\ Exists(t) /\ Authorized(t, c)
  /\ pausedAt[t] # Undefined
  /\ BelowCap(t, c)
  /\ Len(workSegments[t]) < MaxSegments
  /\ status' = [status EXCEPT ![t] = "in_progress"]
  /\ pausedAt' = [pausedAt EXCEPT ![t] = Undefined]
  /\ workSegments' = [workSegments EXCEPT ![t] = OpenSegment(@, now)]
  /\ UNCHANGED <<now, actor, link, startedAt, closure, waiting, mission,
                 notices>>

\* checkout: any agent of the organisation may claim a todo row; the
\* recorded segments and the first start are replaced.
Checkout(t, c) ==
  /\ Exists(t) /\ c \in Agent \cup {Fleet}
  /\ status[t] = "todo"
  /\ pausedAt[t] = Undefined
  /\ ~HasOpenSegment(workSegments[t])
  /\ MaxSegments > 0
  /\ status' = [status EXCEPT ![t] = "in_progress"]
  /\ startedAt' = [startedAt EXCEPT ![t] = now]
  /\ workSegments' = [workSegments EXCEPT ![t] = OpenSegment(<<>>, now)]
  /\ UNCHANGED <<now, actor, link, pausedAt, closure, waiting, mission,
                 notices>>

\* correctSegment: once per segment, inside the recorded span, within the cap.
CorrectSegment(t, c) ==
  /\ Exists(t) /\ Authorized(t, c) /\ c \notin Member
  /\ status[t] \notin {"done", "cancelled"}
  /\ \E i \in DOMAIN workSegments[t], from, to \in 0..now :
       LET seg == workSegments[t][i]
       IN  /\ ~seg.corrected
           /\ from < to
           /\ Within(seg, from, to, now)
           /\ Minutes(to - from) <= MaxSegmentMinutes
           /\ workSegments' =
                [workSegments EXCEPT ![t] = Corrected(@, i, from, to)]
  /\ UNCHANGED <<now, status, actor, link, startedAt, pausedAt, closure,
                 waiting, mission, notices>>
-----------------------------------------------------------------------------
(* Waiting on another task, and how a row is closed. *)

\* blockTask, either form: the row's own status is not looked at, and only
\* the move out of in_progress ends the open segment.
MarkBlocked(t, link_) ==
  /\ status' = [status EXCEPT ![t] = "blocked"]
  /\ waiting' = [waiting EXCEPT ![t] = link_]
  /\ workSegments' =
       [workSegments EXCEPT ![t] = CloseOnExit(@, status[t], "blocked", now)]
  /\ UNCHANGED <<now, actor, link, startedAt, pausedAt, closure, mission,
                 notices>>

\* The cited task exists, is neither done nor cancelled and is not assigned
\* to the waiter's own assignee.
BlockOnTask(t, c, b) ==
  /\ Exists(t) /\ Authorized(t, c)
  /\ Exists(b) /\ status[b] \notin {"done", "cancelled"}
  /\ actor[b].assignedTo # Undefined =>
       actor[b].assignedTo # actor[t].assignedTo
  /\ MarkBlocked(t, [on |-> b, nobody |-> FALSE])

BlockOnNobody(t, c) ==
  /\ Exists(t) /\ Authorized(t, c)
  /\ MarkBlocked(t, [on |-> Undefined, nobody |-> TRUE])

\* Variant: the first waiter only.
OneWaiter(t) ==
  LET W == {w \in Task \ {t} : status[w] = "blocked" /\ waiting[w].on = t}
  IN  IF W = {} THEN {} ELSE {CHOOSE w \in W : TRUE}

\* unblockWaitersOn: rows still "blocked" that name t.
Waiters(t) == {w \in Task \ {t} : status[w] = "blocked" /\ waiting[w].on = t}

Notify(t, kind) ==
  notices' = notices \cup
    {[to |-> w, blocker |-> t, kind |-> kind] : w \in Waiters(t)}

DoneAndSweep(t) ==
  /\ status' = [x \in Task |-> IF x = t THEN "done"
                               ELSE IF x \in Waiters(t) THEN "todo"
                               ELSE status[x]]
  /\ waiting' = [x \in Task |-> IF x \in Waiters(t)
                                THEN [waiting[x] EXCEPT !.on = Undefined]
                                ELSE waiting[x]]
  /\ Notify(t, "UNBLOCKED")

Attestation == {Undefined} \cup 0..(2 * MaxSegmentMinutes + 1)

\* enforceClosureGate: recorded segments decide; without any, a billable
\* row needs a start, the note's override or the automation origin.
GatePasses(t, attested, override) ==
  IF workSegments[t] # <<>>
  THEN SegmentsClosable(CloseTrailing(workSegments[t], now), attested)
  ELSE \/ link[t].project \notin BillableProject
       \/ startedAt[t] # Undefined
       \/ override
       \/ actor[t].origin = "automation"

\* actualMinutes and durationSource; what the gate leaves undefined stays.
GateClosure(t, attested) ==
  LET segs == CloseTrailing(workSegments[t], now)
  IN  CASE segs # <<>> ->
             [closure[t] EXCEPT !.minutes = BilledMinutes(segs, attested),
                                !.source = "segments"]
        [] segs = <<>> /\ startedAt[t] # Undefined ->
             [closure[t] EXCEPT !.minutes = Minutes(now - startedAt[t]),
                                !.source = "legacy"]
        [] OTHER -> closure[t]

\* Variant: the status word where the outcome belongs.
DoneAt(record, at) == [record EXCEPT !.at = at, !.outcome = "done"]

SucceededAt(record, at) ==
  [record EXCEPT !.at = at, !.outcome = "succeeded"]

EndRecordedTime(S) ==
  workSegments' = [x \in Task |-> IF x \in S
                                  THEN CloseTrailing(workSegments[x], now)
                                  ELSE workSegments[x]]

\* Variant: only the index range below "done" is read.
MissionAfterLowerRange(t) ==
  LET m == link[t].mission
  IN  IF /\ m # Undefined
         /\ \A x \in Task \ {t} :
              link[x].mission = m => status[x] \notin {"blocked", "cancelled"}
      THEN [mission EXCEPT ![m] = "complete"]
      ELSE mission

\* The auto-complete of `complete`: every other row of the mission is done.
MissionAfter(t) ==
  LET m == link[t].mission
  IN  IF /\ m # Undefined
         /\ \A x \in Task \ {t} :
              (Exists(x) /\ link[x].mission = m) => status[x] = "done"
      THEN [mission EXCEPT ![m] = "complete"]
      ELSE mission

\* complete: no guard on the row's own status.
Complete(t, c) ==
  /\ Exists(t) /\ Authorized(t, c)
  /\ \E attested \in Attestation, override \in BOOLEAN :
       /\ GatePasses(t, attested, override)
       /\ closure' =
            [closure EXCEPT ![t] = SucceededAt(GateClosure(t, attested), now)]
  /\ EndRecordedTime({t})
  /\ DoneAndSweep(t)
  /\ mission' = MissionAfter(t)
  /\ UNCHANGED <<now, actor, link, startedAt, pausedAt>>

\* failTask: an open row only; its waiters are told and stay blocked.
FailTask(t, c) ==
  /\ status[t] \in OpenStatus /\ Authorized(t, c)
  /\ status' = [status EXCEPT ![t] = "failed"]
  /\ closure' = [closure EXCEPT ![t].at = now, ![t].outcome = "failed"]
  /\ workSegments' =
       [workSegments EXCEPT ![t] = CloseOnExit(@, status[t], "failed", now)]
  /\ Notify(t, "BLOCKER_FAILED")
  /\ UNCHANGED <<now, actor, link, startedAt, pausedAt, waiting, mission>>
-----------------------------------------------------------------------------
(* update, by the field it patches. *)

\* status todo, in_progress or review, from any status.
UpdateStatus(t, c) ==
  /\ Exists(t) /\ Authorized(t, c)
  /\ \E s \in {"todo", "in_progress", "review"} :
       /\ status' = [status EXCEPT ![t] = s]
       /\ workSegments' =
            [workSegments EXCEPT ![t] = CloseOnExit(@, status[t], s, now)]
  /\ UNCHANGED <<now, actor, link, startedAt, pausedAt, closure, waiting,
                 mission, notices>>

\* status done: the gate, then the sweep; a completedAt or actualMinutes in
\* the same call wins over the computed one.
UpdateDone(t, c) ==
  /\ Exists(t) /\ Authorized(t, c)
  /\ \E attested \in Attestation, override \in BOOLEAN,
        at \in Typed \cup {now}, minutes \in Typed \cup {Undefined} :
       LET computed == SucceededAt(GateClosure(t, attested), at)
       IN  /\ GatePasses(t, attested, override)
           /\ closure' = [closure EXCEPT ![t] =
                IF minutes = Undefined THEN computed
                ELSE [computed EXCEPT !.minutes = minutes]]
  /\ EndRecordedTime({t})
  /\ DoneAndSweep(t)
  /\ UNCHANGED <<now, actor, link, startedAt, pausedAt, mission>>

\* status cancelled: the creator's, an admin's, the fleet's, or a listed
\* canceller's on an automation row; never over done.
UpdateCancel(t, c) ==
  /\ Exists(t) /\ status[t] # "done"
  /\ MayRetire(t, c) \/ MayCancelAutomation(t, c)
  /\ status' = [status EXCEPT ![t] = "cancelled"]
  /\ workSegments' =
       [workSegments EXCEPT ![t] = CloseOnExit(@, status[t], "cancelled", now)]
  /\ UNCHANGED <<now, actor, link, startedAt, pausedAt, closure, waiting,
                 mission, notices>>

\* assignedTo: a change remembers the previous assignee.  The review grant
\* never hands the row to the repository's own orchestrator.
UpdateAssignee(t, c, a) ==
  /\ Exists(t)
  /\ Authorized(t, c) \/ MayReassignReview(t, c)
  /\ (/\ MayReassignReview(t, c)
      /\ ~IsActor(c, actor[t].assignedTo)
      /\ ~IsActor(c, actor[t].createdBy)) => a # RepoOwner
  /\ a # actor[t].assignedTo
  /\ actor' = [actor EXCEPT ![t].assignedTo = a,
                            ![t].lastAssignedTo = actor[t].assignedTo]
  /\ UNCHANGED <<now, status, link, timeVars, closure, waiting, mission,
                 notices>>

\* project and missionId.
UpdateLinks(t, c) ==
  /\ Exists(t) /\ Authorized(t, c)
  /\ \/ \E p \in Project : link' = [link EXCEPT ![t].project = p]
     \/ \E m \in Mission : link' = [link EXCEPT ![t].mission = m]
  /\ UNCHANGED <<now, status, actor, timeVars, closure, waiting, mission,
                 notices>>

\* dependsOn REPLACES the list, unchecked.
ReplaceDependsOn(t, c) ==
  /\ Exists(t) /\ Authorized(t, c)
  /\ \E D \in SUBSET {d \in Task : Used(d)} :
       link' = [link EXCEPT ![t].dependsOn = D]
  /\ UNCHANGED <<now, status, actor, timeVars, closure, waiting, mission,
                 notices>>

\* addDependsOn: every new id exists, is not t and does not wait on t.
AddDependsOn(t, c, A) ==
  LET new == A \ link[t].dependsOn
  IN  /\ Exists(t) /\ Authorized(t, c)
      /\ t \notin new
      /\ \A d \in new : Exists(d)
      /\ ~ReachesBack(new, t)
      /\ link' = [link EXCEPT ![t].dependsOn = @ \cup new]
      /\ UNCHANGED <<now, status, actor, timeVars, closure, waiting, mission,
                     notices>>

\* startedAt, completedAt and actualMinutes typed by hand.
UpdateTyped(t, c) ==
  /\ Exists(t) /\ Authorized(t, c)
  /\ \E n \in Typed :
       \/ /\ startedAt' = [startedAt EXCEPT ![t] = n]
          /\ UNCHANGED closure
       \/ /\ closure' = [closure EXCEPT ![t].at = n]
          /\ UNCHANGED startedAt
       \/ /\ closure' = [closure EXCEPT ![t].minutes = n]
          /\ UNCHANGED startedAt
  /\ UNCHANGED <<now, status, actor, link, pausedAt, workSegments, waiting,
                 mission, notices>>

\* attachReviewArtifact: any agent; the first attacher keeps the place.
AttachReviewArtifact(t, c) ==
  /\ Exists(t) /\ c \in Agent
  /\ actor[t].attachedBy \in {Undefined, c}
  /\ actor' = [actor EXCEPT ![t].attachedBy = c]
  /\ UNCHANGED <<now, status, link, timeVars, closure, waiting, mission,
                 notices>>
-----------------------------------------------------------------------------
(* Closing many rows in one transaction. *)

\* bulkComplete below its cap: the rows a filter matches (by status,
\* assignee or cron title, so any set of open rows) must all be the caller's
\* and pass the gate under the one rendered note; no sweep.
BulkComplete(c) ==
  \E S \in SUBSET Task, attested \in Attestation, override \in BOOLEAN :
    /\ c \notin Member
    /\ S # {}
    /\ \A x \in S : /\ status[x] \in OpenStatus
                    /\ \/ c = Fleet
                       \/ IsActor(c, actor[x].createdBy)
                       \/ IsActor(c, actor[x].assignedTo)
                    /\ GatePasses(x, attested, override)
    /\ status' = [x \in Task |-> IF x \in S THEN "done" ELSE status[x]]
    /\ closure' = [x \in Task |->
         IF x \in S THEN SucceededAt(GateClosure(x, attested), now)
         ELSE closure[x]]
    /\ EndRecordedTime(S)
    /\ UNCHANGED <<now, actor, link, startedAt, pausedAt, waiting, mission,
                   notices>>

\* The patch every automated closer writes: no gate, no sweep.
CloseByAutomation(S) ==
  /\ status' = [x \in Task |-> IF x \in S THEN "done" ELSE status[x]]
  /\ closure' = [x \in Task |-> IF x \in S THEN SucceededAt(closure[x], now)
                                ELSE closure[x]]
  /\ workSegments' = [x \in Task |->
       IF x \in S THEN CloseOnExit(workSegments[x], status[x], "done", now)
       ELSE workSegments[x]]
  /\ UNCHANGED <<now, actor, link, startedAt, pausedAt, waiting, notices>>

\* closeReviewTasksForPr, resolveStaleDeployTasks and the deploy supersede:
\* open rows matched by pull request or title.
CloseMatched(S) ==
  /\ S # {} /\ \A x \in S : status[x] \in OpenStatus
  /\ CloseByAutomation(S)
  /\ UNCHANGED mission

InMission(m, statuses) ==
  {x \in Task : status[x] \in statuses /\ link[x].mission = m}

\* cascadeCloseMission: every open row, then the mission, whatever the
\* mission has become since the sweep listed it.
CascadeCloseMission(m) ==
  /\ CloseByAutomation(InMission(m, OpenStatus))
  /\ mission' = [mission EXCEPT ![m] = "complete"]

\* resolveStaleIrpMission: todo and in_progress rows only, then the mission.
ResolveStaleMission(m) ==
  /\ CloseByAutomation(InMission(m, {"todo", "in_progress"}))
  /\ mission' = [mission EXCEPT ![m] = "complete"]

\* missions:updateStatus by the fleet: any status over any status.
UpdateMission(m) ==
  /\ \E s \in {"execute", "complete", "cancelled"} :
       mission' = [mission EXCEPT ![m] = s]
  /\ UNCHANGED <<now, status, actor, link, timeVars, closure, waiting, notices>>
-----------------------------------------------------------------------------
Update(t, c) ==
  \/ UpdateStatus(t, c)
  \/ UpdateDone(t, c)
  \/ UpdateCancel(t, c)
  \/ \E a \in Agent : UpdateAssignee(t, c, a)
  \/ UpdateLinks(t, c)
  \/ ReplaceDependsOn(t, c)
  \/ \E A \in SUBSET Task : AddDependsOn(t, c, A)
  \/ UpdateTyped(t, c)

Clock(t, c) ==
  \/ Start(t, c) \/ Pause(t, c) \/ Resume(t, c)
  \/ Checkout(t, c) \/ CorrectSegment(t, c)

Block(t, c) ==
  \/ \E b \in Task : BlockOnTask(t, c, b)
  \/ BlockOnNobody(t, c)

Call(t, c) ==
  \/ Create(t, c) \/ DeleteTask(t, c)
  \/ Clock(t, c) \/ Block(t, c) \/ Update(t, c)
  \/ Complete(t, c) \/ FailTask(t, c)
  \/ AttachReviewArtifact(t, c)

Automation ==
  \/ \E t \in Task : CreateByAutomation(t)
  \/ \E S \in SUBSET Task : CloseMatched(S)
  \/ \E m \in Mission : \/ CascadeCloseMission(m)
                        \/ ResolveStaleMission(m)
                        \/ UpdateMission(m)

Next ==
  \/ Tick
  \/ \E c \in Caller : \/ \E t \in Task : Call(t, c)
                       \/ BulkComplete(c)
  \/ Automation

Spec == Init /\ [][Next]_vars

\* The callers alone, one row at a time: no bulk closing and no automation.
CallNext == Tick \/ \E t \in Task, c \in Caller : Call(t, c)
CallSpec == Init /\ [][CallNext]_vars
-----------------------------------------------------------------------------
(* Properties. *)

ClockTyped ==
  /\ now \in Nat
  /\ status \in [Task -> Status \cup NoRow]
  /\ startedAt \in [Task -> OptTime]
  /\ pausedAt \in [Task -> OptTime]
  /\ workSegments \in [Task -> Seq(Segment)]

\* Every column of a row holds what the schema declares.
TypeOK ==
  /\ ClockTyped
  /\ actor \in [Task -> Actors]
  /\ link \in [Task -> Links]
  /\ closure \in [Task -> Closure]
  /\ waiting \in [Task -> Waiting]
  /\ mission \in [Mission -> {"execute", "complete", "cancelled"}]
  /\ notices \subseteq Notice

\* Only the last segment may be open, no segment starts before the previous
\* one ended, and none lies in the future: the billed spans never overlap
\* (the arrays start, pause, resume, checkout and correctSegment write).
SegmentsWellFormed == \A t \in Task : WellFormed(workSegments[t], now)

\* The clock of a task runs only while it is in_progress and not paused,
\* through every door that moves a status; it is what lets resume append a
\* segment without looking whether one is already open.
ClockRunsOnlyInProgress ==
  \A t \in Task : HasOpenSegment(workSegments[t]) =>
                    status[t] = "in_progress" /\ pausedAt[t] = Undefined

Claimed(t) == status[t] = "todo" /\ status'[t] = "in_progress"

\* A step only appends to the recorded time or trims it, never twice the same
\* segment; the one exception is checkout's claim of a todo row, which
\* replaces the array (pause, correctSegment, the gate and every closer).
RecordedTimeKept ==
  [][\A t \in Task : Exists(t) /\ Exists(t)' =>
       \/ Trimmed(workSegments[t], workSegments'[t])
       \/ Claimed(t) /\ Len(workSegments'[t]) = 1]_vars

\* The minutes computed from the segments never exceed the time that has
\* passed, but for the minute that rounding an attested segment may add,
\* however often the task was paused, corrected, reopened and closed again;
\* more can only be typed by hand (closeSegmentsForCompletion, over segments
\* that must not overlap, and the actualMinutes of update).
BilledWithinElapsed ==
  \A t \in Task : closure[t].source = "segments" =>
    closure[t].minutes \in Typed \/ closure[t].minutes <= Minutes(now) + 1

\* A caller's close leaves nobody blocked on a task that is done: the sweep
\* of complete and update reaches every waiter, in whatever order the tasks
\* were blocked, reopened, failed and closed.
NoWaiterOnDone ==
  \A w, b \in Task : status[w] = "blocked" /\ waiting[w].on = b => status[b] # "done"

DependsAcyclic == \A t \in Task : t \notin Reached(Depends(t))

\* However the additions of several callers interleave with insertions,
\* deletions and everything else, a cycle of dependencies is only ever closed
\* by replacing a whole list, which checks nothing: no step that could be any
\* other closes one (addDependsOn, create, update).
AppendedStayAcyclic ==
  [][~DependsAcyclic' =>
       \/ ~DependsAcyclic
       \/ ~\E t \in Task, c \in Caller :
             \/ \E A \in SUBSET Task : AddDependsOn(t, c, A)
             \/ Create(t, c) \/ CreateByAutomation(t) \/ DeleteTask(t, c)
             \/ UpdateLinks(t, c)]_link

AboveCap(a, p) == Cardinality(HeldBy(a, p)) > InProgressCap

\* The doors that should not take agent a above the cap: the two that count
\* its tasks, and the ones that end or only note work.
CountedFor(a) ==
  \/ \E t \in Task : Start(t, a) \/ Resume(t, a)
  \/ \E t \in Task, c \in Caller :
       \/ Pause(t, c) \/ Block(t, c) \/ Complete(t, c) \/ FailTask(t, c)
       \/ UpdateDone(t, c) \/ UpdateCancel(t, c)
       \/ DeleteTask(t, c) \/ AttachReviewArtifact(t, c)
  \/ \E c \in Caller : BulkComplete(c)
  \/ Automation

\* An agent that starts or resumes never takes itself above the cap, and
\* neither does a close, a sweep or automation; the doors that do not count,
\* and a start by another caller than the assignee, can
\* (assertNoConcurrentInProgress, which counts the caller's tasks).
OwnersHoldCap ==
  [][\A a \in Agent, p \in Project \cup {Undefined} :
       AboveCap(a, p)' => AboveCap(a, p) \/ ~CountedFor(a)]_<<status, actor, link>>

\* A mission that a task closes has no task left to do, those of other
\* callers included (the auto-complete of complete, its reads of every status
\* but done); cascadeCloseMission and updateStatus do not look.
CompleteClosesMission ==
  [][\A m \in Mission : mission[m] # "complete" /\ mission'[m] = "complete" =>
       \/ \A x \in Task : Exists(x)' /\ link'[x].mission = m => status'[x] = "done"
       \/ ~\E t \in Task, c \in Caller : Complete(t, c)]_mission

Row(t) == <<status[t], actor[t], link[t], startedAt[t], pausedAt[t],
            workSegments[t], closure[t], waiting[t]>>

\* Who has a part in a task, stated apart from the code's test.
HasPart(a, t) ==
  \/ a \in {actor[t].createdBy, actor[t].assignedTo}
  \/ actor[t].isReview /\ a = actor[t].lastAssignedTo

\* The steps an agent takes.
ActsAs(a) == BulkComplete(a) \/ \E x \in Task : Call(x, a)

\* An agent without a part in a task can claim it by checkout, release it by
\* completing the task it is blocked on, or name itself as the attacher of
\* its artifact; handing a task over ends its part in it, unless the task is
\* a review.  The grants on automation rows add a reassignment, never to the
\* repository's own agent, and a cancellation (authorizeTaskActor, checkout,
\* the sweep of complete, attachReviewArtifact and the grants of update).
OutsiderKeptOut ==
  [][\A a \in Agent, t \in Task : Exists(t) /\ ~HasPart(a, t) =>
       \/ Row(t)' = Row(t)
       \/ status[t] = "todo" /\ status'[t] = "in_progress"
       \/ /\ status[t] = "blocked" /\ status'[t] = "todo"
          /\ \E x \in Task : waiting[t].on = x /\ status'[x] = "done"
       \/ actor'[t] = [actor[t] EXCEPT !.attachedBy = a]
       \/ /\ actor[t].origin = "automation" /\ actor[t].isReview
          /\ a \in ReviewCoordinator \cup {RepoOwner}
          /\ actor'[t].assignedTo # RepoOwner /\ status'[t] = status[t]
       \/ /\ actor[t].origin # "human" /\ status'[t] = "cancelled"
          /\ a \in AutomationCanceller
       \/ ~ActsAs(a)]_vars
=============================================================================
