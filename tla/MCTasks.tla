------------------------------ MODULE MCTasks ------------------------------
(***************************************************************************)
(* Small instances of Tasks for TLC.  A slice of the next-state relation   *)
(* keeps an instance with several rows within reach; the theorems of       *)
(* TasksProofs are about the whole relation.                               *)
(***************************************************************************)
EXTENDS TasksClaims, TLC

\* A run explores several small worlds, each from initial states of its own
\* and with the doors its properties are about.
VARIABLE scene

MCvars == <<vars, scene>>

\* Sound where no property of the run names a task or an agent.
Symmetric == Permutations(Task) \cup Permutations(Agent)

\* Rows of S just created by some of C, each assigned to some agent of A.
TodoRows(S, C, A, projects) ==
  /\ Fresh
  /\ status = [t \in Task |-> IF t \in S THEN "todo" ELSE "absent"]
  /\ \E creator \in [S -> C], assignee \in [S -> A] :
       actor = [t \in Task |->
         IF t \in S THEN [NoActors EXCEPT !.createdBy = creator[t],
                                         !.assignedTo = assignee[t]]
                    ELSE NoActors]
  /\ \E p \in projects :
       link = [t \in Task |-> [NoLinks EXCEPT !.project = p]]
-----------------------------------------------------------------------------
(* One row's time: every door that records it, and every one that closes it, *)
(* in the hands of its assignee and the fleet.                               *)

Outsider == CHOOSE a \in Agent : TRUE
Single == {CHOOSE t \in Task : TRUE}

ClockInit == TodoRows(Single, Agent \ {Outsider}, {Outsider}, Project \cup {Undefined})

ClockNext ==
  \/ Tick
  \/ \E t \in Single, c \in {Outsider, Fleet} :
       \/ Clock(t, c)
       \/ BlockOnNobody(t, c)
       \/ UpdateStatus(t, c)
       \/ UpdateCancel(t, c)
       \/ Complete(t, c)
       \/ UpdateDone(t, c)
       \/ FailTask(t, c)
  \/ \E c \in {Outsider, Fleet} : BulkComplete(c)
  \/ CloseMatched(Single)
-----------------------------------------------------------------------------
(* Waiting: tasks blocked on each other, closed and reopened by calls of the *)
(* fleet, which may make every call that an agent may.                       *)

BoardInit == TodoRows(Task, {Undefined}, Agent, {Undefined})

BoardNext ==
  /\ \E t \in Task :
       \/ Block(t, Fleet)
       \/ UpdateStatus(t, Fleet)
       \/ UpdateDone(t, Fleet)
       \/ UpdateCancel(t, Fleet)
       \/ Complete(t, Fleet)
       \/ FailTask(t, Fleet)
       \/ DeleteTask(t, Fleet)
  /\ UNCHANGED workSegments
-----------------------------------------------------------------------------
(* A graph of dependencies grown by addDependsOn, and a mission closed by  *)
(* the tasks that join it, are reopened and go.                            *)

LinksInit == \E a \in Agent : TodoRows(Task, {Undefined}, {a}, {Undefined})

LinksNext ==
  /\ \E t \in Task : \E c \in {Fleet, actor[t].assignedTo} :
       \/ \E A \in SUBSET Task : AddDependsOn(t, c, A)
       \/ UpdateLinks(t, c)
       \/ Start(t, c)
       \/ Complete(t, c)
       \/ FailTask(t, c)
       \/ UpdateCancel(t, c)
       \/ DeleteTask(t, c)
  /\ \A t \in Task : /\ Len(workSegments'[t]) < MaxSegments
                     /\ link'[t].project = Undefined
-----------------------------------------------------------------------------
(* The cap, for agents who start, pause and resume their own tasks. *)

OwnInit == TodoRows(Task, Agent, Agent, Project \cup {Undefined})

OwnNext ==
  \E t \in Task : \E c \in Agent \cap {actor[t].assignedTo} :
    \/ Start(t, c) \/ Pause(t, c) \/ Resume(t, c)
    \/ BlockOnNobody(t, c)
    \/ UpdateCancel(t, c)
-----------------------------------------------------------------------------
(* One row and one mission: insertion, links, typed numbers, deletion. *)

OneRow == \A t, u \in Task : Used(t) /\ Used(u) => t = u

RowsNext ==
  /\ \/ \E t \in Task, c \in Caller :
          \/ Create(t, c) \/ DeleteTask(t, c)
          \/ UpdateTyped(t, c) \/ ReplaceDependsOn(t, c)
     \/ \E t \in Task : CreateByAutomation(t)
     \/ \E m \in Mission : \/ CascadeCloseMission(m)
                           \/ ResolveStaleMission(m)
                           \/ UpdateMission(m)
  /\ OneRow'
-----------------------------------------------------------------------------
(* An agent that is no party to the tasks of the others, though it may hold *)
(* the grants on the rows automation has made.                              *)

\* Rows of every origin, created by the others and assigned to anyone.
MixedRows ==
  /\ Fresh
  /\ status = [t \in Task |-> "todo"]
  /\ link = [t \in Task |-> NoLinks]
  /\ \E creator \in Agent \ {Outsider}, assignee \in [Task -> Agent],
        origin \in [Task -> {"human", "automation", "automation-webhook"}] :
       actor = [t \in Task |->
         [NoActors EXCEPT !.createdBy = creator, !.assignedTo = assignee[t],
                          !.origin = origin[t], !.isReview = (origin[t] = "automation")]]

OutsiderNext ==
  /\ \/ \E t \in Task :
          \/ Start(t, Outsider)
          \/ Checkout(t, Outsider)
          \/ Block(t, Outsider)
          \/ Complete(t, Outsider)
          \/ UpdateStatus(t, Outsider)
          \/ UpdateCancel(t, Outsider)
          \/ \E a \in Agent : UpdateAssignee(t, Outsider, a)
          \/ AttachReviewArtifact(t, Outsider)
     \/ BulkComplete(Outsider)
  /\ \A t \in Task : Len(workSegments'[t]) < MaxSegments
-----------------------------------------------------------------------------
(* The runs. *)

\* One row's time; one agent among the rows of others.
RowInit == \/ scene = "clock" /\ ClockInit
           \/ scene = "outsider" /\ MixedRows

RowNext == /\ \/ scene = "clock" /\ ClockNext
              \/ scene = "outsider" /\ OutsiderNext
           /\ UNCHANGED scene

RowSpec == RowInit /\ [][RowNext]_MCvars

\* The guards of an outsider's doors read neither clock nor closure.
RowView == <<scene, IF scene = "clock" THEN vars
                    ELSE <<status, actor, link, timeVars, waiting>>>>

\* Several rows that wait, depend or are worked on, and the life of one row.
TableInit == \/ scene = "board" /\ BoardInit
             \/ scene = "links" /\ LinksInit
             \/ scene = "own" /\ OwnInit
             \/ scene = "rows" /\ Init

TableNext == /\ \/ scene = "board" /\ BoardNext
                \/ scene = "links" /\ LinksNext
                \/ scene = "own" /\ OwnNext
                \/ scene = "rows" /\ RowsNext
             /\ UNCHANGED scene

TableSpec == TableInit /\ [][TableNext]_MCvars

\* Neither the guards of a scene nor the properties read what it leaves out.
TableView ==
  <<scene, CASE scene = "board" -> <<status, actor, link, timeVars, waiting>>
             [] scene = "links" -> <<status, link, startedAt, workSegments, mission>>
             [] OTHER -> vars>>
-----------------------------------------------------------------------------
(* The steps of other doors, for the run of TasksClaims. *)

OpenBoardNext ==
  \/ BoardNext
  \/ \E c \in Caller : BulkComplete(c)
  \/ \E S \in SUBSET Task : CloseMatched(S)

OpenBoardSpec == BoardInit /\ scene = "board" /\ [][OpenBoardNext /\ UNCHANGED scene]_MCvars
=============================================================================
