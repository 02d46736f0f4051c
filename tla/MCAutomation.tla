---------------------------- MODULE MCAutomation ----------------------------
(***************************************************************************)
(* Small worlds of what runs in the background: schedules that share a     *)
(* page, the whole life of one schedule, schedules behind unreadable ones, *)
(* artifacts that are named and read, and others that are read again.      *)
(***************************************************************************)
EXTENDS RecurringTasks, Deliverables

VARIABLE scene

MCvars == <<vars, scene, deliverableVars>>

First == CHOOSE r \in Routine : \A q \in Routine : r <= q
AnAgent == CHOOSE a \in Agent : TRUE
ATitle == CHOOSE s \in Title : TRUE

\* Routines of one page, their titles and keys in any mixture, one of the
\* tasks they look for already there or not.
PageInit ==
  /\ Init /\ \A r \in Routine : routines[r] # Nothing /\ routines[r].every = 1
  /\ routines[First].title = ATitle /\ routines[First].to = AnAgent

PageNext ==
  \/ CronTick \/ \E c \in pages : NextPage(c)
  \/ \E s \in Title, a \in Agent : AddTask(s, a)
  \/ \E t \in DOMAIN tasks : tasks[t].from = 0 /\ MoveTask(t, "review")

DoorsInit ==
  /\ Init /\ \A r \in Routine : r # First => routines[r] = Nothing
  /\ routines[First] # Nothing => routines[First].title = ATitle /\ routines[First].to = AnAgent

DoorsNext ==
  \/ \E s \in Title : Retitle(First, s)
  \/ Create(First, ATitle, AnAgent, 1)
  \/ \E a \in Agent : Reassign(First, a)
  \/ Reschedule(First, 1)
  \/ Pause(First) \/ Resume(First) \/ Delete(First)
  \/ \E t \in DOMAIN tasks, st \in {"blocked", "done", "deleted"} : MoveTask(t, st)
  \/ CronTick \/ \E c \in pages : NextPage(c)
  \/ Tick

\* Schedules nothing can parse in front of one that is fine.
QueueInit ==
  /\ Init
  /\ \A r \in Routine : routines[r] # Nothing =>
       routines[r].byId /\ routines[r].title = ATitle /\ routines[r].to = AnAgent

QueueNext ==
  \/ \E r \in Routine : Pause(r) \/ Resume(r) \/ Reschedule(r, 1)
  \/ CronTick \/ \E c \in pages : NextPage(c)
  \/ Tick

AnArtifact == CHOOSE d \in Artifact : TRUE
Newest == Cardinality(Task)

\* One row that names one artifact and then another, read by overlapping jobs.
NameNext ==
  \/ \E d \in Artifact :
       \/ Registry(d, "delivered")
       \/ CreateTask(1, d) \/ SetDeliverable(1, d)
  \/ Registry(AnArtifact, "not_found") \/ DeleteRow(1)
  \/ \E j \in DOMAIN jobs : ReadDeliverable(j) \/ RecordDeliverableState(j)

\* Rows that name the same artifact and wait for the cron, whose cap is one.
WaitingRow == [status |-> "todo", deliverable |-> AnArtifact, deliverableState |-> Nothing]

RecheckNext ==
  \/ \E s \in {"delivered", "not_found"} : Registry(AnArtifact, s)
  \/ TimePasses
  \/ \E s \in {"todo", "done"} : MoveRow(Newest, s)
  \/ \E j \in DOMAIN jobs :
       ReadDeliverable(j) \/ RecordDeliverableState(j) \/ JobDies(j)
  \/ ListOpenDeliverables \/ ScheduleNext
  \/ RecheckEnds \/ RecheckDies

NoSchedules == now = 0 /\ tasks = <<>> /\ pages = {} /\ routines = [r \in Routine |-> Nothing]

MCInit ==
  \/ /\ DeliverablesInit
     /\ \/ scene = "name" /\ NoSchedules
        \/ scene = "page" /\ PageInit
        \/ scene = "doors" /\ DoorsInit
        \/ scene = "queue" /\ QueueInit
  \/ /\ scene = "recheck" /\ NoSchedules
     /\ registry = [d \in Artifact |-> "not_found"] /\ everPublished = {}
     /\ inserted = Newest /\ board = [t \in Task |-> WaitingRow] /\ jobs = [j \in 1 .. MaxJobs |-> Nothing]
     /\ recheck = Nothing /\ sinceRecheck = 0

MCNext ==
  /\ UNCHANGED scene
  /\ \/ /\ \/ scene = "page" /\ PageNext
           \/ scene = "doors" /\ DoorsNext
           \/ scene = "queue" /\ QueueNext
        /\ UNCHANGED deliverableVars
     \/ /\ \/ scene = "name" /\ NameNext
           \/ scene = "recheck" /\ RecheckNext
        /\ UNCHANGED vars

\* A row's resolution, whichever slot it is in.
Reads(t) == \E j \in DOMAIN jobs :
  jobs[j] # Nothing /\ jobs[j].task = t /\ ReadDeliverable(j)
Records(t) == \E j \in DOMAIN jobs :
  jobs[j] # Nothing /\ jobs[j].task = t /\ RecordDeliverableState(j)

RecheckFairness ==
  /\ WF_deliverableVars(scene = "recheck" /\ TimePasses)
  /\ WF_deliverableVars(scene = "recheck" /\ ListOpenDeliverables)
  /\ WF_deliverableVars(scene = "recheck" /\ RecheckEnds)
  /\ SF_deliverableVars(scene = "recheck" /\ ScheduleNext)
  /\ \A t \in Task : /\ SF_deliverableVars(scene = "recheck" /\ Reads(t))
                     /\ SF_deliverableVars(scene = "recheck" /\ Records(t))

MCSpec ==
  /\ MCInit /\ [][MCNext]_MCvars
  /\ WF_vars(CronTick) /\ \A c \in [at : 0 .. MaxNow, row : Routine] : WF_vars(NextPage(c))
  /\ RecheckFairness

\* PublishedIsShown, of the rows that wait for the cron.
PublishedShows == scene = "recheck" => \A t \in Task : PublishedIsShown(t, AnArtifact)
=============================================================================
