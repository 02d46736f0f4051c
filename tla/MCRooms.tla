------------------------------- MODULE MCRooms -------------------------------
(***************************************************************************)
(* Small worlds of debate rooms and of the inbox: the whole life of one    *)
(* room, the doors around two rooms, the mail of a few agents.             *)
(***************************************************************************)
EXTENDS DebateRooms

CONSTANTS pi, tau, vps

VARIABLE scene

MCvars == <<inboxVars, roomVars, scene>>

Of(r) == [role |-> r, suffix |-> Nothing]
On(r) == [role |-> r, suffix |-> vps]

\* Both roles have an instance each.
Profiles == {[orchestratorId |-> Of(r), instanceId |-> On(r)] : r \in Role}
Instances == {Nothing, On(pi)}
Readers == {CHOOSE a \in Agent : TRUE}

FirstAgent == CHOOSE a \in Agent : a \in Reader
OtherAgent == CHOOSE a \in Agent : a # FirstAgent
APerson == CHOOSE p \in Person : TRUE

\* Two agents with the two roles' names, on the rosters.
Staffed ==
  /\ InboxInit /\ \A a \in Agent : agents[a] # Nothing
  /\ agents[FirstAgent].name = Of(pi) /\ agents[OtherAgent].name = Of(tau)

AgentSeat(a) == [agent |-> a, channel |-> Nothing, deadline |-> TRUE]
HumanSeat(p, d) == [agent |-> Nothing, channel |-> p, deadline |-> d]

SmallSettings(refusals, open) ==
  [maxRoundLimit |-> 2, maxParticipants |-> 3, maxRefusalRows |-> refusals, maxActiveRooms |-> open]

TemplateOf(seats, rounds, skips) ==
  [roundLimit |-> rounds, maxConsecutiveSkips |-> skips, seats |-> seats]

\* Two agents; a person between them; a person who may take all the time.
Pair == <<AgentSeat(FirstAgent), AgentSeat(OtherAgent)>>
Table == <<AgentSeat(FirstAgent), HumanSeat(Nothing, TRUE), AgentSeat(OtherAgent)>>
Interview == <<HumanSeat(Nothing, FALSE), AgentSeat(FirstAgent)>>

RoomInit ==
  /\ Staffed /\ rooms = <<>> /\ jobs = {}
  /\ \/ settings = SmallSettings(1, 1) /\ \E s \in 1 .. 2 : template = TemplateOf(Pair, 2, s)
     \/ settings = SmallSettings(0, 1)
        /\ template \in {TemplateOf(Table, 2, 1), TemplateOf(Interview, 2, 2)}

RoomNext ==
  \/ rooms = <<>> /\ CreateRoom(APerson)
  \/ \E k \in DOMAIN rooms :
       \/ \E c \in Agent \cup {APerson}, seq \in 1 .. rooms[k].turnSeq, fit, done \in BOOLEAN :
            PostTurn(k, c, seq, fit, done)
       \/ CloseRoom(k)
  \/ RunJob
  \/ /\ rooms # <<>> /\ rooms[1].awaiting = "undelivered"
     /\ DeactivateAgent(OtherAgent) /\ UNCHANGED roomVars

\* Rooms one after the other and at once, as settings, template and agents change.
\* The second agent is not registered yet.
DoorsInit ==
  /\ InboxInit /\ RoomsInit
  /\ agents = [a \in Agent |-> IF a = FirstAgent THEN [name |-> Of(pi), isActive |-> TRUE] ELSE Nothing]

DoorsNext ==
  \/ \E n \in 1 .. 2 : UpsertSettings(SmallSettings(0, n))
  \/ UpsertTemplate(TemplateOf(Interview, 1, 1))
  \/ CreateRoom(APerson)
  \/ \E k \in DOMAIN rooms :
       \/ \E c \in {FirstAgent, APerson} :
            /\ ParticipantOf(rooms[k], c) = rooms[k].position
            /\ PostTurn(k, c, rooms[k].turnSeq, TRUE, TRUE)
       \/ CloseRoom(k)
  \/ RunJob
  \/ /\ \/ RenameAgent(FirstAgent, On(pi)) \/ AppendToRoster(FirstAgent)
        \/ DeactivateAgent(FirstAgent) \/ ReactivateAgent(FirstAgent)
        \/ rooms = <<>> /\ RegisterAgent(OtherAgent, Of(pi))
     /\ UNCHANGED roomVars

MailInit == RoomsInit /\ Staffed

Small == Len(receipts') <= MaxReceipts

\* One agent writes, the other reads, whole and by instance.
MailNext ==
  /\ \/ \E size \in {1, 3} :
          \/ \E parts \in {<<Of(pi)>>, <<On(pi), Of(pi)>>} : SendByName(OtherAgent, parts, size)
          \/ SendByIds(OtherAgent, Agent, size) \/ Broadcast(OtherAgent, size)
     \/ \E s \in Session : CheckMessages(s)
     \/ \E i \in DOMAIN receipts :
          ~receipts[i].read /\ (MarkAsRead(FirstAgent, {i}) \/ MemberMarks({i}))
     \/ \E m \in DOMAIN messages : DeleteMessage(m)
     \/ DeactivateAgent(FirstAgent) \/ ReactivateAgent(FirstAgent)
  /\ Small /\ UNCHANGED roomVars

MCInit ==
  \/ scene = "room" /\ RoomInit
  \/ scene = "doors" /\ DoorsInit
  \/ scene = "mail" /\ MailInit

MCNext ==
  /\ UNCHANGED scene
  /\ \/ scene = "room" /\ RoomNext /\ UNCHANGED <<settings, template>>
     \/ scene = "doors" /\ DoorsNext
     \/ scene = "mail" /\ MailNext

MCSpec ==
  /\ MCInit /\ [][MCNext]_MCvars
  /\ WF_MCvars(RunJob /\ UNCHANGED scene)
  /\ \A s \in Session : WF_MCvars(scene = "mail" /\ CheckMessages(s) /\ UNCHANGED <<roomVars, scene>>)

\* MailServed, where there are readers.
ReadersServed == scene = "mail" => MailServed
=============================================================================
