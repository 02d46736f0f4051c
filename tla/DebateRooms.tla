----------------------------- MODULE DebateRooms -----------------------------
(***************************************************************************)
(* Debate rooms (convex/debate.ts, lib/debateTemplate.ts): the seats of a  *)
(* frozen template speak in turn, round after round, until a rule, an      *)
(* operator or a failed delivery ends the room.                            *)
(*                                                                         *)
(* deliverTurn and expireTurn run from the scheduler, at any time after    *)
(* they were left with it and once each; the job of a turn that is over    *)
(* does nothing.  A seat's position is its index; a turn message goes      *)
(* through the inbox.                                                      *)
(***************************************************************************)
EXTENDS Inbox

CONSTANTS
  Person,        \* people of the organisation who may write
  ReadBound,     \* TURN_ROWS_READ_BOUND
  MaxRooms,      \* bound: rooms that are created
  MaxOverflow    \* bound: refusals counted past the cap

ASSUME RoomsAssumption ==
  /\ ReadBound \in Nat /\ MaxRooms \in Nat
  /\ Nothing \notin {"answer", "skipped", "undelivered", "delivered"}
  /\ Nothing \notin {"all_done", "all_silent", "round_limit", "operator_stop"}

VARIABLES
  settings, template,   \* the saved rows, or Nothing
  rooms,                \* each with its turns, in the order they were created
  jobs                  \* what the scheduler holds

roomVars == <<settings, template, rooms, jobs>>

Settings == [maxRoundLimit : Nat, maxParticipants : Nat, maxRefusalRows : Nat, maxActiveRooms : Nat]

\* A human seat with no channel is the creator's.
Seat == [agent : Agent \cup {Nothing}, channel : Person \cup {Nothing}, deadline : BOOLEAN]

Template == [roundLimit : Nat, maxConsecutiveSkips : Nat, seats : Seq(Seat)]

Turn == [seq : Nat, round : Nat, position : Nat,
         kind : {"answer", "operator", "skipped", "dropped", "refused", "system"}]

SeatState == [skips : Nat, dropped : BOOLEAN, kind : {"answer", "skipped", Nothing}, done : BOOLEAN]

Room == [createdBy : Person, template : Template, settings : Settings,
         status : {"active", "stalled", "closed"},
         closeReason : {"all_done", "all_silent", "round_limit", "operator_stop", Nothing},
         round : Nat, position : Nat, turnSeq : Nat,
         awaiting : {"undelivered", "delivered", Nothing},
         state : Seq(SeatState), refusalRows : Nat, refusalsOverflow : Nat, turns : Seq(Turn)]

Job == [fn : {"deliverTurn", "expireTurn"}, room : 1 .. MaxRooms, seq : Nat]

RoomsTyped ==
  /\ settings \in Settings \cup {Nothing} /\ template \in Template \cup {Nothing}
  /\ rooms \in Seq(Room) /\ jobs \subseteq Job
  /\ \A k \in DOMAIN rooms : /\ rooms[k].position \in DOMAIN rooms[k].template.seats
                            /\ DOMAIN rooms[k].state = DOMAIN rooms[k].template.seats

RoomsInit == settings = Nothing /\ template = Nothing /\ rooms = <<>> /\ jobs = {}

-----------------------------------------------------------------------------
(* Settings, templates and new rooms.                                      *)

MaxTurnRows(s) == s.maxRoundLimit * s.maxParticipants * 2 + s.maxRefusalRows + 3

ValidSettings(s) ==
  /\ s.maxRoundLimit > 0 /\ s.maxParticipants > 0 /\ s.maxActiveRooms > 0
  /\ MaxTurnRows(s) <= ReadBound

IsAgent(seat) == seat.agent # Nothing

SameSitter(x, y) == x.agent = y.agent /\ x.channel = y.channel

ValidTemplate(t, s) ==
  /\ t.roundLimit \in 1 .. s.maxRoundLimit /\ t.maxConsecutiveSkips > 0
  /\ Len(t.seats) \in 2 .. s.maxParticipants
  /\ \E i \in DOMAIN t.seats : IsAgent(t.seats[i])
  /\ \A i, j \in DOMAIN t.seats : SameSitter(t.seats[i], t.seats[j]) => i = j
  /\ \A i \in DOMAIN t.seats :
       IsAgent(t.seats[i]) => t.seats[i].channel = Nothing /\ t.seats[i].deadline

SeatsOfOrg(t) == \A i \in DOMAIN t.seats : IsAgent(t.seats[i]) => Active(t.seats[i].agent)

UpsertSettings(s) ==
  /\ ValidSettings(s) /\ settings' = s
  /\ UNCHANGED <<template, rooms, jobs, inboxVars>>

UpsertTemplate(t) ==
  /\ settings # Nothing /\ ValidTemplate(t, settings) /\ SeatsOfOrg(t)
  /\ template' = t
  /\ UNCHANGED <<settings, rooms, jobs, inboxVars>>

Job1(fn, k, seq) == [fn |-> fn, room |-> k, seq |-> seq]

InitialState(t) ==
  [i \in DOMAIN t.seats |-> [skips |-> 0, dropped |-> FALSE, kind |-> Nothing, done |-> FALSE]]

OpenRooms == {k \in DOMAIN rooms : rooms[k].status \in {"active", "stalled"}}

\* The room keeps its own copies; the settings are judged again.
CreateRoom(p) ==
  /\ Len(rooms) < MaxRooms
  /\ template # Nothing /\ settings # Nothing
  /\ ValidSettings(settings) /\ ValidTemplate(template, settings) /\ SeatsOfOrg(template)
  /\ Cardinality(OpenRooms) < settings.maxActiveRooms
  /\ rooms' = Append(rooms,
       [createdBy |-> p, template |-> template, settings |-> settings, status |-> "active",
        closeReason |-> Nothing, round |-> 1, position |-> 1, turnSeq |-> 1,
        awaiting |-> "undelivered", state |-> InitialState(template),
        refusalRows |-> 0, refusalsOverflow |-> 0, turns |-> <<>>])
  /\ jobs' = jobs \cup {Job1("deliverTurn", Len(rooms) + 1, 1)}
  /\ UNCHANGED <<settings, template, inboxVars>>

-----------------------------------------------------------------------------
(* The end of a turn.                                                      *)

WithTurn(room, kind) ==
  [room EXCEPT !.turns = Append(@,
     [seq |-> room.turnSeq, round |-> room.round, position |-> room.position, kind |-> kind])]

Close(room, reason) ==
  [WithTurn(room, "system") EXCEPT !.status = "closed", !.closeReason = reason, !.awaiting = Nothing]

Seats(room) == DOMAIN room.template.seats

AgentSeats(room) == {i \in Seats(room) : IsAgent(room.template.seats[i])}

Present(room) == {i \in Seats(room) : ~room.state[i].dropped}

Live(room) == AgentSeats(room) \cap Present(room)

Later(room) == {i \in Present(room) : i > room.position}

AllDone(room) == \A i \in Live(room) : room.state[i].kind = "answer" /\ room.state[i].done

AllSilent(room) ==
  LET rowed == {i \in AgentSeats(room) : room.state[i].kind # Nothing}
  IN rowed # {} /\ \A i \in rowed : room.state[i].kind = "skipped"

\* Why the room closes now, in the order the rules are read; Nothing, it goes on.
StopRule(room) ==
  IF Live(room) = {} THEN "all_silent"
  ELSE IF Later(room) # {} THEN Nothing
  ELSE IF AllDone(room) THEN "all_done"
  ELSE IF AllSilent(room) THEN "all_silent"
  ELSE IF room.round >= room.template.roundLimit THEN "round_limit" ELSE Nothing

\* Variant: the round goes on with the seats that were dropped.
AdvanceToAll(room) ==
  IF room.position < Len(room.template.seats)
  THEN [room EXCEPT !.position = @ + 1, !.turnSeq = @ + 1, !.awaiting = "undelivered"]
  ELSE [room EXCEPT !.position = 1, !.round = @ + 1, !.turnSeq = @ + 1,
                    !.awaiting = "undelivered",
                    !.state = [i \in DOMAIN @ |-> [@[i] EXCEPT !.kind = Nothing, !.done = FALSE]]]

\* Variant: a round ends one seat late.
AdvanceOver(room) == [room EXCEPT !.position = @ + 1, !.turnSeq = @ + 1, !.awaiting = "undelivered"]

\* The next seat of the round, or the first of a new one, which forgets what
\* the seats did in this one.
Advance(room) ==
  IF Later(room) # {}
  THEN [room EXCEPT !.position = Min(Later(room)), !.turnSeq = @ + 1, !.awaiting = "undelivered"]
  ELSE [room EXCEPT !.position = Min(Present(room)), !.round = @ + 1, !.turnSeq = @ + 1,
                    !.awaiting = "undelivered",
                    !.state = [i \in DOMAIN @ |-> [@[i] EXCEPT !.kind = Nothing, !.done = FALSE]]]

\* The turn of room k is over and room, its new row, says so.
ResolveAndAdvance(k, room, left) ==
  IF StopRule(room) # Nothing
  THEN /\ rooms' = [rooms EXCEPT ![k] = Close(room, StopRule(room))]
       /\ jobs' = left
  ELSE /\ rooms' = [rooms EXCEPT ![k] = Advance(room)]
       /\ jobs' = left \cup {Job1("deliverTurn", k, room.turnSeq + 1)}

\* By the creator, or an administrator; a stalled room too.
CloseRoom(k) ==
  /\ rooms[k].status # "closed"
  /\ rooms' = [rooms EXCEPT ![k] = Close(@, "operator_stop")]
  /\ UNCHANGED <<settings, template, jobs, inboxVars>>

-----------------------------------------------------------------------------
(* Answers.                                                                *)

Holder(room, i) ==
  LET seat == room.template.seats[i]
  IN IF IsAgent(seat) THEN seat.agent
     ELSE IF seat.channel = Nothing THEN room.createdBy ELSE seat.channel

\* The first seat the caller holds; 0, none.
ParticipantOf(room, c) ==
  LET held == {i \in Seats(room) : Holder(room, i) = c} IN IF held = {} THEN 0 ELSE Min(held)

\* Variant: the rows are not counted.
RefuseUncounted(room) ==
  IF room.refusalRows < room.settings.maxRefusalRows THEN WithTurn(room, "refused")
  ELSE [room EXCEPT !.refusalsOverflow = @ + 1]

\* A refusal has a row up to the room's cap and is only counted past it.
Refuse(room) ==
  IF room.refusalRows < room.settings.maxRefusalRows
  THEN [WithTurn(room, "refused") EXCEPT !.refusalRows = @ + 1]
  ELSE [room EXCEPT !.refusalsOverflow = @ + 1]

\* A person's answer leaves no mark on its seat.
Answered(room, i, done) ==
  IF IsAgent(room.template.seats[i])
  THEN [WithTurn(room, "answer") EXCEPT
          !.state[i] = [skips |-> 0, dropped |-> @.dropped, kind |-> "answer", done |-> done]]
  ELSE WithTurn(room, "operator")

\* Caller c posts a text, fit to be an answer or not, for turn seq.
PostTurn(k, c, seq, fit, done) ==
  LET room == rooms[k]
      i == ParticipantOf(room, c)
      right == seq = room.turnSeq /\ room.awaiting # Nothing /\ room.position = i /\ fit
  IN /\ c \in Agent => Active(c)
     /\ i # 0 /\ room.status = "active"
     /\ \/ right /\ ResolveAndAdvance(k, Answered(room, i, done), jobs)
        \/ /\ ~right /\ room.refusalsOverflow < MaxOverflow
           /\ rooms' = [rooms EXCEPT ![k] = Refuse(room)] /\ UNCHANGED jobs
     /\ UNCHANGED <<settings, template, inboxVars>>

-----------------------------------------------------------------------------
(* What the scheduler runs.                                                *)

\* Variant: the deadline of a person's seat is shown and not kept.
ExpiryOfAgents(room, j) ==
  IF IsAgent(room.template.seats[room.position]) THEN {Job1("expireTurn", j.room, j.seq)} ELSE {}

Expiry(room, j) ==
  IF room.template.seats[room.position].deadline THEN {Job1("expireTurn", j.room, j.seq)} ELSE {}

\* The agent's name must be on the roster, and one that messages know.
Deliverable(a) == Active(a) /\ OnRoster(agents[a].name) /\ Known(agents[a].name)

Stall(room) == [WithTurn(room, "system") EXCEPT !.status = "stalled"]

Delivered(j, room) ==
  /\ rooms' = [rooms EXCEPT ![j.room].awaiting = "delivered"]
  /\ jobs' = (jobs \ {j}) \cup Expiry(room, j)

\* A transaction that reads more rows than it may is lost with its job.
DeliverTurn(j) ==
  LET room == rooms[j.room]
      seat == room.template.seats[room.position]
      due == room.status = "active" /\ room.turnSeq = j.seq /\ room.awaiting = "undelivered"
  IN /\ j.fn = "deliverTurn"
     /\ \/ /\ ~due \/ (IsAgent(seat) /\ Len(room.turns) > ReadBound)
           /\ jobs' = jobs \ {j} /\ UNCHANGED <<rooms, inboxVars>>
        \/ due /\ ~IsAgent(seat) /\ Delivered(j, room) /\ UNCHANGED inboxVars
        \/ /\ due /\ IsAgent(seat) /\ ~Deliverable(seat.agent)
           /\ rooms' = [rooms EXCEPT ![j.room] = Stall(room)]
           /\ jobs' = jobs \ {j} /\ UNCHANGED inboxVars
        \/ /\ due /\ IsAgent(seat) /\ Len(room.turns) <= ReadBound /\ Deliverable(seat.agent)
           /\ InsertMessage(1, <<NameReceipt(agents[seat.agent].name)>>)
           /\ Delivered(j, room)
     /\ UNCHANGED <<settings, template>>

\* The seat is passed over, and an agent that was once too often is dropped.
Skipped(room) ==
  LET i == room.position
      skips == room.state[i].skips + 1
      passed == [WithTurn(room, "skipped") EXCEPT !.state[i].skips = skips, !.state[i].kind = "skipped"]
  IN IF ~IsAgent(room.template.seats[i]) THEN WithTurn(room, "skipped")
     ELSE IF skips < room.template.maxConsecutiveSkips THEN passed
     ELSE [WithTurn(passed, "dropped") EXCEPT !.state[i].dropped = TRUE]

\* Variant: whatever turn it is.
ExpiresLate(room, seq) == room.status = "active" /\ room.awaiting # Nothing

\* Still the turn the deadline was set for.
Expires(room, seq) == room.status = "active" /\ room.turnSeq = seq /\ room.awaiting # Nothing

ExpireTurn(j) ==
  /\ j.fn = "expireTurn"
  /\ IF Expires(rooms[j.room], j.seq)
     THEN ResolveAndAdvance(j.room, Skipped(rooms[j.room]), jobs \ {j})
     ELSE jobs' = jobs \ {j} /\ UNCHANGED rooms
  /\ UNCHANGED <<settings, template, inboxVars>>

RunJob == \E j \in jobs : DeliverTurn(j) \/ ExpireTurn(j)

\* A step of a member, of a caller, of the scheduler, or in the inbox.
RoomsNext ==
  \/ \E s \in Settings : UpsertSettings(s)
  \/ \E t \in Template : UpsertTemplate(t)
  \/ \E p \in Person : CreateRoom(p)
  \/ \E k \in DOMAIN rooms :
       \/ CloseRoom(k)
       \/ \E c \in Agent \cup Person, seq \in Nat, fit, done \in BOOLEAN :
            PostTurn(k, c, seq, fit, done)
  \/ RunJob
  \/ InboxNext /\ UNCHANGED roomVars

RoomsSpec == InboxInit /\ RoomsInit /\ [][RoomsNext]_<<inboxVars, roomVars>>

-----------------------------------------------------------------------------
(* Properties.                                                             *)

\* The turn at the pointer is over, by the rule that closed the room.
EndedByRule(room) == room.status = "closed" /\ room.closeReason # "operator_stop"

Before(t, u) == t.round < u.round \/ (t.round = u.round /\ t.position < u.position)

\* The rows that end a turn.
Resolving(room) == {n \in DOMAIN room.turns : room.turns[n].kind \in {"answer", "operator", "skipped"}}

\* The rounds in which seat i was dropped.
DroppedIn(room, i) ==
  {room.turns[n].round : n \in {m \in DOMAIN room.turns :
     room.turns[m].kind = "dropped" /\ room.turns[m].position = i}}

\* The seats that have had their turn in round q.
Spoken(room, q) ==
  {i \in Seats(room) :
     /\ \/ q < room.round \/ i < room.position
        \/ i = room.position /\ EndedByRule(room)
     /\ \A d \in DroppedIn(room, i) : d >= q}

\* Each seat that was not dropped in an earlier round has one answer or skip in
\* a round, in the order of the seats, and turn n is the nth of them: two
\* callers, a deadline and an operator who reach a turn at once resolve it once.
RoundsWhole(room) ==
  /\ \A m, n \in Resolving(room) :
       m < n => /\ room.turns[m].seq < room.turns[n].seq
                /\ Before(room.turns[m], room.turns[n])
  /\ {room.turns[n].seq : n \in Resolving(room)}
       = 1 .. (room.turnSeq - (IF EndedByRule(room) THEN 0 ELSE 1))
  /\ \A q \in 1 .. room.round :
       {room.turns[n].position : n \in {m \in Resolving(room) : room.turns[m].round = q}}
         = Spoken(room, q)

\* The skips of seat i since it last answered.
Streak(room, i) ==
  LET own == {n \in Resolving(room) : room.turns[n].position = i}
  IN {n \in own : \A m \in own : room.turns[m].kind = "answer" => m < n}

\* What the room remembers of a seat is what its transcript says.
StandingsAgree(room) ==
  /\ room.refusalRows = Cardinality({n \in DOMAIN room.turns : room.turns[n].kind = "refused"})
  /\ \A i \in AgentSeats(room) :
       /\ room.state[i].skips = Cardinality(Streak(room, i))
       /\ room.state[i].dropped <=> DroppedIn(room, i) # {}
       /\ room.state[i].dropped <=> room.state[i].skips >= room.template.maxConsecutiveSkips

\* No legal sequence of turns, refusals, a stall and a stop writes more rows
\* than one transaction may read.
TranscriptFits(room) == Len(room.turns) <= MaxTurnRows(room.settings) /\ Len(room.turns) <= ReadBound

\* An active room is never left to itself: its turn waits for a delivery, for a
\* deadline, or for a person without one.
RoomIsDriven(k) ==
  LET room == rooms[k]
  IN room.status = "active" =>
       \/ room.awaiting = "undelivered" /\ Job1("deliverTurn", k, room.turnSeq) \in jobs
       \/ room.awaiting = "delivered" /\ Job1("expireTurn", k, room.turnSeq) \in jobs
       \/ room.awaiting = "delivered" /\ ~room.template.seats[room.position].deadline

\* A seat is passed over when its own turn was delivered and its own deadline
\* ran out, never by the deadline of another turn.
SkippedInTime(k) ==
  \A t \in Range(rooms[k].turns) :
    t.kind = "skipped" =>
      /\ rooms[k].template.seats[t.position].deadline
      /\ \A fn \in {"deliverTurn", "expireTurn"} : Job1(fn, k, t.seq) \notin jobs

\* The transcript of every room is whole, in order and in bounds, and agrees
\* with what the room remembers; no seat is passed over before its time and no
\* room is stranded.
RoomsSound ==
  \A k \in DOMAIN rooms :
    /\ RoundsWhole(rooms[k]) /\ StandingsAgree(rooms[k]) /\ TranscriptFits(rooms[k])
    /\ SkippedInTime(k) /\ RoomIsDriven(k)

\* The tables as they should be, a receipt as long as its message, and what
\* RoomsSound says of the rooms.
TablesSound == InboxTyped /\ ReceiptsFollow /\ RoomsTyped /\ RoomsSound

\* A room whose seats all have deadlines does not stay active, whatever its
\* seats fail to do.
RoomEnds ==
  \A k \in 1 .. MaxRooms :
    (k \in DOMAIN rooms /\ \A i \in Seats(rooms[k]) : rooms[k].template.seats[i].deadline)
      ~> (k \in DOMAIN rooms /\ rooms[k].status # "active")
=============================================================================
