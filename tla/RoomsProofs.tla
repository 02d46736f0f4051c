----------------------------- MODULE RoomsProofs -----------------------------
(***************************************************************************)
(* What the runs check of debate rooms and of the inbox's tables, for any  *)
(* number of rooms, seats, rounds, agents and messages.                    *)
(*                                                                         *)
(* A room is followed through the middle of a transaction, where its turn  *)
(* is over and its pointer has not moved: Core has that as a parameter.    *)
(***************************************************************************)
EXTENDS DebateRooms, FiniteSetTheorems, SequenceTheorems, WellFoundedInduction, TLAPS

vars == <<inboxVars, roomVars>>

-----------------------------------------------------------------------------
(* The invariant of one room.                                              *)

Placing == {"answer", "operator", "skipped", "dropped"}

Kinds == Placing \cup {"refused", "system"}

\* The row is of a turn before the one at the pointer, or of that one once it
\* is over.
Behind(room, row, over) ==
  \/ row.round < room.round
  \/ row.round = room.round /\ row.position < room.position
  \/ over /\ row.round = room.round /\ row.position = room.position

\* The rows of the turns lie behind the pointer.
Placed(room, over) ==
  \A n \in DOMAIN room.turns :
    room.turns[n].kind \in Placing =>
      /\ room.turns[n].round >= 1 /\ room.turns[n].position \in Seats(room)
      /\ Behind(room, room.turns[n], over)

SpokenBy(room, q, over) ==
  {i \in Seats(room) :
     /\ q < room.round \/ i < room.position \/ (i = room.position /\ over)
     /\ \A d \in DroppedIn(room, i) : d >= q}

PositionsIn(room, q) ==
  {room.turns[n].position : n \in {m \in Resolving(room) : room.turns[m].round = q}}

Ended(room, over) == room.turnSeq - (IF over THEN 0 ELSE 1)

InTurn(room) ==
  \A m, n \in Resolving(room) :
    m < n => /\ room.turns[m].seq < room.turns[n].seq
             /\ Before(room.turns[m], room.turns[n])

\* RoundsWhole, with the turn at the pointer over or not.
Whole(room, over) ==
  /\ InTurn(room)
  /\ {room.turns[n].seq : n \in Resolving(room)} = 1 .. Ended(room, over)
  /\ \A q \in 1 .. room.round : PositionsIn(room, q) = SpokenBy(room, q, over)

Refused(room) == {n \in DOMAIN room.turns : room.turns[n].kind = "refused"}

\* StandingsAgree, and only an agent is ever dropped.
Standing(room) ==
  /\ room.refusalRows = Cardinality(Refused(room))
  /\ \A i \in Seats(room) : room.state[i].dropped <=> DroppedIn(room, i) # {}
  /\ \A i \in Seats(room) : room.state[i].dropped => IsAgent(room.template.seats[i])
  /\ \A i \in AgentSeats(room) :
       /\ room.state[i].skips = Cardinality(Streak(room, i))
       /\ room.state[i].dropped <=> room.state[i].skips >= room.template.maxConsecutiveSkips

Dropped(room) == {i \in Seats(room) : room.state[i].dropped}

\* The system rows of a room.
Notices(room) ==
  CASE room.status = "active" -> 0
    [] room.status = "closed" /\ room.closeReason = "operator_stop" -> 2
    [] OTHER -> 1

\* A row for each turn that is over, each seat dropped, each refusal that has
\* one, and each notice.
Counted(room, over) ==
  Len(room.turns) <= Ended(room, over) + Cardinality(Dropped(room)) + room.refusalRows + Notices(room)

\* A round has at most a turn of each seat.
Paced(room) ==
  room.turnSeq <= (room.round - 1) * Len(room.template.seats) + room.position

Shape(room) ==
  /\ room \in Room
  /\ ValidSettings(room.settings) /\ ValidTemplate(room.template, room.settings)
  /\ room.position \in Seats(room) /\ DOMAIN room.state = Seats(room)
  /\ room.round \in 1 .. room.template.roundLimit
  /\ room.turnSeq >= 1 /\ Paced(room)
  /\ room.refusalRows <= room.settings.maxRefusalRows

Core(room, over) ==
  /\ Shape(room) /\ Placed(room, over) /\ Whole(room, over)
  /\ Standing(room) /\ Counted(room, over)

\* An active room waits for a seat that was not dropped.
Waiting(room) ==
  room.status = "active" => room.awaiting # Nothing /\ ~room.state[room.position].dropped

RoomInv(room) == Core(room, EndedByRule(room)) /\ Waiting(room)

-----------------------------------------------------------------------------
(* The invariant of the rooms and of what the scheduler holds.             *)

\* RoomIsDriven and SkippedInTime of room k, were it room and the jobs J.
Driven(k, room, J) ==
  room.status = "active" =>
    \/ room.awaiting = "undelivered" /\ Job1("deliverTurn", k, room.turnSeq) \in J
    \/ room.awaiting = "delivered" /\ Job1("expireTurn", k, room.turnSeq) \in J
    \/ room.awaiting = "delivered" /\ ~room.template.seats[room.position].deadline

InTime(k, room, J) ==
  \A n \in DOMAIN room.turns :
    room.turns[n].kind = "skipped" =>
      /\ room.template.seats[room.turns[n].position].deadline
      /\ \A fn \in {"deliverTurn", "expireTurn"} : Job1(fn, k, room.turns[n].seq) \notin J

\* A job is of a turn that has begun; a deadline is of a delivery that is done,
\* and of a seat that has one.
Owed(k, room, J) ==
  \A j \in J :
    j.room = k =>
      /\ j.seq <= room.turnSeq
      /\ j.fn = "expireTurn" =>
           /\ Job1("deliverTurn", k, j.seq) \notin J
           /\ j.seq = room.turnSeq => room.template.seats[room.position].deadline

Kept(k, room, J) == RoomInv(room) /\ Driven(k, room, J) /\ InTime(k, room, J) /\ Owed(k, room, J)

TablesTyped ==
  /\ settings \in Settings \cup {Nothing} /\ template \in Template \cup {Nothing}
  /\ rooms \in Seq(Room) /\ Len(rooms) <= MaxRooms /\ jobs \subseteq Job

RoomsInv ==
  /\ TablesTyped
  /\ \A k \in DOMAIN rooms : Kept(k, rooms[k], jobs)
  /\ \A j \in jobs : j.room \in DOMAIN rooms

AllInv == InboxTyped /\ RoomsInv

SoundInv == AllInv /\ ReceiptsFollow

-----------------------------------------------------------------------------
(* Numbers and sets of numbers.                                            *)

\* A set of naturals has a least member, and Min returns it.
LEMMA Least ==
  ASSUME NEW T \in SUBSET Nat, T # {}
  PROVE  Min(T) \in T /\ \A y \in T : Min(T) <= y
<1> DEFINE R == OpToRel(<, Nat)
<1>1. IsWellFoundedOn(R, Nat)
  BY NatLessThanWellFounded
<1>2. PICK x \in T : \A y \in T : ~ (<<y, x>> \in R)
  <2> HIDE DEF R
  <2> QED BY <1>1, WFMin
<1>3. ASSUME NEW y \in T PROVE x <= y
  <2>1. x \in Nat /\ y \in Nat /\ <<y, x>> \notin R
    BY <1>2
  <2>2. ~(y < x)
    BY <2>1 DEF OpToRel
  <2> HIDE DEF R
  <2> QED BY <2>1, <2>2
<1>4. \A y \in T : x <= y
  BY <1>3
<1> HIDE DEF R
<1> QED BY <1>4 DEF Min

\* A set of numbers with a bound has a greatest member, and Max returns it.
LEMMA Greatest ==
  ASSUME NEW n \in Nat, NEW T \in SUBSET (1 .. n), T # {}
  PROVE  Max(T) \in T /\ \A y \in T : y <= Max(T)
<1> DEFINE B == {b \in Nat : \A y \in T : y <= b}
<1>1. B \in SUBSET Nat /\ n \in B
  OBVIOUS
<1>2. PICK b \in B : \A c \in B : b <= c
  <2> HIDE DEF B
  <2> QED BY <1>1, Least
<1>3. b \in T
  <2>1. PICK y \in T : y \in 1 .. n
    OBVIOUS
  <2>2. SUFFICES ASSUME b \notin T PROVE FALSE
    OBVIOUS
  <2>3. b \in Nat /\ \A z \in T : z \in Nat /\ z <= b /\ z # b
    BY <2>2
  <2>4. b - 1 \in Nat /\ \A z \in T : z <= b - 1
    BY <2>1, <2>3
  <2>5. b - 1 \in B
    BY <2>4
  <2> QED BY <1>2, <2>3, <2>5
<1>4. \A y \in T : y <= b
  OBVIOUS
<1>5. \A x \in T : (\A y \in T : y <= x) => x = b
  BY <1>3, <1>4
<1> QED BY <1>3, <1>4 DEF Max

-----------------------------------------------------------------------------
(* The tables of the inbox.                                                *)

Addressee == [recipient : Name, recipientId : Agent \cup {Nothing}, instance : Name \cup {Nothing}]

\* A message and its receipts keep the tables typed.
LEMMA InsertTyped ==
  ASSUME InboxTyped, NEW size \in Nat, NEW to \in Seq(Addressee), InsertMessage(size, to)
  PROVE  InboxTyped'
<1> DEFINE New == [i \in DOMAIN to |->
       [message |-> Len(messages) + 1, recipient |-> to[i].recipient,
        recipientId |-> to[i].recipientId, instance |-> to[i].instance,
        read |-> FALSE, gone |-> FALSE]]
<1> DEFINE Mail == [size : Nat, gone : BOOLEAN]
<1>1. messages \in Seq(Mail) /\ receipts \in Seq(Receipt) /\ Len(messages) \in Nat
  BY DEF InboxTyped
<1>2. New \in Seq(Receipt) /\ \A i \in DOMAIN New : New[i].message = Len(messages) + 1
  <2>1. Len(to) \in Nat /\ DOMAIN to = 1 .. Len(to)
    OBVIOUS
  <2>2. ASSUME NEW i \in DOMAIN to PROVE New[i] \in Receipt /\ New[i].message = Len(messages) + 1
    <3>1. to[i] \in Addressee
      BY <2>1
    <3> QED BY <1>1, <3>1 DEF Receipt, Addressee
  <2>3. DOMAIN New = 1 .. Len(to)
    BY <2>1
  <2>4. New \in [1 .. Len(to) -> Receipt]
    BY <2>1, <2>2
  <2> QED BY <2>1, <2>2, <2>4
<1>3. /\ messages' = Append(messages, [size |-> size, gone |-> FALSE])
      /\ receipts' = receipts \o New
      /\ UNCHANGED <<agents, allowedOrchestrators, allowedAgentIds, polls>>
  BY DEF InsertMessage
<1> HIDE DEF New
<1>4. /\ messages' \in Seq(Mail) /\ Len(messages') = Len(messages) + 1
      /\ DOMAIN messages' = 1 .. Len(messages) + 1
  BY <1>1, <1>3
<1>5. /\ receipts' \in Seq(Receipt) /\ Len(receipts') = Len(receipts) + Len(New)
      /\ Len(receipts) \in Nat /\ Len(New) \in Nat
      /\ DOMAIN receipts' = 1 .. Len(receipts) + Len(New)
  BY <1>1, <1>2, <1>3
<1>6. ASSUME NEW i \in DOMAIN receipts' PROVE receipts'[i].message \in DOMAIN messages'
  <2>1. CASE i <= Len(receipts)
    <3>1. i \in DOMAIN receipts /\ receipts'[i] = receipts[i]
      BY <1>1, <1>2, <1>3, <1>5, <2>1
    <3>2. receipts[i].message \in DOMAIN messages
      BY <3>1 DEF InboxTyped
    <3> QED BY <1>1, <1>4, <3>1, <3>2
  <2>2. CASE i > Len(receipts)
    <3>1. i - Len(receipts) \in DOMAIN New /\ receipts'[i] = New[i - Len(receipts)]
      BY <1>1, <1>2, <1>3, <1>5, <2>2
    <3> QED BY <1>1, <1>2, <1>4, <3>1
  <2> QED BY <1>5, <2>1, <2>2
<1>7. polls' \in [Session -> [since : 0 .. Len(receipts'), shown : SUBSET (DOMAIN receipts')]]
  <2>1. 0 .. Len(receipts) \subseteq 0 .. Len(receipts') /\ DOMAIN receipts \subseteq DOMAIN receipts'
    BY <1>1, <1>5
  <2>2. [since : 0 .. Len(receipts), shown : SUBSET (DOMAIN receipts)]
          \subseteq [since : 0 .. Len(receipts'), shown : SUBSET (DOMAIN receipts')]
    BY <2>1
  <2>3. polls \in [Session -> [since : 0 .. Len(receipts), shown : SUBSET (DOMAIN receipts)]]
    BY DEF InboxTyped
  <2> QED BY <1>3, <2>2, <2>3
<1> QED BY <1>3, <1>4, <1>5, <1>6, <1>7 DEF InboxTyped

\* The addressee of a name, of a role's instance, or of an agent.
LEMMA NameAddressed ==
  ASSUME InboxTyped, NEW n \in Name
  PROVE  NameReceipt(n) \in Addressee
<1>1. RoleOf(n) \in Name
  BY DEF RoleOf, Name
<1>2. AgentNamed(RoleOf(n)) \in Agent \cup {Nothing}
  BY DEF AgentNamed
<1> QED BY <1>1, <1>2 DEF NameReceipt, Addressee

LEMMA AgentAddressed ==
  ASSUME InboxTyped, NEW a \in Agent, Active(a)
  PROVE  IdReceipt(a) \in Addressee /\ agents[a].name \in Name
<1>1. agents[a] \in [name : Name, isActive : BOOLEAN]
  BY DEF InboxTyped, Active
<1> QED BY <1>1 DEF IdReceipt, Addressee

\* SetToSeq lists a set of agents.
LEMMA Listed ==
  ASSUME NEW S \in SUBSET Agent
  PROVE  /\ SetToSeq(S) \in Seq(S) 
         /\ DOMAIN SetToSeq(S) = 1 .. Cardinality(S)
<1>1. IsFiniteSet(S)
  BY InboxAssumption, FS_Subset
<1>2. PICK f : f \in Bijection(1 .. Cardinality(S), S)
  BY <1>1, FS_CardinalityType DEF ExistsBijection
<1>3. f \in [1 .. Cardinality(S) -> S] /\ IsInjective(f)
  BY <1>2 DEF Bijection, Injection, IsInjective
<1>4. SetToSeq(S) \in [1 .. Cardinality(S) -> S]
  BY <1>3 DEF SetToSeq
<1>5. Cardinality(S) \in Nat
  BY <1>1, FS_CardinalityType
<1> QED BY <1>4, <1>5

\* The three ways to send.
LEMMA SendInserts ==
  ASSUME InboxTyped, NEW a \in Agent, NEW size \in Nat, NEW parts \in Seq(Name), NEW ids \in SUBSET Agent,
         SendByName(a, parts, size) \/ SendByIds(a, ids, size) \/ Broadcast(a, size)
  PROVE  \E to \in Seq(Addressee) : InsertMessage(size, to)
<1>1. CASE SendByName(a, parts, size)
  <2> DEFINE others == {i \in DOMAIN parts : parts[i] # agents[a].name}
  <2>1. PICK at \in InOrder(others) : InsertMessage(size, [i \in DOMAIN at |-> NameReceipt(parts[at[i]])])
    BY <1>1 DEF SendByName
  <2>2. Cardinality(others) \in Nat /\ at \in [1 .. Cardinality(others) -> others]
    <3>1. IsFiniteSet(others)
      <4>1. IsFiniteSet(DOMAIN parts)
        BY FS_Interval
      <4> QED BY <4>1, FS_Subset
    <3> QED BY <2>1, <3>1, FS_CardinalityType DEF InOrder
  <2> DEFINE to == [i \in DOMAIN at |-> NameReceipt(parts[at[i]])]
  <2>3. ASSUME NEW i \in DOMAIN at PROVE to[i] \in Addressee
    <3>1. at[i] \in DOMAIN parts /\ parts[at[i]] \in Name
      BY <2>2
    <3> QED BY <3>1, NameAddressed
  <2>4. to \in Seq(Addressee)
    <3>1. to \in [1 .. Cardinality(others) -> Addressee]
      BY <2>2, <2>3
    <3> HIDE DEF to, others
    <3> QED BY <2>2, <3>1
  <2> QED BY <2>1, <2>4
<1>2. ASSUME NEW S \in SUBSET Agent, \A b \in S : Active(b),
             InsertMessage(size, [i \in DOMAIN SetToSeq(S) |-> IdReceipt(SetToSeq(S)[i])])
      PROVE  \E to \in Seq(Addressee) : InsertMessage(size, to)
  <2> DEFINE to == [i \in DOMAIN SetToSeq(S) |-> IdReceipt(SetToSeq(S)[i])]
  <2>1. /\ SetToSeq(S) \in Seq(S) /\ DOMAIN SetToSeq(S) = 1 .. Cardinality(S)
        /\ Cardinality(S) \in Nat
    <3>1. IsFiniteSet(S)
      BY InboxAssumption, FS_Subset
    <3> QED BY <3>1, Listed, FS_CardinalityType
  <2>2. ASSUME NEW i \in DOMAIN SetToSeq(S) PROVE to[i] \in Addressee
    <3>1. SetToSeq(S)[i] \in S
      BY <2>1
    <3> QED BY <1>2, <3>1, AgentAddressed
  <2>3. to \in Seq(Addressee)
    <3>1. to \in [1 .. Cardinality(S) -> Addressee]
      BY <2>1, <2>2
    <3> QED BY <2>1, <3>1
  <2> QED BY <1>2, <2>3
<1>3. CASE SendByIds(a, ids, size)
  BY <1>2, <1>3 DEF SendByIds
<1>4. CASE Broadcast(a, size)
  <2>1. {b \in allowedAgentIds \ {a} : Active(b)} \subseteq Agent
    BY DEF InboxTyped
  <2> QED BY <1>2, <1>4, <2>1 DEF Broadcast
<1> QED BY <1>1, <1>3, <1>4

\* A page is of unread receipts, and the next one goes on from one of them or
\* from the start.
LEMMA PageTyped ==
  ASSUME InboxTyped, NEW s \in Session, CheckMessages(s)
  PROVE  InboxTyped'
<1> DEFINE fetched == Fetched(s)
           kept == {i \in fetched : ~messages[receipts[i].message].gone}
           page == {i \in kept : Fits(kept, i)}
<1>1. Len(receipts) \in Nat /\ DOMAIN receipts = 1 .. Len(receipts)
  BY DEF InboxTyped
<1>2. fetched \subseteq DOMAIN receipts
  BY DEF Fetched, Unread
<1>3. page \subseteq 1 .. Len(receipts)
  BY <1>1, <1>2
<1> DEFINE next == NextSince(fetched, page)
<1>4. polls' = [polls EXCEPT ![s] = [since |-> next, shown |-> page]]
      /\ UNCHANGED <<agents, allowedOrchestrators, allowedAgentIds, messages, receipts>>
  BY DEF CheckMessages
<1> HIDE DEF fetched, kept, page
<1>5. next \in 0 .. Len(receipts)
  <2>1. CASE Cut(fetched, page)
    <3>1. page # {}
      BY <2>1 DEF Cut
    <3>2. Max(page) \in page
      BY <1>1, <1>3, <3>1, Greatest
    <3>3. Max(page) \in 0 .. Len(receipts)
      <4>1. Max(page) \in 1 .. Len(receipts)
        BY <1>3, <3>2
      <4> HIDE DEF next
      <4> QED BY <1>1, <4>1
    <3>4. next = Max(page)
      BY <2>1 DEF NextSince
    <3> HIDE DEF next
    <3> QED BY <3>3, <3>4
  <2>2. CASE ~Cut(fetched, page)
    BY <1>1, <2>2 DEF NextSince
  <2> QED BY <2>1, <2>2
<1> HIDE DEF next
<1>6. polls' \in [Session -> [since : 0 .. Len(receipts), shown : SUBSET (DOMAIN receipts)]]
  BY <1>1, <1>3, <1>4, <1>5 DEF InboxTyped
<1> QED BY <1>4, <1>6 DEF InboxTyped

\* Marks and deletions rewrite the rows where they are.
LEMMA MarkTyped ==
  ASSUME InboxTyped, NEW R, MemberMarks(R) \/ \E a \in Agent : MarkAsRead(a, R)
  PROVE  InboxTyped'
<1> DEFINE Mark(i) == receipts[i].read \/ (i \in R /\ ~receipts[i].gone)
<1>1. Len(receipts) \in Nat /\ DOMAIN receipts = 1 .. Len(receipts)
      /\ \A i \in DOMAIN receipts : receipts[i] \in Receipt
  BY DEF InboxTyped
<1>2. /\ receipts' = [i \in DOMAIN receipts |-> [receipts[i] EXCEPT !.read = Mark(i)]]
      /\ UNCHANGED <<agents, allowedOrchestrators, allowedAgentIds, messages, polls>>
  BY DEF MemberMarks, MarkAsRead
<1>3. \A i \in DOMAIN receipts : receipts'[i] \in Receipt /\ receipts'[i].message = receipts[i].message
  BY <1>1, <1>2 DEF Receipt
<1>4. DOMAIN receipts' = 1 .. Len(receipts)
  BY <1>1, <1>2
<1>5. receipts' \in [1 .. Len(receipts) -> Receipt]
  BY <1>1, <1>2, <1>3, <1>4
<1>6. receipts' \in Seq(Receipt) /\ Len(receipts') = Len(receipts)
  BY <1>1, <1>5
<1> QED BY <1>1, <1>2, <1>3, <1>4, <1>6 DEF InboxTyped

LEMMA DeleteTyped ==
  ASSUME InboxTyped, NEW m \in DOMAIN messages, DeleteMessage(m)
  PROVE  InboxTyped'
<1>1. Len(receipts) \in Nat /\ DOMAIN receipts = 1 .. Len(receipts)
      /\ \A i \in DOMAIN receipts : receipts[i] \in Receipt
  BY DEF InboxTyped
<1>2. /\ messages' = [messages EXCEPT ![m].gone = TRUE]
      /\ receipts' = Cascade(m)
      /\ UNCHANGED <<agents, allowedOrchestrators, allowedAgentIds, polls>>
  BY DEF DeleteMessage
<1>3. \A i \in DOMAIN receipts : receipts'[i] \in Receipt /\ receipts'[i].message = receipts[i].message
  BY <1>1, <1>2 DEF Receipt, Cascade
<1>4. DOMAIN receipts' = 1 .. Len(receipts)
  BY <1>1, <1>2 DEF Cascade
<1>5. receipts' \in [1 .. Len(receipts) -> Receipt]
  BY <1>1, <1>2, <1>3, <1>4 DEF Cascade
<1>6. receipts' \in Seq(Receipt) /\ Len(receipts') = Len(receipts)
  BY <1>1, <1>5
<1>7. messages' \in Seq([size : Nat, gone : BOOLEAN]) /\ DOMAIN messages' = DOMAIN messages
  <2> DEFINE Mail == [size : Nat, gone : BOOLEAN]
  <2>1. messages \in Seq(Mail)
    BY DEF InboxTyped
  <2>2. messages[m] \in Mail /\ [messages[m] EXCEPT !.gone = TRUE] \in Mail
    <3>1. messages[m] \in Mail
      <4> HIDE DEF Mail
      <4> QED BY <2>1
    <3> QED BY <3>1
  <2> HIDE DEF Mail
  <2>3. messages' = [messages EXCEPT ![m] = [messages[m] EXCEPT !.gone = TRUE]]
    BY <1>2
  <2>4. messages' \in Seq(Mail) /\ DOMAIN messages' = DOMAIN messages
    BY <2>1, <2>2, <2>3
  <2> QED BY <2>4 DEF Mail
<1> QED BY <1>1, <1>2, <1>3, <1>4, <1>6, <1>7 DEF InboxTyped

\* The doors of an agent write one row of agents, or the rosters.
LEMMA DoorTyped ==
  ASSUME InboxTyped, NEW a \in Agent,
         \/ \E n \in Name : RegisterAgent(a, n) \/ RenameAgent(a, n)
         \/ AppendToRoster(a) \/ DeactivateAgent(a) \/ ReactivateAgent(a)
  PROVE  InboxTyped'
<1> DEFINE Row == [name : Name, isActive : BOOLEAN]
<1>1. agents \in [Agent -> Row \cup {Nothing}]
  BY DEF InboxTyped
<1>2. ASSUME agents' \in [Agent -> Row \cup {Nothing}],
             allowedOrchestrators' \subseteq Name, allowedAgentIds' \subseteq Agent,
             UNCHANGED <<messages, receipts, polls>>
      PROVE  InboxTyped'
  BY <1>2 DEF InboxTyped
<1>3. allowedOrchestrators \subseteq Name /\ allowedAgentIds \subseteq Agent
  BY DEF InboxTyped
<1>4. CASE \E n \in Name : RegisterAgent(a, n)
  BY <1>1, <1>2, <1>3, <1>4 DEF RegisterAgent
<1>5. ASSUME agents[a] # Nothing PROVE agents[a] \in Row
  BY <1>1, <1>5
<1>6. CASE \E n \in Name : RenameAgent(a, n)
  <2>1. PICK n \in Name : RenameAgent(a, n)
    BY <1>6
  <2>2. [agents[a] EXCEPT !.name = n] \in Row
    BY <1>5, <2>1 DEF RenameAgent
  <2> QED BY <1>1, <1>2, <1>3, <2>1, <2>2 DEF RenameAgent
<1>7. CASE AppendToRoster(a)
  <2>1. agents[a].name \in Name
    BY <1>5, <1>7 DEF AppendToRoster, Active
  <2> QED BY <1>1, <1>2, <1>3, <1>7, <2>1 DEF AppendToRoster
<1>8. CASE DeactivateAgent(a)
  <2>1. [agents[a] EXCEPT !.isActive = FALSE] \in Row
    BY <1>5, <1>8 DEF DeactivateAgent, Active
  <2> QED BY <1>1, <1>2, <1>3, <1>8, <2>1 DEF DeactivateAgent
<1>9. CASE ReactivateAgent(a)
  <2>1. [agents[a] EXCEPT !.isActive = TRUE] \in Row
    BY <1>5, <1>9 DEF ReactivateAgent
  <2> QED BY <1>1, <1>2, <1>3, <1>9, <2>1 DEF ReactivateAgent
<1> QED BY <1>4, <1>6, <1>7, <1>8, <1>9

LEMMA InboxTypedStep ==
  ASSUME InboxTyped, InboxNext
  PROVE  InboxTyped'
<1>1. CASE \E a \in Agent, size \in Nat :
             \/ \E parts \in Seq(Name) : SendByName(a, parts, size)
             \/ \E ids \in SUBSET Agent : SendByIds(a, ids, size)
             \/ Broadcast(a, size)
  <2>1. <<>> \in Seq(Name) /\ {} \in SUBSET Agent
    OBVIOUS
  <2> QED BY <1>1, <2>1, SendInserts, InsertTyped
<1>2. CASE \E s \in Session : CheckMessages(s)
  BY <1>2, PageTyped
<1>3. CASE \E R \in SUBSET DOMAIN receipts : MemberMarks(R) \/ \E a \in Agent : MarkAsRead(a, R)
  BY <1>3, MarkTyped
<1>4. CASE \E m \in DOMAIN messages : DeleteMessage(m)
  BY <1>4, DeleteTyped
<1>5. CASE \E a \in Agent :
             \/ \E n \in Name : RegisterAgent(a, n) \/ RenameAgent(a, n)
             \/ AppendToRoster(a) \/ DeactivateAgent(a) \/ ReactivateAgent(a)
  BY <1>5, DoorTyped
<1> QED BY <1>1, <1>2, <1>3, <1>4, <1>5 DEF InboxNext

LEMMA InboxInitTyped ==
  ASSUME InboxInit
  PROVE  InboxTyped
<1>1. agents \in [Agent -> [name : Name, isActive : BOOLEAN] \cup {Nothing}]
  <2>1. [name : Name, isActive : {TRUE}] \subseteq [name : Name, isActive : BOOLEAN]
    OBVIOUS
  <2> QED BY <2>1 DEF InboxInit
<1>2. allowedAgentIds \subseteq Agent /\ allowedOrchestrators \subseteq Name
  <2>1. allowedAgentIds = {a \in Agent : agents[a] # Nothing}
        /\ allowedOrchestrators = {agents[a].name : a \in allowedAgentIds}
    BY DEF InboxInit
  <2>2. ASSUME NEW a \in allowedAgentIds PROVE agents[a].name \in Name
    <3>1. agents[a] \in [name : Name, isActive : BOOLEAN]
      BY <1>1, <2>1, <2>2
    <3> QED BY <3>1
  <2> QED BY <2>1, <2>2
<1>3. messages = <<>> /\ receipts = <<>> /\ Len(receipts) = 0 /\ DOMAIN receipts = {}
  BY DEF InboxInit
<1>4. polls \in [Session -> [since : 0 .. Len(receipts), shown : SUBSET (DOMAIN receipts)]]
  BY <1>3 DEF InboxInit
<1> QED BY <1>1, <1>2, <1>3, <1>4 DEF InboxTyped

-----------------------------------------------------------------------------
(* A receipt goes with its message.                                        *)

\* A new message and its receipts come last, none of them gone.
LEMMA InsertFollows ==
  ASSUME InboxTyped, ReceiptsFollow, NEW size \in Nat, NEW to \in Seq(Addressee), InsertMessage(size, to)
  PROVE  ReceiptsFollow'
<1> DEFINE New == [i \in DOMAIN to |->
       [message |-> Len(messages) + 1, recipient |-> to[i].recipient,
        recipientId |-> to[i].recipientId, instance |-> to[i].instance,
        read |-> FALSE, gone |-> FALSE]]
           Mail == [size : Nat, gone : BOOLEAN]
           new == [size |-> size, gone |-> FALSE]
<1>1. messages \in Seq(Mail) /\ receipts \in Seq(Receipt) /\ Len(messages) \in Nat /\ Len(receipts) \in Nat
  BY DEF InboxTyped
<1>2. /\ Len(to) \in Nat /\ DOMAIN New = 1 .. Len(to)
      /\ \A i \in DOMAIN New : New[i].message = Len(messages) + 1 /\ New[i].gone = FALSE
  OBVIOUS
<1>3. messages' = Append(messages, new) /\ receipts' = receipts \o New
  BY DEF InsertMessage
<1>4. New = [i \in DOMAIN New |-> New[i]] /\ new.gone = FALSE
  OBVIOUS
<1> HIDE DEF New, Mail, new
<1>5. New \in Seq(Range(New))
  <2>1. New \in [1 .. Len(to) -> Range(New)]
    BY <1>2, <1>4 DEF Range
  <2> QED BY <1>2, <2>1
<1>6. /\ messages'[Len(messages) + 1] = new
      /\ \A m \in DOMAIN messages : messages'[m] = messages[m]
  BY <1>1, <1>3
<1>7. ASSUME NEW i \in DOMAIN receipts'
      PROVE  receipts'[i].gone <=> messages'[receipts'[i].message].gone
  <2>1. i \in 1 .. Len(receipts) + Len(New) /\ Len(New) = Len(to)
    BY <1>1, <1>2, <1>3, <1>5
  <2>2. CASE i <= Len(receipts)
    <3>1. i \in DOMAIN receipts /\ receipts'[i] = receipts[i]
      BY <1>1, <1>3, <1>5, <2>1, <2>2
    <3>2. receipts[i].message \in DOMAIN messages
      BY <3>1 DEF InboxTyped
    <3> QED BY <1>6, <3>1, <3>2 DEF ReceiptsFollow
  <2>3. CASE i > Len(receipts)
    <3>1. i - Len(receipts) \in DOMAIN New /\ receipts'[i] = New[i - Len(receipts)]
      BY <1>1, <1>2, <1>3, <1>5, <2>1, <2>3
    <3> QED BY <1>2, <1>4, <1>6, <3>1
  <2> QED BY <1>1, <1>2, <2>1, <2>2, <2>3
<1> QED BY <1>7 DEF ReceiptsFollow

LEMMA InboxFollows ==
  ASSUME InboxTyped, ReceiptsFollow, InboxNext
  PROVE  ReceiptsFollow'
<1>1. CASE \E a \in Agent, size \in Nat :
             \/ \E parts \in Seq(Name) : SendByName(a, parts, size)
             \/ \E ids \in SUBSET Agent : SendByIds(a, ids, size)
             \/ Broadcast(a, size)
  <2>1. <<>> \in Seq(Name) /\ {} \in SUBSET Agent
    OBVIOUS
  <2> QED BY <1>1, <2>1, SendInserts, InsertFollows
<1>2. CASE UNCHANGED <<messages, receipts>>
  BY <1>2 DEF ReceiptsFollow
<1>3. CASE \E R \in SUBSET DOMAIN receipts : MemberMarks(R) \/ \E a \in Agent : MarkAsRead(a, R)
  <2>1. PICK R \in SUBSET DOMAIN receipts : MemberMarks(R) \/ \E a \in Agent : MarkAsRead(a, R)
    BY <1>3
  <2> DEFINE Mark(i) == receipts[i].read \/ (i \in R /\ ~receipts[i].gone)
  <2>2. receipts' = [i \in DOMAIN receipts |-> [receipts[i] EXCEPT !.read = Mark(i)]] /\ UNCHANGED messages
    BY <2>1 DEF MemberMarks, MarkAsRead
  <2>3. \A i \in DOMAIN receipts : receipts[i] \in Receipt
    BY DEF InboxTyped
  <2>4. ASSUME NEW i \in DOMAIN receipts
        PROVE  receipts'[i].gone = receipts[i].gone /\ receipts'[i].message = receipts[i].message
    BY <2>2, <2>3 DEF Receipt
  <2>5. DOMAIN receipts' = DOMAIN receipts
    BY <2>2
  <2> QED BY <2>2, <2>4, <2>5 DEF ReceiptsFollow
<1>4. CASE \E m \in DOMAIN messages : DeleteMessage(m)
  <2>1. PICK m \in DOMAIN messages : DeleteMessage(m)
    BY <1>4
  <2>2. messages' = [messages EXCEPT ![m].gone = TRUE]
        /\ receipts' = [i \in DOMAIN receipts |->
             [receipts[i] EXCEPT !.gone = receipts[i].gone \/ receipts[i].message = m]]
    BY <2>1 DEF DeleteMessage, Cascade
  <2>3. \A i \in DOMAIN receipts : receipts[i] \in Receipt /\ receipts[i].message \in DOMAIN messages
    BY DEF InboxTyped
  <2>4. ASSUME NEW i \in DOMAIN receipts
        PROVE  /\ receipts'[i].message = receipts[i].message
               /\ receipts'[i].gone = (receipts[i].gone \/ receipts[i].message = m)
    BY <2>2, <2>3 DEF Receipt
  <2>5. messages'[m].gone = TRUE /\ \A n \in DOMAIN messages : n # m => messages'[n] = messages[n]
    <3> DEFINE Mail == [size : Nat, gone : BOOLEAN]
    <3>1. messages \in Seq(Mail)
      BY DEF InboxTyped
    <3>2. messages[m] \in Mail
      <4> HIDE DEF Mail
      <4> QED BY <3>1
    <3>3. [messages[m] EXCEPT !.gone = TRUE].gone = TRUE
      BY <3>2
    <3> QED BY <2>2, <3>3
  <2>6. DOMAIN receipts' = DOMAIN receipts
    BY <2>2
  <2>7. ASSUME NEW i \in DOMAIN receipts
        PROVE  receipts'[i].gone <=> messages'[receipts'[i].message].gone
    <3>1. CASE receipts[i].message = m
      BY <2>4, <2>5, <3>1
    <3>2. CASE receipts[i].message # m
      <4>1. receipts[i].gone \in BOOLEAN
        BY <2>3 DEF Receipt
      <4> QED BY <2>3, <2>4, <2>5, <3>2, <4>1 DEF ReceiptsFollow
    <3> QED BY <3>1, <3>2
  <2> QED BY <2>6, <2>7 DEF ReceiptsFollow
<1>5. CASE \E s \in Session : CheckMessages(s)
  BY <1>2, <1>5 DEF CheckMessages
<1>6. CASE \E a \in Agent :
             \/ \E n \in Name : RegisterAgent(a, n) \/ RenameAgent(a, n)
             \/ AppendToRoster(a) \/ DeactivateAgent(a) \/ ReactivateAgent(a)
  BY <1>2, <1>6 DEF RegisterAgent, RenameAgent, AppendToRoster, DeactivateAgent, ReactivateAgent
<1> QED BY <1>1, <1>3, <1>4, <1>5, <1>6 DEF InboxNext

-----------------------------------------------------------------------------
(* The pages of the inbox.                                                 *)

\* A set of numbers that has 0 and every successor has every number.
LEMMA Upwards ==
  ASSUME NEW P \in SUBSET Nat, 0 \in P, \A n \in P : n + 1 \in P
  PROVE  P = Nat
<1> SUFFICES ASSUME Nat \ P # {} PROVE FALSE
  OBVIOUS
<1>1. PICK x \in Nat \ P : \A y \in Nat \ P : x <= y
  <2>1. Nat \ P \in SUBSET Nat
    OBVIOUS
  <2> QED BY <2>1, Least
<1>2. x # 0 /\ x - 1 \in Nat /\ (x - 1) + 1 = x
  BY <1>1
<1>3. x - 1 \in P
  BY <1>1, <1>2
<1> QED BY <1>1, <1>2, <1>3

\* The sums of the first numbers of a list.
Sums(g, add, len) ==
  g \in [0 .. len -> Nat] /\ g[0] = 0 /\ \A n \in 1 .. len : g[n] = g[n - 1] + add[n]

LEMMA SumsExist ==
  ASSUME NEW len \in Nat, NEW add \in [1 .. len -> Nat]
  PROVE  \E g : Sums(g, add, len)
<1> DEFINE P == {k \in Nat : k <= len => \E g : Sums(g, add, k)}
<1>1. 0 \in P
  <2>1. Sums([n \in 0 .. 0 |-> 0], add, 0)
    BY DEF Sums
  <2> QED BY <2>1
<1>2. ASSUME NEW k \in P PROVE k + 1 \in P
  <2>0. k \in Nat /\ (k <= len => \E g : Sums(g, add, k))
    OBVIOUS
  <2> SUFFICES ASSUME k + 1 <= len PROVE \E g : Sums(g, add, k + 1)
    BY <2>0
  <2>1. PICK g : Sums(g, add, k)
    BY <2>0
  <2> DEFINE h == [n \in 0 .. k + 1 |-> IF n = k + 1 THEN g[k] + add[k + 1] ELSE g[n]]
  <2>2. add[k + 1] \in Nat /\ g[k] \in Nat
    BY <2>0, <2>1 DEF Sums
  <2>3. h \in [0 .. k + 1 -> Nat] /\ h[0] = 0
    BY <2>0, <2>1, <2>2 DEF Sums
  <2>4. ASSUME NEW n \in 1 .. k + 1 PROVE h[n] = h[n - 1] + add[n]
    <3>1. CASE n = k + 1
      <4>1. h[n] = g[k] + add[k + 1] /\ h[n - 1] = g[k]
        BY <2>0, <3>1
      <4> QED BY <3>1, <4>1
    <3>2. CASE n # k + 1
      <4>1. n \in 1 .. k /\ h[n] = g[n] /\ h[n - 1] = g[n - 1]
        BY <2>0, <3>2
      <4> QED BY <2>1, <4>1 DEF Sums
    <3> QED BY <3>1, <3>2
  <2> HIDE DEF h
  <2>5. Sums(h, add, k + 1)
    BY <2>3, <2>4 DEF Sums
  <2> QED BY <2>5
<1>3. P = Nat
  <2>1. P \in SUBSET Nat
    OBVIOUS
  <2> HIDE DEF P
  <2> QED BY <1>1, <1>2, <2>1, Upwards
<1>4. len \in P
  BY <1>3
<1> QED BY <1>4

\* There is one list of sums.
LEMMA SumsAgree ==
  ASSUME NEW len \in Nat, NEW add \in [1 .. len -> Nat], NEW g, Sums(g, add, len),
         NEW h, DOMAIN h = 0 .. len, h[0] = 0, \A n \in 1 .. len : h[n] = h[n - 1] + add[n]
  PROVE  h[len] = g[len]
<1> DEFINE P == {k \in Nat : k <= len => h[k] = g[k]}
<1>1. 0 \in P
  BY DEF Sums
<1>2. ASSUME NEW k \in P PROVE k + 1 \in P
  <2>0. k \in Nat /\ (k <= len => h[k] = g[k])
    OBVIOUS
  <2> SUFFICES ASSUME k + 1 <= len PROVE h[k + 1] = g[k + 1]
    BY <2>0
  <2>1. k + 1 \in 1 .. len /\ (k + 1) - 1 = k
    BY <2>0
  <2>2. h[k + 1] = h[k] + add[k + 1] /\ g[k + 1] = g[k] + add[k + 1]
    BY <2>1 DEF Sums
  <2> QED BY <2>0, <2>2
<1>3. P = Nat
  <2>1. P \in SUBSET Nat
    OBVIOUS
  <2> HIDE DEF P
  <2> QED BY <1>1, <1>2, <2>1, Upwards
<1>4. len \in P
  BY <1>3
<1> QED BY <1>4

\* Sums of larger numbers are larger.
LEMMA SumsGrow ==
  ASSUME NEW len \in Nat, NEW less \in [1 .. len -> Nat], NEW more \in [1 .. len -> Nat],
         \A n \in 1 .. len : less[n] <= more[n],
         NEW g, Sums(g, less, len), NEW h, Sums(h, more, len)
  PROVE  g[len] <= h[len]
<1> DEFINE P == {k \in Nat : k <= len => g[k] <= h[k]}
<1>1. 0 \in P
  BY DEF Sums
<1>2. ASSUME NEW k \in P PROVE k + 1 \in P
  <2>0. k \in Nat /\ (k <= len => g[k] <= h[k])
    OBVIOUS
  <2> SUFFICES ASSUME k + 1 <= len PROVE g[k + 1] <= h[k + 1]
    BY <2>0
  <2>1. k + 1 \in 1 .. len /\ (k + 1) - 1 = k /\ k \in 0 .. len
    BY <2>0
  <2>2. g[k + 1] = g[k] + less[k + 1] /\ h[k + 1] = h[k] + more[k + 1]
    BY <2>1 DEF Sums
  <2>3. less[k + 1] <= more[k + 1] /\ less[k + 1] \in Nat /\ more[k + 1] \in Nat
    BY <2>1
  <2>4. g[k] \in Nat /\ h[k] \in Nat
    BY <2>1 DEF Sums
  <2> QED BY <2>0, <2>2, <2>3, <2>4
<1>3. P = Nat
  <2>1. P \in SUBSET Nat
    OBVIOUS
  <2> HIDE DEF P
  <2> QED BY <1>1, <1>2, <2>1, Upwards
<1>4. len \in P
  BY <1>3
<1> QED BY <1>4

\* What a receipt adds to a page.
BytesAt(page) ==
  [n \in 1 .. Len(receipts) |-> IF n \in page THEN messages[receipts[n].message].size ELSE 0]

\* The bytes of a page are the last of the sums.
LEMMA BytesAre ==
  ASSUME InboxTyped, NEW page \in SUBSET DOMAIN receipts
  PROVE  /\ BytesAt(page) \in [1 .. Len(receipts) -> Nat]
         /\ \E g : Sums(g, BytesAt(page), Len(receipts)) /\ Bytes(page) = g[Len(receipts)]
<1> DEFINE len == Len(receipts)
           add == BytesAt(page)
           runs(g) == g = [n \in 0 .. len |->
             IF n = 0 THEN 0
             ELSE g[n - 1] + (IF n \in page THEN messages[receipts[n].message].size ELSE 0)]
           upTo == CHOOSE g : runs(g)
<1>1. len \in Nat /\ DOMAIN receipts = 1 .. len
  BY DEF InboxTyped
<1>2. add \in [1 .. len -> Nat]
  <2>1. ASSUME NEW n \in page PROVE messages[receipts[n].message].size \in Nat
    <3> DEFINE Mail == [size : Nat, gone : BOOLEAN]
    <3>1. receipts[n].message \in DOMAIN messages /\ messages \in Seq(Mail)
      BY DEF InboxTyped
    <3>2. messages[receipts[n].message] \in Mail
      <4> HIDE DEF Mail
      <4> QED BY <3>1
    <3> QED BY <3>2
  <2> QED BY <2>1 DEF BytesAt
<1>3. \A n \in 1 .. len : add[n] = IF n \in page THEN messages[receipts[n].message].size ELSE 0
  BY DEF BytesAt
<1>4. Bytes(page) = upTo[len]
  BY DEF Bytes
<1>5. PICK g : Sums(g, add, len)
  BY <1>1, <1>2, SumsExist
<1> HIDE DEF add
<1>6. runs(g)
  <2>1. \A n \in 0 .. len : g[n] = IF n = 0 THEN 0
          ELSE g[n - 1] + (IF n \in page THEN messages[receipts[n].message].size ELSE 0)
    BY <1>1, <1>3, <1>5 DEF Sums
  <2> QED BY <1>5, <2>1 DEF Sums
<1>7. runs(upTo)
  BY <1>6
<1> HIDE DEF upTo
<1>8. DOMAIN upTo = 0 .. len /\ upTo[0] = 0 /\ \A n \in 1 .. len : upTo[n] = upTo[n - 1] + add[n]
  BY <1>1, <1>3, <1>7
<1>9. upTo[len] = g[len]
  BY <1>1, <1>2, <1>5, <1>8, SumsAgree
<1> QED BY <1>2, <1>4, <1>5, <1>9 DEF add

LEMMA BytesGrow ==
  ASSUME InboxTyped, NEW page \in SUBSET DOMAIN receipts, NEW part \in SUBSET page
  PROVE  Bytes(part) <= Bytes(page) /\ Bytes(part) \in Nat /\ Bytes(page) \in Nat
<1>1. Len(receipts) \in Nat /\ part \in SUBSET DOMAIN receipts
  BY DEF InboxTyped
<1>2. /\ BytesAt(part) \in [1 .. Len(receipts) -> Nat]
      /\ BytesAt(page) \in [1 .. Len(receipts) -> Nat]
  BY <1>1, BytesAre
<1>3. PICK g : Sums(g, BytesAt(part), Len(receipts)) /\ Bytes(part) = g[Len(receipts)]
  BY <1>1, BytesAre
<1>4. PICK h : Sums(h, BytesAt(page), Len(receipts)) /\ Bytes(page) = h[Len(receipts)]
  BY BytesAre
<1>5. ASSUME NEW n \in 1 .. Len(receipts) PROVE BytesAt(part)[n] <= BytesAt(page)[n]
  <2>1. CASE n \in part
    <3>1. BytesAt(part)[n] = BytesAt(page)[n] /\ BytesAt(page)[n] \in Nat
      BY <1>2, <2>1 DEF BytesAt
    <3> QED BY <3>1
  <2>2. CASE n \notin part
    <3>1. BytesAt(part)[n] = 0 /\ BytesAt(page)[n] \in Nat
      BY <1>2, <2>2 DEF BytesAt
    <3> QED BY <3>1
  <2> QED BY <2>1, <2>2
<1>6. g[Len(receipts)] <= h[Len(receipts)]
  BY <1>1, <1>2, <1>3, <1>4, <1>5, SumsGrow
<1>7. g[Len(receipts)] \in Nat /\ h[Len(receipts)] \in Nat
  BY <1>1, <1>3, <1>4 DEF Sums
<1> QED BY <1>3, <1>4, <1>6, <1>7

\* Whatever a reader is not shown is still in front of it: what it has not read
\* behind its place is on the page or behind the place the next page goes on
\* from, and a page that starts the next one over leaves out nothing.
PassesNone ==
  \A s \in Session :
    polls'[s] # polls[s] =>
      \A i \in Unread(s) :
        i > polls[s].since
          => i \in polls'[s].shown \/ (polls'[s].since > 0 /\ i > polls'[s].since)

\* A page takes its receipts in their order.
LEMMA PageInOrder ==
  ASSUME InboxTyped, NEW kept \in SUBSET DOMAIN receipts, NEW m \in kept, NEW i \in kept,
         i <= m, Fits(kept, m)
  PROVE  Fits(kept, i)
<1>1. Len(receipts) \in Nat /\ DOMAIN receipts = 1 .. Len(receipts)
  BY DEF InboxTyped
<1>2. UpTo(kept, i) \in SUBSET UpTo(kept, m) /\ UpTo(kept, m) \in SUBSET DOMAIN receipts
      /\ i \in UpTo(kept, i)
  BY <1>1 DEF UpTo
<1>3. IsFiniteSet(UpTo(kept, m))
  <2>1. IsFiniteSet(1 .. Len(receipts))
    BY <1>1, FS_Interval
  <2> QED BY <1>1, <1>2, <2>1, FS_Subset
<1>4. /\ Cardinality(UpTo(kept, i)) <= Cardinality(UpTo(kept, m))
      /\ Cardinality(UpTo(kept, i)) \in Nat /\ Cardinality(UpTo(kept, m)) \in Nat
  BY <1>2, <1>3, FS_Subset, FS_CardinalityType
<1>5. Cardinality(UpTo(kept, i)) <= Limit
  BY <1>4, InboxAssumption DEF Fits
<1>6. CASE UpTo(kept, m) = {m}
  <2>1. UpTo(kept, i) = {i}
    BY <1>2, <1>6
  <2> QED BY <1>5, <2>1 DEF Fits
<1>7. CASE Bytes(UpTo(kept, m)) <= MaxBytes
  <2>1. Bytes(UpTo(kept, i)) <= Bytes(UpTo(kept, m))
        /\ Bytes(UpTo(kept, i)) \in Nat /\ Bytes(UpTo(kept, m)) \in Nat
    BY <1>2, BytesGrow
  <2>2. Bytes(UpTo(kept, i)) <= MaxBytes
    BY <1>7, <2>1, InboxAssumption
  <2> QED BY <1>5, <2>2 DEF Fits
<1> QED BY <1>6, <1>7 DEF Fits

\* The page that is read, of receipts whose messages are all there.
LEMMA PageWhole ==
  ASSUME InboxTyped, ReceiptsFollow, NEW s \in Session, CheckMessages(s),
         NEW i \in Unread(s), i > polls[s].since
  PROVE  i \in polls'[s].shown \/ (polls'[s].since > 0 /\ i > polls'[s].since)
<1> DEFINE after == {j \in Unread(s) : j > polls[s].since}
           before(x) == {j \in after : j < x}
           fetched == Fetched(s)
           kept == {j \in fetched : ~messages[receipts[j].message].gone}
           page == {j \in kept : Fits(kept, j)}
<1>1. Len(receipts) \in Nat /\ DOMAIN receipts = 1 .. Len(receipts)
      /\ polls \in [Session -> [since : 0 .. Len(receipts), shown : SUBSET (DOMAIN receipts)]]
  BY DEF InboxTyped
<1>2. after \in SUBSET (1 .. Len(receipts)) /\ IsFiniteSet(after) /\ i \in after
  <2>1. after \in SUBSET (1 .. Len(receipts))
    BY <1>1 DEF Unread
  <2>2. IsFiniteSet(1 .. Len(receipts))
    BY <1>1, FS_Interval
  <2> QED BY <2>1, <2>2, FS_Subset
<1>3. fetched = {j \in after : Cardinality(before(j)) <= Limit}
  BY DEF Fetched
<1>4. \A j \in after : ~messages[receipts[j].message].gone
  BY <1>1 DEF Unread, ReceiptsFollow
<1>5. kept = fetched
  BY <1>3, <1>4
<1>6. polls'[s].since = NextSince(fetched, page) /\ polls'[s].shown = page
  BY <1>1 DEF CheckMessages
<1>7. fetched \in SUBSET after /\ page \in SUBSET fetched
  BY <1>3
<1> HIDE DEF page
<1>8. ASSUME NEW m \in page, NEW j \in fetched, j <= m PROVE j \in page
  BY <1>1, <1>2, <1>5, <1>7, <1>8, PageInOrder DEF page
<1>9. ASSUME NEW m \in fetched, NEW j \in after, j <= m PROVE j \in fetched
  <2>1. before(j) \in SUBSET before(m) /\ before(m) \in SUBSET after
    BY <1>2, <1>7, <1>9
  <2>2. IsFiniteSet(before(m))
    BY <1>2, <2>1, FS_Subset
  <2>3. /\ Cardinality(before(j)) <= Cardinality(before(m))
        /\ Cardinality(before(j)) \in Nat /\ Cardinality(before(m)) \in Nat
    BY <2>1, <2>2, FS_Subset, FS_CardinalityType
  <2>4. Cardinality(before(m)) <= Limit
    BY <1>3, <1>9
  <2> HIDE DEF before
  <2>5. Cardinality(before(j)) <= Limit
    BY <2>3, <2>4, InboxAssumption
  <2> QED BY <1>3, <2>5
<1>10. ASSUME NEW S \in SUBSET after, Cardinality(S) <= Limit, after \ S # {},
              \A j \in fetched : j \in S
       PROVE  FALSE
  <2>1. PICK x \in after \ S : \A y \in after \ S : x <= y
    <3>1. after \ S \in SUBSET Nat
      BY <1>2
    <3> HIDE DEF after
    <3> QED BY <1>10, <3>1, Least
  <2>2. before(x) \in SUBSET S
    BY <1>2, <2>1
  <2>3. IsFiniteSet(S)
    BY <1>2, <1>10, FS_Subset
  <2>4. Cardinality(before(x)) <= Cardinality(S) /\ Cardinality(before(x)) \in Nat /\ Cardinality(S) \in Nat
    BY <2>2, <2>3, FS_Subset, FS_CardinalityType
  <2> HIDE DEF before
  <2>5. Cardinality(before(x)) <= Limit
    BY <1>10, <2>4, InboxAssumption
  <2>6. x \in fetched
    BY <1>3, <2>1, <2>5
  <2> QED BY <1>10, <2>1, <2>6
<1> HIDE DEF fetched, after, kept
<1>11. CASE Cut(fetched, page)
  <2>1. page # {} /\ page \in SUBSET (1 .. Len(receipts))
    BY <1>2, <1>7, <1>11 DEF Cut
  <2>2. Max(page) \in page
    BY <1>1, <2>1, Greatest
  <2>3. polls'[s].since = Max(page)
    BY <1>6, <1>11 DEF NextSince
  <2>4. Max(page) \in Nat /\ Max(page) > 0 /\ i \in Nat
    <3>1. Max(page) \in 1 .. Len(receipts) /\ i \in 1 .. Len(receipts)
      BY <1>2, <2>1, <2>2
    <3> QED BY <1>1, <3>1
  <2>5. CASE i > Max(page)
    BY <2>3, <2>4, <2>5
  <2>6. CASE i <= Max(page)
    <3>1. i \in fetched
      BY <1>2, <1>7, <1>9, <2>2, <2>6
    <3> QED BY <1>6, <1>8, <2>2, <2>6, <3>1
  <2> QED BY <2>4, <2>5, <2>6
<1>12. CASE ~Cut(fetched, page)
  <2>1. fetched \in SUBSET page
    <3>1. SUFFICES ASSUME NEW f \in fetched, f \notin page PROVE FALSE
      OBVIOUS
    <3>2. CASE page = {}
      <4>0. fetched \in SUBSET Nat
        BY <1>2, <1>7
      <4>1. PICK x \in fetched : \A y \in fetched : x <= y
        BY <3>1, <4>0, Least
      <4>2. UpTo(kept, x) = {x}
        <5>1. \A y \in fetched : y <= x <=> y = x
          BY <4>0, <4>1
        <5> QED BY <1>5, <5>1 DEF UpTo
      <4>3. Cardinality(UpTo(kept, x)) <= Limit
        BY <4>2, FS_Singleton, InboxAssumption
      <4> QED BY <1>5, <3>2, <4>1, <4>2, <4>3 DEF Fits, page
    <3>3. CASE page # {}
      <4>1. ~(\A j \in page : j < f)
        BY <1>4, <1>7, <1>12, <3>1, <3>3 DEF Cut
      <4>2. PICK j \in page : ~(j < f)
        BY <4>1
      <4>3. f <= j
        BY <1>2, <1>7, <4>2
      <4> QED BY <1>8, <3>1, <4>3
    <3> QED BY <3>2, <3>3
  <2>2. Cardinality(page) <= Limit
    <3>1. CASE page = {}
      BY <3>1, FS_EmptySet, InboxAssumption
    <3>2. CASE page # {}
      <4>1. page \in SUBSET (1 .. Len(receipts))
        BY <1>2, <1>7
      <4>2. Max(page) \in page /\ \A y \in page : y <= Max(page)
        BY <1>1, <3>2, <4>1, Greatest
      <4>3. UpTo(kept, Max(page)) = page
        BY <1>5, <1>7, <2>1, <4>2 DEF UpTo
      <4>4. Fits(kept, Max(page))
        BY <4>2 DEF page
      <4> QED BY <4>3, <4>4 DEF Fits
    <3> QED BY <3>1, <3>2
  <2>3. after \in SUBSET page
    BY <1>7, <1>10, <2>1, <2>2
  <2> QED BY <1>2, <1>6, <2>3
<1> QED BY <1>11, <1>12

-----------------------------------------------------------------------------
(* What the operators on a room do to its fields.                          *)

RowOf(room, kind) ==
  [seq |-> room.turnSeq, round |-> room.round, position |-> room.position, kind |-> kind]

Frozen(r, room) ==
  r.createdBy = room.createdBy /\ r.template = room.template /\ r.settings = room.settings

\* The same turn of the same room, which has one row more.
Writes(r, room, kind) ==
  /\ r \in Room /\ Frozen(r, room)
  /\ r.round = room.round /\ r.position = room.position /\ r.turnSeq = room.turnSeq
  /\ r.turns = Append(room.turns, RowOf(room, kind))

LEMMA SeatsAre ==
  ASSUME NEW room \in Room
  PROVE  /\ Len(room.template.seats) \in Nat /\ Seats(room) = 1 .. Len(room.template.seats)
         /\ \A i \in Seats(room) : room.template.seats[i] \in Seat
         /\ room.round \in Nat /\ room.position \in Nat /\ room.turnSeq \in Nat
         /\ room.refusalRows \in Nat
         /\ room.template.roundLimit \in Nat /\ room.template.maxConsecutiveSkips \in Nat
         /\ room.state \in Seq(SeatState) /\ room.turns \in Seq(Turn)
         /\ room.template \in Template /\ room.settings \in Settings
         /\ room.status \in {"active", "stalled", "closed"}
<1>1. room.template \in Template /\ room.settings \in Settings
  BY DEF Room
<1>2. room.template.seats \in Seq(Seat)
  BY <1>1 DEF Template
<1>3. room.template.roundLimit \in Nat /\ room.template.maxConsecutiveSkips \in Nat
  BY <1>1 DEF Template
<1>4. /\ room.round \in Nat /\ room.position \in Nat /\ room.turnSeq \in Nat
      /\ room.refusalRows \in Nat
      /\ room.state \in Seq(SeatState) /\ room.turns \in Seq(Turn)
      /\ room.status \in {"active", "stalled", "closed"}
  BY DEF Room
<1>5. Len(room.template.seats) \in Nat /\ Seats(room) = 1 .. Len(room.template.seats)
      /\ \A i \in Seats(room) : room.template.seats[i] \in Seat
  BY <1>2 DEF Seats
<1> QED BY <1>1, <1>3, <1>4, <1>5

LEMMA RowTyped ==
  ASSUME NEW room \in Room, NEW kind \in Kinds
  PROVE  RowOf(room, kind) \in Turn /\ Append(room.turns, RowOf(room, kind)) \in Seq(Turn)
<1>1. RowOf(room, kind) \in Turn
  BY SeatsAre DEF RowOf, Turn, Kinds, Placing
<1> QED BY <1>1, SeatsAre

LEMMA WithTurnIs ==
  ASSUME NEW room \in Room, NEW kind \in Kinds
  PROVE  LET r == WithTurn(room, kind)
         IN /\ Writes(r, room, kind)
            /\ r.status = room.status /\ r.closeReason = room.closeReason
            /\ r.awaiting = room.awaiting /\ r.state = room.state
            /\ r.refusalRows = room.refusalRows
<1> DEFINE T == Append(room.turns, RowOf(room, kind))
<1>1. WithTurn(room, kind) = [room EXCEPT !.turns = T]
  BY DEF WithTurn, RowOf
<1>2. T \in Seq(Turn)
  BY RowTyped
<1> HIDE DEF T
<1>3. [room EXCEPT !.turns = T] \in Room
  BY <1>2 DEF Room
<1>4. LET r == [room EXCEPT !.turns = T]
      IN /\ Frozen(r, room)
         /\ r.round = room.round /\ r.position = room.position /\ r.turnSeq = room.turnSeq
         /\ r.turns = T
         /\ r.status = room.status /\ r.closeReason = room.closeReason
         /\ r.awaiting = room.awaiting /\ r.state = room.state
         /\ r.refusalRows = room.refusalRows
  BY DEF Room, Frozen
<1> QED BY <1>1, <1>3, <1>4 DEF Writes, T

\* A row of state rewritten.
LEMMA StateIs ==
  ASSUME NEW room \in Room, NEW i \in DOMAIN room.state, NEW s \in SeatState
  PROVE  LET r == [room EXCEPT !.state[i] = s]
         IN /\ r \in Room /\ Frozen(r, room)
            /\ r.round = room.round /\ r.position = room.position /\ r.turnSeq = room.turnSeq
            /\ r.turns = room.turns /\ r.status = room.status /\ r.closeReason = room.closeReason
            /\ r.awaiting = room.awaiting /\ r.refusalRows = room.refusalRows
            /\ DOMAIN r.state = DOMAIN room.state /\ r.state[i] = s
            /\ \A j \in DOMAIN room.state : j # i => r.state[j] = room.state[j]
<1> DEFINE S == [room.state EXCEPT ![i] = s]
<1>1. [room EXCEPT !.state[i] = s] = [room EXCEPT !.state = S]
  BY DEF Room
<1>2. S \in Seq(SeatState) /\ DOMAIN S = DOMAIN room.state /\ S[i] = s
      /\ \A j \in DOMAIN room.state : j # i => S[j] = room.state[j]
  BY SeatsAre
<1> HIDE DEF S
<1>3. [room EXCEPT !.state = S] \in Room
  BY <1>2 DEF Room
<1>4. LET r == [room EXCEPT !.state = S]
      IN /\ Frozen(r, room)
         /\ r.round = room.round /\ r.position = room.position /\ r.turnSeq = room.turnSeq
         /\ r.turns = room.turns /\ r.status = room.status /\ r.closeReason = room.closeReason
         /\ r.awaiting = room.awaiting /\ r.refusalRows = room.refusalRows
         /\ r.state = S
  BY DEF Room, Frozen
<1> QED BY <1>1, <1>2, <1>3, <1>4

\* A seat's answer: the agent's streak of skips is over.
LEMMA AnsweredIs ==
  ASSUME NEW room \in Room, NEW i \in Seats(room), DOMAIN room.state = Seats(room), NEW done \in BOOLEAN
  PROVE  LET r == Answered(room, i, done)
         IN /\ Writes(r, room, IF IsAgent(room.template.seats[i]) THEN "answer" ELSE "operator")
            /\ r.status = room.status /\ r.closeReason = room.closeReason
            /\ r.awaiting = room.awaiting /\ r.refusalRows = room.refusalRows
            /\ DOMAIN r.state = Seats(room)
            /\ \A j \in Seats(room) : r.state[j].dropped = room.state[j].dropped
            /\ \A j \in Seats(room) : j # i => r.state[j].skips = room.state[j].skips
            /\ IsAgent(room.template.seats[i]) => r.state[i].skips = 0
<1>1. CASE IsAgent(room.template.seats[i])
  <2> DEFINE w == WithTurn(room, "answer")
             s == [skips |-> 0, dropped |-> room.state[i].dropped, kind |-> "answer", done |-> done]
  <2>1. /\ Writes(w, room, "answer")
        /\ w.status = room.status /\ w.closeReason = room.closeReason
        /\ w.awaiting = room.awaiting /\ w.state = room.state
        /\ w.refusalRows = room.refusalRows
    BY WithTurnIs DEF Kinds, Placing
  <2>2. s \in SeatState
    <3>1. room.state[i] \in SeatState
      BY SeatsAre
    <3> QED BY <3>1 DEF SeatState
  <2>3. Answered(room, i, done) = [w EXCEPT !.state[i] = s]
    <3> HIDE DEF w
    <3>1. Answered(room, i, done) = [w EXCEPT !.state[i] = [skips |-> 0, dropped |-> @.dropped, kind |-> "answer", done |-> done]]
      BY <1>1 DEF Answered, w
    <3>2. w \in Room /\ w.state[i] = room.state[i]
      BY <2>1 DEF Writes
    <3> QED BY <3>1, <3>2 DEF Room
  <2> HIDE DEF w
  <2>4. w \in Room /\ i \in DOMAIN w.state
    BY <2>1 DEF Writes
  <2>5. s.skips = 0 /\ s.dropped = room.state[i].dropped
    OBVIOUS
  <2> HIDE DEF s
  <2> DEFINE r == [w EXCEPT !.state[i] = s]
  <2>6. /\ r \in Room /\ Frozen(r, w)
        /\ r.round = w.round /\ r.position = w.position /\ r.turnSeq = w.turnSeq
        /\ r.turns = w.turns /\ r.status = w.status /\ r.closeReason = w.closeReason
        /\ r.awaiting = w.awaiting /\ r.refusalRows = w.refusalRows
        /\ DOMAIN r.state = DOMAIN w.state /\ r.state[i] = s
        /\ \A j \in DOMAIN w.state : j # i => r.state[j] = w.state[j]
    BY <2>2, <2>4, StateIs
  <2> HIDE DEF r
  <2>7. Writes(r, room, "answer")
    BY <2>1, <2>6 DEF Writes, Frozen
  <2> QED BY <1>1, <2>1, <2>3, <2>5, <2>6, <2>7 DEF r
<1>2. CASE ~IsAgent(room.template.seats[i])
  <2>1. Answered(room, i, done) = WithTurn(room, "operator")
    BY <1>2 DEF Answered
  <2> QED BY <1>2, <2>1, WithTurnIs DEF Kinds, Placing
<1> QED BY <1>1, <1>2

-----------------------------------------------------------------------------
(* What a row more does to the transcript.                                 *)

Ending == {"answer", "operator", "skipped"}

LEMMA OneRowMore ==
  ASSUME NEW room \in Room, NEW r, NEW kind \in Kinds, Writes(r, room, kind)
  PROVE  LET L == Len(room.turns) + 1
         IN /\ L \in Nat /\ DOMAIN room.turns = 1 .. L - 1
            /\ DOMAIN r.turns = (DOMAIN room.turns) \cup {L}
            /\ \A n \in DOMAIN room.turns :
                 n \in Nat /\ n < L /\ r.turns[n] = room.turns[n] /\ room.turns[n] \in Turn
            /\ r.turns[L].seq = room.turnSeq /\ r.turns[L].round = room.round
            /\ r.turns[L].position = room.position /\ r.turns[L].kind = kind
            /\ Len(r.turns) = L
            /\ Seats(r) = Seats(room) /\ AgentSeats(r) = AgentSeats(room)
<1>1. room.turns \in Seq(Turn) /\ Len(room.turns) \in Nat /\ DOMAIN room.turns = 1 .. Len(room.turns)
  BY SeatsAre
<1> DEFINE row == RowOf(room, kind)
<1>2. row.seq = room.turnSeq /\ row.round = room.round /\ row.position = room.position /\ row.kind = kind
      /\ row \in Turn
  BY RowTyped DEF RowOf
<1> HIDE DEF row
<1>3. r.turns = Append(room.turns, row)
  BY DEF Writes, row
<1>4. Seats(r) = Seats(room) /\ AgentSeats(r) = AgentSeats(room)
  BY DEF Writes, Frozen, Seats, AgentSeats
<1>5. /\ Len(r.turns) = Len(room.turns) + 1
      /\ DOMAIN r.turns = 1 .. Len(room.turns) + 1
      /\ r.turns[Len(room.turns) + 1] = row
      /\ \A n \in 1 .. Len(room.turns) : r.turns[n] = room.turns[n]
  BY <1>1, <1>2, <1>3
<1>6. \A n \in DOMAIN room.turns : room.turns[n] \in Turn
  BY <1>1
<1> QED BY <1>1, <1>2, <1>4, <1>5, <1>6

LEMMA ResolvingAfter ==
  ASSUME NEW room \in Room, NEW r, NEW kind \in Kinds, Writes(r, room, kind)
  PROVE  /\ kind \in Ending => Resolving(r) = Resolving(room) \cup {Len(room.turns) + 1}
         /\ kind \notin Ending => Resolving(r) = Resolving(room)
         /\ Resolving(room) \subseteq DOMAIN room.turns
         /\ \A n \in Resolving(room) : r.turns[n] = room.turns[n]
<1> DEFINE L == Len(room.turns) + 1
<1>1. /\ DOMAIN r.turns = (DOMAIN room.turns) \cup {L}
      /\ \A n \in DOMAIN room.turns : n # L /\ r.turns[n] = room.turns[n]
      /\ r.turns[L].kind = kind
  BY OneRowMore
<1> HIDE DEF L
<1>2. Resolving(r) = {n \in (DOMAIN room.turns) \cup {L} : r.turns[n].kind \in Ending}
  BY <1>1 DEF Resolving, Ending
<1>3. Resolving(room) = {n \in DOMAIN room.turns : room.turns[n].kind \in Ending}
  BY DEF Resolving, Ending
<1> QED BY <1>1, <1>2, <1>3 DEF L

LEMMA DroppedAfter ==
  ASSUME NEW room \in Room, NEW r, NEW kind \in Kinds, Writes(r, room, kind), NEW i
  PROVE  DroppedIn(r, i) =
           IF kind = "dropped" /\ i = room.position THEN DroppedIn(room, i) \cup {room.round}
           ELSE DroppedIn(room, i)
<1> DEFINE L == Len(room.turns) + 1
           old == {m \in DOMAIN room.turns : room.turns[m].kind = "dropped" /\ room.turns[m].position = i}
           new == {m \in DOMAIN r.turns : r.turns[m].kind = "dropped" /\ r.turns[m].position = i}
<1>1. /\ DOMAIN r.turns = (DOMAIN room.turns) \cup {L}
      /\ \A n \in DOMAIN room.turns : n # L /\ r.turns[n] = room.turns[n]
      /\ r.turns[L].kind = kind /\ r.turns[L].position = room.position /\ r.turns[L].round = room.round
  BY OneRowMore
<1> HIDE DEF L
<1>2. DroppedIn(room, i) = {room.turns[n].round : n \in old}
  BY DEF DroppedIn
<1>3. DroppedIn(r, i) = {r.turns[n].round : n \in new}
  BY DEF DroppedIn
<1>4. new = IF kind = "dropped" /\ i = room.position THEN old \cup {L} ELSE old
  BY <1>1
<1>5. \A n \in old : r.turns[n] = room.turns[n]
  BY <1>1
<1> HIDE DEF old, new
<1> QED BY <1>1, <1>2, <1>3, <1>4, <1>5

LEMMA StreakAfter ==
  ASSUME NEW room \in Room, NEW r, NEW kind \in Kinds, Writes(r, room, kind), NEW i
  PROVE  /\ kind \notin Ending \/ i # room.position => Streak(r, i) = Streak(room, i)
         /\ kind = "answer" /\ i = room.position => Streak(r, i) = {}
         /\ kind = "skipped" /\ i = room.position =>
              Streak(r, i) = Streak(room, i) \cup {Len(room.turns) + 1}
         /\ Streak(room, i) \subseteq DOMAIN room.turns
<1> DEFINE L == Len(room.turns) + 1
           old == {n \in Resolving(room) : room.turns[n].position = i}
           new == {n \in Resolving(r) : r.turns[n].position = i}
<1>1. /\ L \in Nat
      /\ \A n \in DOMAIN room.turns : n \in Nat /\ n < L /\ r.turns[n] = room.turns[n]
      /\ r.turns[L].kind = kind /\ r.turns[L].position = room.position
  BY OneRowMore
<1> HIDE DEF L
<1>2. /\ kind \in Ending => Resolving(r) = Resolving(room) \cup {L}
      /\ kind \notin Ending => Resolving(r) = Resolving(room)
      /\ Resolving(room) \subseteq DOMAIN room.turns
      /\ \A n \in Resolving(room) : r.turns[n] = room.turns[n]
  BY ResolvingAfter DEF L
<1>3. new = IF kind \in Ending /\ i = room.position THEN old \cup {L} ELSE old
  BY <1>1, <1>2
<1>4. \A n \in old : n \in Nat /\ n < L /\ r.turns[n] = room.turns[n]
  BY <1>1, <1>2
<1>5. Streak(r, i) = {n \in new : \A m \in new : r.turns[m].kind = "answer" => m < n}
      /\ Streak(room, i) = {n \in old : \A m \in old : room.turns[m].kind = "answer" => m < n}
  BY DEF Streak
<1>6. Streak(room, i) \subseteq DOMAIN room.turns
  BY <1>2, <1>5
<1> HIDE DEF old, new
<1>7. CASE kind \notin Ending \/ i # room.position
  BY <1>3, <1>4, <1>5, <1>6, <1>7 DEF Ending
<1>8. CASE kind = "answer" /\ i = room.position
  <2>1. new = old \cup {L}
    BY <1>3, <1>8 DEF Ending
  <2>2. \A n \in new : ~(L < n)
    BY <1>1, <1>4, <2>1
  <2>3. L \in new /\ r.turns[L].kind = "answer"
    BY <1>1, <1>8, <2>1
  <2>4. Streak(r, i) = {}
    BY <1>5, <2>2, <2>3
  <2> QED BY <1>6, <1>8, <2>4 DEF Ending
<1>9. CASE kind = "skipped" /\ i = room.position
  <2>1. new = old \cup {L}
    BY <1>3, <1>9 DEF Ending
  <2>2. \A m \in new : r.turns[m].kind = "answer" <=> m \in old /\ room.turns[m].kind = "answer"
    BY <1>1, <1>4, <1>9, <2>1
  <2>3. Streak(r, i) = {n \in old \cup {L} : \A m \in old : room.turns[m].kind = "answer" => m < n}
    BY <1>5, <2>1, <2>2
  <2>4. Streak(r, i) = Streak(room, i) \cup {L}
    BY <1>1, <1>4, <1>5, <2>3
  <2> QED BY <1>6, <1>9, <2>4 DEF Ending, L
<1>10. kind \in Ending => kind = "answer" \/ kind = "skipped" \/ kind = "operator"
  BY DEF Ending
<1> QED BY <1>6, <1>7, <1>8, <1>9, <1>10

LEMMA StreakSkipped ==
  ASSUME NEW room \in Room, NEW r, Writes(r, room, "skipped")
  PROVE  /\ Streak(r, room.position) = Streak(room, room.position) \cup {Len(room.turns) + 1}
         /\ Streak(room, room.position) \subseteq DOMAIN room.turns
<1>1. "skipped" \in Kinds
  BY DEF Kinds, Placing
<1> DEFINE kind == "skipped"
           i == room.position
<1>2. kind \in Kinds /\ Writes(r, room, kind)
  BY <1>1
<1>3. kind = "skipped" /\ i = room.position
  OBVIOUS
<1> HIDE DEF kind, i
<1>4. /\ kind = "skipped" /\ i = room.position =>
           Streak(r, i) = Streak(room, i) \cup {Len(room.turns) + 1}
      /\ Streak(room, i) \subseteq DOMAIN room.turns
  BY <1>2, StreakAfter
<1> QED BY <1>3, <1>4

LEMMA RefusedAfter ==
  ASSUME NEW room \in Room, NEW r, NEW kind \in Kinds, Writes(r, room, kind)
  PROVE  /\ kind # "refused" => Refused(r) = Refused(room)
         /\ kind = "refused" => Refused(r) = Refused(room) \cup {Len(room.turns) + 1}
         /\ Refused(room) \subseteq DOMAIN room.turns
<1> DEFINE L == Len(room.turns) + 1
<1>1. /\ DOMAIN r.turns = (DOMAIN room.turns) \cup {L}
      /\ \A n \in DOMAIN room.turns : n # L /\ r.turns[n] = room.turns[n]
      /\ r.turns[L].kind = kind
  BY OneRowMore
<1> HIDE DEF L
<1>2. Refused(r) = {n \in (DOMAIN room.turns) \cup {L} : r.turns[n].kind = "refused"}
  BY <1>1 DEF Refused
<1> QED BY <1>1, <1>2 DEF L, Refused

LEMMA PositionsAfter ==
  ASSUME NEW room \in Room, NEW r, NEW kind \in Kinds, Writes(r, room, kind), NEW q
  PROVE  /\ kind \in Ending /\ q = room.round =>
              PositionsIn(r, q) = PositionsIn(room, q) \cup {room.position}
         /\ kind \notin Ending \/ q # room.round => PositionsIn(r, q) = PositionsIn(room, q)
<1> DEFINE L == Len(room.turns) + 1
           old == {n \in Resolving(room) : room.turns[n].round = q}
           new == {n \in Resolving(r) : r.turns[n].round = q}
<1>1. r.turns[L].position = room.position /\ r.turns[L].round = room.round
  BY OneRowMore
<1> HIDE DEF L
<1>2. /\ kind \in Ending => Resolving(r) = Resolving(room) \cup {L}
      /\ kind \notin Ending => Resolving(r) = Resolving(room)
      /\ \A n \in Resolving(room) : r.turns[n] = room.turns[n]
  BY ResolvingAfter DEF L
<1>3. new = IF kind \in Ending /\ q = room.round THEN old \cup {L} ELSE old
  BY <1>1, <1>2
<1>4. \A n \in old : r.turns[n] = room.turns[n]
  BY <1>2
<1>5. PositionsIn(r, q) = {r.turns[n].position : n \in new}
      /\ PositionsIn(room, q) = {room.turns[n].position : n \in old}
  BY DEF PositionsIn
<1> HIDE DEF old, new
<1> QED BY <1>1, <1>3, <1>4, <1>5

SeqsOf(room) == {room.turns[n].seq : n \in Resolving(room)}

LEMMA SeqsAfter ==
  ASSUME NEW room \in Room, NEW r, NEW kind \in Kinds, Writes(r, room, kind)
  PROVE  SeqsOf(r) = IF kind \in Ending THEN SeqsOf(room) \cup {room.turnSeq} ELSE SeqsOf(room)
<1> DEFINE L == Len(room.turns) + 1
<1>1. r.turns[L].seq = room.turnSeq
  BY OneRowMore
<1> HIDE DEF L
<1>2. /\ kind \in Ending => Resolving(r) = Resolving(room) \cup {L}
      /\ kind \notin Ending => Resolving(r) = Resolving(room)
      /\ \A n \in Resolving(room) : r.turns[n] = room.turns[n]
  BY ResolvingAfter DEF L
<1> QED BY <1>1, <1>2 DEF SeqsOf

\* A row that ends no turn and drops no seat leaves the transcript as whole as
\* it was.
LEMMA QuietRow ==
  ASSUME NEW room \in Room, NEW r, NEW kind \in Kinds, Writes(r, room, kind),
         kind \notin Placing, NEW over \in BOOLEAN, Placed(room, over), Whole(room, over)
  PROVE  Placed(r, over) /\ Whole(r, over)
<1> DEFINE L == Len(room.turns) + 1
<1>1. /\ DOMAIN r.turns = (DOMAIN room.turns) \cup {L}
      /\ \A n \in DOMAIN room.turns : r.turns[n] = room.turns[n]
      /\ r.turns[L].kind = kind /\ Seats(r) = Seats(room)
      /\ r.round = room.round /\ r.position = room.position /\ r.turnSeq = room.turnSeq
  BY OneRowMore DEF Writes
<1> HIDE DEF L
<1>2. Placed(r, over)
  BY <1>1 DEF Placed, Behind
<1>3. kind \notin Ending /\ kind # "dropped"
  BY DEF Placing, Ending
<1>4. Resolving(r) = Resolving(room) /\ \A n \in Resolving(room) : r.turns[n] = room.turns[n]
  BY <1>3, ResolvingAfter
<1>5. InTurn(r)
  BY <1>4 DEF InTurn, Whole
<1>6. SeqsOf(r) = SeqsOf(room)
  BY <1>3, SeqsAfter
<1>7. \A q \in 1 .. room.round : PositionsIn(r, q) = PositionsIn(room, q)
  BY <1>3, PositionsAfter
<1>8. \A i : DroppedIn(r, i) = DroppedIn(room, i)
  BY <1>3, DroppedAfter
<1>9. \A q \in 1 .. room.round : SpokenBy(r, q, over) = SpokenBy(room, q, over)
  BY <1>1, <1>8 DEF SpokenBy
<1> QED BY <1>1, <1>2, <1>5, <1>6, <1>7, <1>9 DEF Whole, SeqsOf, Ended

\* The row that ends the turn at the pointer.
LEMMA EndingRow ==
  ASSUME NEW room \in Room, NEW r, NEW kind \in Ending, Writes(r, room, kind),
         room.position \in Seats(room), room.round >= 1, room.turnSeq >= 1,
         DroppedIn(room, room.position) = {},
         Placed(room, FALSE), Whole(room, FALSE)
  PROVE  Placed(r, TRUE) /\ Whole(r, TRUE)
<1> DEFINE L == Len(room.turns) + 1
<1>0. kind \in Kinds /\ kind \in Placing /\ kind # "dropped"
  BY DEF Kinds, Placing, Ending
<1>1. /\ DOMAIN r.turns = (DOMAIN room.turns) \cup {L}
      /\ \A n \in DOMAIN room.turns :
           n \in Nat /\ n < L /\ r.turns[n] = room.turns[n] /\ room.turns[n] \in Turn
      /\ r.turns[L].kind = kind /\ r.turns[L].seq = room.turnSeq
      /\ r.turns[L].round = room.round /\ r.turns[L].position = room.position
      /\ L \in Nat /\ Seats(r) = Seats(room)
      /\ r.round = room.round /\ r.position = room.position /\ r.turnSeq = room.turnSeq
  BY <1>0, OneRowMore DEF Writes
<1> HIDE DEF L
<1>2. room.round \in Nat /\ room.position \in Nat /\ room.turnSeq \in Nat
  BY SeatsAre
<1>3. Placed(r, TRUE)
  BY <1>0, <1>1, <1>2 DEF Placed, Behind
<1>4. /\ Resolving(r) = Resolving(room) \cup {L} /\ Resolving(room) \subseteq DOMAIN room.turns
      /\ \A n \in Resolving(room) : r.turns[n] = room.turns[n]
  BY <1>0, ResolvingAfter DEF L
<1>5. \A n \in Resolving(room) :
        /\ n \in Nat /\ n < L
        /\ room.turns[n].seq < room.turnSeq
        /\ room.turns[n].round < room.round
             \/ (room.turns[n].round = room.round /\ room.turns[n].position < room.position)
  <2> SUFFICES ASSUME NEW n \in Resolving(room)
               PROVE  /\ n \in Nat /\ n < L
                      /\ room.turns[n].seq < room.turnSeq
                      /\ room.turns[n].round < room.round
                           \/ (room.turns[n].round = room.round /\ room.turns[n].position < room.position)
    OBVIOUS
  <2>1. n \in DOMAIN room.turns /\ n \in Nat /\ n < L /\ room.turns[n].kind \in Placing
    BY <1>1, <1>4 DEF Resolving, Placing
  <2>2. room.turns[n].seq \in 1 .. room.turnSeq - 1
    BY DEF Whole, Ended
  <2>3. Behind(room, room.turns[n], FALSE)
    BY <2>1 DEF Placed
  <2> QED BY <1>2, <2>1, <2>2, <2>3 DEF Behind
<1>6. InTurn(r)
  <2> SUFFICES ASSUME NEW m \in Resolving(r), NEW n \in Resolving(r), m < n
               PROVE  r.turns[m].seq < r.turns[n].seq /\ Before(r.turns[m], r.turns[n])
    BY DEF InTurn
  <2>1. m \in Resolving(room)
    BY <1>1, <1>4, <1>5
  <2>2. CASE n \in Resolving(room)
    BY <1>4, <2>1, <2>2 DEF Whole, InTurn
  <2>3. CASE n = L
    BY <1>1, <1>4, <1>5, <2>1, <2>3 DEF Before
  <2> QED BY <1>4, <2>2, <2>3
<1>7. SeqsOf(r) = 1 .. room.turnSeq
  <2>1. SeqsOf(r) = SeqsOf(room) \cup {room.turnSeq}
    BY <1>0, SeqsAfter
  <2>2. SeqsOf(room) = 1 .. room.turnSeq - 1
    BY DEF Whole, SeqsOf, Ended
  <2> QED BY <1>2, <2>1, <2>2
<1>8. \A i : DroppedIn(r, i) = DroppedIn(room, i)
  BY <1>0, DroppedAfter
<1>9. ASSUME NEW q \in 1 .. room.round
      PROVE  PositionsIn(r, q) = SpokenBy(r, q, TRUE)
  <2>1. PositionsIn(room, q) = SpokenBy(room, q, FALSE)
    BY DEF Whole
  <2>2. CASE q = room.round
    <3>1. PositionsIn(r, q) = PositionsIn(room, q) \cup {room.position}
      BY <1>0, <2>2, PositionsAfter
    <3>2. SpokenBy(r, q, TRUE) = SpokenBy(room, q, FALSE) \cup {room.position}
      BY <1>1, <1>2, <1>8, <2>2 DEF SpokenBy
    <3> QED BY <2>1, <3>1, <3>2
  <2>3. CASE q # room.round
    <3>1. PositionsIn(r, q) = PositionsIn(room, q)
      BY <1>0, <2>3, PositionsAfter
    <3>2. SpokenBy(r, q, TRUE) = SpokenBy(room, q, FALSE)
      BY <1>1, <1>2, <1>8, <2>3 DEF SpokenBy
    <3> QED BY <2>1, <3>1, <3>2
  <2> QED BY <2>2, <2>3
<1>10. Ended(r, TRUE) = room.turnSeq
  BY <1>1, <1>2 DEF Ended
<1> QED BY <1>1, <1>3, <1>6, <1>7, <1>9, <1>10 DEF Whole, SeqsOf

\* The row that drops the seat whose turn has just ended.
LEMMA DroppingRow ==
  ASSUME NEW room \in Room, NEW r, Writes(r, room, "dropped"),
         room.position \in Seats(room), room.round >= 1,
         Placed(room, TRUE), Whole(room, TRUE)
  PROVE  Placed(r, TRUE) /\ Whole(r, TRUE)
<1> DEFINE L == Len(room.turns) + 1
<1>0. "dropped" \in Kinds /\ "dropped" \notin Ending
  BY DEF Kinds, Placing, Ending
<1>1. /\ DOMAIN r.turns = (DOMAIN room.turns) \cup {L}
      /\ \A n \in DOMAIN room.turns : r.turns[n] = room.turns[n]
      /\ r.turns[L].round = room.round /\ r.turns[L].position = room.position
      /\ Seats(r) = Seats(room)
      /\ r.round = room.round /\ r.position = room.position /\ r.turnSeq = room.turnSeq
  BY <1>0, OneRowMore DEF Writes
<1> HIDE DEF L
<1>2. room.round \in Nat
  BY SeatsAre
<1>3. Placed(r, TRUE)
  BY <1>1, <1>2 DEF Placed, Behind
<1>4. Resolving(r) = Resolving(room) /\ \A n \in Resolving(room) : r.turns[n] = room.turns[n]
  BY <1>0, ResolvingAfter
<1>5. InTurn(r)
  BY <1>4 DEF InTurn, Whole
<1>6. SeqsOf(r) = SeqsOf(room)
  BY <1>0, SeqsAfter
<1>7. \A q \in 1 .. room.round : PositionsIn(r, q) = PositionsIn(room, q)
  BY <1>0, PositionsAfter
<1>8. \A i : DroppedIn(r, i) = DroppedIn(room, i)
              \/ (i = room.position /\ DroppedIn(r, i) = DroppedIn(room, i) \cup {room.round})
  BY <1>0, DroppedAfter
<1>9. \A q \in 1 .. room.round : SpokenBy(r, q, TRUE) = SpokenBy(room, q, TRUE)
  <2> SUFFICES ASSUME NEW q \in 1 .. room.round, NEW i
               PROVE  (\A d \in DroppedIn(r, i) : d >= q) <=> (\A d \in DroppedIn(room, i) : d >= q)
    BY <1>1 DEF SpokenBy
  <2>1. room.round >= q
    BY <1>2
  <2> QED BY <1>8, <2>1
<1> QED BY <1>1, <1>3, <1>5, <1>6, <1>7, <1>9 DEF Whole, SeqsOf, Ended

-----------------------------------------------------------------------------
(* The end of a turn keeps the room's invariant, up to its pointer.        *)

LEMMA ShapeKept ==
  ASSUME NEW room, Shape(room), NEW r \in Room, Frozen(r, room),
         r.round = room.round, r.position = room.position, r.turnSeq = room.turnSeq,
         DOMAIN r.state = Seats(room), r.refusalRows <= room.settings.maxRefusalRows
  PROVE  Shape(r) /\ Seats(r) = Seats(room) /\ AgentSeats(r) = AgentSeats(room)
<1>1. Seats(r) = Seats(room) /\ AgentSeats(r) = AgentSeats(room)
  BY DEF Seats, AgentSeats, Frozen
<1>2. Paced(r)
  BY DEF Paced, Shape, Frozen
<1> QED BY <1>1, <1>2 DEF Shape, Frozen

LEMMA FiniteRoom ==
  ASSUME NEW room \in Room
  PROVE  /\ IsFiniteSet(Seats(room)) /\ IsFiniteSet(DOMAIN room.turns)
         /\ Cardinality(Dropped(room)) \in Nat /\ IsFiniteSet(Dropped(room))
         /\ Cardinality(Dropped(room)) <= Len(room.template.seats)
         /\ Len(room.turns) \in Nat
         /\ \A S \in SUBSET DOMAIN room.turns : IsFiniteSet(S) /\ Cardinality(S) \in Nat
<1>1. Len(room.template.seats) \in Nat /\ Seats(room) = 1 .. Len(room.template.seats)
      /\ room.turns \in Seq(Turn)
  BY SeatsAre
<1>2. Len(room.turns) \in Nat /\ DOMAIN room.turns = 1 .. Len(room.turns)
  BY <1>1
<1>3. /\ IsFiniteSet(Seats(room)) /\ Cardinality(Seats(room)) = Len(room.template.seats)
  BY <1>1, FS_Interval
<1>4. IsFiniteSet(DOMAIN room.turns)
  BY <1>2, FS_Interval
<1>5. Dropped(room) \in SUBSET Seats(room)
  BY DEF Dropped
<1>6. IsFiniteSet(Dropped(room)) /\ Cardinality(Dropped(room)) <= Len(room.template.seats)
  BY <1>3, <1>5, FS_Subset
<1>7. Cardinality(Dropped(room)) \in Nat
  BY <1>6, FS_CardinalityType
<1>8. \A S \in SUBSET DOMAIN room.turns : IsFiniteSet(S) /\ Cardinality(S) \in Nat
  BY <1>4, FS_Subset, FS_CardinalityType
<1> QED BY <1>2, <1>3, <1>4, <1>6, <1>7, <1>8

\* Row r of the room has the row of kind that ends the turn of room, and what
\* is remembered of its seat.
Ends(r, room, kind) ==
  /\ kind \in Ending /\ Writes(r, room, kind)
  /\ r.status = room.status /\ r.refusalRows = room.refusalRows
  /\ DOMAIN r.state = Seats(room)
  /\ \A j \in Seats(room) : r.state[j].dropped <=> room.state[j].dropped
  /\ \A j \in Seats(room) : j # room.position => r.state[j].skips = room.state[j].skips
  /\ IsAgent(room.template.seats[room.position]) =>
       \/ kind = "answer" /\ r.state[room.position].skips = 0
       \/ kind = "skipped" /\ r.state[room.position].skips = room.state[room.position].skips + 1

AgentStands(room, i) ==
  room.state[i].dropped <=> room.state[i].skips >= room.template.maxConsecutiveSkips

\* The invariant, all but whether the seat at the pointer is to be dropped.
NearCore(room) ==
  /\ Shape(room) /\ Placed(room, TRUE) /\ Whole(room, TRUE) /\ Counted(room, TRUE)
  /\ room.refusalRows = Cardinality(Refused(room))
  /\ \A i \in Seats(room) : room.state[i].dropped <=> DroppedIn(room, i) # {}
  /\ \A i \in Seats(room) : room.state[i].dropped => IsAgent(room.template.seats[i])
  /\ \A i \in AgentSeats(room) : room.state[i].skips = Cardinality(Streak(room, i))
  /\ \A i \in AgentSeats(room) \ {room.position} : AgentStands(room, i)

LEMMA CoreFromNear ==
  ASSUME NEW room, NearCore(room), room.position \in AgentSeats(room) => AgentStands(room, room.position)
  PROVE  Core(room, TRUE)
<1>1. \A i \in AgentSeats(room) : AgentStands(room, i)
  BY DEF NearCore
<1> QED BY <1>1 DEF NearCore, Core, Standing, AgentStands

\* An active room whose seat at the pointer was not dropped.
AtWork(room) == Core(room, FALSE) /\ room.status = "active" /\ ~room.state[room.position].dropped

LEMMA TurnEnds ==
  ASSUME NEW room, AtWork(room), NEW r, NEW kind, Ends(r, room, kind)
  PROVE  NearCore(r) /\ Seats(r) = Seats(room) /\ AgentSeats(r) = AgentSeats(room)
<1> USE DEF Ends, AtWork
<1>0. kind \in Kinds /\ kind # "dropped" /\ kind # "refused"
  BY DEF Kinds, Placing, Ending
<1>1. Shape(room) /\ room \in Room /\ room.position \in Seats(room) /\ room.round >= 1 /\ room.turnSeq >= 1
      /\ room.round \in Nat /\ room.turnSeq \in Nat
  <2>1. Shape(room)
    BY DEF Core
  <2>2. room \in Room
    BY <2>1 DEF Shape
  <2> QED BY <2>1, <2>2, SeatsAre DEF Shape
<1>2. r \in Room /\ Frozen(r, room)
      /\ r.round = room.round /\ r.position = room.position /\ r.turnSeq = room.turnSeq
  BY DEF Writes
<1>3. Shape(r) /\ Seats(r) = Seats(room) /\ AgentSeats(r) = AgentSeats(room)
  <2>1. r.refusalRows <= room.settings.maxRefusalRows
    BY <1>1 DEF Shape
  <2> QED BY <1>1, <1>2, <2>1, ShapeKept
<1>4. DroppedIn(room, room.position) = {}
  BY <1>1 DEF Core, Standing
<1>5. Placed(r, TRUE) /\ Whole(r, TRUE)
  BY <1>1, <1>4, EndingRow DEF Core
<1>6. Counted(r, TRUE)
  <2>1. Dropped(r) = Dropped(room)
    BY <1>3 DEF Dropped
  <2>2. Len(r.turns) = Len(room.turns) + 1 /\ Len(room.turns) \in Nat
        /\ Cardinality(Dropped(room)) \in Nat /\ room.refusalRows \in Nat
    BY <1>0, <1>1, OneRowMore, FiniteRoom, SeatsAre
  <2>3. Notices(r) = 0 /\ Notices(room) = 0
    BY DEF Notices
  <2>4. Len(room.turns) <= room.turnSeq - 1 + Cardinality(Dropped(room)) + room.refusalRows + 0
    BY <2>3 DEF Core, Counted, Ended
  <2>5. Ended(r, TRUE) = room.turnSeq
    BY <1>1, <1>2 DEF Ended
  <2> DEFINE n == Len(room.turns)
             d == Cardinality(Dropped(room))
  <2>6. n \in Nat /\ d \in Nat /\ room.refusalRows \in Nat /\ room.turnSeq \in Nat
        /\ n <= room.turnSeq - 1 + d + room.refusalRows + 0
    BY <1>1, <2>2, <2>4
  <2> HIDE DEF n, d
  <2>7. n + 1 <= room.turnSeq + d + room.refusalRows + 0
    BY <2>6
  <2>8. Len(r.turns) = n + 1 /\ Cardinality(Dropped(r)) = d
    BY <2>1, <2>2 DEF n, d
  <2> QED BY <2>3, <2>5, <2>7, <2>8 DEF Counted
<1>7. r.refusalRows = Cardinality(Refused(r))
  BY <1>0, <1>1, RefusedAfter DEF Core, Standing
<1>8. \A i : DroppedIn(r, i) = DroppedIn(room, i)
  BY <1>0, <1>1, DroppedAfter
<1>9. \A i \in Seats(r) : r.state[i].dropped <=> DroppedIn(r, i) # {}
  BY <1>3, <1>8 DEF Core, Standing
<1>10. \A i \in Seats(r) : r.state[i].dropped => IsAgent(r.template.seats[i])
  BY <1>2, <1>3 DEF Core, Standing, Frozen
<1>11. ASSUME NEW i \in AgentSeats(r)
       PROVE  r.state[i].skips = Cardinality(Streak(r, i))
  <2>1. i \in AgentSeats(room) /\ i \in Seats(room) /\ IsAgent(room.template.seats[i])
    BY <1>3, <1>11 DEF AgentSeats
  <2>2. room.state[i].skips = Cardinality(Streak(room, i))
    BY <2>1 DEF Core, Standing
  <2>3. CASE i # room.position
    BY <1>0, <1>1, <2>1, <2>2, <2>3, StreakAfter
  <2>4. CASE i = room.position /\ kind = "answer"
    BY <1>0, <1>1, <2>1, <2>4, StreakAfter, FS_EmptySet
  <2>5. CASE i = room.position /\ kind = "skipped"
    <3>1. Streak(r, i) = Streak(room, i) \cup {Len(room.turns) + 1}
          /\ Streak(room, i) \subseteq DOMAIN room.turns
      <4>1. Writes(r, room, "skipped")
        BY <2>5
      <4> QED BY <1>1, <2>5, <4>1, StreakSkipped
    <3>2. Len(room.turns) + 1 \notin Streak(room, i)
      BY <1>0, <1>1, <3>1, OneRowMore
    <3>3. IsFiniteSet(Streak(room, i))
      BY <1>1, <3>1, FiniteRoom
    <3>4. Cardinality(Streak(r, i)) = Cardinality(Streak(room, i)) + 1
      BY <3>1, <3>2, <3>3, FS_AddElement
    <3> QED BY <2>1, <2>2, <2>5, <3>4
  <2> QED BY <2>1, <2>3, <2>4, <2>5
<1>12. \A i \in AgentSeats(r) \ {r.position} : AgentStands(r, i)
  BY <1>2, <1>3 DEF Core, Standing, AgentSeats, Frozen, AgentStands
<1> QED BY <1>3, <1>5, <1>6, <1>7, <1>9, <1>10, <1>11, <1>12 DEF NearCore

LEMMA AnsweredKeeps ==
  ASSUME NEW room, AtWork(room), NEW done \in BOOLEAN
  PROVE  LET r == Answered(room, room.position, done)
         IN /\ Core(r, TRUE) /\ r.status = "active"
            /\ \E kind \in {"answer", "operator"} : Writes(r, room, kind)
<1> DEFINE r == Answered(room, room.position, done)
           kind == IF IsAgent(room.template.seats[room.position]) THEN "answer" ELSE "operator"
<1>1. Shape(room) /\ room \in Room /\ room.position \in Seats(room) /\ DOMAIN room.state = Seats(room)
      /\ room.status = "active" /\ ~room.state[room.position].dropped
  BY DEF AtWork, Core, Shape
<1>2. /\ Writes(r, room, kind) /\ r.status = room.status
      /\ r.refusalRows = room.refusalRows /\ DOMAIN r.state = Seats(room)
      /\ \A j \in Seats(room) : r.state[j].dropped = room.state[j].dropped
      /\ \A j \in Seats(room) : j # room.position => r.state[j].skips = room.state[j].skips
      /\ IsAgent(room.template.seats[room.position]) => r.state[room.position].skips = 0
  BY <1>1, AnsweredIs
<1>3. kind \in {"answer", "operator"} /\ kind \in Ending
      /\ (IsAgent(room.template.seats[room.position]) => kind = "answer")
  BY DEF Ending
<1> HIDE DEF r, kind
<1>4. Ends(r, room, kind)
  BY <1>2, <1>3 DEF Ends
<1>5. NearCore(r) /\ Seats(r) = Seats(room) /\ AgentSeats(r) = AgentSeats(room)
  BY <1>4, TurnEnds
<1>6. r.position \in AgentSeats(r) => AgentStands(r, r.position)
  <2> SUFFICES ASSUME r.position \in AgentSeats(r)
               PROVE  ~r.state[r.position].dropped /\ ~(r.state[r.position].skips >= r.template.maxConsecutiveSkips)
    BY DEF AgentStands
  <2>1. r.position = room.position /\ r.template = room.template
    BY <1>2 DEF Writes, Frozen
  <2>2. IsAgent(room.template.seats[room.position])
    BY <2>1, <1>5 DEF AgentSeats
  <2>3. r.template.maxConsecutiveSkips > 0 /\ r.template.maxConsecutiveSkips \in Nat
    BY <1>1, <2>1, SeatsAre DEF Shape, ValidTemplate
  <2> QED BY <1>1, <1>2, <2>1, <2>2, <2>3
<1>7. Core(r, TRUE)
  BY <1>5, <1>6, CoreFromNear
<1> QED BY <1>1, <1>2, <1>3, <1>7 DEF r

\* The agent's skip, before it is known whether it was once too often.
Passed(room) ==
  [WithTurn(room, "skipped") EXCEPT !.state[room.position].skips = room.state[room.position].skips + 1,
                                    !.state[room.position].kind = "skipped"]

LEMMA PassedEnds ==
  ASSUME NEW room, AtWork(room)
  PROVE  Ends(Passed(room), room, "skipped")
<1> DEFINE w == WithTurn(room, "skipped")
           i == room.position
           s == [room.state[i] EXCEPT !.skips = room.state[i].skips + 1, !.kind = "skipped"]
           r == [w EXCEPT !.state[i] = s]
<1>1. Shape(room) /\ room \in Room /\ i \in Seats(room) /\ DOMAIN room.state = Seats(room)
  BY DEF AtWork, Core, Shape
<1>2. /\ Writes(w, room, "skipped")
      /\ w.status = room.status /\ w.state = room.state /\ w.refusalRows = room.refusalRows
  BY <1>1, WithTurnIs DEF Kinds, Placing
<1>3. room.state[i] \in SeatState
  BY <1>1, SeatsAre
<1>4. s \in SeatState /\ s.skips = room.state[i].skips + 1 /\ s.dropped = room.state[i].dropped
  <2> DEFINE old == room.state[i]
  <2> HIDE DEF old
  <2>1. old \in SeatState
    BY <1>3 DEF old
  <2> DEFINE n == old.skips + 1
  <2>2. n \in Nat
    BY <2>1 DEF SeatState
  <2> HIDE DEF n
  <2> DEFINE t == [old EXCEPT !.skips = n, !.kind = "skipped"]
  <2>3. t \in SeatState /\ t.skips = n /\ t.dropped = old.dropped
    BY <2>1, <2>2 DEF SeatState
  <2>4. s = t
    BY DEF old, n
  <2> HIDE DEF t, s
  <2> QED BY <2>3, <2>4 DEF old, n
<1>5. w \in Room /\ w.state[i] = room.state[i] /\ i \in DOMAIN w.state
  BY <1>1, <1>2 DEF Writes
<1>6. Passed(room) = r
  <2> HIDE DEF w
  <2>1. Passed(room) = [w EXCEPT !.state[i].skips = room.state[i].skips + 1, !.state[i].kind = "skipped"]
    BY DEF Passed, w
  <2> QED BY <1>1, <1>5, <2>1, SeatsAre DEF Room
<1> HIDE DEF w, s
<1>7. /\ r \in Room /\ Frozen(r, w)
      /\ r.round = w.round /\ r.position = w.position /\ r.turnSeq = w.turnSeq
      /\ r.turns = w.turns /\ r.status = w.status /\ r.closeReason = w.closeReason
      /\ r.awaiting = w.awaiting /\ r.refusalRows = w.refusalRows
      /\ DOMAIN r.state = DOMAIN w.state /\ r.state[i] = s
      /\ \A j \in DOMAIN w.state : j # i => r.state[j] = w.state[j]
  BY <1>4, <1>5, StateIs
<1> HIDE DEF r
<1>8. Writes(r, room, "skipped")
  BY <1>2, <1>7 DEF Writes, Frozen
<1>9. Ends(r, room, "skipped")
  BY <1>1, <1>2, <1>4, <1>7, <1>8 DEF Ends, Ending
<1> QED BY <1>6, <1>9

\* The seat that is dropped after its turn.
LEMMA DropKeeps ==
  ASSUME NEW room, NearCore(room), room.status = "active", room.position \in AgentSeats(room),
         ~room.state[room.position].dropped,
         room.state[room.position].skips >= room.template.maxConsecutiveSkips
  PROVE  LET r == [WithTurn(room, "dropped") EXCEPT !.state[room.position].dropped = TRUE]
         IN Core(r, TRUE) /\ Writes(r, room, "dropped") /\ r.status = "active"
<1> DEFINE w == WithTurn(room, "dropped")
           i == room.position
           s == [room.state[i] EXCEPT !.dropped = TRUE]
           r == [w EXCEPT !.state[i] = s]
<1>0. "dropped" \in Kinds /\ "dropped" \notin Ending
  BY DEF Kinds, Placing, Ending
<1>1. Shape(room) /\ room \in Room /\ i \in Seats(room) /\ DOMAIN room.state = Seats(room)
      /\ room.round >= 1 /\ room.round \in Nat /\ room.refusalRows <= room.settings.maxRefusalRows
  <2>1. Shape(room) /\ room \in Room
    BY DEF NearCore, Shape
  <2> QED BY <2>1, SeatsAre DEF Shape
<1>2. /\ Writes(w, room, "dropped")
      /\ w.status = room.status /\ w.state = room.state /\ w.refusalRows = room.refusalRows
  BY <1>0, <1>1, WithTurnIs
<1>3. room.state[i] \in SeatState
  BY <1>1, SeatsAre
<1>4. s \in SeatState /\ s.skips = room.state[i].skips /\ s.dropped
  <2> DEFINE old == room.state[i]
  <2> HIDE DEF old
  <2>1. old \in SeatState
    BY <1>3 DEF old
  <2> QED BY <2>1 DEF SeatState, old
<1>5. w \in Room /\ w.state[i] = room.state[i] /\ i \in DOMAIN w.state
  BY <1>1, <1>2 DEF Writes
<1>6. [w EXCEPT !.state[i].dropped = TRUE] = r
  <2> HIDE DEF w
  <2> QED BY <1>1, <1>5, SeatsAre DEF Room
<1> HIDE DEF w, s
<1>7. /\ r \in Room /\ Frozen(r, w)
      /\ r.round = w.round /\ r.position = w.position /\ r.turnSeq = w.turnSeq
      /\ r.turns = w.turns /\ r.status = w.status /\ r.closeReason = w.closeReason
      /\ r.awaiting = w.awaiting /\ r.refusalRows = w.refusalRows
      /\ DOMAIN r.state = DOMAIN w.state /\ r.state[i] = s
      /\ \A j \in DOMAIN w.state : j # i => r.state[j] = w.state[j]
  BY <1>4, <1>5, StateIs
<1> HIDE DEF r
<1>8. /\ Writes(r, room, "dropped") /\ r \in Room /\ Frozen(r, room)
      /\ r.round = room.round /\ r.position = room.position /\ r.turnSeq = room.turnSeq
      /\ DOMAIN r.state = Seats(room) /\ r.refusalRows = room.refusalRows
      /\ r.status = "active" /\ r.template = room.template
  BY <1>1, <1>2, <1>7 DEF Writes, Frozen
<1>9. /\ r.state[i].dropped /\ \A j \in Seats(room) : r.state[j].skips = room.state[j].skips
      /\ \A j \in Seats(room) : j # i => (r.state[j].dropped <=> room.state[j].dropped)
  BY <1>1, <1>2, <1>4, <1>7
<1>10. Shape(r) /\ Seats(r) = Seats(room) /\ AgentSeats(r) = AgentSeats(room)
  BY <1>1, <1>8, ShapeKept
<1>11. Placed(r, TRUE) /\ Whole(r, TRUE)
  BY <1>1, <1>8, DroppingRow DEF NearCore
<1>12. Counted(r, TRUE)
  <2>1. Dropped(r) = Dropped(room) \cup {i} /\ i \notin Dropped(room)
    BY <1>1, <1>9, <1>10 DEF Dropped
  <2>2. Cardinality(Dropped(r)) = Cardinality(Dropped(room)) + 1
    BY <1>1, <2>1, FiniteRoom, FS_AddElement
  <2>3. Len(r.turns) = Len(room.turns) + 1 /\ Len(room.turns) \in Nat
        /\ Cardinality(Dropped(room)) \in Nat /\ room.refusalRows \in Nat /\ room.turnSeq \in Nat
    BY <1>0, <1>1, <1>8, OneRowMore, FiniteRoom, SeatsAre
  <2>4. Notices(r) = 0 /\ Notices(room) = 0
    BY <1>8 DEF Notices
  <2>5. Ended(r, TRUE) = room.turnSeq - 0 /\ Ended(room, TRUE) = room.turnSeq - 0
    BY <1>8 DEF Ended
  <2> DEFINE n == Len(room.turns)
             d == Cardinality(Dropped(room))
  <2>6. n \in Nat /\ d \in Nat /\ room.refusalRows \in Nat /\ room.turnSeq \in Nat
        /\ n <= room.turnSeq - 0 + d + room.refusalRows + 0
    BY <2>3, <2>4, <2>5 DEF NearCore, Counted
  <2> HIDE DEF n, d
  <2>7. n + 1 <= room.turnSeq - 0 + (d + 1) + room.refusalRows + 0
    BY <2>6
  <2>8. Len(r.turns) = n + 1 /\ Cardinality(Dropped(r)) = d + 1
    BY <2>2, <2>3 DEF n, d
  <2> QED BY <1>8, <2>4, <2>5, <2>7, <2>8 DEF Counted
<1>13. r.refusalRows = Cardinality(Refused(r))
  <2>1. Refused(r) = Refused(room)
    BY <1>0, <1>1, <1>8, RefusedAfter
  <2> QED BY <1>8, <2>1 DEF NearCore
<1>14. \A j : DroppedIn(r, j) = IF j = i THEN DroppedIn(room, j) \cup {room.round} ELSE DroppedIn(room, j)
  <2> DEFINE kind == "dropped"
  <2>1. kind = "dropped" /\ kind \in Kinds /\ Writes(r, room, kind)
    BY <1>0, <1>8
  <2> HIDE DEF kind
  <2> QED BY <1>1, <2>1, DroppedAfter
<1>15. \A j \in Seats(r) : r.state[j].dropped <=> DroppedIn(r, j) # {}
  BY <1>9, <1>10, <1>14 DEF NearCore
<1>16. \A j \in Seats(r) : r.state[j].dropped => IsAgent(r.template.seats[j])
  BY <1>8, <1>9, <1>10 DEF NearCore, AgentSeats
<1>17. \A j : Streak(r, j) = Streak(room, j)
  BY <1>0, <1>1, <1>8, StreakAfter
<1>18. ASSUME NEW j \in AgentSeats(r)
       PROVE  /\ r.state[j].skips = Cardinality(Streak(r, j))
              /\ r.state[j].dropped <=> r.state[j].skips >= r.template.maxConsecutiveSkips
  <2>1. j \in AgentSeats(room) /\ j \in Seats(room)
    BY <1>10 DEF AgentSeats
  <2>2. r.state[j].skips = room.state[j].skips
    BY <1>9, <2>1
  <2>3. room.state[j].skips = Cardinality(Streak(room, j))
    BY <2>1 DEF NearCore
  <2>4. CASE j = i
    BY <1>8, <1>9, <1>17, <2>2, <2>3, <2>4
  <2>5. CASE j # i
    <3>1. AgentStands(room, j)
      BY <2>1, <2>5 DEF NearCore
    <3> QED BY <1>8, <1>9, <1>17, <2>1, <2>2, <2>3, <2>5, <3>1 DEF AgentStands
  <2> QED BY <2>4, <2>5
<1>19. Standing(r)
  BY <1>13, <1>15, <1>16, <1>18 DEF Standing
<1>20. Core(r, TRUE)
  BY <1>10, <1>11, <1>12, <1>19 DEF Core
<1> QED BY <1>6, <1>8, <1>20 DEF w

\* A person's turn is passed over with no mark on its seat.
LEMMA PersonEnds ==
  ASSUME NEW room, AtWork(room), ~IsAgent(room.template.seats[room.position])
  PROVE  Ends(WithTurn(room, "skipped"), room, "skipped")
<1>1. room \in Room /\ DOMAIN room.state = Seats(room)
  BY DEF AtWork, Core, Shape
<1> QED BY <1>1, WithTurnIs DEF Ends, Ending, Kinds, Placing

LEMMA SkippedKeeps ==
  ASSUME NEW room, AtWork(room)
  PROVE  LET r == Skipped(room)
         IN /\ Core(r, TRUE) /\ r.status = "active"
            /\ \/ Writes(r, room, "skipped")
               \/ \E w \in Room : Writes(w, room, "skipped") /\ Writes(r, w, "dropped")
<1> DEFINE i == room.position
           n == room.state[i].skips + 1
<1>1. Shape(room) /\ room \in Room /\ i \in Seats(room) /\ DOMAIN room.state = Seats(room)
      /\ room.status = "active" /\ ~room.state[i].dropped
  BY DEF AtWork, Core, Shape
<1>2. CASE ~IsAgent(room.template.seats[i])
  <2> DEFINE r == WithTurn(room, "skipped")
  <2>1. Skipped(room) = r
    BY <1>2 DEF Skipped
  <2>2. Ends(r, room, "skipped")
    BY <1>2, PersonEnds
  <2> HIDE DEF r
  <2>3. NearCore(r) /\ AgentSeats(r) = AgentSeats(room) /\ Writes(r, room, "skipped") /\ r.status = "active"
        /\ r.position = i
    BY <1>1, <2>2, TurnEnds DEF Ends, Writes
  <2>4. i \notin AgentSeats(r)
    BY <1>2, <2>3 DEF AgentSeats
  <2>5. Core(r, TRUE)
    BY <2>3, <2>4, CoreFromNear
  <2> QED BY <2>1, <2>3, <2>5
<1>3. CASE IsAgent(room.template.seats[i])
  <2> DEFINE r == Passed(room)
  <2>1. Ends(r, room, "skipped")
    BY PassedEnds
  <2>2. Skipped(room) = IF n < room.template.maxConsecutiveSkips THEN r
                        ELSE [WithTurn(r, "dropped") EXCEPT !.state[i].dropped = TRUE]
    BY <1>3 DEF Skipped, Passed
  <2> HIDE DEF r
  <2>3. NearCore(r) /\ AgentSeats(r) = AgentSeats(room) /\ Writes(r, room, "skipped") /\ r.status = "active"
        /\ r.position = i /\ r.template = room.template /\ r \in Room
    BY <1>1, <2>1, TurnEnds DEF Ends, Writes, Frozen
  <2>4. r.state[i].skips = n /\ ~r.state[i].dropped
    BY <1>1, <1>3, <2>1 DEF Ends
  <2>5. n \in Nat /\ room.template.maxConsecutiveSkips \in Nat
    <3>1. room.state[i] \in SeatState
      BY <1>1, SeatsAre
    <3>2. room.state[i].skips \in Nat
      BY <3>1 DEF SeatState
    <3> QED BY <1>1, <3>2, SeatsAre
  <2>6. i \in AgentSeats(r)
    BY <1>1, <1>3, <2>3 DEF AgentSeats
  <2> HIDE DEF n
  <2>7. CASE n < room.template.maxConsecutiveSkips
    <3>1. AgentStands(r, i)
      BY <2>3, <2>4, <2>5, <2>7 DEF AgentStands
    <3>2. Core(r, TRUE)
      BY <2>3, <3>1, CoreFromNear
    <3> QED BY <2>2, <2>3, <2>7, <3>2
  <2>8. CASE ~(n < room.template.maxConsecutiveSkips)
    <3> DEFINE d == [WithTurn(r, "dropped") EXCEPT !.state[i].dropped = TRUE]
    <3>1. Core(d, TRUE) /\ Writes(d, r, "dropped") /\ d.status = "active"
      <4> DEFINE e == [WithTurn(r, "dropped") EXCEPT !.state[r.position].dropped = TRUE]
      <4>1. /\ NearCore(r) /\ r.status = "active" /\ r.position \in AgentSeats(r)
            /\ ~r.state[r.position].dropped
            /\ r.state[r.position].skips >= r.template.maxConsecutiveSkips
        BY <2>3, <2>4, <2>5, <2>6, <2>8
      <4>2. Core(e, TRUE) /\ Writes(e, r, "dropped") /\ e.status = "active"
        BY <4>1, DropKeeps
      <4>3. d = e
        BY <2>3
      <4> HIDE DEF d, e
      <4> QED BY <4>2, <4>3
    <3>2. Skipped(room) = d
      BY <2>2, <2>8
    <3> HIDE DEF d
    <3> QED BY <2>3, <3>1, <3>2
  <2> QED BY <2>7, <2>8
<1> QED BY <1>2, <1>3

-----------------------------------------------------------------------------
(* Rows that end no turn.                                                  *)

LEMMA QuietKeeps ==
  ASSUME NEW room, NEW over \in BOOLEAN, Core(room, over), NEW r, NEW kind \in {"refused", "system"},
         Writes(r, room, kind), r.state = room.state,
         r.refusalRows = room.refusalRows + (IF kind = "refused" THEN 1 ELSE 0),
         r.refusalRows <= room.settings.maxRefusalRows,
         Notices(r) >= Notices(room) + (IF kind = "system" THEN 1 ELSE 0)
  PROVE  Core(r, over)
<1>0. kind \in Kinds /\ kind \notin Placing /\ kind \notin Ending /\ kind # "dropped"
  BY DEF Kinds, Placing, Ending
<1>1. Shape(room) /\ room \in Room /\ DOMAIN room.state = Seats(room)
  BY DEF Core, Shape
<1>2. /\ r \in Room /\ Frozen(r, room) /\ r.template = room.template
      /\ r.round = room.round /\ r.position = room.position /\ r.turnSeq = room.turnSeq
  BY DEF Writes, Frozen
<1>3. Shape(r) /\ Seats(r) = Seats(room) /\ AgentSeats(r) = AgentSeats(room)
  BY <1>1, <1>2, ShapeKept
<1>4. Placed(r, over) /\ Whole(r, over)
  BY <1>0, <1>1, QuietRow DEF Core
<1>5. r.refusalRows = Cardinality(Refused(r))
  <2>1. room.refusalRows = Cardinality(Refused(room))
    BY DEF Core, Standing
  <2>2. CASE kind = "refused"
    <3>1. Refused(r) = Refused(room) \cup {Len(room.turns) + 1} /\ Refused(room) \subseteq DOMAIN room.turns
      BY <1>0, <1>1, <2>2, RefusedAfter
    <3>2. Len(room.turns) + 1 \notin Refused(room)
      BY <1>0, <1>1, <3>1, OneRowMore
    <3>3. IsFiniteSet(Refused(room))
      BY <1>1, <3>1, FiniteRoom
    <3>4. Cardinality(Refused(r)) = Cardinality(Refused(room)) + 1
      BY <3>1, <3>2, <3>3, FS_AddElement
    <3> QED BY <2>1, <2>2, <3>4
  <2>3. CASE kind # "refused"
    <3>1. Refused(r) = Refused(room)
      BY <1>0, <1>1, <2>3, RefusedAfter
    <3>2. room.refusalRows + 0 = room.refusalRows
      BY <1>1, SeatsAre
    <3> QED BY <2>1, <2>3, <3>1, <3>2
  <2> QED BY <2>2, <2>3
<1>6. \A i : DroppedIn(r, i) = DroppedIn(room, i) /\ Streak(r, i) = Streak(room, i)
  BY <1>0, <1>1, DroppedAfter, StreakAfter
<1>7. Standing(r)
  <2>1. \A i \in Seats(r) : r.state[i].dropped <=> DroppedIn(r, i) # {}
    BY <1>3, <1>6 DEF Core, Standing
  <2>2. \A i \in Seats(r) : r.state[i].dropped => IsAgent(r.template.seats[i])
    BY <1>2, <1>3 DEF Core, Standing
  <2>3. \A i \in AgentSeats(r) :
          /\ r.state[i].skips = Cardinality(Streak(r, i))
          /\ r.state[i].dropped <=> r.state[i].skips >= r.template.maxConsecutiveSkips
    BY <1>2, <1>3, <1>6 DEF Core, Standing
  <2> QED BY <1>5, <2>1, <2>2, <2>3 DEF Standing
<1>8. Counted(r, over)
  <2>1. Dropped(r) = Dropped(room)
    BY <1>3 DEF Dropped
  <2>2. Ended(r, over) = Ended(room, over)
    BY <1>2 DEF Ended
  <2>3. Len(r.turns) = Len(room.turns) + 1
    BY <1>0, <1>1, OneRowMore
  <2>4. Len(room.turns) \in Nat /\ Cardinality(Dropped(room)) \in Nat /\ room.refusalRows \in Nat
        /\ room.turnSeq \in Nat
    BY <1>1, FiniteRoom, SeatsAre
  <2>5. Ended(room, over) \in Int
    BY <2>4 DEF Ended
  <2>6. Notices(room) \in Nat /\ Notices(r) \in Nat
    BY DEF Notices
  <2> DEFINE n == Len(room.turns)
             d == Cardinality(Dropped(room))
             e == Ended(room, over)
             f == room.refusalRows
             o == Notices(room)
             p == Notices(r)
  <2>7. n \in Nat /\ d \in Nat /\ f \in Nat /\ e \in Int /\ o \in Nat /\ p \in Nat /\ n <= e + d + f + o
    BY <2>4, <2>5, <2>6 DEF Core, Counted
  <2>8. p >= o + (IF kind = "system" THEN 1 ELSE 0) /\ r.refusalRows = f + (IF kind = "refused" THEN 1 ELSE 0)
    OBVIOUS
  <2>9. Len(r.turns) = n + 1 /\ Cardinality(Dropped(r)) = d /\ Ended(r, over) = e
    BY <2>1, <2>2, <2>3
  <2> HIDE DEF n, d, e, f, o
  <2>10. CASE kind = "system"
    <3>1. p >= o + 1 /\ r.refusalRows = f
      BY <2>7, <2>8, <2>10
    <3> HIDE DEF p
    <3>2. n + 1 <= e + d + f + p
      BY <2>7, <3>1
    <3> QED BY <2>9, <3>1, <3>2 DEF Counted, p
  <2>11. CASE kind = "refused"
    <3>1. p >= o /\ r.refusalRows = f + 1
      BY <2>7, <2>8, <2>11
    <3> HIDE DEF p
    <3>2. n + 1 <= e + d + (f + 1) + p
      BY <2>7, <3>1
    <3> QED BY <2>9, <3>1, <3>2 DEF Counted, p
  <2> QED BY <2>10, <2>11
<1> QED BY <1>3, <1>4, <1>7, <1>8 DEF Core

LEMMA NoticeKeeps ==
  ASSUME NEW room, NEW over \in BOOLEAN, Core(room, over), NEW r,
         Writes(r, room, "system"), r.state = room.state, r.refusalRows = room.refusalRows,
         Notices(r) >= Notices(room) + 1
  PROVE  Core(r, over)
<1> DEFINE kind == "system"
<1>1. room \in Room /\ room.refusalRows <= room.settings.maxRefusalRows
  BY DEF Core, Shape
<1>2. room.refusalRows \in Nat
  BY <1>1, SeatsAre
<1>3. kind \in {"refused", "system"} /\ kind = "system" /\ kind # "refused"
  OBVIOUS
<1>4. Writes(r, room, kind)
  OBVIOUS
<1> HIDE DEF kind
<1>5. r.refusalRows = room.refusalRows + (IF kind = "refused" THEN 1 ELSE 0)
      /\ r.refusalRows <= room.settings.maxRefusalRows
  BY <1>1, <1>2, <1>3
<1>6. Notices(r) >= Notices(room) + (IF kind = "system" THEN 1 ELSE 0)
  BY <1>3
<1> QED BY <1>3, <1>4, <1>5, <1>6, QuietKeeps

LEMMA RefusalKeeps ==
  ASSUME NEW room, NEW over \in BOOLEAN, Core(room, over), NEW r,
         Writes(r, room, "refused"), r.state = room.state, r.refusalRows = room.refusalRows + 1,
         r.refusalRows <= room.settings.maxRefusalRows, Notices(r) = Notices(room)
  PROVE  Core(r, over)
<1> DEFINE kind == "refused"
<1>1. Notices(room) \in Nat
  BY DEF Notices
<1>3. kind \in {"refused", "system"} /\ kind = "refused" /\ kind # "system"
  OBVIOUS
<1>4. Writes(r, room, kind)
  OBVIOUS
<1> HIDE DEF kind
<1>5. r.refusalRows = room.refusalRows + (IF kind = "refused" THEN 1 ELSE 0)
  BY <1>3
<1>6. Notices(r) >= Notices(room) + (IF kind = "system" THEN 1 ELSE 0)
  BY <1>1, <1>3
<1> QED BY <1>3, <1>4, <1>5, <1>6, QuietKeeps

LEMMA RoomInvOf ==
  ASSUME NEW room, NEW over \in BOOLEAN, EndedByRule(room) <=> over
  PROVE  RoomInv(room) <=> (Core(room, over) /\ Waiting(room))
<1>1. EndedByRule(room) = over
  <2>1. EndedByRule(room) \in BOOLEAN
    BY DEF EndedByRule
  <2> QED BY <2>1
<1>2. Core(room, EndedByRule(room)) <=> Core(room, over)
  BY ONLY <1>1
<1> QED BY <1>2 DEF RoomInv

LEMMA ActiveInv ==
  ASSUME NEW room, RoomInv(room), room.status # "closed"
  PROVE  Core(room, FALSE) /\ Waiting(room) /\ ~EndedByRule(room)
<1>1. EndedByRule(room) <=> FALSE
  BY DEF EndedByRule
<1> QED BY <1>1, RoomInvOf

\* The invariant does not look at what the turn waits for, nor at how many
\* refusals had no row.
LEMMA SameCore ==
  ASSUME NEW room, NEW over \in BOOLEAN, Core(room, over), NEW r \in Room, Frozen(r, room),
         r.round = room.round, r.position = room.position, r.turnSeq = room.turnSeq,
         r.state = room.state, r.turns = room.turns, r.refusalRows = room.refusalRows,
         r.status = room.status, r.closeReason = room.closeReason
  PROVE  Core(r, over)
<1>1. Shape(room) /\ room \in Room /\ DOMAIN room.state = Seats(room)
  BY DEF Core, Shape
<1>2. Shape(r) /\ Seats(r) = Seats(room) /\ AgentSeats(r) = AgentSeats(room) /\ r.template = room.template
  BY <1>1, ShapeKept DEF Shape, Frozen
<1>3. /\ Resolving(r) = Resolving(room) /\ Refused(r) = Refused(room)
      /\ \A i : DroppedIn(r, i) = DroppedIn(room, i)
  BY DEF Resolving, Refused, DroppedIn
<1>4. \A i : Streak(r, i) = Streak(room, i)
  BY <1>3 DEF Streak
<1>5. Placed(r, over)
  BY <1>2 DEF Core, Placed, Behind
<1>6. \A q \in 1 .. room.round : SpokenBy(r, q, over) = SpokenBy(room, q, over)
  BY <1>2, <1>3 DEF SpokenBy
<1>7. \A q \in 1 .. room.round : PositionsIn(r, q) = PositionsIn(room, q)
  BY <1>3 DEF PositionsIn
<1>8. InTurn(r) /\ {r.turns[n].seq : n \in Resolving(r)} = 1 .. Ended(r, over)
  BY <1>3 DEF Core, Whole, InTurn, Ended
<1>9. Whole(r, over)
  BY <1>6, <1>7, <1>8 DEF Core, Whole
<1>10. Standing(r)
  BY <1>2, <1>3, <1>4 DEF Core, Standing
<1>11. Dropped(r) = Dropped(room) /\ Notices(r) = Notices(room) /\ Ended(r, over) = Ended(room, over)
  BY <1>2 DEF Dropped, Notices, Ended
<1>12. Counted(r, over)
  BY <1>11 DEF Core, Counted
<1> QED BY <1>2, <1>5, <1>9, <1>10, <1>12 DEF Core

\* A refusal has a row up to the cap.
LEMMA RefuseKeeps ==
  ASSUME NEW room, RoomInv(room), room.status = "active"
  PROVE  LET r == Refuse(room)
         IN /\ RoomInv(r) /\ r.status = "active" /\ Frozen(r, room)
            /\ r.round = room.round /\ r.position = room.position
            /\ r.turnSeq = room.turnSeq /\ r.awaiting = room.awaiting
            /\ r.turns = room.turns \/ Writes(r, room, "refused")
<1> DEFINE r == Refuse(room)
<1>1. Shape(room) /\ room \in Room /\ ~EndedByRule(room) /\ Core(room, FALSE)
      /\ room.awaiting # Nothing /\ ~room.state[room.position].dropped
      /\ room.refusalRows \in Nat /\ room.settings.maxRefusalRows \in Nat
  <2>1. ~EndedByRule(room)
    BY DEF EndedByRule
  <2>2. Core(room, FALSE)
    BY ActiveInv
  <2>3. room \in Room
    BY <2>2 DEF Core, Shape
  <2>4. room.settings.maxRefusalRows \in Nat
    BY <2>3, SeatsAre DEF Settings
  <2> QED BY <2>1, <2>2, <2>3, <2>4, SeatsAre DEF RoomInv, Waiting, Core
<1>2. CASE room.refusalRows < room.settings.maxRefusalRows
  <2> DEFINE w == WithTurn(room, "refused")
  <2>1. r = [w EXCEPT !.refusalRows = w.refusalRows + 1]
    BY <1>2 DEF Refuse
  <2>2. /\ Writes(w, room, "refused")
        /\ w.status = room.status /\ w.closeReason = room.closeReason
        /\ w.awaiting = room.awaiting /\ w.state = room.state
        /\ w.refusalRows = room.refusalRows
    BY <1>1, WithTurnIs DEF Kinds, Placing
  <2> HIDE DEF w
  <2> DEFINE n == w.refusalRows + 1
  <2>3. n \in Nat /\ n = room.refusalRows + 1 /\ n <= room.settings.maxRefusalRows
    BY <1>1, <1>2, <2>2
  <2>4. r = [w EXCEPT !.refusalRows = n] /\ w \in Room
    BY <2>1, <2>2 DEF Writes
  <2> HIDE DEF n, r
  <2>5. /\ r \in Room /\ Frozen(r, w)
        /\ r.round = w.round /\ r.position = w.position /\ r.turnSeq = w.turnSeq
        /\ r.turns = w.turns /\ r.status = w.status /\ r.closeReason = w.closeReason
        /\ r.awaiting = w.awaiting /\ r.state = w.state /\ r.refusalRows = n
    BY <2>3, <2>4 DEF Room, Frozen
  <2>6. Writes(r, room, "refused")
    BY <2>2, <2>5 DEF Writes, Frozen
  <2>7. Notices(r) = 0 /\ Notices(room) = 0
    BY <2>2, <2>5 DEF Notices
  <2>8. Core(r, FALSE)
    BY <1>1, <2>2, <2>3, <2>5, <2>6, <2>7, RefusalKeeps
  <2>9. ~EndedByRule(r)
    BY <2>2, <2>5 DEF EndedByRule
  <2>10. r.round = room.round /\ r.position = room.position /\ r.turnSeq = room.turnSeq /\ Frozen(r, room)
    BY <2>6 DEF Writes
  <2>11. Waiting(r)
    BY <1>1, <2>2, <2>5, <2>10 DEF Waiting
  <2>12. RoomInv(r) /\ r.status = "active" /\ r.awaiting = room.awaiting
    BY <2>2, <2>5, <2>8, <2>9, <2>11, RoomInvOf
  <2> QED BY <2>6, <2>10, <2>12 DEF r
<1>3. CASE ~(room.refusalRows < room.settings.maxRefusalRows)
  <2>1. r = [room EXCEPT !.refusalsOverflow = room.refusalsOverflow + 1]
    BY <1>3 DEF Refuse
  <2> DEFINE n == room.refusalsOverflow + 1
  <2>2. n \in Nat /\ r = [room EXCEPT !.refusalsOverflow = n]
    BY <1>1, <2>1 DEF Room
  <2> HIDE DEF n, r
  <2>3. /\ r \in Room /\ Frozen(r, room)
        /\ r.round = room.round /\ r.position = room.position /\ r.turnSeq = room.turnSeq
        /\ r.turns = room.turns /\ r.status = room.status /\ r.closeReason = room.closeReason
        /\ r.awaiting = room.awaiting /\ r.state = room.state /\ r.refusalRows = room.refusalRows
    BY <1>1, <2>2 DEF Room, Frozen
  <2>4. Core(r, FALSE)
    BY <1>1, <2>3, SameCore
  <2>5. ~EndedByRule(r) /\ Waiting(r)
    BY <1>1, <2>3 DEF EndedByRule, Waiting
  <2>6. RoomInv(r)
    BY <2>4, <2>5, RoomInvOf
  <2> QED BY <2>3, <2>6 DEF r
<1> QED BY <1>2, <1>3

\* A delivery marks the turn.
LEMMA DeliveredKeeps ==
  ASSUME NEW room, RoomInv(room), room.status = "active"
  PROVE  LET r == [room EXCEPT !.awaiting = "delivered"]
         IN /\ RoomInv(r) /\ r.status = "active" /\ Frozen(r, room) /\ r.awaiting = "delivered"
            /\ r.round = room.round /\ r.position = room.position
            /\ r.turnSeq = room.turnSeq /\ r.turns = room.turns
<1> DEFINE r == [room EXCEPT !.awaiting = "delivered"]
<1>1. ~EndedByRule(room) /\ Core(room, FALSE) /\ ~room.state[room.position].dropped
  BY ActiveInv DEF Waiting
<1>2. room \in Room
  BY <1>1 DEF Core, Shape
<1>3. /\ r \in Room /\ Frozen(r, room)
      /\ r.round = room.round /\ r.position = room.position /\ r.turnSeq = room.turnSeq
      /\ r.turns = room.turns /\ r.status = room.status /\ r.closeReason = room.closeReason
      /\ r.awaiting = "delivered" /\ r.state = room.state /\ r.refusalRows = room.refusalRows
  BY <1>2 DEF Room, Frozen
<1> HIDE DEF r
<1>4. Core(r, FALSE)
  BY <1>1, <1>3, SameCore
<1>5. ~EndedByRule(r) /\ Waiting(r)
  BY <1>1, <1>3, RoomsAssumption DEF EndedByRule, Waiting
<1>6. RoomInv(r)
  BY <1>4, <1>5, RoomInvOf
<1> QED BY <1>3, <1>6 DEF r

\* A delivery that fails stalls the room.
LEMMA StallKeeps ==
  ASSUME NEW room, RoomInv(room), room.status = "active"
  PROVE  LET r == Stall(room)
         IN /\ RoomInv(r) /\ r.status = "stalled" /\ Frozen(r, room) /\ Writes(r, room, "system")
            /\ r.position = room.position /\ r.turnSeq = room.turnSeq
<1> DEFINE w == WithTurn(room, "system")
           r == Stall(room)
<1>1. ~EndedByRule(room) /\ Core(room, FALSE)
  BY ActiveInv
<1>2. room \in Room /\ room.refusalRows <= room.settings.maxRefusalRows /\ room.refusalRows \in Nat
  <2>1. room \in Room
    BY <1>1 DEF Core, Shape
  <2> QED BY <1>1, <2>1, SeatsAre DEF Core, Shape
<1>3. /\ Writes(w, room, "system")
      /\ w.state = room.state /\ w.refusalRows = room.refusalRows
  BY <1>2, WithTurnIs DEF Kinds, Placing
<1>4. r = [w EXCEPT !.status = "stalled"] /\ w \in Room
  BY <1>3 DEF Stall, Writes
<1> HIDE DEF w, r
<1>5. /\ r \in Room /\ Frozen(r, w)
      /\ r.round = w.round /\ r.position = w.position /\ r.turnSeq = w.turnSeq
      /\ r.turns = w.turns /\ r.status = "stalled"
      /\ r.state = w.state /\ r.refusalRows = w.refusalRows
  BY <1>4 DEF Room, Frozen
<1>6. Writes(r, room, "system")
  BY <1>3, <1>5 DEF Writes, Frozen
<1>7. Notices(r) = 1 /\ Notices(room) = 0
  BY <1>5 DEF Notices
<1>8. Core(r, FALSE)
  <2>1. r.state = room.state /\ r.refusalRows = room.refusalRows
    BY <1>3, <1>5
  <2>2. Notices(r) >= Notices(room) + 1
    BY <1>7
  <2> QED BY <1>1, <1>6, <2>1, <2>2, NoticeKeeps
<1>9. ~EndedByRule(r) /\ Waiting(r)
  BY <1>5 DEF EndedByRule, Waiting
<1>10. RoomInv(r)
  BY <1>8, <1>9, RoomInvOf
<1> QED BY <1>5, <1>6, <1>10 DEF Writes, r

\* A room closes once its turn is over by a rule, or at any moment by hand.
LEMMA CloseKeeps ==
  ASSUME NEW room, NEW over \in BOOLEAN, Core(room, over), room.status \in {"active", "stalled"},
         NEW reason, IF over THEN reason \in {"all_done", "all_silent", "round_limit"} /\ room.status = "active"
                             ELSE reason = "operator_stop"
  PROVE  LET r == Close(room, reason)
         IN /\ RoomInv(r) /\ r.status = "closed" /\ Writes(r, room, "system")
<1> DEFINE w == WithTurn(room, "system")
           r == Close(room, reason)
<1>1. room \in Room /\ room.refusalRows <= room.settings.maxRefusalRows /\ room.refusalRows \in Nat
  <2>1. room \in Room
    BY DEF Core, Shape
  <2> QED BY <2>1, SeatsAre DEF Core, Shape
<1>2. /\ Writes(w, room, "system")
      /\ w.state = room.state /\ w.refusalRows = room.refusalRows
  BY <1>1, WithTurnIs DEF Kinds, Placing
<1>3. r = [w EXCEPT !.status = "closed", !.closeReason = reason, !.awaiting = Nothing] /\ w \in Room
  BY <1>2 DEF Close, Writes
<1> HIDE DEF w, r
<1>4. reason \in {"all_done", "all_silent", "round_limit", "operator_stop"}
  OBVIOUS
<1>5. /\ r \in Room /\ Frozen(r, w)
      /\ r.round = w.round /\ r.position = w.position /\ r.turnSeq = w.turnSeq
      /\ r.turns = w.turns /\ r.status = "closed" /\ r.closeReason = reason
      /\ r.state = w.state /\ r.refusalRows = w.refusalRows
  BY <1>3, <1>4 DEF Room, Frozen
<1>6. Writes(r, room, "system")
  BY <1>2, <1>5 DEF Writes, Frozen
<1>7. Notices(r) >= Notices(room) + 1
  BY <1>5 DEF Notices
<1>8. Core(r, over)
  <2>1. r.state = room.state /\ r.refusalRows = room.refusalRows
    BY <1>2, <1>5
  <2> QED BY <1>6, <1>7, <2>1, NoticeKeeps
<1>9. (EndedByRule(r) <=> over) /\ Waiting(r)
  BY <1>5 DEF EndedByRule, Waiting
<1>10. RoomInv(r)
  BY <1>8, <1>9, RoomInvOf
<1> QED BY <1>5, <1>6, <1>10 DEF r

-----------------------------------------------------------------------------
(* The pointer moves on.                                                   *)

\* Row r of the room is as room, with its pointer elsewhere: the next turn waits
\* for its delivery.
Moves(r, room, round, position) ==
  /\ r \in Room /\ Frozen(r, room)
  /\ r.round = round /\ r.position = position /\ r.turnSeq = room.turnSeq + 1
  /\ r.turns = room.turns /\ r.refusalRows = room.refusalRows
  /\ r.status = room.status /\ r.awaiting = "undelivered"
  /\ DOMAIN r.state = DOMAIN room.state
  /\ \A i \in DOMAIN room.state :
       /\ r.state[i].skips = room.state[i].skips
       /\ r.state[i].dropped <=> room.state[i].dropped

LEMMA SeatsPresent ==
  ASSUME NEW room \in Room, NEW S \in SUBSET Present(room), S # {}
  PROVE  Min(S) \in S /\ (\A i \in S : Min(S) <= i) /\ Min(S) \in Seats(room) /\ Min(S) \in Nat
         /\ ~room.state[Min(S)].dropped
<1>1. S \in SUBSET Nat /\ \A i \in S : i \in Seats(room) /\ ~room.state[i].dropped /\ i \in Nat
  BY SeatsAre DEF Present
<1>2. Min(S) \in S /\ \A i \in S : Min(S) <= i
  BY <1>1, Least
<1> QED BY <1>1, <1>2

LEMMA AdvanceMoves ==
  ASSUME NEW room \in Room, DOMAIN room.state = Seats(room), Present(room) # {}
  PROVE  /\ Later(room) # {} => Moves(Advance(room), room, room.round, Min(Later(room)))
         /\ Later(room) = {} => Moves(Advance(room), room, room.round + 1, Min(Present(room)))
<1> DEFINE t == room.turnSeq + 1
<1>1. t \in Nat /\ room.round + 1 \in Nat
  BY SeatsAre
<1>2. CASE Later(room) # {}
  <2> DEFINE p == Min(Later(room))
  <2>1. p \in Nat
    BY <1>2, SeatsPresent DEF Later
  <2> HIDE DEF p
  <2> DEFINE r == [room EXCEPT !.position = p, !.turnSeq = t, !.awaiting = "undelivered"]
  <2>2. Advance(room) = r
    BY <1>2 DEF Advance, p
  <2> HIDE DEF t
  <2>3. /\ r \in Room /\ Frozen(r, room)
        /\ r.round = room.round /\ r.position = p /\ r.turnSeq = t
        /\ r.turns = room.turns /\ r.refusalRows = room.refusalRows
        /\ r.status = room.status /\ r.awaiting = "undelivered" /\ r.state = room.state
    BY <1>1, <2>1 DEF Room, Frozen
  <2> HIDE DEF r
  <2> QED BY <1>2, <2>2, <2>3 DEF Moves, p, t
<1>3. CASE Later(room) = {}
  <2> DEFINE p == Min(Present(room))
             S == [i \in DOMAIN room.state |-> [room.state[i] EXCEPT !.kind = Nothing, !.done = FALSE]]
             n == room.round + 1
  <2>1. p \in Nat
    BY SeatsPresent
  <2>2. S \in Seq(SeatState) /\ DOMAIN S = DOMAIN room.state
        /\ \A i \in DOMAIN room.state :
             S[i].skips = room.state[i].skips /\ S[i].dropped = room.state[i].dropped
    <3>1. room.state \in Seq(SeatState) /\ Len(room.state) \in Nat /\ DOMAIN room.state = 1 .. Len(room.state)
      BY SeatsAre
    <3>2. ASSUME NEW i \in DOMAIN room.state
          PROVE  /\ S[i] \in SeatState
                 /\ S[i].skips = room.state[i].skips /\ S[i].dropped = room.state[i].dropped
      <4> DEFINE old == room.state[i]
      <4>1. old \in SeatState
        BY <3>1
      <4>2. S[i] = [old EXCEPT !.kind = Nothing, !.done = FALSE]
        OBVIOUS
      <4> HIDE DEF old, S
      <4>3. S[i] \in SeatState /\ S[i].skips = old.skips /\ S[i].dropped = old.dropped
        BY <4>1, <4>2 DEF SeatState
      <4> QED BY <4>3 DEF old
    <3>3. DOMAIN S = 1 .. Len(room.state)
      BY <3>1
    <3>4. S \in [1 .. Len(room.state) -> SeatState]
      BY <3>2, <3>3
    <3> HIDE DEF S
    <3> QED BY <3>1, <3>2, <3>3, <3>4
  <2>3. Advance(room) =
          [room EXCEPT !.position = p, !.round = n, !.turnSeq = t, !.awaiting = "undelivered", !.state = S]
    BY <1>3 DEF Advance, Room
  <2> HIDE DEF p, S, t, n
  <2> DEFINE r == [room EXCEPT !.position = p, !.round = n, !.turnSeq = t, !.awaiting = "undelivered", !.state = S]
  <2>4. n \in Nat
    BY <1>1 DEF n
  <2>5. /\ r \in Room /\ Frozen(r, room)
        /\ r.round = n /\ r.position = p /\ r.turnSeq = t
        /\ r.turns = room.turns /\ r.refusalRows = room.refusalRows
        /\ r.status = room.status /\ r.awaiting = "undelivered" /\ r.state = S
    BY <1>1, <2>1, <2>2, <2>4 DEF Room, Frozen
  <2> HIDE DEF r
  <2>6. \A i \in DOMAIN room.state :
          r.state[i].skips = room.state[i].skips /\ (r.state[i].dropped <=> room.state[i].dropped)
    BY <2>2, <2>5
  <2>7. Moves(r, room, n, p)
    BY <2>2, <2>5, <2>6 DEF Moves, t
  <2> QED BY <1>3, <2>3, <2>7 DEF r, n, p
<1> QED BY <1>2, <1>3

\* The turns of the rounds before round r, and one round more.
LEMMA OneRoundMore ==
  ASSUME NEW t \in Nat, NEW r \in Nat, NEW n \in Nat, NEW p \in 1 .. n, NEW q \in 1 .. n,
         t <= (r - 1) * n + p
  PROVE  t + 1 <= ((r + 1) - 1) * n + q
<1>1. ((r + 1) - 1) * n = (r - 1) * n + n
  OBVIOUS
<1> DEFINE a == (r - 1) * n
<1>2. a \in Int
  OBVIOUS
<1>3. t <= a + p
  OBVIOUS
<1> HIDE DEF a
<1>4. t + 1 <= (a + n) + q
  BY <1>2, <1>3
<1> QED BY <1>1, <1>4 DEF a

\* Where the pointer may go: to the next seat present, or to the first one of a
\* new round when none is left in this.
LEMMA MovesKeeps ==
  ASSUME NEW room, Core(room, TRUE), room.status = "active", NEW r, NEW round \in Nat, NEW position \in Seats(room),
         Moves(r, room, round, position), ~room.state[position].dropped,
         \/ /\ round = room.round /\ position > room.position
            /\ \A i \in Seats(room) : i > room.position /\ i < position => room.state[i].dropped
         \/ /\ round = room.round + 1 /\ round <= room.template.roundLimit
            /\ \A i \in Seats(room) : i > room.position \/ i < position => room.state[i].dropped
  PROVE  RoomInv(r)
<1>1. Shape(room) /\ room \in Room /\ room.position \in Seats(room) /\ DOMAIN room.state = Seats(room)
      /\ room.round >= 1 /\ room.round \in Nat /\ room.turnSeq \in Nat /\ room.position \in Nat
      /\ Len(room.template.seats) \in Nat /\ Seats(room) = 1 .. Len(room.template.seats)
      /\ room.turnSeq >= 1 /\ room.template.roundLimit \in Nat /\ room.round <= room.template.roundLimit
  <2>1. Shape(room) /\ room \in Room
    BY DEF Core, Shape
  <2> QED BY <2>1, SeatsAre DEF Shape
<1>2. /\ r \in Room /\ Frozen(r, room) /\ r.template = room.template /\ r.settings = room.settings
      /\ r.round = round /\ r.position = position /\ r.turnSeq = room.turnSeq + 1
      /\ r.turns = room.turns /\ r.refusalRows = room.refusalRows
      /\ r.status = "active" /\ r.awaiting = "undelivered"
      /\ DOMAIN r.state = Seats(room)
      /\ \A i \in Seats(room) :
           /\ r.state[i].skips = room.state[i].skips
           /\ r.state[i].dropped <=> room.state[i].dropped
  BY <1>1 DEF Moves, Frozen
<1>3. Seats(r) = Seats(room) /\ AgentSeats(r) = AgentSeats(room)
  BY <1>2 DEF Seats, AgentSeats
<1>4. position \in Nat /\ position >= 1 /\ round >= 1 /\ round <= room.template.roundLimit
  BY <1>1
<1>5. Paced(r)
  <2> DEFINE N == Len(room.template.seats)
  <2>1. room.turnSeq <= (room.round - 1) * N + room.position
    BY <1>1 DEF Shape, Paced
  <2>2. CASE round = room.round /\ position > room.position
    <3> DEFINE a == (room.round - 1) * N
    <3>1. a \in Int
      BY <1>1
    <3>2. room.turnSeq <= a + room.position
      BY <2>1
    <3> HIDE DEF a
    <3>3. room.turnSeq + 1 <= a + position
      BY <1>1, <1>4, <2>2, <3>1, <3>2
    <3> QED BY <1>2, <2>2, <3>3 DEF Paced, a
  <2>3. CASE round = room.round + 1
    <3>1. room.turnSeq + 1 <= ((room.round + 1) - 1) * N + position
      BY <1>1, <2>1, OneRoundMore
    <3> QED BY <1>2, <2>3, <3>1 DEF Paced
  <2> QED BY <2>2, <2>3
<1>6. Shape(r)
  BY <1>1, <1>2, <1>3, <1>4, <1>5 DEF Shape
<1>7. Placed(r, FALSE)
  <2> SUFFICES ASSUME NEW n \in DOMAIN room.turns, room.turns[n].kind \in Placing
               PROVE  /\ room.turns[n].round >= 1 /\ room.turns[n].position \in Seats(room)
                      /\ Behind(r, room.turns[n], FALSE)
    BY <1>2, <1>3 DEF Placed
  <2>1. room.turns[n].round >= 1 /\ room.turns[n].position \in Seats(room) /\ Behind(room, room.turns[n], TRUE)
    BY DEF Core, Placed
  <2>2. room.turns[n].round \in Nat /\ room.turns[n].position \in Nat
    <3>1. room.turns[n] \in Turn
      BY <1>1, SeatsAre
    <3> QED BY <3>1 DEF Turn
  <2> QED BY <1>1, <1>2, <1>4, <2>1, <2>2 DEF Behind
<1>8. /\ Resolving(r) = Resolving(room) /\ Refused(r) = Refused(room)
      /\ \A i : DroppedIn(r, i) = DroppedIn(room, i)
  BY <1>2 DEF Resolving, Refused, DroppedIn
<1>9. \A i : Streak(r, i) = Streak(room, i)
  BY <1>2, <1>8 DEF Streak
<1>10. \A i \in Seats(room) : DroppedIn(room, i) \subseteq Nat /\ \A d \in DroppedIn(room, i) :
          d < room.round \/ (d = room.round /\ i <= room.position)
  <2> SUFFICES ASSUME NEW i \in Seats(room), NEW d \in DroppedIn(room, i)
               PROVE  d \in Nat /\ (d < room.round \/ (d = room.round /\ i <= room.position))
    OBVIOUS
  <2>1. PICK n \in DOMAIN room.turns :
          room.turns[n].kind = "dropped" /\ room.turns[n].position = i /\ d = room.turns[n].round
    BY DEF DroppedIn
  <2>2. Behind(room, room.turns[n], TRUE)
    BY <2>1 DEF Core, Placed, Placing
  <2>3. room.turns[n].round \in Nat
    <3>1. room.turns[n] \in Turn
      BY <1>1, SeatsAre
    <3> QED BY <3>1 DEF Turn
  <2> QED BY <1>1, <2>1, <2>2, <2>3 DEF Behind
<1>11. \A i \in Seats(room) : room.state[i].dropped <=> DroppedIn(room, i) # {}
  BY DEF Core, Standing
<1>12. ASSUME NEW q \in 1 .. round
       PROVE  PositionsIn(r, q) = SpokenBy(r, q, FALSE)
  <2>0. q \in Nat /\ q >= 1 /\ q <= round
    BY <1>12
  <2>n. room.round \in Nat /\ room.position \in Nat /\ round \in Nat /\ position \in Nat
    BY <1>1, <1>4
  <2>p. room.round >= 1 /\ Seats(room) \subseteq Nat
    BY <1>1
  <2>1. PositionsIn(r, q) = PositionsIn(room, q)
    BY <1>2, <1>8 DEF PositionsIn
  <2>2. CASE q <= room.round
    <3>0. q \in 1 .. room.round
      BY <2>0, <2>n, <2>2
    <3>1. PositionsIn(room, q) = SpokenBy(room, q, TRUE)
      BY <3>0 DEF Core, Whole
    <3>2. ASSUME NEW i \in Seats(room)
          PROVE  i \in SpokenBy(r, q, FALSE) <=> i \in SpokenBy(room, q, TRUE)
      <4>0. i \in Nat /\ i \in Seats(room)
        BY <1>1, <3>2
      <4>1. i \in SpokenBy(r, q, FALSE) <=>
              (q < round \/ i < position) /\ \A d \in DroppedIn(room, i) : d >= q
        BY <1>2, <1>3, <1>8, <4>0 DEF SpokenBy
      <4>2. i \in SpokenBy(room, q, TRUE) <=>
              (q < room.round \/ i <= room.position) /\ \A d \in DroppedIn(room, i) : d >= q
        BY <1>1, <4>0 DEF SpokenBy
      <4>3. CASE q < room.round
        <5>1. q < round
          BY <2>n, <2>0, <4>3
        <5> QED BY <4>1, <4>2, <4>3, <5>1
      <4>4. CASE q = room.round /\ round = room.round /\ position > room.position
        <5>1. CASE i > room.position /\ i < position
          <6>1. PICK d \in DroppedIn(room, i) : TRUE
            BY <1>1, <1>4, <1>11, <4>0, <4>4, <5>1
          <6>2. d \in Nat /\ d < q
            BY <2>n, <1>10, <4>0, <4>4, <5>1, <6>1
          <6>3. ~(d >= q)
            BY <2>0, <6>2
          <6> QED BY <4>1, <4>2, <6>1, <6>3
        <5>2. CASE i <= room.position
          <6>1. i < position
            BY <2>n, <4>0, <4>4, <5>2
          <6> QED BY <4>1, <4>2, <5>2, <6>1
        <5>3. CASE i >= position
          <6>1. ~(q < round \/ i < position) /\ ~(q < room.round \/ i <= room.position)
            BY <2>n, <2>0, <4>0, <4>4, <5>3
          <6> QED BY <4>1, <4>2, <6>1
        <5>4. (i > room.position /\ i < position) \/ i <= room.position \/ i >= position
          BY <2>n, <4>0
        <5> QED BY <5>1, <5>2, <5>3, <5>4
      <4>5. CASE q = room.round /\ round = room.round + 1
        <5>1. CASE i > room.position
          <6>1. PICK d \in DroppedIn(room, i) : TRUE
            BY <1>1, <1>11, <4>0, <4>5, <5>1
          <6>2. d \in Nat /\ d < q
            BY <2>n, <1>10, <4>0, <4>5, <5>1, <6>1
          <6>3. ~(d >= q)
            BY <2>0, <6>2
          <6> QED BY <4>1, <4>2, <6>1, <6>3
        <5>2. CASE i <= room.position
          <6>1. q < round
            BY <2>n, <4>5
          <6> QED BY <4>1, <4>2, <5>2, <6>1
        <5>3. i > room.position \/ i <= room.position
          BY <2>n, <4>0
        <5> QED BY <5>1, <5>2, <5>3
      <4>6. q < room.round \/ q = room.round
        BY <2>0, <2>n, <2>2
      <4> QED BY <4>3, <4>4, <4>5, <4>6
    <3>3. SpokenBy(r, q, FALSE) = SpokenBy(room, q, TRUE)
      BY <1>3, <3>2 DEF SpokenBy
    <3> QED BY <2>1, <3>1, <3>3
  <2>3. CASE q > room.round
    <3>1. q = room.round + 1 /\ round = room.round + 1
      BY <1>1, <2>0, <2>3
    <3>2. PositionsIn(room, q) = {}
      <4>1. ASSUME NEW n \in Resolving(room) PROVE room.turns[n].round # q
        <5>1. n \in DOMAIN room.turns /\ room.turns[n].kind \in Placing
          BY DEF Resolving, Placing
        <5>2. Behind(room, room.turns[n], TRUE)
          BY <5>1 DEF Core, Placed
        <5>3. room.turns[n].round \in Nat
          <6>1. room.turns[n] \in Turn
            BY <1>1, <5>1, SeatsAre
          <6> QED BY <6>1 DEF Turn
        <5> QED BY <1>1, <3>1, <5>2, <5>3 DEF Behind
      <4> QED BY <4>1 DEF PositionsIn
    <3>3. ASSUME NEW i \in SpokenBy(r, q, FALSE) PROVE FALSE
      <4>1. i \in Seats(room) /\ i < position /\ \A d \in DroppedIn(room, i) : d >= q
        BY <1>2, <1>3, <1>8, <3>1, <3>3 DEF SpokenBy
      <4>2. room.state[i].dropped
        BY <1>1, <3>1, <4>1
      <4>3. PICK d \in DroppedIn(room, i) : TRUE
        BY <1>11, <4>1, <4>2
      <4>4. d \in Nat /\ d <= room.round
        BY <1>1, <1>10, <4>1
      <4> QED BY <1>1, <3>1, <4>1, <4>3, <4>4
    <3> QED BY <2>1, <3>2, <3>3
  <2>4. q <= room.round \/ q > room.round
    <3>1. room.round \in Nat
      BY <1>1
    <3> QED BY <2>0, <3>1
  <2> QED BY <2>2, <2>3, <2>4
<1>13. Ended(r, FALSE) = Ended(room, TRUE)
  BY <1>1, <1>2 DEF Ended
<1>14. InTurn(r) /\ {r.turns[n].seq : n \in Resolving(r)} = 1 .. Ended(r, FALSE)
  <2>1. InTurn(room) /\ {room.turns[n].seq : n \in Resolving(room)} = 1 .. Ended(room, TRUE)
    BY DEF Core, Whole
  <2>2. InTurn(r)
    BY <1>2, <1>8, <2>1 DEF InTurn
  <2>3. r.turns = room.turns /\ Resolving(r) = Resolving(room) /\ Ended(r, FALSE) = Ended(room, TRUE)
    BY <1>2, <1>8, <1>13
  <2>4. {r.turns[n].seq : n \in Resolving(r)} = {room.turns[n].seq : n \in Resolving(room)}
    BY <2>3
  <2>5. {r.turns[n].seq : n \in Resolving(r)} = 1 .. Ended(room, TRUE)
    BY <2>1, <2>4
  <2>6. {r.turns[n].seq : n \in Resolving(r)} = 1 .. Ended(r, FALSE)
    BY <2>3, <2>5
  <2> QED BY <2>2, <2>6
<1>15. Whole(r, FALSE)
  BY <1>2, <1>12, <1>14 DEF Whole
<1>16. Standing(r)
  <2>1. r.refusalRows = Cardinality(Refused(r))
    BY <1>2, <1>8 DEF Core, Standing
  <2>2. \A i \in Seats(r) : r.state[i].dropped <=> DroppedIn(r, i) # {}
    BY <1>2, <1>3, <1>8, <1>11
  <2>3. \A i \in Seats(r) : r.state[i].dropped => IsAgent(r.template.seats[i])
    BY <1>2, <1>3 DEF Core, Standing
  <2>4. \A i \in AgentSeats(r) :
          /\ r.state[i].skips = Cardinality(Streak(r, i))
          /\ r.state[i].dropped <=> r.state[i].skips >= r.template.maxConsecutiveSkips
    BY <1>2, <1>3, <1>9 DEF Core, Standing, AgentSeats
  <2> QED BY <2>1, <2>2, <2>3, <2>4 DEF Standing
<1>17. Counted(r, FALSE)
  <2>1. Dropped(r) = Dropped(room)
    BY <1>2, <1>3 DEF Dropped
  <2>2. Notices(r) = Notices(room)
    BY <1>2 DEF Notices
  <2> QED BY <1>2, <1>13, <2>1, <2>2 DEF Core, Counted
<1>18. Core(r, FALSE)
  BY <1>6, <1>7, <1>15, <1>16, <1>17 DEF Core
<1>19. Waiting(r) /\ ~EndedByRule(r)
  BY <1>2, RoomsAssumption DEF Waiting, EndedByRule
<1> QED BY <1>18, <1>19, RoomInvOf

\* The room whose turn is over, after the stop rules were read.
LEMMA ResolvedKeeps ==
  ASSUME NEW room, Core(room, TRUE), room.status = "active"
  PROVE  /\ StopRule(room) # Nothing =>
              LET r == Close(room, StopRule(room))
              IN RoomInv(r) /\ r.status = "closed" /\ Writes(r, room, "system")
         /\ StopRule(room) = Nothing =>
              LET r == Advance(room)
              IN /\ RoomInv(r) /\ r.status = "active" /\ Frozen(r, room) /\ r.turns = room.turns
                 /\ r.turnSeq = room.turnSeq + 1 /\ r.awaiting = "undelivered"
                 /\ r.round = room.round + 1 \/ (r.round = room.round /\ r.position > room.position)
<1>1. CASE StopRule(room) # Nothing
  <2>1. StopRule(room) \in {"all_done", "all_silent", "round_limit"}
    BY <1>1 DEF StopRule
  <2> DEFINE reason == StopRule(room)
  <2> HIDE DEF reason
  <2>2. LET r == Close(room, reason)
        IN RoomInv(r) /\ r.status = "closed" /\ Writes(r, room, "system")
    BY <2>1, CloseKeeps DEF reason
  <2> QED BY <1>1, <2>2 DEF reason
<1>2. CASE StopRule(room) = Nothing
  <2>1. /\ Live(room) # {}
        /\ Later(room) # {} \/ room.round < room.template.roundLimit
    <3>1. Nothing \notin {"all_done", "all_silent", "round_limit"}
      BY RoomsAssumption
    <3>2. Shape(room) /\ room \in Room
      BY DEF Core, Shape
    <3>3. room.round \in Nat /\ room.template.roundLimit \in Nat
      BY <3>2, SeatsAre
    <3> QED BY <1>2, <3>1, <3>3 DEF StopRule
  <2>2. Shape(room) /\ room \in Room /\ DOMAIN room.state = Seats(room)
        /\ room.round \in Nat /\ room.position \in Nat /\ room.template.roundLimit \in Nat
        /\ Seats(room) \subseteq Nat
    <3>1. Shape(room) /\ room \in Room
      BY DEF Core, Shape
    <3> QED BY <3>1, SeatsAre DEF Shape
  <2>3. Present(room) # {}
    BY <2>1 DEF Live
  <2> DEFINE r == Advance(room)
  <2>4. CASE Later(room) # {}
    <3> DEFINE p == Min(Later(room))
    <3>1. Moves(r, room, room.round, p)
      BY <2>2, <2>3, <2>4, AdvanceMoves
    <3>2. p \in Later(room) /\ (\A i \in Later(room) : p <= i) /\ p \in Seats(room) /\ p \in Nat
          /\ ~room.state[p].dropped
      BY <2>2, <2>4, SeatsPresent DEF Later
    <3> HIDE DEF p, r
    <3>3. p > room.position
      BY <3>2 DEF Later
    <3>4. \A i \in Seats(room) : i > room.position /\ i < p => room.state[i].dropped
      BY <2>2, <3>2 DEF Later, Present
    <3>5. RoomInv(r)
      BY <2>2, <3>1, <3>2, <3>3, <3>4, MovesKeeps
    <3> QED BY <1>2, <3>1, <3>3, <3>5 DEF Moves, r
  <2>5. CASE Later(room) = {}
    <3> DEFINE p == Min(Present(room))
               n == room.round + 1
    <3>1. Moves(r, room, n, p)
      BY <2>2, <2>3, <2>5, AdvanceMoves
    <3>2. p \in Present(room) /\ (\A i \in Present(room) : p <= i) /\ p \in Seats(room) /\ p \in Nat
          /\ ~room.state[p].dropped
      BY <2>2, <2>3, SeatsPresent
    <3>3. n \in Nat /\ n = room.round + 1 /\ n <= room.template.roundLimit
      BY <2>1, <2>2, <2>5
    <3> HIDE DEF p, r, n
    <3>4. \A i \in Seats(room) : i > room.position \/ i < p => room.state[i].dropped
      BY <2>2, <2>5, <3>2 DEF Later, Present
    <3>5. RoomInv(r)
      BY <2>2, <3>1, <3>2, <3>3, <3>4, MovesKeeps
    <3> QED BY <1>2, <3>1, <3>3, <3>5 DEF Moves, r
  <2> QED BY <2>4, <2>5
<1> QED BY <1>1, <1>2

-----------------------------------------------------------------------------
(* A room with the jobs that are of it, as steps change them.              *)

\* No row is of a turn after the last that is over.
LEMMA SeqsEnded ==
  ASSUME NEW room, NEW over \in BOOLEAN, Core(room, over), NEW n \in DOMAIN room.turns, room.turns[n].kind = "skipped"
  PROVE  room.turns[n].seq \in 1 .. Ended(room, over)
<1>1. n \in Resolving(room)
  BY DEF Resolving
<1>2. {room.turns[m].seq : m \in Resolving(room)} = 1 .. Ended(room, over)
  BY DEF Core, Whole
<1> QED BY <1>1, <1>2

\* What a row that is no skip leaves as it was.
LEMMA InTimeRow ==
  ASSUME NEW k, NEW room \in Room, NEW J, InTime(k, room, J), NEW r, NEW kind \in Kinds \ {"skipped"},
         Writes(r, room, kind)
  PROVE  InTime(k, r, J)
<1> DEFINE row == RowOf(room, kind)
<1>1. room.turns \in Seq(Turn) /\ row.kind = kind
  BY SeatsAre DEF RowOf
<1>2. r.turns = Append(room.turns, row) /\ r.template = room.template
  BY DEF Writes, Frozen
<1> HIDE DEF row
<1>3. ASSUME NEW n \in DOMAIN r.turns, r.turns[n].kind = "skipped"
      PROVE  n \in DOMAIN room.turns /\ r.turns[n] = room.turns[n]
  BY <1>1, <1>2, <1>3
<1> QED BY <1>2, <1>3 DEF InTime

\* The row of the turn that runs out.
LEMMA InTimeSkipped ==
  ASSUME NEW k, NEW room \in Room, NEW J, InTime(k, room, J), NEW r, Writes(r, room, "skipped"),
         room.template.seats[room.position].deadline,
         \A fn \in {"deliverTurn", "expireTurn"} : Job1(fn, k, room.turnSeq) \notin J
  PROVE  InTime(k, r, J)
<1> DEFINE row == RowOf(room, "skipped")
<1>1. room.turns \in Seq(Turn) /\ row.seq = room.turnSeq /\ row.position = room.position
  BY SeatsAre DEF RowOf
<1>2. r.turns = Append(room.turns, row) /\ r.template = room.template
  BY DEF Writes, Frozen
<1> HIDE DEF row
<1>3. ASSUME NEW n \in DOMAIN r.turns
      PROVE  (n \in DOMAIN room.turns /\ r.turns[n] = room.turns[n]) \/ r.turns[n] = row
  BY <1>1, <1>2, <1>3
<1> QED BY <1>1, <1>2, <1>3 DEF InTime

\* Fewer jobs spoil nothing that is over.
LEMMA FewerJobs ==
  ASSUME NEW k, NEW room, NEW J, NEW L \in SUBSET J
  PROVE  (InTime(k, room, J) => InTime(k, room, L)) /\ (Owed(k, room, J) => Owed(k, room, L))
BY DEF InTime, Owed

\* A room is kept by the jobs of that room.
LEMMA OtherJobs ==
  ASSUME NEW k, NEW room, NEW J, NEW L, Kept(k, room, J), \A j \in J \cup L : j.room = k => (j \in J <=> j \in L)
  PROVE  Kept(k, room, L)
<1>1. \A fn, n : Job1(fn, k, n) \in J <=> Job1(fn, k, n) \in L
  <2> SUFFICES ASSUME NEW fn, NEW n PROVE Job1(fn, k, n) \in J <=> Job1(fn, k, n) \in L
    OBVIOUS
  <2>1. Job1(fn, k, n).room = k
    BY DEF Job1
  <2> QED BY <2>1
<1>2. Driven(k, room, L)
  BY <1>1 DEF Kept, Driven
<1>3. InTime(k, room, L)
  BY <1>1 DEF Kept, InTime
<1>4. Owed(k, room, L)
  BY <1>1 DEF Kept, Owed
<1> QED BY <1>2, <1>3, <1>4 DEF Kept

\* An operator closes the room.
LEMMA ClosedKept ==
  ASSUME NEW k, NEW room, NEW J, Kept(k, room, J), room.status # "closed"
  PROVE  Kept(k, Close(room, "operator_stop"), J)
<1> DEFINE reason == "operator_stop"
           r == Close(room, reason)
<1>1. Core(room, FALSE) /\ RoomInv(room)
  BY ActiveInv DEF Kept
<1>2. room \in Room
  BY <1>1 DEF Core, Shape
<1>3. room.status \in {"active", "stalled"}
  BY <1>2, SeatsAre
<1>4. RoomInv(r) /\ r.status = "closed" /\ Writes(r, room, "system")
  BY <1>1, <1>3, CloseKeeps
<1> HIDE DEF r
<1>5. "system" \in Kinds \ {"skipped"}
  BY DEF Kinds
<1>6. InTime(k, r, J)
  BY <1>2, <1>4, <1>5, InTimeRow DEF Kept
<1>7. Owed(k, r, J)
  BY <1>4 DEF Kept, Owed, Writes, Frozen
<1> QED BY <1>4, <1>6, <1>7 DEF Kept, Driven, r

\* A post is refused.
LEMMA RefusedKept ==
  ASSUME NEW k, NEW room, NEW J, Kept(k, room, J), room.status = "active"
  PROVE  Kept(k, Refuse(room), J)
<1> DEFINE r == Refuse(room)
<1>1. RoomInv(room) /\ room \in Room
  BY DEF Kept, RoomInv, Core, Shape
<1>2. /\ RoomInv(r) /\ r.status = "active" /\ Frozen(r, room)
      /\ r.position = room.position /\ r.turnSeq = room.turnSeq /\ r.awaiting = room.awaiting
      /\ r.turns = room.turns \/ Writes(r, room, "refused")
  BY <1>1, RefuseKeeps
<1> HIDE DEF r
<1>3. r.template = room.template
  BY <1>2 DEF Frozen
<1>4. "refused" \in Kinds \ {"skipped"}
  BY DEF Kinds
<1>5. InTime(k, r, J)
  <2>1. CASE r.turns = room.turns
    BY <1>3, <2>1 DEF Kept, InTime
  <2>2. CASE Writes(r, room, "refused")
    BY <1>1, <1>4, <2>2, InTimeRow DEF Kept
  <2> QED BY <1>2, <2>1, <2>2
<1>6. Driven(k, r, J) /\ Owed(k, r, J)
  BY <1>2, <1>3 DEF Kept, Driven, Owed
<1> QED BY <1>2, <1>5, <1>6 DEF Kept, r

\* The delivery fails, and its job is done.
LEMMA StalledKept ==
  ASSUME NEW k, NEW room, NEW J, Kept(k, room, J), room.status = "active", NEW L \in SUBSET J
  PROVE  Kept(k, Stall(room), L)
<1> DEFINE r == Stall(room)
<1>1. RoomInv(room) /\ room \in Room
  BY DEF Kept, RoomInv, Core, Shape
<1>2. /\ RoomInv(r) /\ r.status = "stalled" /\ Frozen(r, room) /\ Writes(r, room, "system")
      /\ r.position = room.position /\ r.turnSeq = room.turnSeq
  BY <1>1, StallKeeps
<1> HIDE DEF r
<1>3. "system" \in Kinds \ {"skipped"}
  BY DEF Kinds
<1>4. InTime(k, r, L)
  <2>1. InTime(k, r, J)
    BY <1>1, <1>2, <1>3, InTimeRow DEF Kept
  <2> QED BY <2>1, FewerJobs
<1>5. Owed(k, r, L)
  <2>1. Owed(k, r, J)
    BY <1>2 DEF Kept, Owed, Frozen
  <2> QED BY <2>1, FewerJobs
<1> QED BY <1>2, <1>4, <1>5 DEF Kept, Driven, r

\* A job that has nothing left to do is dropped.
LEMMA StaleKept ==
  ASSUME NEW k, NEW room, NEW J, Kept(k, room, J), NEW j,
         ~(j = Job1("deliverTurn", k, room.turnSeq) /\ room.status = "active" /\ room.awaiting = "undelivered"),
         ~(j = Job1("expireTurn", k, room.turnSeq) /\ room.status = "active" /\ room.awaiting = "delivered")
  PROVE  Kept(k, room, J \ {j})
<1>1. InTime(k, room, J \ {j}) /\ Owed(k, room, J \ {j})
  BY FewerJobs DEF Kept
<1>2. Driven(k, room, J \ {j})
  BY DEF Kept, Driven
<1> QED BY <1>1, <1>2 DEF Kept

\* A turn is delivered: its deadline takes the place of its delivery.
LEMMA DeliveredKept ==
  ASSUME NEW k, NEW room, NEW J, Kept(k, room, J), room.status = "active",
         NEW j, j = Job1("deliverTurn", k, room.turnSeq), j \in J
  PROVE  Kept(k, [room EXCEPT !.awaiting = "delivered"], (J \ {j}) \cup Expiry(room, j))
<1> DEFINE r == [room EXCEPT !.awaiting = "delivered"]
           L == (J \ {j}) \cup Expiry(room, j)
           e == Job1("expireTurn", k, room.turnSeq)
<1>1. RoomInv(room) /\ room \in Room /\ Core(room, FALSE) /\ room.turnSeq \in Nat
  <2>1. RoomInv(room) /\ room \in Room
    BY DEF Kept, RoomInv, Core, Shape
  <2> QED BY <2>1, ActiveInv, SeatsAre
<1>2. /\ RoomInv(r) /\ r.status = "active" /\ Frozen(r, room) /\ r.awaiting = "delivered"
      /\ r.position = room.position /\ r.turnSeq = room.turnSeq /\ r.turns = room.turns
  BY <1>1, DeliveredKeeps
<1> HIDE DEF r
<1>3. j.room = k /\ j.seq = room.turnSeq /\ j.fn = "deliverTurn"
      /\ e.room = k /\ e.seq = room.turnSeq /\ e.fn = "expireTurn"
  BY DEF Job1
<1>4. L = (J \ {j}) \cup (IF room.template.seats[room.position].deadline THEN {e} ELSE {})
  BY <1>3 DEF Expiry
<1>5. r.template = room.template
  BY <1>2 DEF Frozen
<1> HIDE DEF L
<1>6. Driven(k, r, L)
  BY <1>2, <1>4, <1>5 DEF Driven
<1>7. InTime(k, r, L)
  <2> SUFFICES ASSUME NEW n \in DOMAIN room.turns, room.turns[n].kind = "skipped"
               PROVE  /\ room.template.seats[room.turns[n].position].deadline
                      /\ \A fn \in {"deliverTurn", "expireTurn"} : Job1(fn, k, room.turns[n].seq) \notin L
    BY <1>2, <1>5 DEF InTime
  <2>1. room.turns[n].seq \in 1 .. (room.turnSeq - 1)
    BY <1>1, SeqsEnded DEF Ended
  <2>2. room.turns[n].seq # room.turnSeq
    BY <1>1, <2>1
  <2>3. \A fn \in {"deliverTurn", "expireTurn"} : Job1(fn, k, room.turns[n].seq) # e
    BY <1>3, <2>2 DEF Job1
  <2> QED BY <1>4, <2>3 DEF Kept, InTime
<1>8. Owed(k, r, L)
  <2> SUFFICES ASSUME NEW x \in L, x.room = k
               PROVE  /\ x.seq <= room.turnSeq
                      /\ x.fn = "expireTurn" =>
                           /\ Job1("deliverTurn", k, x.seq) \notin L
                           /\ x.seq = room.turnSeq => room.template.seats[room.position].deadline
    BY <1>2, <1>5 DEF Owed
  <2>1. \A n : Job1("deliverTurn", k, n) # e
    BY DEF Job1
  <2>2. CASE x = e /\ room.template.seats[room.position].deadline
    <3>1. Job1("deliverTurn", k, x.seq) = j
      BY <1>3, <2>2
    <3>2. x.seq <= room.turnSeq
      BY <1>1, <1>3, <2>2
    <3> QED BY <1>4, <2>1, <2>2, <3>1, <3>2
  <2>3. CASE x \in J
    BY <1>4, <2>1, <2>3 DEF Kept, Owed
  <2> QED BY <1>4, <2>2, <2>3
<1> QED BY <1>2, <1>6, <1>7, <1>8 DEF Kept, r, L

\* The turn of the room is over in mid, which has rows for that, and the jobs
\* left are not of it.
LEMMA EndedKept ==
  ASSUME NEW k, NEW mid, Core(mid, TRUE), mid.status = "active", NEW L \in SUBSET Job, InTime(k, mid, L), Owed(k, mid, L)
  PROVE  /\ StopRule(mid) # Nothing => Kept(k, Close(mid, StopRule(mid)), L)
         /\ StopRule(mid) = Nothing =>
              Kept(k, Advance(mid), L \cup {Job1("deliverTurn", k, mid.turnSeq + 1)})
<1>1. mid \in Room /\ mid.turnSeq \in Nat
  <2>1. mid \in Room
    BY DEF Core, Shape
  <2> QED BY <2>1, SeatsAre
<1>2. CASE StopRule(mid) # Nothing
  <2> DEFINE r == Close(mid, StopRule(mid))
  <2>1. RoomInv(r) /\ r.status = "closed" /\ Writes(r, mid, "system")
    BY <1>2, ResolvedKeeps
  <2> HIDE DEF r
  <2>2. "system" \in Kinds \ {"skipped"}
    BY DEF Kinds
  <2>3. InTime(k, r, L)
    BY <1>1, <2>1, <2>2, InTimeRow
  <2>4. Owed(k, r, L)
    BY <2>1 DEF Owed, Writes, Frozen
  <2> QED BY <1>2, <2>1, <2>3, <2>4 DEF Kept, Driven, r
<1>3. CASE StopRule(mid) = Nothing
  <2> DEFINE r == Advance(mid)
             d == Job1("deliverTurn", k, mid.turnSeq + 1)
             M == L \cup {d}
  <2>1. /\ RoomInv(r) /\ r.status = "active" /\ Frozen(r, mid) /\ r.turns = mid.turns
        /\ r.turnSeq = mid.turnSeq + 1 /\ r.awaiting = "undelivered"
    BY <1>3, ResolvedKeeps
  <2> HIDE DEF r
  <2>2. r.template = mid.template
    BY <2>1 DEF Frozen
  <2>3. d.room = k /\ d.seq = mid.turnSeq + 1 /\ d.fn = "deliverTurn"
    BY DEF Job1
  <2>4. Driven(k, r, M)
    BY <2>1 DEF Driven
  <2>5. InTime(k, r, M)
    <3> SUFFICES ASSUME NEW n \in DOMAIN mid.turns, mid.turns[n].kind = "skipped"
                 PROVE  /\ mid.template.seats[mid.turns[n].position].deadline
                        /\ \A fn \in {"deliverTurn", "expireTurn"} : Job1(fn, k, mid.turns[n].seq) \notin M
      BY <2>1, <2>2 DEF InTime
    <3>1. mid.turns[n].seq \in 1 .. mid.turnSeq
      <4>1. Ended(mid, TRUE) = mid.turnSeq
        BY <1>1 DEF Ended
      <4> QED BY <4>1, SeqsEnded
    <3>2. mid.turns[n].seq # mid.turnSeq + 1
      BY <1>1, <3>1
    <3>3. \A fn \in {"deliverTurn", "expireTurn"} : Job1(fn, k, mid.turns[n].seq) # d
      BY <3>2 DEF Job1
    <3> QED BY <3>3 DEF InTime
  <2>6. Owed(k, r, M)
    <3> HIDE DEF d
    <3> SUFFICES ASSUME NEW x \in M, x.room = k
                 PROVE  /\ x.seq <= mid.turnSeq + 1
                        /\ x.fn = "expireTurn" =>
                             /\ Job1("deliverTurn", k, x.seq) \notin M
                             /\ x.seq # mid.turnSeq + 1
      BY <2>1, <2>2 DEF Owed
    <3>1. CASE x = d
      BY <1>1, <2>3, <3>1
    <3>2. CASE x \in L
      <4>1. x.seq <= mid.turnSeq /\ (x.fn = "expireTurn" => Job1("deliverTurn", k, x.seq) \notin L)
        BY <3>2 DEF Owed
      <4>2. x.seq \in Nat
        BY <3>2 DEF Job
      <4>3. x.seq <= mid.turnSeq + 1 /\ x.seq # mid.turnSeq + 1
        BY <1>1, <4>1, <4>2
      <4>4. Job1("deliverTurn", k, x.seq) # d
        <5>1. Job1("deliverTurn", k, x.seq).seq = x.seq
          BY DEF Job1
        <5> QED BY <2>3, <4>3, <5>1
      <4> QED BY <4>1, <4>3, <4>4
    <3> QED BY <3>1, <3>2
  <2> QED BY <1>3, <2>1, <2>4, <2>5, <2>6 DEF Kept, r
<1> QED BY <1>2, <1>3

\* An answer to the turn.
LEMMA AnsweredKept ==
  ASSUME NEW k, NEW room, NEW J \in SUBSET Job, Kept(k, room, J), room.status = "active",
         NEW done \in BOOLEAN
  PROVE  LET mid == Answered(room, room.position, done)
         IN /\ Core(mid, TRUE) /\ mid.status = "active" /\ mid.turnSeq = room.turnSeq
            /\ InTime(k, mid, J) /\ Owed(k, mid, J)
<1> DEFINE mid == Answered(room, room.position, done)
<1>1. Core(room, FALSE) /\ ~room.state[room.position].dropped /\ room \in Room
  <2>1. Core(room, FALSE) /\ Waiting(room)
    BY ActiveInv DEF Kept
  <2> QED BY <2>1 DEF Waiting, Core, Shape
<1>2. AtWork(room)
  BY <1>1 DEF AtWork
<1>3. PICK kind \in {"answer", "operator"} : Core(mid, TRUE) /\ mid.status = "active" /\ Writes(mid, room, kind)
  BY <1>2, AnsweredKeeps
<1> HIDE DEF mid
<1>4. kind \in Kinds \ {"skipped"}
  BY DEF Kinds, Placing
<1>5. InTime(k, mid, J)
  BY <1>1, <1>3, <1>4, InTimeRow DEF Kept
<1>6. mid.turnSeq = room.turnSeq /\ Owed(k, mid, J)
  BY <1>3 DEF Kept, Owed, Writes, Frozen
<1> QED BY <1>3, <1>5, <1>6 DEF mid

\* The deadline of the turn runs out, and its job is done.
LEMMA SkippedKept ==
  ASSUME NEW k, NEW room, NEW J \in SUBSET Job, Kept(k, room, J), room.status = "active",
         NEW j \in J, j = Job1("expireTurn", k, room.turnSeq)
  PROVE  LET mid == Skipped(room)
         IN /\ Core(mid, TRUE) /\ mid.status = "active" /\ mid.turnSeq = room.turnSeq
            /\ InTime(k, mid, J \ {j}) /\ Owed(k, mid, J \ {j})
<1> DEFINE mid == Skipped(room)
           L == J \ {j}
<1>1. Core(room, FALSE) /\ ~room.state[room.position].dropped /\ room \in Room
  <2>1. Core(room, FALSE) /\ Waiting(room)
    BY ActiveInv DEF Kept
  <2> QED BY <2>1 DEF Waiting, Core, Shape
<1>2. AtWork(room)
  BY <1>1 DEF AtWork
<1>3. /\ Core(mid, TRUE) /\ mid.status = "active"
      /\ \/ Writes(mid, room, "skipped")
         \/ \E w \in Room : Writes(w, room, "skipped") /\ Writes(mid, w, "dropped")
  BY <1>2, SkippedKeeps
<1> HIDE DEF mid
<1>4. j.room = k /\ j.seq = room.turnSeq /\ j.fn = "expireTurn"
  BY DEF Job1
<1>5. /\ room.template.seats[room.position].deadline
      /\ Job1("deliverTurn", k, room.turnSeq) \notin J
  BY <1>4 DEF Kept, Owed
<1>6. \A fn \in {"deliverTurn", "expireTurn"} : Job1(fn, k, room.turnSeq) \notin L
  BY <1>5
<1>7. InTime(k, room, L) /\ Owed(k, room, L)
  BY FewerJobs DEF Kept
<1> HIDE DEF L
<1>8. InTime(k, mid, L) /\ mid.turnSeq = room.turnSeq /\ mid.position = room.position
      /\ mid.template = room.template
  <2>1. CASE Writes(mid, room, "skipped")
    <3>1. InTime(k, mid, L)
      BY <1>1, <1>5, <1>6, <1>7, <2>1, InTimeSkipped
    <3> QED BY <2>1, <3>1 DEF Writes, Frozen
  <2>2. CASE \E w \in Room : Writes(w, room, "skipped") /\ Writes(mid, w, "dropped")
    <3>1. PICK w \in Room : Writes(w, room, "skipped") /\ Writes(mid, w, "dropped")
      BY <2>2
    <3>2. InTime(k, w, L)
      BY <1>1, <1>5, <1>6, <1>7, <3>1, InTimeSkipped
    <3>3. "dropped" \in Kinds \ {"skipped"}
      BY DEF Kinds, Placing
    <3>4. InTime(k, mid, L)
      BY <3>1, <3>2, <3>3, InTimeRow
    <3> QED BY <3>1, <3>4 DEF Writes, Frozen
  <2> QED BY <1>3, <2>1, <2>2
<1>9. Owed(k, mid, L)
  BY <1>7, <1>8 DEF Owed
<1> QED BY <1>3, <1>8, <1>9 DEF mid, L

-----------------------------------------------------------------------------
(* The steps.                                                              *)

\* A step of one room and of its jobs.
LEMMA OneRoomSteps ==
  ASSUME RoomsInv, NEW k \in DOMAIN rooms, NEW r, NEW L \in SUBSET Job, Kept(k, r, L),
         \A j \in jobs \cup L : j.room # k => (j \in jobs <=> j \in L),
         rooms' = [rooms EXCEPT ![k] = r], jobs' = L, UNCHANGED <<settings, template>>
  PROVE  RoomsInv'
<1>1. rooms \in Seq(Room) /\ Len(rooms) <= MaxRooms
  BY DEF RoomsInv, TablesTyped
<1>2. r \in Room
  BY DEF Kept, RoomInv, Core, Shape
<1>3. rooms' \in Seq(Room) /\ Len(rooms') = Len(rooms) /\ DOMAIN rooms' = DOMAIN rooms
      /\ rooms'[k] = r /\ \A i \in DOMAIN rooms : i # k => rooms'[i] = rooms[i]
  BY <1>1, <1>2
<1>4. TablesTyped'
  BY <1>1, <1>3 DEF RoomsInv, TablesTyped
<1>5. ASSUME NEW i \in DOMAIN rooms PROVE Kept(i, rooms'[i], L)
  <2>1. CASE i = k
    BY <1>3, <2>1
  <2>2. CASE i # k
    <3>1. Kept(i, rooms[i], jobs)
      BY <1>5 DEF RoomsInv
    <3>2. \A j \in jobs \cup L : j.room = i => (j \in jobs <=> j \in L)
      BY <2>2
    <3>3. Kept(i, rooms[i], L)
      BY <3>1, <3>2, OtherJobs
    <3> QED BY <1>3, <1>5, <2>2, <3>3
  <2> QED BY <2>1, <2>2
<1>6. \A j \in L : j.room \in DOMAIN rooms
  BY DEF RoomsInv
<1>7. \A i \in DOMAIN rooms' : Kept(i, rooms'[i], jobs')
  BY <1>3, <1>5
<1>8. \A j \in jobs' : j.room \in DOMAIN rooms'
  BY <1>3, <1>6
<1> QED BY <1>4, <1>7, <1>8 DEF RoomsInv

\* The turn of a room is over.
LEMMA ResolveSteps ==
  ASSUME RoomsInv, NEW k \in DOMAIN rooms, NEW mid, Core(mid, TRUE), mid.status = "active",
         mid.turnSeq = rooms[k].turnSeq, NEW left \in SUBSET jobs, \A j \in jobs \ left : j.room = k,
         InTime(k, mid, left), Owed(k, mid, left), ResolveAndAdvance(k, mid, left),
         UNCHANGED <<settings, template>>
  PROVE  RoomsInv'
<1>1. jobs \subseteq Job /\ k \in 1 .. MaxRooms /\ mid.turnSeq \in Nat
  <2>1. rooms \in Seq(Room) /\ Len(rooms) <= MaxRooms /\ jobs \subseteq Job
    BY DEF RoomsInv, TablesTyped
  <2>2. mid \in Room
    BY DEF Core, Shape
  <2> QED BY <2>1, <2>2, SeatsAre, RoomsAssumption
<1>2. left \in SUBSET Job
  BY <1>1
<1>3. CASE StopRule(mid) # Nothing
  <2> DEFINE r == Close(mid, StopRule(mid))
  <2>1. Kept(k, r, left)
    BY <1>2, <1>3, EndedKept
  <2>2. rooms' = [rooms EXCEPT ![k] = r] /\ jobs' = left
    BY <1>3 DEF ResolveAndAdvance
  <2> HIDE DEF r
  <2> QED BY <1>2, <2>1, <2>2, OneRoomSteps
<1>4. CASE StopRule(mid) = Nothing
  <2> DEFINE r == Advance(mid)
             d == Job1("deliverTurn", k, mid.turnSeq + 1)
             L == left \cup {d}
  <2>1. Kept(k, r, L)
    BY <1>2, <1>4, EndedKept
  <2>2. rooms' = [rooms EXCEPT ![k] = r] /\ jobs' = L
    BY <1>4 DEF ResolveAndAdvance
  <2>3. d \in Job /\ d.room = k
    BY <1>1 DEF Job1, Job
  <2> HIDE DEF r, d
  <2>4. L \in SUBSET Job /\ \A j \in jobs \cup L : j.room # k => (j \in jobs <=> j \in L)
    BY <1>2, <2>3
  <2> HIDE DEF L
  <2> QED BY <2>1, <2>2, <2>4, OneRoomSteps
<1> QED BY <1>3, <1>4

LEMMA KeptRoom ==
  ASSUME RoomsInv, NEW k \in DOMAIN rooms
  PROVE  Kept(k, rooms[k], jobs) /\ jobs \in SUBSET Job /\ rooms[k] \in Room
<1>1. Kept(k, rooms[k], jobs) /\ jobs \in SUBSET Job
  BY DEF RoomsInv, TablesTyped
<1> QED BY <1>1 DEF Kept, RoomInv, Core, Shape

LEMMA CloseSteps ==
  ASSUME RoomsInv, NEW k \in DOMAIN rooms, CloseRoom(k)
  PROVE  RoomsInv'
<1> DEFINE r == Close(rooms[k], "operator_stop")
<1>1. Kept(k, r, jobs) /\ jobs \in SUBSET Job
  BY KeptRoom, ClosedKept DEF CloseRoom
<1>2. rooms' = [rooms EXCEPT ![k] = r] /\ jobs' = jobs /\ UNCHANGED <<settings, template>>
  BY DEF CloseRoom
<1> HIDE DEF r
<1> QED BY <1>1, <1>2, OneRoomSteps

LEMMA PostSteps ==
  ASSUME RoomsInv, NEW k \in DOMAIN rooms, NEW c, NEW seq \in Nat, NEW fit \in BOOLEAN, NEW done \in BOOLEAN,
         PostTurn(k, c, seq, fit, done)
  PROVE  RoomsInv'
<1> DEFINE room == rooms[k]
           i == ParticipantOf(room, c)
<1>1. Kept(k, room, jobs) /\ jobs \in SUBSET Job /\ room.status = "active"
      /\ UNCHANGED <<settings, template>>
  BY KeptRoom DEF PostTurn
<1>2. CASE room.position = i /\ ResolveAndAdvance(k, Answered(room, i, done), jobs)
  <2> DEFINE mid == Answered(room, room.position, done)
  <2>1. /\ Core(mid, TRUE) /\ mid.status = "active" /\ mid.turnSeq = room.turnSeq
        /\ InTime(k, mid, jobs) /\ Owed(k, mid, jobs)
    BY <1>1, AnsweredKept
  <2>2. ResolveAndAdvance(k, mid, jobs)
    BY <1>2
  <2> HIDE DEF mid
  <2> QED BY <1>1, <2>1, <2>2, ResolveSteps
<1>3. CASE rooms' = [rooms EXCEPT ![k] = Refuse(room)] /\ UNCHANGED jobs
  <2> DEFINE r == Refuse(room)
  <2>1. Kept(k, r, jobs)
    BY <1>1, RefusedKept
  <2>2. rooms' = [rooms EXCEPT ![k] = r] /\ jobs' = jobs
    BY <1>3
  <2> HIDE DEF r
  <2> QED BY <1>1, <2>1, <2>2, OneRoomSteps
<1> QED BY <1>2, <1>3 DEF PostTurn

LEMMA ExpireSteps ==
  ASSUME RoomsInv, NEW j \in jobs, ExpireTurn(j)
  PROVE  RoomsInv'
<1> DEFINE k == j.room
           room == rooms[k]
           left == jobs \ {j}
<1>1. k \in DOMAIN rooms /\ j \in Job /\ j.fn = "expireTurn" /\ UNCHANGED <<settings, template>>
  BY DEF RoomsInv, TablesTyped, ExpireTurn
<1>2. Kept(k, room, jobs) /\ jobs \in SUBSET Job
  BY <1>1, KeptRoom
<1>3. j = Job1("expireTurn", k, j.seq)
  BY <1>1 DEF Job1, Job
<1>4. CASE Expires(room, j.seq)
  <2> DEFINE mid == Skipped(room)
  <2>1. room.status = "active" /\ j = Job1("expireTurn", k, room.turnSeq)
    BY <1>3, <1>4 DEF Expires
  <2>2. /\ Core(mid, TRUE) /\ mid.status = "active" /\ mid.turnSeq = room.turnSeq
        /\ InTime(k, mid, left) /\ Owed(k, mid, left)
    BY <1>2, <2>1, SkippedKept
  <2>3. ResolveAndAdvance(k, mid, left)
    BY <1>4 DEF ExpireTurn
  <2>4. left \in SUBSET jobs /\ \A x \in jobs \ left : x.room = k
    OBVIOUS
  <2> HIDE DEF mid, left
  <2> QED BY <1>1, <2>2, <2>3, <2>4, ResolveSteps
<1>5. CASE ~Expires(room, j.seq)
  <2>1. Kept(k, room, left)
    <3>1. ~(j = Job1("expireTurn", k, room.turnSeq) /\ room.status = "active" /\ room.awaiting = "delivered")
      <4>1. Nothing # "delivered"
        BY RoomsAssumption
      <4> QED BY <1>5, <4>1 DEF Expires, Job1
    <3>2. j # Job1("deliverTurn", k, room.turnSeq)
      BY <1>1 DEF Job1
    <3> QED BY <1>2, <3>1, <3>2, StaleKept
  <2>2. rooms' = [rooms EXCEPT ![k] = room] /\ jobs' = left
    <3>1. rooms' = rooms /\ jobs' = left
      BY <1>5 DEF ExpireTurn
    <3>2. rooms \in Seq(Room)
      BY DEF RoomsInv, TablesTyped
    <3> QED BY <1>1, <3>1, <3>2
  <2>3. left \in SUBSET Job /\ \A x \in jobs \cup left : x.room # k => (x \in jobs <=> x \in left)
    BY <1>2
  <2> HIDE DEF left
  <2> QED BY <1>1, <2>1, <2>2, <2>3, OneRoomSteps
<1> QED BY <1>4, <1>5

-----------------------------------------------------------------------------
(* What a transcript holds at most.                                        *)

LEMMA OneToN ==
  ASSUME NEW n \in Nat
  PROVE  IsFiniteSet(1 .. n) /\ Cardinality(1 .. n) = n
<1>1. IsFiniteSet(1 .. n) /\ Cardinality(1 .. n) = IF 1 > n THEN 0 ELSE n - 1 + 1
  BY FS_Interval
<1> QED BY <1>1

LEMMA RoundsBefore ==
  ASSUME NEW q \in Nat, NEW n \in Nat
  PROVE  q * n = (q - 1) * n + n
OBVIOUS

LEMMA Products ==
  ASSUME NEW a \in Nat, NEW b \in Nat, NEW c \in Nat, NEW d \in Nat, a <= c, b <= d
  PROVE  a * b <= c * d
<1>1. PICK x \in Nat : c = a + x
  <2>1. c - a \in Nat /\ c = a + (c - a)
    OBVIOUS
  <2> QED BY <2>1
<1>2. PICK y \in Nat : d = b + y
  <2>1. d - b \in Nat /\ d = b + (d - b)
    OBVIOUS
  <2> QED BY <2>1
<1>3. c * d = a * b + (a * y + x * b + x * y)
  BY <1>1, <1>2
<1>4. a * b \in Nat /\ a * y \in Nat /\ x * b \in Nat /\ x * y \in Nat
  OBVIOUS
<1> QED BY <1>3, <1>4

\* As many turns as a room has, a row of each seat dropped, the refusals that
\* have one and two notices.
LEMMA CoreFits ==
  ASSUME NEW room, NEW over \in BOOLEAN, Core(room, over)
  PROVE  TranscriptFits(room)
<1> DEFINE N == Len(room.template.seats)
           R == room.settings.maxRoundLimit
           P == room.settings.maxParticipants
           F == room.settings.maxRefusalRows
           D == Cardinality(Dropped(room))
           q == room.round
<1>1. Shape(room) /\ room \in Room
  BY DEF Core, Shape
<1>2. /\ N \in Nat /\ Seats(room) = 1 .. N /\ q \in Nat /\ room.position \in Nat /\ room.turnSeq \in Nat
      /\ room.refusalRows \in Nat /\ room.template.roundLimit \in Nat /\ room.turns \in Seq(Turn)
      /\ room.settings \in Settings
  BY <1>1, SeatsAre
<1>3. R \in Nat /\ P \in Nat /\ F \in Nat
  BY <1>2 DEF Settings
<1>4. /\ q >= 1 /\ q <= room.template.roundLimit /\ room.template.roundLimit <= R /\ N <= P /\ R >= 1
      /\ room.position <= N /\ room.refusalRows <= F
      /\ MaxTurnRows(room.settings) <= ReadBound
  BY <1>1, <1>2, <1>3 DEF Shape, ValidTemplate, ValidSettings
<1>5. D \in Nat /\ D <= N
  <2>1. Dropped(room) \subseteq 1 .. N
    BY <1>2 DEF Dropped
  <2>2. IsFiniteSet(1 .. N) /\ Cardinality(1 .. N) = N
    BY <1>2, OneToN
  <2> QED BY <2>1, <2>2, FS_Subset, FS_CardinalityType
<1>6. Notices(room) \in Nat /\ Notices(room) <= 2
  BY DEF Notices
<1>7. room.turnSeq <= R * P
  <2> DEFINE a == (q - 1) * N
  <2>0. q \in Nat /\ N \in Nat /\ R \in Nat /\ P \in Nat /\ q <= R /\ N <= P
    BY <1>2, <1>3, <1>4
  <2>1. q * N = a + N
    <3> HIDE DEF q, N
    <3> QED BY <2>0, RoundsBefore
  <2>2. a \in Int /\ q * N \in Nat
    <3> HIDE DEF q, N
    <3> QED BY <2>0
  <2>3. room.turnSeq <= a + room.position
    BY <1>1 DEF Shape, Paced
  <2>4. q * N <= R * P
    <3> HIDE DEF q, N, R, P
    <3> QED BY <2>0, Products
  <2>5. R * P \in Nat
    BY <1>3
  <2> DEFINE b == q * N
             c == R * P
  <2> HIDE DEF a, b, c, R, P, N
  <2>6. b = a + N /\ a \in Int /\ b \in Nat /\ b <= c /\ c \in Nat
    BY <2>1, <2>2, <2>4, <2>5 DEF b, c
  <2>7. room.turnSeq <= c
    BY <1>2, <1>4, <2>3, <2>6
  <2> QED BY <2>7 DEF c
<1>8. P <= R * P
  <2>1. 1 * P <= R * P
    BY <1>3, <1>4, Products
  <2> QED BY <1>3, <2>1
<1>9. Ended(room, over) <= room.turnSeq /\ Ended(room, over) \in Int
  BY <1>2 DEF Ended
<1>10. Len(room.turns) <= Ended(room, over) + D + room.refusalRows + Notices(room) /\ Len(room.turns) \in Nat
  BY <1>2 DEF Core, Counted
<1>11. MaxTurnRows(room.settings) = R * P * 2 + F + 3 /\ MaxTurnRows(room.settings) \in Nat
  BY <1>3 DEF MaxTurnRows
<1>12. ReadBound \in Nat
  BY RoomsAssumption
<1> DEFINE c == R * P
           e == Ended(room, over)
           n == Notices(room)
           m == MaxTurnRows(room.settings)
<1>13. c \in Nat /\ m = c * 2 + F + 3
  BY <1>3, <1>11
<1> HIDE DEF N, R, P, F, D, q, c, e, n, m
<1>14. room.turnSeq <= c /\ P <= c
  BY <1>7, <1>8 DEF c
<1>15. e \in Int /\ e <= room.turnSeq /\ n \in Nat /\ n <= 2 /\ Len(room.turns) <= e + D + room.refusalRows + n
  BY <1>6, <1>9, <1>10 DEF e, n
<1>16. Len(room.turns) <= m
  BY <1>2, <1>3, <1>4, <1>5, <1>10, <1>13, <1>14, <1>15
<1>17. m \in Nat /\ m <= ReadBound
  BY <1>4, <1>11 DEF m
<1>18. Len(room.turns) <= ReadBound
  BY <1>10, <1>12, <1>16, <1>17
<1> QED BY <1>16, <1>18 DEF TranscriptFits, m

-----------------------------------------------------------------------------
(* The other steps.                                                        *)

LEMMA SameInbox ==
  ASSUME InboxTyped, UNCHANGED inboxVars
  PROVE  InboxTyped'
BY DEF InboxTyped, inboxVars

LEMMA DeliverSteps ==
  ASSUME InboxTyped, RoomsInv, NEW j \in jobs, DeliverTurn(j)
  PROVE  InboxTyped' /\ RoomsInv'
<1> DEFINE k == j.room
           room == rooms[k]
           seat == room.template.seats[room.position]
           left == jobs \ {j}
<1>1. k \in DOMAIN rooms /\ j \in Job /\ j.fn = "deliverTurn" /\ UNCHANGED <<settings, template>>
      /\ rooms \in Seq(Room)
  BY DEF RoomsInv, TablesTyped, DeliverTurn
<1>2. Kept(k, room, jobs) /\ jobs \in SUBSET Job /\ room \in Room
  BY <1>1, KeptRoom
<1>3. j = Job1("deliverTurn", k, j.seq) /\ j.seq \in Nat
  BY <1>1 DEF Job1, Job
<1> DEFINE due == room.status = "active" /\ room.turnSeq = j.seq /\ room.awaiting = "undelivered"
<1>4. CASE ~due /\ jobs' = left /\ UNCHANGED <<rooms, inboxVars>>
  <2>1. Kept(k, room, left)
    <3>1. ~(j = Job1("deliverTurn", k, room.turnSeq) /\ room.status = "active" /\ room.awaiting = "undelivered")
      BY <1>4 DEF Job1
    <3>2. j # Job1("expireTurn", k, room.turnSeq)
      BY <1>1 DEF Job1
    <3> QED BY <1>2, <3>1, <3>2, StaleKept
  <2>2. rooms' = [rooms EXCEPT ![k] = room] /\ jobs' = left
    BY <1>1, <1>4
  <2>3. left \in SUBSET Job /\ \A x \in jobs \cup left : x.room # k => (x \in jobs <=> x \in left)
    BY <1>2
  <2>4. InboxTyped'
    BY <1>4, SameInbox
  <2> HIDE DEF left
  <2> QED BY <1>1, <2>1, <2>2, <2>3, <2>4, OneRoomSteps
<1>5. ASSUME due, Delivered(j, room)
      PROVE  RoomsInv'
  <2> DEFINE r == [room EXCEPT !.awaiting = "delivered"]
             L == (jobs \ {j}) \cup Expiry(room, j)
  <2>1. Kept(k, r, L)
    BY <1>2, <1>3, <1>5, DeliveredKept
  <2>2. rooms' = [rooms EXCEPT ![k] = r] /\ jobs' = L
    BY <1>1, <1>5 DEF Delivered
  <2>3. \A x \in Expiry(room, j) : x \in Job /\ x.room = k
    BY <1>1, <1>3 DEF Expiry, Job1, Job
  <2>4. L \in SUBSET Job /\ \A x \in jobs \cup L : x.room # k => (x \in jobs <=> x \in L)
    BY <1>2, <2>3
  <2> HIDE DEF r, L
  <2> QED BY <1>1, <2>1, <2>2, <2>4, OneRoomSteps
<1>6. CASE due /\ ~IsAgent(seat) /\ Delivered(j, room) /\ UNCHANGED inboxVars
  BY <1>5, <1>6, SameInbox
<1>7. CASE due /\ rooms' = [rooms EXCEPT ![k] = Stall(room)] /\ jobs' = left /\ UNCHANGED inboxVars
  <2> DEFINE r == Stall(room)
  <2>1. Kept(k, r, left)
    BY <1>2, <1>7, StalledKept
  <2>2. left \in SUBSET Job /\ \A x \in jobs \cup left : x.room # k => (x \in jobs <=> x \in left)
    BY <1>2
  <2>3. InboxTyped'
    BY <1>7, SameInbox
  <2>4. rooms' = [rooms EXCEPT ![k] = r] /\ jobs' = left
    BY <1>7
  <2> HIDE DEF r, left
  <2> QED BY <1>1, <2>1, <2>2, <2>3, <2>4, OneRoomSteps
<1>8. CASE /\ due /\ IsAgent(seat) /\ Deliverable(seat.agent)
           /\ InsertMessage(1, <<NameReceipt(agents[seat.agent].name)>>) /\ Delivered(j, room)
  <2>1. seat.agent \in Agent
    <3>1. room.position \in Seats(room)
      BY DEF Kept, RoomInv, Core, Shape, RoomsInv
    <3>2. seat \in Seat
      BY <1>2, <3>1, SeatsAre
    <3> QED BY <1>8, <3>2 DEF Seat, IsAgent
  <2>2. agents[seat.agent].name \in Name
    BY <1>8, <2>1, AgentAddressed DEF Deliverable
  <2>3. NameReceipt(agents[seat.agent].name) \in Addressee
    BY <2>2, NameAddressed
  <2> DEFINE to == <<NameReceipt(agents[seat.agent].name)>>
  <2>4. to \in Seq(Addressee) /\ InsertMessage(1, to)
    <3> DEFINE x == NameReceipt(agents[seat.agent].name)
    <3>1. InsertMessage(1, <<x>>) /\ x \in Addressee
      BY <1>8, <2>3
    <3> HIDE DEF x
    <3>2. <<x>> \in Seq(Addressee)
      BY <3>1
    <3> QED BY <3>1, <3>2 DEF x
  <2>5. InboxTyped'
    <3>1. 1 \in Nat
      OBVIOUS
    <3> HIDE DEF to, seat, room, left
    <3> QED BY <2>4, <3>1, InsertTyped
  <2> QED BY <1>5, <1>8, <2>5
<1>9. ~(IsAgent(seat) /\ Len(room.turns) > ReadBound)
  <2>1. Core(room, EndedByRule(room)) /\ EndedByRule(room) \in BOOLEAN
    BY <1>2 DEF Kept, RoomInv, EndedByRule
  <2>2. Len(room.turns) <= ReadBound
    BY <2>1, CoreFits DEF TranscriptFits
  <2>3. Len(room.turns) \in Nat /\ ReadBound \in Nat
    BY <1>2, SeatsAre, RoomsAssumption
  <2> QED BY <2>2, <2>3
<1>10. \/ ~due /\ jobs' = left /\ UNCHANGED <<rooms, inboxVars>>
       \/ due /\ ~IsAgent(seat) /\ Delivered(j, room) /\ UNCHANGED inboxVars
       \/ due /\ rooms' = [rooms EXCEPT ![k] = Stall(room)] /\ jobs' = left /\ UNCHANGED inboxVars
       \/ /\ due /\ IsAgent(seat) /\ Deliverable(seat.agent)
          /\ InsertMessage(1, <<NameReceipt(agents[seat.agent].name)>>) /\ Delivered(j, room)
  BY <1>9 DEF DeliverTurn
<1> HIDE DEF due, seat, room, left, k
<1> QED BY <1>4, <1>6, <1>7, <1>8, <1>10

\* What a room is created with.
LEMMA NewRoomKept ==
  ASSUME NEW p \in Person, NEW t \in Template, NEW s \in Settings, ValidSettings(s), ValidTemplate(t, s),
         NEW k, NEW J, \A j \in J : j.room = k => j = Job1("deliverTurn", k, 1),
         Job1("deliverTurn", k, 1) \in J,
         NEW r, r = [createdBy |-> p, template |-> t, settings |-> s, status |-> "active",
           closeReason |-> Nothing, round |-> 1, position |-> 1, turnSeq |-> 1,
           awaiting |-> "undelivered", state |-> InitialState(t),
           refusalRows |-> 0, refusalsOverflow |-> 0, turns |-> <<>>]
  PROVE  Kept(k, r, J)
<1> DEFINE N == Len(t.seats)
           state == InitialState(t)
<1>1. t.seats \in Seq(Seat) /\ N \in Nat /\ DOMAIN t.seats = 1 .. N /\ N >= 2 /\ t.roundLimit \in Nat
      /\ t.roundLimit >= 1 /\ t.maxConsecutiveSkips \in Nat /\ t.maxConsecutiveSkips > 0
      /\ s.maxRefusalRows \in Nat
  <2>1. t.seats \in Seq(Seat) /\ t.roundLimit \in Nat /\ t.maxConsecutiveSkips \in Nat
        /\ s.maxRefusalRows \in Nat /\ s.maxRoundLimit \in Nat /\ s.maxParticipants \in Nat
    BY DEF Template, Settings
  <2> QED BY <2>1 DEF ValidTemplate
<1>2. /\ state \in Seq(SeatState) /\ DOMAIN state = 1 .. N
      /\ \A i \in 1 .. N : state[i].skips = 0 /\ state[i].dropped = FALSE
  <2> DEFINE fresh == [skips |-> 0, dropped |-> FALSE, kind |-> Nothing, done |-> FALSE]
  <2>1. fresh \in SeatState
    BY DEF SeatState
  <2>2. state = [i \in 1 .. N |-> fresh]
    BY <1>1 DEF InitialState
  <2>3. fresh.skips = 0 /\ fresh.dropped = FALSE
    OBVIOUS
  <2> HIDE DEF fresh, state
  <2> QED BY <1>1, <2>1, <2>2, <2>3
<1> HIDE DEF state
<1>3. r \in Room
  <2>1. <<>> \in Seq(Turn)
    OBVIOUS
  <2> QED BY <1>2, <2>1 DEF Room, state
<1>4. /\ r.template = t /\ r.settings = s /\ r.status = "active" /\ r.round = 1 /\ r.position = 1
      /\ r.turnSeq = 1 /\ r.awaiting = "undelivered" /\ r.state = state /\ r.refusalRows = 0
      /\ r.turns = <<>>
  BY DEF state
<1>5. Seats(r) = 1 .. N /\ 1 \in 1 .. N
  BY <1>1, <1>4 DEF Seats
<1>6. Shape(r)
  <2>1. Paced(r)
    <3>1. (1 - 1) * N = 0
      BY <1>1
    <3> QED BY <1>4, <3>1 DEF Paced
  <2> QED BY <1>1, <1>2, <1>3, <1>4, <1>5, <2>1 DEF Shape
<1>7. DOMAIN r.turns = {} /\ Len(r.turns) = 0
  BY <1>4
<1>8. Resolving(r) = {} /\ Refused(r) = {} /\ \A i : DroppedIn(r, i) = {}
  BY <1>7 DEF Resolving, Refused, DroppedIn
<1>9. \A i : Streak(r, i) = {}
  BY <1>8 DEF Streak
<1>10. Placed(r, FALSE)
  BY <1>7 DEF Placed
<1>11. Whole(r, FALSE)
  <2>1. InTurn(r)
    BY <1>8 DEF InTurn
  <2>2. {r.turns[n].seq : n \in Resolving(r)} = 1 .. Ended(r, FALSE)
    <3>1. Ended(r, FALSE) = 0
      BY <1>4 DEF Ended
    <3>2. {r.turns[n].seq : n \in Resolving(r)} = {}
      BY <1>8
    <3>3. 1 .. 0 = {}
      OBVIOUS
    <3> QED BY <3>1, <3>2, <3>3
  <2>3. ASSUME NEW q \in 1 .. r.round
        PROVE  PositionsIn(r, q) = SpokenBy(r, q, FALSE)
    <3>1. PositionsIn(r, q) = {}
      BY <1>8 DEF PositionsIn
    <3>2. q = 1
      BY <1>4, <2>3
    <3>3. SpokenBy(r, q, FALSE) = {}
      BY <1>4, <1>5, <3>2 DEF SpokenBy
    <3> QED BY <3>1, <3>3
  <2> QED BY <2>1, <2>2, <2>3 DEF Whole
<1>12. Standing(r)
  <2>1. Cardinality({}) = 0
    BY FS_EmptySet
  <2>2. r.refusalRows = Cardinality(Refused(r))
    BY <1>4, <1>8, <2>1
  <2>3. \A i \in Seats(r) : ~r.state[i].dropped /\ r.state[i].skips = 0
    BY <1>2, <1>4, <1>5
  <2>4. ~(0 >= r.template.maxConsecutiveSkips)
    BY <1>1, <1>4
  <2>5. \A i \in Seats(r) : r.state[i].dropped <=> DroppedIn(r, i) # {}
    BY <1>8, <2>3
  <2>6. \A i \in Seats(r) :
          /\ r.state[i].skips = Cardinality(Streak(r, i))
          /\ r.state[i].dropped <=> r.state[i].skips >= r.template.maxConsecutiveSkips
    <3> SUFFICES ASSUME NEW i \in Seats(r)
                 PROVE  /\ r.state[i].skips = Cardinality(Streak(r, i))
                        /\ r.state[i].dropped <=> r.state[i].skips >= r.template.maxConsecutiveSkips
      OBVIOUS
    <3>1. r.state[i].skips = 0 /\ ~r.state[i].dropped /\ Cardinality(Streak(r, i)) = 0
      BY <1>9, <2>1, <2>3
    <3> QED BY <2>4, <3>1
  <2> QED BY <2>2, <2>3, <2>5, <2>6 DEF Standing, AgentSeats
<1>13. Counted(r, FALSE)
  <2>1. Ended(r, FALSE) = 0 /\ Notices(r) = 0
    BY <1>4 DEF Ended, Notices
  <2>2. Dropped(r) = {}
    BY <1>2, <1>4, <1>5 DEF Dropped
  <2>3. Cardinality(Dropped(r)) = 0
    BY <2>2, FS_EmptySet
  <2>4. Len(r.turns) = 0 /\ r.refusalRows = 0
    BY <1>4, <1>7
  <2>5. 0 <= 0 + 0 + 0 + 0
    OBVIOUS
  <2> QED BY <2>1, <2>3, <2>4, <2>5 DEF Counted
<1>14. Core(r, FALSE)
  BY <1>6, <1>10, <1>11, <1>12, <1>13 DEF Core
<1>15. Waiting(r) /\ ~EndedByRule(r)
  BY <1>2, <1>4, <1>5, RoomsAssumption DEF Waiting, EndedByRule
<1>16. RoomInv(r)
  BY <1>14, <1>15, RoomInvOf
<1>17. Driven(k, r, J) /\ InTime(k, r, J)
  BY <1>4, <1>7 DEF Driven, InTime
<1>18. Owed(k, r, J)
  <2>1. Job1("deliverTurn", k, 1).seq = 1 /\ Job1("deliverTurn", k, 1).fn # "expireTurn"
    BY DEF Job1
  <2> QED BY <1>4, <2>1 DEF Owed
<1> QED BY <1>16, <1>17, <1>18 DEF Kept

LEMMA CreateSteps ==
  ASSUME RoomsInv, NEW p \in Person, CreateRoom(p)
  PROVE  RoomsInv'
<1> DEFINE k == Len(rooms) + 1
           d == Job1("deliverTurn", k, 1)
           J == jobs \cup {d}
           r == [createdBy |-> p, template |-> template, settings |-> settings, status |-> "active",
                 closeReason |-> Nothing, round |-> 1, position |-> 1, turnSeq |-> 1,
                 awaiting |-> "undelivered", state |-> InitialState(template),
                 refusalRows |-> 0, refusalsOverflow |-> 0, turns |-> <<>>]
<1>1. rooms \in Seq(Room) /\ Len(rooms) \in Nat /\ Len(rooms) < MaxRooms /\ MaxRooms \in Nat /\ jobs \subseteq Job
      /\ template \in Template /\ settings \in Settings
      /\ ValidSettings(settings) /\ ValidTemplate(template, settings)
      /\ UNCHANGED <<settings, template>>
  BY RoomsAssumption DEF RoomsInv, TablesTyped, CreateRoom
<1>2. rooms' = Append(rooms, r) /\ jobs' = J
  BY DEF CreateRoom
<1>3. k \in 1 .. MaxRooms /\ k \notin DOMAIN rooms /\ d.room = k
  BY <1>1 DEF Job1
<1>4. d \in Job
  BY <1>3 DEF Job1, Job
<1>5. \A j \in jobs : j.room # k
  BY <1>3 DEF RoomsInv
<1>6. Kept(k, r, J)
  <2>1. \A j \in J : j.room = k => j = d
    BY <1>5
  <2> QED BY <1>1, <2>1, NewRoomKept
<1> HIDE DEF d, r
<1>7. r \in Room
  BY <1>6 DEF Kept, RoomInv, Core, Shape
<1>8. rooms' \in Seq(Room) /\ Len(rooms') = k /\ DOMAIN rooms' = DOMAIN rooms \cup {k}
      /\ rooms'[k] = r /\ \A i \in DOMAIN rooms : rooms'[i] = rooms[i]
  BY <1>1, <1>2, <1>7
<1>9. TablesTyped'
  BY <1>1, <1>2, <1>3, <1>4, <1>8 DEF RoomsInv, TablesTyped
<1>10. ASSUME NEW i \in DOMAIN rooms PROVE Kept(i, rooms'[i], jobs')
  <2>1. Kept(i, rooms[i], jobs)
    BY <1>10 DEF RoomsInv
  <2>2. \A j \in jobs \cup J : j.room = i => (j \in jobs <=> j \in J)
    BY <1>3, <1>10
  <2>3. Kept(i, rooms[i], J)
    BY <2>1, <2>2, OtherJobs
  <2> QED BY <1>2, <1>8, <1>10, <2>3
<1>11. \A i \in DOMAIN rooms' : Kept(i, rooms'[i], jobs')
  BY <1>2, <1>6, <1>8, <1>10
<1>12. \A j \in jobs' : j.room \in DOMAIN rooms'
  BY <1>2, <1>3, <1>8 DEF RoomsInv
<1> QED BY <1>9, <1>11, <1>12 DEF RoomsInv

\* The settings and the template that new rooms will have.
LEMMA SavedSteps ==
  ASSUME RoomsInv, settings' \in Settings \cup {Nothing}, template' \in Template \cup {Nothing},
         UNCHANGED <<rooms, jobs>>
  PROVE  RoomsInv'
<1>1. TablesTyped'
  BY DEF RoomsInv, TablesTyped
<1>2. \A k \in DOMAIN rooms' : Kept(k, rooms'[k], jobs')
  BY DEF RoomsInv
<1>3. \A j \in jobs' : j.room \in DOMAIN rooms'
  BY DEF RoomsInv
<1> QED BY <1>1, <1>2, <1>3 DEF RoomsInv

LEMMA InitKept ==
  ASSUME InboxInit, RoomsInit
  PROVE  AllInv
<1>1. InboxTyped
  BY InboxInitTyped
<1>2. RoomsInv
  <2>1. rooms = <<>> /\ jobs = {} /\ DOMAIN rooms = {} /\ Len(rooms) = 0
    BY DEF RoomsInit
  <2>2. TablesTyped
    BY <2>1, RoomsAssumption DEF RoomsInit, TablesTyped
  <2> QED BY <2>1, <2>2 DEF RoomsInv
<1> QED BY <1>1, <1>2 DEF AllInv

LEMMA StepKept ==
  ASSUME AllInv, [RoomsNext]_vars
  PROVE  AllInv'
<1>0. InboxTyped /\ RoomsInv
  BY DEF AllInv
<1>1. ASSUME UNCHANGED inboxVars, RoomsInv' PROVE AllInv'
  BY <1>0, <1>1, SameInbox DEF AllInv
<1>2. CASE \E s \in Settings : UpsertSettings(s)
  <2>1. /\ settings' \in Settings \cup {Nothing} /\ template' = template
        /\ UNCHANGED <<rooms, jobs>> /\ UNCHANGED inboxVars
    BY <1>2 DEF UpsertSettings
  <2> QED BY <1>0, <1>1, <2>1, SavedSteps DEF RoomsInv, TablesTyped
<1>3. CASE \E t \in Template : UpsertTemplate(t)
  <2>1. /\ template' \in Template \cup {Nothing} /\ settings' = settings
        /\ UNCHANGED <<rooms, jobs>> /\ UNCHANGED inboxVars
    BY <1>3 DEF UpsertTemplate
  <2> QED BY <1>0, <1>1, <2>1, SavedSteps DEF RoomsInv, TablesTyped
<1>4. CASE \E p \in Person : CreateRoom(p)
  <2>1. PICK p \in Person : CreateRoom(p)
    BY <1>4
  <2>2. UNCHANGED inboxVars
    BY <2>1 DEF CreateRoom
  <2> QED BY <1>0, <1>1, <2>1, <2>2, CreateSteps
<1>5. ASSUME NEW k \in DOMAIN rooms,
             \/ CloseRoom(k)
             \/ \E c \in Agent \cup Person, seq \in Nat, fit, done \in BOOLEAN :
                  PostTurn(k, c, seq, fit, done)
      PROVE  AllInv'
  <2>1. CASE CloseRoom(k)
    <3>1. UNCHANGED inboxVars
      BY <2>1 DEF CloseRoom
    <3> QED BY <1>0, <1>1, <1>5, <2>1, <3>1, CloseSteps
  <2>2. CASE \E c \in Agent \cup Person, seq \in Nat, fit, done \in BOOLEAN :
               PostTurn(k, c, seq, fit, done)
    <3>1. PICK c \in Agent \cup Person, seq \in Nat, fit \in BOOLEAN, done \in BOOLEAN :
            PostTurn(k, c, seq, fit, done)
      BY <2>2
    <3>2. UNCHANGED inboxVars
      BY <3>1 DEF PostTurn
    <3> QED BY <1>0, <1>1, <1>5, <3>1, <3>2, PostSteps
  <2> QED BY <1>5, <2>1, <2>2
<1>6. CASE RunJob
  <2>1. PICK j \in jobs : DeliverTurn(j) \/ ExpireTurn(j)
    BY <1>6 DEF RunJob
  <2>2. CASE DeliverTurn(j)
    BY <1>0, <2>1, <2>2, DeliverSteps DEF AllInv
  <2>3. CASE ExpireTurn(j)
    <3>1. UNCHANGED inboxVars
      BY <2>3 DEF ExpireTurn
    <3> QED BY <1>0, <1>1, <2>1, <2>3, <3>1, ExpireSteps
  <2> QED BY <2>1, <2>2, <2>3
<1>7. ASSUME UNCHANGED roomVars PROVE RoomsInv'
  <2>1. UNCHANGED <<rooms, jobs>> /\ UNCHANGED <<settings, template>>
    BY <1>7 DEF roomVars
  <2> QED BY <1>0, <2>1, SavedSteps DEF RoomsInv, TablesTyped
<1>8. CASE InboxNext /\ UNCHANGED roomVars
  BY <1>0, <1>7, <1>8, InboxTypedStep DEF AllInv
<1>9. CASE UNCHANGED vars
  <2>1. UNCHANGED inboxVars /\ UNCHANGED roomVars
    BY <1>9 DEF vars
  <2> QED BY <1>1, <1>7, <2>1
<1>10. CASE RoomsNext
  BY <1>2, <1>3, <1>4, <1>5, <1>6, <1>8, <1>10 DEF RoomsNext
<1> QED BY <1>9, <1>10

-----------------------------------------------------------------------------
(* What the invariant says.                                                *)

LEMMA RoomSays ==
  ASSUME NEW room, RoomInv(room)
  PROVE  /\ RoundsWhole(room) /\ StandingsAgree(room) /\ TranscriptFits(room)
         /\ room.position \in DOMAIN room.template.seats
         /\ DOMAIN room.state = DOMAIN room.template.seats
<1> DEFINE over == EndedByRule(room)
<1>1. over \in BOOLEAN
  BY DEF EndedByRule
<1>2. Core(room, over)
  BY DEF RoomInv
<1>3. \A q : Spoken(room, q) = SpokenBy(room, q, over)
  BY DEF Spoken, SpokenBy
<1> HIDE DEF over
<1>4. Whole(room, over) /\ Standing(room) /\ Shape(room)
  BY <1>2 DEF Core
<1>5. RoundsWhole(room)
  <2>1. Ended(room, over) = room.turnSeq - (IF EndedByRule(room) THEN 0 ELSE 1)
    BY DEF Ended, over
  <2>2. \A q \in 1 .. room.round : PositionsIn(room, q) = Spoken(room, q)
    BY <1>3, <1>4 DEF Whole
  <2> QED BY <1>4, <2>1, <2>2 DEF Whole, InTurn, PositionsIn, RoundsWhole
<1>6. StandingsAgree(room)
  BY <1>4 DEF Standing, StandingsAgree, Refused, AgentSeats
<1>7. TranscriptFits(room)
  BY <1>1, <1>2, CoreFits
<1> QED BY <1>4, <1>5, <1>6, <1>7 DEF Shape, Seats

LEMMA SoundInit ==
  ASSUME InboxInit, RoomsInit
  PROVE  SoundInv
<1>1. AllInv
  BY InitKept
<1>2. ReceiptsFollow
  BY DEF InboxInit, ReceiptsFollow
<1> QED BY <1>1, <1>2 DEF SoundInv

\* The turn that is delivered is a message to the seat's agent.
LEMMA DeliverInserts ==
  ASSUME AllInv, NEW j \in jobs, DeliverTurn(j)
  PROVE  \/ UNCHANGED inboxVars
         \/ \E to \in Seq(Addressee) : InsertMessage(1, to)
<1> DEFINE room == rooms[j.room]
           seat == room.template.seats[room.position]
<1>1. CASE IsAgent(seat) /\ Deliverable(seat.agent) /\ InsertMessage(1, <<NameReceipt(agents[seat.agent].name)>>)
  <2>1. j.room \in DOMAIN rooms /\ room \in Room /\ room.position \in Seats(room)
    BY KeptRoom DEF AllInv, RoomsInv, Kept, RoomInv, Core, Shape
  <2>2. seat.agent \in Agent
    BY <1>1, <2>1, SeatsAre DEF Seat, IsAgent
  <2>3. InboxTyped
    BY DEF AllInv
  <2>4. agents[seat.agent].name \in Name
    BY <1>1, <2>2, <2>3, AgentAddressed DEF Deliverable
  <2> DEFINE x == NameReceipt(agents[seat.agent].name)
  <2>5. x \in Addressee /\ InsertMessage(1, <<x>>)
    BY <1>1, <2>3, <2>4, NameAddressed
  <2> HIDE DEF x
  <2>6. <<x>> \in Seq(Addressee)
    BY <2>5
  <2> QED BY <2>5, <2>6
<1>2. \/ UNCHANGED inboxVars
      \/ IsAgent(seat) /\ Deliverable(seat.agent) /\ InsertMessage(1, <<NameReceipt(agents[seat.agent].name)>>)
  BY DEF DeliverTurn
<1> QED BY <1>1, <1>2

\* A step of a room leaves the inbox alone, or delivers a turn.
LEMMA RoomsBeside ==
  ASSUME AllInv, [RoomsNext]_vars
  PROVE  \/ UNCHANGED inboxVars
         \/ InboxNext
         \/ \E to \in Seq(Addressee) : InsertMessage(1, to)
<1>1. CASE RunJob
  <2>1. PICK j \in jobs : DeliverTurn(j) \/ ExpireTurn(j)
    BY <1>1 DEF RunJob
  <2>2. CASE DeliverTurn(j)
    BY <2>1, <2>2, DeliverInserts
  <2>3. CASE ExpireTurn(j)
    BY <2>3 DEF ExpireTurn
  <2> QED BY <2>1, <2>2, <2>3
<1>2. CASE RoomsNext /\ ~RunJob
  BY <1>2 DEF RoomsNext, UpsertSettings, UpsertTemplate, CreateRoom, CloseRoom, PostTurn
<1>3. CASE UNCHANGED vars
  BY <1>3 DEF vars
<1> QED BY <1>1, <1>2, <1>3

LEMMA SoundStep ==
  ASSUME SoundInv, [RoomsNext]_vars
  PROVE  SoundInv'
<1>1. AllInv /\ AllInv' /\ InboxTyped /\ ReceiptsFollow
  BY StepKept DEF SoundInv, AllInv
<1>2. CASE UNCHANGED inboxVars
  BY <1>1, <1>2 DEF inboxVars, ReceiptsFollow, SoundInv
<1>3. CASE InboxNext
  BY <1>1, <1>3, InboxFollows DEF SoundInv
<1>4. CASE \E to \in Seq(Addressee) : InsertMessage(1, to)
  <2>1. 1 \in Nat
    OBVIOUS
  <2> QED BY <1>1, <1>4, <2>1, InsertFollows DEF SoundInv
<1> QED BY <1>1, <1>2, <1>3, <1>4, RoomsBeside

LEMMA StepPasses ==
  ASSUME SoundInv, [RoomsNext]_vars
  PROVE  PassesNone
<1>1. AllInv /\ InboxTyped /\ ReceiptsFollow
  BY DEF SoundInv, AllInv
<1>2. CASE UNCHANGED polls
  BY <1>2 DEF PassesNone
<1>3. CASE \E s \in Session : CheckMessages(s)
  <2>1. PICK s \in Session : CheckMessages(s)
    BY <1>3
  <2>2. \A t \in Session : t # s => polls'[t] = polls[t]
    BY <1>1, <2>1 DEF CheckMessages, InboxTyped
  <2>3. \A i \in Unread(s) :
          i > polls[s].since => i \in polls'[s].shown \/ (polls'[s].since > 0 /\ i > polls'[s].since)
    BY <1>1, <2>1, PageWhole
  <2> QED BY <2>2, <2>3 DEF PassesNone
<1>4. CASE InboxNext
  <2>1. UNCHANGED polls \/ \E s \in Session : CheckMessages(s)
    BY <1>4 DEF InboxNext, SendByName, SendByIds, Broadcast, InsertMessage, MemberMarks, MarkAsRead,
                DeleteMessage, RegisterAgent, RenameAgent, AppendToRoster, DeactivateAgent, ReactivateAgent
  <2> QED BY <1>2, <1>3, <2>1
<1> QED BY <1>1, <1>2, <1>4, RoomsBeside DEF inboxVars, InsertMessage

LEMMA InvSays ==
  ASSUME SoundInv
  PROVE  TablesSound
<1>1. InboxTyped /\ ReceiptsFollow /\ RoomsInv /\ TablesTyped
  BY DEF SoundInv, AllInv, RoomsInv
<1>2. ASSUME NEW k \in DOMAIN rooms
      PROVE  /\ RoundsWhole(rooms[k]) /\ StandingsAgree(rooms[k]) /\ TranscriptFits(rooms[k])
             /\ SkippedInTime(k) /\ RoomIsDriven(k)
             /\ rooms[k].position \in DOMAIN rooms[k].template.seats
             /\ DOMAIN rooms[k].state = DOMAIN rooms[k].template.seats
  <2>1. RoomInv(rooms[k]) /\ Driven(k, rooms[k], jobs) /\ InTime(k, rooms[k], jobs)
    BY <1>1, <1>2 DEF RoomsInv, Kept
  <2>2. SkippedInTime(k)
    BY <2>1 DEF SkippedInTime, InTime, Range
  <2>3. RoomIsDriven(k)
    BY <2>1 DEF RoomIsDriven, Driven
  <2> QED BY <2>1, <2>2, <2>3, RoomSays
<1>3. RoomsTyped
  BY <1>1, <1>2 DEF TablesTyped, RoomsTyped
<1>4. RoomsSound
  BY <1>2 DEF RoomsSound
<1> QED BY <1>1, <1>3, <1>4 DEF TablesSound


-----------------------------------------------------------------------------
(* A room only goes on.                                                    *)

\* Room becomes r: what it was created with and its rows stay, its pointer does
\* not go back, and it does not come back from a stall or from its end.
Onward(r, room) ==
  /\ Frozen(r, room)
  /\ \A n \in DOMAIN room.turns : n \in DOMAIN r.turns /\ r.turns[n] = room.turns[n]
  /\ r.turnSeq >= room.turnSeq
  /\ r.round > room.round \/ (r.round = room.round /\ r.position >= room.position)
  /\ room.status = "closed" => r = room
  /\ room.status = "stalled" => r.status # "active"

GoesOn == \A k \in DOMAIN rooms : k \in DOMAIN rooms' /\ Onward(rooms'[k], rooms[k])

LEMMA OnwardSame ==
  ASSUME NEW room \in Room
  PROVE  Onward(room, room)
BY SeatsAre DEF Onward, Frozen

LEMMA OnwardRow ==
  ASSUME NEW room \in Room, NEW kind \in Kinds, NEW r, Writes(r, room, kind), room.status # "closed",
         room.status = "stalled" => r.status # "active"
  PROVE  Onward(r, room)
<1> DEFINE row == RowOf(room, kind)
<1>1. room.turns \in Seq(Turn) /\ room.round \in Nat /\ room.position \in Nat /\ room.turnSeq \in Nat
  BY SeatsAre
<1>2. /\ r.turns = Append(room.turns, row) /\ Frozen(r, room)
      /\ r.round = room.round /\ r.position = room.position /\ r.turnSeq = room.turnSeq
  BY DEF Writes
<1> HIDE DEF row
<1>3. \A n \in DOMAIN room.turns : n \in DOMAIN r.turns /\ r.turns[n] = room.turns[n]
  BY <1>1, <1>2
<1> QED BY <1>1, <1>2, <1>3 DEF Onward

LEMMA OnwardTwice ==
  ASSUME NEW room \in Room, NEW w \in Room, NEW r \in Room, Onward(w, room), Onward(r, w),
         room.status = "active"
  PROVE  Onward(r, room)
<1>1. /\ room.turnSeq \in Nat /\ w.turnSeq \in Nat /\ r.turnSeq \in Nat
      /\ room.round \in Nat /\ w.round \in Nat /\ r.round \in Nat
      /\ room.position \in Nat /\ w.position \in Nat /\ r.position \in Nat
  BY SeatsAre
<1>2. r.turnSeq >= room.turnSeq
  BY <1>1 DEF Onward
<1>3. r.round > room.round \/ (r.round = room.round /\ r.position >= room.position)
  BY <1>1 DEF Onward
<1>4. Frozen(r, room)
  BY DEF Onward, Frozen
<1>5. \A n \in DOMAIN room.turns : n \in DOMAIN r.turns /\ r.turns[n] = room.turns[n]
  BY DEF Onward
<1> QED BY <1>2, <1>3, <1>4, <1>5 DEF Onward

\* Two rows at once, of a seat passed over and dropped.
LEMMA OnwardDropped ==
  ASSUME NEW room \in Room, room.status = "active", NEW w \in Room, NEW r, r.status = "active",
         Writes(w, room, "skipped"), Writes(r, w, "dropped")
  PROVE  Onward(r, room)
<1> DEFINE row == RowOf(room, "skipped")
           more == RowOf(w, "dropped")
<1>1. room.turns \in Seq(Turn) /\ room.round \in Nat /\ room.position \in Nat /\ room.turnSeq \in Nat
      /\ w.turns \in Seq(Turn)
  BY SeatsAre
<1>2. /\ w.turns = Append(room.turns, row) /\ r.turns = Append(w.turns, more)
      /\ r.round = room.round /\ r.position = room.position /\ r.turnSeq = room.turnSeq
  BY DEF Writes
<1>3. Frozen(r, room)
  BY DEF Writes, Frozen
<1> HIDE DEF row, more
<1>4. \A n \in DOMAIN room.turns : n \in DOMAIN w.turns /\ w.turns[n] = room.turns[n]
  BY <1>1, <1>2
<1>5. \A n \in DOMAIN w.turns : n \in DOMAIN r.turns /\ r.turns[n] = w.turns[n]
  BY <1>1, <1>2
<1> QED BY <1>1, <1>2, <1>3, <1>4, <1>5 DEF Onward

LEMMA OneRoomOnward ==
  ASSUME rooms \in Seq(Room), NEW k \in DOMAIN rooms, NEW r, Onward(r, rooms[k]),
         rooms' = [rooms EXCEPT ![k] = r]
  PROVE  GoesOn
<1>1. DOMAIN rooms' = DOMAIN rooms /\ rooms'[k] = r /\ \A i \in DOMAIN rooms : i # k => rooms'[i] = rooms[i]
  OBVIOUS
<1>2. ASSUME NEW i \in DOMAIN rooms PROVE Onward(rooms'[i], rooms[i])
  <2>1. rooms[i] \in Room
    BY <1>2
  <2> QED BY <1>1, <1>2, <2>1, OnwardSame
<1> QED BY <1>1, <1>2 DEF GoesOn

LEMMA SameRoomsOnward ==
  ASSUME rooms \in Seq(Room), UNCHANGED rooms
  PROVE  GoesOn
<1>1. ASSUME NEW i \in DOMAIN rooms PROVE Onward(rooms[i], rooms[i])
  <2>1. rooms[i] \in Room
    BY <1>1
  <2> QED BY <2>1, OnwardSame
<1> QED BY <1>1 DEF GoesOn

\* The turn is over in mid, and the room goes on from there.
LEMMA ResolveOnward ==
  ASSUME RoomsInv, NEW k \in DOMAIN rooms, rooms[k].status = "active",
         NEW mid, Core(mid, TRUE), mid.status = "active", Onward(mid, rooms[k]),
         NEW left, ResolveAndAdvance(k, mid, left)
  PROVE  GoesOn
<1>1. rooms[k] \in Room /\ mid \in Room /\ rooms \in Seq(Room)
  BY KeptRoom DEF Core, Shape, RoomsInv, TablesTyped
<1>2. mid.turnSeq \in Nat /\ mid.round \in Nat /\ mid.position \in Nat
  BY <1>1, SeatsAre
<1>3. CASE StopRule(mid) # Nothing
  <2> DEFINE r == Close(mid, StopRule(mid))
  <2>1. Writes(r, mid, "system")
    BY <1>3, ResolvedKeeps
  <2>2. rooms' = [rooms EXCEPT ![k] = r]
    BY <1>3 DEF ResolveAndAdvance
  <2> HIDE DEF r
  <2>3. "system" \in Kinds
    BY DEF Kinds
  <2>4. Onward(r, mid) /\ r \in Room
    BY <1>1, <2>1, <2>3, OnwardRow DEF Writes
  <2>5. Onward(r, rooms[k])
    BY <1>1, <2>4, OnwardTwice
  <2> QED BY <1>1, <2>2, <2>5, OneRoomOnward
<1>4. CASE StopRule(mid) = Nothing
  <2> DEFINE r == Advance(mid)
  <2>1. /\ RoomInv(r) /\ Frozen(r, mid) /\ r.turns = mid.turns /\ r.turnSeq = mid.turnSeq + 1
        /\ r.round = mid.round + 1 \/ (r.round = mid.round /\ r.position > mid.position)
    BY <1>4, ResolvedKeeps
  <2>2. rooms' = [rooms EXCEPT ![k] = r]
    BY <1>4 DEF ResolveAndAdvance
  <2> HIDE DEF r
  <2>3. r \in Room
    BY <2>1 DEF RoomInv, Core, Shape
  <2>4. r.position \in Nat
    BY <2>3, SeatsAre
  <2>5. r.turnSeq >= mid.turnSeq /\ (r.round > mid.round \/ (r.round = mid.round /\ r.position >= mid.position))
    BY <1>2, <2>1, <2>4
  <2>6. Onward(r, mid)
    BY <2>1, <2>5 DEF Onward
  <2>7. Onward(r, rooms[k])
    BY <1>1, <2>3, <2>6, OnwardTwice
  <2> QED BY <1>1, <2>2, <2>7, OneRoomOnward
<1> QED BY <1>3, <1>4

LEMMA ExpireOnward ==
  ASSUME RoomsInv, NEW j \in jobs, ExpireTurn(j)
  PROVE  GoesOn
<1> DEFINE k == j.room
           room == rooms[k]
           mid == Skipped(room)
<1>1. k \in DOMAIN rooms /\ rooms \in Seq(Room)
  BY DEF RoomsInv, TablesTyped
<1>2. Kept(k, room, jobs) /\ room \in Room
  BY <1>1, KeptRoom
<1>3. CASE Expires(room, j.seq)
  <2>1. room.status = "active"
    BY <1>3 DEF Expires
  <2>2. AtWork(room)
    <3>1. Core(room, FALSE) /\ Waiting(room)
      BY <1>2, <2>1, ActiveInv DEF Kept
    <3> QED BY <2>1, <3>1 DEF AtWork, Waiting
  <2>3. /\ Core(mid, TRUE) /\ mid.status = "active"
        /\ \/ Writes(mid, room, "skipped")
           \/ \E w \in Room : Writes(w, room, "skipped") /\ Writes(mid, w, "dropped")
    BY <2>2, SkippedKeeps
  <2>4. ResolveAndAdvance(k, mid, jobs \ {j})
    BY <1>3 DEF ExpireTurn
  <2> HIDE DEF mid
  <2>5. "skipped" \in Kinds /\ "dropped" \in Kinds
    BY DEF Kinds, Placing
  <2>6. Onward(mid, room)
    <3>1. CASE Writes(mid, room, "skipped")
      BY <1>2, <2>1, <2>5, <3>1, OnwardRow
    <3>2. CASE \E w \in Room : Writes(w, room, "skipped") /\ Writes(mid, w, "dropped")
      <4>1. PICK w \in Room : Writes(w, room, "skipped") /\ Writes(mid, w, "dropped")
        BY <3>2
      <4> QED BY <1>2, <2>1, <2>3, <4>1, OnwardDropped
    <3> QED BY <2>3, <3>1, <3>2
  <2> QED BY <1>1, <2>1, <2>3, <2>4, <2>6, ResolveOnward
<1>4. CASE ~Expires(room, j.seq)
  <2>1. UNCHANGED rooms
    BY <1>4 DEF ExpireTurn
  <2> QED BY <1>1, <2>1, SameRoomsOnward
<1> QED BY <1>3, <1>4

LEMMA PostOnward ==
  ASSUME RoomsInv, NEW k \in DOMAIN rooms, NEW c, NEW seq \in Nat, NEW fit \in BOOLEAN, NEW done \in BOOLEAN,
         PostTurn(k, c, seq, fit, done)
  PROVE  GoesOn
<1> DEFINE room == rooms[k]
           i == ParticipantOf(room, c)
<1>1. Kept(k, room, jobs) /\ room \in Room /\ room.status = "active" /\ rooms \in Seq(Room)
  BY KeptRoom DEF PostTurn, RoomsInv, TablesTyped
<1>2. CASE room.position = i /\ ResolveAndAdvance(k, Answered(room, i, done), jobs)
  <2> DEFINE mid == Answered(room, room.position, done)
  <2>1. AtWork(room)
    <3>1. Core(room, FALSE) /\ Waiting(room)
      BY <1>1, ActiveInv DEF Kept
    <3> QED BY <1>1, <3>1 DEF AtWork, Waiting
  <2>2. PICK kind \in {"answer", "operator"} : Core(mid, TRUE) /\ mid.status = "active" /\ Writes(mid, room, kind)
    BY <2>1, AnsweredKeeps
  <2>3. ResolveAndAdvance(k, mid, jobs)
    BY <1>2
  <2> HIDE DEF mid
  <2>4. kind \in Kinds
    BY DEF Kinds, Placing
  <2>5. Onward(mid, room)
    BY <1>1, <2>2, <2>4, OnwardRow
  <2> QED BY <1>1, <2>2, <2>3, <2>5, ResolveOnward
<1>3. CASE rooms' = [rooms EXCEPT ![k] = Refuse(room)] /\ UNCHANGED jobs
  <2> DEFINE r == Refuse(room)
  <2>1. /\ RoomInv(r) /\ Frozen(r, room) /\ r.turnSeq = room.turnSeq
        /\ r.turns = room.turns \/ Writes(r, room, "refused")
        /\ r.round = room.round /\ r.position = room.position
    BY <1>1, RefuseKeeps DEF Kept
  <2>2. rooms' = [rooms EXCEPT ![k] = r]
    BY <1>3
  <2> HIDE DEF r
  <2>3. "refused" \in Kinds
    BY DEF Kinds
  <2>4. Onward(r, room)
    <3>1. CASE r.turns = room.turns
      <4>1. room.turnSeq \in Nat /\ room.position \in Nat
        BY <1>1, SeatsAre
      <4> QED BY <1>1, <2>1, <3>1, <4>1 DEF Onward
    <3>2. CASE Writes(r, room, "refused")
      BY <1>1, <2>3, <3>2, OnwardRow
    <3> QED BY <2>1, <3>1, <3>2
  <2> QED BY <1>1, <2>2, <2>4, OneRoomOnward
<1> QED BY <1>2, <1>3 DEF PostTurn

LEMMA CloseOnward ==
  ASSUME RoomsInv, NEW k \in DOMAIN rooms, CloseRoom(k)
  PROVE  GoesOn
<1> DEFINE room == rooms[k]
           reason == "operator_stop"
           r == Close(room, reason)
<1>1. Kept(k, room, jobs) /\ room \in Room /\ room.status # "closed" /\ rooms \in Seq(Room)
  BY KeptRoom DEF CloseRoom, RoomsInv, TablesTyped
<1>2. Core(room, FALSE)
  BY <1>1, ActiveInv DEF Kept
<1>3. room.status \in {"active", "stalled"}
  BY <1>1, SeatsAre
<1>4. Writes(r, room, "system") /\ r.status = "closed"
  BY <1>2, <1>3, CloseKeeps
<1>5. rooms' = [rooms EXCEPT ![k] = r]
  BY DEF CloseRoom
<1> HIDE DEF r
<1>6. "system" \in Kinds
  BY DEF Kinds
<1>7. Onward(r, room)
  BY <1>1, <1>4, <1>6, OnwardRow
<1> QED BY <1>1, <1>5, <1>7, OneRoomOnward

LEMMA DeliverOnward ==
  ASSUME RoomsInv, NEW j \in jobs, DeliverTurn(j)
  PROVE  GoesOn
<1> DEFINE k == j.room
           room == rooms[k]
<1>1. k \in DOMAIN rooms /\ rooms \in Seq(Room)
  BY DEF RoomsInv, TablesTyped
<1>2. RoomInv(room) /\ room \in Room /\ room.turnSeq \in Nat /\ room.position \in Nat
  <2>1. RoomInv(room) /\ room \in Room
    BY <1>1, KeptRoom DEF Kept
  <2> QED BY <2>1, SeatsAre
<1>3. CASE UNCHANGED rooms
  BY <1>1, <1>3, SameRoomsOnward
<1>4. CASE room.status = "active" /\ Delivered(j, room)
  <2> DEFINE r == [room EXCEPT !.awaiting = "delivered"]
  <2>1. /\ RoomInv(r) /\ Frozen(r, room) /\ r.turnSeq = room.turnSeq /\ r.turns = room.turns
        /\ r.round = room.round /\ r.position = room.position
    BY <1>2, <1>4, DeliveredKeeps
  <2>2. rooms' = [rooms EXCEPT ![k] = r]
    BY <1>1, <1>4 DEF Delivered
  <2> HIDE DEF r
  <2>3. Onward(r, room)
    BY <1>2, <1>4, <2>1 DEF Onward
  <2> QED BY <1>1, <2>2, <2>3, OneRoomOnward
<1>5. CASE room.status = "active" /\ rooms' = [rooms EXCEPT ![k] = Stall(room)]
  <2> DEFINE r == Stall(room)
  <2>1. Writes(r, room, "system")
    BY <1>2, <1>5, StallKeeps
  <2>2. rooms' = [rooms EXCEPT ![k] = r]
    BY <1>5
  <2> HIDE DEF r
  <2>3. "system" \in Kinds
    BY DEF Kinds
  <2>4. Onward(r, room)
    BY <1>2, <1>5, <2>1, <2>3, OnwardRow
  <2> QED BY <1>1, <2>2, <2>4, OneRoomOnward
<1>6. \/ UNCHANGED rooms
      \/ room.status = "active" /\ Delivered(j, room)
      \/ room.status = "active" /\ rooms' = [rooms EXCEPT ![k] = Stall(room)]
  BY DEF DeliverTurn
<1> QED BY <1>3, <1>4, <1>5, <1>6

LEMMA StepOnward ==
  ASSUME AllInv, [RoomsNext]_vars
  PROVE  GoesOn
<1>1. RoomsInv /\ rooms \in Seq(Room)
  BY DEF AllInv, RoomsInv, TablesTyped
<1>2. CASE UNCHANGED rooms
  BY <1>1, <1>2, SameRoomsOnward
<1>3. CASE \E p \in Person : CreateRoom(p)
  <2>1. PICK r : rooms' = Append(rooms, r)
    BY <1>3 DEF CreateRoom
  <2>2. ASSUME NEW k \in DOMAIN rooms PROVE k \in DOMAIN rooms' /\ Onward(rooms'[k], rooms[k])
    <3>1. rooms[k] \in Room /\ k \in DOMAIN rooms' /\ rooms'[k] = rooms[k]
      BY <1>1, <2>1, <2>2
    <3> QED BY <3>1, OnwardSame
  <2> QED BY <2>2 DEF GoesOn
<1>4. CASE \E k \in DOMAIN rooms :
             \/ CloseRoom(k)
             \/ \E c \in Agent \cup Person, seq \in Nat, fit, done \in BOOLEAN :
                  PostTurn(k, c, seq, fit, done)
  BY <1>1, <1>4, CloseOnward, PostOnward
<1>5. CASE RunJob
  BY <1>1, <1>5, DeliverOnward, ExpireOnward DEF RunJob
<1> QED BY <1>2, <1>3, <1>4, <1>5 DEF RoomsNext, UpsertSettings, UpsertTemplate, roomVars, vars
-----------------------------------------------------------------------------
(* The theorems.                                                           *)

\* Whatever members, callers, agents and the scheduler do, and in whatever
\* order: every room's transcript has one answer or skip of each seat present
\* in each round, in turn, and agrees with what the room remembers of its
\* seats; it stays within one transaction's reads; no seat is passed over but
\* by its own deadline after its own delivery; an active room has what drives
\* it; a receipt is gone when its message is and not before; and messages,
\* receipts and the readers' places keep their types (debate.ts,
\* lib/debateTemplate.ts, messages.ts).
THEOREM RoomsAreSound == RoomsSpec => []TablesSound
<1>1. InboxInit /\ RoomsInit => SoundInv
  BY SoundInit
<1>2. SoundInv /\ [RoomsNext]_vars => SoundInv'
  BY SoundStep
<1>3. SoundInv => TablesSound
  BY InvSays
<1> QED BY <1>1, <1>2, <1>3, PTL DEF RoomsSpec, vars

\* No step takes back what a room has: its template, its settings and its rows
\* stay as they were written, its pointer does not go back, a stalled room is
\* not active again, and a closed one does not change, whatever is posted and
\* whichever jobs are still to run (postTurn, closeRoom, deliverTurn and
\* expireTurn in debate.ts).
THEOREM RoomsGoOn == RoomsSpec => [][GoesOn]_vars
<1>1. InboxInit /\ RoomsInit => AllInv
  BY InitKept
<1>2. AllInv /\ [RoomsNext]_vars => AllInv'
  BY StepKept
<1>3. AllInv /\ [RoomsNext]_vars => GoesOn
  BY StepOnward
<1> QED BY <1>1, <1>2, <1>3, PTL DEF RoomsSpec, vars

\* A reader that asks for its next page misses no message: of what it has not
\* read behind its place, each is on the page, or behind the place that the page
\* hands it to go on from; where the page hands it none, all of them are on it
\* (checkNewMessagesEnvelope in messages.ts).
THEOREM PagesPassNone == RoomsSpec => [][PassesNone]_vars
<1>1. InboxInit /\ RoomsInit => SoundInv
  BY SoundInit
<1>2. SoundInv /\ [RoomsNext]_vars => SoundInv'
  BY SoundStep
<1>3. SoundInv /\ [RoomsNext]_vars => PassesNone
  BY StepPasses
<1> QED BY <1>1, <1>2, <1>3, PTL DEF RoomsSpec, vars

=============================================================================
