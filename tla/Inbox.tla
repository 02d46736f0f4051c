-------------------------------- MODULE Inbox --------------------------------
(***************************************************************************)
(* Messages, one receipt of each per recipient, and the readers that page  *)
(* through the receipts they have not read (convex/messages.ts,            *)
(* lib/inboxReader.ts), in one organisation with its agents.               *)
(*                                                                         *)
(* A receipt's place in the table is its creation time.  A name is a role, *)
(* or a role and what follows a "-".  A reader is an agent, known by its   *)
(* ID, that may narrow its inbox to an instance; it reads the next page    *)
(* from where the last one was cut, or else from the start.                *)
(***************************************************************************)
EXTENDS Integers, Sequences, FiniteSets, SequencesExt, FiniteSetsExt

CONSTANTS
  Agent, Role, Suffix,
  Nothing,       \* absent
  Profile,       \* rows of profiles: [orchestratorId, instanceId]
  Reader,        \* agents that read their inbox
  Instance,      \* instances a reader narrows to, or Nothing
  Limit,         \* limit of a page
  MaxBytes,      \* maxBytes of a page
  MaxReceipts    \* bound: receipts that readers look for

ASSUME InboxAssumption == IsFiniteSet(Agent) /\ Limit \in Nat \ {0} /\ MaxBytes \in Nat

VARIABLES
  agents,                 \* the agents table, Nothing where there is no row
  allowedOrchestrators,   \* the organisation's roster by name
  allowedAgentIds,        \* the same by ID
  messages,               \* [size, gone], in the order they were sent
  receipts,
  polls                   \* what each session read last, and where it goes on

inboxVars == <<agents, allowedOrchestrators, allowedAgentIds, messages, receipts, polls>>

Name == [role : Role, suffix : Suffix \cup {Nothing}]

Receipt == [message : Nat, recipient : Name, recipientId : Agent \cup {Nothing},
            instance : Name \cup {Nothing}, read : BOOLEAN, gone : BOOLEAN]

Session == [agent : Reader, instance : Instance]

InboxTyped ==
  /\ agents \in [Agent -> [name : Name, isActive : BOOLEAN] \cup {Nothing}]
  /\ allowedOrchestrators \subseteq Name /\ allowedAgentIds \subseteq Agent
  /\ messages \in Seq([size : Nat, gone : BOOLEAN])
  /\ receipts \in Seq(Receipt)
  /\ \A i \in DOMAIN receipts : receipts[i].message \in DOMAIN messages
  /\ polls \in [Session -> [since : 0 .. Len(receipts), shown : SUBSET (DOMAIN receipts)]]

Active(a) == agents[a] # Nothing /\ agents[a].isActive

AgentNamed(n) ==
  IF \E a \in Agent : agents[a] # Nothing /\ agents[a].name = n
  THEN CHOOSE a \in Agent : agents[a] # Nothing /\ agents[a].name = n
  ELSE Nothing

InboxInit ==
  /\ agents \in [Agent -> {Nothing} \cup [name : Name, isActive : {TRUE}]]
  /\ \A a, b \in Agent : a # b /\ agents[a] # Nothing /\ agents[b] # Nothing
                           => agents[a].name # agents[b].name
  /\ allowedAgentIds = {a \in Agent : agents[a] # Nothing}
  /\ allowedOrchestrators = {agents[a].name : a \in allowedAgentIds}
  /\ messages = <<>> /\ receipts = <<>>
  /\ polls = [s \in Session |-> [since |-> 0, shown |-> {}]]

-----------------------------------------------------------------------------
(* Sending.                                                                *)

RoleOf(n) == [n EXCEPT !.suffix = Nothing]

\* A name with a "-" is an instance: its receipt is its role's.
NameReceipt(n) ==
  [recipient |-> RoleOf(n), recipientId |-> AgentNamed(RoleOf(n)),
   instance |-> IF n.suffix = Nothing THEN Nothing ELSE n]

IdReceipt(a) == [recipient |-> agents[a].name, recipientId |-> a, instance |-> Nothing]

\* One message and the receipts of its recipients, in one transaction.
InsertMessage(size, recipients) ==
  /\ messages' = Append(messages, [size |-> size, gone |-> FALSE])
  /\ receipts' = receipts \o [i \in DOMAIN recipients |->
       [message |-> Len(messages) + 1, recipient |-> recipients[i].recipient,
        recipientId |-> recipients[i].recipientId, instance |-> recipients[i].instance,
        read |-> FALSE, gone |-> FALSE]]
  /\ UNCHANGED <<agents, allowedOrchestrators, allowedAgentIds, polls>>

Known(n) == \E p \in Profile : n \in {p.orchestratorId, p.instanceId}

OnRoster(n) == n \in allowedOrchestrators

Admitted(n) ==
  \E p \in Profile : n \in {p.orchestratorId, p.instanceId} /\ OnRoster(p.orchestratorId)

\* The positions in K, in their order.
InOrder(K) == {f \in [1 .. Cardinality(K) -> K] : \A i, j \in DOMAIN f : i < j => f[i] < f[j]}

\* To every part of the recipient but the sender.
SendByName(a, parts, size) ==
  LET others == {i \in DOMAIN parts : parts[i] # agents[a].name}
  IN /\ Active(a) /\ others # {}
     /\ \A i \in others : Admitted(parts[i])
     /\ \E at \in InOrder(others) :
          InsertMessage(size, [i \in DOMAIN at |-> NameReceipt(parts[at[i]])])

\* All the IDs must be addressable, the sender's too.
SendByIds(a, ids, size) ==
  /\ Active(a) /\ ids \ {a} # {}
  /\ \A b \in ids : Active(b) /\ b \in allowedAgentIds
  /\ LET to == SetToSeq(ids \ {a}) IN InsertMessage(size, [i \in DOMAIN to |-> IdReceipt(to[i])])

Broadcast(a, size) ==
  LET ids == {b \in allowedAgentIds \ {a} : Active(b)}
      to == SetToSeq(ids)
  IN /\ Active(a) /\ ids # {}
     /\ InsertMessage(size, [i \in DOMAIN to |-> IdReceipt(to[i])])

-----------------------------------------------------------------------------
(* Reading.                                                                *)

\* An agent reader owns a receipt by its ID and nothing else; another
\* instance's is not shown to it.
Owns(s, i) ==
  /\ receipts[i].recipientId = s.agent
  /\ s.instance # Nothing => receipts[i].instance \in {Nothing, s.instance}

Unread(s) ==
  {i \in DOMAIN receipts : ~receipts[i].read /\ ~receipts[i].gone /\ Owns(s, i)}

Bytes(page) ==
  LET upTo[n \in 0 .. Len(receipts)] ==
        IF n = 0 THEN 0
        ELSE upTo[n - 1] + (IF n \in page THEN messages[receipts[n].message].size ELSE 0)
  IN upTo[Len(receipts)]

\* The oldest unread receipts after the cursor, one more than a page holds.
Fetched(s) ==
  LET after == {i \in Unread(s) : i > polls[s].since}
  IN {i \in after : Cardinality({j \in after : j < i}) <= Limit}

UpTo(kept, i) == {j \in kept : j <= i}

\* Variant: a message too large for a page is not put in it.
FitsWhole(kept, i) == Cardinality(UpTo(kept, i)) <= Limit /\ Bytes(UpTo(kept, i)) <= MaxBytes

\* As many messages as the limit and the bytes allow, and always one.
Fits(kept, i) ==
  /\ Cardinality(UpTo(kept, i)) <= Limit
  /\ UpTo(kept, i) = {i} \/ Bytes(UpTo(kept, i)) <= MaxBytes

\* A receipt that was fetched is left to the next page: the count was reached
\* or, where its message is still there, the bytes.
Cut(fetched, page) ==
  /\ page # {}
  /\ \E i \in fetched :
       /\ \A j \in page : j < i
       /\ Cardinality(page) = Limit \/ ~messages[receipts[i].message].gone

\* Variant: the next page goes on after the receipt the page was cut at.
NextSinceOver(fetched, page) ==
  IF Cut(fetched, page) THEN Min({i \in fetched : \A j \in page : j < i}) ELSE 0

\* The next page goes on after the last receipt of a page that was cut.
NextSince(fetched, page) == IF Cut(fetched, page) THEN Max(page) ELSE 0

\* The receipts fetched are bound once: every page is cut from the same ones.
CheckMessages(s) ==
  /\ Active(s.agent)
  /\ \E fetched \in {Fetched(s)} :
       LET kept == {i \in fetched : ~messages[receipts[i].message].gone}
           page == {i \in kept : Fits(kept, i)}
       IN polls' = [polls EXCEPT ![s] = [since |-> NextSince(fetched, page), shown |-> page]]
  /\ UNCHANGED <<agents, allowedOrchestrators, allowedAgentIds, messages, receipts>>

\* All of the receipts or none; the instance is not looked at, and one that is
\* gone is passed over.
MarkAsRead(a, R) ==
  /\ Active(a)
  /\ \A i \in R : ~receipts[i].gone => receipts[i].recipientId = a
  /\ receipts' = [i \in DOMAIN receipts |->
       [receipts[i] EXCEPT !.read = @ \/ (i \in R /\ ~receipts[i].gone)]]
  /\ UNCHANGED <<agents, allowedOrchestrators, allowedAgentIds, messages, polls>>

\* A signed-in member marks receipts by their labels, of its roster.
MemberMarks(R) ==
  /\ \A i \in R : ~receipts[i].gone => OnRoster(receipts[i].recipient)
  /\ receipts' = [i \in DOMAIN receipts |->
       [receipts[i] EXCEPT !.read = @ \/ (i \in R /\ ~receipts[i].gone)]]
  /\ UNCHANGED <<agents, allowedOrchestrators, allowedAgentIds, messages, polls>>

\* Variant: the receipts stay.
CascadeNothing(m) == receipts

\* The receipts of message m once it is deleted.
Cascade(m) ==
  [i \in DOMAIN receipts |-> [receipts[i] EXCEPT !.gone = @ \/ receipts[i].message = m]]

\* By its sender, or an administrator.
DeleteMessage(m) ==
  /\ ~messages[m].gone
  /\ messages' = [messages EXCEPT ![m].gone = TRUE]
  /\ receipts' = Cascade(m)
  /\ UNCHANGED <<agents, allowedOrchestrators, allowedAgentIds, polls>>

-----------------------------------------------------------------------------
(* The doors of an agent.                                                  *)

NameFree(a, n) == AgentNamed(n) \in {a, Nothing}

RegisterAgent(a, n) ==
  /\ agents[a] = Nothing /\ NameFree(a, n)
  /\ agents' = [agents EXCEPT ![a] = [name |-> n, isActive |-> TRUE]]
  /\ UNCHANGED <<allowedOrchestrators, allowedAgentIds, messages, receipts, polls>>

\* Append only: the ID, and the name the agent has now.
AppendToRoster(a) ==
  /\ Active(a)
  /\ allowedAgentIds' = allowedAgentIds \cup {a}
  /\ allowedOrchestrators' = allowedOrchestrators \cup {agents[a].name}
  /\ UNCHANGED <<agents, messages, receipts, polls>>

DeactivateAgent(a) ==
  /\ Active(a) /\ agents' = [agents EXCEPT ![a].isActive = FALSE]
  /\ UNCHANGED <<allowedOrchestrators, allowedAgentIds, messages, receipts, polls>>

ReactivateAgent(a) ==
  /\ agents[a] # Nothing /\ ~Active(a) /\ agents' = [agents EXCEPT ![a].isActive = TRUE]
  /\ UNCHANGED <<allowedOrchestrators, allowedAgentIds, messages, receipts, polls>>

\* The rosters keep the old name.
RenameAgent(a, n) ==
  /\ agents[a] # Nothing /\ NameFree(a, n)
  /\ agents' = [agents EXCEPT ![a].name = n]
  /\ UNCHANGED <<allowedOrchestrators, allowedAgentIds, messages, receipts, polls>>

\* A step of anyone who writes, reads, deletes, or manages an agent.
InboxNext ==
  \/ \E a \in Agent, size \in Nat :
       \/ \E parts \in Seq(Name) : SendByName(a, parts, size)
       \/ \E ids \in SUBSET Agent : SendByIds(a, ids, size)
       \/ Broadcast(a, size)
  \/ \E s \in Session : CheckMessages(s)
  \/ \E R \in SUBSET DOMAIN receipts : MemberMarks(R) \/ \E a \in Agent : MarkAsRead(a, R)
  \/ \E m \in DOMAIN messages : DeleteMessage(m)
  \/ \E a \in Agent :
       \/ \E n \in Name : RegisterAgent(a, n) \/ RenameAgent(a, n)
       \/ AppendToRoster(a) \/ DeactivateAgent(a) \/ ReactivateAgent(a)

-----------------------------------------------------------------------------
\* A receipt goes with its message, and with nothing else.
ReceiptsFollow ==
  \A i \in DOMAIN receipts : receipts[i].gone <=> messages[receipts[i].message].gone

\* A session that keeps asking for the next page, and starts again at the end
\* of the inbox, is shown each of its unread receipts, however many stay unread
\* in front of it, however large one is and whatever is deleted meanwhile.
MailServed ==
  \A s \in Session, i \in 1 .. MaxReceipts :
    (i \in DOMAIN receipts /\ Active(s.agent) /\ i \in Unread(s))
      ~> (i \in polls[s].shown \/ i \notin Unread(s) \/ ~Active(s.agent))
=============================================================================
