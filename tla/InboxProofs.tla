------------------------------ MODULE InboxProofs ------------------------------
(***************************************************************************)
(* Proofs about Inbox, for any number of events, messages, rooms and lives *)
(* of the worker, with or without NATS, and for all failures: where each   *)
(* message is, in which order it is handled, what answers a question, and  *)
(* that the HTTP path is a Mailbox.                                        *)
(***************************************************************************)
EXTENDS Inbox, SequenceTheorems, WellFoundedInduction, TLAPS

(* The agent holds its ticket's own conversation, and not one of the chat loop. *)
AtTask ==
    \/ agent.pc = "task"
    \/ agent.pc \in {"tool", "posting", "asking", "answer"} /\ agent.back = "task"

(* What the agent has in hand where: nothing of the chat loop before it, and an *)
(* answer on its way only while a drain is awaited.                             *)
HandInv ==
    /\ agent.pc = "off" => agent = Off
    /\ AtTask \/ agent.pc \in {"poll", "response"} => agent.http = {} /\ agent.nats = {}
    /\ agent.pc \notin {"response", "tool", "answer"} => agent.flight = {}

TypeInv ==
    /\ TypeOK /\ HandInv
    /\ Len(timeline) <= MaxEvents
    /\ agent.nats \subseteq DOMAIN mail /\ agent.since <= Len(mail) + 1

(* Along either path the messages are in the order they were pushed: handled,   *)
(* in the loop's hand or drained for it, still to come.                         *)
Before(S, T) == \A m \in S, n \in T : m < n
Loop == agent.http \cup (IF agent.pc = "response" THEN agent.flight ELSE {})

HttpOrder ==
    /\ Before(Handled("http"), Loop \cup inbox)
    /\ Before(Loop, inbox)

NatsOrder ==
    /\ Before(Handled("nats"), agent.nats \cup queue \cup wire)
    /\ Before(agent.nats, queue \cup wire)
    /\ Before(queue, wire)

OrderInv ==
    /\ Handled("http") \cup Handled("nats") \subseteq DOMAIN mail
    /\ HttpOrder /\ NatsOrder /\ OncePerPath

(* A question that is being posted will be listed, or is.                       *)
Visible == pending \/ Len(mail) >= agent.since \/ rooms \notin mapped
QuestionInv ==
    /\ agent.pc = "posting" => asked \/ Visible
    /\ agent.pc \in {"asking", "answer"} => Visible

(* What a waiting question has drained is not older than it.                    *)
AnswerInv == agent.pc = "answer" => \A m \in agent.flight : m >= agent.since

-----------------------------------------------------------------------------
(* The parts of the type.                                                       *)
ListenerTyped ==
    /\ timeline \in Seq(Event) /\ Len(timeline) <= MaxEvents
    /\ token \in Nat \cup {None}
    /\ listener \in {"off", "init", "poll", "events"}
    /\ batch \subseteq DOMAIN timeline
    /\ again \subseteq executed /\ executed \subseteq DOMAIN timeline
TicketTyped ==
    /\ rooms \in 0 .. MaxRooms /\ mapped \subseteq 1 .. rooms
    /\ registered \in BOOLEAN /\ pending \in BOOLEAN /\ asked \in BOOLEAN
MailTyped ==
    /\ mail \in Seq(Mail) /\ Len(mail) <= MaxMail
    /\ inbox \subseteq DOMAIN mail /\ wire \subseteq DOMAIN mail /\ queue \subseteq DOMAIN mail
AgentTyped == agent \in Agent /\ HandInv /\ agent.nats \subseteq DOMAIN mail /\ agent.since <= Len(mail) + 1
LogTyped == log \in [Path -> Seq(Stamp)]

LEMMA TypeParts ==
    TypeInv <=> ListenerTyped /\ TicketTyped /\ MailTyped /\ AgentTyped /\ LogTyped
  BY DEF TypeInv, TypeOK, ListenerTyped, TicketTyped, MailTyped, AgentTyped, LogTyped

LEMMA Bounds == MaxEvents \in Nat /\ MaxMail \in Nat /\ MaxRooms \in Nat
  BY BoundsAssumption

(* A set of messages that is not empty has a first and a last one.              *)
LEMMA FirstExists ==
    ASSUME NEW S \in SUBSET Nat, S # {}
    PROVE  First(S) \in S /\ \A n \in S : First(S) <= n
  <1>1. PICK m \in S : \A n \in S : ~ <<n, m>> \in OpToRel(<, Nat)
    BY NatLessThanWellFounded, WFMin
  <1>2. ASSUME NEW n \in S, n < m PROVE FALSE
    <2>1. <<n, m>> \in OpToRel(<, Nat)
      BY <1>2 DEF OpToRel
    <2> QED BY <1>1, <2>1
  <1>3. \A n \in S : m <= n
    BY <1>2
  <1> QED BY <1>3 DEF First

LEMMA LastExists ==
    ASSUME NEW S \in SUBSET Stamp, S # {}
    PROVE  Last(S) \in S /\ \A n \in S : n <= Last(S)
  <1> DEFINE T == {MaxMail - m : m \in S}
  <1>0. MaxMail \in Nat /\ \A m \in S : m \in Nat /\ m <= MaxMail
    BY Bounds DEF Stamp
  <1>1. T \in SUBSET Nat /\ T # {}
    BY <1>0
  <1>2. First(T) \in T /\ \A n \in T : First(T) <= n
    BY <1>1, FirstExists
  <1>3. PICK m \in S : First(T) = MaxMail - m
    BY <1>2
  <1>4. ASSUME NEW n \in S PROVE n <= m
    <2>1. MaxMail - n \in T
      OBVIOUS
    <2>2. MaxMail - m <= MaxMail - n
      BY <1>2, <1>3, <2>1
    <2> QED BY <1>0, <2>2
  <1> QED BY <1>4 DEF Last

(* Messages that meet their fate stay where they are in mail.                   *)
LEMMA MetProperties ==
    ASSUME mail \in Seq(Mail), NEW S, NEW fate \in Fate
    PROVE  /\ Met(S, fate) \in Seq(Mail) /\ Len(Met(S, fate)) = Len(mail)
           /\ DOMAIN Met(S, fate) = DOMAIN mail
           /\ \A m \in DOMAIN mail :
                 Met(S, fate)[m] = [mail[m] EXCEPT !.fate = IF m \in S THEN fate ELSE @]
  <1>1. \A m \in DOMAIN mail : Met(S, fate)[m] \in Mail
    <2>1. ASSUME NEW m \in DOMAIN mail PROVE mail[m] \in Mail
      BY ElementOfSeq
    <2>2. ASSUME NEW m \in DOMAIN mail PROVE [mail[m] EXCEPT !.fate = fate] \in Mail
      BY <2>1 DEF Mail
    <2> QED BY <2>1, <2>2 DEF Met
  <1>2. DOMAIN Met(S, fate) = 1 .. Len(mail) /\ Len(mail) \in Nat
    BY DEF Met
  <1>3. Met(S, fate) \in [1 .. Len(mail) -> Mail]
    BY <1>1, <1>2 DEF Met
  <1>4. Met(S, fate) \in Seq(Mail) /\ Len(Met(S, fate)) = Len(mail)
    BY <1>2, <1>3, SeqDef
  <1>5. ASSUME NEW m \in DOMAIN mail
        PROVE  Met(S, fate)[m] = [mail[m] EXCEPT !.fate = IF m \in S THEN fate ELSE @]
    <2>1. mail[m] \in Mail
      BY ElementOfSeq
    <2>2. mail[m] = [mail[m] EXCEPT !.fate = mail[m].fate]
      BY <2>1 DEF Mail
    <2> QED BY <2>2 DEF Met
  <1> QED BY <1>2, <1>4, <1>5

-----------------------------------------------------------------------------
(* What each action leaves alone.                                               *)
LEMMA WorkerFrame == Worker => UNCHANGED <<timeline, token, listener, batch, executed, again>>
  <1> USE DEF listenerVars
  <1>1. Spawn \/ Crash \/ TaskEnds \/ ChatPoll \/ Response => UNCHANGED listenerVars
    BY DEF Spawn, Crash, TaskEnds, ChatPoll, Response
  <1>2. HandleNext \/ HandledAll \/ ChatEnds \/ ToolPoll \/ ToolReturns => UNCHANGED listenerVars
    BY DEF HandleNext, Handle, HandledAll, ChatEnds, ToolPoll, ToolReturns
  <1>3. Ask \/ Posted \/ PostFails \/ AskPoll \/ Answered \/ NoAnswer \/ AskTimesOut \/ Arrive
           => UNCHANGED listenerVars
    BY DEF Ask, Posted, PostFails, AskPoll, Answered, NoAnswer, AskTimesOut, Returns, Arrive
  <1> QED BY <1>1, <1>2, <1>3 DEF Worker

(* The events of the timeline and where the listener stands.                    *)
LEMMA StepListener == TypeInv /\ [Next]_vars => ListenerTyped'
  <1> SUFFICES ASSUME ListenerTyped, TicketTyped, [Next]_vars PROVE ListenerTyped'
    BY TypeParts
  <1> USE DEF ListenerTyped, listenerVars
  <1>1. CASE Admin
    <2>1. PICK kind \in {"chat", "slash"}, room \in 1 .. rooms : Type(kind, room)
      BY <1>1 DEF Admin
    <2>2. [kind |-> kind, room |-> room] \in Event
      BY <2>1, Bounds DEF Event, TicketTyped
    <2>3. timeline' \in Seq(Event) /\ Len(timeline') = Len(timeline) + 1 /\ Len(timeline) < MaxEvents
      BY <2>1, <2>2 DEF Type
    <2>4. Len(timeline') <= MaxEvents /\ DOMAIN timeline \subseteq DOMAIN timeline'
      BY <2>3, Bounds
    <2> QED BY <2>1, <2>3, <2>4 DEF Type
  <1>2. CASE Orchestrator
    <2>1. CASE StartListening \/ InitialSync \/ HandlerThrows \/ Restart
      BY <2>1 DEF StartListening, InitialSync, HandlerThrows, Restart
    <2>2. CASE Poll
      BY <2>2 DEF Poll, Window
    <2>3. CASE HandleEvent
      BY <2>3 DEF HandleEvent
    <2>4. CASE AdminCommand \/ RegisterQuestion \/ KillWorker
      BY <2>4 DEF AdminCommand, RegisterQuestion, KillWorker
    <2> QED BY <1>2, <2>1, <2>2, <2>3, <2>4 DEF Orchestrator
  <1>3. CASE Worker
    BY <1>3, WorkerFrame
  <1>4. CASE UNCHANGED vars
    BY <1>4 DEF vars
  <1> QED BY <1>1, <1>2, <1>3, <1>4 DEF Next

(* The ticket: its rooms, its entry and its question.                           *)
LEMMA StepTicket == TypeInv /\ [Next]_vars => TicketTyped'
  <1> SUFFICES ASSUME TicketTyped, [Next]_vars PROVE TicketTyped'
    BY TypeParts
  <1> USE Bounds DEF TicketTyped, ticketVars, questionVars
  <1>1. CASE Admin
    BY <1>1 DEF Admin, Type
  <1>2. CASE Orchestrator
    <2>1. CASE StartListening \/ InitialSync \/ Poll \/ HandlerThrows
      BY <2>1 DEF StartListening, InitialSync, Poll, HandlerThrows
    <2>2. CASE HandleEvent
      BY <2>2 DEF HandleEvent, Push, Ignored
    <2>3. CASE AdminCommand \/ RegisterQuestion
      BY <2>3 DEF AdminCommand, Push, RegisterQuestion
    <2>4. CASE Restart \/ KillWorker
      BY <2>4 DEF Restart, KillWorker
    <2> QED BY <1>2, <2>1, <2>2, <2>3, <2>4 DEF Orchestrator
  <1>3. CASE Worker
    <2>1. CASE Spawn
      BY <2>1 DEF Spawn
    <2>2. CASE Crash \/ TaskEnds \/ ChatPoll \/ Response
      BY <2>2 DEF Crash, TaskEnds, ChatPoll, Response
    <2>3. CASE HandleNext \/ HandledAll \/ ChatEnds \/ ToolPoll \/ ToolReturns
      BY <2>3 DEF HandleNext, Handle, HandledAll, ChatEnds, ToolPoll, ToolReturns
    <2>4. CASE Ask \/ Posted \/ PostFails \/ AskPoll \/ Answered \/ NoAnswer \/ AskTimesOut \/ Arrive
      BY <2>4 DEF Ask, Posted, PostFails, AskPoll, Answered, NoAnswer, AskTimesOut, Returns, Arrive
    <2> QED BY <1>3, <2>1, <2>2, <2>3, <2>4 DEF Worker
  <1>4. CASE UNCHANGED vars
    BY <1>4 DEF vars
  <1> QED BY <1>1, <1>2, <1>3, <1>4 DEF Next

(* A push appends one message, that waits.                                      *)
LEMMA PushProperties ==
    ASSUME MailTyped, NEW kind \in {"chat", "command"}, NEW id \in 1 .. MaxEvents + MaxMail, Push(kind, id)
    PROVE  /\ mail' \in Seq(Mail) /\ Len(mail') = Len(mail) + 1 /\ Len(mail') <= MaxMail
           /\ DOMAIN mail = 1 .. Len(mail) /\ DOMAIN mail' = 1 .. Len(mail) + 1
           /\ \A m \in DOMAIN mail : mail'[m] = mail[m]
           /\ mail'[Len(mail) + 1].fate = "waiting"
           /\ inbox' = inbox \cup {Len(mail) + 1} /\ wire' \subseteq wire \cup {Len(mail) + 1}
           /\ pending' = FALSE
  <1> DEFINE new == [kind |-> kind, id |-> id, fate |-> "waiting"]
  <1>1. new \in Mail /\ new.fate = "waiting"
    BY DEF Mail, Fate
  <1>2. mail' = Append(mail, new) /\ Len(mail) < MaxMail /\ mail \in Seq(Mail)
    BY DEF Push, MailTyped
  <1> HIDE DEF new
  <1>3. /\ mail' \in Seq(Mail) /\ Len(mail') = Len(mail) + 1 /\ Len(mail) \in Nat
        /\ \A m \in 1 .. Len(mail) : mail'[m] = mail[m]
        /\ mail'[Len(mail) + 1] = new
    BY <1>1, <1>2, AppendProperties, LenProperties
  <1> QED BY <1>1, <1>2, <1>3, Bounds, LenProperties DEF Push

(* The two pushes: an event of the batch, and a command with an id of its own.  *)
LEMMA Pushes ==
    ASSUME TypeInv, HandleEvent \/ AdminCommand
    PROVE  \/ UNCHANGED <<mail, inbox, wire, pending>>
           \/ \E kind \in {"chat", "command"}, id \in 1 .. MaxEvents + MaxMail : Push(kind, id)
  <1>1. CASE HandleEvent
    <2>1. ASSUME NEW p \in batch PROVE p \in 1 .. MaxEvents + MaxMail
      BY TypeParts, Bounds DEF ListenerTyped
    <2> QED BY <1>1, <2>1 DEF HandleEvent, Ignored, boxVars
  <1>2. CASE AdminCommand
    <2>1. Len(mail) \in Nat /\ Len(mail) < MaxMail
      BY <1>2, TypeParts DEF AdminCommand, Push, MailTyped
    <2>2. MaxEvents + Len(mail) + 1 \in 1 .. MaxEvents + MaxMail
      BY <2>1, Bounds
    <2> QED BY <1>2, <2>2 DEF AdminCommand
  <1> QED BY <1>1, <1>2

(* Messages that meet their fate are as many as before.                         *)
LEMMA FatedKeeps ==
    ASSUME MailTyped, \/ UNCHANGED mail
                      \/ \E S : \E fate \in Fate : mail' = Met(S, fate)
    PROVE  mail' \in Seq(Mail) /\ Len(mail') = Len(mail) /\ DOMAIN mail' = DOMAIN mail
  BY MetProperties DEF MailTyped

(* The last message of an answer, and what becomes of all of them.              *)
LEMMA AnsweredFates ==
    ASSUME MailTyped, AgentTyped, Answered
    PROVE  /\ agent.flight \subseteq Stamp /\ Last(agent.flight) \in agent.flight
           /\ mail' \in Seq(Mail) /\ Len(mail') = Len(mail) /\ DOMAIN mail' = DOMAIN mail
           /\ \A m \in DOMAIN mail :
                 mail'[m].fate = IF m = Last(agent.flight) THEN "answer"
                                 ELSE IF m \in agent.flight THEN "superseded" ELSE mail[m].fate
  <1> DEFINE last == Last(agent.flight)
             met == Met(agent.flight, "superseded")
  <1>1. agent.flight \subseteq Stamp /\ agent.flight # {} /\ mail' = [met EXCEPT ![last].fate = "answer"]
    BY DEF Answered, AgentTyped, Agent
  <1>2. last \in agent.flight
    BY <1>1, LastExists
  <1>3. /\ met \in Seq(Mail) /\ Len(met) = Len(mail) /\ DOMAIN met = DOMAIN mail
        /\ \A m \in DOMAIN mail :
              met[m] = [mail[m] EXCEPT !.fate = IF m \in agent.flight THEN "superseded" ELSE @]
    BY MetProperties DEF MailTyped, Fate
  <1> HIDE DEF met, last
  <1>4. DOMAIN mail' = DOMAIN met /\ DOMAIN met = 1 .. Len(mail) /\ Len(mail) \in Nat
    BY <1>1, <1>3, LenProperties
  <1>5. ASSUME NEW m \in DOMAIN mail
        PROVE  /\ mail'[m] \in Mail
               /\ mail'[m].fate = IF m = last THEN "answer"
                                  ELSE IF m \in agent.flight THEN "superseded" ELSE mail[m].fate
    <2>1. met[m] \in Mail /\ mail[m] \in Mail
      BY <1>3, <1>5, ElementOfSeq DEF MailTyped
    <2>2. met[m].fate = IF m \in agent.flight THEN "superseded" ELSE mail[m].fate
      BY <1>3, <1>5, <2>1 DEF Mail
    <2>3. CASE m = last
      <3>1. mail'[m] = [met[m] EXCEPT !.fate = "answer"]
        BY <1>1, <1>3, <1>5, <2>3
      <3> QED BY <2>1, <2>3, <3>1 DEF Mail, Fate
    <2>4. CASE m # last
      <3>1. mail'[m] = met[m]
        BY <1>1, <1>3, <1>5, <2>4
      <3> QED BY <2>1, <2>2, <2>4, <3>1
    <2> QED BY <2>3, <2>4
  <1>6. mail' \in [1 .. Len(mail) -> Mail]
    BY <1>1, <1>4, <1>3, <1>5
  <1>7. mail' \in Seq(Mail) /\ Len(mail') = Len(mail)
    BY <1>4, <1>6, SeqDef
  <1> QED BY <1>1, <1>2, <1>3, <1>4, <1>5, <1>7 DEF last

LEMMA StepMail == TypeInv /\ [Next]_vars => MailTyped' /\ Len(mail) <= Len(mail')
  <1> SUFFICES ASSUME TypeInv, MailTyped, AgentTyped, [Next]_vars PROVE MailTyped' /\ Len(mail) <= Len(mail')
    BY TypeParts
  <1>0. Len(mail) \in Nat /\ {"lost", "read", "handled"} \subseteq Fate
    BY DEF MailTyped, Fate
  <1> USE DEF boxVars, natsVars
  <1>1. ASSUME \/ UNCHANGED mail
               \/ \E S : \E fate \in Fate : mail' = Met(S, fate),
               inbox' \subseteq inbox, wire' \subseteq wire, queue' \subseteq queue \cup wire
        PROVE  MailTyped' /\ Len(mail) <= Len(mail')
    BY <1>0, <1>1, FatedKeeps DEF MailTyped
  <1>2. CASE Admin
    BY <1>1, <1>2 DEF Admin, Type
  <1>3. CASE Orchestrator
    <2>1. CASE StartListening \/ InitialSync \/ Poll \/ HandlerThrows \/ RegisterQuestion
      BY <1>1, <2>1 DEF StartListening, InitialSync, Poll, HandlerThrows, RegisterQuestion
    <2>2. CASE HandleEvent \/ AdminCommand
      <3>1. queue' = queue
        BY <2>2 DEF HandleEvent, AdminCommand
      <3>2. ASSUME NEW kind \in {"chat", "command"}, NEW id \in 1 .. MaxEvents + MaxMail, Push(kind, id)
            PROVE  MailTyped' /\ Len(mail) <= Len(mail')
        <4>1. /\ mail' \in Seq(Mail) /\ Len(mail') = Len(mail) + 1 /\ Len(mail') <= MaxMail
              /\ DOMAIN mail = 1 .. Len(mail) /\ DOMAIN mail' = 1 .. Len(mail) + 1
              /\ inbox' = inbox \cup {Len(mail) + 1} /\ wire' \subseteq wire \cup {Len(mail) + 1}
          BY <3>2, PushProperties
        <4>2. DOMAIN mail \subseteq DOMAIN mail' /\ Len(mail) + 1 \in DOMAIN mail'
          BY <1>0, <4>1
        <4> QED BY <1>0, <3>1, <4>1, <4>2 DEF MailTyped
      <3> QED BY <1>1, <2>2, <3>1, <3>2, Pushes
    <2>3. CASE Restart
      BY <1>0, <1>1, <2>3 DEF Restart
    <2>4. CASE KillWorker
      BY <1>0, <1>1, <2>4 DEF KillWorker, Dies
    <2> QED BY <1>3, <2>1, <2>2, <2>3, <2>4 DEF Orchestrator
  <1>4. CASE Worker
    <2>1. CASE Answered
      BY <1>0, <2>1, AnsweredFates DEF Answered, Returns, MailTyped
    <2>2. CASE Spawn \/ TaskEnds \/ ChatPoll \/ HandledAll \/ ChatEnds \/ ToolPoll
      BY <1>1, <2>2 DEF Spawn, TaskEnds, ChatPoll, Drain, Remaining, HandledAll, ChatEnds, ToolPoll
    <2>3. CASE Crash \/ Response \/ ToolReturns \/ NoAnswer
      BY <1>0, <1>1, <2>3 DEF Crash, Dies, Response, ToolReturns, NoAnswer
    <2>4. CASE HandleNext
      <3>1. PICK path \in Path : \E m : Handle(m, path)
        BY <2>4 DEF HandleNext, Path
      <3>2. PICK m : Handle(m, path)
        BY <3>1
      <3> QED BY <1>0, <1>1, <3>2 DEF Handle
    <2>5. CASE Ask \/ Posted \/ PostFails \/ AskPoll \/ AskTimesOut
      BY <1>1, <2>5 DEF Ask, Posted, PostFails, AskPoll, Drain, Remaining, AskTimesOut, Returns
    <2>6. CASE Arrive
      <3>1. First(wire) \in wire
        BY <2>6, FirstExists DEF Arrive, MailTyped
      <3> QED BY <1>1, <2>6, <3>1 DEF Arrive
    <2> QED BY <1>4, <2>1, <2>2, <2>3, <2>4, <2>5, <2>6 DEF Worker
  <1>5. CASE UNCHANGED vars
    BY <1>1, <1>5 DEF vars
  <1> QED BY <1>2, <1>3, <1>4, <1>5 DEF Next

(* The messages a worker meets, and where it takes them from.                   *)
LEMMA MailStamps ==
    ASSUME MailTyped
    PROVE  /\ Len(mail) \in Nat /\ DOMAIN mail = 1 .. Len(mail) /\ DOMAIN mail \subseteq Stamp
           /\ inbox \subseteq Stamp /\ wire \subseteq Stamp /\ queue \subseteq Stamp
           /\ \A m \in DOMAIN mail : mail[m] \in Mail
  <1>1. /\ Len(mail) \in Nat /\ DOMAIN mail = 1 .. Len(mail) /\ Len(mail) <= MaxMail
        /\ \A m \in DOMAIN mail : mail[m] \in Mail
    BY ElementOfSeq, LenProperties DEF MailTyped
  <1>2. DOMAIN mail \subseteq Stamp
    BY <1>1, Bounds DEF Stamp
  <1> QED BY <1>1, <1>2 DEF MailTyped

(* The loop handles the first message of HTTP, and when there is none, of NATS. *)
LEMMA HandleCases ==
    ASSUME MailTyped, AgentTyped, HandleNext
    PROVE  \/ /\ agent.http # {} /\ Handle(First(agent.http), "http")
              /\ First(agent.http) \in agent.http /\ \A n \in agent.http : First(agent.http) <= n
           \/ /\ agent.http = {} /\ agent.nats # {} /\ Handle(First(agent.nats), "nats")
              /\ First(agent.nats) \in agent.nats /\ \A n \in agent.nats : First(agent.nats) <= n
  <1>1. agent.http \in SUBSET Nat /\ agent.nats \in SUBSET Nat
    BY Bounds DEF AgentTyped, Agent, Stamp
  <1>2. CASE agent.http # {}
    BY <1>1, <1>2, FirstExists DEF HandleNext
  <1>3. CASE agent.http = {}
    <2>1. agent.nats # {} /\ Handle(First(agent.nats), "nats")
      BY <1>3 DEF HandleNext
    <2> QED BY <1>1, <1>3, <2>1, FirstExists
  <1> QED BY <1>2, <1>3

(* A message of HTTP has no event id for the filter: the loop always handles it. *)
LEMMA HttpHandled ==
    ASSUME AgentTyped, NEW m, Handle(m, "http")
    PROVE  /\ agent' = [agent EXCEPT !.http = @ \ {m}, !.pc = IF mail[m].kind = "chat" THEN "chat" ELSE "handle"]
           /\ agent.pc = "handle" /\ agent'.pc \in {"chat", "handle"} /\ agent'.since = agent.since
           /\ agent'.http = agent.http \ {m} /\ agent'.nats = agent.nats /\ agent'.flight = agent.flight
           /\ log' = [log EXCEPT !["http"] = Append(@, m)]
           /\ mail' = Met({m}, "handled")
  <1>1. None \notin agent.seen
    BY NoneAssumption, Bounds DEF AgentTyped, Agent
  <1>2. EventId(m, "http") = None
    BY DEF EventId
  <1>3. agent.seen \cup ({None} \ {None}) = agent.seen
    OBVIOUS
  <1>4. agent' = [agent EXCEPT !.http = @ \ {m}, !.seen = @ \cup ({None} \ {None}),
                               !.pc = IF mail[m].kind = "chat" THEN "chat" ELSE "handle"]
    BY <1>1, <1>2 DEF Handle
  <1>5. [agent EXCEPT !.seen = @ \cup ({None} \ {None})] = agent
    BY <1>3 DEF AgentTyped, Agent
  <1>6. agent' = [agent EXCEPT !.http = @ \ {m}, !.pc = IF mail[m].kind = "chat" THEN "chat" ELSE "handle"]
    BY <1>4, <1>5 DEF AgentTyped, Agent
  <1>7. ASSUME NEW pc \in {"chat", "handle"}, agent' = [agent EXCEPT !.http = @ \ {m}, !.pc = pc]
        PROVE  /\ agent'.pc \in {"chat", "handle"} /\ agent'.since = agent.since
               /\ agent'.http = agent.http \ {m} /\ agent'.nats = agent.nats /\ agent'.flight = agent.flight
    BY <1>7 DEF AgentTyped, Agent
  <1> QED BY <1>1, <1>2, <1>6, <1>7 DEF Handle

(* Where a tool returns to.                                                     *)
LEMMA BackProperties ==
    ASSUME AgentTyped
    PROVE  /\ Back \in Agent /\ Back.pc = agent.back /\ Back.pc \in {"task", "chat"}
           /\ Back.back = "task" /\ Back.since = 0 /\ Back.flight = {}
           /\ Back.http = agent.http /\ Back.nats = agent.nats
  <1>1. agent \in Agent /\ agent.back \in {"task", "chat"} /\ agent.back \in PC /\ 0 \in 0 .. MaxMail + 1
    BY Bounds DEF AgentTyped, Agent, PC
  <1>2. Back = [agent EXCEPT !.pc = agent.back, !.back = "task", !.since = 0, !.flight = {}]
    BY DEF Back
  <1>3. Back \in Agent
    BY <1>1, <1>2 DEF Agent
  <1> QED BY <1>1, <1>2, <1>3 DEF Agent

(* Where the worker is, and what it holds.                                      *)
LEMMA StepAgent == TypeInv /\ [Next]_vars => AgentTyped'
  <1> SUFFICES ASSUME TypeInv, MailTyped, AgentTyped, [Next]_vars PROVE AgentTyped'
    BY TypeParts
  <1>0. Len(mail) \in Nat /\ Len(mail') \in Nat /\ Len(mail) <= Len(mail') /\ Len(mail) <= MaxMail
        /\ agent.since \in Nat /\ DOMAIN mail \subseteq DOMAIN mail'
    <2>1. /\ Len(mail) \in Nat /\ Len(mail') \in Nat /\ Len(mail) <= Len(mail') /\ Len(mail) <= MaxMail
          /\ DOMAIN mail = 1 .. Len(mail) /\ DOMAIN mail' = 1 .. Len(mail')
      BY StepMail, MailStamps, LenProperties DEF MailTyped
    <2> QED BY <2>1, Bounds DEF AgentTyped, Agent
  <1> USE Bounds DEF PC
  <1>1. ASSUME UNCHANGED agent PROVE AgentTyped'
    BY <1>0, <1>1 DEF AgentTyped, HandInv, AtTask, Agent
  <1>2. ASSUME agent' = Off PROVE AgentTyped'
    BY <1>0, <1>2 DEF AgentTyped, HandInv, AtTask, Agent, Off
  <1>2a. ASSUME agent' = Back, agent.pc \in {"tool", "posting", "asking", "answer"} PROVE AgentTyped'
    BY <1>0, <1>2a, BackProperties DEF AgentTyped, HandInv, AtTask
  <1>3. CASE Admin
    BY <1>1, <1>3 DEF Admin, Type
  <1>4. CASE Orchestrator
    <2>1. CASE StartListening \/ InitialSync \/ Poll \/ HandleEvent \/ HandlerThrows
      BY <1>1, <2>1 DEF StartListening, InitialSync, Poll, HandleEvent, HandlerThrows
    <2>2. CASE AdminCommand \/ RegisterQuestion
      BY <1>1, <2>2 DEF AdminCommand, RegisterQuestion
    <2>3. CASE Restart
      <3>1. CASE agent' = agent
        BY <1>1, <3>1
      <3>2. CASE agent.pc = "posting" /\ agent' = Back
        BY <1>2a, <3>2
      <3> QED BY <2>3, <3>1, <3>2 DEF Restart
    <2>4. CASE KillWorker
      BY <1>2, <2>4 DEF KillWorker, Dies
    <2> QED BY <1>4, <2>1, <2>2, <2>3, <2>4 DEF Orchestrator
  <1>5. CASE Worker
    <2> USE DEF AgentTyped, HandInv, AtTask
    <2>0. agent \in Agent
      OBVIOUS
    <2>1. CASE Spawn
      <3>1. /\ agent' \in Agent /\ agent'.pc = "task" /\ agent'.flight = {} /\ agent'.http = {}
            /\ agent'.nats = {} /\ agent'.since = 0
        BY <2>1 DEF Spawn, Off, Agent
      <3> QED BY <1>0, <3>1
    <2>2. CASE Crash
      BY <1>2, <2>2 DEF Crash, Dies
    <2>3. CASE TaskEnds
      <3>1. /\ agent' \in Agent /\ agent'.pc = "poll" /\ agent.pc = "task" /\ agent'.flight = agent.flight
            /\ agent'.http = agent.http /\ agent'.nats = agent.nats /\ agent'.since = agent.since
        BY <2>0, <2>3, NatsAssumption DEF TaskEnds, Agent
      <3> QED BY <1>0, <3>1
    <2>4. CASE ChatPoll
      <3>1. /\ agent' \in Agent /\ agent'.pc = "response" /\ agent.pc = "poll"
            /\ agent'.http = agent.http /\ agent'.nats = agent.nats /\ agent'.since = agent.since
        BY <2>0, <2>4, MailStamps DEF ChatPoll, Drain, Agent
      <3> QED BY <1>0, <3>1
    <2>5. CASE Response
      <3>1. /\ agent' \in Agent /\ agent'.pc = "handle" /\ agent'.flight = {} /\ agent'.since = agent.since
        <4>1. PICK http \in {agent.flight, {}} :
                  agent' = [agent EXCEPT !.pc = "handle", !.flight = {}, !.nats = queue, !.http = http]
          BY <2>5 DEF Response
        <4>2. http \in SUBSET Stamp /\ queue \in SUBSET Stamp
          BY <2>0, MailStamps DEF Agent
        <4> QED BY <2>0, <4>1, <4>2 DEF Agent
      <3>2. agent'.nats \subseteq DOMAIN mail
        BY <2>0, <2>5 DEF Response, Agent, MailTyped
      <3> QED BY <1>0, <3>1, <3>2
    <2>6. CASE HandleNext
      <3>1. CASE Handle(First(agent.http), "http")
        <4>1. /\ agent' \in Agent /\ agent'.pc \in {"chat", "handle"} /\ agent.pc = "handle"
              /\ agent'.flight = agent.flight /\ agent'.since = agent.since
              /\ agent'.nats \subseteq agent.nats
          <5>1. PICK m : m = First(agent.http)
            OBVIOUS
          <5>2. /\ agent' = [agent EXCEPT !.http = @ \ {m}, !.pc = IF mail[m].kind = "chat" THEN "chat" ELSE "handle"]
                /\ agent.pc = "handle"
            BY <3>1, <5>1, HttpHandled DEF Handle
          <5> QED BY <2>0, <5>2 DEF Agent
        <4> QED BY <1>0, <4>1
      <3>2. ASSUME NEW m \in agent.nats, Handle(m, "nats") PROVE AgentTyped'
        <4>1. mail[m].id \in 1 .. MaxEvents + MaxMail
          BY <3>2, MailStamps DEF Mail, Agent
        <4>2. agent.seen \cup ({mail[m].id} \ {None}) \subseteq 1 .. MaxEvents + MaxMail
          BY <2>0, <4>1 DEF Agent
        <4>3. /\ agent' \in Agent /\ agent'.pc \in {"chat", "handle"} /\ agent.pc = "handle"
              /\ agent'.flight = agent.flight /\ agent'.since = agent.since
              /\ agent'.nats \subseteq agent.nats
          <5> DEFINE seen == agent.seen \cup ({mail[m].id} \ {None})
                     pc == IF mail[m].kind = "chat" THEN "chat" ELSE "handle"
          <5>1. EventId(m, "nats") = mail[m].id
            BY DEF EventId
          <5>2. \/ agent' = [agent EXCEPT !.nats = @ \ {m}]
                \/ agent' = [agent EXCEPT !.nats = @ \ {m}, !.seen = seen, !.pc = pc]
            BY <2>0, <3>2, <5>1 DEF Handle, Agent
          <5>3. agent.pc = "handle" /\ agent.nats \ {m} \in SUBSET Stamp
            BY <2>0, <3>2 DEF Handle, Agent
          <5>4. seen \in SUBSET (1 .. MaxEvents + MaxMail) /\ pc \in {"chat", "handle"}
            BY <4>2
          <5> HIDE DEF seen, pc
          <5>5. CASE agent' = [agent EXCEPT !.nats = @ \ {m}]
            BY <2>0, <5>3, <5>5 DEF Agent
          <5>6. CASE agent' = [agent EXCEPT !.nats = @ \ {m}, !.seen = seen, !.pc = pc]
            BY <2>0, <5>3, <5>4, <5>6 DEF Agent
          <5> QED BY <5>2, <5>5, <5>6
        <4> QED BY <1>0, <4>3
      <3> QED BY <2>6, <3>1, <3>2, HandleCases
    <2>7. CASE HandledAll \/ ChatEnds
      BY <1>0, <2>0, <2>7 DEF HandledAll, ChatEnds, Agent
    <2>8. CASE ToolPoll
      BY <1>0, <2>0, <2>8, MailStamps DEF ToolPoll, Agent
    <2>9. CASE ToolReturns \/ PostFails \/ Answered \/ AskTimesOut
      BY <1>2a, <2>9 DEF ToolReturns, PostFails, Answered, AskTimesOut, Returns
    <2>10. CASE Ask
      <3>1. mail' = mail
        BY <2>10 DEF Ask, boxVars
      <3>2. PICK since \in {Len(mail), Len(mail) + 1} :
                agent' = [agent EXCEPT !.pc = "posting", !.back = agent.pc, !.since = since]
        BY <2>10 DEF Ask
      <3>3. since \in 0 .. MaxMail + 1 /\ agent.pc \in {"task", "chat"}
        BY <1>0, <2>10 DEF Ask
      <3>4. /\ agent' \in Agent /\ agent'.pc = "posting" /\ agent'.back = agent.pc /\ agent'.since = since
            /\ agent'.flight = agent.flight /\ agent'.http = agent.http /\ agent'.nats = agent.nats
        BY <2>0, <3>2, <3>3 DEF Agent
      <3> QED BY <1>0, <3>1, <3>2, <3>3, <3>4
    <2>11. CASE Posted \/ NoAnswer
      <3>1. /\ agent' \in Agent /\ agent'.pc = "asking" /\ agent.pc \in {"posting", "answer"}
            /\ agent'.back = agent.back /\ agent'.since = agent.since
            /\ agent'.flight = {} /\ agent'.http = agent.http /\ agent'.nats = agent.nats
        BY <2>0, <2>11 DEF Posted, NoAnswer, Agent
      <3> QED BY <1>0, <3>1
    <2>12. CASE AskPoll
      BY <1>0, <2>0, <2>12, MailStamps DEF AskPoll, Drain, Since, Agent
    <2>13. CASE Arrive
      BY <1>1, <2>13 DEF Arrive
    <2> QED BY <1>5, <2>1, <2>2, <2>3, <2>4, <2>5, <2>6, <2>7, <2>8, <2>9, <2>10, <2>11, <2>12, <2>13
            DEF Worker
  <1>6. CASE UNCHANGED vars
    BY <1>1, <1>6 DEF vars
  <1> QED BY <1>3, <1>4, <1>5, <1>6 DEF Next

(* A copy that came over NATS: handled, or dropped because its id was met.      *)
LEMMA NatsHandled ==
    ASSUME AgentTyped, NEW m, Handle(m, "nats")
    PROVE  /\ agent.pc = "handle" /\ agent'.pc \in {"chat", "handle"} /\ agent'.since = agent.since
           /\ agent'.nats = agent.nats \ {m} /\ agent'.http = agent.http /\ agent'.flight = agent.flight
           /\ log' = log \/ log' = [log EXCEPT !["nats"] = Append(@, m)]
           /\ mail' = mail
  <1>1. agent \in Agent
    BY DEF AgentTyped
  <1>2. agent.pc = "handle" /\ mail' = mail /\ (log' = log \/ log' = [log EXCEPT !["nats"] = Append(@, m)])
    BY DEF Handle
  <1>3. PICK pc \in {"chat", "handle"} :
            \/ agent' = [agent EXCEPT !.nats = @ \ {m}]
            \/ \E seen : agent' = [agent EXCEPT !.nats = @ \ {m}, !.seen = seen, !.pc = pc]
    <2> DEFINE ids == agent.seen \cup ({EventId(m, "nats")} \ {None})
               next == IF mail[m].kind = "chat" THEN "chat" ELSE "handle"
    <2>1. \/ agent' = [agent EXCEPT !.nats = @ \ {m}]
          \/ agent' = [agent EXCEPT !.nats = @ \ {m}, !.seen = ids, !.pc = next]
      BY <1>1 DEF Handle, Agent
    <2>2. next \in {"chat", "handle"}
      OBVIOUS
    <2> HIDE DEF ids, next
    <2> QED BY <2>1, <2>2
  <1>4. CASE agent' = [agent EXCEPT !.nats = @ \ {m}]
    BY <1>1, <1>2, <1>4 DEF Agent
  <1>5. ASSUME NEW seen, agent' = [agent EXCEPT !.nats = @ \ {m}, !.seen = seen, !.pc = pc]
        PROVE  agent'.pc \in {"chat", "handle"} /\ agent'.since = agent.since
               /\ agent'.nats = agent.nats \ {m} /\ agent'.http = agent.http /\ agent'.flight = agent.flight
    BY <1>1, <1>3, <1>5 DEF Agent
  <1> QED BY <1>2, <1>3, <1>4, <1>5

(* The messages handled: only the chat loop adds one, along the path it came.   *)
LEMMA LogChanges ==
    ASSUME MailTyped, AgentTyped, [Next]_vars
    PROVE  \/ UNCHANGED log
           \/ /\ HandleNext /\ Handle(First(agent.http), "http")
              /\ agent.http # {} /\ First(agent.http) \in agent.http
              /\ log' = [log EXCEPT !["http"] = Append(@, First(agent.http))]
           \/ /\ HandleNext /\ Handle(First(agent.nats), "nats")
              /\ agent.http = {} /\ agent.nats # {} /\ First(agent.nats) \in agent.nats
              /\ log' = [log EXCEPT !["nats"] = Append(@, First(agent.nats))]
  <1>1. CASE Admin
    BY <1>1 DEF Admin, Type
  <1>2. CASE Orchestrator
    <2>1. CASE StartListening \/ InitialSync \/ Poll \/ HandleEvent \/ HandlerThrows
      BY <2>1 DEF StartListening, InitialSync, Poll, HandleEvent, HandlerThrows
    <2>2. CASE AdminCommand \/ RegisterQuestion \/ Restart \/ KillWorker
      BY <2>2 DEF AdminCommand, RegisterQuestion, Restart, KillWorker
    <2> QED BY <1>2, <2>1, <2>2 DEF Orchestrator
  <1>3. CASE Worker
    <2>1. CASE Spawn \/ Crash \/ TaskEnds \/ ChatPoll \/ Response
      BY <2>1 DEF Spawn, Crash, TaskEnds, ChatPoll, Response
    <2>2. CASE HandledAll \/ ChatEnds \/ ToolPoll \/ ToolReturns \/ Arrive
      BY <2>2 DEF HandledAll, ChatEnds, ToolPoll, ToolReturns, Arrive
    <2>3. CASE Ask \/ Posted \/ PostFails \/ AskPoll \/ Answered \/ NoAnswer \/ AskTimesOut
      BY <2>3 DEF Ask, Posted, PostFails, AskPoll, Answered, NoAnswer, AskTimesOut, Returns
    <2>4. CASE HandleNext
      BY <2>4, HandleCases, HttpHandled, NatsHandled
    <2> QED BY <1>3, <2>1, <2>2, <2>3, <2>4 DEF Worker
  <1>4. CASE UNCHANGED vars
    BY <1>4 DEF vars
  <1> QED BY <1>1, <1>2, <1>3, <1>4 DEF Next

LEMMA Appended ==
    ASSUME LogTyped, NEW path \in Path, NEW m \in Stamp, log' = [log EXCEPT ![path] = Append(@, m)]
    PROVE  /\ LogTyped' /\ \A other \in Path : other # path => log'[other] = log[other]
           /\ Len(log[path]) \in Nat /\ DOMAIN log[path] = 1 .. Len(log[path])
           /\ DOMAIN log'[path] = 1 .. Len(log[path]) + 1
           /\ \A i \in 1 .. Len(log[path]) : log'[path][i] = log[path][i] /\ log[path][i] \in Stamp
           /\ log'[path][Len(log[path]) + 1] = m
  <1> DEFINE longer == Append(log[path], m)
  <1>1. log[path] \in Seq(Stamp) /\ log' = [log EXCEPT ![path] = longer] /\ log'[path] = longer
    BY DEF LogTyped
  <1>2. /\ longer \in Seq(Stamp) /\ Len(longer) = Len(log[path]) + 1
        /\ \A i \in 1 .. Len(log[path]) : longer[i] = log[path][i]
        /\ longer[Len(log[path]) + 1] = m
    BY <1>1, AppendProperties
  <1>3. /\ Len(log[path]) \in Nat /\ DOMAIN log[path] = 1 .. Len(log[path])
        /\ DOMAIN longer = 1 .. Len(longer)
        /\ \A i \in 1 .. Len(log[path]) : log[path][i] \in Stamp
    BY <1>1, <1>2, LenProperties, ElementOfSeq
  <1> HIDE DEF longer
  <1>4. LogTyped' /\ \A other \in Path : other # path => log'[other] = log[other]
    BY <1>1, <1>2 DEF LogTyped
  <1> QED BY <1>1, <1>2, <1>3, <1>4

LEMMA StepLog == TypeInv /\ [Next]_vars => LogTyped'
  <1> SUFFICES ASSUME MailTyped, AgentTyped, LogTyped, [Next]_vars PROVE LogTyped'
    BY TypeParts
  <1>1. agent.http \subseteq Stamp /\ agent.nats \subseteq Stamp /\ {"http", "nats"} \subseteq Path
    BY DEF AgentTyped, Agent, Path
  <1>2. CASE UNCHANGED log
    BY <1>2 DEF LogTyped
  <1>3. CASE First(agent.http) \in agent.http /\ log' = [log EXCEPT !["http"] = Append(@, First(agent.http))]
    BY <1>1, <1>3, Appended
  <1>4. CASE First(agent.nats) \in agent.nats /\ log' = [log EXCEPT !["nats"] = Append(@, First(agent.nats))]
    BY <1>1, <1>4, Appended
  <1> QED BY <1>2, <1>3, <1>4, LogChanges

LEMMA TypeInitial == Init => TypeInv
  <1> SUFFICES ASSUME Init PROVE TypeInv
    OBVIOUS
  <1> USE Bounds
  <1>1. << >> \in Seq(Event) /\ << >> \in Seq(Mail) /\ << >> \in Seq(Stamp) /\ DOMAIN << >> = {}
        /\ Len(<< >>) = 0
    BY EmptySeq
  <1>2. ListenerTyped
    <2>1. /\ timeline = << >> /\ token = None /\ listener = "off" /\ batch = {}
          /\ again = {} /\ executed = {}
      BY DEF Init
    <2> QED BY <1>1, <2>1 DEF ListenerTyped
  <1>3. TicketTyped
    <2>1. rooms = 0 /\ mapped = {} /\ registered = FALSE /\ pending = FALSE /\ asked = FALSE
      BY DEF Init
    <2>2. registered \in BOOLEAN /\ pending \in BOOLEAN /\ asked \in BOOLEAN
      BY <2>1, Zenon
    <2>3. rooms \in 0 .. MaxRooms /\ mapped \subseteq 1 .. rooms
      BY <2>1
    <2> QED BY <2>2, <2>3 DEF TicketTyped
  <1>4. MailTyped
    BY <1>1 DEF Init, MailTyped
  <1>5. AgentTyped
    BY <1>1 DEF Init, AgentTyped, HandInv, AtTask, Off, Agent, PC
  <1>6. LogTyped
    BY <1>1 DEF Init, LogTyped
  <1> QED BY <1>2, <1>3, <1>4, <1>5, <1>6, TypeParts

LEMMA TypeStep == TypeInv /\ [Next]_vars => TypeInv'
  <1> SUFFICES ASSUME TypeInv, [Next]_vars PROVE TypeInv'
    OBVIOUS
  <1>1. ListenerTyped' /\ TicketTyped' /\ MailTyped' /\ AgentTyped' /\ LogTyped'
    BY StepListener, StepTicket, StepMail, StepAgent, StepLog
  <1> QED BY <1>1, TypeParts DEF TypeInv, TypeOK, ListenerTyped, TicketTyped, MailTyped, AgentTyped, LogTyped

LEMMA TypeInvariance == Spec => []TypeInv
  BY TypeInitial, TypeStep, PTL DEF Spec

(* Every variable keeps its type, for all failures and any number of lives of   *)
(* the worker: the mail, the answers on their way, the log by path.             *)
THEOREM InboxTypeCorrect == Spec => []TypeOK
  <1>1. TypeInv => TypeOK
    BY DEF TypeInv
  <1> QED BY <1>1, TypeInvariance, PTL

-----------------------------------------------------------------------------
(* The messages that wait: a push adds one, a fate takes those that meet it.    *)
LEMMA WaitingMet ==
    ASSUME MailTyped, NEW S, NEW fate \in Fate, fate # "waiting", mail' = Met(S, fate)
    PROVE  Waiting' = Waiting \ S
  <1>1. /\ DOMAIN mail' = DOMAIN mail
        /\ \A m \in DOMAIN mail : mail'[m] = [mail[m] EXCEPT !.fate = IF m \in S THEN fate ELSE @]
    BY MetProperties DEF MailTyped
  <1>2. ASSUME NEW m \in DOMAIN mail
        PROVE  mail'[m].fate = IF m \in S THEN fate ELSE mail[m].fate
    <2>1. mail[m] \in Mail
      BY MailStamps
    <2> QED BY <1>1, <2>1 DEF Mail
  <1> QED BY <1>1, <1>2 DEF Waiting

LEMMA WaitingPush ==
    ASSUME MailTyped, NEW kind \in {"chat", "command"}, NEW id \in 1 .. MaxEvents + MaxMail, Push(kind, id)
    PROVE  /\ Waiting' = Waiting \cup {Len(mail) + 1} /\ Len(mail) + 1 \notin Waiting
           /\ inbox' = inbox \cup {Len(mail) + 1} /\ Len(mail) + 1 \notin inbox
  <1>1. /\ Len(mail) \in Nat /\ DOMAIN mail = 1 .. Len(mail) /\ inbox \subseteq DOMAIN mail
    BY MailStamps DEF MailTyped
  <1>2. DOMAIN mail' = 1 .. Len(mail) + 1
    BY PushProperties
  <1>3. DOMAIN mail' = DOMAIN mail \cup {Len(mail) + 1} /\ Len(mail) + 1 \notin DOMAIN mail
    BY <1>1, <1>2
  <1> QED BY <1>1, <1>3, PushProperties DEF Waiting

LEMMA WaitingAnswered ==
    ASSUME MailTyped, AgentTyped, Answered
    PROVE  Waiting' = Waiting \ agent.flight
  BY AnsweredFates DEF Waiting

(* What the agent has in hand as it moves on.                                   *)
LEMMA StepAccounted == TypeInv /\ Accounted /\ [Next]_vars => Accounted'
  <1> SUFFICES ASSUME TypeInv, MailTyped, AgentTyped, HandInv, Accounted, [Next]_vars PROVE Accounted'
    BY TypeParts DEF AgentTyped
  <1>0. agent \in Agent /\ {"lost", "read", "handled"} \subseteq Fate \ {"waiting"}
    BY DEF AgentTyped, Fate
  <1> USE DEF boxVars
  <1>1. ASSUME mail' = mail, inbox' = inbox, agent'.flight = agent.flight, agent'.http = agent.http
        PROVE  Accounted'
    BY <1>1 DEF Accounted, Waiting, InHand
  <1>2. ASSUME mail' = mail, agent.flight = {}, agent'.flight \subseteq inbox,
               inbox' = inbox \ agent'.flight, agent'.http = agent.http
        PROVE  Accounted'
    BY <1>2 DEF Accounted, Waiting, InHand
  <1>3. ASSUME Waiting' = Waiting \ agent.flight, inbox' = inbox, agent'.flight = {}, agent'.http = agent.http
        PROVE  Accounted'
    BY <1>3 DEF Accounted, InHand
  <1>4. ASSUME agent.flight = {}, mail' = mail, inbox' = inbox, agent' = Back PROVE Accounted'
    BY <1>1, <1>4, BackProperties
  <1>5. CASE Admin
    BY <1>1, <1>5 DEF Admin, Type
  <1>6. CASE Orchestrator
    <2>1. CASE StartListening \/ InitialSync \/ Poll \/ HandlerThrows \/ RegisterQuestion
      BY <1>1, <2>1 DEF StartListening, InitialSync, Poll, HandlerThrows, RegisterQuestion
    <2>2. CASE HandleEvent \/ AdminCommand
      <3>1. agent' = agent
        BY <2>2 DEF HandleEvent, AdminCommand
      <3>2. CASE UNCHANGED <<mail, inbox, wire, pending>>
        BY <1>1, <3>1, <3>2
      <3>3. ASSUME NEW kind \in {"chat", "command"}, NEW id \in 1 .. MaxEvents + MaxMail, Push(kind, id)
            PROVE  Accounted'
        BY <3>1, <3>3, WaitingPush DEF Accounted, InHand
      <3> QED BY <2>2, <3>2, <3>3, Pushes
    <2>3. CASE Restart
      <3>1. Waiting' = Waiting \ inbox /\ inbox' = {}
        BY <1>0, <2>3, WaitingMet DEF Restart
      <3>2. agent'.flight = agent.flight /\ agent'.http = agent.http
        BY <2>3, BackProperties DEF Restart, HandInv
      <3> QED BY <3>1, <3>2 DEF Accounted, InHand
    <2>4. CASE KillWorker
      <3>1. Waiting' = Waiting \ (InHand \cup inbox) /\ inbox' = {}
        BY <1>0, <2>4, WaitingMet DEF KillWorker
      <3>2. InHand' = {} /\ agent'.flight = {}
        BY <2>4 DEF KillWorker, Dies, Off, InHand
      <3> QED BY <3>1, <3>2 DEF Accounted
    <2> QED BY <1>6, <2>1, <2>2, <2>3, <2>4 DEF Orchestrator
  <1>7. CASE Worker
    <2>1. CASE Spawn
      BY <1>1, <2>1 DEF Spawn, Off, HandInv
    <2>2. CASE Crash
      <3>1. Waiting' = Waiting \ InHand /\ inbox' = inbox
        BY <1>0, <2>2, WaitingMet DEF Crash
      <3>2. InHand' = {} /\ agent'.flight = {}
        BY <2>2 DEF Crash, Dies, Off, InHand
      <3> QED BY <3>1, <3>2 DEF Accounted
    <2>3. CASE TaskEnds \/ HandledAll \/ ChatEnds
      BY <1>0, <1>1, <2>3 DEF TaskEnds, HandledAll, ChatEnds, Agent
    <2>4. CASE ChatPoll
      BY <1>0, <1>2, <2>4 DEF ChatPoll, Drain, Remaining, HandInv, Agent
    <2>5. CASE Response
      <3>1. agent.http = {} /\ inbox' = inbox
        BY <2>5 DEF Response, HandInv
      <3>2. \/ agent'.http = agent.flight /\ agent'.flight = {} /\ mail' = mail
            \/ agent'.http = {} /\ agent'.flight = {} /\ mail' = Met(agent.flight, "lost")
        BY <1>0, <2>5 DEF Response, Agent
      <3>3. CASE agent'.http = agent.flight /\ agent'.flight = {} /\ mail' = mail
        BY <3>1, <3>3 DEF Accounted, Waiting, InHand
      <3>4. CASE agent'.http = {} /\ agent'.flight = {} /\ mail' = Met(agent.flight, "lost")
        BY <1>0, <1>3, <3>1, <3>4, WaitingMet
      <3> QED BY <3>2, <3>3, <3>4
    <2>6. CASE HandleNext
      <3>1. ASSUME NEW m \in agent.http, Handle(m, "http") PROVE Accounted'
        <4>1. Waiting' = Waiting \ {m} /\ inbox' = inbox
          BY <1>0, <3>1, HttpHandled, WaitingMet DEF Handle
        <4>2. agent'.http = agent.http \ {m} /\ agent'.flight = agent.flight
          BY <3>1, HttpHandled
        <4>3. agent.flight = {}
          BY <3>1 DEF Handle, HandInv
        <4> QED BY <4>1, <4>2, <4>3 DEF Accounted, InHand
      <3>2. ASSUME NEW m, Handle(m, "nats") PROVE Accounted'
        BY <1>1, <3>2, NatsHandled DEF Handle
      <3> QED BY <2>6, <3>1, <3>2, HandleCases
    <2>7. CASE ToolPoll
      BY <1>0, <1>2, <2>7 DEF ToolPoll, Remaining, HandInv, Agent
    <2>8. CASE ToolReturns
      <3>1. Waiting' = Waiting \ agent.flight /\ inbox' = inbox /\ agent' = Back
        BY <1>0, <2>8, WaitingMet DEF ToolReturns
      <3> QED BY <1>3, <3>1, BackProperties
    <2>9. CASE Ask \/ Posted
      BY <1>0, <1>1, <2>9 DEF Ask, Posted, Agent
    <2>10. CASE PostFails \/ AskTimesOut
      BY <1>4, <2>10 DEF PostFails, AskTimesOut, Returns, HandInv
    <2>11. CASE AskPoll
      BY <1>0, <1>2, <2>11 DEF AskPoll, Drain, Remaining, Since, HandInv, Agent
    <2>12. CASE Answered
      BY <1>3, <2>12, WaitingAnswered, BackProperties DEF Answered, Returns
    <2>13. CASE NoAnswer
      <3>1. Waiting' = Waiting \ agent.flight /\ inbox' = inbox
        BY <1>0, <2>13, WaitingMet DEF NoAnswer
      <3>2. agent'.flight = {} /\ agent'.http = agent.http
        BY <1>0, <2>13 DEF NoAnswer, Agent
      <3> QED BY <1>3, <3>1, <3>2
    <2>14. CASE Arrive
      BY <1>1, <2>14 DEF Arrive
    <2> QED BY <1>7, <2>1, <2>2, <2>3, <2>4, <2>5, <2>6, <2>7, <2>8, <2>9, <2>10, <2>11, <2>12, <2>13, <2>14
            DEF Worker
  <1>8. CASE UNCHANGED vars
    BY <1>1, <1>8 DEF vars
  <1> QED BY <1>5, <1>6, <1>7, <1>8 DEF Next

LEMMA AccountedInvariance == Spec => [](TypeInv /\ Accounted)
  <1>1. Init => Accounted
    BY DEF Init, Accounted, Waiting, InHand, Off
  <1>2. TypeInv /\ Accounted /\ [Next]_vars => Accounted'
    BY StepAccounted
  <1> QED BY <1>1, <1>2, TypeInitial, TypeStep, PTL DEF Spec

(* No drain, lost answer, timeout, restart or death forgets a message of the    *)
(* HTTP path or leaves one behind: what waits is in the inbox, in the answer on *)
(* its way or in the loop's hand, and in one of them only.                      *)
THEOREM MailAlwaysAccounted == Spec => []Accounted
  BY AccountedInvariance, PTL

-----------------------------------------------------------------------------
(* A message that is handled comes last among those its path has handled.       *)
LEMMA HandledAppended ==
    ASSUME LogTyped, NEW path \in Path, NEW m \in Stamp, log' = [log EXCEPT ![path] = Append(@, m)]
    PROVE  /\ {log'[path][i] : i \in DOMAIN log'[path]} = Handled(path) \cup {m}
           /\ \A other \in Path : other # path => log'[other] = log[other]
           /\ (\A n \in Handled(path) : n < m) /\ OncePerPath => OncePerPath'
  <1> DEFINE last == Len(log[path]) + 1
  <1>1. /\ Len(log[path]) \in Nat /\ DOMAIN log[path] = 1 .. Len(log[path])
        /\ DOMAIN log'[path] = 1 .. last
        /\ \A i \in 1 .. Len(log[path]) : log'[path][i] = log[path][i]
        /\ log'[path][last] = m
        /\ \A other \in Path : other # path => log'[other] = log[other]
    BY Appended
  <1>2. DOMAIN log'[path] = DOMAIN log[path] \cup {last} /\ \A i \in DOMAIN log[path] : i < last
    BY <1>1
  <1>3. {log'[path][i] : i \in DOMAIN log'[path]} = Handled(path) \cup {m}
    BY <1>1, <1>2 DEF Handled
  <1>4. ASSUME \A n \in Handled(path) : n < m, OncePerPath,
               NEW i \in DOMAIN log'[path], NEW j \in DOMAIN log'[path], i < j
        PROVE  log'[path][i] < log'[path][j]
    <2>1. i \in DOMAIN log[path] /\ i \in 1 .. Len(log[path])
      BY <1>1, <1>4
    <2>2. CASE j = last
      BY <1>1, <1>4, <2>1, <2>2 DEF Handled
    <2>3. CASE j # last
      <3>1. j \in DOMAIN log[path] /\ j \in 1 .. Len(log[path])
        BY <1>1, <1>2, <2>3
      <3> QED BY <1>1, <1>4, <2>1, <3>1 DEF OncePerPath
    <2> QED BY <2>2, <2>3
  <1> QED BY <1>1, <1>3, <1>4 DEF OncePerPath

(* Where the messages of both paths are: none that was not pushed.              *)
LEMMA Pushed ==
    ASSUME MailTyped, AgentTyped, Accounted
    PROVE  /\ Len(mail) \in Nat /\ DOMAIN mail = 1 .. Len(mail)
           /\ Loop \subseteq DOMAIN mail /\ InHand \subseteq DOMAIN mail /\ inbox \subseteq DOMAIN mail
           /\ agent.nats \cup queue \cup wire \subseteq DOMAIN mail
  <1>1. Loop \subseteq InHand
    BY DEF Loop, InHand
  <1>2. InHand \subseteq DOMAIN mail
    BY DEF Accounted, Waiting
  <1> QED BY <1>1, <1>2, MailStamps DEF MailTyped, AgentTyped

(* The mailbox path keeps its order: the loop takes the inbox whole when its    *)
(* hands are empty, and handles the first of what it holds.                     *)
LEMMA StepHttpOrder == TypeInv /\ Accounted /\ OrderInv /\ [Next]_vars => HttpOrder'
  <1> SUFFICES ASSUME TypeInv, MailTyped, AgentTyped, HandInv, LogTyped, Accounted, OrderInv, [Next]_vars
               PROVE  HttpOrder'
    BY TypeParts DEF AgentTyped
  <1>0. agent \in Agent
    BY DEF AgentTyped
  <1> USE DEF boxVars
  <1>1. ASSUME log'["http"] = log["http"], Loop' \subseteq Loop, inbox' \subseteq inbox PROVE HttpOrder'
    BY <1>1 DEF OrderInv, HttpOrder, Before, Handled
  <1>2. ASSUME UNCHANGED <<log, agent, inbox>> PROVE HttpOrder'
    BY <1>1, <1>2 DEF Loop
  <1>3. ASSUME UNCHANGED log, agent' = Back, inbox' \subseteq inbox PROVE HttpOrder'
    BY <1>1, <1>3, BackProperties DEF Loop
  <1>4. CASE Admin
    BY <1>2, <1>4 DEF Admin, Type
  <1>5. CASE Orchestrator
    <2>1. CASE StartListening \/ InitialSync \/ Poll \/ HandlerThrows \/ RegisterQuestion
      BY <1>2, <2>1 DEF StartListening, InitialSync, Poll, HandlerThrows, RegisterQuestion
    <2>2. CASE HandleEvent \/ AdminCommand
      <3>1. UNCHANGED <<agent, log>>
        BY <2>2 DEF HandleEvent, AdminCommand
      <3>2. CASE UNCHANGED <<mail, inbox, wire, pending>>
        BY <1>2, <3>1, <3>2
      <3>3. ASSUME NEW kind \in {"chat", "command"}, NEW id \in 1 .. MaxEvents + MaxMail, Push(kind, id)
            PROVE  HttpOrder'
        <4>1. inbox' = inbox \cup {Len(mail) + 1} /\ Loop' = Loop /\ Handled("http")' = Handled("http")
          BY <3>1, <3>3, PushProperties DEF Loop, Handled
        <4>2. \A n \in Handled("http") \cup Loop : n < Len(mail) + 1
          BY Pushed DEF OrderInv
        <4> QED BY <4>1, <4>2 DEF OrderInv, HttpOrder, Before
      <3> QED BY <2>2, <3>2, <3>3, Pushes
    <2>3. CASE Restart
      BY <1>1, <1>3, <2>3 DEF Restart, Loop
    <2>4. CASE KillWorker
      BY <1>1, <2>4 DEF KillWorker, Dies, Off, Loop
    <2> QED BY <1>5, <2>1, <2>2, <2>3, <2>4 DEF Orchestrator
  <1>6. CASE Worker
    <2>1. CASE Spawn \/ Crash
      <3>1. agent'.http = {} /\ agent'.pc # "response" /\ UNCHANGED <<log, inbox>>
        <4>1. CASE Spawn
          BY <4>1 DEF Spawn, Off
        <4>2. CASE Crash
          BY <4>2 DEF Crash, Dies, Off
        <4> QED BY <2>1, <4>1, <4>2
      <3> QED BY <1>1, <3>1 DEF Loop
    <2>2. CASE TaskEnds \/ HandledAll \/ ChatEnds
      BY <1>0, <1>1, <2>2 DEF TaskEnds, HandledAll, ChatEnds, Agent, Loop
    <2>3. CASE ChatPoll
      <3>1. agent.http = {} /\ agent.pc = "poll" /\ inbox' = {} /\ log' = log
        BY <2>3 DEF ChatPoll, Drain, Remaining, HandInv
      <3>2. agent'.http = agent.http /\ agent'.flight = inbox
        BY <1>0, <2>3 DEF ChatPoll, Drain, Agent
      <3>3. Loop' \subseteq inbox
        BY <3>1, <3>2 DEF Loop
      <3> QED BY <3>1, <3>3 DEF OrderInv, HttpOrder, Before, Handled
    <2>4. CASE Response
      <3>1. agent'.pc = "handle" /\ agent'.http \subseteq agent.flight
        BY <1>0, <2>4 DEF Response, Agent
      <3> QED BY <1>1, <2>4, <3>1 DEF Response, Loop
    <2>5. CASE HandleNext
      <3>1. ASSUME NEW m \in agent.http, \A n \in agent.http : m <= n, Handle(m, "http") PROVE HttpOrder'
        <4>1. /\ agent'.http = agent.http \ {m} /\ agent.pc = "handle" /\ agent'.pc # "response"
              /\ inbox' = inbox /\ log' = [log EXCEPT !["http"] = Append(@, m)]
          BY <3>1, HttpHandled DEF Handle
        <4>2. m \in Stamp /\ "http" \in Path /\ agent.http \subseteq Nat
          BY <1>0, Bounds DEF Agent, Path, Stamp
        <4>3. Handled("http")' = Handled("http") \cup {m}
          BY <4>1, <4>2, HandledAppended DEF Handled
        <4>4. m \in Loop /\ Loop' = agent.http \ {m} /\ Loop' \subseteq Loop
          BY <4>1 DEF Loop
        <4>5. \A n \in agent.http \ {m} : m < n
          BY <3>1, <4>2
        <4>6. /\ \A k \in Handled("http"), n \in Loop \cup inbox : k < n
              /\ \A k \in Loop, n \in inbox : k < n
          BY DEF OrderInv, HttpOrder, Before
        <4> QED BY <4>1, <4>3, <4>4, <4>5, <4>6 DEF HttpOrder, Before
      <3>2. ASSUME NEW m \in agent.nats, Handle(m, "nats") PROVE HttpOrder'
        <4>1. log'["http"] = log["http"]
          BY <3>2, NatsHandled DEF LogTyped, Path
        <4>2. /\ agent'.http = agent.http /\ agent.pc = "handle" /\ agent'.pc # "response" /\ inbox' = inbox
          BY <3>2, NatsHandled DEF Handle
        <4> QED BY <1>1, <4>1, <4>2 DEF Loop
      <3> QED BY <2>5, <3>1, <3>2, HandleCases
    <2>6. CASE ToolPoll
      BY <1>0, <1>1, <2>6 DEF ToolPoll, Remaining, Agent, Loop
    <2>7. CASE ToolReturns \/ PostFails \/ Answered \/ AskTimesOut
      BY <1>3, <2>7 DEF ToolReturns, PostFails, Answered, AskTimesOut, Returns
    <2>8. CASE Ask \/ Posted \/ NoAnswer
      BY <1>0, <1>1, <2>8 DEF Ask, Posted, NoAnswer, Agent, Loop
    <2>9. CASE AskPoll
      BY <1>0, <1>1, <2>9 DEF AskPoll, Drain, Remaining, Agent, Loop
    <2>10. CASE Arrive
      BY <1>2, <2>10 DEF Arrive
    <2> QED BY <1>6, <2>1, <2>2, <2>3, <2>4, <2>5, <2>6, <2>7, <2>8, <2>9, <2>10 DEF Worker
  <1>7. CASE UNCHANGED vars
    BY <1>2, <1>7 DEF vars
  <1> QED BY <1>4, <1>5, <1>6, <1>7 DEF Next

(* So does the path over NATS: what arrives joins the queue behind the others,  *)
(* and the loop takes the queue whole when it has none of it in hand.           *)
LEMMA StepNatsOrder == TypeInv /\ Accounted /\ OrderInv /\ [Next]_vars => NatsOrder'
  <1> SUFFICES ASSUME TypeInv, MailTyped, AgentTyped, HandInv, LogTyped, Accounted, OrderInv, [Next]_vars
               PROVE  NatsOrder'
    BY TypeParts DEF AgentTyped
  <1>0. agent \in Agent
    BY DEF AgentTyped
  <1> USE DEF natsVars
  <1>1. ASSUME log'["nats"] = log["nats"], agent'.nats \subseteq agent.nats, queue' \subseteq queue,
               wire' \subseteq wire
        PROVE  NatsOrder'
    BY <1>1 DEF OrderInv, NatsOrder, Before, Handled
  <1>2. ASSUME UNCHANGED <<log, agent, queue, wire>> PROVE NatsOrder'
    BY <1>1, <1>2
  <1>3. ASSUME UNCHANGED <<log, queue, wire>>, agent' = Back PROVE NatsOrder'
    BY <1>1, <1>3, BackProperties
  <1>4. CASE Admin
    BY <1>2, <1>4 DEF Admin, Type
  <1>5. CASE Orchestrator
    <2>1. CASE StartListening \/ InitialSync \/ Poll \/ HandlerThrows \/ RegisterQuestion
      BY <1>2, <2>1 DEF StartListening, InitialSync, Poll, HandlerThrows, RegisterQuestion
    <2>2. CASE HandleEvent \/ AdminCommand
      <3>1. UNCHANGED <<agent, log, queue>>
        BY <2>2 DEF HandleEvent, AdminCommand
      <3>2. CASE UNCHANGED <<mail, inbox, wire, pending>>
        BY <1>2, <3>1, <3>2
      <3>3. ASSUME NEW kind \in {"chat", "command"}, NEW id \in 1 .. MaxEvents + MaxMail, Push(kind, id)
            PROVE  NatsOrder'
        <4>1. /\ wire' \subseteq wire \cup {Len(mail) + 1} /\ Handled("nats")' = Handled("nats")
              /\ agent'.nats = agent.nats
          BY <3>1, <3>3, PushProperties DEF Handled
        <4>2. \A n \in Handled("nats") \cup agent.nats \cup queue : n < Len(mail) + 1
          BY Pushed DEF OrderInv
        <4> QED BY <3>1, <4>1, <4>2 DEF OrderInv, NatsOrder, Before
      <3> QED BY <2>2, <3>2, <3>3, Pushes
    <2>3. CASE Restart
      BY <1>1, <1>3, <2>3 DEF Restart
    <2>4. CASE KillWorker
      BY <1>1, <2>4 DEF KillWorker, Dies, Off
    <2> QED BY <1>5, <2>1, <2>2, <2>3, <2>4 DEF Orchestrator
  <1>6. CASE Worker
    <2>1. CASE Spawn
      <3>1. agent'.nats = {} /\ UNCHANGED <<log, queue, wire>>
        BY <2>1 DEF Spawn, Off
      <3> QED BY <1>1, <3>1
    <2>2. CASE Crash
      BY <1>1, <2>2 DEF Crash, Dies, Off
    <2>3. CASE TaskEnds \/ ChatPoll \/ HandledAll \/ ChatEnds \/ ToolPoll
      BY <1>0, <1>1, <2>3 DEF TaskEnds, ChatPoll, Drain, HandledAll, ChatEnds, ToolPoll, Agent
    <2>4. CASE Response
      <3>1. /\ agent.nats = {} /\ agent'.nats = queue /\ queue' = {} /\ wire' = wire /\ log' = log
        BY <1>0, <2>4 DEF Response, HandInv, Agent
      <3> QED BY <3>1 DEF OrderInv, NatsOrder, Before, Handled
    <2>5. CASE HandleNext
      <3>1. ASSUME NEW m \in agent.http, Handle(m, "http") PROVE NatsOrder'
        <4>1. log'["nats"] = log["nats"]
          BY <3>1, HttpHandled DEF LogTyped, Path
        <4>2. agent'.nats = agent.nats /\ UNCHANGED <<queue, wire>>
          BY <3>1, HttpHandled DEF Handle
        <4> QED BY <1>1, <4>1, <4>2
      <3>2. ASSUME NEW m \in agent.nats, \A n \in agent.nats : m <= n, Handle(m, "nats") PROVE NatsOrder'
        <4>1. /\ agent'.nats = agent.nats \ {m} /\ UNCHANGED <<queue, wire>>
              /\ log' = log \/ log' = [log EXCEPT !["nats"] = Append(@, m)]
          BY <3>2, NatsHandled DEF Handle
        <4>2. m \in Stamp /\ "nats" \in Path /\ agent.nats \subseteq Nat
          BY <1>0, Bounds DEF Agent, Path, Stamp
        <4>3. CASE log' = log
          BY <1>1, <4>1, <4>3
        <4>4. CASE log' = [log EXCEPT !["nats"] = Append(@, m)]
          <5>1. Handled("nats")' = Handled("nats") \cup {m}
            BY <4>2, <4>4, HandledAppended DEF Handled
          <5>2. \A n \in agent.nats \ {m} : m < n
            BY <3>2, <4>2
          <5>3. /\ \A k \in Handled("nats"), n \in agent.nats \cup queue \cup wire : k < n
                /\ \A k \in agent.nats, n \in queue \cup wire : k < n
                /\ \A k \in queue, n \in wire : k < n
            BY DEF OrderInv, NatsOrder, Before
          <5> QED BY <4>1, <5>1, <5>2, <5>3 DEF NatsOrder, Before
        <4> QED BY <4>1, <4>3, <4>4
      <3> QED BY <2>5, <3>1, <3>2, HandleCases
    <2>6. CASE ToolReturns \/ PostFails \/ Answered \/ AskTimesOut
      BY <1>3, <2>6 DEF ToolReturns, PostFails, Answered, AskTimesOut, Returns
    <2>7. CASE Ask \/ Posted \/ NoAnswer \/ AskPoll
      BY <1>0, <1>1, <2>7 DEF Ask, Posted, NoAnswer, AskPoll, Drain, Agent
    <2>8. CASE Arrive
      <3>1. /\ UNCHANGED <<agent, log>> /\ wire' = wire \ {First(wire)}
            /\ queue' \subseteq queue \cup {First(wire)}
        BY <2>8 DEF Arrive
      <3>2. wire \subseteq Nat
        BY MailStamps, Bounds DEF Stamp
      <3>3. First(wire) \in wire /\ \A n \in wire \ {First(wire)} : First(wire) < n
        <4>1. First(wire) \in wire /\ \A n \in wire : First(wire) <= n
          BY <2>8, <3>2, FirstExists DEF Arrive
        <4>2. \A m \in Nat, n \in Nat : m <= n /\ n # m => m < n
          OBVIOUS
        <4> QED BY <3>2, <4>1, <4>2, Zenon
      <3>4. /\ \A k \in Handled("nats"), n \in agent.nats \cup queue \cup wire : k < n
            /\ \A k \in agent.nats, n \in queue \cup wire : k < n
            /\ \A k \in queue, n \in wire : k < n
        BY DEF OrderInv, NatsOrder, Before
      <3>5. Handled("nats")' = Handled("nats")
        BY <3>1 DEF Handled
      <3> QED BY <3>1, <3>3, <3>4, <3>5 DEF NatsOrder, Before
    <2> QED BY <1>6, <2>1, <2>2, <2>3, <2>4, <2>5, <2>6, <2>7, <2>8 DEF Worker
  <1>7. CASE UNCHANGED vars
    BY <1>2, <1>7 DEF vars
  <1> QED BY <1>4, <1>5, <1>6, <1>7 DEF Next

LEMMA StepOrder == TypeInv /\ Accounted /\ OrderInv /\ [Next]_vars => OrderInv'
  <1> SUFFICES ASSUME TypeInv, MailTyped, AgentTyped, HandInv, LogTyped, Accounted, OrderInv, [Next]_vars
               PROVE  /\ (Handled("http") \cup Handled("nats") \subseteq DOMAIN mail)'
                      /\ OncePerPath'
    BY TypeParts, StepHttpOrder, StepNatsOrder DEF AgentTyped, OrderInv
  <1>0. /\ agent.http \subseteq Stamp /\ agent.nats \subseteq Stamp
        /\ agent.http \subseteq DOMAIN mail /\ agent.nats \subseteq DOMAIN mail
    BY Pushed DEF AgentTyped, Agent, InHand
  <1>1. DOMAIN mail \subseteq DOMAIN mail'
    <2>1. /\ DOMAIN mail = 1 .. Len(mail) /\ DOMAIN mail' = 1 .. Len(mail')
          /\ Len(mail) <= Len(mail') /\ Len(mail) \in Nat /\ Len(mail') \in Nat
      BY StepMail, LenProperties DEF MailTyped
    <2> QED BY <2>1
  <1>2. CASE UNCHANGED log
    BY <1>1, <1>2 DEF OrderInv, OncePerPath, Handled
  <1>3. ASSUME NEW path \in Path, NEW m \in Stamp, m \in DOMAIN mail,
               log' = [log EXCEPT ![path] = Append(@, m)], \A n \in Handled(path) : n < m
        PROVE  /\ (Handled("http") \cup Handled("nats") \subseteq DOMAIN mail)'
               /\ OncePerPath'
    <2>1. OncePerPath'
      BY <1>3, HandledAppended DEF OrderInv
    <2>2. {log'[path][i] : i \in DOMAIN log'[path]} \subseteq DOMAIN mail'
      <3>1. {log'[path][i] : i \in DOMAIN log'[path]} = Handled(path) \cup {m}
        BY <1>3, HandledAppended
      <3>2. Handled(path) \subseteq DOMAIN mail
        BY DEF OrderInv, Path
      <3> QED BY <1>1, <1>3, <3>1, <3>2
    <2>3. ASSUME NEW other \in Path, other # path
          PROVE  {log'[other][i] : i \in DOMAIN log'[other]} \subseteq DOMAIN mail'
      <3>1. log'[other] = log[other]
        BY <1>3, <2>3, HandledAppended
      <3> QED BY <1>1, <3>1 DEF OrderInv, Handled, Path
    <2> QED BY <2>1, <2>2, <2>3 DEF Handled, Path
  <1>4. /\ \A n \in Handled("http") : \A m \in agent.http : n < m
        /\ \A n \in Handled("nats") : \A m \in agent.nats : n < m
    BY DEF OrderInv, HttpOrder, NatsOrder, Before, Loop
  <1>5. "http" \in Path /\ "nats" \in Path
    BY DEF Path
  <1> QED BY <1>0, <1>2, <1>3, <1>4, <1>5, LogChanges

LEMMA OrderInvariance == Spec => []OrderInv
  <1>1. Init => OrderInv
    <2> SUFFICES ASSUME Init PROVE OrderInv
      OBVIOUS
    <2>1. /\ log = [path \in Path |-> << >>] /\ agent.http = {} /\ agent.nats = {} /\ agent.pc = "off"
          /\ queue = {} /\ wire = {} /\ inbox = {} /\ DOMAIN << >> = {}
      BY DEF Init, Off
    <2>2. \A path \in Path : DOMAIN log[path] = {} /\ Handled(path) = {}
      BY <2>1 DEF Handled
    <2> QED BY <2>1, <2>2 DEF OrderInv, HttpOrder, NatsOrder, OncePerPath, Before, Loop, Path
  <1>2. TypeInv /\ Accounted /\ OrderInv /\ [Next]_vars => OrderInv'
    BY StepOrder
  <1> QED BY <1>1, <1>2, AccountedInvariance, PTL DEF Spec

(* Each path delivers a message to the chat loop at most once and in the order  *)
(* of the pushes, whatever is lost on the way.                                  *)
THEOREM DeliveredOncePerPath == Spec => []OncePerPath
  <1>1. OrderInv => OncePerPath
    BY DEF OrderInv
  <1> QED BY <1>1, OrderInvariance, PTL

-----------------------------------------------------------------------------
(* A question: where the worker is between the post and the answer.             *)
LEMMA StepQuestion == TypeInv /\ QuestionInv /\ [Next]_vars => QuestionInv'
  <1> SUFFICES ASSUME TypeInv, TicketTyped, MailTyped, AgentTyped, QuestionInv, [Next]_vars PROVE QuestionInv'
    BY TypeParts
  <1>0. /\ agent \in Agent /\ agent.since \in Nat /\ agent.since <= Len(mail) + 1 /\ Len(mail) \in Nat
        /\ Len(mail') \in Nat /\ Len(mail) <= Len(mail')
    BY StepMail, MailStamps, LenProperties, Bounds DEF AgentTyped, Agent, MailTyped
  <1> USE DEF ticketVars, questionVars, boxVars
  <1>1. ASSUME agent'.pc \notin {"posting", "asking", "answer"} PROVE QuestionInv'
    BY <1>1 DEF QuestionInv
  <1>2. ASSUME UNCHANGED <<agent, rooms, mapped, pending, asked>> PROVE QuestionInv'
    BY <1>0, <1>2 DEF QuestionInv, Visible
  <1>3. ASSUME agent' = Back PROVE QuestionInv'
    BY <1>1, <1>3, BackProperties
  <1>4. ASSUME Visible' PROVE QuestionInv'
    BY <1>4 DEF QuestionInv
  <1>5. CASE Admin
    BY <1>2, <1>5 DEF Admin, Type
  <1>6. CASE Orchestrator
    <2>1. CASE StartListening \/ InitialSync \/ Poll \/ HandlerThrows
      BY <1>2, <2>1 DEF StartListening, InitialSync, Poll, HandlerThrows
    <2>2. CASE HandleEvent \/ AdminCommand
      <3>1. UNCHANGED <<agent, rooms, mapped, asked>>
        BY <2>2 DEF HandleEvent, AdminCommand
      <3>2. CASE UNCHANGED <<mail, inbox, wire, pending>>
        BY <1>2, <3>1, <3>2
      <3>3. ASSUME NEW kind \in {"chat", "command"}, NEW id \in 1 .. MaxEvents + MaxMail, Push(kind, id)
            PROVE  QuestionInv'
        <4>1. Len(mail') = Len(mail) + 1
          BY <3>3, PushProperties
        <4>2. Len(mail') >= agent'.since
          BY <1>0, <3>1, <4>1
        <4> QED BY <1>4, <4>2 DEF Visible
      <3> QED BY <2>2, <3>2, <3>3, Pushes
    <2>3. CASE RegisterQuestion
      BY <1>4, <2>3 DEF RegisterQuestion, Visible
    <2>4. CASE Restart
      BY <1>4, <2>4 DEF Restart, Visible
    <2>5. CASE KillWorker
      BY <1>1, <2>5 DEF KillWorker, Dies, Off
    <2> QED BY <1>6, <2>1, <2>2, <2>3, <2>4, <2>5 DEF Orchestrator
  <1>7. CASE Worker
    <2>1. CASE Spawn
      BY <1>1, <2>1 DEF Spawn, Off
    <2>2. CASE Crash
      BY <1>1, <2>2 DEF Crash, Dies, Off
    <2>3. CASE TaskEnds \/ ChatPoll \/ Response
      BY <1>0, <1>1, <2>3 DEF TaskEnds, ChatPoll, Drain, Response, Agent
    <2>4. CASE HandledAll \/ ChatEnds \/ ToolPoll
      BY <1>0, <1>1, <2>4 DEF HandledAll, ChatEnds, ToolPoll, Agent
    <2>5. CASE HandleNext
      BY <1>1, <2>5, HandleCases, HttpHandled, NatsHandled
    <2>6. CASE ToolReturns \/ PostFails \/ Answered \/ AskTimesOut
      BY <1>3, <2>6 DEF ToolReturns, PostFails, Answered, AskTimesOut, Returns
    <2>7. CASE Ask
      BY <1>0, <2>7 DEF Ask, QuestionInv, Agent
    <2>8. CASE Posted
      <3>1. Visible /\ agent'.since = agent.since /\ UNCHANGED <<mail, pending, rooms, mapped>>
        BY <1>0, <2>8 DEF Posted, Acknowledged, QuestionInv, Agent
      <3> QED BY <1>4, <3>1 DEF Visible
    <2>9. CASE AskPoll \/ NoAnswer
      <3>1. /\ Visible /\ agent'.since = agent.since /\ UNCHANGED <<pending, rooms, mapped>>
        BY <1>0, <2>9 DEF AskPoll, NoAnswer, Drain, QuestionInv, Agent
      <3> QED BY <1>0, <1>4, <3>1 DEF Visible
    <2>10. CASE Arrive
      BY <1>2, <2>10 DEF Arrive
    <2> QED BY <1>7, <2>1, <2>2, <2>3, <2>4, <2>5, <2>6, <2>7, <2>8, <2>9, <2>10 DEF Worker
  <1>8. CASE UNCHANGED vars
    BY <1>2, <1>8 DEF vars
  <1> QED BY <1>5, <1>6, <1>7, <1>8 DEF Next

(* Nobody waits for an answer nobody knows of: the question is listed, or       *)
(* something was pushed since, or the orchestrator has lost the room.           *)
THEOREM QuestionAlwaysVisible == Spec => []QuestionVisible
  <1>1. Init => QuestionInv
    BY DEF Init, QuestionInv, Off
  <1>2. TypeInv /\ QuestionInv /\ [Next]_vars => QuestionInv'
    BY StepQuestion
  <1>3. QuestionInv => QuestionVisible
    BY DEF QuestionInv, QuestionVisible, Visible
  <1> QED BY <1>1, <1>2, <1>3, TypeInvariance, PTL DEF Spec

-----------------------------------------------------------------------------
(* What a step does to the mail: nothing, a push, a fate that is no answer, or  *)
(* the answer of a question.                                                    *)
LEMMA MailChanges ==
    ASSUME TypeInv, [Next]_vars
    PROVE  \/ UNCHANGED mail
           \/ \E kind \in {"chat", "command"}, id \in 1 .. MaxEvents + MaxMail : Push(kind, id)
           \/ \E fate \in {"lost", "read", "handled"} : \E S : mail' = Met(S, fate)
           \/ Answered
  <1> USE DEF boxVars
  <1>1. CASE Admin
    BY <1>1 DEF Admin, Type
  <1>2. CASE Orchestrator
    <2>1. CASE StartListening \/ InitialSync \/ Poll \/ HandlerThrows \/ RegisterQuestion
      BY <2>1 DEF StartListening, InitialSync, Poll, HandlerThrows, RegisterQuestion
    <2>2. CASE HandleEvent \/ AdminCommand
      BY <2>2, Pushes
    <2>3. CASE Restart \/ KillWorker
      BY <2>3 DEF Restart, KillWorker
    <2> QED BY <1>2, <2>1, <2>2, <2>3 DEF Orchestrator
  <1>3. CASE Worker
    <2>1. CASE Spawn \/ TaskEnds \/ ChatPoll \/ HandledAll \/ ChatEnds
      BY <2>1 DEF Spawn, TaskEnds, ChatPoll, HandledAll, ChatEnds
    <2>2. CASE Crash \/ Response \/ ToolReturns \/ NoAnswer
      BY <2>2 DEF Crash, Response, ToolReturns, NoAnswer
    <2>3. CASE ToolPoll \/ Ask \/ Posted \/ PostFails \/ AskPoll
      BY <2>3 DEF ToolPoll, Ask, Posted, PostFails, AskPoll
    <2>4. CASE HandleNext
      BY <2>4, HandleCases, HttpHandled, NatsHandled, TypeParts
    <2>5. CASE AskTimesOut \/ Arrive
      BY <2>5 DEF AskTimesOut, Arrive
    <2> QED BY <1>3, <2>1, <2>2, <2>3, <2>4, <2>5 DEF Worker
  <1>4. CASE UNCHANGED vars
    BY <1>4 DEF vars
  <1> QED BY <1>1, <1>2, <1>3, <1>4 DEF Next

(* A waiting question drains what is not older than it, and keeps to that.      *)
LEMMA StepAnswer == TypeInv /\ AnswerInv /\ [Next]_vars => AnswerInv'
  <1> SUFFICES ASSUME TypeInv, AgentTyped, AnswerInv, [Next]_vars PROVE AnswerInv'
    BY TypeParts
  <1>0. agent \in Agent
    BY DEF AgentTyped
  <1>1. ASSUME agent'.pc # "answer" PROVE AnswerInv'
    BY <1>1 DEF AnswerInv
  <1>2. ASSUME UNCHANGED agent PROVE AnswerInv'
    BY <1>2 DEF AnswerInv
  <1>3. ASSUME agent' = Back PROVE AnswerInv'
    BY <1>1, <1>3, BackProperties
  <1>4. CASE Admin
    BY <1>2, <1>4 DEF Admin, Type
  <1>5. CASE Orchestrator
    <2>1. CASE StartListening \/ InitialSync \/ Poll \/ HandleEvent \/ HandlerThrows
      BY <1>2, <2>1 DEF StartListening, InitialSync, Poll, HandleEvent, HandlerThrows
    <2>2. CASE AdminCommand \/ RegisterQuestion
      BY <1>2, <2>2 DEF AdminCommand, RegisterQuestion
    <2>3. CASE Restart
      BY <1>2, <1>3, <2>3 DEF Restart
    <2>4. CASE KillWorker
      BY <1>1, <2>4 DEF KillWorker, Dies, Off
    <2> QED BY <1>5, <2>1, <2>2, <2>3, <2>4 DEF Orchestrator
  <1>6. CASE Worker
    <2>1. CASE Spawn
      BY <1>1, <2>1 DEF Spawn, Off
    <2>2. CASE Crash
      BY <1>1, <2>2 DEF Crash, Dies, Off
    <2>3. CASE TaskEnds \/ ChatPoll \/ Response
      BY <1>0, <1>1, <2>3 DEF TaskEnds, ChatPoll, Drain, Response, Agent
    <2>4. CASE HandledAll \/ ChatEnds \/ ToolPoll \/ Ask \/ Posted \/ NoAnswer
      BY <1>0, <1>1, <2>4 DEF HandledAll, ChatEnds, ToolPoll, Ask, Posted, NoAnswer, Agent
    <2>5. CASE HandleNext
      BY <1>1, <2>5, HandleCases, HttpHandled, NatsHandled, TypeParts
    <2>6. CASE ToolReturns \/ PostFails \/ Answered \/ AskTimesOut
      BY <1>3, <2>6 DEF ToolReturns, PostFails, Answered, AskTimesOut, Returns
    <2>7. CASE AskPoll
      BY <1>0, <2>7 DEF AskPoll, Drain, Since, AnswerInv, Agent
    <2>8. CASE Arrive
      BY <1>2, <2>8 DEF Arrive
    <2> QED BY <1>6, <2>1, <2>2, <2>3, <2>4, <2>5, <2>6, <2>7, <2>8 DEF Worker
  <1>7. CASE UNCHANGED vars
    BY <1>2, <1>7 DEF vars
  <1> QED BY <1>4, <1>5, <1>6, <1>7 DEF Next

(* What ask_admin() returns was pushed after its question, however many old     *)
(* messages wait in the inbox and whatever raced with the drain.                *)
THEOREM AnswerAlwaysLater == Spec => AnswerIsLater
  <1>1. Init => AnswerInv
    BY DEF Init, AnswerInv, Off
  <1>2. TypeInv /\ AnswerInv /\ [Next]_vars => AnswerInv'
    BY StepAnswer
  <1>3. TypeInv /\ AnswerInv /\ [Next]_vars =>
          [\A m \in DOMAIN mail :
             mail'[m].fate = "answer" /\ mail[m].fate # "answer" => m >= agent.since]_vars
    <2> SUFFICES ASSUME TypeInv, AnswerInv, [Next]_vars, NEW m \in DOMAIN mail,
                        mail'[m].fate = "answer", mail[m].fate # "answer"
                 PROVE  m >= agent.since
      OBVIOUS
    <2>0. MailTyped /\ AgentTyped /\ mail[m] \in Mail
      BY TypeParts, MailStamps
    <2>1. CASE UNCHANGED mail
      BY <2>1
    <2>2. ASSUME NEW kind \in {"chat", "command"}, NEW id \in 1 .. MaxEvents + MaxMail, Push(kind, id)
          PROVE  FALSE
      BY <2>0, <2>2, PushProperties
    <2>3. ASSUME NEW fate \in {"lost", "read", "handled"}, NEW S, mail' = Met(S, fate) PROVE FALSE
      <3>1. mail'[m] = [mail[m] EXCEPT !.fate = IF m \in S THEN fate ELSE @] /\ fate # "answer"
        BY <2>0, <2>3, MetProperties DEF MailTyped, Fate
      <3> QED BY <2>0, <3>1 DEF Mail
    <2>4. CASE Answered
      <3>1. m = Last(agent.flight) /\ Last(agent.flight) \in agent.flight
        BY <2>0, <2>4, AnsweredFates
      <3> QED BY <2>4, <3>1 DEF Answered, AnswerInv
    <2> QED BY <2>1, <2>2, <2>3, <2>4, MailChanges
  <1> QED BY <1>1, <1>2, <1>3, TypeInvariance, PTL DEF Spec, AnswerIsLater

-----------------------------------------------------------------------------
(* The HTTP path is a Mailbox: a push posts, the loop handles what waits in the *)
(* order of the posts, and every other fate withdraws what has met it.          *)
LEMMA StepMailbox ==
    TypeInv /\ Accounted /\ OrderInv /\ [Next]_vars => [HttpMailbox!Next]_(HttpMailbox!vars)
  <1> SUFFICES ASSUME TypeInv, MailTyped, AgentTyped, LogTyped, Accounted, OrderInv, [Next]_vars
               PROVE  [HttpMailbox!Next]_(HttpMailbox!vars)
    BY TypeParts
  <1> USE DEF HttpMailbox!Next, HttpMailbox!vars
  <1>1. CASE HandleNext /\ Handle(First(agent.http), "http") /\ First(agent.http) \in agent.http
    <2> DEFINE m == First(agent.http)
    <2>0. mail' = Met({m}, "handled") /\ log' = [log EXCEPT !["http"] = Append(@, m)]
      BY <1>1, HttpHandled
    <2>1. Waiting' = Waiting \ {m} /\ Len(mail') = Len(mail)
      <3>1. "handled" \in Fate /\ mail \in Seq(Mail)
        BY DEF Fate, MailTyped
      <3> HIDE DEF m
      <3> QED BY <2>0, <3>1, WaitingMet, MetProperties
    <2>2. log'["http"] = Append(log["http"], m)
      <3> HIDE DEF m
      <3> QED BY <2>0 DEF LogTyped, Path
    <2>3. m \in Waiting
      BY <1>1 DEF Accounted, InHand
    <2>4. \A i \in DOMAIN log["http"] : log["http"][i] < m
      BY <1>1 DEF OrderInv, HttpOrder, Before, Loop, Handled
    <2> HIDE DEF m
    <2>5. HttpMailbox!Handle(m)
      BY <2>1, <2>2, <2>3, <2>4 DEF HttpMailbox!Handle
    <2> QED BY <2>3, <2>5
  <1>2. ASSUME log'["http"] = log["http"] PROVE [HttpMailbox!Next]_(HttpMailbox!vars)
    <2>1. CASE UNCHANGED mail
      BY <1>2, <2>1 DEF Waiting
    <2>2. ASSUME NEW kind \in {"chat", "command"}, NEW id \in 1 .. MaxEvents + MaxMail, Push(kind, id)
          PROVE  HttpMailbox!Post
      BY <1>2, <2>2, WaitingPush, PushProperties DEF HttpMailbox!Post
    <2>3. ASSUME NEW S, Waiting' = Waiting \ S, Len(mail') = Len(mail)
          PROVE  [HttpMailbox!Next]_(HttpMailbox!vars)
      <3>1. CASE Waiting \cap S = {}
        BY <1>2, <2>3, <3>1
      <3>2. CASE Waiting \cap S # {}
        <4>1. HttpMailbox!Withdraw(Waiting \cap S)
          BY <1>2, <2>3, <3>2 DEF HttpMailbox!Withdraw
        <4> QED BY <4>1
      <3> QED BY <3>1, <3>2
    <2>4. ASSUME NEW fate \in {"lost", "read", "handled"}, NEW S, mail' = Met(S, fate)
          PROVE  [HttpMailbox!Next]_(HttpMailbox!vars)
      <3>1. fate \in Fate /\ fate # "waiting"
        BY DEF Fate
      <3> QED BY <2>3, <2>4, <3>1, WaitingMet, MetProperties DEF MailTyped
    <2>5. CASE Answered
      BY <2>3, <2>5, WaitingAnswered, AnsweredFates
    <2> QED BY <2>1, <2>2, <2>4, <2>5, MailChanges
  <1>3. ASSUME log' = [log EXCEPT !["nats"] = Append(@, First(agent.nats))] PROVE log'["http"] = log["http"]
    BY <1>3 DEF LogTyped, Path
  <1> QED BY <1>1, <1>2, <1>3, LogChanges

(* The HTTP path implements the mailbox that the worker's chat loop needs: each *)
(* message handled at most once, a later one never before an earlier one.       *)
THEOREM HttpIsMailbox == Spec => ImplementsMailbox
  <1>1. Init => HttpMailbox!Init
    <2> SUFFICES ASSUME Init PROVE HttpMailbox!Init
      OBVIOUS
    <2>1. mail = << >> /\ DOMAIN << >> = {} /\ Len(<< >>) = 0
      BY EmptySeq DEF Init
    <2>2. log["http"] = << >>
      BY DEF Init, Path
    <2> QED BY <2>1, <2>2 DEF HttpMailbox!Init, Waiting
  <1>2. TypeInv /\ Accounted /\ OrderInv /\ [Next]_vars => [HttpMailbox!Next]_(HttpMailbox!vars)
    BY StepMailbox
  <1> QED BY <1>1, <1>2, AccountedInvariance, OrderInvariance, PTL
          DEF Spec, ImplementsMailbox, HttpMailbox!Spec
=============================================================================
