-------------------------------- MODULE Inbox --------------------------------
(***************************************************************************)
(* How a message of the admin reaches a worker: the Matrix listener and    *)
(* the per-ticket inbox of orchestrator/src/core/matrix.ts, the routes     *)
(* /worker-message, /worker-inbox and /admin-command of api/webhooks.ts,   *)
(* the NATS copy (core/nats.ts, base-worker/src/tools/nats_client.py) and  *)
(* the worker's side of both: the chat loop of base-worker/src/index.py    *)
(* and ask_admin() of tools/matrix_tools.py.                               *)
(*                                                                         *)
(*   admin -> room -> /sync -> inbox -> HTTP drain -> chat loop, or the    *)
(*                               \---> NATS -> queue ---/   waiting        *)
(*                                                          ask_admin()    *)
(*                                                                         *)
(* One ticket, whose worker is a PM or PO (the roles the relay lets        *)
(* through), that may die and be spawned again.  A message is the number   *)
(* of its push, which stands for its timestamp; a push is never later than *)
(* the next one.  Left out: wording, who sends, the bound of the two sets  *)
(* of seen ids (1024 and 2048 are far beyond what a worker receives), and  *)
(* the effects of slash commands, which are not on this path.              *)
(***************************************************************************)
EXTENDS Integers, Sequences, FiniteSets

CONSTANTS
    Nats,       \* NATS_ENABLED and WORKER_NATS_SUBSCRIBE
    Limit,      \* events per room in an answer of /sync (timeline.limit)
    Failures,   \* what may go wrong: "sync", "throw", "http", "nats", "crash", "restart"
    MaxEvents,  \* bound: what the admin types
    MaxMail,    \* bound: messages pushed
    MaxRooms,   \* bound: rooms made for the ticket
    None        \* null

ASSUME NatsAssumption == Nats \in BOOLEAN
ASSUME BoundsAssumption == {Limit, MaxEvents, MaxMail, MaxRooms} \subseteq Nat /\ Limit > 0
ASSUME NoneAssumption == None \notin Nat

VARIABLES
    timeline,   \* what the admin typed, in the order Matrix has it
    rooms,      \* how many rooms were made; the worker's own is the last one
    mapped,     \* the rooms that roomToWorker maps to the ticket
    registered, \* the registry has an entry of the ticket
    token,      \* MatrixService.syncToken: a position of the timeline, or None
    listener,   \* where the listener is: "off", "init", "poll", "events"
    batch,      \* the events of the last answer that are still to be handled
    mail,       \* every message pushed, and what has become of it
    inbox,      \* workerInbox of the ticket
    pending,    \* pendingQuestions has the ticket
    asked,      \* a /worker-message with a question is on its way
    wire,       \* copies published to NATS that have not arrived
    queue,      \* WorkerNatsClient._inbox_queue
    agent,      \* the worker: where it is and its local variables
    log,        \* history: the messages handled in the chat loop, by path
    executed,   \* history: the slash commands executed
    again       \* history: the slash commands executed more than once

vars == <<timeline, rooms, mapped, registered, token, listener, batch, mail, inbox,
          pending, asked, wire, queue, agent, log, executed, again>>

ticketVars   == <<rooms, mapped, registered>>
listenerVars == <<timeline, token, listener, batch, executed, again>>
boxVars      == <<mail, inbox>>
questionVars == <<pending, asked>>
natsVars     == <<wire, queue>>

-----------------------------------------------------------------------------
(* "slash" is a command in a room, "chat" a message, "command" a structured   *)
(* command of POST /admin-command.                                            *)
Event == [kind : {"chat", "slash"}, room : 1 .. MaxRooms]
Fate  == {"waiting", "handled", "answer", "read", "superseded", "lost"}
Mail  == [kind : {"chat", "command"}, id : 1 .. MaxEvents + MaxMail, fate : Fate]
Stamp == 1 .. MaxMail
Path  == {"http", "nats"}

(* "task" and "chat": the agent is running, at first for the ticket, later    *)
(* for a message.  back is where a tool returns to, flight the answer of a    *)
(* drain that is on its way, http and nats what the loop has yet to handle,   *)
(* seen the event ids both filters of the worker have met.                    *)
PC    == {"off", "task", "chat", "tool", "posting", "asking", "answer", "poll", "response", "handle"}
Agent == [pc : PC, back : {"task", "chat"}, since : 0 .. MaxMail + 1, flight : SUBSET Stamp,
          http : SUBSET Stamp, nats : SUBSET Stamp, seen : SUBSET (1 .. MaxEvents + MaxMail), subscribed : BOOLEAN]

Off == [pc |-> "off", back |-> "task", since |-> 0, flight |-> {}, http |-> {}, nats |-> {},
        seen |-> {}, subscribed |-> FALSE]

(* (Variant of First: the newest.)                                            *)
Last(S) == CHOOSE m \in S : \A n \in S : n <= m
First(S) == CHOOSE m \in S : \A n \in S : m <= n

(* mail once the messages of S have met their fate.                           *)
Met(S, fate) == [m \in DOMAIN mail |-> IF m \in S THEN [mail[m] EXCEPT !.fate = fate] ELSE mail[m]]

(* A tool of the agent returns.                                               *)
Back == [agent EXCEPT !.pc = agent.back, !.back = "task", !.since = 0, !.flight = {}]

InHand == agent.flight \cup agent.http

Init ==
    /\ timeline = << >> /\ rooms = 0 /\ mapped = {} /\ registered = FALSE
    /\ token = None /\ listener = "off" /\ batch = {}
    /\ mail = << >> /\ inbox = {} /\ pending = FALSE /\ asked = FALSE
    /\ wire = {} /\ queue = {} /\ agent = Off
    /\ log = [path \in Path |-> << >>] /\ executed = {} /\ again = {}

-----------------------------------------------------------------------------
(* The admin types in one of the rooms of the ticket.                         *)
Type(kind, room) ==
    /\ Len(timeline) < MaxEvents
    /\ timeline' = Append(timeline, [kind |-> kind, room |-> room])
    /\ UNCHANGED <<ticketVars, boxVars, questionVars, natsVars, token, listener, batch, agent,
                   log, executed, again>>

(* startListening() runs once the roles are started, and then the first sync, *)
(* whose timeline is empty, for the token.                                    *)
StartListening ==
    /\ listener = "off"
    /\ listener' = "init"
    /\ UNCHANGED <<ticketVars, boxVars, questionVars, natsVars, timeline, token, batch, agent,
                   log, executed, again>>

InitialSync ==
    /\ listener = "init"
    /\ listener' = "poll"
    /\ \/ token' = Len(timeline)
       \/ "sync" \in Failures /\ token' = token
    /\ UNCHANGED <<ticketVars, boxVars, questionVars, natsVars, timeline, batch, agent, log,
                   executed, again>>

(* /sync answers with the last events of every room since the token, or of    *)
(* all time without one.  The token moves before they are handled.  An answer *)
(* without events, or none, changes nothing.  (Variant: one position off.)     *)
Later(p) == {q \in DOMAIN timeline : q > p /\ timeline[q].room = timeline[p].room}
WindowShifted(since) == {p + 1 : p \in {q \in DOMAIN timeline : q > since}}
Window(since) == {p \in DOMAIN timeline : p > since /\ Cardinality(Later(p)) < Limit}

Poll ==
    /\ listener = "poll"
    /\ batch' = Window(IF token = None THEN 0 ELSE token)
    /\ token' = Len(timeline)
    /\ token' # token
    /\ listener' = IF batch' = {} THEN "poll" ELSE "events"
    /\ UNCHANGED <<ticketVars, boxVars, questionVars, natsVars, timeline, agent, log,
                   executed, again>>

(* pushToWorkerInbox() and pushStructuredCommand().  A chat message carries    *)
(* the id of its event, a command one made of the time.                       *)
Push(kind, id) ==
    /\ Len(mail) < MaxMail
    /\ mail' = Append(mail, [kind |-> kind, id |-> id, fate |-> "waiting"])
    /\ inbox' = inbox \cup {Len(mail) + 1}
    /\ pending' = FALSE
    /\ wire' = IF Nats THEN wire \cup {Len(mail) + 1} ELSE wire

Ignored == UNCHANGED <<boxVars, pending, wire>>

(* One event of the batch, a room's events in their order (the rooms come in  *)
(* any order).  handleMatrixMessage() relays to a mapped room whose ticket    *)
(* the registry knows; slash commands are executed wherever they are typed.   *)
HandleEvent ==
    /\ listener = "events"
    /\ \E p \in batch :
         /\ \A q \in batch : timeline[q].room = timeline[p].room => p <= q
         /\ batch' = batch \ {p}
         /\ IF timeline[p].kind = "slash"
            THEN /\ executed' = executed \cup {p}
                 /\ again' = IF p \in executed THEN again \cup {p} ELSE again
                 /\ Ignored
            ELSE /\ UNCHANGED <<executed, again>>
                 /\ IF timeline[p].room \in mapped /\ registered THEN Push("chat", p) ELSE Ignored
    /\ listener' = IF batch' = {} THEN "poll" ELSE "events"
    /\ UNCHANGED <<ticketVars, timeline, token, asked, queue, agent, log>>

(* A handler that throws ends the turn of the poll loop.                      *)
HandlerThrows ==
    /\ "throw" \in Failures
    /\ listener = "events"
    /\ batch' = {}
    /\ listener' = "poll"
    /\ UNCHANGED <<ticketVars, boxVars, questionVars, natsVars, timeline, token, agent, log,
                   executed, again>>

(* POST /admin-command.                                                       *)
AdminCommand ==
    /\ registered
    /\ Push("command", MaxEvents + Len(mail) + 1)
    /\ UNCHANGED <<ticketVars, listenerVars, asked, queue, agent, log>>

(* POST /worker-message of a question, up to its await on Matrix.             *)
RegisterQuestion ==
    /\ asked
    /\ asked' = FALSE
    /\ pending' = TRUE
    /\ UNCHANGED <<ticketVars, listenerVars, boxVars, natsVars, agent, log>>

(* The orchestrator restarts: of this, the registry alone is stored.  A post  *)
(* it has not answered fails.                                                 *)
Restart ==
    /\ "restart" \in Failures
    /\ token' = None /\ listener' = "off" /\ batch' = {}
    /\ mapped' = {} /\ inbox' = {} /\ pending' = FALSE /\ asked' = FALSE
    /\ mail' = Met(inbox, "lost")
    /\ agent' = IF agent.pc = "posting" THEN Back ELSE agent
    /\ UNCHANGED <<natsVars, timeline, rooms, registered, log, executed, again>>

-----------------------------------------------------------------------------
(* A worker is started for the ticket, with a room of its own or, by a        *)
(* recovery, with the room it had.  The rooms it had before stay mapped, and  *)
(* so does what is in the inbox.                                              *)
Spawn ==
    /\ agent.pc = "off"
    /\ \/ rooms < MaxRooms /\ rooms' = rooms + 1 /\ mapped' = mapped \cup {rooms + 1}
       \/ rooms > 0 /\ UNCHANGED <<rooms, mapped>>
    /\ registered' = TRUE
    /\ agent' = [Off EXCEPT !.pc = "task"]
    /\ UNCHANGED <<listenerVars, boxVars, questionVars, natsVars, log>>

Dies == agent' = Off /\ queue' = {}

(* The container ends; what the worker held is lost.  Recovery or             *)
(* reconciliation (module Supervision) may drop the entry.                    *)
Crash ==
    /\ "crash" \in Failures
    /\ agent.pc # "off"
    /\ Dies
    /\ mail' = Met(InHand, "lost")
    /\ registered' \in {registered, FALSE}
    /\ UNCHANGED <<listenerVars, questionVars, rooms, mapped, inbox, wire, log>>

(* /kill and DELETE /workers: the container is killed, then the entry and the *)
(* room go (unregisterWorkerRoom: the last room alone).                       *)
KillWorker ==
    /\ Dies
    /\ registered' = FALSE
    /\ mapped' = mapped \ {rooms}
    /\ inbox' = {} /\ pending' = FALSE
    /\ mail' = Met(InHand \cup inbox, "lost")
    /\ UNCHANGED <<listenerVars, rooms, asked, wire, log>>

-----------------------------------------------------------------------------
(* The worker.  Drain(S, pc): the inbox gives up S and the answer is on its   *)
(* way; poll_admin_inbox() drains everything, or what is not older than the   *)
(* question that is waiting.  (Variants: a peek; the rest is dropped; the age *)
(* is ignored.)                                                               *)
RemainingAll(S) == inbox
RemainingNone(S) == {}
Remaining(S) == inbox \ S

Drain(S, pc) ==
    /\ inbox' = Remaining(S)
    /\ agent' = [agent EXCEPT !.pc = pc, !.flight = S]

SinceEver(t) == inbox
Since(t) == {m \in inbox : m >= t}

(* agent.run() ends and the worker reports: /completed removes the entry,     *)
(* /blocked keeps it, and both close the question.  Then it enters the chat   *)
(* loop, where the NATS subscription begins.                                  *)
TaskEnds ==
    /\ agent.pc = "task"
    /\ agent' = [agent EXCEPT !.pc = "poll", !.subscribed = Nats]
    /\ \/ registered' \in {registered, FALSE} /\ pending' = FALSE
       \/ "http" \in Failures /\ UNCHANGED <<registered, pending>>
    /\ UNCHANGED <<listenerVars, boxVars, natsVars, rooms, mapped, asked, log>>

ChatPoll ==
    /\ agent.pc = "poll"
    /\ Drain(inbox, "response")
    /\ UNCHANGED <<ticketVars, listenerVars, questionVars, natsVars, mail, log>>

(* The loop goes on with what HTTP brought, then with the NATS queue.         *)
Response ==
    /\ agent.pc = "response"
    /\ \E arrives \in {TRUE} \cup (IF "http" \in Failures THEN {FALSE} ELSE {}) :
         /\ agent' = [agent EXCEPT !.pc = "handle", !.flight = {}, !.nats = queue,
                                   !.http = IF arrives THEN agent.flight ELSE {}]
         /\ mail' = IF arrives THEN mail ELSE Met(agent.flight, "lost")
    /\ queue' = {}
    /\ UNCHANGED <<ticketVars, listenerVars, questionVars, inbox, wire, log>>

(* The drain leaves the event id out of its answer, so _ingest_message() can  *)
(* only recognise copies that came over NATS.                                 *)
EventId(m, path) == IF path = "http" THEN None ELSE mail[m].id

(* The next message of the loop: a structured command is executed at once, a  *)
(* chat message starts the agent.                                             *)
Handle(m, path) ==
    /\ agent.pc = "handle"
    /\ IF EventId(m, path) \in agent.seen
       THEN /\ agent' = [agent EXCEPT ![path] = @ \ {m}]
            /\ UNCHANGED log
       ELSE /\ agent' = [agent EXCEPT ![path] = @ \ {m},
                                      !.seen = @ \cup ({EventId(m, path)} \ {None}),
                                      !.pc = IF mail[m].kind = "chat" THEN "chat" ELSE "handle"]
            /\ log' = [log EXCEPT ![path] = Append(@, m)]
    /\ mail' = IF path = "http" THEN Met({m}, "handled") ELSE mail
    /\ UNCHANGED <<ticketVars, listenerVars, questionVars, natsVars, inbox>>

HandleNext ==
    IF agent.http # {} THEN Handle(First(agent.http), "http")
    ELSE agent.nats # {} /\ Handle(First(agent.nats), "nats")

HandledAll ==
    /\ agent.pc = "handle" /\ agent.http = {} /\ agent.nats = {}
    /\ agent' = [agent EXCEPT !.pc = "poll"]
    /\ UNCHANGED <<ticketVars, listenerVars, boxVars, questionVars, natsVars, log>>

(* run_interactive() returns.                                                 *)
ChatEnds ==
    /\ agent.pc = "chat"
    /\ agent' = [agent EXCEPT !.pc = "handle"]
    /\ UNCHANGED <<ticketVars, listenerVars, boxVars, questionVars, natsVars, log>>

-----------------------------------------------------------------------------
(* The tool poll_admin_inbox(), called by the model.                          *)
ToolPoll ==
    /\ agent.pc \in {"task", "chat"}
    /\ inbox' = Remaining(inbox)
    /\ agent' = [agent EXCEPT !.pc = "tool", !.back = agent.pc, !.flight = inbox]
    /\ UNCHANGED <<ticketVars, listenerVars, questionVars, natsVars, mail, log>>

ToolReturns ==
    /\ agent.pc = "tool"
    /\ agent' = Back
    /\ \/ mail' = Met(agent.flight, "read")
       \/ "http" \in Failures /\ mail' = Met(agent.flight, "lost")
    /\ UNCHANGED <<ticketVars, listenerVars, questionVars, natsVars, inbox, log>>

(* ask_admin(): the question is posted, with the time noted.  A message       *)
(* pushed in the same millisecond counts as later.                            *)
Ask ==
    /\ agent.pc \in {"task", "chat"}
    /\ \E since \in {Len(mail), Len(mail) + 1} :
         agent' = [agent EXCEPT !.pc = "posting", !.back = agent.pc, !.since = since]
    /\ asked' = TRUE
    /\ UNCHANGED <<ticketVars, listenerVars, boxVars, natsVars, pending, log>>

Returns ==
    /\ agent' = Back
    /\ UNCHANGED <<ticketVars, listenerVars, questionVars, natsVars, inbox, log>>

(* The answer 200 comes after the question is registered.  (Variant: before.) *)
AcknowledgedEarly == TRUE
Acknowledged == ~ asked

Posted ==
    /\ agent.pc = "posting" /\ Acknowledged
    /\ agent' = [agent EXCEPT !.pc = "asking"]
    /\ UNCHANGED <<ticketVars, listenerVars, boxVars, questionVars, natsVars, log>>

PostFails ==
    /\ "http" \in Failures
    /\ agent.pc = "posting"
    /\ Returns
    /\ UNCHANGED mail

AskPoll ==
    /\ agent.pc = "asking"
    /\ Drain(Since(agent.since), "answer")
    /\ UNCHANGED <<ticketVars, listenerVars, questionVars, natsVars, mail, log>>

(* The latest message of the answer is the reply; the others are dropped.     *)
Answered ==
    /\ agent.pc = "answer" /\ agent.flight # {}
    /\ mail' = [Met(agent.flight, "superseded") EXCEPT ![Last(agent.flight)].fate = "answer"]
    /\ Returns

NoAnswer ==
    /\ agent.pc = "answer"
    /\ agent.flight = {} \/ "http" \in Failures
    /\ agent' = [agent EXCEPT !.pc = "asking", !.flight = {}]
    /\ mail' = Met(agent.flight, "lost")
    /\ UNCHANGED <<ticketVars, listenerVars, questionVars, natsVars, inbox, log>>

(* The ticket is marked BLOCKED (not on this path); the question stays.       *)
(* (Variant: only once somebody has written.)                                 *)
AskWaits ==
    /\ agent.pc = "asking" /\ ~ pending
    /\ Returns
    /\ UNCHANGED mail

AskTimesOut ==
    /\ agent.pc = "asking"
    /\ Returns
    /\ UNCHANGED mail

-----------------------------------------------------------------------------
(* NATS: a copy reaches the subscription, in order, if there is one, unless   *)
(* it is lost.  mark_event_seen() drops it if its event has arrived before,   *)
(* which takes a listener that answers an old event again.                    *)
Arrived == {mail[m].id : m \in queue \cup agent.nats} \cup agent.seen

Arrive ==
    /\ wire # {}
    /\ wire' = wire \ {First(wire)}
    /\ \/ /\ agent.subscribed
          /\ queue' = IF mail[First(wire)].id \in Arrived THEN queue ELSE queue \cup {First(wire)}
       \/ (agent.subscribed => "nats" \in Failures) /\ UNCHANGED queue
    /\ UNCHANGED <<ticketVars, listenerVars, boxVars, questionVars, agent, log>>

-----------------------------------------------------------------------------
Admin == \E kind \in {"chat", "slash"}, room \in 1 .. rooms : Type(kind, room)

Orchestrator ==
    \/ StartListening \/ InitialSync \/ Poll \/ HandleEvent \/ HandlerThrows
    \/ AdminCommand \/ RegisterQuestion \/ Restart \/ KillWorker

Worker ==
    \/ Spawn \/ Crash
    \/ TaskEnds \/ ChatPoll \/ Response \/ HandleNext \/ HandledAll \/ ChatEnds
    \/ ToolPoll \/ ToolReturns
    \/ Ask \/ Posted \/ PostFails \/ AskPoll \/ Answered \/ NoAnswer \/ AskTimesOut
    \/ Arrive

Next == Admin \/ Orchestrator \/ Worker

Spec == Init /\ [][Next]_vars

(* The awaits of the listener and of the worker settle, the model's runs end  *)
(* (max_iterations) and so does the wait for an answer.                       *)
Fairness ==
    /\ WF_vars(Poll) /\ WF_vars(HandleEvent) /\ WF_vars(RegisterQuestion)
    /\ WF_vars(ChatPoll) /\ WF_vars(Response) /\ WF_vars(HandleNext) /\ WF_vars(HandledAll)
    /\ WF_vars(ToolReturns) /\ WF_vars(Posted) /\ WF_vars(Answered) /\ WF_vars(NoAnswer)
    /\ SF_vars(TaskEnds) /\ SF_vars(ChatEnds) /\ SF_vars(AskTimesOut)

FairSpec == Spec /\ Fairness

-----------------------------------------------------------------------------
(***************************************************************************)
(* Properties.                                                             *)
(***************************************************************************)
TypeOK ==
    /\ timeline \in Seq(Event)
    /\ rooms \in 0 .. MaxRooms /\ mapped \subseteq 1 .. rooms
    /\ registered \in BOOLEAN /\ pending \in BOOLEAN /\ asked \in BOOLEAN
    /\ token \in Nat \cup {None}
    /\ listener \in {"off", "init", "poll", "events"}
    /\ batch \subseteq DOMAIN timeline
    /\ mail \in Seq(Mail) /\ Len(mail) <= MaxMail
    /\ inbox \subseteq DOMAIN mail /\ wire \subseteq DOMAIN mail /\ queue \subseteq DOMAIN mail
    /\ agent \in Agent
    /\ log \in [Path -> Seq(Stamp)]
    /\ again \subseteq executed /\ executed \subseteq DOMAIN timeline

(* Every message pushed is in exactly one place of the HTTP path as long as   *)
(* it waits, and in none once it has met its fate: no drain, answer, failure  *)
(* or death forgets one or leaves one behind.                                 *)
Waiting == {m \in DOMAIN mail : mail[m].fate = "waiting"}
Accounted ==
    /\ inbox \cup InHand = Waiting
    /\ inbox \cap InHand = {} /\ agent.flight \cap agent.http = {}

(* Each path delivers a message to the chat loop at most once, in the order   *)
(* the messages were pushed.                                                  *)
OncePerPath ==
    \A path \in Path : \A i, j \in DOMAIN log[path] :
        i < j => log[path][i] < log[path][j]

(* What ask_admin() returns was pushed after the question was asked.          *)
AnswerIsLater ==
    [][\A m \in DOMAIN mail :
         mail'[m].fate = "answer" /\ mail[m].fate # "answer" => m >= agent.since]_vars

(* While a worker waits for an answer, the question is listed as pending, or  *)
(* its answer has been pushed, or the orchestrator has forgotten the room.    *)
QuestionVisible ==
    agent.pc \in {"asking", "answer"} =>
        pending \/ Len(mail) >= agent.since \/ rooms \notin mapped

(* A message in the inbox of a worker that lives is taken out of it.          *)
InboxIsRead ==
    \A m \in Stamp : m \in inbox ~> m \notin inbox \/ agent.pc = "off"

(* The HTTP path is a Mailbox.                                                *)
HttpMailbox == INSTANCE Mailbox WITH last <- Len(mail), waiting <- Waiting, handled <- log["http"]
ImplementsMailbox == HttpMailbox!Spec

-----------------------------------------------------------------------------
(***************************************************************************)
(* What the documents and comments say and the code does not keep.         *)
(***************************************************************************)

(* nats_client.py: "Messages are deduplicated by eventId at the worker side,  *)
(* so dual-consumption is safe".                                              *)
Handled(path) == {log[path][i] : i \in DOMAIN log[path]}
HandledOnce == Handled("http") \cap Handled("nats") = {}

(* index.py: "After initial task, enter interactive mode to handle admin      *)
(* messages".  A worker in its chat loop can be reached through its room.     *)
ChatReaches == agent.pc \in {"poll", "response", "handle", "chat"} => registered /\ rooms \in mapped

(* matrix.ts: "Initial sync to obtain the sync token without processing old   *)
(* messages".  No command is executed twice.                                  *)
CommandsOnce == again = {}
=============================================================================
