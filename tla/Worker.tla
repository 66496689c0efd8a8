------------------------------- MODULE Worker -------------------------------
(***************************************************************************)
(* One worker of a ticket, life after life: main() of                      *)
(* base-worker/src/index.py, the loops run() and run_interactive() of      *)
(* agent/hermes_loop.py and the checkpoint file of checkpoint.py.          *)
(*                                                                         *)
(* What the model says is arbitrary.  A message of the conversation is     *)
(* "system" (the prompt), "done" (a tool's result in which the word DONE   *)
(* stands quoted) or "text".  Left out: prompts, parsing, heartbeats, the  *)
(* notification of each checkpoint (it sets statistics of the registry)    *)
(* and 'resumed' (the orchestrator has no such route), and what is in      *)
(* module Inbox.                                                           *)
(***************************************************************************)
EXTENDS Integers, Sequences, SequencesExt

CONSTANTS
    Volatile,       \* the checkpoint does not outlive the container
    Interval,       \* CHECKPOINT_INTERVAL
    Keep,           \* messages in a checkpoint (30)
    MaxMessages,    \* messages of a conversation (50)
    MaxIterations,  \* turns of run() and run_interactive() (15)
    Recent,         \* messages that _is_task_complete() looks at (5)
    Failures,       \* what may go wrong: "disk", "llm", "backend", "fatal", "crash"
    None

ASSUME VolatileAssumption == Volatile \in BOOLEAN
ASSUME BoundsAssumption ==
    /\ {Interval, Keep, MaxMessages, MaxIterations, Recent} \subseteq Nat \ {0}
    /\ Keep < MaxMessages /\ Recent < MaxMessages /\ MaxMessages > 2

VARIABLES
    disk,       \* the checkpoint and its temporary file
    saved,      \* history: a checkpoint has been saved and not been cleared
    torn,       \* history: a later save() ended between remove and rename
    agent,      \* the program: where it is and its variables
    ticket,     \* the status of the ticket in Plane
    told        \* the outcomes posted in this life

vars == <<disk, saved, torn, agent, ticket, told>>
files == <<disk, saved, torn>>

Message == {"system", "text", "done"}
Status  == {"TODO", "IN_PROGRESS", "BLOCKED", "DONE"}
Result  == {"none", "done", "blocked", "max_iterations"}

(* of: whose conversation it is.                                              *)
Checkpoint == [of : {"task", "chat"}, iteration : 1 .. MaxIterations, messages : Seq(Message)]

(* "think" asks the model, "tool" runs a call of its answer, "called" has run *)
(* one, "check" looks whether the task is complete; "write", "remove" and     *)
(* "rename" are save(), which goes on at back; "chat" waits for the admin.    *)
(* turn is the loop's variable, iteration context['iteration'].               *)
PC == {"off", "boot", "think", "tool", "called", "check", "write", "remove", "rename",
       "report", "post", "chat"}
Agent == [pc : PC, back : {"called", "check"}, mode : {"task", "chat"}, turn : 0 .. MaxIterations,
          iteration : 0 .. MaxIterations, messages : Seq(Message), restored : BOOLEAN,
          result : Result]

Off == [pc |-> "off", back |-> "check", mode |-> "task", turn |-> 0, iteration |-> 0,
        messages |-> << >>, restored |-> FALSE, result |-> "none"]

ASSUME NoneAssumption == None \notin Checkpoint

NoFile == [file |-> None, tmp |-> None]

Init ==
    /\ disk = NoFile /\ saved = FALSE /\ torn = FALSE
    /\ agent = Off /\ ticket = "TODO" /\ told = << >>

-----------------------------------------------------------------------------
LastOf(n, s) == SubSeq(s, Len(s) - n + 1, Len(s))
AtMost(n, s) == IF Len(s) > n THEN LastOf(n, s) ELSE s

(* _add_message(): the first message and the last ones stay.  (Variants:      *)
(* only the last ones; one too many.)                                         *)
TrimPlain(s) == AtMost(MaxMessages, s)
TrimLate(s) == IF Len(s) > MaxMessages + 1 THEN <<Head(s)>> \o LastOf(MaxMessages - 1, s) ELSE s
Trim(s) == IF Len(s) > MaxMessages THEN <<Head(s)>> \o LastOf(MaxMessages - 1, s) ELSE s

Add(s, m) == Trim(Append(s, m))

(* run() and run_interactive() put the prompt behind what is there.           *)
Started(s) == Add(Append(s, "system"), "text")

(* A value that may be another one when something has failed.                 *)
Or(failure, normal, otherwise) == IF failure \in Failures THEN {normal, otherwise} ELSE {normal}

(* The loop ends: the task is reported, a chat answered.                      *)
Ends(a, result) ==
    IF a.mode = "task" THEN [a EXCEPT !.pc = "report", !.result = result] ELSE [a EXCEPT !.pc = "chat"]

-----------------------------------------------------------------------------
(* The container starts: docker-entrypoint.sh empties /tmp, and the files of  *)
(* the one before went with it.                                               *)
Start ==
    /\ agent.pc = "off"
    /\ agent' = [Off EXCEPT !.pc = "boot"]
    /\ disk' = IF Volatile THEN NoFile ELSE disk
    /\ told' = << >>
    /\ UNCHANGED <<saved, torn, ticket>>

(* main() up to agent.run(): the checkpoint is restored if it can be read.    *)
Boot ==
    /\ agent.pc = "boot"
    /\ ticket' \in Or("backend", "IN_PROGRESS", ticket)
    /\ \E found \in Or("disk", disk.file, None) :
         agent' = [agent EXCEPT !.pc = "think",
                                !.restored = found # None,
                                !.messages = Started(IF found = None THEN << >> ELSE found.messages)]
    /\ UNCHANGED <<files, told>>

(* A message of the admin is answered by a new agent.                         *)
ChatStarts ==
    /\ agent.pc = "chat"
    /\ agent' = [agent EXCEPT !.pc = "think", !.mode = "chat", !.turn = 0, !.restored = FALSE,
                              !.messages = Started(<< >>)]
    /\ UNCHANGED <<files, ticket, told>>

(* A turn of the loop: the model is asked.  Without a tool call a chat is     *)
(* answered, and the task goes on.                                            *)
Answer == [agent EXCEPT !.turn = agent.turn + 1, !.iteration = agent.turn + 1,
                        !.messages = Add(agent.messages, "text")]

Think ==
    /\ agent.pc = "think"
    /\ agent.turn < MaxIterations
    /\ \/ agent' = Ends(Answer, "done")
       \/ agent' = Ends(Answer, "blocked")
       \/ agent.mode = "task" /\ agent' = Answer
       \/ agent' = [Answer EXCEPT !.pc = "tool"]
       \/ "llm" \in Failures /\ agent' = Ends([Answer EXCEPT !.messages = agent.messages], "blocked")
    /\ UNCHANGED <<files, ticket, told>>

MaxReached ==
    /\ agent.pc = "think" /\ agent.turn = MaxIterations
    /\ agent' = Ends(agent, "max_iterations")
    /\ UNCHANGED <<files, ticket, told>>

-----------------------------------------------------------------------------
(* A tool returns: its result is a message.                                   *)
Returned(a, m) == [a EXCEPT !.pc = "called", !.messages = Add(a.messages, m)]

(* Any tool.  A result may quote the word DONE because the tool has set the   *)
(* ticket's status, or because it has read some ticket.                       *)
CallTool ==
    /\ agent.pc = "tool"
    /\ \/ \E m \in {"text", "done"} : agent' = Returned(agent, m) /\ UNCHANGED ticket
       \/ agent' = Returned(agent, "done") /\ ticket' = "DONE"
    /\ UNCHANGED <<files, told>>

(* The tools of the checkpoint.                                               *)
CallSave ==
    /\ agent.pc = "tool"
    /\ agent' = [agent EXCEPT !.pc = "write", !.back = "called"]
    /\ UNCHANGED <<files, ticket, told>>

(* restore() takes the conversation and the iteration; the loop goes on with  *)
(* its own variable.  (Variant: with the iteration restored.)                 *)
RestoredTurn(a, c) == [a EXCEPT !.messages = c.messages, !.iteration = c.iteration,
                                !.restored = TRUE, !.turn = c.iteration - 1]
Restored(a, c) == [a EXCEPT !.messages = c.messages, !.iteration = c.iteration, !.restored = TRUE]

CallLoad ==
    /\ agent.pc = "tool"
    /\ \E found \in Or("disk", disk.file, None) :
         agent' = Returned(IF found = None THEN agent ELSE Restored(agent, found), "text")
    /\ UNCHANGED <<files, ticket, told>>

(* clear() swallows its errors.                                               *)
Clear ==
    \/ disk' = [disk EXCEPT !.file = None] /\ saved' = FALSE /\ torn' = FALSE
    \/ "disk" \in Failures /\ UNCHANGED files

CallClear ==
    /\ agent.pc = "tool"
    /\ Clear
    /\ agent' = Returned(agent, "text")
    /\ UNCHANGED <<ticket, told>>

NextCall ==
    /\ agent.pc = "called"
    /\ agent' = [agent EXCEPT !.pc = "tool"]
    /\ UNCHANGED <<files, ticket, told>>

(* All calls of the answer are done: run() saves every Interval iterations.   *)
CallsDone ==
    /\ agent.pc = "called"
    /\ agent' = IF agent.mode = "task" /\ agent.iteration % Interval = 0
                THEN [agent EXCEPT !.pc = "write", !.back = "check"]
                ELSE [agent EXCEPT !.pc = "check"]
    /\ UNCHANGED <<files, ticket, told>>

(* _is_task_complete(): one of the last messages is a result with DONE in it. *)
TaskComplete == Contains(AtMost(Recent, agent.messages), "done")

Check ==
    /\ agent.pc = "check"
    /\ agent' = IF TaskComplete THEN Ends(agent, "done") ELSE [agent EXCEPT !.pc = "think"]
    /\ UNCHANGED <<files, ticket, told>>

-----------------------------------------------------------------------------
(* save().  (Variant: a temporary file that is there already is not written.) *)
Snapshot == [of |-> agent.mode, iteration |-> agent.iteration,
             messages |-> AtMost(Keep, agent.messages)]

WrittenOnce == IF disk.tmp = None THEN Snapshot ELSE disk.tmp
Written == Snapshot

SaveReturns(a) == IF a.back = "check" THEN [a EXCEPT !.pc = "check"] ELSE Returned(a, "text")

WriteTemp ==
    /\ agent.pc = "write"
    /\ disk' = [disk EXCEPT !.tmp = Written]
    /\ agent' = [agent EXCEPT !.pc = "remove"]
    /\ UNCHANGED <<saved, torn, ticket, told>>

RemoveOld ==
    /\ agent.pc = "remove"
    /\ disk' = [disk EXCEPT !.file = None]
    /\ agent' = [agent EXCEPT !.pc = "rename"]
    /\ UNCHANGED <<saved, torn, ticket, told>>

Rename ==
    /\ agent.pc = "rename"
    /\ disk' = [file |-> disk.tmp, tmp |-> None]
    /\ saved' = TRUE /\ torn' = FALSE
    /\ agent' = SaveReturns(agent)
    /\ UNCHANGED <<ticket, told>>

(* Any of the three raises; what has been done so far stays.                  *)
SaveFails ==
    /\ "disk" \in Failures
    /\ agent.pc \in {"write", "remove", "rename"}
    /\ agent' = SaveReturns(agent)
    /\ torn' = (torn \/ agent.pc = "rename")
    /\ UNCHANGED <<disk, saved, ticket, told>>

-----------------------------------------------------------------------------
(* main() after the run: a task that is done loses its checkpoint, any other  *)
(* is marked BLOCKED; then the outcome is posted, once.  (Variant: a run that  *)
(* reached the limit counts as done.)                                          *)
OutcomeOfLimit(result) == IF result = "blocked" THEN "blocked" ELSE "completed"
Outcome(result) == IF result = "done" THEN "completed" ELSE "blocked"

Report ==
    /\ agent.pc = "report"
    /\ IF agent.result = "done"
       THEN Clear /\ UNCHANGED ticket
       ELSE ticket' \in Or("backend", "BLOCKED", ticket) /\ UNCHANGED files
    /\ agent' = [agent EXCEPT !.pc = "post"]
    /\ UNCHANGED told

(* With a room the worker goes on to chat; without one it exits.              *)
Post ==
    /\ agent.pc = "post"
    /\ told' = Append(told, Outcome(agent.result))
    /\ agent' \in {[agent EXCEPT !.pc = "chat"], Off}
    /\ UNCHANGED <<files, ticket>>

(* An exception reaches main(), which reports it and exits.  Those of a chat  *)
(* are caught in its loop.                                                    *)
Fatal ==
    /\ "fatal" \in Failures
    /\ agent.pc \in {"boot", "think"} /\ agent.mode = "task"
    /\ ticket' \in Or("backend", "BLOCKED", ticket)
    /\ told' = Append(told, "blocked")
    /\ agent' = Off
    /\ UNCHANGED files

Crash ==
    /\ "crash" \in Failures
    /\ agent.pc # "off"
    /\ torn' = (torn \/ agent.pc = "rename")
    /\ agent' = Off
    /\ UNCHANGED <<disk, saved, ticket, told>>

-----------------------------------------------------------------------------
Call == CallTool \/ CallSave \/ CallLoad \/ CallClear
Save == WriteTemp \/ RemoveOld \/ Rename \/ SaveFails

Next ==
    \/ Start \/ Boot \/ ChatStarts
    \/ Think \/ MaxReached \/ Call \/ NextCall \/ CallsDone \/ Check
    \/ Save
    \/ Report \/ Post \/ Fatal \/ Crash

Spec == Init /\ [][Next]_vars

(* The program runs on (every call it makes has a timeout), and an answer of  *)
(* the model has finitely many tool calls.                                    *)
Fairness ==
    /\ WF_vars(Boot) /\ WF_vars(Think \/ MaxReached) /\ WF_vars(Call) /\ SF_vars(CallsDone)
    /\ WF_vars(Check) /\ WF_vars(Save) /\ WF_vars(Report) /\ WF_vars(Post)

FairSpec == Spec /\ Fairness

-----------------------------------------------------------------------------
(***************************************************************************)
(* Properties.                                                             *)
(***************************************************************************)
TypeOK ==
    /\ disk \in [file : Checkpoint \cup {None}, tmp : Checkpoint \cup {None}]
    /\ saved \in BOOLEAN /\ torn \in BOOLEAN
    /\ agent \in Agent /\ Len(agent.messages) <= MaxMessages
    /\ ticket \in Status
    /\ told \in Seq({"completed", "blocked"})

(* A checkpoint that has been saved is there until it is cleared, unless a    *)
(* save was interrupted after it had removed the old one; and the file that   *)
(* replaces it is the state of the agent that saves.                          *)
SavedSurvives ==
    /\ ~ Volatile /\ saved => torn \/ agent.pc = "rename" \/ disk.file # None
    /\ agent.pc \in {"remove", "rename"} => disk.tmp = Snapshot

(* An agent that has not been restored is asked with the prompt in front,     *)
(* however long the conversation gets.                                        *)
PromptKept ==
    agent.pc # "off" /\ agent.messages # << >> /\ ~ agent.restored => Head(agent.messages) = "system"

(* A life posts at most one outcome, and has posted the one of its task when  *)
(* it begins to chat.                                                         *)
OutcomeReported ==
    /\ Len(told) <= 1
    /\ agent.pc = "chat" \/ agent.mode = "chat" =>
         told = <<IF agent.result = "done" THEN "completed" ELSE "blocked">>

(* Whatever the model answers and the tools do, a worker that is busy comes   *)
(* to an end of its task or its chat.                                         *)
WorkerEnds == agent.pc \notin {"off", "chat"} ~> agent.pc \in {"off", "chat"}

-----------------------------------------------------------------------------
(***************************************************************************)
(* What the documents and comments say and the code does not keep.         *)
(***************************************************************************)

(* hermes_loop.py: "Check if a tool updated ticket to done/blocked".  A task  *)
(* that ends at this check has been set DONE by a tool.                       *)
CompletedIsMeant ==
    [][agent.pc = "check" /\ agent'.pc = "report" => ticket = "DONE"]_vars

(* worker-communication-protocol.md: the checkpoint "ensures a worker can     *)
(* resume from where it left off".                                            *)
Resumes == [][agent.pc = "boot" /\ saved /\ agent'.pc = "think" => agent'.restored]_vars

(* checkpoint.py: "Write atomically (write to temp then rename)".             *)
NeverWithout == saved => disk.file # None

(* hermes_loop.py: "Keep system prompt (first) + last N messages".            *)
PromptAlways == agent.pc = "think" => Contains(agent.messages, "system")

(* index.py: "Reuse the same checkpoint manager so recovery state persists".  *)
(* A chat does not remove the checkpoint of the task.                         *)
TaskStaysSaved ==
    [][agent.pc = "remove" /\ agent.mode = "chat" => disk.file = None \/ disk.file.of = "chat"]_vars
=============================================================================
