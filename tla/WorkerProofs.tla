----------------------------- MODULE WorkerProofs -----------------------------
(***************************************************************************)
(* Proofs about Worker, for any interval, lengths of conversations and     *)
(* checkpoints, number of turns, and failures.                             *)
(***************************************************************************)
EXTENDS Worker, SequenceTheorems, TLAPS

Saving == {"write", "remove", "rename"}

(* A worker that runs the calls of an answer has begun a turn.                  *)
TurnBegun == agent.pc \in {"tool", "called", "check"} \cup Saving => agent.iteration # 0

TypeInv == TypeOK /\ TurnBegun

(* An agent that was asked has the prompt and what followed it.                 *)
PromptInv ==
    /\ agent.pc = "boot" => agent.messages = << >>
    /\ agent.pc \notin {"off", "boot"} /\ ~ agent.restored =>
           agent.messages # << >> /\ Head(agent.messages) = "system"

(* Nothing is posted before the task has ended, and it is once the worker chats. *)
OutcomeInv ==
    /\ agent.pc \in {"off", "boot", "report", "post"} => agent.mode = "task"
    /\ agent.pc \notin {"off", "chat"} /\ agent.mode = "task" => told = << >>
    /\ OutcomeReported

-----------------------------------------------------------------------------
(* The last n messages of a conversation.                                       *)
LEMMA LastOfProperties ==
    ASSUME NEW s \in Seq(Message), NEW n \in 0 .. Len(s)
    PROVE  LastOf(n, s) \in Seq(Message) /\ Len(LastOf(n, s)) = n
  <1>1. \A i \in Len(s) - n + 1 .. Len(s) : s[i] \in Message
    OBVIOUS
  <1>2. Len(s) - n + 1 \in Int /\ Len(s) \in Int
    OBVIOUS
  <1> QED BY <1>1, <1>2, SubSeqProperties DEF LastOf

LEMMA AtMostType ==
    ASSUME NEW s \in Seq(Message), NEW n \in Nat PROVE AtMost(n, s) \in Seq(Message)
  BY LastOfProperties DEF AtMost

(* _add_message(): a conversation keeps its type, its bound and its first       *)
(* message.                                                                     *)
LEMMA AddProperties ==
    ASSUME NEW s \in Seq(Message), NEW m \in Message
    PROVE  /\ Add(s, m) \in Seq(Message)
           /\ Add(s, m) # << >> /\ Len(Add(s, m)) <= MaxMessages
           /\ Head(Add(s, m)) = IF s = << >> THEN m ELSE Head(s)
  <1> DEFINE a == Append(s, m)
             tail == LastOf(MaxMessages - 1, a)
  <1>1. a \in Seq(Message) /\ Len(a) = Len(s) + 1 /\ a # << >> /\ Head(a) = IF s = << >> THEN m ELSE Head(s)
    BY AppendProperties, HeadTailAppend
  <1>2. MaxMessages \in Nat /\ MaxMessages > 2
    BY BoundsAssumption
  <1>3. CASE Len(a) > MaxMessages
    <2>0. MaxMessages - 1 \in 0 .. Len(a)
      BY <1>1, <1>2, <1>3
    <2>1. tail \in Seq(Message) /\ Len(tail) = MaxMessages - 1
      <3> HIDE DEF a
      <3> QED BY <2>0, <1>1, LastOfProperties
    <2>2. Head(a) \in Message
      BY <1>1
    <2>3. <<Head(a)>> \in Seq(Message) /\ Len(<<Head(a)>>) = 1
      BY <2>2
    <2>4. Add(s, m) = <<Head(a)>> \o tail
      BY <1>3 DEF Add, Trim
    <2> HIDE DEF tail, a
    <2>5. Add(s, m) \in Seq(Message) /\ Len(Add(s, m)) = MaxMessages /\ Add(s, m)[1] = Head(a)
      BY <2>1, <2>2, <2>3, <2>4, <1>2, ConcatProperties
    <2>6. Head(Add(s, m)) = Head(a) /\ Add(s, m) # << >>
      BY <2>5, <1>2
    <2> QED BY <2>5, <2>6, <1>1, <1>2
  <1>4. CASE ~ Len(a) > MaxMessages
    BY <1>1, <1>2, <1>4 DEF Add, Trim
  <1> QED BY <1>3, <1>4

(* run() and run_interactive() begin with the prompt when nothing was there.    *)
LEMMA StartedProperties ==
    ASSUME NEW s \in Seq(Message)
    PROVE  /\ Started(s) \in Seq(Message)
           /\ Started(s) # << >> /\ Len(Started(s)) <= MaxMessages
           /\ s = << >> => Head(Started(s)) = "system"
  <1>1. Append(s, "system") \in Seq(Message) /\ Append(s, "system") # << >>
    BY AppendProperties DEF Message
  <1>2. s = << >> => Head(Append(s, "system")) = "system"
    BY HeadTailAppend
  <1>3. "text" \in Message
    BY DEF Message
  <1> QED BY <1>1, <1>2, <1>3, AddProperties DEF Started
-----------------------------------------------------------------------------
LEMMA AgentAdds ==
    ASSUME TypeInv, NEW m \in Message
    PROVE  Add(agent.messages, m) \in Seq(Message) /\ Len(Add(agent.messages, m)) <= MaxMessages
  BY AddProperties DEF TypeInv, TypeOK, Agent

(* What a checkpoint holds.                                                     *)
LEMMA FoundProperties ==
    ASSUME TypeInv, NEW found \in Or("disk", disk.file, None), found # None
    PROVE  /\ found \in Checkpoint /\ found.messages \in Seq(Message)
           /\ found.iteration \in 0 .. MaxIterations /\ found.iteration # 0
  <1>1. found \in Checkpoint
    BY DEF TypeInv, TypeOK, Or
  <1>2. MaxIterations \in Nat
    BY BoundsAssumption
  <1> QED BY <1>1, <1>2 DEF Checkpoint

FilesTyped ==
    /\ disk \in [file : Checkpoint \cup {None}, tmp : Checkpoint \cup {None}]
    /\ saved \in BOOLEAN /\ torn \in BOOLEAN
AgentTyped == agent \in Agent /\ Len(agent.messages) <= MaxMessages /\ TurnBegun

LEMMA TypeParts == TypeInv <=> FilesTyped /\ AgentTyped /\ ticket \in Status
                                    /\ told \in Seq({"completed", "blocked"})
  BY DEF TypeInv, TypeOK, FilesTyped, AgentTyped

LEMMA OffType == Off \in Agent /\ Off.pc = "off" /\ Off.messages = << >> /\ Len(Off.messages) <= MaxMessages
  BY BoundsAssumption DEF Off, Agent, PC, Result

(* The initial states have their type.                                          *)
LEMMA InitType == Init => TypeInv
  <1> SUFFICES ASSUME Init PROVE TypeInv
    OBVIOUS
  <1>1. AgentTyped
    BY OffType DEF Init, AgentTyped, TurnBegun, Saving
  <1>2. FilesTyped /\ ticket \in Status
    BY DEF Init, NoFile, FilesTyped, Status
  <1>3. told \in Seq({"completed", "blocked"})
    BY DEF Init
  <1> QED BY <1>1, <1>2, <1>3, TypeParts

(* The end of the loop.                                                         *)
LEMMA EndsType ==
    ASSUME NEW a \in Agent, NEW result \in Result \ {"none"}
    PROVE  /\ Ends(a, result) \in Agent /\ Ends(a, result).messages = a.messages
           /\ Ends(a, result).pc \in {"report", "chat"}
  BY DEF Ends, Agent, PC

LEMMA StartsType ==
    ASSUME TypeInv, Start \/ Boot \/ ChatStarts PROVE TypeInv'
  <1> USE DEF TypeInv, TypeOK
  <1>1. CASE Start
    <2>1. AgentTyped'
      BY <1>1, OffType DEF Start, Agent, PC, AgentTyped, TurnBegun, Saving
    <2>2. FilesTyped' /\ ticket' \in Status
      BY <1>1 DEF Start, NoFile, FilesTyped
    <2>3. told' \in Seq({"completed", "blocked"})
      BY <1>1 DEF Start
    <2> QED BY <2>1, <2>2, <2>3, TypeParts DEF FilesTyped, AgentTyped
  <1>2. CASE Boot
    <2>1. PICK found \in Or("disk", disk.file, None) :
             agent' = [agent EXCEPT !.pc = "think", !.restored = found # None,
                                    !.messages = Started(IF found = None THEN << >> ELSE found.messages)]
      BY <1>2 DEF Boot
    <2>2. (IF found = None THEN << >> ELSE found.messages) \in Seq(Message)
      BY FoundProperties
    <2> DEFINE c == Started(IF found = None THEN << >> ELSE found.messages)
               r == found # None
    <2>3. c \in Seq(Message) /\ Len(c) <= MaxMessages /\ r \in BOOLEAN
      BY <2>2, StartedProperties
    <2>4. agent' = [agent EXCEPT !.pc = "think", !.restored = r, !.messages = c]
      BY <2>1
    <2> HIDE DEF c, r
    <2>5. agent' \in Agent /\ agent'.pc = "think" /\ Len(agent'.messages) <= MaxMessages
      BY <2>3, <2>4 DEF Agent, PC
    <2>6. ticket' \in Status
      BY <1>2 DEF Boot, Or, Status
    <2> QED BY <1>2, <2>5, <2>6 DEF Boot, TurnBegun, Saving, files
  <1>3. CASE ChatStarts
    <2>1. Started(<< >>) \in Seq(Message) /\ Len(Started(<< >>)) <= MaxMessages
      BY StartedProperties, EmptySeq
    <2> DEFINE c == Started(<< >>)
    <2>2. agent' = [agent EXCEPT !.pc = "think", !.mode = "chat", !.turn = 0, !.restored = FALSE, !.messages = c]
      BY <1>3 DEF ChatStarts
    <2>3. 0 \in 0 .. MaxIterations
      BY BoundsAssumption
    <2> HIDE DEF c
    <2>4. agent' \in Agent /\ agent'.pc = "think" /\ Len(agent'.messages) <= MaxMessages
      BY <2>1, <2>2, <2>3 DEF Agent, PC, c
    <2> QED BY <1>3, <2>4 DEF ChatStarts, TurnBegun, Saving, files
  <1> QED BY <1>1, <1>2, <1>3

LEMMA ThinkType ==
    ASSUME TypeInv, Think \/ MaxReached PROVE TypeInv'
  <1> USE DEF TypeInv, TypeOK
  <1>1. CASE Think
    <2>1. "text" \in Message /\ {"done", "blocked"} \subseteq Result \ {"none"}
      BY DEF Message, Result
    <2>2. agent.turn \in Nat /\ agent.turn + 1 \in 0 .. MaxIterations /\ agent.turn + 1 # 0
      BY <1>1, BoundsAssumption DEF Think, Agent
    <2>3. /\ Answer \in Agent /\ Len(Answer.messages) <= MaxMessages
          /\ Answer.pc = "think" /\ Answer.iteration # 0
      BY <1>1, <2>1, <2>2, AgentAdds DEF Think, Answer, Agent
    <2>4. ASSUME NEW a \in {Answer, [Answer EXCEPT !.messages = agent.messages]},
                 NEW result \in {"done", "blocked"}, agent' = Ends(a, result)
          PROVE  agent' \in Agent /\ Len(agent'.messages) <= MaxMessages /\ agent'.pc \in {"report", "chat"}
      <3>1. a \in Agent /\ Len(a.messages) <= MaxMessages
        BY <2>3 DEF Agent
      <3> QED BY <3>1, <2>1, <2>4, EndsType
    <2>5. ASSUME agent' = [Answer EXCEPT !.pc = "tool"]
          PROVE  agent' \in Agent /\ Len(agent'.messages) <= MaxMessages /\ agent'.iteration # 0
      BY <2>3, <2>5 DEF Agent, PC
    <2>6. AgentTyped'
      BY <1>1, <2>3, <2>4, <2>5 DEF Think, AgentTyped, TurnBegun, Saving
    <2> QED BY <1>1, <2>6, TypeParts DEF Think, AgentTyped, files
  <1>2. CASE MaxReached
    BY <1>2, EndsType DEF MaxReached, TurnBegun, Saving, Result, files
  <1> QED BY <1>1, <1>2

(* A tool's result is one more message.                                         *)
LEMMA ReturnedType ==
    ASSUME NEW a \in Agent, NEW m \in {"text", "done"}, a.iteration # 0, agent' = Returned(a, m)
    PROVE  AgentTyped' /\ agent'.pc = "called"
  <1>1. Add(a.messages, m) \in Seq(Message) /\ Len(Add(a.messages, m)) <= MaxMessages
    BY AddProperties DEF Agent, Message
  <1> QED BY <1>1 DEF Returned, AgentTyped, TurnBegun, Agent, PC

LEMMA ClearType ==
    ASSUME FilesTyped, Clear \/ UNCHANGED files PROVE FilesTyped'
  BY DEF Clear, FilesTyped, files

LEMMA CallType ==
    ASSUME TypeInv, Call PROVE TypeInv'
  <1>1. agent \in Agent /\ agent.iteration # 0
    BY DEF TypeInv, TypeOK, TurnBegun, Call, CallTool, CallSave, CallLoad, CallClear
  <1>2. FilesTyped /\ ticket \in Status /\ told \in Seq({"completed", "blocked"})
    BY DEF TypeInv, TypeOK, FilesTyped
  <1>3. CASE CallTool
    <2>1. AgentTyped'
      BY <1>1, <1>3, ReturnedType DEF CallTool
    <2> QED BY <1>2, <1>3, <2>1 DEF CallTool, TypeInv, TypeOK, AgentTyped, FilesTyped, files, Status
  <1>4. CASE CallSave
    <2>1. AgentTyped'
      BY <1>1, <1>4 DEF CallSave, AgentTyped, TurnBegun, Agent, PC, TypeInv, TypeOK
    <2> QED BY <1>2, <1>4, <2>1 DEF CallSave, TypeInv, TypeOK, AgentTyped, FilesTyped, files
  <1>5. CASE CallLoad
    <2>1. PICK found \in Or("disk", disk.file, None) :
             agent' = Returned(IF found = None THEN agent ELSE Restored(agent, found), "text")
      BY <1>5 DEF CallLoad
    <2>2. ASSUME found = None PROVE AgentTyped'
      BY <1>1, <2>1, <2>2, ReturnedType
    <2>3. ASSUME found # None PROVE AgentTyped'
      <3>1. Restored(agent, found) \in Agent /\ Restored(agent, found).iteration # 0
        BY <1>1, <2>3, FoundProperties DEF Restored, Agent
      <3> QED BY <2>1, <2>3, <3>1, ReturnedType
    <2>4. AgentTyped'
      BY <2>2, <2>3
    <2> QED BY <1>2, <1>5, <2>4 DEF CallLoad, TypeInv, TypeOK, AgentTyped, FilesTyped, files
  <1>6. CASE CallClear
    <2>1. AgentTyped' /\ FilesTyped'
      BY <1>1, <1>2, <1>6, ReturnedType, ClearType DEF CallClear
    <2> QED BY <1>2, <1>6, <2>1 DEF CallClear, TypeInv, TypeOK, AgentTyped, FilesTyped
  <1> QED BY <1>3, <1>4, <1>5, <1>6 DEF Call

LEMMA CheckType ==
    ASSUME TypeInv, NextCall \/ CallsDone \/ Check PROVE TypeInv'
  <1> USE DEF TypeInv, TypeOK
  <1>1. AgentTyped'
    <2>1. CASE NextCall
      BY <2>1 DEF NextCall, AgentTyped, TurnBegun, Saving, Agent, PC
    <2>2. CASE CallsDone
      BY <2>2 DEF CallsDone, AgentTyped, TurnBegun, Saving, Agent, PC
    <2>3. CASE Check
      <3>1. Ends(agent, "done") \in Agent /\ Ends(agent, "done").messages = agent.messages
            /\ Ends(agent, "done").pc \in {"report", "chat"}
        BY EndsType DEF Result
      <3> QED BY <2>3, <3>1 DEF Check, AgentTyped, TurnBegun, Saving, Agent, PC
    <2> QED BY <2>1, <2>2, <2>3
  <1> QED BY <1>1 DEF NextCall, CallsDone, Check, AgentTyped, files

(* save() writes a checkpoint of the conversation as it is.                     *)
LEMMA SnapshotType ==
    ASSUME AgentTyped, agent.iteration # 0 PROVE Snapshot \in Checkpoint
  <1>1. agent.iteration \in 1 .. MaxIterations /\ agent.mode \in {"task", "chat"}
    BY BoundsAssumption DEF AgentTyped, Agent
  <1>2. AtMost(Keep, agent.messages) \in Seq(Message)
    BY AtMostType, BoundsAssumption DEF AgentTyped, Agent
  <1> QED BY <1>1, <1>2 DEF Snapshot, Checkpoint

LEMMA SaveType ==
    ASSUME TypeInv, Save PROVE TypeInv'
  <1>1. AgentTyped /\ FilesTyped /\ ticket \in Status /\ told \in Seq({"completed", "blocked"})
    BY TypeParts
  <1>2. agent.iteration # 0 /\ agent \in Agent /\ agent.pc \in Saving
    BY <1>1 DEF AgentTyped, TurnBegun, Save, WriteTemp, RemoveOld, Rename, SaveFails, Saving
  <1>3. UNCHANGED <<ticket, told>>
    BY DEF Save, WriteTemp, RemoveOld, Rename, SaveFails
  <1>4. AgentTyped'
    <2>1. CASE agent' = SaveReturns(agent)
      <3>1. CASE agent.back = "check"
        BY <1>1, <1>2, <2>1, <3>1 DEF SaveReturns, AgentTyped, TurnBegun, Agent, PC
      <3>2. CASE agent.back # "check"
        BY <1>2, <2>1, <3>2, ReturnedType DEF SaveReturns
      <3> QED BY <3>1, <3>2
    <2>2. CASE agent' \in {[agent EXCEPT !.pc = "remove"], [agent EXCEPT !.pc = "rename"]}
      BY <1>1, <1>2, <2>2 DEF AgentTyped, TurnBegun, Agent, PC
    <2> QED BY <2>1, <2>2 DEF Save, WriteTemp, RemoveOld, Rename, SaveFails
  <1>5. FilesTyped'
    <2>1. Snapshot \in Checkpoint
      BY <1>1, <1>2, SnapshotType
    <2>2. CASE WriteTemp
      BY <1>1, <2>1, <2>2 DEF WriteTemp, Written, FilesTyped
    <2>3. CASE RemoveOld
      BY <1>1, <2>3 DEF RemoveOld, FilesTyped
    <2>4. CASE Rename
      BY <1>1, <2>4 DEF Rename, FilesTyped
    <2>5. CASE SaveFails
      BY <1>1, <2>5 DEF SaveFails, FilesTyped
    <2> QED BY <2>2, <2>3, <2>4, <2>5 DEF Save
  <1> QED BY <1>1, <1>3, <1>4, <1>5 DEF AgentTyped, FilesTyped, TypeInv, TypeOK

LEMMA EndType ==
    ASSUME TypeInv, Report \/ Post \/ Fatal \/ Crash PROVE TypeInv'
  <1>1. AgentTyped /\ FilesTyped /\ ticket \in Status /\ told \in Seq({"completed", "blocked"})
    BY TypeParts
  <1>2. AgentTyped'
    <2>1. CASE agent' = Off
      BY <2>1, OffType DEF AgentTyped, TurnBegun, Saving
    <2>2. CASE agent' \in {[agent EXCEPT !.pc = "post"], [agent EXCEPT !.pc = "chat"]}
      BY <1>1, <2>2 DEF AgentTyped, TurnBegun, Saving, Agent, PC
    <2> QED BY <2>1, <2>2 DEF Report, Post, Fatal, Crash
  <1>3. FilesTyped'
    BY <1>1, ClearType DEF Report, Post, Fatal, Crash, FilesTyped, files
  <1>4. ticket' \in Status
    BY <1>1 DEF Report, Post, Fatal, Crash, Or, Status
  <1>5. told' \in Seq({"completed", "blocked"})
    BY <1>1 DEF Report, Post, Fatal, Crash, Outcome
  <1> QED BY <1>2, <1>3, <1>4, <1>5 DEF AgentTyped, FilesTyped, TypeInv, TypeOK

LEMMA StepType == TypeInv /\ [Next]_vars => TypeInv'
  <1> SUFFICES ASSUME TypeInv, [Next]_vars PROVE TypeInv'
    OBVIOUS
  <1>1. CASE UNCHANGED vars
    BY <1>1 DEF vars, TypeInv, TypeOK, TurnBegun
  <1> QED BY <1>1, StartsType, ThinkType, CallType, CheckType, SaveType, EndType DEF Next

LEMMA TypeInvariance == Spec => []TypeInv
  BY InitType, StepType, PTL DEF Spec

(* Every variable keeps its type: in particular no conversation is longer than  *)
(* MAX_CONVERSATION_MESSAGES, restored ones included.                           *)
THEOREM WorkerTypeCorrect == Spec => []TypeOK
  <1>1. TypeInv => TypeOK
    BY DEF TypeInv
  <1> QED BY <1>1, TypeInvariance, PTL

-----------------------------------------------------------------------------
(* The prompt stays in front.                                                   *)
LEMMA HeadKept ==
    ASSUME TypeInv, NEW m \in Message, agent.messages # << >>
    PROVE  Add(agent.messages, m) # << >> /\ Head(Add(agent.messages, m)) = Head(agent.messages)
  BY AddProperties DEF TypeInv, TypeOK, Agent

(* Steps that leave the conversation alone, or add a message to it.             *)
LEMMA PromptStays ==
    ASSUME PromptInv, agent.pc \notin {"off", "boot"}, agent'.pc # "boot",
           agent.restored => agent'.restored,
           \/ agent'.messages = agent.messages
           \/ \E m \in Message : agent'.messages = Add(agent.messages, m),
           TypeInv
    PROVE  PromptInv'
  BY HeadKept DEF PromptInv

LEMMA StepPrompt == TypeInv /\ PromptInv /\ [Next]_vars => PromptInv'
  <1> SUFFICES ASSUME TypeInv, PromptInv, [Next]_vars PROVE PromptInv'
    OBVIOUS
  <1>1. "text" \in Message /\ "done" \in Message /\ agent \in Agent
    BY DEF Message, TypeInv, TypeOK
  <1>2. CASE Start
    BY <1>2 DEF Start, PromptInv, Off
  <1>3. CASE Boot
    <2>1. PICK found \in Or("disk", disk.file, None) :
             agent' = [agent EXCEPT !.pc = "think", !.restored = found # None,
                                    !.messages = Started(IF found = None THEN << >> ELSE found.messages)]
      BY <1>3 DEF Boot
    <2>2. CASE found = None
      <3>1. agent'.messages = Started(<< >>) /\ agent'.pc = "think"
        BY <1>1, <2>1, <2>2 DEF Agent
      <3> QED BY <3>1, StartedProperties, EmptySeq DEF PromptInv
    <2>3. CASE found # None
      BY <1>1, <2>1, <2>3 DEF PromptInv, Agent
    <2> QED BY <2>2, <2>3
  <1>4. CASE ChatStarts
    <2>1. agent'.messages = Started(<< >>) /\ agent'.pc = "think"
      BY <1>1, <1>4 DEF ChatStarts, Agent
    <2> QED BY <2>1, StartedProperties, EmptySeq DEF PromptInv
  <1>5. CASE Think
    <2>1. agent.pc = "think" /\ agent'.pc # "boot" /\ agent'.restored = agent.restored
      BY <1>1, <1>5 DEF Think, Answer, Ends, Agent
    <2>2. agent'.messages \in {agent.messages, Add(agent.messages, "text")}
      BY <1>1, <1>5 DEF Think, Answer, Ends, Agent
    <2> QED BY <1>1, <2>1, <2>2, PromptStays
  <1>6. CASE MaxReached \/ CallSave \/ NextCall \/ CallsDone \/ Check \/ WriteTemp \/ RemoveOld \/ Report
    <2>1. agent.pc \notin {"off", "boot"} /\ agent'.pc # "boot" /\ agent'.restored = agent.restored
          /\ agent'.messages = agent.messages
      BY <1>1, <1>6 DEF MaxReached, CallSave, NextCall, CallsDone, Check, WriteTemp, RemoveOld, Report, Ends, Agent
    <2> QED BY <2>1, PromptStays
  <1>7. CASE CallTool \/ CallClear \/ Rename \/ SaveFails
    <2>1. agent.pc \notin {"off", "boot"} /\ agent'.pc # "boot" /\ agent'.restored = agent.restored
      BY <1>1, <1>7 DEF CallTool, CallClear, Rename, SaveFails, SaveReturns, Returned, Agent
    <2>2. \E m \in {"text", "done"} : agent'.messages \in {agent.messages, Add(agent.messages, m)}
      BY <1>1, <1>7 DEF CallTool, CallClear, Rename, SaveFails, SaveReturns, Returned, Agent
    <2> QED BY <1>1, <2>1, <2>2, PromptStays
  <1>8. CASE CallLoad
    <2>1. PICK found \in Or("disk", disk.file, None) :
             agent' = Returned(IF found = None THEN agent ELSE Restored(agent, found), "text")
      BY <1>8 DEF CallLoad
    <2>2. CASE found = None
      <3>1. agent'.messages = Add(agent.messages, "text") /\ agent'.restored = agent.restored
            /\ agent'.pc # "boot"
        BY <1>1, <2>1, <2>2 DEF Returned, Agent
      <3> QED BY <1>1, <1>8, <3>1, PromptStays DEF CallLoad
    <2>3. CASE found # None
      BY <1>1, <2>1, <2>3 DEF Returned, Restored, PromptInv, Agent
    <2> QED BY <2>2, <2>3
  <1>9. CASE Post
    <2>1. CASE agent' = Off
      BY <2>1 DEF PromptInv, Off
    <2>2. CASE agent' = [agent EXCEPT !.pc = "chat"]
      <3>1. agent'.messages = agent.messages /\ agent'.restored = agent.restored /\ agent'.pc = "chat"
        BY <1>1, <2>2 DEF Agent
      <3> QED BY <1>9, <3>1, PromptStays DEF Post
    <2> QED BY <1>9, <2>1, <2>2 DEF Post
  <1>10. CASE Fatal \/ Crash
    BY <1>10 DEF Fatal, Crash, PromptInv, Off
  <1>11. CASE UNCHANGED vars
    BY <1>11 DEF vars, PromptInv
  <1> QED
    BY <1>2, <1>3, <1>4, <1>5, <1>6, <1>7, <1>8, <1>9, <1>10, <1>11 DEF Next, Call, Save

(* _add_message() never cuts the prompt off a conversation that has not been    *)
(* replaced by a restored one, for any MAX_CONVERSATION_MESSAGES above 2.       *)
THEOREM PromptAlwaysKept == Spec => []PromptKept
  <1>1. Init => PromptInv
    BY DEF Init, PromptInv, Off
  <1>2. TypeInv /\ PromptInv => PromptKept
    BY DEF PromptInv, PromptKept
  <1> QED BY <1>1, <1>2, StepPrompt, TypeInvariance, PTL DEF Spec

-----------------------------------------------------------------------------
(* Outcomes.                                                                    *)

(* A step that neither posts, nor ends a life, a task or a chat.                *)
LEMMA OutcomeStays ==
    ASSUME OutcomeInv, UNCHANGED told, agent'.mode = agent.mode, agent'.result = agent.result,
           agent.pc \notin {"off", "chat"}, agent'.pc = agent.pc \/ agent'.pc \notin {"off", "boot", "report"},
           agent'.pc = "chat" => agent.mode = "chat", agent'.pc = "post" => agent.pc = "report"
    PROVE  OutcomeInv'
  BY DEF OutcomeInv, OutcomeReported

(* The end of a loop: a task has a result, a chat leaves that of the task.      *)
LEMMA OutcomeOfLoop ==
    ASSUME OutcomeInv, UNCHANGED told, agent.pc \in {"think", "check"},
           NEW a \in Agent, a.mode = agent.mode, a.result = agent.result,
           NEW result, agent' = Ends(a, result)
    PROVE  OutcomeInv'
  <1>1. CASE agent.mode = "task"
    <2>1. agent'.pc = "report" /\ agent'.mode = "task"
      BY <1>1 DEF Ends, Agent
    <2> QED BY <1>1, <2>1 DEF OutcomeInv, OutcomeReported
  <1>2. CASE agent.mode # "task"
    <2>1. agent'.pc = "chat" /\ agent'.mode = a.mode /\ agent'.result = agent.result
      BY <1>2 DEF Ends, Agent
    <2>2. a.mode = "chat"
      BY <1>2 DEF Agent
    <2> QED BY <1>2, <2>1, <2>2 DEF OutcomeInv, OutcomeReported
  <1> QED BY <1>1, <1>2

LEMMA StepOutcome == TypeInv /\ OutcomeInv /\ [Next]_vars => OutcomeInv'
  <1> SUFFICES ASSUME TypeInv, OutcomeInv, [Next]_vars PROVE OutcomeInv'
    OBVIOUS
  <1>1. agent \in Agent
    BY DEF TypeInv, TypeOK
  <1>2. CASE Start
    BY <1>2 DEF Start, Off, OutcomeInv, OutcomeReported
  <1>3. CASE ChatStarts
    <2>1. agent.pc = "chat" /\ agent'.pc = "think" /\ agent'.mode = "chat" /\ agent'.result = agent.result
          /\ told' = told
      BY <1>1, <1>3 DEF ChatStarts, Agent
    <2> QED BY <2>1 DEF OutcomeInv, OutcomeReported
  <1>4. CASE Think
    <2>1. Answer \in Agent /\ Answer.mode = agent.mode /\ Answer.result = agent.result /\ Answer.pc = "think"
      <3>1. agent.turn + 1 \in 0 .. MaxIterations
        BY <1>1, <1>4, BoundsAssumption DEF Think, Agent
      <3>2. "text" \in Message
        BY DEF Message
      <3> QED BY <1>1, <1>4, <3>1, <3>2, AgentAdds DEF Answer, Agent, Think
    <2> DEFINE silent == [Answer EXCEPT !.messages = agent.messages]
    <2>2. silent \in Agent /\ silent.mode = agent.mode /\ silent.result = agent.result
      BY <1>1, <2>1 DEF Agent
    <2>3. UNCHANGED told /\ agent.pc = "think"
      BY <1>4 DEF Think
    <2>4. CASE \E result : agent' = Ends(Answer, result) \/ agent' = Ends(silent, result)
      BY <2>1, <2>2, <2>3, <2>4, OutcomeOfLoop
    <2>5. CASE agent' = Answer \/ agent' = [Answer EXCEPT !.pc = "tool"]
      <3>1. agent'.mode = agent.mode /\ agent'.result = agent.result /\ agent'.pc \in {"think", "tool"}
        BY <1>1, <2>1, <2>5 DEF Agent
      <3> QED BY <2>3, <3>1, OutcomeStays
    <2> QED BY <1>4, <2>4, <2>5 DEF Think
  <1>5. CASE MaxReached
    BY <1>1, <1>5, OutcomeOfLoop DEF MaxReached
  <1>6. CASE Check
    <2>1. CASE agent' = Ends(agent, "done")
      BY <1>1, <1>6, <2>1, OutcomeOfLoop DEF Check
    <2>2. CASE agent' = [agent EXCEPT !.pc = "think"]
      <3>1. agent'.mode = agent.mode /\ agent'.result = agent.result /\ agent'.pc = "think"
        BY <1>1, <2>2 DEF Agent
      <3> QED BY <1>6, <3>1, OutcomeStays DEF Check
    <2> QED BY <1>6, <2>1, <2>2 DEF Check
  <1>7. CASE Boot \/ Call \/ NextCall \/ CallsDone \/ Save
    <2>1. UNCHANGED told /\ agent.pc \notin {"off", "chat"}
      BY <1>7 DEF Boot, Call, CallTool, CallSave, CallLoad, CallClear, NextCall, CallsDone,
                  Save, WriteTemp, RemoveOld, Rename, SaveFails
    <2>2. /\ agent'.mode = agent.mode /\ agent'.result = agent.result
          /\ agent'.pc \notin {"off", "boot", "report", "chat", "post"}
      <3>1. CASE Boot \/ CallTool \/ CallSave \/ CallLoad \/ CallClear
        BY <1>1, <3>1 DEF Boot, CallTool, CallSave, CallLoad, CallClear, Returned, Restored, Agent
      <3>2. CASE NextCall \/ CallsDone \/ Save
        BY <1>1, <3>2 DEF NextCall, CallsDone, Save, WriteTemp, RemoveOld, Rename, SaveFails, SaveReturns,
                          Returned, Agent
      <3> QED BY <1>7, <3>1, <3>2 DEF Call
    <2> QED BY <2>1, <2>2, OutcomeStays
  <1>8. CASE Report
    <2>1. agent'.pc = "post" /\ agent'.mode = agent.mode /\ agent'.result = agent.result
      BY <1>1, <1>8 DEF Report, Agent
    <2> QED BY <1>8, <2>1, OutcomeStays DEF Report
  <1>9. CASE Post
    <2>1. told' = <<Outcome(agent.result)>> /\ Len(told') = 1
      <3>1. told = << >> /\ told' = Append(told, Outcome(agent.result))
        BY <1>9 DEF Post, OutcomeInv
      <3> QED BY <3>1
    <2>2. \/ agent' = Off
          \/ agent'.pc = "chat" /\ agent'.mode = "task" /\ agent'.result = agent.result
      BY <1>1, <1>9 DEF Post, OutcomeInv, Agent
    <2> QED BY <2>1, <2>2 DEF OutcomeInv, OutcomeReported, Outcome, Off
  <1>10. CASE Fatal
    <2>1. Len(told') = 1 /\ agent' = Off
      BY <1>10 DEF Fatal, OutcomeInv
    <2> QED BY <2>1 DEF OutcomeInv, OutcomeReported, Off
  <1>11. CASE Crash
    BY <1>11 DEF Crash, Off, OutcomeInv, OutcomeReported
  <1>12. CASE UNCHANGED vars
    BY <1>12 DEF vars, OutcomeInv, OutcomeReported
  <1> QED
    BY <1>2, <1>3, <1>4, <1>5, <1>6, <1>7, <1>8, <1>9, <1>10, <1>11, <1>12 DEF Next

(* A life posts its outcome once, whatever fails, and it is the one its task    *)
(* ended with, however many chats follow.                                       *)
THEOREM OutcomeAlwaysReported == Spec => []OutcomeReported
  <1>1. Init => OutcomeInv
    BY DEF Init, Off, OutcomeInv, OutcomeReported
  <1>2. OutcomeInv => OutcomeReported
    BY DEF OutcomeInv
  <1> QED BY <1>1, <1>2, StepOutcome, TypeInvariance, PTL DEF Spec

-----------------------------------------------------------------------------
(* The checkpoint.                                                              *)

(* A step that leaves the files alone, outside of save() on both sides.         *)
LEMMA SavedStays ==
    ASSUME SavedSurvives, UNCHANGED files, agent.pc # "rename", agent'.pc \notin {"remove", "rename"}
    PROVE  SavedSurvives'
  BY DEF SavedSurvives, files

LEMMA StepSaved == TypeInv /\ SavedSurvives /\ [Next]_vars => SavedSurvives'
  <1> SUFFICES ASSUME TypeInv, SavedSurvives, [Next]_vars PROVE SavedSurvives'
    OBVIOUS
  <1>1. agent \in Agent /\ disk \in [file : Checkpoint \cup {None}, tmp : Checkpoint \cup {None}]
    BY DEF TypeInv, TypeOK
  <1>2. CASE Start
    <2>1. agent'.pc = "boot" /\ (~ Volatile => disk' = disk)
      BY <1>2 DEF Start, Off
    <2> QED BY <1>2, <2>1 DEF Start, SavedSurvives
  <1>3. CASE Boot \/ ChatStarts \/ Think \/ MaxReached \/ NextCall \/ CallsDone \/ Check \/ Post \/ Fatal
    <2>1. UNCHANGED files /\ agent.pc # "rename"
      BY <1>3 DEF Boot, ChatStarts, Think, MaxReached, NextCall, CallsDone, Check, Post, Fatal
    <2>2. agent'.pc \notin {"remove", "rename"}
      <3>1. CASE Boot \/ ChatStarts \/ MaxReached \/ Check
        BY <1>1, <3>1 DEF Boot, ChatStarts, MaxReached, Check, Ends, Agent
      <3>2. CASE NextCall \/ CallsDone
        BY <1>1, <3>2 DEF NextCall, CallsDone, Agent
      <3>3. CASE Post \/ Fatal
        <4>1. Off.pc = "off" /\ [agent EXCEPT !.pc = "chat"].pc = "chat"
          BY <1>1 DEF Off, Agent
        <4> QED BY <3>3, <4>1 DEF Post, Fatal
      <3>4. CASE Think
        <4> DEFINE a == Answer
                   b == [a EXCEPT !.messages = agent.messages]
        <4>1. agent.pc = "think"
          BY <3>4 DEF Think
        <4>2. a.pc = "think" /\ b.pc = "think"
          BY <1>1, <4>1 DEF Answer, Agent
        <4>3. \/ \E result : agent' = Ends(a, result) \/ agent' = Ends(b, result)
              \/ agent' = a \/ agent' = [a EXCEPT !.pc = "tool"]
          BY <3>4 DEF Think
        <4>4. [a EXCEPT !.pc = "tool"].pc = "tool"
          BY <1>1 DEF Answer, Agent
        <4>5. \A result : Ends(a, result).pc \in {"report", "chat"} /\ Ends(b, result).pc \in {"report", "chat"}
          BY <1>1 DEF Ends, Answer, Agent
        <4> HIDE DEF a, b
        <4> QED BY <4>2, <4>3, <4>4, <4>5
      <3> QED BY <1>3, <3>1, <3>2, <3>3, <3>4
    <2> QED BY <2>1, <2>2, SavedStays
  <1>4. CASE CallTool \/ CallSave \/ CallLoad
    <2>1. UNCHANGED files /\ agent.pc # "rename"
      BY <1>4 DEF CallTool, CallSave, CallLoad
    <2>2. agent'.pc \in {"called", "write"}
      BY <1>1, <1>4 DEF CallTool, CallSave, CallLoad, Returned, Restored, Agent
    <2> QED BY <2>1, <2>2, SavedStays
  <1>5. CASE CallClear \/ Report
    <2>1. agent.pc \in {"tool", "report"} /\ agent'.pc \in {"called", "post"}
      BY <1>1, <1>5 DEF CallClear, Report, Returned, Agent
    <2>2. saved' = FALSE \/ UNCHANGED files
      BY <1>5 DEF CallClear, Report, Clear
    <2> QED BY <2>1, <2>2, SavedStays DEF SavedSurvives
  <1>6. CASE WriteTemp
    <2>1. disk'.tmp = Snapshot /\ disk'.file = disk.file
      BY <1>1, <1>6 DEF WriteTemp, Written
    <2>2. agent'.pc = "remove" /\ Snapshot' = Snapshot
      BY <1>1, <1>6 DEF WriteTemp, Snapshot, Agent
    <2> QED BY <1>6, <2>1, <2>2 DEF WriteTemp, SavedSurvives
  <1>7. CASE RemoveOld
    <2>1. disk'.tmp = disk.tmp
      BY <1>1, <1>7 DEF RemoveOld
    <2>2. agent'.pc = "rename" /\ Snapshot' = Snapshot
      BY <1>1, <1>7 DEF RemoveOld, Snapshot, Agent
    <2> QED BY <1>7, <2>1, <2>2 DEF RemoveOld, SavedSurvives
  <1>8. CASE Rename
    <2>1. agent.iteration # 0
      BY <1>8 DEF Rename, TypeInv, TurnBegun, Saving
    <2>2. disk'.file = Snapshot /\ Snapshot # None
      BY <1>8, <2>1, SnapshotType, NoneAssumption, TypeParts DEF Rename, SavedSurvives
    <2>3. agent'.pc \in {"check", "called"}
      BY <1>1, <1>8 DEF Rename, SaveReturns, Returned, Agent
    <2> QED BY <2>2, <2>3 DEF SavedSurvives
  <1>9. CASE SaveFails \/ Crash
    <2>1. agent'.pc \notin {"remove", "rename"}
      <3>1. CASE SaveFails
        BY <1>1, <3>1 DEF SaveFails, SaveReturns, Returned, Agent
      <3>2. CASE Crash
        BY <3>2 DEF Crash, Off
      <3> QED BY <1>9, <3>1, <3>2
    <2>2. torn' = (torn \/ agent.pc = "rename") /\ UNCHANGED <<disk, saved>>
      BY <1>9 DEF SaveFails, Crash
    <2> QED BY <2>1, <2>2 DEF SavedSurvives
  <1>10. CASE UNCHANGED vars
    BY <1>10 DEF vars, SavedSurvives, Snapshot
  <1> QED
    BY <1>2, <1>3, <1>4, <1>5, <1>6, <1>7, <1>8, <1>9, <1>10 DEF Next, Call, Save

(* On a /tmp that lasts, a saved checkpoint is found again unless it was        *)
(* cleared or a save ended between its last two steps; and no save writes       *)
(* another state than the one it is about.                                      *)
THEOREM SavedAlwaysSurvives == Spec => []SavedSurvives
  <1>1. Init => SavedSurvives
    BY DEF Init, Off, SavedSurvives
  <1> QED BY <1>1, StepSaved, TypeInvariance, PTL DEF Spec
-----------------------------------------------------------------------------
(***************************************************************************)
(* What WorkerEnds rests on besides fairness: nothing the model answers    *)
(* and no tool makes a run longer.  Left is the number of steps that a     *)
(* worker can still be away from its end, not counting how often it goes   *)
(* round the calls of one answer.                                          *)
(***************************************************************************)
(* The tool calls of one answer, with the saves among them.                     *)
InCalls(a) == a.pc \in {"tool", "called"} \/ (a.pc \in Saving /\ a.back = "called")

Place(a) ==
    IF InCalls(a) THEN 8
    ELSE CASE a.pc = "boot" -> 9 [] a.pc = "write" -> 7 [] a.pc = "remove" -> 6 [] a.pc = "rename" -> 5
           [] a.pc = "check" -> 4 [] a.pc = "think" -> 3 [] a.pc = "report" -> 2 [] OTHER -> 1

Left(a) == IF a.pc \in {"off", "chat"} THEN 0 ELSE 10 * (MaxIterations - a.turn) + Place(a)

(* A worker that is busy comes nearer to the end of its task or its chat with   *)
(* every step, unless it runs calls of the answer it has; that neither a failed *)
(* call, a failed save nor a restored checkpoint gives a turn back is the part  *)
(* that run() gets from looping over a variable of its own.                     *)
RunsOut ==
    [][agent.pc \notin {"off", "chat"} =>
          \/ Left(agent') < Left(agent)
          \/ InCalls(agent) /\ InCalls(agent') /\ agent'.turn = agent.turn]_vars

LEMMA LeftProperties ==
    ASSUME NEW a \in Agent
    PROVE  /\ a.turn \in Nat /\ a.turn <= MaxIterations /\ MaxIterations \in Nat
           /\ Place(a) \in 1 .. 9 /\ Left(a) \in Nat
           /\ a.pc \notin {"off", "chat"} => Left(a) > 0
  <1>1. a.turn \in Nat /\ a.turn <= MaxIterations /\ MaxIterations \in Nat
    BY BoundsAssumption DEF Agent
  <1>2. Place(a) \in 1 .. 9
    BY DEF Place
  <1> QED BY <1>1, <1>2 DEF Left

LEMMA RunsOutStep ==
    ASSUME TypeInv, TypeInv', Next, agent.pc \notin {"off", "chat"}
    PROVE  \/ Left(agent') < Left(agent)
           \/ InCalls(agent) /\ InCalls(agent') /\ agent'.turn = agent.turn
  <1>1. /\ agent \in Agent /\ agent' \in Agent
        /\ agent.turn \in Nat /\ agent.turn <= MaxIterations /\ MaxIterations \in Nat
        /\ agent'.turn \in Nat /\ agent'.turn <= MaxIterations
    BY LeftProperties DEF TypeInv, TypeOK
  <1>2. ASSUME agent'.pc \in {"off", "chat"} PROVE Left(agent') < Left(agent)
    <2>1. Left(agent') = 0 /\ Left(agent) > 0 /\ Left(agent) \in Nat
      BY <1>1, <1>2, LeftProperties DEF Left
    <2> QED BY <2>1
  <1>3. ASSUME agent'.turn = agent.turn, Place(agent') < Place(agent), agent'.pc \notin {"off", "chat"}
        PROVE  Left(agent') < Left(agent)
    <2>1. Place(agent) \in Int /\ Place(agent') \in Int
      BY <1>1, LeftProperties
    <2> QED BY <1>1, <1>3, <2>1 DEF Left
  <1>4. ASSUME agent'.turn = agent.turn + 1, agent'.pc \notin {"off", "chat"} PROVE Left(agent') < Left(agent)
    <2>1. Place(agent) \in 1 .. 9 /\ Place(agent') \in 1 .. 9
      BY <1>1, LeftProperties
    <2>2. Left(agent) = 10 * (MaxIterations - agent.turn) + Place(agent)
      BY DEF Left
    <2>3. Left(agent') = 10 * (MaxIterations - (agent.turn + 1)) + Place(agent')
      BY <1>4 DEF Left
    <2> QED BY <1>1, <2>1, <2>2, <2>3
  <1>5. CASE Boot
    <2>1. agent'.pc = "think" /\ agent'.turn = agent.turn /\ agent.pc = "boot"
      BY <1>1, <1>5 DEF Boot, Agent
    <2> QED BY <1>3, <2>1 DEF Place, InCalls, Saving
  <1>6. CASE Think
    <2>1. agent'.turn = agent.turn + 1
      BY <1>1, <1>6 DEF Think, Answer, Ends, Agent
    <2> QED BY <1>2, <1>4, <2>1
  <1>7. CASE MaxReached \/ Check
    <2>1. agent'.turn = agent.turn /\ agent'.pc \in {"report", "chat", "think"} /\ agent.pc \in {"think", "check"}
          /\ (agent.pc = "think" => agent'.pc # "think")
      BY <1>1, <1>7 DEF MaxReached, Check, Ends, Agent
    <2> QED BY <1>2, <1>3, <2>1 DEF Place, InCalls, Saving
  <1>8. CASE Call \/ NextCall
    <2>1. agent'.turn = agent.turn /\ agent.pc \in {"tool", "called"}
          /\ (agent'.pc \in {"tool", "called"} \/ (agent'.pc = "write" /\ agent'.back = "called"))
      BY <1>1, <1>8 DEF Call, CallTool, CallSave, CallLoad, CallClear, NextCall, Returned, Restored, Agent
    <2> QED BY <2>1 DEF InCalls, Saving
  <1>9. CASE CallsDone
    <2>1. agent'.turn = agent.turn /\ agent.pc = "called"
          /\ (agent'.pc = "check" \/ (agent'.pc = "write" /\ agent'.back = "check"))
      BY <1>1, <1>9 DEF CallsDone, Agent
    <2> QED BY <1>3, <2>1 DEF Place, InCalls, Saving
  <1>10. CASE Save
    <2>1. /\ agent.back \in {"called", "check"} /\ agent'.back = agent.back /\ agent'.turn = agent.turn
          /\ \/ agent.pc = "write" /\ agent'.pc = "remove"
             \/ agent.pc = "remove" /\ agent'.pc = "rename"
             \/ agent.pc \in Saving /\ agent'.pc = agent.back
      BY <1>1, <1>10 DEF Save, WriteTemp, RemoveOld, Rename, SaveFails, SaveReturns, Returned, Agent, Saving
    <2>2. CASE agent.back = "called"
      BY <2>1, <2>2 DEF InCalls, Saving
    <2>3. CASE agent.back = "check"
      BY <1>3, <2>1, <2>3 DEF Place, InCalls, Saving
    <2> QED BY <2>1, <2>2, <2>3
  <1>11. CASE Report
    <2>1. agent'.turn = agent.turn /\ agent.pc = "report" /\ agent'.pc = "post"
      BY <1>1, <1>11 DEF Report, Agent
    <2> QED BY <1>3, <2>1 DEF Place, InCalls, Saving
  <1>12. CASE Post \/ Fatal \/ Crash
    <2>1. agent'.pc \in {"off", "chat"}
      BY <1>1, <1>12 DEF Post, Fatal, Crash, Off, Agent
    <2> QED BY <1>2, <2>1
  <1>13. ~ Start /\ ~ ChatStarts
    BY DEF Start, ChatStarts
  <1> QED BY <1>5, <1>6, <1>7, <1>8, <1>9, <1>10, <1>11, <1>12, <1>13 DEF Next

(* For any limit of turns and any answers, a busy worker runs out of steps,     *)
(* apart from the number of calls in one answer: what WorkerEnds needs of the   *)
(* loops besides that they go on.                                               *)
THEOREM WorkerRunsOut == Spec => RunsOut
  <1>1. TypeInv /\ TypeInv' /\ [Next]_vars =>
            [agent.pc \notin {"off", "chat"} =>
                \/ Left(agent') < Left(agent)
                \/ InCalls(agent) /\ InCalls(agent') /\ agent'.turn = agent.turn]_vars
    <2> SUFFICES ASSUME TypeInv, TypeInv', [Next]_vars, ~ UNCHANGED vars, agent.pc \notin {"off", "chat"}
                 PROVE  \/ Left(agent') < Left(agent)
                        \/ InCalls(agent) /\ InCalls(agent') /\ agent'.turn = agent.turn
      OBVIOUS
    <2> QED BY RunsOutStep
  <1> QED BY <1>1, TypeInvariance, PTL DEF Spec, RunsOut
=============================================================================
