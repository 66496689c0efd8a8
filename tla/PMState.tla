------------------------------- MODULE PMState -------------------------------
(***************************************************************************)
(* The failover of the PM worker: orchestrator/src/core/pm-state.ts keeps  *)
(* a copy of the waiting tasks in a file and, five seconds after the       *)
(* health monitor has found the PM dead, enqueues what the queue does not  *)
(* know of it.  The orchestrator itself has not stopped: its queue goes on *)
(* changing all the while, by the methods of PriorityQueue and what comes  *)
(* back from Redis.                                                        *)
(*                                                                         *)
(* A file that cannot be written or read is left out: saveState() and      *)
(* loadState() then change nothing.                                        *)
(***************************************************************************)
EXTENDS PriorityQueue

VARIABLES
    file,           \* the queue in the state file, or null
    injecting,      \* is the timer of injectQueueState() set?
    finished        \* history: saved tickets completed and not submitted again

pmVars == <<vars, file, injecting, finished>>

-----------------------------------------------------------------------------
PMInit == Init /\ file = None /\ injecting = FALSE /\ finished = {}

(* saveState(), every thirty seconds ...                                        *)
AutoPersist ==
    /\ file' = mem.queue
    /\ UNCHANGED <<vars, injecting, finished>>

(* ... and when the health monitor finds the PM worker dead, but not when the   *)
(* Doctor has applied a fix.  The timer is set in both cases.                   *)
PMDies ==
    /\ ~ injecting
    /\ injecting' = TRUE
    /\ file' \in {file, mem.queue}
    /\ UNCHANGED <<vars, finished>>

(* One turn of the loop of injectQueueState(): a saved task the queue does not  *)
(* know is enqueued.  (Variants: without the test; in front of the queue.)      *)
AddAnyway(m, task) == [m EXCEPT !.queue = Enqueue(@, task)]

AddInFront(m, task) ==
    IF Runs(m, task.ticket) \/ Queued(m.queue, task.ticket) THEN m
    ELSE [m EXCEPT !.queue = <<task>> \o @]

Add(m, task) ==
    IF Runs(m, task.ticket) \/ Queued(m.queue, task.ticket) THEN m
    ELSE [m EXCEPT !.queue = Enqueue(@, task)]

(* The states of the memory after each turn, and after each that changed it.    *)
Turns(m, tasks) ==
    LET after[i \in 0 .. Len(tasks)] == IF i = 0 THEN m ELSE Add(after[i - 1], tasks[i])
    IN  after

Injected ==
    LET after == Turns(mem, file)
    IN  Keep([i \in 1 .. Len(file) |-> after[i]],
             {i \in 1 .. Len(file) : after[i] # after[i - 1]})

InjectNothing ==
    /\ IF file = None THEN TRUE ELSE Injected = << >>
    /\ UNCHANGED vars

InjectSome ==
    /\ file # None /\ Injected # << >>
    /\ Becomes(Injected)
    /\ UNCHANGED <<held, pausing>>

Inject ==
    /\ injecting
    /\ InjectNothing \/ InjectSome
    /\ injecting' = FALSE
    /\ UNCHANGED <<file, finished>>

(* The methods, noting the saved tickets that complete or are submitted again.  *)
InFile(t) == file # None /\ Queued(file, t)

QueueStep ==
    /\ \/ \E task \in Submissions : Submit(task) /\ finished' = finished \ {task.ticket}
       \/ \E t \in Tickets : CompleteTask(t) /\ finished' = IF InFile(t) THEN finished \cup {t} ELSE finished
       \/ OtherMethods /\ UNCHANGED finished
    /\ UNCHANGED <<file, injecting>>

(* The link to Redis.                                                           *)
LinkStep ==
    /\ Connect \/ Execute \/ Disconnect \/ Load
    /\ UNCHANGED <<file, injecting, finished>>

(* A restart loses the timer.  The file is still there, has been written once   *)
(* more by stopAutoPersist(), or is gone with the container it was in.          *)
RestartStep ==
    /\ Restart
    /\ injecting' = FALSE
    /\ file' \in {file, mem.queue, None}
    /\ UNCHANGED finished

PMNext == QueueStep \/ LinkStep \/ RestartStep \/ AutoPersist \/ PMDies \/ Inject

PMSpec == PMInit /\ [][PMNext]_pmVars

-----------------------------------------------------------------------------
PMTypeOK ==
    /\ TypeOK
    /\ file \in Seq(Task) \cup {None}
    /\ injecting \in BOOLEAN
    /\ finished \in SUBSET Tickets

(* Whatever the queue has become since the file was written, the injection      *)
(* leaves every saved ticket known to it, makes no ticket wait twice, and puts  *)
(* no task behind a less urgent one.                                            *)
InjectionMerges ==
    [][Inject /\ file # None =>
         /\ \A i \in 1 .. Len(file) : Runs(mem', file[i].ticket) \/ Queued(mem'.queue, file[i].ticket)
         /\ Once(mem.queue) => Once(mem'.queue)
         /\ Sorted(mem.queue) => Sorted(mem'.queue)]_pmVars

(* pm-failover.md: the PM "resumes dispatching from where the old PM left off". *)
(* The injection of the saved queue does not bring a completed ticket back.     *)
NoneComesBack ==
    [][Inject => \A t \in finished : Queued(mem'.queue, t) => Queued(mem.queue, t)]_pmVars
=============================================================================
