------------------------------- MODULE Mailbox -------------------------------
(***************************************************************************)
(* What the way from the admin to a worker's chat loop promises, whatever  *)
(* transport carries it: messages are numbered as they are posted, each is *)
(* handled at most once, and a later one never before an earlier one that  *)
(* is handled too.  A message may also be withdrawn (read by a tool, taken *)
(* as the answer to a question, lost).                                     *)
(***************************************************************************)
EXTENDS Integers, Sequences

VARIABLES
    last,       \* the number of the last message posted
    waiting,    \* the messages that may still be handled
    handled     \* the messages handled, in that order

vars == <<last, waiting, handled>>

Init == last = 0 /\ waiting = {} /\ handled = << >>

Post ==
    /\ last' = last + 1
    /\ waiting' = waiting \cup {last'}
    /\ UNCHANGED handled

(* Handled in order: nothing later has been handled before.                 *)
Handle(m) ==
    /\ m \in waiting
    /\ \A i \in DOMAIN handled : handled[i] < m
    /\ waiting' = waiting \ {m}
    /\ handled' = Append(handled, m)
    /\ UNCHANGED last

Withdraw(S) ==
    /\ S # {}
    /\ waiting' = waiting \ S
    /\ UNCHANGED <<last, handled>>

Next == Post \/ (\E m \in waiting : Handle(m)) \/ (\E S \in SUBSET waiting : Withdraw(S))

Spec == Init /\ [][Next]_vars
=============================================================================
