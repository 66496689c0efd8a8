------------------------------- MODULE AuditLog -------------------------------
(***************************************************************************)
(* The audit log of the gateway, orchestrator/src/core/gateway/            *)
(* audit-logger.ts: entries wait in a buffer that a timer appends to a     *)
(* file every five seconds, a line each.  An append may fail, with nothing *)
(* or with a part of the buffer written; the buffer is then kept.  The     *)
(* part may end in the middle of a line: the next line is then appended to *)
(* the piece, and cannot be read.  Left out: the contents of the entries,  *)
(* the copies for the AuditStore, and the name of the file.                *)
(***************************************************************************)
EXTENDS Sequences, Naturals

CONSTANTS
    MaxCalls,       \* bound: calls
    AuditFaults     \* what may fail: "append" (nothing is written), "part" (a part is)

ASSUME CallsAssumption == MaxCalls \in Nat

VARIABLES
    buffer,         \* entries not yet written, oldest first
    file,           \* entries written on lines that can be read
    cut,            \* does the file end in a piece of a line?
    flushing,       \* is the timer set?
    lost,           \* history: entries that were in the buffer of a process that ended
    spoilt,         \* history: entries on a line that begins with a piece of another
    broke           \* history: has an append broken off?

auditVars == <<buffer, file, cut, flushing, lost, spoilt, broke>>

(* The calls are numbered, and name their entries.                              *)
Calls == 1 .. MaxCalls

(* The proxies log a call before they send it, handleRequest() logs its end.    *)
Sent(n) == [call |-> n, what |-> "sent"]
Ended(n) == [call |-> n, what |-> "ended"]
AuditEntry == [call : Calls, what : {"sent", "ended"}]

In(entry, s) == \E i \in DOMAIN s : s[i] = entry

AuditInit ==
    /\ buffer = << >> /\ file = << >> /\ cut = FALSE
    /\ flushing = TRUE
    /\ lost = {} /\ spoilt = {} /\ broke = FALSE

LogServiceRequest(n) ==
    /\ buffer' = Append(buffer, Sent(n))
    /\ UNCHANGED <<file, cut, flushing, lost, spoilt, broke>>

Log(n) ==
    /\ buffer' = Append(buffer, Ended(n))
    /\ UNCHANGED <<file, cut, flushing, lost, spoilt, broke>>

(* What a failed append leaves in the buffer.  (Variant: nothing.)              *)
BufferGone == << >>

BufferKept == buffer

(* The first n entries are appended, and perhaps a piece of the next.            *)
Appended(n, piece) ==
    /\ file' = file \o SubSeq(buffer, IF cut THEN 2 ELSE 1, n)
    /\ cut' = piece
    /\ spoilt' = IF cut /\ n > 0 THEN spoilt \cup {buffer[1]} ELSE spoilt

Flush ==
    \/ buffer = << >> /\ UNCHANGED <<buffer, file, cut, spoilt, broke>>
    \/ buffer # << >> /\ Appended(Len(buffer), FALSE) /\ buffer' = << >> /\ UNCHANGED broke
    \/ /\ buffer # << >> /\ "append" \in AuditFaults
       /\ UNCHANGED <<file, cut, spoilt, broke>> /\ buffer' = BufferKept
    \/ /\ "part" \in AuditFaults
       /\ \E n \in 0 .. Len(buffer) - 1 : \E piece \in IF n = 0 THEN {TRUE} ELSE BOOLEAN :
             Appended(n, piece)
       /\ buffer' = BufferKept /\ broke' = TRUE

FlushTimer == flushing /\ buffer # << >> /\ Flush /\ UNCHANGED <<flushing, lost>>

(* shutdown(): a last flush, and no other.                                      *)
AuditShutdown == flushing /\ Flush /\ flushing' = FALSE /\ UNCHANGED lost

AuditRestart ==
    /\ buffer' = << >> /\ flushing' = TRUE
    /\ lost' = lost \cup {buffer[i] : i \in DOMAIN buffer}
    /\ UNCHANGED <<file, cut, spoilt, broke>>

AuditTypeOK ==
    /\ buffer \in Seq(AuditEntry) /\ file \in Seq(AuditEntry)
    /\ cut \in BOOLEAN /\ flushing \in BOOLEAN /\ broke \in BOOLEAN
    /\ lost \in SUBSET AuditEntry /\ spoilt \in SUBSET AuditEntry
=============================================================================
