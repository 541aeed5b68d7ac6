------------------------------ MODULE AuditLog ------------------------------
(***************************************************************************)
(* What the audit trail promises, whoever writes to it: a log to which one *)
(* row at a time is appended, each row chained to the row before it.  No   *)
(* row is ever changed or removed.  The action layer is checked to         *)
(* implement this specification.                                           *)
(***************************************************************************)
EXTENDS Naturals, Sequences

CONSTANT Events   \* what a row can record

VARIABLE log      \* the rows, in sequence_no order

(* prev_hash of the first row: NULL. *)
Genesis == << >>

(* sha256(prev_hash + payload), without collisions: the hash of a row is   *)
(* the sequence of everything recorded up to it.                           *)
ChainHash(prev, event) == Append(prev, event)

(* An audit_log row. *)
Row(n, event, prev) ==
    [seq |-> n, event |-> event, prev |-> prev, hash |-> ChainHash(prev, event)]

LastHash == IF log = << >> THEN Genesis ELSE log[Len(log)].hash

Init == log = << >>

AppendRow(event) == log' = Append(log, Row(Len(log) + 1, event, LastHash))

(* Any event may be recorded next; it is found in the log it leads to. *)
Next == \E row \in {log'[i] : i \in DOMAIN log'} :
            row.event \in Events /\ AppendRow(row.event)

Spec == Init /\ [][Next]_log
=============================================================================
