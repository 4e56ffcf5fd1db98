--------------------------- MODULE MitigationFifo ---------------------------
(***************************************************************************)
(* What a tracker promises, independently of how it is stored: a bounded   *)
(* first-in first-out queue of sampled rows.  A row that is admitted is    *)
(* later mitigated or lost, in the order of admission, and is lost only    *)
(* when a younger row finds the queue full.  The three counters say what   *)
(* became of every admitted row.                                           *)
(***************************************************************************)
EXTENDS Integers, Sequences

CONSTANTS Size,     \* the capacity of the queue
          Rows      \* the rows that can be admitted

VARIABLES queue,       \* the rows that wait for a mitigation, oldest first
          admitted,    \* rows ever put in the queue
          lost,        \* rows dropped to make room
          mitigated    \* rows handed to a mitigation

vars == <<queue, admitted, lost, mitigated>>

Init ==
  /\ queue = <<>>
  /\ admitted = 0
  /\ lost = 0
  /\ mitigated = 0

Admit(row) ==
  /\ Len(queue) < Size
  /\ queue' = Append(queue, row)
  /\ admitted' = admitted + 1
  /\ UNCHANGED <<lost, mitigated>>

AdmitAndLose(row) ==
  /\ Len(queue) = Size
  /\ queue' = Append(Tail(queue), row)
  /\ admitted' = admitted + 1
  /\ lost' = lost + 1
  /\ UNCHANGED mitigated

Mitigate ==
  /\ queue # <<>>
  /\ queue' = Tail(queue)
  /\ mitigated' = mitigated + 1
  /\ UNCHANGED <<admitted, lost>>

Next ==
  \/ \E row \in Rows : Admit(row) \/ AdmitAndLose(row)
  \/ Mitigate

Spec == Init /\ [][Next]_vars
=============================================================================
