------------------------------ MODULE UartLine ------------------------------
(***************************************************************************)
(* What the frequency counter promises on its serial line: received bytes  *)
(* are echoed in order, each once; a byte is dropped only when Depth bytes *)
(* wait, and then the overflow flag stays up; a report is ReportLen        *)
(* characters of one measurement with no echo among them.                  *)
(***************************************************************************)
EXTENDS Integers, Sequences

CONSTANTS Byte, Value, Depth, ReportLen

VARIABLES
  queue,      \* bytes accepted and not yet echoed
  overflow,
  out,        \* the character begun last
  next, shown \* next character of the open report (-1: none) and its value

vars == <<queue, overflow, out, next, shown>>

Echoed(b) == [of |-> "echo", data |-> b]
Reported(v, i) == [of |-> "report", value |-> v, index |-> i]

Init == queue = <<>> /\ overflow = FALSE /\ out = [of |-> "none"] /\ next = -1 /\ shown \in Value

\* kept: what is left of the queue when an arrival comes
Arrival(kept) ==
  \/ queue' = kept /\ UNCHANGED overflow
  \/ Len(queue) < Depth /\ UNCHANGED overflow
     /\ \E b \in Byte : queue' = Append(kept, b)
  \/ Len(queue) = Depth /\ queue' = kept /\ overflow' = TRUE

Echo ==
  /\ next = -1 /\ queue # <<>>
  /\ out' = Echoed(Head(queue))
  /\ Arrival(Tail(queue))
  /\ UNCHANGED <<next, shown>>

Open ==
  /\ next = -1 /\ queue = <<>>
  /\ next' = 0 /\ shown' \in Value
  /\ Arrival(queue)
  /\ UNCHANGED out

Character ==
  /\ next \in 0 .. ReportLen - 1
  /\ out' = Reported(shown, next) /\ next' = next + 1
  /\ Arrival(queue)
  /\ UNCHANGED shown

Close ==
  /\ next = ReportLen /\ next' = -1
  /\ Arrival(queue)
  /\ UNCHANGED <<out, shown>>

Wait == Arrival(queue) /\ UNCHANGED <<out, next, shown>>

Spec == Init /\ [][Echo \/ Open \/ Character \/ Close \/ Wait]_vars
=============================================================================
