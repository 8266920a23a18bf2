--------------------------- MODULE CommandMailbox ---------------------------
(***************************************************************************)
(* What the ROV command interface promises its driver: commands take       *)
(* effect one at a time, each exactly once, with the operands they were    *)
(* issued with, before the next one is issued; a heartbeat counts when its *)
(* bit differs from that of the last heartbeat that counted; a reset drops *)
(* what is in flight and clears the effects, but not the heartbeat bit.    *)
(***************************************************************************)
EXTENDS Integers

CONSTANTS Commands,   \* [op, arg] records other than heartbeats
          None        \* the effect state after a reset

VARIABLES
  sent, done,   \* parity of issued and of completed commands
  cmd,          \* the last command issued
  applied,      \* the last effect of a command that is not a heartbeat
  effects,      \* parity of such effects
  last,         \* bit of the last heartbeat that counted
  beats         \* parity of the heartbeats that counted

vars == <<sent, done, cmd, applied, effects, last, beats>>

Beat(bit) == [op |-> "heartbeat", arg |-> bit]

Init ==
  /\ sent = 0 /\ done = 0 /\ effects = 0 /\ beats = 0 /\ last = 0
  /\ cmd = None /\ applied = None

Issue ==
  /\ sent = done
  /\ cmd' \in Commands \cup {Beat(0), Beat(1)}
  /\ sent' = 1 - sent
  /\ UNCHANGED <<done, applied, effects, last, beats>>

Execute ==
  /\ sent # done
  /\ done' = sent
  /\ \/ /\ cmd.op # "heartbeat"
        /\ applied' = cmd /\ effects' = 1 - effects
        /\ UNCHANGED <<last, beats>>
     \/ /\ cmd.op = "heartbeat"
        /\ last' = cmd.arg
        /\ beats' = IF cmd.arg # last THEN 1 - beats ELSE beats
        /\ UNCHANGED <<applied, effects>>
  /\ UNCHANGED <<sent, cmd>>

Abort ==
  /\ sent' = done
  /\ cmd' = None /\ applied' = None
  /\ UNCHANGED <<done, effects, last, beats>>

Next == Issue \/ Execute \/ Abort

Spec == Init /\ [][Next]_vars

\* Every command issued is completed or dropped by a reset.
Completion == (sent # done) ~> (sent = done)
=============================================================================
