----------------------------- MODULE LossyLink -----------------------------
(***************************************************************************)
(* What the MAVLink receiver promises: of the messages sent, numbered in   *)
(* the order of sending, each is executed at most once, in that order, and *)
(* nothing is executed that was not sent.  Any of them may be lost.        *)
(***************************************************************************)
EXTENDS Integers

VARIABLES sent,       \* number of the last message sent
          executed    \* number of the last message executed

Init == sent = 0 /\ executed = 0

Send == sent' = sent + 1 /\ UNCHANGED executed

Execute == executed' \in executed + 1 .. sent /\ UNCHANGED sent

Next == Send \/ Execute

Spec == Init /\ [][Next]_<<sent, executed>>
=============================================================================
