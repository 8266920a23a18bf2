---------------------------- MODULE MCCommandBus ----------------------------
\* CommandBus with two commands of REG0 and two of REG1 (one pair shares its
\* operation and differs in the operand), and the tightest bus timing.
EXTENDS CommandBus

Short == {[op |-> "arm", arg |-> 0], [op |-> "setpoint", arg |-> 1],
          [op |-> "setpoint", arg |-> 2]}
Long == {[op |-> "timeout", arg |-> 1], [op |-> "timeout", arg |-> 2]}
=============================================================================
