----------------------------- MODULE CommandBus -----------------------------
(***************************************************************************)
(* The path of a command from the driver (rov_cfs.h, _rov_cmd) through the *)
(* CFS registers (neorv32_cfs_custom.vhd) and the edge detector of         *)
(* neorv32_rov_motors.vhd to its execution, clock edge by clock edge.      *)
(*                                                                         *)
(* Every step is one rising edge.  The CPU writes at most one register at  *)
(* an edge; between two of its writes lie the edges its store instructions *)
(* need, at least CmdGap after a command word and NopGap after any other.  *)
(* The operands are decoded from the register at the edge that executes,   *)
(* not at the edge that detects, so the word has to stay until then.       *)
(***************************************************************************)
EXTENDS Integers

CONSTANTS
  ShortCommand,   \* [op, arg] commands whose operand travels in REG0
  LongCommand,    \* [op, arg] commands whose operand travels in REG1
  None,           \* no command yet
  CmdGap,         \* edges between a command word and the NOP after it
  NopGap          \* edges between any other write and the next one

ASSUME GapAssumption == CmdGap \in Nat /\ CmdGap >= 2 /\ NopGap \in Nat /\ NopGap >= 1

ASSUME CommandAssumption ==
  /\ \A c \in ShortCommand \cup LongCommand :
       c = [op |-> c.op, arg |-> c.arg] /\ c.op \notin {"heartbeat", "nop"}
  /\ \A c \in ShortCommand, d \in LongCommand : c.op # d.op

VARIABLES
  reg0, reg1,       \* CFS registers: command word, long operand
  cfs_in_d,         \* command nibble one edge ago
  cmd_strobe,
  hb_toggle_last,
  hb_bit,           \* the driver's toggle bit
  pc,               \* next REG0 write of the driver: "any", "word" or "nop"
  todo,             \* the command whose long operand is in REG1 already
  wait,             \* edges left before the CPU can write again
  sent, done, cmd, applied, effects, beats   \* see CommandMailbox

bus     == <<reg0, reg1, cfs_in_d, cmd_strobe>>
driver  == <<hb_bit, pc, todo, wait, sent, cmd>>
effect  == <<hb_toggle_last, done, applied, effects, beats>>
vars    == <<bus, driver, effect>>

Commands == ShortCommand \cup LongCommand
Beat(bit) == [op |-> "heartbeat", arg |-> bit]
Nop == [op |-> "nop", arg |-> 0]

\* The word of REG0 for a command; a long operand is not part of it.
Word(c) == IF c \in LongCommand THEN [op |-> c.op, arg |-> 0] ELSE c

----------------------------------------------------------------------------
(* The status process and the edge detector at one edge. *)

\* Mutant: every operand is taken from the command word.
Decoded_Word == reg0

\* The command the decoder sees at this edge.
Decoded == IF reg0.op \in {c.op : c \in LongCommand} THEN [op |-> reg0.op, arg |-> reg1]
           ELSE reg0

NewBeat == reg0.op = "heartbeat" /\ reg0.arg # hb_toggle_last

Fires == cmd_strobe \/ NewBeat

\* Mutant: the toggle bit is accepted but not remembered.
ExecuteBeat_Forgetful ==
  /\ beats' = IF NewBeat THEN 1 - beats ELSE beats
  /\ UNCHANGED <<hb_toggle_last, applied, effects>>

ExecuteBeat ==
  /\ hb_toggle_last' = reg0.arg
  /\ beats' = IF NewBeat THEN 1 - beats ELSE beats
  /\ UNCHANGED <<applied, effects>>

Execute ==
  \/ /\ Fires
     /\ done' = sent
     /\ \/ /\ reg0.op = "heartbeat"
           /\ ExecuteBeat
        \/ /\ reg0.op \notin {"heartbeat", "nop"}
           /\ applied' = Decoded /\ effects' = 1 - effects
           /\ UNCHANGED <<hb_toggle_last, beats>>
        \/ /\ reg0.op = "nop"
           /\ UNCHANGED <<hb_toggle_last, applied, effects, beats>>
  \/ ~Fires /\ UNCHANGED effect

Detect ==
  /\ cfs_in_d' = reg0.op
  /\ cmd_strobe' = (reg0.op # cfs_in_d /\ reg0.op # "nop")

Edge == Execute /\ Detect

----------------------------------------------------------------------------
(* The driver, one bus write at a time. *)

\* The CPU's instructions between two stores, which are no part of the circuit.
Elapse == wait' = IF wait > 0 THEN wait - 1 ELSE 0

Idle == \* no bus write at this edge
  /\ Edge
  /\ Elapse
  /\ UNCHANGED <<reg0, reg1, hb_bit, pc, todo, sent, cmd>>

WriteOperand(c) == \* CFS_REG1 = operand
  /\ pc = "any" /\ wait = 0
  /\ Edge
  /\ reg1' = c.arg
  /\ todo' = c /\ pc' = "word" /\ wait' = NopGap - 1
  /\ UNCHANGED <<reg0, hb_bit, sent, cmd>>

WriteWord(c) == \* CFS_REG0 = word
  /\ \/ pc = "any" /\ c \in ShortCommand
     \/ pc = "word" /\ c = todo
  /\ wait = 0
  /\ Edge
  /\ reg0' = Word(c)
  /\ cmd' = c /\ sent' = 1 - sent /\ pc' = "nop" /\ wait' = CmdGap - 1
  /\ UNCHANGED <<reg1, todo, hb_bit>>

WriteBeat == \* rov_heartbeat
  /\ pc = "any" /\ wait = 0
  /\ Edge
  /\ hb_bit' = 1 - hb_bit
  /\ reg0' = Beat(hb_bit')
  /\ cmd' = reg0' /\ sent' = 1 - sent /\ pc' = "nop" /\ wait' = CmdGap - 1
  /\ UNCHANGED <<reg1, todo>>

\* Mutant: _rov_cmd without its second store.
WriteNop_Omitted ==
  /\ pc = "nop" /\ wait = 0
  /\ Edge
  /\ pc' = "any" /\ wait' = NopGap - 1
  /\ UNCHANGED <<reg0, reg1, todo, hb_bit, sent, cmd>>

WriteNop == \* CFS_REG0 = 0
  /\ pc = "nop" /\ wait = 0
  /\ Edge
  /\ reg0' = Nop
  /\ pc' = "any" /\ wait' = NopGap - 1
  /\ UNCHANGED <<reg1, todo, hb_bit, sent, cmd>>

\* rstn low: registers, detector and program restart; the status process
\* forgets its settings but not hb_toggle_last.
Reset ==
  /\ reg0' = Nop /\ reg1' = 0 /\ cfs_in_d' = "nop" /\ cmd_strobe' = FALSE
  /\ hb_bit' = 0 /\ pc' = "any" /\ todo' = None /\ wait' = 0
  /\ sent' = done /\ cmd' = None /\ applied' = None
  /\ UNCHANGED <<hb_toggle_last, done, effects, beats>>

Init ==
  /\ reg0 = Nop /\ reg1 = 0 /\ cfs_in_d = "nop" /\ cmd_strobe = FALSE
  /\ hb_bit = 0 /\ pc = "any" /\ todo = None /\ wait = 0
  /\ sent = 0 /\ done = 0 /\ cmd = None /\ applied = None
  /\ hb_toggle_last = 0 /\ effects = 0 /\ beats = 0

Next ==
  \/ Idle
  \/ \E c \in LongCommand : WriteOperand(c)
  \/ \E c \in Commands : WriteWord(c)
  \/ WriteBeat
  \/ WriteNop
  \/ Reset

Spec == Init /\ [][Next]_vars

\* The clock never stops, whatever the CPU does with the bus.
FairSpec == Spec /\ WF_vars(Idle \/ WriteNop)

----------------------------------------------------------------------------
Mailbox == INSTANCE CommandMailbox WITH last <- hb_toggle_last

\* Registers and driver state keep their ranges, and what takes effect is a
\* command the driver may issue, operand included.
TypeOK ==
  /\ reg0 \in {Word(c) : c \in Commands} \cup {Beat(0), Beat(1), Nop}
  /\ reg1 \in {c.arg : c \in LongCommand} \cup {0}
  /\ cfs_in_d \in {c.op : c \in Commands} \cup {"heartbeat", "nop"}
  /\ cmd_strobe \in BOOLEAN
  /\ pc \in {"any", "word", "nop"}
  /\ todo \in LongCommand \cup {None}
  /\ wait \in 0 .. CmdGap + NopGap
  /\ cmd \in Commands \cup {Beat(0), Beat(1), None}
  /\ applied \in Commands \cup {None}
  /\ \A b \in {hb_bit, hb_toggle_last, sent, done, effects, beats} : b \in {0, 1}

\* The registers and the edge detector deliver every command exactly once, in
\* order and with its own operands: the bus implements the mailbox.
MailboxSpec == Mailbox!Spec

\* Every command the driver issues completes, unless a reset drops it.
MailboxCompletion == Mailbox!Completion
=============================================================================
