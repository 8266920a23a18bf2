-------------------------- MODULE CommandBusProofs --------------------------
(***************************************************************************)
(* Proofs about CommandBus: the registers and the edge detector implement  *)
(* the command mailbox for every set of commands and every bus timing with *)
(* at least two edges after a command word and one after a NOP.            *)
(***************************************************************************)
EXTENDS CommandBus, TLAPS

(***************************************************************************)
(* A command word passes three phases: just written, strobed, and done.    *)
(***************************************************************************)
Written == ~cmd_strobe /\ cfs_in_d = "nop" /\ sent # done /\ wait = CmdGap - 1

Strobed ==
  /\ cmd_strobe /\ cfs_in_d = reg0.op
  /\ sent = done => reg0.op = "heartbeat" /\ reg0.arg = hb_toggle_last

Executed ==
  /\ ~cmd_strobe /\ cfs_in_d = reg0.op /\ sent = done
  /\ reg0.op = "heartbeat" => reg0.arg = hb_toggle_last

\* The inductive invariant.  While a command word is in REG0 it is the last
\* command issued, operand included, and in one of its phases; otherwise REG0
\* is the NOP, nothing strobes and nothing is in flight.
BusInv ==
  /\ {sent, done, hb_bit, hb_toggle_last} \subseteq {0, 1}
  /\ wait \in Nat
  /\ cmd_strobe \in BOOLEAN
  /\ \/ /\ pc = "nop"
        /\ cmd \in Commands \cup {Beat(0), Beat(1)}
        /\ reg0 = Word(cmd)
        /\ cmd \in LongCommand => reg1 = cmd.arg
        /\ Written \/ Strobed \/ Executed
     \/ /\ pc \in {"any", "word"}
        /\ reg0 = Nop /\ ~cmd_strobe /\ sent = done
        /\ pc = "word" => todo \in LongCommand /\ reg1 = todo.arg

(***************************************************************************)
(* Words and operands                                                      *)
(***************************************************************************)

\* The word of a command carries its operation, which is neither that of a
\* heartbeat nor a NOP, and the decoder rebuilds the command from the word and
\* the operand register.
LEMMA DecodedWord ==
  ASSUME NEW c \in Commands, reg0 = Word(c), c \in LongCommand => reg1 = c.arg
  PROVE  /\ reg0.op = c.op
         /\ c.op \notin {"heartbeat", "nop"}
         /\ Decoded = c
<1>1. c = [op |-> c.op, arg |-> c.arg] /\ c.op \notin {"heartbeat", "nop"}
  BY CommandAssumption DEF Commands
<1>2. reg0.op = c.op
  BY <1>1 DEF Word
<1>3. CASE c \in LongCommand
  <2>1. reg0.op \in {d.op : d \in LongCommand}
    BY <1>2, <1>3
  <2>. QED BY <1>1, <1>2, <1>3, <2>1 DEF Decoded
<1>4. CASE c \notin LongCommand
  <2>1. c \in ShortCommand /\ reg0 = c
    BY <1>4 DEF Commands, Word
  <2>2. reg0.op \notin {d.op : d \in LongCommand}
    BY <2>1, CommandAssumption
  <2>. QED BY <1>1, <2>1, <2>2 DEF Decoded
<1>. QED BY <1>1, <1>2, <1>3, <1>4

\* A heartbeat is no other command, and its word is the heartbeat itself.
LEMMA BeatWord ==
  ASSUME NEW bit \in {0, 1}
  PROVE  /\ Beat(bit) \notin Commands
         /\ Word(Beat(bit)) = Beat(bit)
<1>1. Beat(bit) \notin Commands
  BY CommandAssumption DEF Beat, Commands
<1>. QED BY <1>1 DEF Word, Commands

\* Whatever was issued, its word is not the NOP.
LEMMA WordOp ==
  ASSUME NEW c \in Commands \cup {Beat(0), Beat(1)}
  PROVE  Word(c).op # "nop"
<1>1. CASE c \in Commands
  BY <1>1, CommandAssumption DEF Commands, Word
<1>2. CASE c \in {Beat(0), Beat(1)}
  BY <1>2, BeatWord DEF Beat
<1>. QED BY <1>1, <1>2

(***************************************************************************)
(* One clock edge                                                          *)
(***************************************************************************)

\* With the NOP in REG0 an edge executes nothing and strobes nothing.
LEMMA QuietEdge ==
  ASSUME reg0 = Nop, ~cmd_strobe, Edge
  PROVE  UNCHANGED effect /\ cfs_in_d' = "nop" /\ cmd_strobe' = FALSE
<1>1. reg0.op = "nop" /\ ~NewBeat
  BY DEF Nop, NewBeat
<1>. QED BY <1>1 DEF Edge, Execute, Fires, Detect

\* With a command word in REG0 an edge takes it to its next phase, and its
\* effect is that of the mailbox executing it, or nothing.
LEMMA BusyEdge ==
  ASSUME BusInv, pc = "nop", Edge, UNCHANGED <<sent, cmd>>
  PROVE  /\ done' \in {0, 1} /\ hb_toggle_last' \in {0, 1}
         /\ cmd_strobe' \in BOOLEAN
         /\ cfs_in_d' = reg0.op
         /\ Written => /\ cmd_strobe'
                       /\ sent = done' => /\ reg0.op = "heartbeat"
                                          /\ reg0.arg = hb_toggle_last'
         /\ ~Written => /\ ~cmd_strobe' /\ sent = done'
                        /\ reg0.op = "heartbeat" => reg0.arg = hb_toggle_last'
         /\ Mailbox!Execute \/ UNCHANGED Mailbox!vars
<1>1. /\ cmd \in Commands \cup {Beat(0), Beat(1)} /\ reg0 = Word(cmd)
      /\ cmd \in LongCommand => reg1 = cmd.arg
      /\ Written \/ Strobed \/ Executed
      /\ sent \in {0, 1} /\ done \in {0, 1} /\ hb_toggle_last \in {0, 1}
  BY DEF BusInv
<1>2. cfs_in_d' = reg0.op /\ cmd_strobe' = (reg0.op # cfs_in_d)
  BY <1>1, WordOp DEF Edge, Detect
<1>3. Execute
  BY DEF Edge
<1>4. CASE cmd \in Commands
  <2>1. reg0.op = cmd.op /\ cmd.op \notin {"heartbeat", "nop"} /\ Decoded = cmd
    BY <1>1, <1>4, DecodedWord
  <2>2. Fires = cmd_strobe
    BY <2>1 DEF Fires, NewBeat, BusInv
  <2>3. CASE Written
    <3>1. UNCHANGED effect /\ cmd_strobe'
      BY <1>1, <1>2, <1>3, <2>1, <2>2, <2>3 DEF Written, Execute
    <3>. QED BY <1>1, <1>2, <2>3, <3>1 DEF Written, effect, Mailbox!vars
  <2>4. CASE Strobed
    <3>1. /\ done' = sent /\ applied' = cmd /\ effects' = 1 - effects
          /\ UNCHANGED <<hb_toggle_last, beats>>
      BY <1>3, <2>1, <2>2, <2>4 DEF Strobed, Execute
    <3>2. sent # done
      BY <2>1, <2>4 DEF Strobed
    <3>3. Mailbox!Execute
      BY <2>1, <3>1, <3>2 DEF Mailbox!Execute
    <3>. QED BY <1>1, <1>2, <2>1, <2>4, <3>1, <3>3 DEF Strobed, Written
  <2>5. CASE Executed
    <3>1. UNCHANGED effect
      BY <1>3, <2>2, <2>5 DEF Executed, Execute
    <3>. QED BY <1>1, <1>2, <2>5, <3>1 DEF Executed, Written, effect, Mailbox!vars
  <2>. QED BY <1>1, <2>3, <2>4, <2>5
<1>5. CASE cmd \in {Beat(0), Beat(1)}
  <2>1. reg0 = cmd /\ cmd.op = "heartbeat" /\ cmd.arg \in {0, 1}
    BY <1>1, <1>5, BeatWord DEF Beat
  <2>2. CASE Fires
    <3>1. /\ done' = sent /\ hb_toggle_last' = cmd.arg
          /\ beats' = IF cmd.arg # hb_toggle_last THEN 1 - beats ELSE beats
          /\ UNCHANGED <<applied, effects>>
      BY <1>3, <2>1, <2>2 DEF Execute, ExecuteBeat, NewBeat
    <3>2. CASE sent # done
      <4>1. Mailbox!Execute
        BY <2>1, <3>1, <3>2 DEF Mailbox!Execute
      <4>. QED BY <1>1, <1>2, <2>1, <3>1, <3>2, <4>1 DEF Written, Strobed, Executed
    <3>3. CASE sent = done
      <4>1. cmd.arg = hb_toggle_last
        BY <1>1, <2>1, <3>3 DEF Written, Strobed, Executed
      <4>. QED
        BY <1>1, <1>2, <2>1, <3>1, <3>3, <4>1
        DEF Written, Strobed, Executed, Mailbox!vars
    <3>. QED BY <3>2, <3>3
  <2>3. CASE ~Fires
    <3>1. UNCHANGED effect /\ cmd.arg = hb_toggle_last /\ ~cmd_strobe
      BY <1>3, <2>1, <2>3 DEF Execute, Fires, NewBeat
    <3>. QED
      BY <1>1, <1>2, <2>1, <3>1 DEF Written, Strobed, Executed, effect, Mailbox!vars
  <2>. QED BY <2>2, <2>3
<1>. QED BY <1>1, <1>4, <1>5

(***************************************************************************)
(* The refinement                                                          *)
(***************************************************************************)

\* The invariant is inductive.
LEMMA BusInvStep ==
  ASSUME BusInv, [Next]_vars
  PROVE  BusInv'
<1>1. CASE Idle
  <2>1. CASE pc = "nop"
    <3>1. UNCHANGED <<reg0, reg1, hb_bit, pc, todo, sent, cmd>> /\ Edge /\ Elapse
      BY <1>1 DEF Idle
    <3>2. /\ cmd \in Commands \cup {Beat(0), Beat(1)} /\ reg0 = Word(cmd)
          /\ cmd \in LongCommand => reg1 = cmd.arg
          /\ wait \in Nat /\ {sent, hb_bit} \subseteq {0, 1}
      BY <2>1 DEF BusInv
    <3>3. wait' \in Nat
      BY <3>1, <3>2 DEF Elapse
    <3>4. Strobed' \/ Executed'
      BY <2>1, <3>1, BusyEdge DEF Strobed, Executed
    <3>5. {done', hb_toggle_last'} \subseteq {0, 1} /\ cmd_strobe' \in BOOLEAN
      BY <2>1, <3>1, BusyEdge
    <3>. QED BY <2>1, <3>1, <3>2, <3>3, <3>4, <3>5 DEF BusInv, Word, Commands
  <2>2. CASE pc # "nop"
    <3>1. reg0 = Nop /\ ~cmd_strobe
      BY <2>2 DEF BusInv
    <3>2. UNCHANGED effect /\ cmd_strobe' = FALSE
      BY <1>1, <3>1, QuietEdge DEF Idle
    <3>3. UNCHANGED <<reg0, reg1, hb_bit, pc, todo, sent, cmd>> /\ wait' \in Nat
      BY <1>1 DEF Idle, Elapse, BusInv
    <3>4. UNCHANGED <<done, hb_toggle_last>>
      BY <3>2 DEF effect
    <3>. QED BY <2>2, <3>2, <3>3, <3>4 DEF BusInv
  <2>. QED BY <2>1, <2>2
<1>2. ASSUME NEW c \in LongCommand, WriteOperand(c)
      PROVE  BusInv'
  <2>1. reg0 = Nop /\ ~cmd_strobe
    BY <1>2 DEF WriteOperand, BusInv
  <2>2. UNCHANGED effect /\ cmd_strobe' = FALSE
    BY <1>2, <2>1, QuietEdge DEF WriteOperand
  <2>3. UNCHANGED <<reg0, hb_bit, sent, cmd, done, hb_toggle_last>>
    BY <1>2, <2>2 DEF WriteOperand, effect
  <2>4. pc' = "word" /\ todo' = c /\ reg1' = c.arg /\ wait' \in Nat /\ pc # "nop"
    BY <1>2, GapAssumption DEF WriteOperand
  <2>. QED BY <2>1, <2>2, <2>3, <2>4 DEF BusInv
<1>3. ASSUME NEW c \in Commands \cup {Beat(0), Beat(1)},
             pc # "nop", Edge,
             reg0' = Word(c), cmd' = c, sent' = 1 - sent, pc' = "nop",
             wait' = CmdGap - 1, hb_bit' \in {0, 1},
             c \in LongCommand => reg1' = c.arg
      PROVE  BusInv'
  <2>1. reg0 = Nop /\ ~cmd_strobe /\ sent = done
    BY <1>3 DEF BusInv
  <2>2. UNCHANGED effect /\ cmd_strobe' = FALSE /\ cfs_in_d' = "nop"
    BY <1>3, <2>1, QuietEdge
  <2>3. Written'
    BY <1>3, <2>1, <2>2 DEF Written, BusInv, effect
  <2>4. wait' \in Nat
    BY <1>3, GapAssumption
  <2>5. reg0' = Word(cmd') /\ (cmd' \in LongCommand => reg1' = cmd'.arg)
    BY <1>3
  <2>6. {sent', done', hb_bit', hb_toggle_last'} \subseteq {0, 1}
    BY <1>3, <2>2 DEF BusInv, effect
  <2>. QED BY <1>3, <2>2, <2>3, <2>4, <2>5, <2>6 DEF BusInv, Word, Commands
<1>4. ASSUME NEW c \in Commands, WriteWord(c)
      PROVE  BusInv'
  <2>1. c \in LongCommand => reg1' = c.arg
    <3>1. CASE pc = "any"
      BY <1>4, <3>1, CommandAssumption DEF WriteWord
    <3>2. CASE pc = "word"
      BY <1>4, <3>2 DEF WriteWord, BusInv
    <3>. QED BY <1>4, <3>1, <3>2 DEF WriteWord
  <2>. QED BY <1>3, <1>4, <2>1 DEF WriteWord, BusInv
<1>5. CASE WriteBeat
  <2>1. hb_bit' \in {0, 1} /\ cmd' = Beat(hb_bit')
    BY <1>5 DEF WriteBeat, BusInv
  <2>2. cmd' \in {Beat(0), Beat(1)} /\ cmd' \notin Commands /\ reg0' = Word(cmd')
    BY <1>5, <2>1, BeatWord DEF WriteBeat
  <2>3. cmd' \notin LongCommand
    BY <2>2 DEF Commands
  <2>. QED BY <1>3, <1>5, <2>1, <2>2, <2>3 DEF WriteBeat
<1>6. CASE WriteNop
  <2>1. pc = "nop" /\ Edge /\ UNCHANGED <<sent, cmd, hb_bit>> /\ wait = 0
    BY <1>6 DEF WriteNop
  <2>2. ~Written
    BY <2>1, GapAssumption DEF Written
  <2>3. /\ ~cmd_strobe' /\ sent = done' /\ cmd_strobe' \in BOOLEAN
        /\ {done', hb_toggle_last'} \subseteq {0, 1}
    BY <2>1, <2>2, BusyEdge
  <2>4. pc' = "any" /\ reg0' = Nop /\ wait' \in Nat
    BY <1>6, GapAssumption DEF WriteNop
  <2>. QED BY <2>1, <2>3, <2>4 DEF BusInv
<1>7. CASE Reset
  BY <1>7 DEF Reset, BusInv
<1>8. CASE UNCHANGED vars
  BY <1>8
  DEF vars, bus, driver, effect, BusInv, Written, Strobed, Executed, Word, Commands
<1>. QED BY <1>1, <1>2, <1>4, <1>5, <1>6, <1>7, <1>8 DEF Next

\* Every edge of the bus is a step of the mailbox or leaves it alone.
LEMMA MailboxStep ==
  ASSUME BusInv, [Next]_vars
  PROVE  [Mailbox!Next]_(Mailbox!vars)
<1>1. ASSUME Edge, UNCHANGED <<sent, cmd>>
      PROVE  Mailbox!Execute \/ UNCHANGED Mailbox!vars
  <2>1. CASE pc = "nop"
    BY <1>1, <2>1, BusyEdge
  <2>2. CASE pc # "nop"
    BY <1>1, <2>2, QuietEdge DEF BusInv, effect, Mailbox!vars
  <2>. QED BY <2>1, <2>2
<1>2. ASSUME pc # "nop", Edge, sent' = 1 - sent,
             cmd' \in Commands \cup {Beat(0), Beat(1)}
      PROVE  Mailbox!Issue
  <2>1. sent = done /\ reg0 = Nop /\ ~cmd_strobe
    BY <1>2 DEF BusInv
  <2>2. UNCHANGED effect
    BY <1>2, <2>1, QuietEdge
  <2>. QED
    BY <1>2, <2>1, <2>2 DEF Mailbox!Issue, Mailbox!Beat, Beat, effect
<1>3. CASE Idle \/ WriteNop \/ \E c \in LongCommand : WriteOperand(c)
  BY <1>1, <1>3 DEF Idle, WriteNop, WriteOperand, Mailbox!Next
<1>4. CASE \E c \in Commands : WriteWord(c)
  BY <1>2, <1>4 DEF WriteWord, Mailbox!Next
<1>5. CASE WriteBeat
  <2>1. cmd' \in {Beat(0), Beat(1)}
    BY <1>5 DEF WriteBeat, BusInv
  <2>. QED BY <1>2, <1>5, <2>1 DEF WriteBeat, Mailbox!Next
<1>6. CASE Reset
  BY <1>6 DEF Reset, Mailbox!Abort, Mailbox!Next
<1>7. CASE UNCHANGED vars
  BY <1>7 DEF vars, driver, effect, Mailbox!vars
<1>. QED BY <1>3, <1>4, <1>5, <1>6, <1>7 DEF Next

LEMMA BusInvHolds == Spec => []BusInv
<1>1. Init => BusInv
  <2> SUFFICES ASSUME Init PROVE BusInv
    OBVIOUS
  <2>1. {sent, done, hb_bit, hb_toggle_last} \subseteq {0, 1}
    BY DEF Init
  <2>2. wait \in Nat /\ cmd_strobe \in BOOLEAN
    BY DEF Init
  <2>3. pc = "any" /\ reg0 = Nop /\ ~cmd_strobe /\ sent = done
    BY DEF Init
  <2>. QED BY <2>1, <2>2, <2>3 DEF BusInv
<1>. QED BY <1>1, BusInvStep, PTL DEF Spec

\* The bus implements the mailbox: whatever the commands and the timing, each
\* takes effect exactly once, in order, with the operands it was issued with.
THEOREM BusImplementsMailbox == Spec => MailboxSpec
<1>1. Init => Mailbox!Init
  BY DEF Init, Mailbox!Init
<1>2. BusInv /\ [Next]_vars => [Mailbox!Next]_(Mailbox!vars)
  BY MailboxStep
<1>. QED BY <1>1, <1>2, BusInvHolds, PTL DEF Spec, MailboxSpec, Mailbox!Spec

(***************************************************************************)
(* Types                                                                   *)
(***************************************************************************)

\* The operations a command word can carry.
Operation == {c.op : c \in Commands} \cup {"heartbeat", "nop"}

\* REG0 holds the word of the last command, a heartbeat or the NOP.
LEMMA Reg0Typed ==
  ASSUME BusInv
  PROVE  /\ reg0 \in {Word(c) : c \in Commands} \cup {Beat(0), Beat(1), Nop}
         /\ reg0.op \in Operation
<1>1. CASE reg0 = Nop
  BY <1>1 DEF Nop, Operation
<1>2. CASE cmd \in Commands /\ reg0 = Word(cmd)
  <2>1. reg0.op = cmd.op
    BY <1>2, CommandAssumption DEF Commands, Word
  <2>. QED BY <1>2, <2>1 DEF Operation
<1>3. CASE cmd \in {Beat(0), Beat(1)} /\ reg0 = Word(cmd)
  BY <1>3, BeatWord DEF Beat, Operation
<1>. QED BY <1>1, <1>2, <1>3 DEF BusInv

LEMMA Reg0Words == BusInv => reg0 \in {Word(c) : c \in Commands} \cup {Beat(0), Beat(1), Nop}
BY Reg0Typed

\* What an edge executes is a command that was issued.
LEMMA EffectTyped ==
  ASSUME BusInv, Edge, applied \in Commands \cup {None}, effects \in {0, 1}, beats \in {0, 1}
  PROVE  applied' \in Commands \cup {None} /\ effects' \in {0, 1} /\ beats' \in {0, 1}
<1>1. CASE UNCHANGED applied
  BY <1>1 DEF Edge, Execute, ExecuteBeat, effect
<1>2. CASE reg0.op \notin {"heartbeat", "nop"} /\ applied' = Decoded /\ effects' = 1 - effects
           /\ UNCHANGED beats
  <2>1. reg0 # Nop
    BY <1>2 DEF Nop
  <2>2. cmd \notin {Beat(0), Beat(1)} \/ reg0 # Word(cmd)
    BY <1>2, BeatWord DEF Beat
  <2>3. cmd \in Commands /\ Decoded = cmd
    BY <2>1, <2>2, DecodedWord DEF BusInv
  <2>. QED BY <1>2, <2>3
<1>. QED BY <1>1, <1>2 DEF Edge, Execute, ExecuteBeat, effect

LEMMA TypeStep ==
  ASSUME BusInv, TypeOK, [Next]_vars
  PROVE  TypeOK'
<1>1. BusInv'
  BY BusInvStep
<1>2. reg0' \in {Word(c) : c \in Commands} \cup {Beat(0), Beat(1), Nop}
  <2>1. BusInv' => (reg0 \in {Word(c) : c \in Commands} \cup {Beat(0), Beat(1), Nop})'
    BY Reg0Words, PTL
  <2>. QED BY <1>1, <2>1 DEF Word, Beat, Nop, Commands
<1>3. \A b \in {hb_bit', hb_toggle_last', sent', done'} : b \in {0, 1}
  BY <1>1 DEF BusInv
<1>4. /\ pc' \in {"any", "word", "nop"} /\ cmd_strobe' \in BOOLEAN
  BY <1>1 DEF BusInv
<1>5. cfs_in_d' \in {c.op : c \in Commands} \cup {"heartbeat", "nop"}
  <2>1. CASE Edge
    BY <2>1, Reg0Typed DEF Edge, Detect, Operation
  <2>2. CASE Reset
    BY <2>2 DEF Reset
  <2>3. CASE UNCHANGED vars
    BY <2>3 DEF vars, bus, TypeOK
  <2>. QED BY <2>1, <2>2, <2>3 DEF Next, Idle, WriteOperand, WriteWord, WriteBeat, WriteNop
<1>6. applied' \in Commands \cup {None} /\ effects' \in {0, 1} /\ beats' \in {0, 1}
  <2>0. applied \in Commands \cup {None} /\ effects \in {0, 1} /\ beats \in {0, 1}
    BY DEF TypeOK
  <2>1. CASE Edge
    BY <2>0, <2>1, EffectTyped
  <2>2. CASE Reset
    BY <2>0, <2>2 DEF Reset
  <2>3. CASE UNCHANGED vars
    BY <2>0, <2>3 DEF vars, effect
  <2>. QED BY <2>1, <2>2, <2>3 DEF Next, Idle, WriteOperand, WriteWord, WriteBeat, WriteNop
<1>7. /\ reg1' \in {c.arg : c \in LongCommand} \cup {0}
      /\ todo' \in LongCommand \cup {None}
      /\ cmd' \in Commands \cup {Beat(0), Beat(1), None}
  <2>0. /\ reg1 \in {c.arg : c \in LongCommand} \cup {0}
        /\ todo \in LongCommand \cup {None}
        /\ cmd \in Commands \cup {Beat(0), Beat(1), None}
    BY DEF TypeOK
  <2>1. CASE Idle \/ WriteNop
    BY <2>0, <2>1 DEF Idle, WriteNop
  <2>2. CASE \E c \in LongCommand : WriteOperand(c)
    BY <2>0, <2>2 DEF WriteOperand
  <2>3. CASE \E c \in Commands : WriteWord(c)
    BY <2>0, <2>3 DEF WriteWord
  <2>4. CASE WriteBeat
    <3>1. cmd' \in {Beat(0), Beat(1)}
      BY <2>4 DEF WriteBeat, BusInv
    <3>. QED BY <2>0, <2>4, <3>1 DEF WriteBeat
  <2>5. CASE Reset
    BY <2>5 DEF Reset
  <2>6. CASE UNCHANGED vars
    BY <2>0, <2>6 DEF vars, bus, driver
  <2>. QED BY <2>1, <2>2, <2>3, <2>4, <2>5, <2>6 DEF Next
<1>8. wait' \in 0 .. CmdGap + NopGap
  <2>0. wait \in 0 .. CmdGap + NopGap /\ CmdGap \in Nat /\ CmdGap >= 2 /\ NopGap \in Nat /\ NopGap >= 1
    BY GapAssumption DEF TypeOK
  <2>1. CASE Idle
    BY <2>0, <2>1 DEF Idle, Elapse
  <2>2. CASE wait' \in {NopGap - 1, CmdGap - 1, 0}
    BY <2>0, <2>2
  <2>3. CASE UNCHANGED vars
    BY <2>0, <2>3 DEF vars, driver
  <2>. QED BY <2>1, <2>2, <2>3 DEF Next, WriteOperand, WriteWord, WriteBeat, WriteNop, Reset
<1>. QED BY <1>2, <1>3, <1>4, <1>5, <1>6, <1>7, <1>8 DEF TypeOK, Word, Beat, Nop, Commands

\* The registers hold nothing but what some command put there, and what took
\* effect is a command the driver issued.
THEOREM BusTypeCorrect == Spec => []TypeOK
<1>1. Init => TypeOK
  <2> SUFFICES ASSUME Init PROVE TypeOK
    OBVIOUS
  <2>1. wait \in 0 .. CmdGap + NopGap
    BY GapAssumption DEF Init
  <2>. QED BY <2>1 DEF Init, TypeOK
<1>2. BusInv /\ TypeOK /\ [Next]_vars => TypeOK'
  BY TypeStep
<1>. QED BY <1>1, <1>2, BusInvHolds, PTL DEF Spec
=============================================================================
