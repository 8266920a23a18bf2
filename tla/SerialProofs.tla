---------------------------- MODULE SerialProofs ----------------------------
(***************************************************************************)
(* Proofs about the two serial receivers: rov_main's MAVLink parser        *)
(* (MavlinkRx), for all frames, lengths and bounds, and the serial side of *)
(* the frequency counter (FreqUart).                                       *)
(***************************************************************************)
EXTENDS MavlinkRx, FreqUart, SequenceTheorems, TLAPS

(***************************************************************************)
(* The inductive invariant of MavlinkRx                                    *)
(***************************************************************************)

\* The frame on the wire and what has been counted of it.
WireOK ==
  /\ IF frame = Idle THEN pos = 0
     ELSE frame \in Frames /\ pos \in 1 .. Len(frame.bytes) /\ sent > 0
  /\ sent \in 0 .. MaxFrames
  /\ wanted \in 0 .. sent
  /\ frame # Idle => (frame.known <=> wanted = sent)
  /\ clean \in -1 .. MaxFrames
  /\ clean + (IF frame = Idle THEN 0 ELSE 1) <= sent
  /\ leaked \in Nat /\ faults \in Nat

ParserOK ==
  /\ rx_state \in 0 .. 2 /\ rx_len \in 0 .. STX
  /\ rx_idx \in 0 .. MaxLen + Overhead
  /\ rx_state = 2 => rx_len <= MaxLen /\ rx_idx < rx_len + Overhead
  /\ line \in 0 .. LineMax
  /\ intact \in 0 .. sent

\* A frame under way is younger than the last one executed.
OrderOK ==
  /\ executed \in 0 .. sent
  /\ rx_state # 0 /\ intact # 0 => executed < intact
  /\ frame # Idle /\ pos = 1 => executed < sent

\* The parser has collected exactly what the frame on the wire has sent.
InStep ==
  IF pos = 1 THEN rx_state = 0
  ELSE /\ intact = sent
       /\ IF pos = 2 THEN rx_state = 1
          ELSE rx_state = 2 /\ rx_idx = pos - 3 /\ rx_len = Len2(frame)

\* Until the first fault the parser is in step, and the bytes that leaked are
\* the last ones of the frames completed.
LeakOK ==
  faults = 0 =>
    IF frame = Idle THEN rx_state = 0 /\ leaked <= sent
    ELSE InStep /\ leaked < sent

\* Out of step after done bytes of a frame, with clean intact frames behind it:
\* hunting for a start byte, or inside the body that a stray start byte opened,
\* into which those frames went.
Astray(done) ==
  \/ rx_state = 0
  \/ rx_state = 1 /\ clean = 0 /\ done = 0
  \/ /\ rx_state = 2
     /\ (rx_len + Overhead - rx_idx) + clean * (2 + Overhead) + done <= MaxLen + Overhead

SyncOK ==
  clean >= 0 =>
    /\ frame = Idle => Astray(0)
    /\ frame # Idle /\ Plain(frame) =>
         /\ InStep \/ Astray(pos - 1)
         /\ clean >= ResyncFrames - 1 => InStep

RxInv == WireOK /\ ParserOK /\ OrderOK /\ LeakOK /\ SyncOK /\ Resyncs

LEMMA RxConstants ==
  /\ STX \in Nat /\ MaxLen \in Nat /\ Overhead \in Nat /\ LineMax \in Nat
  /\ MaxFrames \in Nat /\ MaxFaults \in Nat /\ ResyncFrames \in Nat
  /\ STX > MaxLen /\ LineMax > 0 /\ Overhead > 0
BY FrameAssumption

LEMMA FrameFacts ==
  ASSUME NEW f \in Frames
  PROVE  /\ f # Idle /\ f.known \in BOOLEAN
         /\ Len2(f) \in 0 .. MaxLen /\ Len(f.bytes) = 2 + Len2(f) + Overhead
         /\ Len(f.bytes) \in Nat /\ Len(f.bytes) > 2
         /\ f.bytes[1] = STX
         /\ \A i \in 1 .. Len(f.bytes) : f.bytes[i] \in 0 .. STX
<1>1. /\ f.known \in BOOLEAN /\ f.bytes \in Seq(0 .. STX)
      /\ Len(f.bytes) > 2 /\ f.bytes[1] = STX /\ Len2(f) <= MaxLen
      /\ Len(f.bytes) = 2 + Len2(f) + Overhead
  BY FrameAssumption
<1>2. Len(f.bytes) \in Nat
  BY <1>1
<1>5. \A i \in 1 .. Len(f.bytes) : f.bytes[i] \in 0 .. STX
  BY <1>1, ElementOfSeq
<1>3. Len2(f) \in 0 .. MaxLen
  <2>1. f.bytes[2] \in 0 .. STX
    BY <1>1, <1>2, <1>5
  <2>. QED BY <1>1, <2>1, RxConstants DEF Len2
<1>4. f # Idle
  BY <1>1 DEF Idle
<1>. QED BY <1>1, <1>2, <1>3, <1>4, <1>5

(***************************************************************************)
(* A byte in the parser and the line editor                                *)
(***************************************************************************)

\* A parser not in the idle state holds a legal length, or is about to read it.
BodyLegal ==
  /\ rx_state \in {0, 1, 2} /\ rx_len \in Nat /\ rx_idx \in Nat
  /\ rx_state = 2 => rx_len <= MaxLen

LEMMA ParserRanges == ParserOK => BodyLegal
BY RxConstants DEF ParserOK, BodyLegal

\* Both indices stay within their buffers.
LEMMA ByteTypes ==
  ASSUME ParserOK, sent \in Nat, sent' = sent, NEW c \in 0 .. STX, NEW at \in Nat,
         MainLoopByte(c, at)
  PROVE  ParserOK'
<1>. USE RxConstants
<1>1. line' \in 0 .. LineMax
  BY DEF MainLoopByte, Edited, ParserOK
<1>2. CASE Hunt(c, at)
  BY <1>1, <1>2 DEF Hunt, ParserOK
<1>3. CASE Length(c, at)
  BY <1>1, <1>3 DEF Length, Collects, ParserOK
<1>4. CASE Body(at)
  BY <1>1, <1>4 DEF Body, Collects, ParserOK
<1>. QED BY <1>2, <1>3, <1>4 DEF MainLoopByte, mavlink_parse

\* A byte of no frame ends what the parser was collecting, and executes nothing.
LEMMA StrayByte ==
  ASSUME NEW c, MainLoopByte(c, 0), ParserOK
  PROVE  executed' = executed /\ (rx_state' # 0 => intact' = 0)
<1>1. \A taken \in Nat : Collects(0, taken) = 0
  BY DEF Collects
<1>2. rx_idx \in Nat /\ 2 + rx_idx \in Nat
  BY RxConstants DEF ParserOK
<1>. QED BY <1>1, <1>2 DEF MainLoopByte, mavlink_parse, Hunt, Length, Body, ParserOK

\* A byte of the frame on the wire leaves the order of execution alone.
LEMMA FrameByte ==
  ASSUME NEW c \in 0 .. STX, NEW at \in Nat \ {0}, MainLoopByte(c, at), ParserOK,
         sent \in Nat \ {0}, executed \in 0 .. sent,
         rx_state # 0 /\ intact # 0 => executed < intact,
         at = 1 => executed < sent
  PROVE  /\ executed' = executed \/ (executed' = sent /\ executed < sent)
         /\ executed' \in 0 .. sent
         /\ rx_state' # 0 /\ intact' # 0 => executed' < intact'
<1>. USE RxConstants
<1>1. CASE Hunt(c, at)
  BY <1>1 DEF Hunt, ParserOK
<1>2. CASE Length(c, at)
  BY <1>2 DEF Length, Collects, ParserOK
<1>3. CASE Body(at)
  BY <1>3 DEF Body, Collects, ParserOK
<1>. QED BY <1>1, <1>2, <1>3 DEF MainLoopByte, mavlink_parse

\* A parser in step stays in step to the end of the frame, shows the console
\* its last byte and executes it then if it knows the message.
LEMMA InStepByte ==
  ASSUME InStep, ParserOK, frame \in Frames, pos \in 1 .. Len(frame.bytes),
         sent \in Nat \ {0}, MainLoopByte(frame.bytes[pos], pos)
  PROVE  /\ pos < Len(frame.bytes) =>
              /\ rx_state' # 0 /\ intact' = sent
              /\ IF pos = 1 THEN rx_state' = 1
                 ELSE rx_state' = 2 /\ rx_idx' = pos - 2 /\ rx_len' = Len2(frame)
         /\ pos = Len(frame.bytes) =>
              rx_state' = 0 /\ (frame.known => executed' = sent)
<1>. USE RxConstants
<1>1. /\ Len2(frame) \in 0 .. MaxLen /\ Len(frame.bytes) = 2 + Len2(frame) + Overhead
      /\ Len(frame.bytes) \in Nat /\ frame.bytes[1] = STX
  BY FrameFacts
<1>2. CASE pos = 1
  <2>1. Hunt(STX, 1)
    BY <1>1, <1>2 DEF InStep, MainLoopByte, mavlink_parse, Length, Body
  <2>2. rx_state' = 1 /\ intact' = sent
    BY <2>1 DEF Hunt
  <2>. QED BY <1>1, <1>2, <2>2
<1>3. CASE pos = 2
  <2>1. Length(Len2(frame), 2) /\ Collects(2, 1) = sent
    BY <1>3 DEF InStep, MainLoopByte, mavlink_parse, Hunt, Body, Len2, Collects
  <2>2. rx_state' = 2 /\ intact' = sent /\ rx_idx' = 0 /\ rx_len' = Len2(frame)
    BY <1>1, <2>1 DEF Length
  <2>. QED BY <1>1, <1>3, <2>2
<1>4. CASE pos > 2
  <2>1. Body(pos) /\ rx_idx = pos - 3 /\ rx_len = Len2(frame) /\ intact = sent
    BY <1>4 DEF InStep, MainLoopByte, mavlink_parse, Hunt, Length
  <2>2. Collects(pos, 2 + rx_idx) = sent
    BY <2>1 DEF Collects
  <2>3. /\ rx_idx' = pos - 2 /\ rx_len' = Len2(frame) /\ intact' = sent
        /\ pos - 2 < Len2(frame) + Overhead => rx_state' = 2
        /\ pos - 2 >= Len2(frame) + Overhead => rx_state' = 0 /\ (frame.known => executed' = sent)
    BY <1>1, <2>1, <2>2 DEF Body
  <2>. QED BY <1>1, <1>4, <2>3
<1>. QED BY <1>2, <1>3, <1>4

(***************************************************************************)
(* The steps                                                               *)
(***************************************************************************)

\* A position advances within its frame or the frame ends.
LEMMA AdvanceStep ==
  ASSUME WireOK, frame # Idle, Advance
  PROVE  /\ frame \in Frames /\ pos \in 1 .. Len(frame.bytes) /\ Len(frame.bytes) \in Nat
         /\ sent \in Nat \ {0} /\ sent' = sent /\ wanted' = wanted
         /\ \/ pos < Len(frame.bytes) /\ frame' = frame /\ pos' = pos + 1
            \/ pos = Len(frame.bytes) /\ frame' = Idle /\ pos' = 0
<1>1. frame \in Frames /\ pos \in 1 .. Len(frame.bytes) /\ sent \in Nat \ {0}
  BY RxConstants DEF WireOK
<1>2. Len(frame.bytes) \in Nat
  BY <1>1, FrameFacts
<1>. QED BY <1>1, <1>2 DEF Advance

LEMMA AdvanceWire ==
  ASSUME WireOK, frame # Idle, Advance, leaked' \in Nat, faults' \in Nat,
         clean' \in -1 .. clean \/ (pos = Len(frame.bytes) /\ clean' \in {0, clean + 1})
  PROVE  WireOK'
<1>. USE RxConstants
<1>1. /\ frame \in Frames /\ pos \in 1 .. Len(frame.bytes) /\ Len(frame.bytes) \in Nat
      /\ sent \in Nat \ {0} /\ sent' = sent /\ wanted' = wanted
  BY AdvanceStep
<1>2. CASE pos < Len(frame.bytes) /\ frame' = frame /\ pos' = pos + 1
  BY <1>1, <1>2 DEF WireOK
<1>3. CASE pos = Len(frame.bytes) /\ frame' = Idle /\ pos' = 0
  BY <1>1, <1>3 DEF WireOK
<1>. QED BY <1>2, <1>3, AdvanceStep

LEMMA WireStep ==
  ASSUME WireOK, ParserOK, RxNext
  PROVE  WireOK'
<1>. USE RxConstants
<1>1. CASE SendFrame
  <2>1. /\ frame = Idle /\ frame' \in Frames /\ pos' = 1 /\ sent' = sent + 1 /\ sent < MaxFrames
        /\ wanted' = IF frame'.known THEN sent' ELSE wanted
        /\ UNCHANGED <<clean, leaked, faults>>
    BY <1>1 DEF SendFrame, history
  <2>2. frame' # Idle /\ frame'.known \in BOOLEAN /\ pos' \in 1 .. Len(frame'.bytes)
    BY <2>1, FrameFacts
  <2>3. (frame'.known <=> wanted' = sent') /\ wanted' \in 0 .. sent'
    BY <2>1, <2>2 DEF WireOK
  <2>. QED BY <2>1, <2>2, <2>3 DEF WireOK
<1>2. CASE Receive
  <2>1. leaked' \in Nat /\ faults' \in Nat
    BY <1>2 DEF Receive, WireOK
  <2>2. clean' \in -1 .. clean \/ (pos = Len(frame.bytes) /\ clean' \in {0, clean + 1})
    BY <1>2, AdvanceStep DEF Receive, WireOK
  <2>. QED BY <1>2, <2>1, <2>2, AdvanceWire DEF Receive
<1>3. CASE Lose \/ \E c \in 0 .. STX : Change(c)
  <2>1. leaked' \in Nat /\ faults' \in Nat /\ clean' \in -1 .. clean
    BY <1>3 DEF Lose, Change, Fault, WireOK
  <2>. QED BY <1>3, <2>1, AdvanceWire DEF Lose, Change
<1>4. CASE Reset
  BY <1>4 DEF Reset, Fault, wire, WireOK
<1>5. CASE \E c \in Typed : Type(c)
  BY <1>5 DEF Type, wire, history, WireOK
<1>. QED BY <1>1, <1>2, <1>3, <1>4, <1>5 DEF RxNext

LEMMA TypedBytes ==
  ASSUME NEW c \in Typed
  PROVE  c \in 0 .. STX /\ c # STX
BY FrameAssumption, RxConstants

LEMMA ParserStep ==
  ASSUME WireOK, ParserOK, RxNext
  PROVE  ParserOK'
<1>. USE RxConstants
<1>1. CASE SendFrame
  BY <1>1 DEF SendFrame, parser, WireOK, ParserOK
<1>2. CASE Receive
  <2>1. frame.bytes[pos] \in 0 .. STX /\ pos \in Nat /\ sent \in Nat /\ sent' = sent
    BY <1>2, AdvanceStep, FrameFacts DEF Receive
  <2>. QED BY <1>2, <2>1, ByteTypes DEF Receive
<1>3. CASE Lose
  BY <1>3, AdvanceStep DEF Lose, parser, ParserOK
<1>4. CASE \E c \in 0 .. STX : Change(c)
  <2>1. PICK c \in 0 .. STX : Change(c)
    BY <1>4
  <2>2. sent \in Nat /\ sent' = sent /\ MainLoopByte(c, 0)
    BY <2>1, AdvanceStep DEF Change
  <2>. QED BY <2>2, ByteTypes
<1>5. CASE Reset
  BY <1>5 DEF Reset, wire, WireOK, ParserOK
<1>6. CASE \E c \in Typed : Type(c)
  <2>1. PICK c \in Typed : Type(c)
    BY <1>6
  <2>2. sent \in Nat /\ sent' = sent /\ MainLoopByte(c, 0)
    BY <2>1 DEF Type, wire, WireOK
  <2>. QED BY <2>2, TypedBytes, ByteTypes
<1>. QED BY <1>1, <1>2, <1>3, <1>4, <1>5, <1>6 DEF RxNext

\* What a step does to the numbers of LossyLink, and to OrderOK.
LEMMA OrderStep ==
  ASSUME WireOK, ParserOK, OrderOK, RxNext
  PROVE  /\ OrderOK'
         /\ \/ sent' = sent + 1 /\ executed' = executed
            \/ sent' = sent /\ executed' = executed
            \/ sent' = sent /\ executed < sent /\ executed' = sent
<1>. USE RxConstants
<1>s. sent \in Nat /\ executed \in 0 .. sent /\ intact \in 0 .. sent
  BY DEF WireOK, OrderOK, ParserOK
<1>1. CASE SendFrame
  <2>1. sent' = sent + 1 /\ UNCHANGED <<rx_state, intact, executed>>
    BY <1>1 DEF SendFrame, parser
  <2>. QED BY <1>s, <2>1 DEF OrderOK
<1>2. CASE Receive
  <2>1. /\ frame.bytes[pos] \in 0 .. STX /\ pos \in Nat \ {0} /\ sent \in Nat \ {0} /\ sent' = sent
        /\ MainLoopByte(frame.bytes[pos], pos)
    BY <1>2, AdvanceStep, FrameFacts DEF Receive
  <2>2. frame' # Idle => pos' # 1
    BY <1>2, AdvanceStep DEF Receive
  <2>3. /\ executed' = executed \/ (executed' = sent /\ executed < sent)
        /\ executed' \in 0 .. sent
        /\ rx_state' # 0 /\ intact' # 0 => executed' < intact'
    BY <1>2, <2>1, FrameByte DEF OrderOK, Receive
  <2>. QED BY <2>1, <2>2, <2>3 DEF OrderOK
<1>3. CASE Lose
  <2>1. sent' = sent /\ (frame' # Idle => pos' # 1) /\ UNCHANGED <<rx_state, intact, executed>>
    BY <1>3, AdvanceStep DEF Lose, parser
  <2>. QED BY <2>1 DEF OrderOK
<1>4. CASE \E c \in 0 .. STX : Change(c)
  <2>1. sent' = sent /\ (frame' # Idle => pos' # 1)
    BY <1>4, AdvanceStep DEF Change
  <2>2. executed' = executed /\ (rx_state' # 0 => intact' = 0)
    BY <1>4, StrayByte DEF Change
  <2>. QED BY <1>s, <2>1, <2>2 DEF OrderOK
<1>5. CASE Reset
  BY <1>5 DEF Reset, wire, OrderOK
<1>6. CASE \E c \in Typed : Type(c)
  <2>1. UNCHANGED <<frame, pos, sent>>
    BY <1>6 DEF Type, wire
  <2>2. executed' = executed /\ (rx_state' # 0 => intact' = 0)
    BY <1>6, StrayByte DEF Type
  <2>. QED BY <2>1, <2>2 DEF OrderOK
<1>. QED BY <1>1, <1>2, <1>3, <1>4, <1>5, <1>6 DEF RxNext

\* In step before a byte of the frame on the wire, in step after it; the last
\* byte leaves the parser hunting.
LEMMA ReceiveInStep ==
  ASSUME WireOK, ParserOK, Receive, InStep
  PROVE  /\ frame' # Idle => InStep' /\ rx_state' # 0
         /\ frame' = Idle => rx_state' = 0 /\ (frame.known => executed' = sent)
<1>1. /\ frame \in Frames /\ pos \in 1 .. Len(frame.bytes) /\ Len(frame.bytes) \in Nat
      /\ sent \in Nat \ {0} /\ sent' = sent /\ frame # Idle
      /\ MainLoopByte(frame.bytes[pos], pos)
  BY AdvanceStep DEF Receive
<1>2. CASE pos < Len(frame.bytes) /\ frame' = frame /\ pos' = pos + 1
  <2>1. /\ rx_state' # 0 /\ intact' = sent
        /\ IF pos = 1 THEN rx_state' = 1
           ELSE rx_state' = 2 /\ rx_idx' = pos - 2 /\ rx_len' = Len2(frame)
    BY <1>1, <1>2, InStepByte
  <2>2. pos' # 1 /\ (pos' = 2 <=> pos = 1) /\ pos' - 3 = pos - 2 /\ Len2(frame)' = Len2(frame)
    BY <1>1, <1>2 DEF Len2
  <2>. QED BY <1>1, <1>2, <2>1, <2>2 DEF InStep
<1>3. CASE pos = Len(frame.bytes) /\ frame' = Idle /\ pos' = 0
  BY <1>1, <1>3, InStepByte
<1>. QED BY <1>2, <1>3, AdvanceStep DEF Receive

LEMMA LeakStep ==
  ASSUME WireOK, ParserOK, LeakOK, RxNext
  PROVE  LeakOK'
<1>1. CASE SendFrame
  BY <1>1 DEF SendFrame, parser, history, WireOK, LeakOK, InStep
<1>2. CASE Receive
  <2>1. SUFFICES ASSUME faults = 0
                 PROVE  IF frame' = Idle THEN rx_state' = 0 /\ leaked' <= sent'
                        ELSE InStep' /\ leaked' < sent'
    BY <1>2 DEF Receive, LeakOK
  <2>2. InStep /\ leaked \in Nat /\ leaked < sent /\ sent \in Nat /\ sent' = sent
    BY <1>2, <2>1, AdvanceStep DEF Receive, LeakOK, WireOK
  <2>. QED BY <1>2, <2>2, ReceiveInStep DEF Receive, ToConsole
<1>3. CASE Lose \/ (\E c \in 0 .. STX : Change(c)) \/ Reset
  BY <1>3 DEF Lose, Change, Reset, Fault, WireOK, LeakOK
<1>4. CASE \E c \in Typed : Type(c)
  <2>1. PICK c \in Typed : Type(c)
    BY <1>4
  <2>2. rx_state = 0 => rx_state' = 0
    BY <2>1, TypedBytes DEF Type, MainLoopByte, mavlink_parse, Hunt, Length, Body
  <2>. QED BY <2>1, <2>2 DEF Type, wire, history, LeakOK
<1>. QED BY <1>1, <1>2, <1>3, <1>4 DEF RxNext

(***************************************************************************)
(* Back in step                                                            *)
(***************************************************************************)

\* A frame more in a row; ResyncFrames - 1 frames do not fit into a body.
LEMMA RowGrows ==
  ASSUME NEW k \in Nat
  PROVE  /\ k * (2 + Overhead) \in Nat
         /\ (k + 1) * (2 + Overhead) = k * (2 + Overhead) + 2 + Overhead
         /\ k >= ResyncFrames - 1 => k > 0 /\ k * (2 + Overhead) >= MaxLen + Overhead
<1>. USE RxConstants
<1>1. k * (2 + Overhead) \in Nat
  OBVIOUS
<1>2. (k + 1) * (2 + Overhead) = k * (2 + Overhead) + 2 + Overhead
  OBVIOUS
<1>3. ASSUME k >= ResyncFrames - 1
      PROVE  k > 0 /\ k * (2 + Overhead) >= MaxLen + Overhead
  <2>1. (k - (ResyncFrames - 1)) * (2 + Overhead) >= 0
    BY <1>3
  <2>2. k * (2 + Overhead)
          = (ResyncFrames - 1) * (2 + Overhead) + (k - (ResyncFrames - 1)) * (2 + Overhead)
    OBVIOUS
  <2>3. (ResyncFrames - 1) * (2 + Overhead) >= MaxLen + Overhead
    BY ResyncAssumption
  <2>4. k * (2 + Overhead) >= MaxLen + Overhead
    BY <2>1, <2>2, <2>3
  <2>5. k # 0
    BY <2>4
  <2>. QED BY <2>4, <2>5
<1>. QED BY <1>1, <1>2, <1>3

\* A parser astray takes a byte of an intact plain frame, or a typed one,
\* without losing ground: a start byte it meets cannot open a body, and a body
\* that is open gets shorter.
LEMMA AstrayByte ==
  ASSUME ParserOK, clean \in Nat, NEW done \in Nat, Astray(done),
         NEW c \in 0 .. STX, NEW at, MainLoopByte(c, at),
         c = STX => rx_state # 0, rx_state = 1 => c = STX
  PROVE  \/ rx_state' = 0
         \/ /\ rx_state' = 2
            /\ (rx_len' + Overhead - rx_idx') + clean * (2 + Overhead) + done + 1 <= MaxLen + Overhead
<1>. USE RxConstants, RowGrows
<1>1. CASE Hunt(c, at)
  BY <1>1 DEF Hunt
<1>2. CASE Length(c, at)
  BY <1>2 DEF Length
<1>3. CASE Body(at)
  <2>1. /\ rx_state = 2 /\ rx_len' = rx_len /\ rx_idx' = rx_idx + 1
        /\ rx_state' \in {0, 2} /\ rx_len \in Nat /\ rx_idx \in Nat
    BY <1>3 DEF Body, ParserOK
  <2>2. (rx_len + Overhead - rx_idx) + clean * (2 + Overhead) + done <= MaxLen + Overhead
    BY <2>1 DEF Astray
  <2>. QED BY <2>1, <2>2
<1>. QED BY <1>1, <1>2, <1>3 DEF MainLoopByte, mavlink_parse

\* With ResyncFrames - 1 intact frames behind it a parser astray is hunting.
LEMMA Hunting ==
  ASSUME ParserOK, clean \in Nat, clean >= ResyncFrames - 1, NEW done \in Nat, Astray(done)
  PROVE  rx_state = 0
<1>1. clean > 0 /\ clean * (2 + Overhead) >= MaxLen + Overhead /\ clean * (2 + Overhead) \in Nat
  BY RowGrows
<1>2. CASE rx_state = 2
  <2>1. rx_len + Overhead - rx_idx > 0 /\ rx_len + Overhead - rx_idx \in Int
    BY <1>2, RxConstants DEF ParserOK
  <2>2. (rx_len + Overhead - rx_idx) + clean * (2 + Overhead) + done <= MaxLen + Overhead
    BY <1>2 DEF Astray
  <2>. QED BY <1>1, <2>1, <2>2, RxConstants
<1>. QED BY <1>1, <1>2 DEF Astray

\* A byte of a plain frame that the parser is not following.
LEMMA ReceiveAstray ==
  ASSUME WireOK, ParserOK, SyncOK, Receive, clean \in Nat, Plain(frame), ~InStep
  PROVE  /\ ~(clean >= ResyncFrames - 1)
         /\ rx_len' \in Nat /\ rx_idx' \in Nat
         /\ \/ rx_state' = 0
            \/ /\ rx_state' = 2
               /\ (rx_len' + Overhead - rx_idx') + clean * (2 + Overhead) + pos <= MaxLen + Overhead
<1>1. /\ frame \in Frames /\ pos \in 1 .. Len(frame.bytes) /\ Len(frame.bytes) \in Nat
      /\ MainLoopByte(frame.bytes[pos], pos) /\ frame # Idle
  BY AdvanceStep DEF Receive
<1>2. Astray(pos - 1) /\ ~(clean >= ResyncFrames - 1)
  BY <1>1 DEF SyncOK
<1>3. frame.bytes[pos] \in 0 .. STX /\ (frame.bytes[pos] = STX <=> pos = 1)
  BY <1>1, FrameFacts DEF Plain
<1>4. frame.bytes[pos] = STX => rx_state # 0
  BY <1>3 DEF InStep
<1>5. rx_state = 1 => frame.bytes[pos] = STX
  BY <1>1, <1>2, <1>3 DEF Astray
<1>6. \/ rx_state' = 0
      \/ /\ rx_state' = 2
         /\ (rx_len' + Overhead - rx_idx') + clean * (2 + Overhead) + (pos - 1) + 1
              <= MaxLen + Overhead
  BY <1>1, <1>2, <1>3, <1>4, <1>5, AstrayByte, pos - 1 \in Nat
<1>7. rx_len' \in Nat /\ rx_idx' \in Nat
  BY ParserStep, RxConstants DEF ParserOK, RxNext
<1>8. clean * (2 + Overhead) \in Nat /\ pos \in Nat /\ Overhead \in Nat
  BY <1>1, RxConstants, RowGrows
<1>. QED BY <1>2, <1>6, <1>7, <1>8

LEMMA SyncStep ==
  ASSUME WireOK, ParserOK, SyncOK, RxNext
  PROVE  SyncOK'
<1>. USE RxConstants
<1>0. SUFFICES ASSUME clean' >= 0
               PROVE  /\ frame' = Idle => Astray(0)'
                      /\ frame' # Idle /\ Plain(frame') =>
                           /\ InStep' \/ Astray(pos - 1)'
                           /\ clean' >= ResyncFrames - 1 => InStep'
  BY DEF SyncOK
<1>1. CASE SendFrame
  <2>1. /\ frame = Idle /\ frame' # Idle /\ pos' = 1 /\ pos' - 1 = 0 /\ clean' = clean /\ clean \in Nat
        /\ UNCHANGED <<rx_state, rx_len, rx_idx, intact>>
    BY <1>0, <1>1, FrameFacts DEF SendFrame, parser, history, WireOK
  <2>2. Astray(0)
    BY <1>0, <2>1 DEF SyncOK
  <2>3. Astray(pos - 1)'
    BY <2>1, <2>2 DEF Astray
  <2>4. clean >= ResyncFrames - 1 => rx_state = 0
    BY <2>1, <2>2, Hunting
  <2>. QED BY <2>1, <2>3, <2>4 DEF InStep
<1>2. CASE Receive
  <2>1. /\ frame \in Frames /\ pos \in 1 .. Len(frame.bytes) /\ Len(frame.bytes) \in Nat
        /\ frame # Idle
    BY <1>2, AdvanceStep DEF Receive
  <2>2. CASE frame' # Idle
    <3>1. pos < Len(frame.bytes) /\ frame' = frame /\ clean' = clean
      BY <1>2, <2>1, <2>2, AdvanceStep DEF Receive
    <3>2. SUFFICES ASSUME Plain(frame)
                   PROVE  (InStep' \/ Astray(pos - 1)') /\ (clean' >= ResyncFrames - 1 => InStep')
      BY <2>2, <3>1
    <3>3. CASE InStep
      BY <1>2, <2>2, <3>3, ReceiveInStep
    <3>4. CASE ~InStep
      <4>1. clean \in Nat /\ pos' - 1 = pos
        BY <1>0, <1>2, <2>1, <2>2, <3>1, AdvanceStep DEF Receive, WireOK
      <4>2. /\ ~(clean >= ResyncFrames - 1)
            /\ \/ rx_state' = 0
               \/ /\ rx_state' = 2
                  /\ (rx_len' + Overhead - rx_idx') + clean * (2 + Overhead) + pos
                       <= MaxLen + Overhead
        BY <1>2, <3>2, <3>4, <4>1, ReceiveAstray
      <4>3. Overhead' = Overhead /\ MaxLen' = MaxLen
        OBVIOUS
      <4>. QED BY <3>1, <4>1, <4>2, <4>3 DEF Astray
    <3>. QED BY <3>3, <3>4
  <2>3. CASE frame' = Idle
    <3>1. pos = Len(frame.bytes) /\ clean' = IF Plain(frame) THEN clean + 1 ELSE 0
      BY <1>2, <2>1, <2>3, AdvanceStep, FrameFacts DEF Receive
    <3>2. ParserOK'
      BY ParserStep
    <3>3. CASE clean' = 0
      <4>1. clean' * (2 + Overhead) = 0 /\ Overhead' = Overhead /\ MaxLen' = MaxLen
        BY <3>3
      <4>2. /\ rx_state' \in {0, 1, 2} /\ rx_len' \in Nat /\ rx_idx' \in Nat
            /\ rx_state' = 2 => rx_len' <= MaxLen
        <5>1. ParserOK' => BodyLegal'
          BY ParserRanges, PTL
        <5>. QED BY <3>2, <5>1 DEF BodyLegal
      <4>3. rx_state' = 2 =>
              (rx_len' + Overhead - rx_idx') + clean' * (2 + Overhead) + 0 <= MaxLen + Overhead
        <5>1. PICK l \in Nat, i \in Nat : l = rx_len' /\ i = rx_idx'
          BY <4>2
        <5>2. l <= MaxLen => (l + Overhead - i) + 0 + 0 <= MaxLen + Overhead
          OBVIOUS
        <5>. QED BY <4>1, <4>2, <5>1, <5>2
      <4>. QED BY <2>3, <3>3, <4>1, <4>2, <4>3 DEF Astray
    <3>4. CASE clean' # 0
      <4>1. Plain(frame) /\ clean' = clean + 1 /\ clean \in Nat
        BY <1>0, <3>1, <3>4 DEF WireOK
      <4>2. CASE InStep
        BY <1>2, <2>3, <4>2, ReceiveInStep DEF Astray
      <4>3. CASE ~InStep
        <5>1. /\ rx_len' \in Nat /\ rx_idx' \in Nat
              /\ \/ rx_state' = 0
                 \/ /\ rx_state' = 2
                    /\ (rx_len' + Overhead - rx_idx') + clean * (2 + Overhead) + pos
                         <= MaxLen + Overhead
          BY <1>2, <4>1, <4>3, ReceiveAstray
        <5>2. /\ clean * (2 + Overhead) \in Nat
              /\ clean' * (2 + Overhead) = clean * (2 + Overhead) + 2 + Overhead
          BY <4>1, RowGrows
        <5>3. pos >= 2 + Overhead /\ pos \in Nat
          BY <2>1, <3>1, FrameFacts
        <5>4. rx_state' = 2 =>
                (rx_len' + Overhead - rx_idx') + clean' * (2 + Overhead) + 0 <= MaxLen + Overhead
          BY <5>1, <5>2, <5>3
        <5>. QED BY <2>3, <5>1, <5>4 DEF Astray
      <4>. QED BY <4>2, <4>3
    <3>. QED BY <3>3, <3>4
  <2>. QED BY <2>2, <2>3
<1>3. CASE Lose \/ (\E c \in 0 .. STX : Change(c)) \/ Reset
  BY <1>0, <1>3 DEF Lose, Change, Reset, Fault
<1>4. CASE \E c \in Typed : Type(c)
  <2>1. PICK c \in Typed : Type(c)
    BY <1>4
  <2>2. /\ frame = Idle /\ frame' = Idle /\ clean' = clean /\ clean \in Nat
        /\ MainLoopByte(c, 0) /\ c \in 0 .. STX /\ c # STX
    BY <1>0, <2>1, TypedBytes DEF Type, wire, history, WireOK
  <2>3. Astray(0)
    BY <2>2 DEF SyncOK
  <2>4. CASE rx_state = 0
    BY <2>2, <2>4 DEF MainLoopByte, mavlink_parse, Hunt, Length, Body, Astray
  <2>5. CASE rx_state = 1
    <3>1. /\ rx_state' \in {0, 2} /\ clean = 0
          /\ rx_state' = 2 => rx_len' = c /\ rx_idx' = 0 /\ c <= MaxLen
      BY <2>2, <2>3, <2>5 DEF MainLoopByte, mavlink_parse, Hunt, Length, Body, Astray
    <3>2. clean' * (2 + Overhead) = 0 /\ Overhead' = Overhead /\ MaxLen' = MaxLen
      BY <2>2, <3>1
    <3>3. rx_state' = 2 =>
            (rx_len' + Overhead - rx_idx') + clean' * (2 + Overhead) + 0 <= MaxLen + Overhead
      BY <2>2, <3>1, <3>2
    <3>. QED BY <2>2, <3>1, <3>2, <3>3 DEF Astray
  <2>6. CASE rx_state = 2
    <3>1. \/ rx_state' = 0
          \/ /\ rx_state' = 2
             /\ (rx_len' + Overhead - rx_idx') + clean * (2 + Overhead) + 0 + 1 <= MaxLen + Overhead
      BY <2>2, <2>3, <2>6, AstrayByte
    <3>2. rx_len' \in Nat /\ rx_idx' \in Nat /\ clean * (2 + Overhead) \in Nat
      BY <2>2, ParserStep, RowGrows DEF ParserOK
    <3>3. rx_state' = 2 =>
            (rx_len' + Overhead - rx_idx') + clean * (2 + Overhead) + 0 <= MaxLen + Overhead
      BY <3>1, <3>2
    <3>4. Overhead' = Overhead /\ MaxLen' = MaxLen
      OBVIOUS
    <3>. QED BY <2>2, <3>1, <3>3, <3>4 DEF Astray
  <2>. QED BY <2>4, <2>5, <2>6 DEF ParserOK
<1>. QED BY <1>1, <1>2, <1>3, <1>4 DEF RxNext

LEMMA ResyncsStep ==
  ASSUME WireOK, ParserOK, OrderOK, SyncOK, Resyncs, RxNext
  PROVE  Resyncs'
<1>. USE RxConstants
<1>0. SUFFICES ASSUME frame' = Idle, clean' >= ResyncFrames, wanted' = sent'
               PROVE  executed' = sent'
  BY DEF Resyncs
<1>1. CASE SendFrame
  BY <1>0, <1>1, FrameFacts DEF SendFrame
<1>2. CASE Receive
  <2>1. /\ frame \in Frames /\ pos = Len(frame.bytes) /\ sent' = sent /\ wanted' = wanted
        /\ frame # Idle
    BY <1>0, <1>2, AdvanceStep, FrameFacts DEF Receive
  <2>2. ResyncFrames > 0
    BY ResyncAssumption
  <2>3. Plain(frame) /\ clean' = clean + 1 /\ clean \in Nat /\ clean >= ResyncFrames - 1
    BY <1>0, <1>2, <2>1, <2>2, FrameFacts DEF Receive, WireOK
  <2>4. InStep /\ frame.known
    BY <1>0, <2>1, <2>3 DEF SyncOK, WireOK
  <2>. QED BY <1>0, <1>2, <2>1, <2>4, ReceiveInStep
<1>3. CASE Lose \/ (\E c \in 0 .. STX : Change(c)) \/ Reset
  BY <1>0, <1>3 DEF Lose, Change, Reset, Fault
<1>4. CASE \E c \in Typed : Type(c)
  <2>1. executed' = executed
    BY <1>4, StrayByte DEF Type
  <2>. QED BY <1>0, <1>4, <2>1 DEF Type, wire, history, Resyncs
<1>. QED BY <1>1, <1>2, <1>3, <1>4 DEF RxNext

LEMMA RxKeeps == RxSpec => []RxInv
<1>1. RxInit => RxInv
  <2> SUFFICES ASSUME RxInit PROVE RxInv
    OBVIOUS
  <2>. USE RxConstants DEF RxInit
  <2>1. WireOK
    BY DEF WireOK
  <2>2. ParserOK
    BY DEF ParserOK
  <2>3. OrderOK /\ LeakOK
    BY DEF OrderOK, LeakOK
  <2>4. SyncOK
    BY DEF SyncOK, Astray
  <2>5. Resyncs
    BY DEF Resyncs
  <2>. QED BY <2>1, <2>2, <2>3, <2>4, <2>5 DEF RxInv
<1>2. RxInv /\ [RxNext]_rxVars => RxInv'
  <2> SUFFICES ASSUME RxInv, [RxNext]_rxVars PROVE RxInv'
    OBVIOUS
  <2>1. CASE RxNext
    BY <2>1, WireStep, ParserStep, OrderStep, LeakStep, SyncStep, ResyncsStep DEF RxInv
  <2>2. CASE UNCHANGED rxVars
    <3>. USE <2>2 DEF rxVars, parser, wire, history, RxInv
    <3>1. WireOK' /\ ParserOK' /\ OrderOK'
      BY DEF WireOK, ParserOK, OrderOK
    <3>2. LeakOK'
      BY DEF LeakOK, InStep, Len2
    <3>3. SyncOK' /\ Resyncs'
      BY DEF SyncOK, Resyncs, Astray, InStep, Len2, Plain
    <3>. QED BY <3>1, <3>2, <3>3
  <2>. QED BY <2>1, <2>2
<1>. QED BY <1>1, <1>2, PTL DEF RxSpec

\* Whatever comes over the line, the parser writes within rx_buf and the line
\* editor within its line.
THEOREM RxTypeCorrect == RxSpec => []RxTypeOK
<1>1. RxInv => RxTypeOK
  BY RxConstants DEF RxInv, WireOK, ParserOK, RxTypeOK
<1>. QED BY <1>1, RxKeeps, PTL

\* Until the first fault the console sees at most one byte of every frame.
THEOREM OneByteLeaks == RxSpec => []LeakBound
<1>1. RxInv => LeakBound
  BY RxConstants DEF RxInv, WireOK, LeakOK, LeakBound
<1>. QED BY <1>1, RxKeeps, PTL

\* After any faults the parser is back in step within as many frames as cover
\* the longest body.
THEOREM ParserRecovers == RxSpec => []Resyncs
<1>1. RxInv => Resyncs
  BY DEF RxInv
<1>. QED BY <1>1, RxKeeps, PTL

\* The receiver implements a link that may lose messages and does nothing else
\* to them.
THEOREM ImplementsLink == RxSpec => LinkSpec
<1>1. RxInit => Link!Init
  BY DEF RxInit, Link!Init
<1>2. RxInv /\ [RxNext]_rxVars => [Link!Next]_<<sent, executed>>
  <2> SUFFICES ASSUME RxInv, RxNext PROVE [Link!Next]_<<sent, executed>>
    BY DEF rxVars, parser, wire
  <2>1. sent \in Nat /\ executed \in Nat
    BY RxConstants DEF RxInv, WireOK, OrderOK
  <2>. QED BY <2>1, OrderStep DEF RxInv, Link!Next, Link!Send, Link!Execute
<1>. QED BY <1>1, <1>2, RxKeeps, PTL DEF RxSpec, LinkSpec, Link!Spec

(***************************************************************************)
(* The inductive invariant of FreqUart                                     *)
(***************************************************************************)

\* The transmitter is busy with the report exactly while one is open.
WhoseTurn == tx_busy => (tx_is_report <=> report_active)

\* Bytes received and not yet on their way back.
Backlog == fifo_count + (IF rx_valid THEN 1 ELSE 0)

\* Characters of the open report still to begin, edges until the transmitter
\* is free for an echo.
Unsent == ReportLen - report_idx - (IF tx_busy THEN 1 ELSE 0)
Work == tx_left + (IF report_active THEN Unsent * (TxEdges + 1) ELSE 0)

\* The backlog of a burst, in edges of arrival, stays below the one report that
\* can be in its way and the echo's delay against the line, byte by byte.
BacklogOK ==
  /\ rx_valid => rx_gap = RxEdges - 1
  /\ longest <= FIFO_DEPTH + ReportLen =>
       /\ ~rx_overflow
       /\ Backlog <= burst
       /\ Backlog > 0 =>
            (Backlog - 1) * RxEdges + (RxEdges - 1 - rx_gap) + Work
              <= ReportLen * (TxEdges + 1) + (burst - Backlog) * Slip

LEMMA UartConstants ==
  /\ FIFO_DEPTH \in Nat /\ FIFO_DEPTH > 0 /\ ReportLen \in Nat /\ ReportLen > 0
  /\ TxEdges \in Nat /\ TxEdges > 0 /\ RxEdges \in Nat /\ RxEdges > 0
  /\ GateEdges \in Nat /\ GateEdges > 0 /\ BurstCap \in Nat
  /\ BurstCap > FIFO_DEPTH + ReportLen
BY UartAssumption

(***************************************************************************)
(* The ring buffer                                                         *)
(***************************************************************************)

\* Pointers run over the end of the buffer at most once.
LEMMA RingIndex ==
  ASSUME NEW n \in 0 .. 2 * FIFO_DEPTH - 1
  PROVE  n % FIFO_DEPTH = IF n < FIFO_DEPTH THEN n ELSE n - FIFO_DEPTH
<1>. DEFINE m == FIFO_DEPTH
            q == n \div m
<1>1. m \in Int /\ m > 0
  BY UartConstants
<1>2. n \in Int /\ n % m \in 0 .. m - 1 /\ q \in Int /\ m * q = n - (n % m)
  <2>. HIDE DEF m
  <2>1. n \in Int
    BY UartConstants DEF m
  <2>2. n % m \in 0 .. m - 1 /\ n \div m \in Int
    BY <1>1, <2>1
  <2>3. m * (n \div m) = n - (n % m)
    BY <1>1, <2>1
  <2>. QED BY <2>1, <2>2, <2>3 DEF q
<1>. HIDE DEF m, q
<1>3. 0 <= n /\ n < 2 * m
  BY UartConstants DEF m
<1>4. q = 0 \/ q = 1
  <2>1. ~(q <= -1)
    <3>1. q <= -1 => m * (-1 - q) >= 0 /\ m * (-1 - q) = -m - m * q
      BY <1>1, <1>2
    <3>. QED BY <1>1, <1>2, <1>3, <3>1
  <2>2. ~(q >= 2)
    <3>1. q >= 2 => m * (q - 2) >= 0 /\ m * (q - 2) = m * q - 2 * m
      BY <1>1, <1>2
    <3>. QED BY <1>1, <1>2, <1>3, <3>1
  <2>. QED BY <1>2, <2>1, <2>2
<1>5. m * 0 = 0 /\ m * 1 = m
  BY <1>1
<1>. QED BY <1>1, <1>2, <1>3, <1>4, <1>5 DEF m

Flags ==
  /\ rx_valid \in BOOLEAN /\ rx_overflow \in BOOLEAN /\ freq_pending \in BOOLEAN
  /\ report_active \in BOOLEAN /\ tx_is_report \in BOOLEAN /\ gate_done \in BOOLEAN
  /\ owed \in BOOLEAN

Ring ==
  /\ fifo_count \in 0 .. FIFO_DEPTH
  /\ fifo_wr_ptr \in 0 .. FIFO_DEPTH - 1 /\ fifo_rd_ptr \in 0 .. FIFO_DEPTH - 1
  /\ fifo_wr_ptr = (fifo_rd_ptr + fifo_count) % FIFO_DEPTH

\* A pointer after one more byte.
LEMMA PointerNext ==
  ASSUME NEW p \in 0 .. FIFO_DEPTH - 1
  PROVE  /\ (p + 1) % FIFO_DEPTH \in 0 .. FIFO_DEPTH - 1
         /\ (p + 1) % FIFO_DEPTH = IF p + 1 < FIFO_DEPTH THEN p + 1 ELSE 0
BY RingIndex, UartConstants

\* What a push, a pop, both or none do to the pointers and the count.
LEMMA RingStep ==
  ASSUME Ring, Fifo
  PROVE  Ring'
<1>. USE UartConstants
<1>1. /\ fifo_count \in 0 .. FIFO_DEPTH /\ fifo_wr_ptr \in 0 .. FIFO_DEPTH - 1
      /\ fifo_rd_ptr \in 0 .. FIFO_DEPTH - 1
      /\ fifo_wr_ptr = IF fifo_rd_ptr + fifo_count < FIFO_DEPTH
                       THEN fifo_rd_ptr + fifo_count
                       ELSE fifo_rd_ptr + fifo_count - FIFO_DEPTH
  BY RingIndex DEF Ring
<1>2. fifo_push => fifo_count < FIFO_DEPTH
  BY <1>1 DEF fifo_push, fifo_full
<1>3. fifo_pop => fifo_count > 0
  BY DEF fifo_pop
<1>. HIDE DEF fifo_push, fifo_pop
<1>4. PICK count \in 0 .. FIFO_DEPTH, rd \in 0 .. FIFO_DEPTH - 1, wr \in 0 .. FIFO_DEPTH - 1 :
        /\ fifo_count' = count /\ fifo_rd_ptr' = rd /\ fifo_wr_ptr' = wr
        /\ count = CASE fifo_push /\ ~fifo_pop -> fifo_count + 1
                     [] fifo_pop /\ ~fifo_push -> fifo_count - 1
                     [] OTHER -> fifo_count
        /\ rd = IF fifo_pop THEN IF fifo_rd_ptr + 1 < FIFO_DEPTH THEN fifo_rd_ptr + 1 ELSE 0
                ELSE fifo_rd_ptr
        /\ wr = IF fifo_push THEN IF fifo_wr_ptr + 1 < FIFO_DEPTH THEN fifo_wr_ptr + 1 ELSE 0
                ELSE fifo_wr_ptr
  BY <1>1, <1>2, <1>3, PointerNext DEF Fifo
<1>5. wr = IF rd + count < FIFO_DEPTH THEN rd + count ELSE rd + count - FIFO_DEPTH
  BY <1>1, <1>2, <1>3, <1>4
<1>6. rd + count \in 0 .. 2 * FIFO_DEPTH - 1
  BY <1>4
<1>7. wr = (rd + count) % FIFO_DEPTH
  BY <1>5, <1>6, RingIndex
<1>. QED BY <1>4, <1>7 DEF Ring

(***************************************************************************)
(* Types and the report                                                    *)
(***************************************************************************)

LEMMA FlagsTyped ==
  (\A flag \in {rx_valid, rx_overflow, freq_pending, report_active, tx_is_report,
                  gate_done, owed} : flag \in BOOLEAN) <=> Flags
BY DEF Flags

\* TypeOK without the ring and the flags.
Registers ==
  /\ rx_fifo \in [0 .. FIFO_DEPTH - 1 -> Byte] /\ rx_data \in Byte
  /\ tx_left \in 0 .. TxEdges /\ tx_busy \in BOOLEAN /\ (tx_busy <=> tx_left > 0)
  /\ report_idx \in 0 .. ReportLen - 1 /\ report_freq \in Value /\ freq_result \in Value
  /\ rx_gap \in 0 .. RxEdges - 1 /\ gate_gap \in 0 .. GateEdges - 1
  /\ longest \in 0 .. BurstCap /\ burst \in 0 .. longest

LEMMA TypeParts == TypeOK <=> Ring /\ Registers /\ Flags
BY FlagsTyped DEF TypeOK, Ring, Registers

LEMMA FlagsStep ==
  ASSUME Flags, Registers, Next
  PROVE  Flags'
<1>1. rx_valid' \in BOOLEAN /\ gate_done' \in BOOLEAN
  BY DEF Next, NoByte, Received, NoMeasurement, Measured
<1>2. rx_overflow' \in BOOLEAN
  BY DEF Next, Fifo
<1>3. freq_pending' \in BOOLEAN
  BY DEF Next, Transmitter, StartReport, StartEcho, Snapshot, TxIdle, Sending, Sent, Latch
<1>4. report_active' \in BOOLEAN /\ tx_is_report' \in BOOLEAN
  BY DEF Flags, Next, Transmitter, StartReport, StartEcho, Snapshot, TxIdle, Sending, Sent,
         Start, report, tx
<1>5. owed' \in BOOLEAN
  BY DEF Next
<1>. QED BY <1>1, <1>2, <1>3, <1>4, <1>5 DEF Flags

LEMMA RegistersStep ==
  ASSUME Flags, Ring, Registers, Next
  PROVE  Registers'
<1>. USE UartConstants
<1>1. rx_fifo' \in [0 .. FIFO_DEPTH - 1 -> Byte] /\ rx_data' \in Byte
  BY DEF Next, Fifo, Registers, NoByte, Received
<1>2. tx_left' \in 0 .. TxEdges /\ tx_busy' \in BOOLEAN /\ (tx_busy' <=> tx_left' > 0)
  <2>1. CASE StartReport \/ StartEcho
    <3>1. tx_busy' = TRUE /\ tx_left' = TxEdges
      BY <2>1, Zenon DEF StartReport, StartEcho, Start
    <3>. QED BY <3>1
  <2>2. CASE Snapshot \/ TxIdle
    <3>1. UNCHANGED <<tx_busy, tx_left>>
      BY <2>2 DEF Snapshot, TxIdle, tx
    <3>. QED BY <3>1 DEF Registers
  <2>3. CASE Sending
    BY <2>3 DEF Sending, Registers
  <2>4. CASE Sent
    <3>1. tx_busy' = FALSE /\ tx_left' = 0
      BY <2>4, Zenon DEF Sent
    <3>2. 0 \in 0 .. TxEdges /\ ~(0 > 0)
      OBVIOUS
    <3>. QED BY <3>1, <3>2
  <2>. QED BY <2>1, <2>2, <2>3, <2>4 DEF Next, Transmitter
<1>3. report_idx' \in 0 .. ReportLen - 1 /\ report_freq' \in Value
  <2>1. CASE StartReport \/ StartEcho \/ TxIdle \/ Sending
    BY <2>1 DEF StartReport, StartEcho, TxIdle, Sending, report, Registers
  <2>2. CASE Snapshot
    BY <2>2 DEF Snapshot, Registers
  <2>3. CASE Sent
    BY <2>3 DEF Sent, LastIndex, Registers
  <2>. QED BY <2>1, <2>2, <2>3 DEF Next, Transmitter
<1>4. freq_result' \in Value /\ gate_gap' \in 0 .. GateEdges - 1
  <2>1. CASE NoMeasurement
    BY <2>1 DEF NoMeasurement, Less, Registers
  <2>2. CASE Measured
    BY <2>2 DEF Measured
  <2>. QED BY <2>1, <2>2 DEF Next
<1>5. rx_gap' \in 0 .. RxEdges - 1
  <2>1. CASE NoByte
    BY <2>1 DEF NoByte, Less, Registers
  <2>2. CASE Received
    <3>1. rx_gap' = RxEdges - 1
      BY <2>2 DEF Received
    <3>. QED BY <3>1
  <2>. QED BY <2>1, <2>2 DEF Next
<1>6. longest' \in 0 .. BurstCap /\ burst' \in 0 .. longest'
  <2>1. CASE NoByte
    BY <2>1 DEF NoByte, Registers
  <2>2. CASE Received
    BY <2>2 DEF Received, Registers
  <2>. QED BY <2>1, <2>2 DEF Next
<1>. QED BY <1>1, <1>2, <1>3, <1>4, <1>5, <1>6 DEF Registers

\* The FIFO's pointers and count agree and all registers keep their ranges.
THEOREM UartTypeCorrect == Spec => []TypeOK
<1>1. Init => Ring /\ Registers /\ Flags
  <2> SUFFICES ASSUME Init PROVE Ring /\ Registers /\ Flags
    OBVIOUS
  <2>. USE UartConstants DEF Init
  <2>1. 0 \in 0 .. 2 * FIFO_DEPTH - 1 /\ 0 + 0 = 0
    OBVIOUS
  <2>2. Ring
    BY <2>1, RingIndex DEF Ring
  <2>3. rx_fifo \in [0 .. FIFO_DEPTH - 1 -> Byte]
    <3>1. rx_fifo \in [0 .. FIFO_DEPTH - 1 -> {rx_data}] /\ rx_data \in Byte
      OBVIOUS
    <3>. QED BY <3>1
  <2>4. tx_busy \in BOOLEAN /\ (tx_busy <=> tx_left > 0)
    <3>1. tx_busy = FALSE /\ tx_left = 0
      BY Zenon
    <3>2. ~(0 > 0)
      OBVIOUS
    <3>. QED BY <3>1, <3>2, Zenon
  <2>5. Registers
    BY <2>3, <2>4 DEF Registers
  <2>. QED BY <2>2, <2>5 DEF Flags
<1>2. Ring /\ Registers /\ Flags /\ [Next]_vars => (Ring /\ Registers /\ Flags)'
  <2> SUFFICES ASSUME Ring, Registers, Flags, [Next]_vars PROVE Ring' /\ Registers' /\ Flags'
    OBVIOUS
  <2>1. CASE Next
    BY <2>1, RingStep, RegistersStep, FlagsStep DEF Next
  <2>2. CASE UNCHANGED vars
    BY <2>2 DEF vars, receiver, fifo, report, tx, gate, Ring, Registers, Flags
  <2>. QED BY <2>1, <2>2
<1>. QED BY <1>1, <1>2, TypeParts, PTL DEF Spec

\* A measurement is in a report or marked for one, whenever its gate ends.
THEOREM MeasurementsRetained == Spec => []MeasurementRetained
<1>1. Init => MeasurementRetained
  BY DEF Init, MeasurementRetained
<1>2. MeasurementRetained /\ [Next]_vars => MeasurementRetained'
  <2> SUFFICES ASSUME MeasurementRetained, [Next]_vars PROVE MeasurementRetained'
    OBVIOUS
  <2>1. CASE Next
    BY <2>1 DEF MeasurementRetained, Next, Transmitter, StartReport, StartEcho, Snapshot,
                TxIdle, Sending, Sent, Latch, report
  <2>2. CASE UNCHANGED vars
    BY <2>2 DEF vars, gate, MeasurementRetained
  <2>. QED BY <2>1, <2>2
<1>. QED BY <1>1, <1>2, PTL DEF Spec

(***************************************************************************)
(* The FIFO as a queue                                                     *)
(***************************************************************************)

\* The n bytes in buf from rd on.
Contents(buf, rd, n) == [i \in 1 .. n |-> buf[(rd + i - 1) % FIFO_DEPTH]]

Buffer == [0 .. FIFO_DEPTH - 1 -> Byte]

LEMMA Slot ==
  ASSUME NEW rd \in 0 .. FIFO_DEPTH - 1, NEW i \in 1 .. FIFO_DEPTH
  PROVE  /\ (rd + i - 1) % FIFO_DEPTH \in 0 .. FIFO_DEPTH - 1
         /\ (rd + i - 1) % FIFO_DEPTH
              = IF rd + i - 1 < FIFO_DEPTH THEN rd + i - 1 ELSE rd + i - 1 - FIFO_DEPTH
<1>. USE UartConstants
<1>1. PICK n \in 0 .. 2 * FIFO_DEPTH - 1 : n = rd + i - 1
  OBVIOUS
<1>2. n % FIFO_DEPTH = IF n < FIFO_DEPTH THEN n ELSE n - FIFO_DEPTH
  BY RingIndex
<1>. QED BY <1>1, <1>2

LEMMA ContentsSeq ==
  ASSUME NEW buf \in Buffer, NEW rd \in 0 .. FIFO_DEPTH - 1, NEW n \in 0 .. FIFO_DEPTH
  PROVE  /\ Contents(buf, rd, n) \in Seq(Byte) /\ Len(Contents(buf, rd, n)) = n
         /\ \A i \in 1 .. n : Contents(buf, rd, n)[i] = buf[(rd + i - 1) % FIFO_DEPTH]
<1>1. n \in Nat /\ \A i \in 1 .. n : i \in 1 .. FIFO_DEPTH
  BY UartConstants
<1>2. \A i \in 1 .. n : buf[(rd + i - 1) % FIFO_DEPTH] \in Byte
  BY <1>1, Slot DEF Buffer
<1>3. Contents(buf, rd, n) \in [1 .. n -> Byte]
  BY <1>2 DEF Contents
<1>4. Contents(buf, rd, n) \in Seq(Byte) /\ Len(Contents(buf, rd, n)) = n
  BY <1>1, <1>3
<1>. QED BY <1>4 DEF Contents

\* new is buf with b behind the n bytes from rd on, more their number then.
Pushed(buf, rd, n, b, new, more) ==
  /\ buf \in Buffer /\ rd \in 0 .. FIFO_DEPTH - 1 /\ n \in 0 .. FIFO_DEPTH - 1 /\ b \in Byte
  /\ new = [buf EXCEPT ![(rd + n) % FIFO_DEPTH] = b] /\ more = n + 1

\* A byte written behind the last one is appended.
LEMMA ContentsPush ==
  ASSUME NEW buf, NEW rd, NEW n, NEW b, NEW new, NEW more, Pushed(buf, rd, n, b, new, more)
  PROVE  Contents(new, rd, more) = Append(Contents(buf, rd, n), b)
<1>. USE UartConstants
<1>. DEFINE s == Contents(buf, rd, n)
            t == Contents(new, rd, more)
            wr == (rd + n) % FIFO_DEPTH
<1>0. /\ buf \in Buffer /\ rd \in 0 .. FIFO_DEPTH - 1 /\ n \in 0 .. FIFO_DEPTH - 1 /\ b \in Byte
      /\ new = [buf EXCEPT ![wr] = b] /\ more = n + 1
  BY DEF Pushed
<1>5. wr \in 0 .. FIFO_DEPTH - 1
      /\ wr = IF rd + n < FIFO_DEPTH THEN rd + n ELSE rd + n - FIFO_DEPTH
  <2>1. PICK k \in 0 .. 2 * FIFO_DEPTH - 1 : k = rd + n
    BY <1>0
  <2>. QED BY <1>0, <2>1, RingIndex
<1>1. new \in Buffer /\ new[wr] = b /\ \A k \in 0 .. FIFO_DEPTH - 1 : k # wr => new[k] = buf[k]
  <2>. HIDE DEF wr
  <2>. QED BY <1>0, <1>5 DEF Buffer
<1>2. n \in 0 .. FIFO_DEPTH /\ more \in 0 .. FIFO_DEPTH /\ more = n + 1 /\ n \in Nat
  BY <1>0
<1>3. s \in Seq(Byte) /\ Len(s) = n /\ \A i \in 1 .. n : s[i] = buf[(rd + i - 1) % FIFO_DEPTH]
  BY <1>0, <1>2, ContentsSeq
<1>10. t \in Seq(Byte) /\ Len(t) = more
      /\ \A i \in 1 .. more : t[i] = new[(rd + i - 1) % FIFO_DEPTH]
  BY <1>0, <1>1, <1>2, ContentsSeq
<1>4. t \in Seq(Byte) /\ Len(t) = n + 1
      /\ \A i \in 1 .. n + 1 : t[i] = new[(rd + i - 1) % FIFO_DEPTH]
  BY <1>2, <1>10
<1>. HIDE DEF s, t
<1>6. ASSUME NEW i \in 1 .. n PROVE t[i] = s[i]
  <2>1. i \in 1 .. FIFO_DEPTH /\ i \in 1 .. n + 1
    BY <1>2
  <2>2. (rd + i - 1) % FIFO_DEPTH \in 0 .. FIFO_DEPTH - 1 /\ (rd + i - 1) % FIFO_DEPTH # wr
    BY <1>0, <1>2, <1>5, <2>1, Slot
  <2>. QED BY <1>1, <1>3, <1>4, <2>1, <2>2
<1>7. t[n + 1] = b
  <2>1. n + 1 \in 1 .. n + 1 /\ rd + (n + 1) - 1 = rd + n
    BY <1>0, <1>2
  <2>2. t[n + 1] = new[wr]
    BY <1>4, <2>1
  <2>. QED BY <1>1, <2>2
<1>8. /\ Append(s, b) \in Seq(Byte) /\ Len(Append(s, b)) = n + 1
      /\ \A i \in 1 .. n : Append(s, b)[i] = s[i]
      /\ Append(s, b)[n + 1] = b
  BY <1>0, <1>2, <1>3
<1>9. t = Append(s, b)
  <2>1. \A i \in 1 .. n + 1 : t[i] = Append(s, b)[i]
    BY <1>2, <1>6, <1>7, <1>8
  <2>. QED BY <1>4, <1>8, <2>1, SeqEqual
<1>. QED BY <1>9 DEF s, t

\* Reading moves to the tail.
LEMMA ContentsPop ==
  ASSUME NEW buf \in Buffer, NEW rd \in 0 .. FIFO_DEPTH - 1, NEW n \in 1 .. FIFO_DEPTH
  PROVE  /\ Contents(buf, (rd + 1) % FIFO_DEPTH, n - 1) = Tail(Contents(buf, rd, n))
         /\ Head(Contents(buf, rd, n)) = buf[rd] /\ Contents(buf, rd, n) # <<>>
<1>. USE UartConstants
<1>. DEFINE next1 == (rd + 1) % FIFO_DEPTH
            s == Contents(buf, rd, n)
            t == Contents(buf, next1, n - 1)
<1>1. next1 \in 0 .. FIFO_DEPTH - 1 /\ next1 = IF rd + 1 < FIFO_DEPTH THEN rd + 1 ELSE 0
  BY PointerNext
<1>2. n \in 0 .. FIFO_DEPTH /\ n - 1 \in 0 .. FIFO_DEPTH /\ n \in Nat
  OBVIOUS
<1>3. s \in Seq(Byte) /\ Len(s) = n /\ \A i \in 1 .. n : s[i] = buf[(rd + i - 1) % FIFO_DEPTH]
  BY <1>2, ContentsSeq
<1>. HIDE DEF next1
<1>4. t \in Seq(Byte) /\ Len(t) = n - 1
      /\ \A i \in 1 .. n - 1 : t[i] = buf[(next1 + i - 1) % FIFO_DEPTH]
  BY <1>1, <1>2, ContentsSeq
<1>. HIDE DEF s, t
<1>5. s # <<>> /\ s[1] = buf[rd]
  <2>1. 1 \in 1 .. n /\ 1 \in 1 .. FIFO_DEPTH
    BY <1>2
  <2>2. (rd + 1 - 1) % FIFO_DEPTH = rd
    BY <2>1, Slot
  <2>. QED BY <1>3, <2>1, <2>2
<1>6. Tail(s) \in Seq(Byte) /\ Len(Tail(s)) = n - 1 /\ \A i \in 1 .. n - 1 : Tail(s)[i] = s[i + 1]
  BY <1>2, <1>3, <1>5
<1>7. ASSUME NEW i \in 1 .. n - 1 PROVE t[i] = Tail(s)[i]
  <2>1. i \in 1 .. FIFO_DEPTH /\ i + 1 \in 1 .. FIFO_DEPTH /\ i + 1 \in 1 .. n
    BY <1>2
  <2>2. (next1 + i - 1) % FIFO_DEPTH = (rd + (i + 1) - 1) % FIFO_DEPTH
    BY <1>1, <2>1, Slot
  <2>. QED BY <1>3, <1>4, <1>6, <2>1, <2>2
<1>8. t = Tail(s)
  BY <1>4, <1>6, <1>7, SeqEqual
<1>. QED BY <1>3, <1>5, <1>8 DEF s, t, next1

(***************************************************************************)
(* The line's promise                                                      *)
(***************************************************************************)

LEMMA WhoseTurnStep ==
  ASSUME Registers, Flags, WhoseTurn, Transmitter
  PROVE  WhoseTurn'
<1>1. CASE StartReport \/ StartEcho
  <2>1. report_active' = report_active /\ tx_is_report' = report_active
    BY <1>1, Zenon DEF StartReport, StartEcho, Start, report, fifo_pop, Flags
  <2>. QED BY <2>1 DEF WhoseTurn
<1>2. CASE Snapshot \/ TxIdle
  BY <1>2 DEF Snapshot, TxIdle, tx, WhoseTurn
<1>3. CASE Sending
  BY <1>3 DEF Sending, report, WhoseTurn
<1>4. CASE Sent
  BY <1>4 DEF Sent, WhoseTurn
<1>. QED BY <1>1, <1>2, <1>3, <1>4 DEF Transmitter

UartInv == Ring /\ Registers /\ Flags /\ WhoseTurn

LEMMA UartKeeps == Spec => []UartInv
<1>1. Init => WhoseTurn
  BY DEF Init, WhoseTurn
<1>2. Registers /\ Flags /\ WhoseTurn /\ [Next]_vars => WhoseTurn'
  <2> SUFFICES ASSUME Registers, Flags, WhoseTurn, [Next]_vars PROVE WhoseTurn'
    OBVIOUS
  <2>1. CASE Next
    BY <2>1, WhoseTurnStep DEF Next
  <2>2. CASE UNCHANGED vars
    BY <2>2 DEF vars, tx, report, WhoseTurn
  <2>. QED BY <2>1, <2>2
<1>3. TypeOK => Registers /\ Flags /\ Ring
  BY TypeParts
<1>. QED BY <1>1, <1>2, <1>3, UartTypeCorrect, PTL DEF Spec, UartInv

\* The queue of the line is the content of the ring buffer.
LEMMA QueueContents == queue = Contents(rx_fifo, fifo_rd_ptr, fifo_count)
BY DEF queue, Contents

LEMMA QueueFacts ==
  ASSUME Ring, Registers
  PROVE  queue \in Seq(Byte) /\ Len(queue) = fifo_count /\ (queue = <<>> <=> fifo_count = 0)
<1>1. queue \in Seq(Byte) /\ Len(queue) = fifo_count
  BY QueueContents, ContentsSeq DEF Ring, Registers, Buffer
<1>2. fifo_count \in Nat
  BY UartConstants DEF Ring
<1>. QED BY <1>1, <1>2

\* Every edge lets an arriving byte in, or drops it with the flag, behind what
\* the transmitter left of the queue.
LEMMA ArrivalStep ==
  ASSUME Ring, Registers, Flags, Fifo
  PROVE  /\ ~fifo_pop => Line!Arrival(queue)
         /\ fifo_pop => /\ queue # <<>> /\ Head(queue) = rx_fifo[fifo_rd_ptr]
                        /\ Line!Arrival(Tail(queue))
<1>. USE UartConstants
<1>1. /\ rx_fifo \in Buffer /\ fifo_rd_ptr \in 0 .. FIFO_DEPTH - 1 /\ rx_data \in Byte
      /\ fifo_wr_ptr \in 0 .. FIFO_DEPTH - 1 /\ fifo_count \in 0 .. FIFO_DEPTH
      /\ fifo_wr_ptr = (fifo_rd_ptr + fifo_count) % FIFO_DEPTH
  BY DEF Ring, Registers, Buffer
<1>2. queue' = Contents(rx_fifo', fifo_rd_ptr', fifo_count')
  BY DEF queue, Contents
<1>3. Len(queue) = fifo_count
  BY QueueFacts
<1>4. fifo_pop => fifo_count \in 1 .. FIFO_DEPTH
  BY <1>1 DEF fifo_pop
<1>5. /\ fifo_push => rx_overflow' = rx_overflow /\ fifo_count < FIFO_DEPTH
      /\ ~fifo_push => rx_overflow' = rx_overflow \/ (fifo_count = FIFO_DEPTH /\ rx_overflow' = TRUE)
  BY <1>1 DEF Fifo, fifo_push, fifo_full, Flags
<1>. DEFINE kept == IF fifo_pop THEN Tail(queue) ELSE queue
            rd1 == IF fifo_pop THEN (fifo_rd_ptr + 1) % FIFO_DEPTH ELSE fifo_rd_ptr
            n1 == IF fifo_pop THEN fifo_count - 1 ELSE fifo_count
<1>6. /\ kept = Contents(rx_fifo, rd1, n1)
      /\ fifo_pop => queue # <<>> /\ Head(queue) = rx_fifo[fifo_rd_ptr]
  BY <1>1, <1>4, QueueContents, ContentsPop
<1>7. rd1 \in 0 .. FIFO_DEPTH - 1 /\ n1 \in 0 .. FIFO_DEPTH /\ fifo_wr_ptr = (rd1 + n1) % FIFO_DEPTH
  <2>1. CASE fifo_pop
    <3>1. PICK r \in 0 .. FIFO_DEPTH - 1 :
            r = rd1 /\ r = IF fifo_rd_ptr + 1 < FIFO_DEPTH THEN fifo_rd_ptr + 1 ELSE 0
      BY <1>1, <2>1, PointerNext
    <3>2. PICK k \in 0 .. 2 * FIFO_DEPTH - 1, l \in 0 .. 2 * FIFO_DEPTH - 1 :
            k = fifo_rd_ptr + fifo_count /\ l = r + (fifo_count - 1)
      <4>1. fifo_rd_ptr + fifo_count \in 0 .. 2 * FIFO_DEPTH - 1
        BY <1>1
      <4>2. r + (fifo_count - 1) \in 0 .. 2 * FIFO_DEPTH - 1
        BY <1>4, <2>1
      <4>. QED BY <4>1, <4>2
    <3>3. k % FIFO_DEPTH = l % FIFO_DEPTH
      BY <1>1, <1>4, <2>1, <3>1, <3>2, RingIndex
    <3>. QED BY <1>1, <1>4, <2>1, <3>1, <3>2, <3>3
  <2>2. CASE ~fifo_pop
    BY <1>1, <2>2
  <2>. QED BY <2>1, <2>2
<1>8. CASE fifo_push
  <2>1. /\ rx_fifo' = [rx_fifo EXCEPT ![fifo_wr_ptr] = rx_data]
        /\ fifo_rd_ptr' = rd1 /\ fifo_count' = n1 + 1
    BY <1>1, <1>8 DEF Fifo
  <2>2. n1 \in 0 .. FIFO_DEPTH - 1
    BY <1>1, <1>4, <1>5, <1>8
  <2>. HIDE DEF rd1, n1, kept
  <2>3. queue' = Append(kept, rx_data)
    <3>1. Contents(rx_fifo', rd1, fifo_count') = Append(Contents(rx_fifo, rd1, n1), rx_data)
      <4>1. Pushed(rx_fifo, rd1, n1, rx_data, rx_fifo', fifo_count')
        BY <1>1, <1>7, <2>1, <2>2 DEF Pushed
      <4>. QED BY <4>1, ContentsPush
    <3>. QED BY <1>2, <1>6, <2>1, <3>1
  <2>. QED BY <1>1, <1>3, <1>5, <1>6, <1>8, <2>3 DEF Line!Arrival, kept
<1>9. CASE ~fifo_push
  <2>1. rx_fifo' = rx_fifo /\ fifo_rd_ptr' = rd1 /\ fifo_count' = n1
    BY <1>1, <1>9 DEF Fifo
  <2>2. queue' = kept
    BY <1>2, <1>6, <2>1
  <2>. QED BY <1>3, <1>5, <1>6, <1>9, <2>2 DEF Line!Arrival
<1>. QED BY <1>8, <1>9

\* The position in the report, as the line sees it.
Position == IF ~report_active THEN -1 ELSE IF tx_busy THEN report_idx + 1 ELSE report_idx

\* One edge, seen from the line.
LEMMA LineStep ==
  ASSUME UartInv, Next
  PROVE  \/ Line!Echo \/ Line!Open \/ Line!Character \/ Line!Close \/ Line!Wait
<1>. USE UartConstants DEF UartInv
<1>1. /\ ~fifo_pop => Line!Arrival(queue)
      /\ fifo_pop => /\ queue # <<>> /\ Head(queue) = rx_fifo[fifo_rd_ptr]
                     /\ Line!Arrival(Tail(queue))
  BY ArrivalStep DEF Next
<1>2. queue = <<>> <=> fifo_count = 0
  BY QueueFacts
<1>3. report_idx \in 0 .. ReportLen - 1 /\ report_freq' \in Value
  BY RegistersStep DEF Registers
<1>4. CASE StartReport
  <2>1. /\ report_active = TRUE /\ report_active' = TRUE /\ tx_busy = FALSE /\ tx_busy' = TRUE
        /\ report_idx' = report_idx /\ report_freq' = report_freq
        /\ tx_data' = [of |-> "report", value |-> report_freq, index |-> report_idx]
    BY <1>4, Zenon DEF StartReport, Start, report, Flags, Registers
  <2>2. ~fifo_pop
    BY <2>1 DEF fifo_pop
  <2>3. Position = report_idx /\ Position' = report_idx + 1
    BY <2>1 DEF Position
  <2>. QED BY <1>1, <1>3, <2>1, <2>2, <2>3 DEF Line!Character, Line!Reported, Position
<1>5. CASE StartEcho
  <2>1. /\ report_active = FALSE /\ report_active' = FALSE /\ fifo_pop
        /\ report_freq' = report_freq
        /\ tx_data' = [of |-> "echo", data |-> rx_fifo[fifo_rd_ptr]]
    BY <1>5, Zenon DEF StartEcho, Start, report, Flags
  <2>2. Position = -1 /\ Position' = -1
    BY <2>1 DEF Position
  <2>. QED BY <1>1, <2>1, <2>2 DEF Line!Echo, Line!Echoed, Position
<1>6. CASE Snapshot
  <2>1. /\ report_active = FALSE /\ report_active' = TRUE /\ tx_busy = FALSE /\ tx_busy' = FALSE
        /\ report_idx' = 0 /\ tx_data' = tx_data /\ ~fifo_pop
    BY <1>6, Zenon DEF Snapshot, tx, Flags, Registers
  <2>2. fifo_count = 0
    BY <2>1 DEF fifo_pop, Ring
  <2>3. Position = -1 /\ Position' = 0
    BY <2>1 DEF Position
  <2>. QED BY <1>1, <1>2, <1>3, <2>1, <2>2, <2>3 DEF Line!Open, Position
<1>7. CASE TxIdle \/ Sending
  <2>1. UNCHANGED <<report_active, report_idx, report_freq, tx_busy, tx_data>> /\ ~fifo_pop
    BY <1>7 DEF TxIdle, Sending, report, tx, fifo_pop
  <2>. QED BY <1>1, <2>1 DEF Line!Wait
<1>8. CASE Sent
  <2>1. /\ tx_busy = TRUE /\ tx_busy' = FALSE /\ tx_data' = tx_data /\ report_freq' = report_freq
        /\ ~fifo_pop
    BY <1>8, Zenon DEF Sent, fifo_pop, Registers
  <2>2. CASE tx_is_report /\ report_idx = LastIndex
    <3>1. report_active /\ report_active' = FALSE
      BY <1>8, <2>1, <2>2 DEF Sent, WhoseTurn
    <3>2. Position = ReportLen /\ Position' = -1
      BY <2>1, <2>2, <3>1 DEF Position, LastIndex
    <3>. QED BY <1>1, <2>1, <3>2 DEF Line!Close, Position
  <2>3. CASE tx_is_report /\ report_idx # LastIndex
    <3>1. report_active /\ report_active' = report_active /\ report_idx' = report_idx + 1
      BY <1>8, <2>1, <2>3 DEF Sent, WhoseTurn
    <3>2. Position' = Position
      BY <2>1, <3>1 DEF Position
    <3>. QED BY <1>1, <2>1, <3>2 DEF Line!Wait, Position
  <2>4. CASE ~tx_is_report
    <3>1. ~report_active /\ report_active' = report_active
      BY <1>8, <2>1, <2>4 DEF Sent, WhoseTurn
    <3>2. Position' = Position
      BY <3>1 DEF Position
    <3>. QED BY <1>1, <2>1, <3>2 DEF Line!Wait, Position
  <2>. QED BY <2>2, <2>3, <2>4
<1>. QED BY <1>4, <1>5, <1>6, <1>7, <1>8 DEF Next, Transmitter

\* The FIFO and the transmitter implement the line: bytes come back once, in
\* their order, between whole reports of one measurement each, and are dropped
\* only by a full FIFO that says so.
THEOREM ImplementsLine == Spec => LineSpec
<1>1. Init => Line!Init
  <2> SUFFICES ASSUME Init PROVE Line!Init
    OBVIOUS
  <2>1. queue = <<>>
    BY DEF Init, queue
  <2>. QED BY <2>1 DEF Init, Line!Init
<1>2. UartInv /\ [Next]_vars
        => [Line!Echo \/ Line!Open \/ Line!Character \/ Line!Close \/ Line!Wait]_(Line!vars)
  <2>1. ASSUME UNCHANGED vars PROVE UNCHANGED Line!vars
    BY <2>1 DEF vars, fifo, report, tx, queue, Line!vars
  <2>. QED BY <2>1, LineStep
<1>. QED BY <1>1, <1>2, UartKeeps, PTL DEF Spec, LineSpec, Line!Spec

(***************************************************************************)
(* Bursts                                                                  *)
(***************************************************************************)

\* The time of a report.
ReportEdges == ReportLen * (TxEdges + 1)

LEMMA Factor ==
  ASSUME NEW k \in Int, NEW c \in Nat
  PROVE  k * c \in Int /\ (k + 1) * c = k * c + c /\ (k >= 0 => k * c >= 0)
OBVIOUS

LEMMA ReportTime ==
  /\ ReportEdges \in Nat /\ ReportEdges >= TxEdges + 1
  /\ ReportEdges = (ReportLen - 1) * (TxEdges + 1) + TxEdges + 1
<1>1. TxEdges + 1 \in Nat /\ ReportLen - 1 \in Nat /\ (ReportLen - 1) + 1 = ReportLen
  BY UartConstants
<1>. QED BY <1>1, Factor, UartConstants DEF ReportEdges

\* Every edge the transmitter has work to do takes one edge off it; an echo and
\* a report are begun only when there is none left.
LEMMA WorkStep ==
  ASSUME UartInv, Transmitter
  PROVE  /\ Work \in Nat /\ Work' \in Nat
         /\ \/ Work > 0 /\ Work' = Work - 1 /\ ~fifo_pop
            \/ Work = 0 /\ Work' = TxEdges /\ fifo_pop
            \/ Work = 0 /\ Work' \in {0, ReportEdges} /\ ~fifo_pop /\ fifo_count = 0
               /\ (Work' = ReportEdges => ~rx_valid)
<1>. USE UartConstants, ReportTime DEF UartInv
<1>1. /\ tx_left \in 0 .. TxEdges /\ tx_busy \in BOOLEAN /\ (tx_busy <=> tx_left > 0)
      /\ report_idx \in 0 .. ReportLen - 1 /\ fifo_count \in 0 .. FIFO_DEPTH
      /\ report_active \in BOOLEAN
  BY DEF Registers, Ring, Flags
<1>2. \A k \in Nat : k * (TxEdges + 1) \in Nat
                    /\ (k + 1) * (TxEdges + 1) = k * (TxEdges + 1) + TxEdges + 1
  BY Factor
<1>3. CASE StartReport
  <2>1. /\ ~tx_busy /\ report_active /\ tx_busy' = TRUE /\ tx_left' = TxEdges
        /\ report_active' = report_active /\ report_idx' = report_idx /\ ~fifo_pop
    BY <1>3, Zenon DEF StartReport, Start, report, fifo_pop
  <2>2. PICK k \in Nat : k = ReportLen - report_idx - 1
    BY <1>1
  <2>3. Work = (k + 1) * (TxEdges + 1)
    <3>1. Unsent = k + 1 /\ tx_left = 0
      BY <1>1, <2>1, <2>2 DEF Unsent
    <3>. QED BY <1>2, <2>1, <3>1 DEF Work
  <2>4. Work' = TxEdges + k * (TxEdges + 1)
    <3>1. Unsent' = k
      BY <1>1, <2>1, <2>2 DEF Unsent
    <3>. QED BY <2>1, <3>1 DEF Work
  <2>. QED BY <1>2, <2>1, <2>3, <2>4
<1>4. CASE StartEcho
  <2>1. ~report_active /\ ~report_active' /\ tx_left = 0 /\ tx_left' = TxEdges /\ fifo_pop
    <3>1. ~report_active /\ report_active' = report_active /\ ~tx_busy /\ tx_left' = TxEdges /\ fifo_pop
      BY <1>4, Zenon DEF StartEcho, Start, report, fifo_pop
    <3>. QED BY <1>1, <3>1
  <2>. QED BY <2>1 DEF Work
<1>5. CASE Snapshot
  <2>1. /\ ~report_active /\ tx_left = 0 /\ report_active' = TRUE /\ report_idx' = 0
        /\ tx_busy' = tx_busy /\ ~tx_busy /\ tx_left' = 0 /\ ~fifo_pop /\ ~rx_valid
    BY <1>1, <1>5 DEF Snapshot, tx
  <2>2. fifo_count = 0
    BY <1>1, <2>1 DEF fifo_pop
  <2>3. Unsent' = ReportLen
    BY <2>1 DEF Unsent
  <2>4. Work = 0 /\ Work' = ReportEdges
    BY <2>1, <2>3 DEF Work, ReportEdges
  <2>. QED BY <2>1, <2>2, <2>4
<1>6. CASE TxIdle
  <2>1. ~report_active /\ ~report_active' /\ tx_left = 0 /\ tx_left' = 0 /\ ~fifo_pop /\ ~tx_busy
    BY <1>1, <1>6 DEF TxIdle, report, tx
  <2>2. fifo_count = 0
    BY <1>1, <2>1 DEF fifo_pop
  <2>3. Work = 0 /\ Work' = 0
    BY <2>1 DEF Work
  <2>. QED BY <2>1, <2>2, <2>3
<1>7. CASE Sending
  <2>1. /\ tx_busy /\ tx_busy' = tx_busy /\ tx_left > 1 /\ tx_left' = tx_left - 1 /\ ~fifo_pop
        /\ report_active' = report_active /\ report_idx' = report_idx
    BY <1>7 DEF Sending, report, fifo_pop
  <2>2. PICK k \in Nat : k = ReportLen - report_idx - 1
    BY <1>1
  <2>3. Unsent = k /\ Unsent' = k
    BY <1>1, <2>1, <2>2 DEF Unsent
  <2>4. /\ Work = tx_left + (IF report_active THEN k * (TxEdges + 1) ELSE 0)
        /\ Work' = tx_left - 1 + (IF report_active THEN k * (TxEdges + 1) ELSE 0)
    BY <2>1, <2>3 DEF Work
  <2>. QED BY <1>1, <1>2, <2>1, <2>4
<1>8. CASE Sent
  <2>1. tx_busy /\ tx_busy' = FALSE /\ tx_left = 1 /\ tx_left' = 0 /\ ~fifo_pop
    BY <1>8 DEF Sent, fifo_pop
  <2>2. PICK k \in Nat : k = ReportLen - report_idx - 1
    BY <1>1
  <2>3. Work = 1 + (IF report_active THEN k * (TxEdges + 1) ELSE 0)
    <3>1. Unsent = k
      BY <1>1, <2>1, <2>2 DEF Unsent
    <3>. QED BY <2>1, <3>1 DEF Work
  <2>4. Work' = (IF report_active THEN k * (TxEdges + 1) ELSE 0)
    <3>1. CASE tx_is_report /\ report_idx = LastIndex
      <4>1. report_active /\ report_active' = FALSE /\ k = 0
        BY <1>1, <1>8, <2>1, <2>2, <3>1 DEF Sent, WhoseTurn, LastIndex
      <4>2. 0 * (TxEdges + 1) = 0
        OBVIOUS
      <4>. QED BY <2>1, <4>1, <4>2 DEF Work
    <3>2. CASE tx_is_report /\ report_idx # LastIndex
      <4>1. report_active /\ report_active' = report_active /\ report_idx' = report_idx + 1
        BY <1>8, <2>1, <3>2 DEF Sent, WhoseTurn
      <4>2. Unsent' = k
        BY <1>1, <2>1, <2>2, <4>1 DEF Unsent
      <4>. QED BY <1>2, <2>1, <4>1, <4>2 DEF Work
    <3>3. CASE ~tx_is_report
      <4>1. ~report_active /\ report_active' = report_active
        BY <1>8, <2>1, <3>3 DEF Sent, WhoseTurn
      <4>. QED BY <2>1, <4>1 DEF Work
    <3>. QED BY <3>1, <3>2, <3>3
  <2>. QED BY <1>2, <2>1, <2>3, <2>4
<1>. QED BY <1>3, <1>4, <1>5, <1>6, <1>7, <1>8 DEF Transmitter

\* The balance of BacklogOK for b bytes waiting, e on their way back, g edges
\* after the last one and w edges of work.
Balanced(b, e, g, w) == b > 0 => (b - 1) * RxEdges + g + w <= ReportEdges + e * Slip

LEMMA SlipCovers == Slip \in Nat /\ TxEdges + 1 - RxEdges <= Slip
BY UartConstants DEF Slip

\* An edge of work, without a byte or with one.
LEMMA BalanceWork ==
  ASSUME NEW b \in Nat, NEW e \in Nat, NEW g \in Nat, NEW w \in Nat, w > 0,
         Balanced(b, e, g, w)
  PROVE  /\ \A g2 \in 0 .. g + 1 : Balanced(b, e, g2, w - 1)
         /\ b > 0 /\ g = RxEdges - 1 => Balanced(b + 1, e, 0, w - 1)
<1>. USE UartConstants, SlipCovers, ReportTime
<1>1. e * Slip \in Nat /\ (b - 1) * RxEdges \in Int /\ b * RxEdges = (b - 1) * RxEdges + RxEdges
  <2>1. b - 1 \in Int /\ (b - 1) + 1 = b
    OBVIOUS
  <2>. QED BY <2>1, Factor
<1>2. ASSUME NEW g2 \in 0 .. g + 1 PROVE Balanced(b, e, g2, w - 1)
  BY <1>1 DEF Balanced
<1>3. ASSUME b > 0, g = RxEdges - 1 PROVE Balanced(b + 1, e, 0, w - 1)
  <2>1. (b + 1) - 1 = b
    OBVIOUS
  <2>. QED BY <1>1, <1>3, <2>1 DEF Balanced
<1>. QED BY <1>2, <1>3

\* The edge that begins an echo, without a byte or with one.
LEMMA BalanceEcho ==
  ASSUME NEW b \in Nat, NEW e \in Nat, NEW g \in Nat, b > 0, Balanced(b, e, g, 0)
  PROVE  /\ \A g2 \in 0 .. g + 1 : Balanced(b - 1, e + 1, g2, TxEdges)
         /\ g = RxEdges - 1 => Balanced(b, e + 1, 0, TxEdges)
<1>. USE UartConstants, SlipCovers, ReportTime
<1>1. /\ e * Slip \in Nat /\ (e + 1) * Slip = e * Slip + Slip
      /\ (b - 2) * RxEdges \in Int /\ (b - 1) * RxEdges = (b - 2) * RxEdges + RxEdges
  <2>1. b - 2 \in Int /\ (b - 2) + 1 = b - 1
    OBVIOUS
  <2>. QED BY <2>1, Factor
<1>2. (b - 1) * RxEdges + g <= ReportEdges + e * Slip
  BY <1>1 DEF Balanced
<1>3. ASSUME NEW g2 \in 0 .. g + 1 PROVE Balanced(b - 1, e + 1, g2, TxEdges)
  <2>1. (b - 1) - 1 = b - 2
    OBVIOUS
  <2>. QED BY <1>1, <1>2, <2>1 DEF Balanced
<1>4. ASSUME g = RxEdges - 1 PROVE Balanced(b, e + 1, 0, TxEdges)
  BY <1>1, <1>2, <1>4 DEF Balanced
<1>. QED BY <1>3, <1>4

\* One byte waiting, just arrived or just in front of the transmitter.
LEMMA BalanceFirst ==
  ASSUME NEW e \in Nat, NEW g \in 0 .. ReportEdges, NEW w \in Nat, g + w <= ReportEdges
  PROVE  Balanced(1, e, g, w)
<1>1. e * Slip >= 0 /\ e * Slip \in Int /\ (1 - 1) * RxEdges = 0
  BY SlipCovers, UartConstants, Factor
<1>. QED BY <1>1, ReportTime DEF Balanced

\* A full FIFO and one byte more do not balance.
LEMMA BalanceFull ==
  ASSUME NEW e \in Nat, NEW g \in Nat, NEW w \in Nat, e <= ReportLen - 1,
         Balanced(FIFO_DEPTH + 1, e, g, w)
  PROVE  FALSE
<1>. USE UartConstants, SlipCovers, ReportTime
<1>1. e * Slip <= (ReportLen - 1) * Slip
  <2>1. PICK d \in Nat : d = ReportLen - 1 - e
    OBVIOUS
  <2>2. d * Slip >= 0 /\ (ReportLen - 1) * Slip = e * Slip + d * Slip
    <3>1. (e + d) * Slip = e * Slip + d * Slip
      OBVIOUS
    <3>2. e + d = ReportLen - 1
      BY <2>1
    <3>3. d * Slip >= 0
      BY Factor
    <3>. QED BY <3>1, <3>2, <3>3
  <2>3. e * Slip \in Int /\ d * Slip \in Int
    BY Factor
  <2>. QED BY <2>2, <2>3
<1>2. (FIFO_DEPTH + 1 - 1) * RxEdges + g + w <= ReportEdges + e * Slip
  BY DEF Balanced
<1>3. FIFO_DEPTH + 1 - 1 = FIFO_DEPTH
  OBVIOUS
<1>4. FIFO_DEPTH * RxEdges > ReportEdges + (ReportLen - 1) * Slip
  BY BurstAssumption DEF ReportEdges
<1>5. e * Slip \in Int /\ (ReportLen - 1) * Slip \in Int /\ FIFO_DEPTH * RxEdges \in Int
  BY Factor, ReportLen - 1 \in Int
<1>. QED BY <1>1, <1>2, <1>3, <1>4, <1>5

\* A report is the longest work there is.
LEMMA WorkBound == UartInv => Work \in 0 .. ReportEdges
<1>. SUFFICES ASSUME UartInv PROVE Work \in 0 .. ReportEdges
  OBVIOUS
<1>. USE UartConstants, ReportTime
<1>1. /\ tx_left \in 0 .. TxEdges /\ tx_busy \in BOOLEAN /\ (tx_busy <=> tx_left > 0)
      /\ report_idx \in 0 .. ReportLen - 1
  BY DEF UartInv, Registers
<1>2. PICK k \in Nat, d \in Nat :
        Unsent = k /\ k + d = ReportLen - (IF tx_busy THEN 1 ELSE 0)
  <2>1. CASE tx_busy
    <3>1. Unsent = ReportLen - report_idx - 1 /\ Unsent \in Nat /\ report_idx \in Nat
      BY <1>1, <2>1 DEF Unsent
    <3>2. Unsent + report_idx = ReportLen - 1
      BY <3>1
    <3>. QED BY <2>1, <3>1, <3>2
  <2>2. CASE ~tx_busy
    <3>1. Unsent = ReportLen - report_idx - 0 /\ Unsent \in Nat /\ report_idx \in Nat
      BY <1>1, <2>2 DEF Unsent
    <3>2. Unsent + report_idx = ReportLen - 0
      BY <3>1
    <3>. QED BY <2>2, <3>1, <3>2
  <2>. QED BY <2>1, <2>2
<1>3. /\ k * (TxEdges + 1) >= 0 /\ k * (TxEdges + 1) \in Int
      /\ d * (TxEdges + 1) >= 0 /\ d * (TxEdges + 1) \in Int
      /\ (k + d) * (TxEdges + 1) = k * (TxEdges + 1) + d * (TxEdges + 1)
  <2>1. TxEdges + 1 \in Nat
    OBVIOUS
  <2>. QED BY <2>1, Factor
<1>4. tx_left + k * (TxEdges + 1) \in 0 .. ReportEdges
  <2>1. CASE tx_busy
    <3>1. (k + d) * (TxEdges + 1) = (ReportLen - 1) * (TxEdges + 1)
      BY <1>2, <2>1
    <3>2. (ReportLen - 1) * (TxEdges + 1) \in Int
      BY <1>3, <3>1
    <3>. QED BY <1>1, <1>3, <3>1, <3>2
  <2>2. CASE ~tx_busy
    <3>1. (k + d) * (TxEdges + 1) = ReportEdges /\ tx_left = 0
      BY <1>1, <1>2, <2>2 DEF ReportEdges
    <3>. QED BY <1>3, <3>1
  <2>. QED BY <2>1, <2>2
<1>. QED BY <1>1, <1>2, <1>4 DEF Work

\* BacklogOK in terms of Balanced.
LEMMA BacklogBalance ==
  ASSUME UartInv
  PROVE  BacklogOK <=>
           /\ rx_valid => rx_gap = RxEdges - 1
           /\ longest <= FIFO_DEPTH + ReportLen =>
                /\ ~rx_overflow
                /\ Backlog <= burst
                /\ Balanced(Backlog, burst - Backlog, RxEdges - 1 - rx_gap, Work)
BY DEF BacklogOK, Balanced, ReportEdges

\* What an edge does to the backlog and the burst, while no burst was too long.
LEMMA BacklogCount ==
  ASSUME UartInv, BacklogOK, Next, longest' <= FIFO_DEPTH + ReportLen
  PROVE  /\ longest <= FIFO_DEPTH + ReportLen /\ burst \in Nat /\ burst <= longest
         /\ Backlog \in Nat /\ Backlog <= burst /\ ~rx_overflow'
         /\ fifo_pop => Backlog > 0
         /\ NoByte => Backlog' = Backlog - (IF fifo_pop THEN 1 ELSE 0)
         /\ Received => Backlog' = Backlog - (IF fifo_pop THEN 1 ELSE 0) + 1
         /\ NoByte => burst' = burst \/ (burst' = 0 /\ Backlog = 0 /\ ~fifo_pop)
         /\ Received => burst' = burst + 1 \/ (burst' = 1 /\ Backlog = 0 /\ ~fifo_pop)
<1>. USE UartConstants
<1>1. /\ fifo_count \in 0 .. FIFO_DEPTH /\ rx_valid \in BOOLEAN
      /\ longest \in 0 .. BurstCap /\ burst \in 0 .. longest /\ rx_gap \in 0 .. RxEdges - 1
      /\ longest' \in 0 .. BurstCap /\ burst' \in 0 .. longest'
  BY RegistersStep DEF UartInv, Ring, Registers, Flags
<1>2. longest <= FIFO_DEPTH + ReportLen /\ burst # BurstCap
  BY <1>1 DEF Next, NoByte, Received
<1>3. Backlog \in Nat /\ Backlog <= burst /\ ~rx_overflow
  BY <1>1, <1>2 DEF BacklogOK, Backlog
<1>4. ~(rx_valid /\ fifo_full)
  <2>1. SUFFICES ASSUME rx_valid, fifo_count = FIFO_DEPTH PROVE FALSE
    BY DEF fifo_full
  <2>2. Backlog = FIFO_DEPTH + 1
    BY <2>1 DEF Backlog
  <2>3. PICK e \in Nat, g \in Nat, w \in Nat :
          e = burst - Backlog /\ g = RxEdges - 1 - rx_gap /\ w = Work
    <3>1. burst - Backlog \in Nat /\ RxEdges - 1 - rx_gap \in Nat
      BY <1>1, <1>3
    <3>2. Work \in Nat
      BY WorkBound, ReportTime
    <3>. QED BY <3>1, <3>2
  <2>4. e <= ReportLen - 1
    BY <1>1, <1>2, <2>2, <2>3
  <2>5. Balanced(FIFO_DEPTH + 1, e, g, w)
    BY <1>2, <2>2, <2>3, BacklogBalance
  <2>. QED BY <2>4, <2>5, BalanceFull
<1>5. ~rx_overflow'
  BY <1>3, <1>4 DEF Next, Fifo
<1>6. fifo_pop => fifo_count > 0 /\ Backlog > 0
  BY <1>1 DEF fifo_pop, Backlog
<1>7. Pause => Backlog = 0 /\ ~fifo_pop
  BY DEF Pause, Backlog, fifo_pop
<1>8. fifo_count' = fifo_count + (IF rx_valid THEN 1 ELSE 0) - (IF fifo_pop THEN 1 ELSE 0)
  <2>1. fifo_push <=> rx_valid
    BY <1>4 DEF fifo_push
  <2>. HIDE DEF fifo_pop, fifo_push
  <2>. QED BY <1>1, <2>1 DEF Next, Fifo
<1>. HIDE DEF fifo_pop, Pause
<1>9. ASSUME NoByte
      PROVE  /\ Backlog' = Backlog - (IF fifo_pop THEN 1 ELSE 0)
             /\ burst' = burst \/ (burst' = 0 /\ Backlog = 0 /\ ~fifo_pop)
  <2>1. rx_valid' = FALSE
    BY <1>9 DEF NoByte
  <2>. QED BY <1>1, <1>7, <1>8, <1>9, <2>1 DEF NoByte, Backlog
<1>10. ASSUME Received
       PROVE  /\ Backlog' = Backlog - (IF fifo_pop THEN 1 ELSE 0) + 1
              /\ burst' = burst + 1 \/ (burst' = 1 /\ Backlog = 0 /\ ~fifo_pop)
  <2>1. rx_valid' = TRUE
    BY <1>10 DEF Received
  <2>. QED BY <1>1, <1>2, <1>7, <1>8, <1>10, <2>1 DEF Received, Backlog
<1>. QED BY <1>1, <1>2, <1>3, <1>5, <1>6, <1>9, <1>10

LEMMA BacklogStep == UartInv /\ UartInv' /\ BacklogOK /\ Next => BacklogOK'
<1>. SUFFICES ASSUME UartInv, UartInv', BacklogOK, Next PROVE BacklogOK'
  OBVIOUS
<1>. USE UartConstants, ReportTime
<1>1. rx_valid' => rx_gap' = RxEdges' - 1
  BY DEF Next, NoByte, Received
<1>2. ASSUME longest' <= FIFO_DEPTH + ReportLen
      PROVE  /\ ~rx_overflow'
             /\ Backlog' <= burst'
             /\ Balanced(Backlog', burst' - Backlog', RxEdges - 1 - rx_gap', Work')
  <2>1. /\ longest <= FIFO_DEPTH + ReportLen /\ burst \in Nat /\ burst <= longest
        /\ Backlog \in Nat /\ Backlog <= burst /\ ~rx_overflow'
        /\ fifo_pop => Backlog > 0
        /\ NoByte => Backlog' = Backlog - (IF fifo_pop THEN 1 ELSE 0)
        /\ Received => Backlog' = Backlog - (IF fifo_pop THEN 1 ELSE 0) + 1
        /\ NoByte => burst' = burst \/ (burst' = 0 /\ Backlog = 0 /\ ~fifo_pop)
        /\ Received => burst' = burst + 1 \/ (burst' = 1 /\ Backlog = 0 /\ ~fifo_pop)
    BY <1>2, BacklogCount
  <2>2. PICK b \in Nat, e \in Nat, g \in Nat, w \in Nat :
          /\ b = Backlog /\ e = burst - Backlog /\ g = RxEdges - 1 - rx_gap /\ w = Work
          /\ g <= RxEdges - 1
    <3>1. burst - Backlog \in Nat
      BY <2>1
    <3>2. RxEdges - 1 - rx_gap \in Nat /\ RxEdges - 1 - rx_gap <= RxEdges - 1
      BY DEF UartInv, Registers
    <3>3. Work \in Nat
      BY WorkBound
    <3>. QED BY <2>1, <3>1, <3>2, <3>3
  <2>3. Balanced(b, e, g, w)
    BY <2>1, <2>2, BacklogBalance
  <2>4. PICK w2 \in 0 .. ReportEdges : w2 = Work'
    <3>1. UartInv' => (Work \in 0 .. ReportEdges)'
      BY WorkBound, PTL
    <3>2. ReportEdges' = ReportEdges
      BY DEF ReportEdges
    <3>. QED BY <3>1, <3>2
  <2>5. \/ w > 0 /\ w2 = w - 1 /\ ~fifo_pop
        \/ w = 0 /\ w2 = TxEdges /\ fifo_pop
        \/ w = 0 /\ ~fifo_pop /\ fifo_count = 0 /\ (w2 = 0 \/ ~rx_valid)
    BY <2>2, <2>4, WorkStep DEF Next
  <2>6. fifo_count = 0 => b = (IF rx_valid THEN 1 ELSE 0)
    BY <2>2 DEF Backlog
  <2>7. rx_valid => g = 0
    BY <2>2 DEF BacklogOK
  <2>. HIDE DEF fifo_pop
  <2>8. CASE NoByte
    <3>1. PICK g2 \in 0 .. g + 1 : g2 = RxEdges - 1 - rx_gap'
      <4>1. rx_gap' = Less(rx_gap) /\ rx_gap \in 0 .. RxEdges - 1
        BY <2>8 DEF NoByte, UartInv, Registers
      <4>2. PICK r \in 0 .. RxEdges - 1 : r = rx_gap' /\ (r = rx_gap - 1 \/ r = rx_gap)
        BY <4>1 DEF Less
      <4>3. RxEdges - 1 - r \in 0 .. g + 1
        BY <2>2, <4>1, <4>2
      <4>. QED BY <4>2, <4>3
    <3>2. CASE fifo_pop
      <4>1. w = 0 /\ w2 = TxEdges /\ b > 0 /\ burst' = burst /\ Backlog' = b - 1
        BY <2>1, <2>2, <2>5, <2>8, <3>2
      <4>2. burst' - Backlog' = e + 1 /\ Backlog' <= burst'
        BY <2>1, <2>2, <4>1
      <4>3. Balanced(b - 1, e + 1, g2, TxEdges)
        BY <2>3, <4>1, BalanceEcho
      <4>. QED BY <2>1, <2>4, <3>1, <4>1, <4>2, <4>3
    <3>3. CASE ~fifo_pop /\ b = 0
      <4>1. Backlog' = 0 /\ burst' \in Nat
        <5>1. Backlog' = Backlog - 0 /\ Backlog = 0
          BY <2>1, <2>2, <2>8, <3>3
        <5>2. burst' = burst \/ burst' = 0
          BY <2>1, <2>8
        <5>. QED BY <2>1, <5>1, <5>2
      <4>2. Balanced(Backlog', burst' - Backlog', RxEdges - 1 - rx_gap', Work')
        BY <4>1 DEF Balanced
      <4>. QED BY <2>1, <4>1, <4>2
    <3>4. CASE ~fifo_pop /\ b > 0
      <4>1. Backlog' = b /\ burst' = burst
        BY <2>1, <2>2, <2>8, <3>4
      <4>2. burst' - Backlog' = e /\ Backlog' <= burst'
        BY <2>1, <2>2, <4>1
      <4>3. Balanced(b, e, g2, w2)
        <5>1. CASE w > 0
          <6>1. Balanced(b, e, g2, w - 1)
            BY <2>3, <5>1, BalanceWork
          <6>. QED BY <2>5, <5>1, <6>1
        <5>2. CASE w = 0
          <6>1. rx_valid /\ b = 1 /\ g = 0 /\ w2 = 0
            BY <2>5, <2>6, <2>7, <3>4, <5>2
          <6>2. g2 \in 0 .. ReportEdges /\ g2 + 0 <= ReportEdges
            BY <3>1, <6>1
          <6>. QED BY <6>1, <6>2, BalanceFirst
        <5>. QED BY <5>1, <5>2
      <4>. QED BY <2>1, <2>4, <3>1, <4>1, <4>2, <4>3
    <3>. QED BY <3>2, <3>3, <3>4
  <2>9. CASE Received
    <3>1. g = RxEdges - 1 /\ RxEdges - 1 - rx_gap' = 0
      BY <2>2, <2>9 DEF Received
    <3>2. CASE fifo_pop
      <4>1. w = 0 /\ w2 = TxEdges /\ b > 0 /\ burst' = burst + 1 /\ Backlog' = b
        BY <2>1, <2>2, <2>5, <2>9, <3>2
      <4>2. burst' - Backlog' = e + 1 /\ Backlog' <= burst'
        BY <2>1, <2>2, <4>1
      <4>3. Balanced(b, e + 1, 0, TxEdges)
        BY <2>3, <3>1, <4>1, BalanceEcho
      <4>. QED BY <2>1, <2>4, <3>1, <4>1, <4>2, <4>3
    <3>3. CASE ~fifo_pop /\ b = 0
      <4>1. Backlog' = 1 /\ burst' \in Nat /\ burst' >= 1
        BY <2>1, <2>2, <2>9, <3>3
      <4>2. PICK e2 \in Nat : e2 = burst' - Backlog'
        <5>1. \A u \in Nat : u >= 1 => u - 1 \in Nat
          OBVIOUS
        <5>2. burst' - 1 \in Nat
          BY <4>1, <5>1
        <5>. QED BY <4>1, <5>2
      <4>3. Balanced(1, e2, 0, w2)
        BY BalanceFirst
      <4>. QED BY <2>1, <2>4, <3>1, <4>1, <4>2, <4>3
    <3>4. CASE ~fifo_pop /\ b > 0
      <4>1. Backlog' = b + 1 /\ burst' = burst + 1
        BY <2>1, <2>2, <2>9, <3>4
      <4>2. burst' - Backlog' = e /\ Backlog' <= burst'
        BY <2>1, <2>2, <4>1
      <4>3. Balanced(b + 1, e, 0, w2)
        <5>1. CASE w > 0
          BY <2>3, <2>5, <3>1, <3>4, <5>1, BalanceWork
        <5>2. CASE w = 0
          <6>1. b = 1 /\ RxEdges = 1 /\ w2 = 0
            BY <2>5, <2>6, <2>7, <3>1, <3>4, <5>2
          <6>2. e * Slip >= 0 /\ e * Slip \in Int /\ (b + 1 - 1) * RxEdges = 1
            BY <6>1, SlipCovers, Factor
          <6>. QED BY <6>1, <6>2 DEF Balanced
        <5>. QED BY <5>1, <5>2
      <4>. QED BY <2>1, <2>4, <3>1, <4>1, <4>2, <4>3
    <3>. QED BY <3>2, <3>3, <3>4
  <2>. QED BY <2>8, <2>9 DEF Next
<1>3. BacklogOK' <=>
        /\ rx_valid' => rx_gap' = RxEdges' - 1
        /\ longest' <= FIFO_DEPTH' + ReportLen' =>
             /\ ~rx_overflow'
             /\ Backlog' <= burst'
             /\ Balanced(Backlog', burst' - Backlog', RxEdges - 1 - rx_gap', Work')
  BY DEF BacklogOK, Balanced, ReportEdges
<1>. QED BY <1>1, <1>2, <1>3

\* A burst of as many bytes as the FIFO and a report hold is echoed without
\* loss, whatever the transmitter was doing when it began.
THEOREM BurstsEchoed == Spec => []BurstsFit
<1>1. Init => BacklogOK
  BY UartConstants DEF Init, BacklogOK, Backlog
<1>2. UartInv /\ UartInv' /\ BacklogOK /\ [Next]_vars => BacklogOK'
  <2>1. ASSUME BacklogOK, UNCHANGED vars PROVE BacklogOK'
    BY <2>1 DEF vars, receiver, fifo, report, tx, BacklogOK, Backlog, Work, Unsent
  <2>. QED BY <2>1, BacklogStep
<1>3. BacklogOK => BurstsFit
  BY DEF BacklogOK, BurstsFit
<1>. QED BY <1>1, <1>2, <1>3, UartKeeps, PTL DEF Spec
=============================================================================
