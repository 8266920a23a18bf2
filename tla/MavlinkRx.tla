------------------------------ MODULE MavlinkRx ------------------------------
(***************************************************************************)
(* The receive side of rov_main: every byte of UART0 goes through the      *)
(* MAVLink frame parser (mavlink.c) and, when the parser is not inside a   *)
(* frame afterwards, on to the console's line editor (main.c).             *)
(*                                                                         *)
(* The host sends whole frames and typed characters on the same line.  A   *)
(* byte of a frame may be lost (the 64 byte FIFO overruns while the        *)
(* program blocks) or arrive changed.  The CRC is taken to be perfect: it  *)
(* fits exactly when the parser has collected, from the start byte to the  *)
(* end, one frame as it was sent.  Bytes are small numbers with the order  *)
(* of their ranges kept: lengths, other values, the start byte.            *)
(***************************************************************************)
EXTENDS Integers, Sequences

CONSTANTS
  STX,            \* 0xFD
  MaxLen,         \* longest payload the parser accepts (250)
  Overhead,       \* bytes of a frame beside STX, length and payload (10)
  LineMax,        \* longest console line (127)
  EOL, BS,        \* values that end a line, that erase a character
  Frames,         \* the frames the host sends: [known, bytes]
  Typed,          \* values a user types
  MaxFrames, MaxFaults,   \* bounds of the model
  ResyncFrames    \* intact frames after which the parser is back in step

Len2(frame) == frame.bytes[2]

ASSUME FrameAssumption ==
  /\ {STX, MaxLen, Overhead, LineMax, MaxFrames, MaxFaults, ResyncFrames} \subseteq Nat
  /\ STX > MaxLen /\ LineMax > 0 /\ Overhead > 0
  /\ Typed \subseteq 0 .. STX - 1 /\ STX \notin EOL \cup BS
  /\ \A frame \in Frames :
       /\ frame.known \in BOOLEAN /\ frame.bytes \in Seq(0 .. STX)
       /\ Len(frame.bytes) > 2 /\ frame.bytes[1] = STX /\ Len2(frame) <= MaxLen
       /\ Len(frame.bytes) = 2 + Len2(frame) + Overhead

\* The longest body the parser may wait for without being in step holds fewer
\* than ResyncFrames frames.
ASSUME ResyncAssumption == (ResyncFrames - 1) * (2 + Overhead) >= MaxLen + Overhead

VARIABLES
  rx_state, rx_len, rx_idx,   \* parser
  line,        \* rx_idx of main.c: characters in the console's line
  frame, pos,  \* the frame on the wire, the position of its next byte
  sent,        \* frames begun
  executed,    \* number of the last frame executed; MaxFrames + 1 for a false one
  intact,      \* history: number of the frame the parser has collected without
               \* a gap since its start byte, 0 if it has not
  faults,      \* bytes lost or changed, resets
  clean,       \* history: intact frames without a start byte inside, in a row
  leaked,      \* history: bytes of frames that reached the console
  wanted       \* history: number of the last frame whose message is known

parser  == <<rx_state, rx_len, rx_idx, intact, executed>>
wire    == <<frame, pos, sent, wanted>>
history == <<faults, clean, leaked>>
rxVars  == <<parser, line, wire, history>>

Idle == [known |-> FALSE, bytes |-> <<>>]

Plain(f) == \A i \in 2 .. Len(f.bytes) : f.bytes[i] # STX

----------------------------------------------------------------------------
(* mavlink_parse.  at is the byte's position in the frame on the wire, 0   *)
(* for a typed or a changed byte.                                          *)

Collects(at, taken) == IF at = taken + 1 /\ intact = sent THEN intact ELSE 0

Hunt(c, at) == \* state 0: wait for the start byte
  /\ rx_state = 0
  /\ IF c = STX THEN rx_state' = 1 /\ rx_idx' = 0 /\ intact' = (IF at = 1 THEN sent ELSE 0)
     ELSE UNCHANGED <<rx_state, rx_idx, intact>>
  /\ UNCHANGED <<rx_len, executed>>

\* Mutant: an impossible length is taken all the same.
Length_Any(c, at) ==
  /\ rx_state = 1
  /\ rx_len' = c
  /\ rx_state' = 2 /\ rx_idx' = 0 /\ intact' = Collects(at, 1)
  /\ UNCHANGED executed

Length(c, at) == \* state 1
  /\ rx_state = 1
  /\ rx_len' = c
  /\ IF c > MaxLen THEN rx_state' = 0 /\ UNCHANGED <<rx_idx, intact>>
     ELSE rx_state' = 2 /\ rx_idx' = 0 /\ intact' = Collects(at, 1)
  /\ UNCHANGED executed

\* Mutant: the body of a frame is dispatched without the CRC's agreement.
Body_NoCrc(at) ==
  /\ rx_state = 2
  /\ rx_idx' = rx_idx + 1
  /\ intact' = Collects(at, 2 + rx_idx)
  /\ IF rx_idx' < rx_len + Overhead THEN UNCHANGED <<rx_state, executed>>
     ELSE /\ rx_state' = 0
          /\ executed' = IF intact' = 0 THEN MaxFrames + 1 ELSE intact'
  /\ UNCHANGED rx_len

\* Mutant: a frame that fails its CRC leaves the parser inside a frame.
Body_Stuck(at) ==
  /\ rx_state = 2
  /\ rx_idx' = IF rx_idx < rx_len + Overhead THEN rx_idx + 1 ELSE rx_idx
  /\ intact' = Collects(at, 2 + rx_idx)
  /\ IF rx_idx' < rx_len + Overhead \/ intact' = 0 THEN UNCHANGED <<rx_state, executed>>
     ELSE rx_state' = 0 /\ executed' = IF frame.known THEN intact' ELSE executed
  /\ UNCHANGED rx_len

Body(at) == \* state 2: collect, at the end check the CRC and dispatch
  /\ rx_state = 2
  /\ rx_idx' = rx_idx + 1
  /\ intact' = Collects(at, 2 + rx_idx)
  /\ IF rx_idx' < rx_len + Overhead THEN UNCHANGED <<rx_state, executed>>
     ELSE /\ rx_state' = 0
          /\ executed' = IF intact' # 0 /\ frame.known THEN intact' ELSE executed
  /\ UNCHANGED rx_len

mavlink_parse(c, at) == Hunt(c, at) \/ Length(c, at) \/ Body(at)

----------------------------------------------------------------------------
(* The console's share of the main loop. *)

\* Mutant: the console sees every byte.
ToConsole_Always == TRUE

ToConsole == rx_state' = 0   \* ~mavlink_in_frame()

Edited(c) ==
  CASE c \in EOL -> 0
    [] c \in BS \ EOL -> IF line > 0 THEN line - 1 ELSE 0
    [] OTHER -> IF line < LineMax THEN line + 1 ELSE line

MainLoopByte(c, at) ==
  /\ mavlink_parse(c, at)
  /\ line' = IF ToConsole THEN Edited(c) ELSE line

----------------------------------------------------------------------------
(* The line. *)

SendFrame ==
  /\ frame = Idle /\ sent < MaxFrames
  /\ frame' \in Frames /\ pos' = 1
  /\ sent' = sent + 1
  /\ wanted' = IF frame'.known THEN sent' ELSE wanted
  /\ UNCHANGED <<parser, line, history>>

Advance == \* the next byte, or the end of the frame
  IF pos < Len(frame.bytes) THEN pos' = pos + 1 /\ UNCHANGED <<frame, sent, wanted>>
  ELSE pos' = 0 /\ frame' = Idle /\ UNCHANGED <<sent, wanted>>

Receive ==
  /\ frame # Idle
  /\ MainLoopByte(frame.bytes[pos], pos)
  /\ leaked' = IF ToConsole THEN leaked + 1 ELSE leaked
  /\ Advance
  /\ clean' = IF pos < Len(frame.bytes) THEN clean
              ELSE IF Plain(frame) THEN clean + 1 ELSE 0
  /\ UNCHANGED faults

Fault == faults < MaxFaults /\ faults' = faults + 1 /\ clean' = -1
         \* the frame a fault hits does not count either

Lose ==
  /\ frame # Idle /\ Fault
  /\ Advance
  /\ UNCHANGED <<parser, line, leaked>>

Change(c) ==
  /\ frame # Idle /\ Fault
  /\ c # frame.bytes[pos]
  /\ MainLoopByte(c, 0)
  /\ leaked' = IF ToConsole THEN leaked + 1 ELSE leaked
  /\ Advance

Type(c) ==
  /\ frame = Idle
  /\ MainLoopByte(c, 0)
  /\ UNCHANGED <<wire, history>>

Reset ==
  /\ Fault
  /\ rx_state' = 0 /\ rx_len' = 0 /\ rx_idx' = 0 /\ line' = 0 /\ intact' = 0
  /\ UNCHANGED <<executed, wire, leaked>>

----------------------------------------------------------------------------
RxInit ==
  /\ rx_state = 0 /\ rx_len = 0 /\ rx_idx = 0 /\ line = 0
  /\ frame = Idle /\ pos = 0 /\ sent = 0
  /\ executed = 0 /\ intact = 0 /\ faults = 0 /\ clean = 0 /\ leaked = 0 /\ wanted = 0

RxNext ==
  \/ SendFrame \/ Receive \/ Lose \/ Reset
  \/ \E c \in 0 .. STX : Change(c)
  \/ \E c \in Typed : Type(c)

RxSpec == RxInit /\ [][RxNext]_rxVars

----------------------------------------------------------------------------
(* Properties. *)

\* The parser's index never leaves the body it announced, nor the line editor
\* its line: both buffers are written by these indices without another check.
RxTypeOK ==
  /\ rx_state \in 0 .. 2 /\ rx_len \in 0 .. STX
  /\ rx_idx \in 0 .. MaxLen + Overhead
  /\ rx_state = 2 => rx_len <= MaxLen /\ rx_idx < rx_len + Overhead
  /\ line \in 0 .. LineMax
  /\ intact \in 0 .. MaxFrames /\ leaked \in Nat /\ clean \in -1 .. MaxFrames

Link == INSTANCE LossyLink

\* Lost, changed and swallowed bytes may cost messages, but none is executed
\* twice, out of order or without having been sent.
LinkSpec == Link!Spec

\* Without faults each frame shows the console at most one of its bytes.
LeakBound == faults = 0 => leaked <= sent

\* The parser recovers: the last of ResyncFrames intact frames in a row without
\* a start byte inside is executed if its message is known.
Resyncs ==
  frame = Idle /\ clean >= ResyncFrames /\ wanted = sent => executed = sent

----------------------------------------------------------------------------
(* What the documents say and the code does not do: TLC refutes these.     *)

\* The main loop's comment: bytes of a frame do not touch the console.  The
\* last byte of every frame does.
FrameBytesStayOut == [][Receive /\ faults = 0 => UNCHANGED line]_rxVars
=============================================================================
