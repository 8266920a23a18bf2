------------------------------ MODULE FreqUart ------------------------------
(***************************************************************************)
(* The frequency counter of src/top.v from the received byte and the       *)
(* measurement to the serial line: the RX FIFO and the one transmitter     *)
(* that serves both the echo and the report.                               *)
(*                                                                         *)
(* Every step is a clock edge; all registers move on the values before it. *)
(* A character keeps the transmitter busy for TxEdges edges, its bits are  *)
(* left out.  Received bytes lie at least RxEdges edges apart and          *)
(* measurements at least GateEdges.                                        *)
(***************************************************************************)
EXTENDS Integers, Sequences

CONSTANTS
  FIFO_DEPTH,   \* 16
  ReportLen,    \* 10 characters: eight digits, CR, LF
  TxEdges,      \* 10 * BAUD
  RxEdges,      \* 10 * BAUD of a host that sends without a pause
  GateEdges,    \* GATE + 1
  Byte, Value,  \* data of received bytes, measurements
  BurstCap      \* bound of the histories burst and longest

ASSUME UartAssumption ==
  /\ {FIFO_DEPTH, ReportLen, TxEdges, RxEdges, GateEdges} \subseteq Nat \ {0}
  /\ BurstCap \in Nat /\ BurstCap > FIFO_DEPTH + ReportLen
  /\ Byte # {} /\ Value # {}

\* How much longer the transmitter takes for a character than the line.
Slip == IF TxEdges + 1 > RxEdges THEN TxEdges + 1 - RxEdges ELSE 0

\* The FIFO takes longer to fill than a report to send, even when the echo of
\* ReportLen - 1 bytes has fallen behind the line.
ASSUME BurstAssumption ==
  FIFO_DEPTH * RxEdges > ReportLen * (TxEdges + 1) + (ReportLen - 1) * Slip

VARIABLES
  rx_valid, rx_data,                                     \* receiver
  rx_fifo, fifo_wr_ptr, fifo_rd_ptr, fifo_count, rx_overflow,
  freq_pending, report_active, report_idx, report_freq,  \* report
  tx_busy, tx_left, tx_is_report, tx_data,               \* transmitter
  gate_done, freq_result,                                \* counter
  rx_gap, gate_gap,  \* edges before the next byte, measurement
  burst, longest,    \* history: bytes received since the echo last caught up,
                     \* the most there ever were
  owed               \* history: the newest measurement is in no report

receiver == <<rx_valid, rx_data, rx_gap, burst, longest>>
fifo     == <<rx_fifo, fifo_wr_ptr, fifo_rd_ptr, fifo_count, rx_overflow>>
report   == <<report_active, report_idx, report_freq>>
tx       == <<tx_busy, tx_left, tx_is_report, tx_data>>
gate     == <<gate_done, freq_result, gate_gap>>
vars     == <<receiver, fifo, freq_pending, report, tx, gate, owed>>

Less(n) == IF n > 0 THEN n - 1 ELSE 0

----------------------------------------------------------------------------
(* FIFO. *)

\* Mutant: full is noticed one byte late.
fifo_full_Late == fifo_count > FIFO_DEPTH

fifo_full == fifo_count = FIFO_DEPTH

fifo_push == rx_valid /\ ~fifo_full

\* Mutant: the FIFO advances between the characters of a report.
fifo_pop_DuringReport == ~tx_busy /\ fifo_count > 0

fifo_pop == ~tx_busy /\ ~report_active /\ fifo_count > 0

Fifo ==
  /\ rx_fifo' = IF fifo_push THEN [rx_fifo EXCEPT ![fifo_wr_ptr] = rx_data] ELSE rx_fifo
  /\ fifo_wr_ptr' = IF fifo_push THEN (fifo_wr_ptr + 1) % FIFO_DEPTH ELSE fifo_wr_ptr
  /\ fifo_rd_ptr' = IF fifo_pop THEN (fifo_rd_ptr + 1) % FIFO_DEPTH ELSE fifo_rd_ptr
  /\ fifo_count' = CASE fifo_push /\ ~fifo_pop -> fifo_count + 1
                     [] fifo_pop /\ ~fifo_push -> fifo_count - 1
                     [] OTHER -> fifo_count
  /\ rx_overflow' = (rx_overflow \/ (rx_valid /\ fifo_full))

----------------------------------------------------------------------------
(* Transmitter.  Each action also says what becomes of freq_pending.       *)

\* Mutant: a measurement that ends during a report or an echo is forgotten.
Latch_WhenIdle(pending) ==
  freq_pending' = (pending \/ (gate_done /\ ~tx_busy))

Latch(pending) == freq_pending' = (pending \/ gate_done)

Start(c, ofReport) ==
  /\ tx_data' = c /\ tx_is_report' = ofReport
  /\ tx_busy' = TRUE /\ tx_left' = TxEdges

StartReport ==
  /\ ~tx_busy /\ report_active
  /\ Start([of |-> "report", value |-> report_freq, index |-> report_idx], TRUE)
  /\ Latch(freq_pending)
  /\ UNCHANGED report

StartEcho ==
  /\ fifo_pop /\ ~report_active
  /\ Start([of |-> "echo", data |-> rx_fifo[fifo_rd_ptr]], FALSE)
  /\ Latch(freq_pending)
  /\ UNCHANGED report

\* Mutant: a report is opened only while no byte was ever dropped.
Snapshot_UntilOverflow ==
  /\ ~tx_busy /\ ~report_active /\ ~fifo_pop
  /\ freq_pending /\ ~rx_valid /\ ~rx_overflow
  /\ report_freq' = freq_result /\ report_idx' = 0 /\ report_active' = TRUE
  /\ Latch(FALSE)
  /\ UNCHANGED tx

Snapshot ==
  /\ ~tx_busy /\ ~report_active /\ ~fifo_pop
  /\ freq_pending /\ ~rx_valid
  /\ report_freq' = freq_result /\ report_idx' = 0 /\ report_active' = TRUE
  /\ Latch(FALSE)
  /\ UNCHANGED tx

TxIdle ==
  /\ ~tx_busy /\ ~report_active /\ ~fifo_pop
  /\ ~freq_pending \/ rx_valid
  /\ Latch(freq_pending)
  /\ UNCHANGED <<report, tx>>

Sending ==
  /\ tx_busy /\ tx_left > 1
  /\ tx_left' = tx_left - 1
  /\ Latch(freq_pending)
  /\ UNCHANGED <<report, tx_busy, tx_is_report, tx_data>>

\* Mutant: the report's index runs through all its sixteen values.
LastIndex_Wraps == 15

LastIndex == ReportLen - 1

Sent ==
  /\ tx_busy /\ tx_left = 1
  /\ tx_busy' = FALSE /\ tx_left' = 0
  /\ IF tx_is_report /\ report_idx = LastIndex
     THEN report_active' = FALSE /\ report_idx' = 0
     ELSE /\ report_idx' = IF tx_is_report THEN report_idx + 1 ELSE report_idx
          /\ UNCHANGED report_active
  /\ Latch(freq_pending)
  /\ UNCHANGED <<report_freq, tx_is_report, tx_data>>

Transmitter == StartReport \/ StartEcho \/ Snapshot \/ TxIdle \/ Sending \/ Sent

----------------------------------------------------------------------------
(* What the other blocks deliver. *)

Pause == fifo_count = 0 /\ ~tx_busy /\ ~rx_valid

NoByte ==
  /\ rx_valid' = FALSE /\ rx_gap' = Less(rx_gap)
  /\ burst' = IF Pause THEN 0 ELSE burst
  /\ UNCHANGED <<rx_data, longest>>

Received ==
  /\ rx_gap = 0 /\ rx_gap' = RxEdges - 1
  /\ rx_valid' = TRUE /\ rx_data' \in Byte
  /\ burst' = CASE Pause -> 1 [] burst = BurstCap -> BurstCap [] OTHER -> burst + 1
  /\ longest' = IF burst' > longest THEN burst' ELSE longest

NoMeasurement ==
  /\ gate_done' = FALSE /\ gate_gap' = Less(gate_gap)
  /\ UNCHANGED freq_result

Measured ==
  /\ gate_gap = 0 /\ gate_gap' = GateEdges - 1
  /\ gate_done' = TRUE /\ freq_result' \in Value

Init ==
  /\ rx_valid = FALSE /\ rx_data \in Byte /\ rx_gap = 0 /\ burst = 0 /\ longest = 0
  /\ rx_fifo \in [0 .. FIFO_DEPTH - 1 -> {rx_data}]
  /\ fifo_wr_ptr = 0 /\ fifo_rd_ptr = 0 /\ fifo_count = 0 /\ rx_overflow = FALSE
  /\ freq_pending = FALSE /\ report_active = FALSE /\ report_idx = 0
  /\ tx_busy = FALSE /\ tx_left = 0 /\ tx_is_report = FALSE /\ tx_data = [of |-> "none"]
  /\ gate_done = FALSE /\ freq_result \in Value /\ gate_gap = 0
  /\ report_freq = freq_result
  /\ owed = FALSE

Next ==
  /\ Fifo
  /\ Transmitter
  /\ NoByte \/ Received
  /\ NoMeasurement \/ Measured
  /\ owed' = (gate_done' \/ (owed /\ (report_active \/ ~report_active')))

Spec == Init /\ [][Next]_vars

\* The clock runs.
FairSpec == Spec /\ WF_vars(Next)

----------------------------------------------------------------------------
(* Properties. *)

\* The pointers and the count agree, and the registers keep their ranges.
TypeOK ==
  /\ fifo_count \in 0 .. FIFO_DEPTH
  /\ fifo_wr_ptr \in 0 .. FIFO_DEPTH - 1 /\ fifo_rd_ptr \in 0 .. FIFO_DEPTH - 1
  /\ fifo_wr_ptr = (fifo_rd_ptr + fifo_count) % FIFO_DEPTH
  /\ rx_fifo \in [0 .. FIFO_DEPTH - 1 -> Byte] /\ rx_data \in Byte
  /\ tx_left \in 0 .. TxEdges /\ tx_busy \in BOOLEAN /\ (tx_busy <=> tx_left > 0)
  /\ report_idx \in 0 .. ReportLen - 1 /\ report_freq \in Value /\ freq_result \in Value
  /\ \A flag \in {rx_valid, rx_overflow, freq_pending, report_active, tx_is_report,
                   gate_done, owed} : flag \in BOOLEAN
  /\ rx_gap \in 0 .. RxEdges - 1 /\ gate_gap \in 0 .. GateEdges - 1
  /\ longest \in 0 .. BurstCap /\ burst \in 0 .. longest

queue == [i \in 1 .. fifo_count |-> rx_fifo[(fifo_rd_ptr + i - 1) % FIFO_DEPTH]]

Line == INSTANCE UartLine WITH
  Depth <- FIFO_DEPTH, overflow <- rx_overflow, out <- tx_data, shown <- report_freq,
  next <- IF ~report_active THEN -1
          ELSE IF tx_busy THEN report_idx + 1 ELSE report_idx

\* Echo and report share the line without loss, disorder or mixture: the FIFO
\* and the transmitter implement the line's promise.
LineSpec == Line!Spec

\* A measurement is in a report, or marked for one, however the end of the
\* gate falls against echoes and reports.
MeasurementRetained == owed => freq_pending \/ gate_done

\* The README's bursts of up to 26 bytes: as many as the FIFO and a report hold
\* are echoed without loss, a report in the way or not.
BurstsFit == longest <= FIFO_DEPTH + ReportLen => ~rx_overflow

\* Once the host is quiet every measurement is reported.
QuietReported == <>[]~rx_valid => [](freq_pending => <>report_active)

----------------------------------------------------------------------------
(* What the documents say and the code does not do: TLC refutes these.     *)

\* The README: the measurement is transmitted every second.  A host that never
\* pauses keeps it waiting.
AlwaysReported == freq_pending ~> report_active
=============================================================================
