---------------------------- MODULE MCMavlinkRx ----------------------------
\* MavlinkRx with start byte 5, payloads of up to 2 bytes (values 3 and 4 are
\* impossible lengths) and an overhead of 3.
EXTENDS MavlinkRx

\* A known message, an unknown one, and a known one with a start byte, an
\* impossible length and line ends among its bytes.
Mixed == {[known |-> TRUE,  bytes |-> <<5, 0, 1, 0, 3>>],
          [known |-> FALSE, bytes |-> <<5, 1, 2, 4, 0, 1>>],
          [known |-> TRUE,  bytes |-> <<5, 2, 5, 4, 1, 5, 1>>]}
=============================================================================
