---------------------------- MODULE FrameCodec ----------------------------
(***************************************************************************)
(* Length-prefixed frames, as both ends of the control connection cut and  *)
(* reassemble them.  The payloads the server and its agents encode are     *)
(* below 2^32 bytes; EncodeFrame throws for a longer one.                  *)
(***************************************************************************)
EXTENDS Naturals, Sequences

CONSTANT MaxFrameBytes   \* max_frame_bytes_ of a FrameDecoder

(* A positive uint32_t. *)
ASSUME FrameLimit ==
  /\ MaxFrameBytes \in Nat \ {0}
  /\ ((MaxFrameBytes \div 256) \div 256) \div 256 < 256

Bytes == 0..255

LengthPrefixBytes == 4

(* The most significant byte comes first. *)
ReadBigEndianLength(buffer) ==
  ((buffer[1] * 256 + buffer[2]) * 256 + buffer[3]) * 256 + buffer[4]

EncodeFrame(payload) ==
  LET low == Len(payload)
      second == low \div 256
      third == second \div 256
      high == third \div 256
  IN  <<high % 256, third % 256, second % 256, low % 256>> \o payload

(* One round of the loop of FrameDecoder::Push, with what drain makes of   *)
(* the rest of the buffer.  The frames it had taken when it throws are     *)
(* lost with the vector it collected.                                      *)
DrainRound(drain, buffer) ==
  LET length == ReadBigEndianLength(buffer)
      size == LengthPrefixBytes + length
      rest == drain[SubSeq(buffer, size + 1, Len(buffer))]
  IN  IF Len(buffer) < LengthPrefixBytes
      THEN [frames |-> <<>>, buffer |-> buffer, failed |-> FALSE]
      ELSE IF length > MaxFrameBytes
      THEN [frames |-> <<>>, buffer |-> buffer, failed |-> TRUE]
      ELSE IF Len(buffer) < size
      THEN [frames |-> <<>>, buffer |-> buffer, failed |-> FALSE]
      ELSE [rest EXCEPT !.frames =
              IF rest.failed THEN <<>>
              ELSE <<SubSeq(buffer, LengthPrefixBytes + 1, size)>> \o @]

Drain[buffer \in Seq(Bytes)] == DrainRound(Drain, buffer)

Push(buffer, bytes) == Drain[buffer \o bytes]
=============================================================================
