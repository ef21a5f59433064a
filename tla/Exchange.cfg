SPECIFICATION Spec
CONSTANTS
  Frames <- AllFrames
  Streams <- TwoStreams
  Limits <- TwoLimits
  GatewayFrames <- FramesOf
  ClientFrames <- FramesOf
  MaxPayload = 5
  MaxRequest = 1
  MaxResponse = 11
  ChunkSizes <- ShortAndLong
  MaxSent = 4
INVARIANTS ExchangeTypeOK CodecCorrect
  ForwardsWholeRequest ServesProperRequest AnswerIsWhole WholeAnswerAccepted
\* A connection that has ended and a call that has returned stay so.
CHECK_DEADLOCK FALSE
