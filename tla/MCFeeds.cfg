SPECIFICATION FeedsSpec
CONSTANTS
  StartupTimeout = 1
  HandshakeTimeout = 2
  MaxLines = 2
  MaxDims = 2
  MaxFrames = 3
  Width = 4
  Unit = 3
  Nominal = 2
  Jumps <- MCJumps
  Streams <- MCStreams
INVARIANT FeedsTypeOK
INVARIANT StartReported
INVARIANT ReapedLast
INVARIANT PlayoutExact
INVARIANT StreamIntact
INVARIANT OnePicture
PROPERTY FeedsSettle
PROPERTY BackendsAreFeeds
CHECK_DEADLOCK FALSE
