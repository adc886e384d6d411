SPECIFICATION RunSpec
CONSTANTS
  Nonce = 300
  StaleNonce = 44
  Payload <- Messages
  Noise <- StrayBytes
  MAX_PAYLOAD = 4
  MaxChunk = 256
  MaxFrames = 2
  MaxNoise = 1
CHECK_DEADLOCK FALSE
INVARIANTS TypeOK FramesComeOutWhole PassMeansWholeBurst BufferBounded
PROPERTY CaptureEnds
