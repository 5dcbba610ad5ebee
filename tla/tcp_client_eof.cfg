CONSTANTS
  Modes = {"poll", "pollOne"}
  EofChecks = {"client"}
  MaxRx = 2
SPECIFICATION Spec
INVARIANT TcpReceiveEofSound
