SPECIFICATION Spec
CONSTANTS
  PollTime = 2
  Pace = 1
  FrameTime = 4
  PingProbe = 6
  PingReply = 4
  Answering = 3
  KeyCap = 2
  MaxPresses = 4
INVARIANT NoticedInTime
PROPERTY GivenUpForCause
