SPECIFICATION Spec
CONSTANTS Cap = 3
          W = 5
          LineCap = 2
          OutSize = 3
          MaxWritten = 6
          MaxOpens = 3
INVARIANTS TypeOK RingHolds OneChain ShowsWhatWasLogged NoSilentGap
PROPERTIES CatchesUp
CHECK_DEADLOCK FALSE
