SPECIFICATION Spec
CONSTANTS Frames <- MCFrames
          Talks <- MCTalks
          Sense <- MCSense
          PbDecode <- MCDecode
          PbEncode <- MCEncode
          Keys <- MCKeys
          Links <- MCLinks
          Secret <- MCSecret
          MaxSaid = 1
          MaxSingles = 1
INVARIANTS TypeOK InStep EndsForCause RoundTrip PingsAnswered ShowsLatest
PROPERTIES ImplementsChannel EventuallyHandled
CHECK_DEADLOCK FALSE
