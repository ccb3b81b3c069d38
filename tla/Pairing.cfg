SPECIFICATION FairSpec
CONSTANTS
  MaxFaults = 2
  MaxMistakes = 2
INVARIANTS TypeOK PairedMeansTrusted OkMeansThisCode
PROPERTIES KeepsAgreement EventuallyPaired
