SPECIFICATION Spec
CONSTANTS
  MaxFaults = 1
  MaxMistakes = 0
INVARIANT FailMeansNotPaired
