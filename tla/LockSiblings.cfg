SPECIFICATION Spec
CONSTANTS
  Workers = {"w1", "w2"}
  Handlers <- ThreeHandlers
  WorkerOf <- SharedProcess
  Beats = 3
PROPERTIES ReleasesOwnJobOnly
CHECK_DEADLOCK FALSE
