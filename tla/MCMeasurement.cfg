SPECIFICATION MeasurementSpec
CONSTANTS
  Manifests <- MCManifests
  Profiles <- MCProfiles
  Calibrated <- MCCalibrated
  Modes <- MCModes
  Variants <- MCVariants
  Seeds <- MCSeeds
  TimeoutGrid <- MCTimeouts
  TelemetryTimeout = 8
  ThresholdGrid <- MCThresholds
  CalibrationLimit = 2
  EvaluationLimit = 0
  AblationLimit = 1
  Workers = 2
  Dirs = {"d1", "d2"}
  MaxCampaigns = 2
  MaxFaults = 1
  Solvers <- MCSolvers
  MeasuredSeeds <- MCSeeds
  Repetitions = 1
  Deadline = 6
  MaxMishaps = 1
INVARIANTS
  CleanExitIsRight HeldOut NothingOlder TimeoutSuffices PoolIsSequential RunsAlone
