CONSTANTS
  Clients = {}
  MainCommands = {"start", "stop", "cancel", "reload"}
  ClientCommands = {}
  ClientImes = {}
  Sessions = {s1, s2, s3}
  NoSession = NoSession
  MinSamples = 1
  ChunksPerRead = 1
  StreamReuse = TRUE
  DuckOutput = TRUE
  MayShutDown = FALSE
SPECIFICATION Spec
SYMMETRY SessionSymmetry
INVARIANTS RecordingIsHeard
