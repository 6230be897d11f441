CONSTANTS
  Clients = {}
  MainCommands = {"start", "stop", "cancel", "reload"}
  ClientCommands = {}
  ClientImes = {}
  Sessions = {s1, s2, s3}
  NoSession = NoSession
  MinSamples = 2
  ChunksPerRead = 2
  StreamReuse = TRUE
  DuckOutput = TRUE
  MayShutDown = TRUE
SPECIFICATION FairSpec
INVARIANTS TypeOK PhaseTellsOwner RecordingUndone PostOnlyWhilePostprocessing WakeNotLost
PROPERTIES OrderOnlyTaken VerdictHonoured ImplementsPushToTalk BusyEnds DeferredIsDone ShutdownEnds
