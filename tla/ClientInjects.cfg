CONSTANTS
  Clients = {k}
  MainCommands = {"start", "stop"}
  ClientCommands = {"cancel", "inject"}
  ClientImes = {FALSE}
  Sessions = {s1, s2}
  NoSession = NoSession
  MinSamples = 1
  ChunksPerRead = 1
  StreamReuse = TRUE
  DuckOutput = FALSE
  MayShutDown = FALSE
SPECIFICATION Spec
SYMMETRY SessionSymmetry
INVARIANTS RetiredIsDead
