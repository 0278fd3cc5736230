\* Three calls at once: one to end, one to be lost, one to come later.
SPECIFICATION ClientSpec
CONSTANTS
  Calls = {c1, c2, c3}
  NoWorker = NoWorker
INVARIANTS
  EngineSound
  ServerOnlyWithoutEngine
PROPERTIES
  BusyClears
