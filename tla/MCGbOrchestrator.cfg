SPECIFICATION Spec
CONSTANTS
  None = None
  Tunables <- MCTunables
  Settings <- MCSettings
  Original <- MCOriginal
  Groups <- MCGroups
  Broken <- MCBroken
  Phases = {"INIT", "MODEL_LOAD", "INFERENCE", "IDLE"}
  Actuate = TRUE
  OsTune = TRUE
  KvStep = 2
  KvLever = 2
  KvFloor = 1
  KvDefault = 2
  Total = 6
  Weights = 1
  WsStep = 1
  WsLever = 1
  WsCap = 1
  SafetyMax = 3
  PowerFloor = 1
  T3Size = 4
  T3Step = 1
  T3Floor = 1
  T3Lever = 2
  EnvelopeTicks = 2
  MaxDbe = 2
  MaxUpsets = 1
INVARIANT OriginalsKept
PROPERTY  EnvelopeGivenBack
