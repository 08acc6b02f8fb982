SPECIFICATION Spec

CONSTANTS
  ElectionTimeout = 4
  HeartbeatInterval = 2
  MaxLoops = 3

INVARIANTS
  TimerInv
  SilenceEnds
  LeaderIsHeard

PROPERTIES
  CampaignsOnlyWhenLate
