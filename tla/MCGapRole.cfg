SPECIFICATION Spec
CONSTANTS
  EventCnt = 2
INVARIANTS
  TypeOK
  RoleAgrees
  OnlyFailedLinkStops
  FastIsCounted
  BattTimerInLink
  RebootHasCause
PROPERTIES
  AdvertisesAgain
  PressIsBroadcast
  BurstEnds
