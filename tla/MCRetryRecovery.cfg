CONSTANTS
  FACE_LIMIT = 2
  Limits = {1, 2}
  Durations = {1}
  NoCooldown = NoCooldown
  MaxNow = 2
  MaxBoot = 1
  LIMIT = 3
  DELAY_AFTER = 2
  DELAY = 2
SPECIFICATION RecoverySpec
INVARIANTS RecoveryTypeOK GuessesCharged TornResetKeepsCharge ChargedForGood FailuresRemembered ClockNeverBackwards
PROPERTY GuessesPaced
