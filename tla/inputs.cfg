SPECIFICATION Spec
CHECK_DEADLOCK FALSE
INVARIANTS
  TimesReadBack
  NamesReadBack
  UsageKept
  MomentRestored
