SPECIFICATION Spec
CONSTANTS
  Threads = {t1, t2, t3}
  max_credits = 2
  Modulus = 8
  MaxClaims = 10
PROPERTY SleepsOnlyWhenFull
CHECK_DEADLOCK FALSE
