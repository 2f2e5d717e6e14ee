SPECIFICATION PartsSpec
CONSTANTS
  Timeout = 2
  DEBOUNCE_COUNT = 2
  LONG_HOLD_COUNT = 2
  STICK_DEBOUNCE_COUNT = 1
  STICK_LONG_HOLD_COUNT = 1
  FAST_RATE_TICK = 1
  TIMER_UNIT = 113
INVARIANTS
  CodeWasSpelled ForgottenAfterTimeout
  FrontDebounced OncePerPress HeldIsReported
  DebouncedExactly
PROPERTIES
  OnlyTailSwallowed RepeatsAreSpaced HeldRepeats BannerCompletes
