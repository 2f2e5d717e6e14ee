SPECIFICATION Spec
CONSTANTS
  Modes = {"CHASE", "PARTY"}
  USER_FEEDBACK_RATE = 0
INVARIANT BlockReleased
PROPERTIES LedsSettle FeedbackEnds
