CONSTANTS
  AllowMetered = FALSE
  MaxAsking = 2
SPECIFICATION FairSpec
INVARIANTS TypeOK Attended RequestsRemembered NoTimerOutlivesSignOut
PROPERTIES WorkGoesOut
CHECK_DEADLOCK FALSE
