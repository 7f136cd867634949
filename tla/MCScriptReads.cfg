SPECIFICATION FairSpec
CHECK_DEADLOCK FALSE
CONSTANTS
  Requests <- Made
  FrameOf <- InFrame
  MainFrame = "main"
  UrlOf <- OwnUrl
  Redirect <- Redirects
  Steps = 2
  Boundary = 2
  MaxAttempts = 2
INVARIANTS NothingVanishes CountedOnce OnePayment CutsWereSeen
PROPERTY Ends
