SPECIFICATION ScopeSpec
CHECK_DEADLOCK FALSE
CONSTANTS
  Cart = Cart
  Pay = Pay
  Benign = Benign
  Other = Other
  Scripts <- Code
  Paths <- Sites
  LastStep = 2
  Marked = {2}
  Frames = {"outer", "inner"}
  ParentOf <- Nested
  Main = "main"
  None = None
  MaxDocuments = 3
  MaxChain = 3
  MaxRoutes = 1
  MaxRequests = 1
SYMMETRY Alike
INVARIANTS PaymentIsJudged EarlierPagesLeave RecordedRendersStayIn
