SPECIFICATION Spec
CONSTANTS
  TextPieces = {"text"}
  PortPiece = "port"
  DefaultPort = "8765"
  Names = {"net1"}
  EmptyName = ""
  DefaultName = "ICECREAM"
  Unset = Unset
  MaxPieces = 3
  Addresses = {lo, a, b}
  Loopback = {lo}
  Versions = {0, 32, 42, 128}
  StartTimes = {0, 5}
  Nobody = Nobody
VIEW PlanOnly
INVARIANTS
  BestAnswerWins
  NoBogusWinner
  PlanFollowsArgument
CHECK_DEADLOCK FALSE
