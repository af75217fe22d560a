CONSTANTS
  MaxBar = 5
  Agents <- MCAgents
  First <- MCFirst
  Required <- MCRequired
  Threshold = 2
  Views <- MCViews
  Prices = {3}
  Ranges = {0, 1, 2}
  SlMult = 1
  TpMult = 2
SPECIFICATION Spec
INVARIANT CrossingsFollowed
INVARIANT ProtectedOnBothSides
PROPERTY SideLeftBetween
CHECK_DEADLOCK FALSE
