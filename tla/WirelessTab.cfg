SPECIFICATION FairSpec
CONSTANTS
  near = near
  far = far
  MAL = MAL
  APs = {near, far}
  Registries = {MAL}
  Home <- HomeOf
  NoAP = NoAP
  Known = 0
  Refreshes = {1}
INVARIANTS TableIsView
PROPERTIES VendorsSurvive VendorsReachTable
CHECK_DEADLOCK FALSE
