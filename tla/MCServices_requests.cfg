SPECIFICATION ServicesSpec
CONSTANTS
  Fields = {"name", "phone", "email"}
  Texts <- MCTexts
  PhoneKeyOf <- MCKeys
  MaskOf <- MCMasks
  Ids = {1, 2}
  Clients = {c1, c2}
  Users = {"u"}
  CreateBodies <- MCCreateBodies
  UpdateBodies <- MCUpdateBodies
  Versions = {1, 2}
  Keywords = {"", "ann"}
  PageSize = 1
  MaxRequests = 5
  MaxTime = 1
  StaffBodies <- MCStaffBodies
  StaffUpdates <- MCStaffUpdates
  Managers = {0, 1, 2}
  MaxDay = 3
  MaxCalls = 4
SYMMETRY Symmetry
INVARIANTS
  PhoneIsOfOne
  WalkMeetsUntouched
  LogChains
PROPERTIES
  UpdatesAreTold
  StaffRequestsAreSound
CHECK_DEADLOCK FALSE
