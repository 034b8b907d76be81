\* real warp-group and register-file sizes; requests 24, 90 and 232
SPECIFICATION Spec
CONSTANTS
  WarpsPerGroup = 4
  RegFile = 2048
  BaseWarps = {4, 8}
  UserRegs = {0, 128}
  Sizes = {1, 2, 4, 8}
  Requests = {24, 90, 232}
  Modules <- MCModules
INVARIANTS WarpsCovered GroupsAgree RegionFits HeaderFits RequestsMet
