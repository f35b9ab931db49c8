SPECIFICATION TunnelsSpec
CONSTANTS
  Router = {ra, rb}
  Key = {k1, k2, k3}
  Address = {1, 2}
  Call = {c1, c2}
  MaxCrashes = 1
  MaxMishaps = 1
  None = none
PROPERTIES FreedAddressHasNoPeer
