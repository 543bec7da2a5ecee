SPECIFICATION Spec
CONSTANTS
  f1 = f1
  f2 = f2
  a1 = a1
  a2 = a2
  a3 = a3
  local = local
  None = None
  Fingerprint = {f1, f2}
  Address = {a1, a2, a3, local}
  Public = {a1, a2, a3}
  HomeCountries = {"ir"}
  BadVersions = {1}
  Blacklist = {f2}
  Authorities = 2
  Status <- MCStatus
  Server <- MCServer
  Extra <- MCExtra
  Measurement <- MCMeasurement
  CountryOf <- MCCountryOf
CHECK_DEADLOCK FALSE
INVARIANTS TypeOK TransportsAreVouched RejectionIsFinal StatusIsOnlyFlags BlocksFollowRows
