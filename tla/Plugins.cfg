SPECIFICATION Spec
CONSTANTS
  None = None
  Dialog = {1, 2}
  Worker = {1, 2}
  Package <- Packages
  Sessions <- Uses
  MarketText <- Market
  Registry <- Specs
  Prefix <- IdPrefixes
  Searches <- Texts
  Depends <- NodeModules
INVARIANTS ScanSound NoLostUpdate ListsCurrent FreedInTime TextsKept
PROPERTY ProfileKept
CHECK_DEADLOCK FALSE
