CONSTANTS
  Boot <- BootSizes
  FrameSizes = {2, 4}
  ManifestSize = 1
  Limits <- MCLimits
SPECIFICATION Spec
INVARIANTS
  TotalsExact
  RecoveryIsExact
