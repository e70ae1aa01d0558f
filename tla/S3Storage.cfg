CONSTANTS
  small = small
  large = large
  huge = huge
  None = None
  Uploads = {u1, u2}
  Keys = {small, large, huge}
  SizeOf <- Sizes
  Threshold = 1
  PartSize = 2
  MaxParts = 2
  MaxObject = 5
SPECIFICATION Spec
SYMMETRY Symmetric
INVARIANTS
  KnownUploadsOwned
  OneOwner
  UploadsSound
  ShutdownOkClears
CHECK_DEADLOCK FALSE
