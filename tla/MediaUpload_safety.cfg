\* Sizes around the block boundary, one above the limit; all uploads may end.
SPECIFICATION Spec
CONSTANTS
  Uploads = {u1, u2}
  FileSizes = {0, 15, 16, 33}
  MaxFileSize = 32
  MaxRewrites = 2
SYMMETRY Symmetry
INVARIANTS
  IInv
  
  SizeWrongOnlyAt15
CHECK_DEADLOCK FALSE
