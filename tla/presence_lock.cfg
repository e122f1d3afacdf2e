CONSTANTS
  Proc = {p1, p2, p3}
  Inode = {i1, i2, i3, i4}
  None = none
  Nt = TRUE
  MayFallBack = TRUE
  MayDoubleAdmit = TRUE
SPECIFICATION Spec
INVARIANT MutualExclusion
PROPERTY AtomicSpec SidecarSpared
SYMMETRY Symmetry
