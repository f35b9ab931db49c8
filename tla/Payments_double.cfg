SPECIFICATION Spec
CONSTANTS
  Session = {s1, s2}
  HasPhone = TRUE
  MaxRefunds = 0
SYMMETRY SessionSymmetry
INVARIANTS OneVoucher
