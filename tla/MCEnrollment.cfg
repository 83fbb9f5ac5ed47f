CONSTANTS
  Cases <- TwoCases
  Operators = {o1}
  Envelopes <- TestEnvelopes
  Signed <- TestSigned
  Trusts <- TestTrusts
  NewNames = {f1, f2, f3}
  MaxEntries = 2
  CompactBytes <- TestCompactBytes
  FileBytes <- TestFileBytes
  MaxBytes = 5
  MaxLease = 1
  MaxTime = 1
  MaxEdits = 1
SYMMETRY NewNamesSymmetry
SPECIFICATION Spec
INVARIANTS TypeOK ApprovalIsEarned RevokedStaysRevoked
