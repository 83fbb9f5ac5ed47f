CONSTANTS
  Cases <- TwoCases
  Operators = {o1}
  Envelopes <- TestEnvelopes
  Signed <- TestSigned
  Trusts <- TestTrusts
  NewNames = {f1, f2}
  MaxEntries = 2
  CompactBytes <- TestCompactBytes
  FileBytes <- TestFileBytes
  MaxBytes = 5
  MaxLease = 1
  MaxTime = 1
  MaxEdits = 0
SPECIFICATION Spec
INVARIANT WrittenIsReadable
