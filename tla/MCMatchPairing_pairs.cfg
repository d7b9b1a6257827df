\* All ways three or four files may belong to the two sides.
CONSTANTS
  p1 = p1  p2 = p2  p3 = p3  p4 = p4
  Paths = {p1, p2, p3, p4}
  Inputs <- SomeInputs
SPECIFICATION Spec
INVARIANTS IInv ResultIsExact LimitsReported
CHECK_DEADLOCK FALSE
