\* Two requests, two calls at a time, two authorizations that the capacity does not cover together.
CONSTANTS
  Requests = {r1, r2}
  Auths = {a1, a2}
  Digests = {"small", "large"}
  Calls = {c1, c2}
  UpperBound <- SmallAndLarge
  MaxSpend = 2
  Capacities = {1, 3}
  Costs = {1, 3}
SYMMETRY Symmetry
SPECIFICATION Spec
INVARIANTS TypeOK SupplierIsAskedOnce ChargesAreCovered ExposureIsCapped BooksAgree
PROPERTIES HistoryIsKept
CHECK_DEADLOCK FALSE
