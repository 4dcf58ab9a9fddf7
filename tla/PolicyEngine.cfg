SPECIFICATION Spec
CONSTANTS
  Documents <- MCDocuments
  Inputs <- MCInputs
  Requests = {r1, r2}
SYMMETRY Symmetry
INVARIANTS
  EnforcedInFull
  ChargedToItsOwner
  VerifiedByItsPolicy
PROPERTY RoutesAsDocumented
