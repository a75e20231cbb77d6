SPECIFICATION Spec
CONSTANTS
  Cert = {cert1, cert2, cert3}
  Run = {run1, run2}
  User = {ana, bia}
  Hardware = {rev1, rev2}
  None = None
SYMMETRY Symm
INVARIANTS
  TypeOK
  UsableIsContained
  OneOwner
  AnswersAreTrue
CHECK_DEADLOCK FALSE
