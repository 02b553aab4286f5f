CONSTANTS
  Requests = {r1, r2, r3, r4, r5}
  Root = Root
  None = None
  MaxAttempts = 2
SPECIFICATION Spec
SYMMETRY Symmetry
CHECK_DEADLOCK FALSE
INVARIANTS
  TypeOK
  SpentSecretsGone
  InvitationOpensOwnAccount
  AttemptsHaveEnd
PROPERTIES
  ActivationSettles
