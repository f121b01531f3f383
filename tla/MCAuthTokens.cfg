SPECIFICATION AuthSpec
CONSTANTS
  Request = {q1, q2}
  MaxToken = 3
INVARIANTS
  AuthTypeOK
  LogoutIsFinal
