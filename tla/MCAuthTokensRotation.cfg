SPECIFICATION AuthSpec
CONSTANTS
  Request = {q1, q2}
  MaxToken = 3
INVARIANT
  OneTokenPerSession
