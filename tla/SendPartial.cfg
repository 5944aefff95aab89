SPECIFICATION Spec
CONSTANT MaxLen = 12
\* The call ends.
CHECK_DEADLOCK FALSE
INVARIANT OkMeansAll
