SPECIFICATION StreamSpec
CONSTANTS
  MaxLength = 2
  MaxCount = 2
  MaxFailures = 1
INVARIANT EofReported
CHECK_DEADLOCK FALSE
