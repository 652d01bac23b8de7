\* the bound of Start stops the system after an overlap
SPECIFICATION Spec
CHECK_DEADLOCK FALSE
CONSTANTS
  Errors = 1
  Cases = {{"errors"}, {"bits", "errors", "two_threads"}, {"two_threads", "errors"}}
INVARIANT RightRegister
INVARIANT TransmitterOn
INVARIANT TypeKnown
