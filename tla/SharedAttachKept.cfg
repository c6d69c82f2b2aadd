SPECIFICATION LiveAttachSpec
CONSTANTS
  Processes = {b1, b2}
  Handles = {h1, h2, h3}
  Invalid = Invalid
PROPERTY AttachReturns
CHECK_DEADLOCK FALSE
