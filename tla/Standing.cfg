\* Comments and documentation protect orchestrators from agents; activation does not.
SPECIFICATION Spec
CONSTANTS
  owner = owner
  x = x
  y = y
  v = v
  Names = {owner, x, y}
  Owner = owner
  Providers = {}
  Reads <- MCBuiltIn
  Requests <- MCPlainRequests
CHECK_DEADLOCK FALSE
PROPERTIES StandingKept
