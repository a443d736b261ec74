\* An owner and two names that are registered, by agents or humans, promoted,
\* deleted and registered again; one provider.
SPECIFICATION Spec
CONSTANTS
  owner = owner
  x = x
  y = y
  v = v
  Names = {owner, x, y}
  Owner = owner
  Providers = {v}
  Reads <- MCReads
  Requests <- MCRequests
CHECK_DEADLOCK FALSE
INVARIANTS OwnerIsFixed ProvidersComeFirst
PROPERTIES PromotionsAreDecided IdentitiesEnd
