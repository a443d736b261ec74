\* A baseline project, three builds, the second with a new schema of the authority
\* and the third with one of the cache, and two commands at a time, cut short twice.
SPECIFICATION Spec
CONSTANTS
  Commands = {c1, c2}
  Builds = {1, 2, 3}
  AuthoritySchema <- MCAuthority
  CacheSchema <- MCCache
  Drafts = {d1, d2}
  Bodies = {x}
  None = None
  MaxFaults = 2
INVARIANTS BackedUpFirst DraftsKept
PROPERTIES NeverDowngraded UpgradeCompletes
