\* Code and documentation have a stamped authority rebuilt from its signed events;
\* a daemon of the older build writes in between.
SPECIFICATION Spec
CONSTANTS
  Commands = {c1, c2}
  Builds = {1, 2}
  AuthoritySchema <- MCAuthority
  CacheSchema <- MCCache
  Drafts = {d1}
  Bodies = {x}
  None = None
  MaxFaults = 0
INVARIANTS StampedMeansRebuilt
CHECK_DEADLOCK FALSE
