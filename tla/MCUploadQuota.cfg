\* Two users and two requests at a time; limits and sizes that just fit and do not.
CONSTANTS
  Users = {u1, u2}
  Slots = {s1, s2}
  Sizes = {0, 1, 2}
  Limits = {0, 1, 3}
  DefaultMax = 2
  MaxAsked = 2
  MaxFaults = 1
SPECIFICATION Spec
INVARIANTS
  TypeOK
  WithinQuota
  Accounted
PROPERTIES
  DecidedOnce
