\* Two services at a time read and change the policy of two tools; one crash.
SPECIFICATION Spec
CONSTANTS
  s1 = s1
  s2 = s2
  Services = {s1, s2}
  Catalog <- MCCatalog
  Group <- MCGroup
  Profiles <- MCProfiles
  MaxEdits = 2
  MaxCrashes = 1
SYMMETRY Symmetry
INVARIANT PolicyIsEnforced
