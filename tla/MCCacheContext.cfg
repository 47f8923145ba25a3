SPECIFICATION DataSpec
CONSTANTS
  initial = initial
  zero = zero
  one = one
  alice = alice
  krbtgt = krbtgt
  None = None
  Name <- MCName
  InitialName = initial
  NewNames <- MCNewNames
  Principal = {alice}
  Service = {krbtgt}
  MaxCaches = 3
  MaxCreds = 2
INVARIANTS
  ListMatchesRegistry
  DataTypeOK
  CredsOwnedOnce
  NextIdsFresh
PROPERTIES
  DefaultStays
  ChangesAreStamped
