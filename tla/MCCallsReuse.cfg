SPECIFICATION Spec
CONSTANTS
  initial = initial
  zero = zero
  alice = alice
  krbtgt = krbtgt
  host = host
  None = None
  Name <- MCName
  InitialName = initial
  NewNames <- MCNewNames
  Principal = {alice}
  Service = {krbtgt}
  MaxCaches = 2
  MaxCreds = 2
  MaxObjects = 3
INVARIANTS
  CredsOfItsCache
