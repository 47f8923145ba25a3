SPECIFICATION Spec
CONSTANTS
  initial = initial
  zero = zero
  alice = alice
  bob = bob
  t1 = t1
  t2 = t2
  athena = athena
  andrew = andrew
  host = host
  None = None
  NoRealm = NoRealm
  Name <- MCName
  InitialName = initial
  NewNames <- MCNewNames
  Principal = {alice, bob}
  Service <- MCService
  MaxCaches = 3
  MaxCreds = 5
  MaxObjects = 8
  Thread = {t1, t2}
  Does <- MCDoes
  Owner = {alice}
  File = initial
  Realm = {athena, andrew}
  Home = athena
  Host = {host}
  MaxDepth = 10
  Kdcs = 1
  Retry = 1
  MaxInbox = 1
  MaxCalls = 2
INVARIANTS
  Krb4TypeOK
  CallsNestSoFar
  
  SearchFinds
  ListingIsWhole
PROPERTIES
  CallsEnd
CHECK_DEADLOCK FALSE
