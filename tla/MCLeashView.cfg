SPECIFICATION FairSpec
CONSTANTS
  lsa = lsa
  alice = alice
  w1 = w1
  ui = ui
  Nobody = Nobody
  NoOne = NoOne
  Principal = {lsa, alice}
  Lsa = lsa
  Worker = {w1}
  MaxLife = 1
  UseKrb4 = FALSE
  Command = {"init", "import", "renew", "changepwd", "destroy", "menu", "exit"}
INVARIANTS
  LeashTypeOK
  MutexesHeldInPlace
PROPERTIES
  UiComesBack
  RequestsEnd
  DisplayCatchesUp
CHECK_DEADLOCK FALSE
