SPECIFICATION TimerSpec
CONSTANTS
  lsa = lsa
  NoOne = NoOne
  Principal = {lsa}
  Lsa = lsa
  MaxLife = 5
  UseKrb4 = TRUE
  UpdateDisplayTime = 2
INVARIANTS
  TimerTypeOK

  
