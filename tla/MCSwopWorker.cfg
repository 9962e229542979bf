\* Two requests at a time: occupied codes, racing phones, and a code that is reused.
SPECIFICATION MCSpec
CONSTANTS
  Codes = {c1, c2}
  SpareCode = c2
  Clients = {a}
  Installs = {i1}
  NoInst = NoInst
  Values = {v1, v2}
  NoValue = NoValue
  NoClient = NoClient
  TTLs = {1}
  MaxFailures = 1
  MaxSessions = 2
  MaxTime = 2
  Slots = {r1, r2}
  MaxTries = 2
  NoCode = NoCode
INVARIANTS OneSessionPerRequest IssuedCodesMatch ToldWinnerWins
PROPERTIES EveryRequestEnds
