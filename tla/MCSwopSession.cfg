\* One code that is reused: races, lockout, takeover after expiry, alarms that come.
SPECIFICATION FairSpec
CONSTANTS
  Codes = {c1}
  Clients = {a, b}
  Installs = {i1}
  NoInst = NoInst
  Values = {v1, v2}
  NoValue = NoValue
  NoClient = NoClient
  TTLs = {1, 2}
  MaxFailures = 2
  MaxSessions = 2
  MaxTime = 4
INVARIANTS OnceInOnceOut KeysOpenOnlyTheirSession LockoutHolds AlarmCoversRecord
PROPERTIES NotEndedEarly NothingAfterDeadline ImplementsHandoff EventuallyErased
