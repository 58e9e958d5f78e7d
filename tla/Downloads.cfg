SPECIFICATION Spec
CONSTANTS
  People = {ann, bob}
  Passwords = {w1}
  Clients = {c1, c2}
  MaxRequests = 4
  MaxFaults = 1
  Readers = {ann}
  MaxAttempts = 1
CHECK_DEADLOCK FALSE
INVARIANTS
  SessionsTellTheTruth
  SpentOnce
  GuessesAreLimited
