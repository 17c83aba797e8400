SPECIFICATION FairSpec
CONSTANTS
  Resource = {traefik, shimiko, zonepop}
  User <- Users
  traefik = traefik
  shimiko = shimiko
  zonepop = zonepop
  Limit = 2
  MaxEdits = 2
  MaxFaults = 1
  MaxRevoked = 1
INVARIANTS TypeOK HeldAlive NoLeaks
PROPERTIES Converges
