SPECIFICATION Spec
CONSTANTS
  MaxOutput = 0
  MaxBeats = 1
  SlowTelegram = TRUE
  Orphans = FALSE
PROPERTIES
  ResultWins
