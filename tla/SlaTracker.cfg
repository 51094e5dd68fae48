\* A window of four, half of it as the rate, two samples, two requests.
SPECIFICATION Spec
CONSTANTS
  Requests = {r1, r2}
  WindowSize = 4
  SamplesToCollect = 2
  RateInverse = 2
INVARIANT WindowIsRecent
PROPERTY CollectsOnBreachRate
PROPERTY EpisodeBudget
