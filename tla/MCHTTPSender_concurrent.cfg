SPECIFICATION FairSpec
CONSTANTS
  s1 = s1  s2 = s2
  NumServers = 2
  Healthy <- LastHealthy
  Senders <- TwoSenders
  MaxAttempts = 2
  RetryAfters <- OneDelay
  MaxClock = 1
INVARIANTS RateLimitReported HealthyHostReached
PROPERTIES NoPauseShortened Terminates
