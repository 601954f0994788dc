SPECIFICATION FairSpec
CONSTANTS
  Engines = {e1, e2}
  Timeout = 2
  MaxFaults = 1
  None = None
  Driver = Driver
INVARIANTS TypeOK OneIsObeyed
PROPERTIES DeadLeaderVacated SurvivorObeyed
