SPECIFICATION Spec
CONSTANTS
  Processes = {"bot", "script"}
  Bot = "bot"
  MaxBackups = 2
  MaxSnapshots = 4
  MaxFaults = 2
INVARIANTS TypeOK VersionHonest StartsFailOnce Deliverable PileBound ClearTraced DeliveredKept
