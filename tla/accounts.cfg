SPECIFICATION Spec
CONSTANTS
  MaxIds = 2
  Slots <- MCSlots
  MaxClients = 1
  MaxFaults = 1
INVARIANTS TypeOK OwnSecret NoStrayClient BackedRows
