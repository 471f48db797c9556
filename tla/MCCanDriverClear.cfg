SPECIFICATION MaintenanceSpec
CONSTANTS
  Cap <- MCCap
  MaxDrops = 3
INVARIANT RingConsistent
