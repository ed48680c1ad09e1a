SPECIFICATION Spec
CONSTANTS
  MaxPids = 3
  MaxChunks = 3
  MaxFaults = 0
PROPERTIES WireFindsDaemon
