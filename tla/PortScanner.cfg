SPECIFICATION ScannerFairSpec
CONSTANTS
  Ranges <- MCRanges  PortTexts <- MCPortTexts  Threads = {0, 2, 9}
  Octets = 3  OctetBits = 1  MaxThreads = 3  MaxScans = 2  MaxHelpers = 2
CHECK_DEADLOCK FALSE
PROPERTIES ThreadsAreCounted WholeRangeOnce ScanEnds
