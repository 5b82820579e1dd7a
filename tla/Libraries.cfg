SPECIFICATION LibrariesSpec
CONSTANTS
  k1 = k1  k2 = k2  k3 = k3  k4 = k4  v1 = v1  v2 = v2
  x1 = x1  x2 = x2  x3 = x3  m1 = m1  m2 = m2  a1 = a1  a2 = a2
  NBuckets = 2  Steps = 2
  KeyPtrs <- MCKeyPtrs  Values <- MCValues  Names <- MCNames
  NameOf <- MCNameOf  BucketOf <- MCBucketOf  FreePairs <- MCFreePairs
  Readds = FALSE  Absent = Absent
  Nodes <- MCNodes  HmapMaps <- MCMaps  Arrays <- MCArrays  HashOf <- MCHashOf
  Tmp = Tmp  Null = Null  Reserves = {4}
  MaxPrealloc = 2  SdsTexts <- MCSdsTexts  Formats <- MCFormats  CharSets <- MCCharSets
  Indexes <- MCIndexes  Lengths = {0, 1, 2, 4}  MaxSds = 3
  BufTexts <- MCBufTexts  StaticTexts <- MCStaticTexts  Sizes = {1, 3, 6}  DefaultBufSize = 2  MaxStrbuf = 6
  DsTexts <- MCDsTexts  CodePoints <- MCCodePoints  Files <- MCFiles  MinAllocated = 3  MaxDs = 4
SYMMETRY MCSymmetry
INVARIANTS AccessesStayInside OwnsWhatItHolds
PROPERTIES HashIsDictionary MapsAreNodeSets ImplementsText
