SPECIFICATION ClientFairSpec
CONSTANTS
  Names = {1, 2, 3}  Mine = {1}  Dir <- MCDir  Texts <- MCTexts
  Lengths = {1}  ShortFiles = FALSE  Retries = 2  PageSize = 1
  None = None  Ok = Ok
PROPERTIES KeepsPromise CallEnds HealthyCallReturns
CHECK_DEADLOCK FALSE
