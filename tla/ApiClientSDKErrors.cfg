SPECIFICATION Spec
CONSTANTS
  MaxVersion = 1
INVARIANTS EveryErrorIsSDKError
