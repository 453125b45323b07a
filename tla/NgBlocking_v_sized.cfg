SPECIFICATION Spec
CONSTANTS
  Null = null
  list = list
  tidy = tidy
  stub = stub
  Methods <- MCMethods
  Servable <- MCServable
  WithCleanup <- MCWithCleanup
  MaxLength = 2
INVARIANT SizedMeansEncodes
