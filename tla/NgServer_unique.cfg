SPECIFICATION Spec
CONSTANTS
  callsHolderSize = 2
  Ids = {i1, i2, i3}
  ZeroId = zero
  NoContext = nocontext
  Empty = empty
  NoReply = noreply
  unary = unary
  streaming = streaming
  bare = bare
  stub = stub
  c1 = c1
  c2 = c2
  Methods <- MCMethods
  Contexts <- MCContexts
  WithCallback <- MCWithCallback
  Streaming <- MCStreaming
  ContextOf <- MCContextOf
  MethodOf <- MCMethodOf
  Statuses = {"Ok", "WillRespondLater", "WillContinueLater", "Failed"}
  Malloc = TRUE
  Reusable = {}
SYMMETRY IdSymmetry
INVARIANTS TypeOK TableSound ValidContextIsFree OthersKeepTheirPlace OngoingMeansThisContext AlwaysRoom HeldRequestIsOngoing AnswerCarriesOwnData
PROPERTIES DeferredKeepsRequest OnlyReplacedCallsLeak EndOfCallIsLast ImplementsLife
