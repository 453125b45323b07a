SPECIFICATION Spec
CONSTANTS
  callsHolderSize = 2
  Ids = {i1, i2}
  ZeroId = zero
  NoContext = nocontext
  Empty = empty
  NoReply = noreply
  unary = unary
  streaming = streaming
  bare = bare
  stub = stub
  c1 = c1
  c2 = c2
  c3 = c3
  Methods <- MCMethods
  Contexts <- CrowdedContexts
  WithCallback <- MCWithCallback
  Streaming <- MCStreaming
  ContextOf <- CrowdedContextOf
  MethodOf <- CrowdedMethodOf
  Statuses = {"Ok", "WillRespondLater", "WillContinueLater", "Failed"}
  Malloc = TRUE
  Reusable = {"ended"}
SYMMETRY CrowdedSymmetry
VIEW CrowdedView
INVARIANTS TableSound ValidContextIsFree
PROPERTY DeferredKeepsRequest
