SPECIFICATION Spec
CONSTANTS
  Null = null
  h1 = h1
  h2 = h2
  s1 = s1
  s2 = s2
  s3 = s3
  m1 = m1
  m2 = m2
  m3 = m3
  c1 = c1
  c2 = c2
  Handles = {h1, h2}
  Services = {s1, s2, s3}
  Methods = {m1, m2, m3}
  Contexts = {c1, c2}
  Names <- MCNames
  ServiceName <- MCServiceName
  MethodName <- MCMethodName
  Hashes <- MCHashes
  NameHash <- MCNameHash
  MayRegister <- TwoHandles
  MayAdd <- TwoServices
  MaySet <- OwnContext
  MayCall = {m1}
INVARIANTS TypeOK RegisteredStays PathFindsTheMethod EveryListEnds
PROPERTY RedirectedOnlyToNew
