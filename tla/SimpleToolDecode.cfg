SPECIFICATION FairSpec
CONSTANTS
  NHeads = 3
  Token <- MCToken
  Spoilt = Spoilt
  NCells = 12
  OpenId <- MCOpenId
  GenToken <- MCGenToken
  ColdPrompts <- MCColdPrompts
  HotPrompts <- MCHotPrompts
  MaxGenBytes <- MCMaxGenBytes
  NCtx = 6
  MaxCold = 3
  DefaultGen = 4
INVARIANTS
  TypeOK
  CacheCoherent
  ContextExact
  PoolExact
  OnlyExtendRefused
  FullOnlyInTheLoop
  WithinContext
PROPERTIES
  ResetRecovers
  PrimedThenExtends
  ImplementsStateless
  EveryRequestAnswered
