SPECIFICATION Spec
CONSTANTS
  NHeads = 2
  Token <- MCToken
  Spoilt = Spoilt
  NCells = 12
  OpenId <- MCOpenId
  GenToken <- MCGenToken
  ColdPrompts <- MCColdPrompts
  HotPrompts <- MCHotPrompts
  MaxGenBytes <- MCMaxGenBytes
  NCtx = 6
  MaxCold = 3
  DefaultGen = 3
PROPERTIES
  ExtendPrefillsTheRest
