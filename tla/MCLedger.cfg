SPECIFICATION Spec
CONSTANTS
  a = a
  b = b
  s1 = s1
  s2 = s2
  s3 = s3
  c1 = c1
  c2 = c2
  Null = Null
  Path = {1, 2}
  Text <- MCText
  Sha <- MCSha
  Converter <- MCConverter
  Paragraphs <- MCParagraphs
  DatingVersions = {7}
  MaxVersions <- MCVersions
INVARIANTS
  AnchorsConsistent
  LiveTextIsContent
  AnchorLifetimes
  RangeReads
  LoopIsMatch
PROPERTIES
  IdsPermanent
  TokenNamesState
  KeepsCitations
