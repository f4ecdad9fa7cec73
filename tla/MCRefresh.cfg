SPECIFICATION FairSpec
CONSTANTS
  a = a
  b = b
  s1 = s1
  s2 = s2
  s3 = s3
  c1 = c1
  c2 = c2
  t1 = t1
  t2 = t2
  t3 = t3
  p1 = p1
  p2 = p2
  Null = Null
  Path = {1}
  Text <- MCText
  Sha <- TwoShas
  Converter <- MCConverter
  Paragraphs <- TwoParagraphs
  Caller = {t1, t2, t3}
  ProcessOf <- ThreeCallers
  Tool <- TwoTools
  Other = {1, 2}
  Faults = {"config", "corpus", "read", "manuscript", "embed", "crash"}
  MaxEdits = 1
  MaxCalls = 3
  MaxDrops = 1
INVARIANTS
  CompleteIsCurrent
  ServedFresh
  NumbersQuoteTheirText
PROPERTIES
  RevisionNamesContent
  CallReturns
CHECK_DEADLOCK FALSE
