SPECIFICATION Spec
CONSTANTS
  a = a
  b = b
  s1 = s1
  s2 = s2
  s3 = s3
  c1 = c1
  c2 = c2
  t1 = t1
  t2 = t2
  t3 = t3
  p1 = p1
  p2 = p2
  Null = Null
  Path = {1}
  Text <- MCText
  Sha <- MCSha
  Converter <- MCConverter
  Paragraphs <- MCParagraphs
  Caller = {t1}
  ProcessOf <- OneThread
  Tool <- OneTool
  Other = {1, 2}
  Faults = {"manuscript"}
  MaxEdits = 2
  MaxCalls = 3
  MaxDrops = 0
INVARIANT
  NumbersAreLive
CHECK_DEADLOCK FALSE
