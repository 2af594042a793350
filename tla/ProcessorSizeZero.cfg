SPECIFICATION FairSpec
CONSTANTS
  r1 = r1 r2 = r2 r3 = r3 r4 = r4 r5 = r5 r6 = r6 r7 = r7 r8 = r8 r9 = r9 r10 = r10
  sa = sa sb = sb NoMatch = NoMatch
  Record = {r1, r2, r3, r4, r5, r6, r7, r8, r9, r10}
  Stream = {sa, sb}
  Format = {"event", "message"}
  StreamOf <- MCStreamOf
  FormatOf <- OneFormat
  Payloads <- MCSingles
  c1 = c1 c2 = c2 NoCall = NoCall
  Caller = {c1, c2}
  NewItemCap = 1
  SendBatchSize = 0
  SendBatchMaxSize = 0
PROPERTIES EventuallySettled
