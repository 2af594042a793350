SPECIFICATION FairPipelineSpec
CONSTANTS
  r1 = r1 r2 = r2 r3 = r3 r4 = r4 r5 = r5 r6 = r6
  sa = sa sb = sb NoMatch = NoMatch
  Record = {r1, r2, r3, r4, r5, r6}
  Stream = {sa, sb}
  Format = {"", "event", "message"}
  StreamOf <- MCStreamOf
  FormatOf <- MCFormatOf
  Payloads <- MCPayloads
  c1 = c1 NoCall = NoCall
  Caller = {c1}
  NewItemCap = 1
  SendBatchSize = 2
  SendBatchMaxSize = 2
  w1 = w1 NoRequest = NoRequest
  Worker = {w1}
  QueueSize = 1
  MaxAttempts = 2
  Answers = {"accepted", "lost"}
INVARIANTS LogCountIsLongest StreamOrder EntriesWellFormed FormatOfEarlierRecord
PROPERTIES ImplementsLogDelivery EventuallyDelivered
