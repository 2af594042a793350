SPECIFICATION FairSpec
CONSTANTS
  q1 = q1 q2 = q2 q3 = q3 w1 = w1 w2 = w2 NoRequest = NoRequest
  Request = {q1, q2, q3}
  EntriesOf <- MCEntriesOf
  Worker = {w1}
  QueueSize = 1
  MaxAttempts = 2
  Answers = {"accepted", "refused"}
  MaxEpoch = 2
INVARIANTS AckedWasStored
