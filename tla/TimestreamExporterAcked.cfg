SPECIFICATION Spec
CONSTANTS
  q1 = q1 q2 = q2 q3 = q3
  MetricsOf <- MCMetricsOf
  Legal = {"a", "c", "s", "m", "_", "x", "y"}
  BatchSize = 3
  Request = {q1, q2}
  MaxAttempts = 1
INVARIANTS AckedWasWritten
