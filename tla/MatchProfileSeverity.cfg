SPECIFICATION Spec
CONSTANTS
  sg = sg host = host base = base lab = lab u = u v = v NoSeverity = NoSeverity
  Id = {sg, host, base, lab}
  Value = {u, v}
  Profiles <- MCTwoProfiles
INVARIANTS SeverityOfRecord
