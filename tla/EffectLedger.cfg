SPECIFICATION Spec
CONSTANTS
  p1 = p1
  p2 = p2
  k1 = k1
  k2 = k2
  d1 = d1
  d2 = d2
  r1 = r1
  r2 = r2
  Processes <- MCProcesses
  Keys <- MCKeys
  VersionOf <- MCVersionOf
  Payloads <- MCPayloads
  Receipts <- MCReceipts
  MaxVersion = 1
INVARIANTS
  AcknowledgedRecordsAgree
PROPERTIES
  ImplementsRegister
SYMMETRY Symmetry
