CONSTANTS
  tableA = tableA
  tableB = tableB
  Inputs = {tableA, tableB}
  Table <- MCTable
  Names = {out, copy}
  RowsPerBatch = 2
  BatchLimit = 3
  FileLimit = 4
  MaxHandles = 3
  MaxOpenReaders = 2
  MaxOpenWriters = 2
  MaxWrite = 2
  Answers = {"a", "b", "long"}
  Refused = {"long"}
  MaxInputs = 2
  MaxReadings = 2
  PipeSize = 1
  Longest = 1
  Unknown = unknown
  Absent = absent
  Unlimited = max
  Word = word
  MaxBytes = 400
  RamLow = 8
  RamHigh = 40
  DeviceLow = 4
  DiskLow = 4
  DiskHigh = 16
  Slack = 1
  Seen = {}
  Asked = {}
SPECIFICATION MCSpec
INVARIANT EvidenceAlwaysValid
CHECK_DEADLOCK FALSE
