CONSTANTS
  Server = p
  Client = q
  Procs <- Both
  Uses <- Roles
  Stranger = s
  Addresses = {lan}
  Loopback = {}
  Messages <- Texts
  MaxMessage = 2
  MaxHandles = 2
  MaxCreated = 2
  DefaultTimeout = 2
  MaxTimeout = 2
  MaxConns = 1
  MaxSent = 2
  MaxStrange = 2
  NotText = 3
  None = none
  Bytes = {0, 1}
  Digests <- Expected
  MaxBytes = 2
  Hosts = {a, local}
  Special = {local}
  Part = part
  Receipt = receipt
  Marker = marker
  File = file
  MaxTouches = 2
  Torn = torn
  Mains <- Sources
  Libraries <- Libs
  Paths = {f, g}
  Values = {v, w}
  Keys = {k, l}
  Strong = {k}
  MaxPlain = 2
  MaxCipher = 4
  MaxPreview = 1
  MaxCalls = 2
  End = end
  FileNames = {1, 2, 3}
  Unsafe = {3}
  Contents <- Written
  Trees <- Starts
  MaxEntries = 2
  MaxDepth = 1
  MaxFile = 2
  MaxTotal = 3
  MaxNodes = 4
  MaxTroubles = 2
  Makers = {p, q}
  Baselines = {b1}
  Observations = {o1, o2}
  Junk = junk
  MaxEdits = 2
  MaxFaults = 1
SPECIFICATION MCSpec
INVARIANTS
  OnlyWhatWasSent
  
  FetchIsWhole
  NotPreserved
  EncryptionIsWhole
  ObservedAsHeld
  BundlesAreWhole
PROPERTY OthersKept
CHECK_DEADLOCK FALSE
