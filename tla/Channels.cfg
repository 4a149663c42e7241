CONSTANTS
  a = a
  nl = nl
  i = i
  o = o
  Ins = {i}
  Outs = {o}
  Fds = {3}
  Byte = {a, nl}
  Newline = nl
  Junk = Junk
  Size = 2
  Word = 2
  Contents <- MCContents
  Requests <- MCRequests
  Wanted = {0, 2, 3}
  Dests = {0, 1, 3, 5}
  SeekClosed = FALSE
  MaxSaid = 4
SPECIFICATION MCSpec
CHECK_DEADLOCK FALSE
INVARIANTS OwnDescriptor OutputAccounted InputTrue
PROPERTIES IsStream
