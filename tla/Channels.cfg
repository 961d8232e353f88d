CONSTANTS
  s1 = s1  s2 = s2
  c1 = c1  c2 = c2
  r1 = r1  r2 = r2  r3 = r3
  j1 = j1  j2 = j2
  imap1 = imap1  imap2 = imap2  graph1 = graph1  graph2 = graph2
  Senders = {s1, s2}
  NoSender = NoSender
  Replies = {r1, r2, r3}
  ImapBoxes = {imap1, imap2}
  GraphBoxes = {graph1, graph2}
  PlatformBox = PlatformBox  Infobip = Infobip  NoBox = NoBox
  Calls = {c1, c2}
  MaxSent = 2
  Jobs = {j1, j2}
  Batch = 1
  Overlap = 1
  MaxConnections = 2
  MaxRows = 2
  MaxChanges = 2
  MaxFailures = 1
  MaxFaults = 2
SPECIFICATION MCSpec
CHECK_DEADLOCK FALSE
SYMMETRY MCSymmetry
INVARIANTS  NeverStuckBehindConflict 
  
