SPECIFICATION FairSpec
CONSTANTS
  Conns = {c1, c2}
  c1 = c1
  c2 = c2
  Remote = {c2}
  Streams <- Two
  None = None
INVARIANTS WatchesDie Served 
 
