\* Two workers share two connectors, so a claim meets the lease of the other
\* one; one of them is paused, deleted and copied from; a worker vanishes at any
\* point.
SPECIFICATION Spec
CONSTANTS
  Connector = {c1, c2}
  Managed = {c1}
  Worker = {w1, w2}
  None = None
  MaxItem = 1
  MaxPauses = 1
  MaxFaults = 1
INVARIANTS
  NoGap
PROPERTIES
  PauseStops
  Served
