\* Two harts, three nested calls, interrupt handlers that call enter too.
SPECIFICATION FairSpec
CONSTANTS
  MAX_HARTS = 2
  MAX_NEST = 3
INVARIANTS
  MaskKept
PROPERTIES
  ImplementsExclusion
  SectionEnds
