\* A segment of 16 units, levels and classes of both kinds, two or three classes.
SPECIFICATION Spec
CONSTANTS
  Total = 16
  Hdr = 1
  MinSize = 2
  MaxSize = 8
  Factor = 2
  ChunkHdr = 1
  AlignSize = 1
  ItemMin = 2
  ItemMaxes = {4, 5}
  SlabStep = 1
  MgrSize = 1
  ClassSize = 1
  Word = 64
  Reqs = {2, 3, 4}
  RawReqs = {1, 5}
INVARIANTS
  SegmentSound
  FailsOnlyWhenFull
  ChunksOwned
  DriftBounded
