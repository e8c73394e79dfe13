CONSTANTS
  Path = {"p"}
  Chunk <- MCChunk
  Formats <- MCFormats
  SeekArgs <- MCSeekArgs
  Slot = {f1, f2}
  MaxLength = 4
SYMMETRY SlotSymmetry
SPECIFICATION Spec
INVARIANTS TypeOK WrittenIsStored ReadsWhatWasWritten
PROPERTY ClosedIsInert
