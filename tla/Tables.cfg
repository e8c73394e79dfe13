CONSTANTS
  MaxI = 7
  MaxUnpack = 4
  Present <- MCPresent
  Calls <- MCCalls
  Lens <- MCLens
  Elem = {1, 2, 3}
  Order <- MCOrder
  Lengths = {1, 4, 6}
  Cutoff = 2
  Absent = Absent
  New = New
  Table = {t1, t2}
  Plain = {s}
  Function = {f}
  Nil = Nil
  String = s
  StringMeta = t2
  MaxChain = 3
  Named = {a}
  MaxInt = 2
  Objects = {o}
SPECIFICATION MCSpec
CHECK_DEADLOCK FALSE
INVARIANTS RangeResults ChecksExact SortResult SortStaysIn ReadsAndWritesAgree PairsExact
PROPERTIES GuardedTablesStay LoopsEnd
