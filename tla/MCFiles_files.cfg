\* Three threads preview two phrases through two slots, sweeping as they go, and add
\* and delete two clips; the process is killed once.
SPECIFICATION Spec
CONSTANTS
  None = None
  Thread = {t1, t2, t3}
  Phrase = {x1, x2}
  Clip = {c1, c2}
  Slots = 2
  MaxKills = 1
INVARIANTS
  TypeOK
  SlotsComeBack
  FoundIsServed
  ServedIsWhole
  RowHasFile
  FileHasRow
SYMMETRY Alike
