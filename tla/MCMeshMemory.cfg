CONSTANTS
  n1 = n1
  n2 = n2
  note1 = note1
  va = va
  Nodes = {n1, n2}
  Keys = {note1}
  NoteKey = note1
  Values = {va}
  InitialText = InitialText
  ClientIds = {1, 2, 3}
  MaxClient = 3
  NoClient = NoClient
  MaxSyncs = 2
  Unreadable = {n1}
SPECIFICATION Spec
INVARIANTS OneRunPerWriter NeverBlank
PROPERTIES SavedStateGrows OverwrittenStaysGone Converges
CHECK_DEADLOCK FALSE
