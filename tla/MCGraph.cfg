SPECIFICATION GraphSpec
CONSTANTS
  p1 = p1 p2 = p2 k1 = k1 k2 = k2 c1 = c1 c2 = c2
  Parents <- TwoParents
  Kids <- TwoKids
  Cats <- TwoCats
  Null = Null
  Zero = Zero
  Absent = Absent
  NoCat = NoCat
  Mappings <- Annotations
  Stores <- Tables
  Payloads <- Graphs
  NoPayload = NoPayload
  MaxEdits = 3
PROPERTIES AttachmentsArrive PivotIsTheCollection NoWriteIsLost CommitSettles GraphIsWritten SavingAgainChangesNothing
CHECK_DEADLOCK FALSE
