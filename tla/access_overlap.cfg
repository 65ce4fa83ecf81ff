\* Two requests at a time on two users, their sessions, households and members
SPECIFICATION Spec
CONSTANTS
  kim = kim  lee = lee  w1 = w1  w2 = w2  None = None
  Emails <- TwoEmails
  Workers <- TwoWorkers
  MaxActiveTokens = 2
  LastSecond = 1
  MaxRows = 4
  Budget = 6
SYMMETRY Interchangeable
INVARIANT TypeOK
INVARIANT DuplicatesOnlyWhereRaced
INVARIANT OwnerEnters
INVARIANT DeletedAreEmpty
PROPERTY SoloSignInCaps
CHECK_DEADLOCK FALSE
