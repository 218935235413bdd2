\* Two calls of the app under way at once, two starts in all
SPECIFICATION FairSpec
CONSTANTS
  Users = {u1, u2}
  MaxStarts = 2
INVARIANTS TypeOK OnlyPendingStartsUndo OnlyLateStopsUndo
PROPERTIES StopTakesEffect EveryCallReturns
