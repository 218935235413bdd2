\* One call at a time, two starts in all
SPECIFICATION Spec
CONSTANTS
  Users = {u1}
  MaxStarts = 2
INVARIANT UpdateApplies
