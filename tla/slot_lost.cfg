SPECIFICATION Spec
CONSTANTS
  arm = arm
  x86 = x86
  Senders = {arm, x86}
  Words = 2
  MaxSends = 2
  MaxBoots = 1
  Blank = Blank
INVARIANT NothingLost
