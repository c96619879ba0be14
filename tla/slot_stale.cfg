SPECIFICATION Spec
CONSTANTS
  arm = arm
  x86 = x86
  Senders = {arm}
  Words = 2
  MaxSends = 3
  MaxBoots = 1
  Blank = Blank
INVARIANT Intact
