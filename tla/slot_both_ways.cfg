SPECIFICATION FairSpec
CONSTANTS
  arm = arm
  x86 = x86
  Senders = {arm, x86}
  Words = 1
  MaxSends = 2
  MaxBoots = 2
  Blank = Blank
INVARIANTS EachMarkOnce Backpressure
PROPERTY SlotReopens
