SPECIFICATION FairSpec
CONSTANTS
  arm = arm
  x86 = x86
  Nowhere = Nowhere
  Free = Free
  Blank = Blank
  NUMBER_OF_HANDLES = 2
  Words = 1
  MaxSends = 2
  MaxBoots = 2
INVARIANTS OneToken ArmMute NewerByOne
PROPERTIES NoneLostInTransit LossIsFinal RendezvousSpec SendReturns
CHECK_DEADLOCK FALSE
