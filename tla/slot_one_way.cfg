SPECIFICATION FairSpec
CONSTANTS
  arm = arm
  x86 = x86
  Senders = {arm}
  Words = 3
  MaxSends = 5
  MaxBoots = 1
  Blank = Blank
INVARIANTS OneInFlight StaleByOne
PROPERTY SendReturns
