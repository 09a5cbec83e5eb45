SPECIFICATION FairSpec
CONSTANTS
  Actors = {a1, a2}
  Mortal = {a2}
  System = System
  MaxCalls = 2
  MaxRequests = 1
  MaxReplies = 2
INVARIANTS ResponsesMatch ResumedOnce NeverStranded NoLeftoverTimer CallResponseTaken
PROPERTY WaitEnds
CHECK_DEADLOCK FALSE
