CONSTANTS
  Files <- MC_Files
  Root <- MC_Root
  Keys <- MC_Keys
  KeyOrder <- MC_KeyOrder
  IncludeKeys <- MC_IncludeKeys
  Refs <- MC_Refs
  Fragments <- MC_Fragments
  NoFragment = NoFragment
  MaxDepth = 3
SPECIFICATION Spec
INVARIANT AcyclicIncludesLoadedOnce
INVARIANT IncludesFollowCallers
INVARIANT LoadMatchesReference
CHECK_DEADLOCK FALSE
