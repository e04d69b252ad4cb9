SPECIFICATION FairSpec
CONSTANTS
  Stamp <- MCStamp
  Matches <- MCMatches
  MaxUsers = 1
  Name = {1, 3}
  FirstUsers = {1, 2}
  MaxMsg = 1
  MaxNews = 2
  MaxClicks = 5
  MaxLogins = 2
  None = None
INVARIANT TypeOK
INVARIANT MessagesKept
INVARIANT MessagesInOrder
INVARIANT ShownIsPage
INVARIANT PageInRange
INVARIANT ListedOnce
INVARIANT PopupCurrent
INVARIANT PromptOfLookup
PROPERTY DraftKept
PROPERTY MessagesArrive
CHECK_DEADLOCK FALSE
