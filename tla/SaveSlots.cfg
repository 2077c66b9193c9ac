SPECIFICATION Spec
CONSTANTS
  Discs = 2
  MENU_SLOT_COUNT = 2
  MaxSaves = 2
  MaxWrites = 1
  MaxFaults = 1
INVARIANTS MemoryCardIsShared RecentIsLastDisc
PROPERTY StateFindsItsDisc
