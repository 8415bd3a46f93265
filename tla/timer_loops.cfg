SPECIFICATION LoopsSpec
CONSTANTS
  RESET_BUFFER = 1
  SEND_COOLDOWN = 1
  RETRY = 2
  UNKNOWN_RETRY = 3
  GIVE_UP_AFTER = 7
  Day = 8
  MaxReset = 2
  MaxRaised = 2
  MaxFaults = 1
  MaxEdits = 1
  STALL_MINS = 2
  NUDGE_SPACING = 2
  NUDGE_RETRIES = 2
  MaxWorks = 2
  MaxSwitches = 2
  MaxSkips = 1
  DEBOUNCE = 1
  LATCH_GRACE = 3
  MaxStamp = 1
  MaxFlaps = 1
  MaxToggles = 1
  DAY = 2
  Start = 8
  Specs <- Orders
  MaxClock = 11
  MaxSchedules = 2
  MaxTroubles = 1
  Sources = {"main", "sub"}
  REINGEST_BATCH = 1
  MaxLines = 2
  MaxTokens = 2
  MaxUpsets = 2
INVARIANTS  ViewTrue  NudgeBudget NoRepeat OncePerSlot 
PROPERTIES UnpausedLoop StuckEscalatedLoop SlotServedLoop LedgerSettlesLoop
