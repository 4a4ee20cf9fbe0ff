SPECIFICATION FairSpec
CONSTANTS
  RINGBUFFER_SIZE = 3
  SHELL_MAX_INPUT = 4
  COLS = 4
  ROWS = 3
  PROMPT = 3
  Outputs <- MCOutputs
  KBC_SIZE = 3
  MaxKeys = 5
INVARIANTS PromptSafe PaintedOnScreen
PROPERTIES RefinesQueue KeysHandled
CHECK_DEADLOCK FALSE
