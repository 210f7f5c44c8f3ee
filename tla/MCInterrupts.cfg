SPECIFICATION Spec
CONSTANTS
  Readers = {r1, r2}
  Writers = {w1, w2}
  Printers = {k1}
  None = None
  Intr = Intr
  INPUT_BUF = 3
  UART_TX_BUF_SIZE = 2
  CUINT = 6
  FIFO = 3
  Asks = {1, 2}
  Typed = {"a", "return", "D", "H", "U"}
  Budgets <- MCBudgets
  r1 = r1
  h0 = h0
  h1 = h1
  p1 = p1
  p2 = p2
  Hart = {h0, h1}
  Boot = h0
  Procs = {p1, p2}
  Nobody = Nobody
  TicksLock = TicksLock
  TUINT = 4
  Naps = {1, 2}
  FirstTick = 3
  Setups <- MCSetups
INVARIANTS NoOverrun LocksSound InterruptsRestored SleepsLongEnough
PROPERTIES IsTerminal OutputIsFifo ConsoleCallsReturn SleepersReturn
CHECK_DEADLOCK FALSE
