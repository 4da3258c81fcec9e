SPECIFICATION MainSpec
CONSTANTS
  sub = sub
  dial = dial
  rest1 = rest1
  rest2 = rest2
  quit = quit
  Call = {sub, dial, rest1, rest2, quit}
  Dials = {}
  Kind <- MCKind
  CmdCap = 1
  EvtCap = 2
  Startup <- MCStartup
  Subscribes = {sub}
  Quit = quit
PROPERTIES StartupCompletes
CHECK_DEADLOCK FALSE
