SPECIFICATION PlSpec
CONSTANTS
  PlClients = {c1, c2}
  PlMaxCap = 3
  PlMaxResize = 1
PROPERTY PlResizeFills
CHECK_DEADLOCK FALSE
