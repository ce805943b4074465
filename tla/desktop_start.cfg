SPECIFICATION ShellSpec
CONSTANTS
  Presses = {press}
  press = press
  Packages = {"deb", "appimage", "user flatpak", "bare", "windows"}
  MaxOutside = 1
  SlowStart = TRUE
INVARIANT FreshSession
PROPERTY WindowOpens
CHECK_DEADLOCK FALSE
