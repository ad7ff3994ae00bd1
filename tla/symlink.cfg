SPECIFICATION Spec
CONSTANTS
  External = External
  NoProgram = NoProgram
  p1 = p1  p2 = p2  n = n  m = m  ttyS = ttyS
  Programs = {p1, p2}
  Names = {n, m}
  Ttys = {ttyS}
  Ports = {1, 2}
  Pts = {1, 2}
  Uris <- AllUris
  CommandLines <- PtyLines
  InitialFiles <- NoFiles
  Discipline = {"terminal"}
  MaxLines = 0
INVARIANT SymlinkStays
CHECK_DEADLOCK FALSE
