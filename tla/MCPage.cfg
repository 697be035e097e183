\* Lines of 3 and 129 dots, strips narrower, as wide, in the next 128-bit word
\* and in the one after it.  main stops when the page is sent.
SPECIFICATION PageSpec
CONSTANTS
  Levels = {60, 200}
  Pictures <- MCPictures
  Envs <- MCEnvs
CHECK_DEADLOCK FALSE
INVARIANTS TypeOK ErrorsStaySmall PlanesFitStrip PaddingIsBlank
PROPERTIES StreamingImplementsWhole PageEnds
