\* Two requests of each client and three lines of its server; three lines either way
\* through the proxy; a server may write lines that are no answers, its own requests among them.
SPECIFICATION Spec
CONSTANTS
  NodeRequests = 2
  PythonRequests = 2
  Lines = 3
  Sent = 3
  Said = 3
PROPERTIES
  ClientReplies
  PythonReplies
  Transparent
  NobodyHangs
CHECK_DEADLOCK FALSE
