CONSTANTS
  Requests = {r1, r2, r3}
  None = None
  NumSockets = 3
  HttpSockets = 2
  QueueLen = 1
  MailboxLen = 2
  SocketResults = {TRUE, FALSE}
  BindResults = {TRUE, FALSE}
  CreateResults = {TRUE, FALSE}
  PromptReplies = FALSE
SPECIFICATION Spec
SYMMETRY Symmetry
INVARIANTS TypeOK SocketOwnership Conservation SocketFindsDescriptor TasksNeverWait
