CONSTANTS
  Requests = {r1, r2}
  None = None
  NumSockets = 2
  HttpSockets = 2
  QueueLen = 1
  MailboxLen = 2
  SocketResults = {TRUE}
  BindResults = {TRUE}
  CreateResults = {TRUE}
  PromptReplies = TRUE
SPECIFICATION FairSpec
PROPERTIES RestartsAfterClose
