CONSTANTS
  Requests = {r1, r2}
  None = None
  NumSockets = 3
  HttpSockets = 2
  QueueLen = 1
  MailboxLen = 2
  SocketResults = {TRUE}
  BindResults = {TRUE}
  CreateResults = {TRUE}
  PromptReplies = TRUE
SPECIFICATION Spec
INVARIANT OnlyExactAnswered
