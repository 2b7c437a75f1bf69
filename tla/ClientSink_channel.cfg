CONSTANTS
  MetaSize = 3
  QueueCap = 2
  Threads = {t1, t2}
  SinkMaxErrors = 1
  MaxLen = 2
  MaxMsgs = 2
  MaxInits = 3
  Modules = {TRUE, FALSE}
  SinkKinds = {"unix", "syslog"}
  MaxStarts = 2
  MayStop = TRUE
  RawUsers = {r}
  Batchers = {b}
  SyslogUsers = {s}
  Facilities = {1, 23}
  Priorities = {3}
  Alone = t1
  Scenarios = {"threads", "pingers", "pinging", "traffic", "syslog"}
SPECIFICATION MCSpec
INVARIANTS AckIsForThisPing StopIsPrompt
PROPERTIES IsLogChannel CallsReturn SentIsRead
CHECK_DEADLOCK FALSE
