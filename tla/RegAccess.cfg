\* Two processes read and write two registers of different pages and use the
\* other commands, while the module is unloaded and loaded.
CONSTANTS
  Clients = {c1, c2}
  OCCP_WORKER_CONFIG_SIZE = 8
  Requests <- MCRequests
  Values = {0, 1}
  NoOne = NoOne
  NotYet = NotYet
SPECIFICATION FairSpec
INVARIANTS SocketsSound HandlerAlone
PROPERTIES StatusReported IsRegFile CallsReturn
