\* As RegAccess, with writes to unaligned addresses.
CONSTANTS
  Clients = {c1}
  OCCP_WORKER_CONFIG_SIZE = 8
  Requests <- MCUnaligned
  Values = {0, 1}
  NoOne = NoOne
  NotYet = NotYet
SPECIFICATION Spec
PROPERTY StatusReported
