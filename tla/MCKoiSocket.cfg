SPECIFICATION Spec
CONSTANTS
  SOCKET_MAXNUM = 4
  Fds = {3, 4, 5, 6, 7}
  Hosts = {h1, h2}
  DPorts = {7}
  SPorts = {9}
  Addrs = {a1}
  Any = any
  Client = client
  Nobody = nobody
  MaxConns = 5
SYMMETRY MCSymmetry
INVARIANTS
  HandleIsOwn
  SelectListSound
  ChildHasListener
  SentToPeer
PROPERTIES
  IdKeepsSocket
  ServedStays
