\* One client, whose request asks for keep-alive.
CONSTANTS
  c1 = c1
  Clients = {c1}
  MaxFds = 2
SPECIFICATION Spec
INVARIANT KeepAliveIsKept
