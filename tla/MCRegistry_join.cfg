SPECIFICATION RegistrySpec
CONSTANTS
  c1 = c1
  c2 = c2
  s1 = s1
  s2 = s2
  s3 = s3
  t1 = t1
  t2 = t2
  Nobody = nobody
  Client <- Clients
  Session <- Sessions
  Tunnel <- Tunnels
  MaxStreams = 2
INVARIANT JoinedToOwnStream
CHECK_DEADLOCK FALSE
