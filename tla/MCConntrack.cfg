SPECIFICATION Spec
CONSTANTS
  c1 = c1
  c2 = c2
  c3 = c3
  n1 = n1
  u1 = u1
  a1 = a1
  a2 = a2
  Conns = {c1, c2, c3}
  Clients = {n1, u1}
  NatClients = {n1}
  PrivateSubnet = {n1, u1}
  Addrs = {a1, a2}
  NoAddr = NoAddr
  NoRule = NoRule
  Privates <- MCPrivates
  Rules <- MCRules
  DstKey <- MCDstKey
  SrcKey <- MCSrcKey
  TableEntries = 4
  ExpnEntries = 3
  MaxEntries = 3
  MaxTemp = 1
  MaxIfaces = 1
INVARIANTS TypeOK TableIsSound CacheMatchesTable ClosedIsForgotten
SYMMETRY MCSymmetry
