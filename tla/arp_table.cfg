\* Two Ethernet addresses and three senders, one of them on another network, over
\* a table of two: updates, evictions and expiries of changing mappings.
CONSTANTS
  n1 = n1  n2 = n2  n3 = n3  far = far  m1 = m1  m2 = m2
  EMPTY = zero  HOST_IP = host  ROUTER_IP = n1  BROADCAST_IP = bcast
  IPs = {host, n1, n2, far, bcast}
  LocalIPs = {host, n1, n2, bcast}
  MACs = {m1, m2, mhost, mff, m00}
  HOST_MAC = mhost  BROADCAST_MAC = mff  ZERO_MAC = m00  NoMac = nomac
  SenderIPs = {n1, n2, far, zero}
  SenderMACs = {m1, m2}
  ARP_TABLE_SIZE = 2
  ARP_ENTRY_MAX_AGE = 2
  TIME_MOD = 5
  MaxUptime = 11
SPECIFICATION Spec
SYMMETRY Symmetry

INVARIANTS TypeOK UniqueNeighbour FreshestMapping ResolvedFrameCurrent RequesterRegistered TimelyExpiry
PROPERTIES NoEarlyExpiry EvictsOldest
