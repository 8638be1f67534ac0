\* An entry written just before the wrap of arp_time is never removed.
CONSTANTS
  n1 = n1  n2 = n2  n3 = n3  far = far  m1 = m1  m2 = m2
  EMPTY = zero  HOST_IP = host  ROUTER_IP = n1  BROADCAST_IP = bcast
  IPs = {host, n1, n2, n3, bcast}
  LocalIPs = {host, n1, n2, n3, bcast}
  MACs = {m1, mhost, mff, m00}
  HOST_MAC = mhost  BROADCAST_MAC = mff  ZERO_MAC = m00  NoMac = nomac
  SenderIPs = {n1, n2, n3, zero}
  SenderMACs = {m1}
  ARP_TABLE_SIZE = 2
  ARP_ENTRY_MAX_AGE = 2
  TIME_MOD = 5
  MaxUptime = 8
SPECIFICATION Spec
INVARIANT OutdatedRemoved
