\* The whole program, from boot, with every kind of frame.  It stops when a
\* checksum hangs it.
CONSTANTS
  MAC_HEADER = 1
  IP_HEADER = 2
  ARP_HEADER = 3
  UDP_HEADER = 3
  TCP_HEADER = 4
  ICMP_HEADER = 4
  BUFFER = 6
  WORD = 16
  Frames <- MCFrames
  HostMAC = HostMAC
  HostIP = HostIP
  RouterIP = RouterIP
  BroadcastMAC = BroadcastMAC
  BroadcastIP = BroadcastIP
  ZeroMAC = ZeroMAC
  ZeroIP = ZeroIP
  NoMAC = NoMAC
  neighbour_mac = neighbour_mac
  neighbour_ip = neighbour_ip
  Neighbours <- MCNeighbours
  ARP_TABLE_SIZE = 1
  ARP_ENTRY_MAX_AGE = 2
  TIME_MOD = 8
  Timers = {"display_status", "arp_flush"}
  MaxQueue = 1
  MaxUptime = 2
SPECIFICATION Spec
CHECK_DEADLOCK FALSE
INVARIANTS AnswersRequester AnswersWhole AnswersEnd PrintedWasReceived
PROPERTIES FramesHandled TimersRun
