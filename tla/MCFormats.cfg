CONSTANTS
  MAX_ETH_PAYLOAD_BYTES = 96
  FPGA_MAC <- MCFpgaMac
  BROADCAST_MAC <- MCBroadcast
  FPGA_IP <- MCFpgaIp
  ARP_ETHERTYPE <- MCArpType
  DIAGNOSTIC_BEACON_ETHERTYPE <- MCBeaconType
  Buffers <- MCBuffers
  Views <- MCViews
  Hosts <- MCHosts
  Counts <- MCCounts
SPECIFICATION Spec
INVARIANTS
  DatagramIsRead
  ViewsNest
  HostRecognisesFrames
  BeaconTellsCounts
CHECK_DEADLOCK FALSE
