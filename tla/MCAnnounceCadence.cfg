CONSTANTS
  RxSlots = 2
  TxSlots = 2
  CounterMod = 2
  MAX_ETH_PAYLOAD_BYTES = 6
  TX_FRAME_BODY_BYTES = 10
  FPGA_MAC <- MCFpgaMac
  BROADCAST_MAC <- MCBroadcast
  FPGA_IP <- MCFpgaIp
  ARP_ETHERTYPE <- MCArpType
  DIAGNOSTIC_BEACON_ETHERTYPE <- MCBeaconType
  ArpRequestFields <- MCRequestFields
  ArpReplyFields <- MCReplyFields
  BeaconText <- MCBeaconText
  BEACON_INTERVAL_CYCLES = 12
  GRATUITOUS_ARP_INTERVAL_CYCLES = 60
  Packets <- MCPackets
  MaxArrivals = 3
SPECIFICATION EnvSafety
PROPERTIES
  AnnouncedEveryInterval
