CONSTANTS
  RxSlots = 2
  TxSlots = 1
  CounterMod = 2
  MAX_ETH_PAYLOAD_BYTES = 6
  TX_FRAME_BODY_BYTES = 10
  FPGA_MAC <- MCFpgaMac
  BROADCAST_MAC <- MCBroadcast
  FPGA_IP <- MCFpgaIp
  ARP_ETHERTYPE <- MCArpType
  DIAGNOSTIC_BEACON_ETHERTYPE <- MCBeaconType
  ArpRequestFields <- MCRequestFields
  ArpReplyFields <- MCReplyFields
  BeaconText <- MCBeaconText
  BEACON_INTERVAL_CYCLES = 12
  GRATUITOUS_ARP_INTERVAL_CYCLES = 24
  Packets <- MCMorePackets
  MaxArrivals = 2
SPECIFICATION EnvSpec
INVARIANTS
  CountsAddUp
PROPERTIES
  StreamedParseIsParse
  QuietCadence
  RxNeverBlocked
