CONSTANTS
  RxSlots = 2
  TxSlots = 2
  CounterMod = 4
  MAX_ETH_PAYLOAD_BYTES = 5
  TX_FRAME_BODY_BYTES = 17
  FPGA_MAC <- MCFpgaMac
  BROADCAST_MAC <- MCBroadcast
  FPGA_IP <- MCFpgaIp
  ARP_ETHERTYPE <- MCArpType
  DIAGNOSTIC_BEACON_ETHERTYPE <- MCBeaconType
  ArpRequestFields <- MCRequestFields
  ArpReplyFields <- MCReplyFields
  BeaconText <- MCBeaconText
  BEACON_INTERVAL_CYCLES = 40
  GRATUITOUS_ARP_INTERVAL_CYCLES = 80
  FcsBytes = 1
  PreambleCountMax = 1
  ByteIndexMod = 64
  MaxBodyLen = 31
  MIN_ETH_FRAME_BODY_BYTES = 9
  SfdIndex = 0
  IFG_NIBBLES = 3
  Frames <- MCFrames
  FirstPauses <- MCFirstPauses
  Pauses <- MCPauses
  MaxFrames = 4
SPECIFICATION EndpointSpec
INVARIANTS
  FramesAccountedFor
PROPERTIES
  AnswersRequests
  ReceivePathIsDriven
  AcceptedFramesArrive
