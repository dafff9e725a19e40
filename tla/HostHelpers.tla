---------------------------- MODULE HostHelpers ----------------------------
(***************************************************************************)
(* The frames the hardware tests send and how they recognise what the      *)
(* board sends (tests/hw/ethernet.py).  Bytes are integers; a Python dict  *)
(* of named fields is a record.                                            *)
(***************************************************************************)
EXTENDS Integers, Sequences, SequencesExt, FiniteSetsExt

CONSTANTS
  FPGA_MAC, BROADCAST_MAC, FPGA_IP,
  ARP_ETHERTYPE, DIAGNOSTIC_BEACON_ETHERTYPE

MIN_ETH_PAYLOAD == 46

build_frame(dst_mac, src_mac, payload, ethertype) ==
  LET missing == MIN_ETH_PAYLOAD - Len(payload)
      padded == IF missing > 0 THEN payload \o [i \in 1 .. missing |-> 0] ELSE payload
  IN  dst_mac \o src_mac \o ethertype \o padded

build_arp_request(src_mac, src_ip) ==
  build_frame(BROADCAST_MAC, src_mac,
              << 0, 1, 8, 0, 6, 4, 0, 1 >> \o src_mac \o src_ip
                \o << 0, 0, 0, 0, 0, 0 >> \o FPGA_IP,
              ARP_ETHERTYPE)

\* Trailing zero bytes go, the padding's and the packet's own.
rstrip(payload) ==
  SubSeq(payload, 1, Max({0} \union { i \in 1 .. Len(payload) : payload[i] # 0 }))

parse_frame(frame) ==
  [dst_mac   |-> SubSeq(frame, 1, 6),
   src_mac   |-> SubSeq(frame, 7, 12),
   ethertype |-> SubSeq(frame, 13, 14),
   payload   |-> rstrip(SubSeq(frame, 15, Len(frame)))]

\* An ARP payload of at least 28 bytes with these addresses and opcode 2.
IsArpReply(payload, target_mac, target_ip) ==
  /\ Len(payload) >= 28
  /\ SubSeq(payload, 1, 8) = << 0, 1, 8, 0, 6, 4, 0, 2 >>
  /\ SubSeq(payload, 9, 14) = FPGA_MAC
  /\ SubSeq(payload, 15, 18) = FPGA_IP
  /\ SubSeq(payload, 19, 24) = target_mac
  /\ SubSeq(payload, 25, 28) = target_ip

is_gratuitous_arp_reply(parsed) ==
  /\ parsed.src_mac = FPGA_MAC
  /\ parsed.dst_mac = BROADCAST_MAC
  /\ parsed.ethertype = ARP_ETHERTYPE
  /\ IsArpReply(parsed.payload, BROADCAST_MAC, FPGA_IP)

is_arp_reply_to(parsed, dst_mac, dst_ip) ==
  /\ parsed.src_mac = FPGA_MAC
  /\ parsed.dst_mac = dst_mac
  /\ parsed.ethertype = ARP_ETHERTYPE
  /\ IsArpReply(parsed.payload, dst_mac, dst_ip)

\* str.split(): the words between blanks.
Words(text) ==
  LET blank(i) == i \notin 1 .. Len(text) \/ text[i] = 32
      starts == { i \in 1 .. Len(text) : ~blank(i) /\ blank(i - 1) }
      end(i) == Min({ j \in i .. Len(text) : blank(j + 1) })
      start(k) == CHOOSE i \in starts : Cardinality({ j \in starts : j < i }) = k - 1
  IN  [k \in 1 .. Cardinality(starts) |-> SubSeq(text, start(k), end(start(k)))]

HasEquals(field) == \E i \in 1 .. Len(field) : field[i] = 61
EqualsAt(field) == CHOOSE i \in 1 .. Len(field) :
                     field[i] = 61 /\ \A j \in 1 .. i - 1 : field[j] # 61
Key(field) == SubSeq(field, 1, EqualsAt(field) - 1)
Value(field) == SubSeq(field, EqualsAt(field) + 1, Len(field))

ExpectedKeys ==  \* IP MAC RX RXQ RXP TXD ARP UDP UP
  << << 73, 80 >>, << 77, 65, 67 >>, << 82, 88 >>, << 82, 88, 81 >>, << 82, 88, 80 >>,
     << 84, 88, 68 >>, << 65, 82, 80 >>, << 85, 68, 80 >>, << 85, 80 >> >>

ExpectedIp == << 49, 57, 50, 46, 49, 54, 56, 46, 48, 48, 49, 46, 49, 48, 48 >>
ExpectedMac == << 48, 50, 48, 48, 48, 48, 48, 48, 48, 48, 48, 49 >>

\* ARTY IP=192.168.001.100 MAC=020000000001 and a blank
ARTY_BEACON_PREFIX ==
  << 65, 82, 84, 89, 32, 73, 80, 61 >> \o ExpectedIp
    \o << 32, 77, 65, 67, 61 >> \o ExpectedMac \o << 32 >>

HexDigits == 48 .. 57 \union 65 .. 70

is_beacon_payload(payload) ==
  LET fields == Words(payload)
  IN  /\ IsPrefix(ARTY_BEACON_PREFIX, payload)
      /\ Len(fields) = 10 /\ fields[1] = << 65, 82, 84, 89 >>
      /\ \A i \in 2 .. 10 : HasEquals(fields[i])
      /\ [i \in 1 .. 9 |-> Key(fields[i + 1])] = ExpectedKeys
      /\ Value(fields[2]) = ExpectedIp /\ Value(fields[3]) = ExpectedMac
      /\ \A i \in 4 .. 10 : /\ Len(Value(fields[i])) = 8
                            /\ ToSet(Value(fields[i])) \subseteq HexDigits

\* What test_periodic_beacon waits for.
is_beacon(parsed) ==
  /\ parsed.src_mac = FPGA_MAC
  /\ parsed.dst_mac = BROADCAST_MAC
  /\ parsed.ethertype = DIAGNOSTIC_BEACON_ETHERTYPE
  /\ is_beacon_payload(parsed.payload)
=============================================================================
