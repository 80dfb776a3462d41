------------------------------- MODULE Sector --------------------------------
(* CSector::ether (Sector.cpp): from a captured Ethernet frame to a NetPacket. *)
(* A frame is a record of the header fields the dissector reads: etype, ver,   *)
(* ihl and off (in 32-bit words), iplen, proto, src, dst, sport, dport, and    *)
(* len, its length on the wire; caplen is how much of it libpcap captured. The *)
(* bytes of the payload are left out: only where it lies is modelled.          *)
EXTENDS Integers

EthernetHeader == 14
IpHeader == 20
TcpHeader == 20
UdpHeader == 8

PACKET_TCP == 1
PACKET_UDP == 2

Larger(a, b) == IF a > b THEN a ELSE b

IpLenUnclamped(f, caplen) == f.iplen                               \* mutant
(* The datagram's length, cut to what was captured.                            *)
IpLen(f, caplen) ==
    IF f.iplen > caplen - EthernetHeader THEN caplen - EthernetHeader ELSE f.iplen

Hlen(f) == 4 * f.ihl

IsDatagram(f, caplen) ==
    /\ caplen >= EthernetHeader
    /\ f.etype = "IP"
    /\ caplen - EthernetHeader >= IpHeader
    /\ f.ver = 4
    /\ IpLen(f, caplen) >= Hlen(f)

(* Captured bytes behind the IP header.                                        *)
Transport(f, caplen) == IpLen(f, caplen) - Hlen(f)

(* The dissector answers 1: the frame is passed on. A TCP header has to be     *)
(* captured whole, a UDP header need not be captured at all.                   *)
Dissects(f, caplen) ==
    /\ IsDatagram(f, caplen)
    /\ \/ f.proto = "TCP" /\ Transport(f, caplen) >= TcpHeader
       \/ f.proto = "UDP"

HeaderLen(f) ==
    IF f.proto = "TCP" THEN Larger(4 * f.off, TcpHeader) ELSE UdpHeader

(* The ports of a UDP header that was not captured are whatever the capture    *)
(* buffer held; stale stands for those two values.                             *)
PortsOf(f, caplen, stale) ==
    IF Transport(f, caplen) >= 4 THEN <<f.sport, f.dport>> ELSE stale

Packet(f, caplen, stale) ==
    [ip_proto |-> IF f.proto = "TCP" THEN PACKET_TCP ELSE PACKET_UDP,
     ip_src   |-> f.src,
     ip_dst   |-> f.dst,
     th_sport |-> PortsOf(f, caplen, stale)[1],
     th_dport |-> PortsOf(f, caplen, stale)[2],
     length   |-> f.len - EthernetHeader,
     len_pack |-> IpLen(f, caplen),
     off_data |-> Hlen(f) + HeaderLen(f),
     len_data |-> Larger(Transport(f, caplen) - HeaderLen(f), 0)]
==============================================================================
