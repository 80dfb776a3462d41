------------------------------ MODULE MCCapture ------------------------------
(* A small instance of Capture: two addresses and two ports to filter, two     *)
(* slots for each, a defaults file that names itself between two of its lines, *)
(* and frames around the boundaries of the dissector.                          *)
EXTENDS Capture, TLC

CONSTANTS eth0, conf, dir, tcp

A1 == <<10, 1, 2, 3>>
A2 == <<10, 1, 2, 9>>
Local == <<10, 9, 9, 9>>

Opt(k, a, f) == [key |-> k, arg |-> a, form |-> f]

ConfLines == <<Opt("c", A1, "line"), Opt("p", 80, "spaced"),
               Opt("f", conf, "line"), Opt("p", 443, "line")>>

MCOptions ==
    {Opt("A", m, "short") : m \in {2, 3, 4, 5, 6}}
      \cup {Opt("c", a, "short") : a \in {A1, A2, NoAddress}}
      \cup {Opt("p", k, "short") : k \in {80, 65536 + 443, -1}}
      \cup {Opt("n", k, "short") : k \in {1}}
      \cup {Opt("s", 200, "short"), Opt("s", 60, "long"), Opt("s", 34, "long")}
      \cup {Opt("w", NULL, "short"), Opt("e", NULL, "long"), Opt("h", NULL, "short"),
            Opt("m", Local, "short"), Opt("d", dir, "short"),
            Opt("B", tcp, "short"), Opt("i", eth0, "short"), Opt("i", 2, "short"),
            Opt("f", conf, "short"), Opt("x", 0, "short")}
      \cup {ConfLines[i] : i \in DOMAIN ConfLines}

MCFiles == conf :> ConfLines

Inet(a) == [family |-> "INET", addr |-> a]
Inet6 == [family |-> "INET6", addr |-> NULL]

MCAdapters == <<[name |-> "lo", addresses |-> <<Inet6, Inet(Local), Inet(A2)>>],
                [name |-> "any", addresses |-> <<Inet6>>]>>

Frame(len, iplen, proto, off, src, dst, dport) ==
    [etype |-> "IP", ver |-> 4, ihl |-> 5, iplen |-> iplen, proto |-> proto,
     off |-> off, src |-> src, dst |-> dst, sport |-> 9, dport |-> dport, len |-> len]

MCFrames ==
    {Frame(200, 186, "TCP", 5, A1, Local, 80),     \* data to the local host
     Frame(200, 186, "TCP", 8, A2, Local, 443),
     Frame(60, 40, "TCP", 5, A2, Local, 80),       \* an acknowledgement, padded
     Frame(60, 44, "TCP", 0, Local, A2, 80),
     Frame(60, 30, "UDP", 0, A2, Local, 443),
     Frame(60, 40, "ICMP", 0, A2, Local, 0),
     [Frame(60, 46, "TCP", 5, A1, A2, 80) EXCEPT !.etype = "ARP"],
     [Frame(80, 66, "UDP", 0, A1, Local, 443) EXCEPT !.ihl = 6]}

MCFilters == tcp :> {f \in MCFrames : f.etype = "IP" /\ f.proto = "TCP"}

MCStale == {<<80, 80>>, <<1, 1>>}
MCStack == {Local, <<255, 255, 255, 255>>}
==============================================================================
