---------------------------- MODULE MCLBServices ----------------------------
(* An instance of LBServices for TLC: two services that may want the same    *)
(* name for their managed certificates.                                      *)
EXTENDS LBServices

CONSTANTS s1, s2, up, shared, missing

PortOf(port, proto, node) == [port |-> port, proto |-> proto, node |-> node]

HTTP == PortOf(80, "TCP", 3080)
QUIC == PortOf(443, "UDP", 3443)
TLS == PortOf(443, "TCP", 3443)

\* A service without annotations.
Plain(seq) ==
    [ports |-> seq, proxy |-> Unset, protocol |-> Unset, http |-> Unset, hcproto |-> Unset,
     hcport |-> Unset, interval |-> Unset, hchttp |-> Unset, managed |-> FALSE,
     domains |-> FALSE, certName |-> Unset, certs |-> Unset, bad |-> {}]

Managed(seq, name) ==
    [Plain(seq) EXCEPT !.protocol = "https", !.managed = TRUE, !.domains = TRUE,
                       !.certName = name, !.hchttp = 2]

MCConfig ==
    [s \in Svc |->
        IF s = s1
          THEN {[Plain(<<HTTP, QUIC>>) EXCEPT !.proxy = 1, !.http = 1, !.interval = 7, !.bad = {"hchttp"}],
                [Plain(<<HTTP>>) EXCEPT !.protocol = "http", !.bad = {"hchttp"}],
                Managed(<<QUIC, TLS>>, shared),
                [Managed(<<TLS, HTTP>>, Unset) EXCEPT !.hcport = 8080]}
          ELSE {Managed(<<TLS>>, shared),
                [Managed(<<TLS>>, Unset) EXCEPT !.domains = FALSE],
                [Plain(<<TLS>>) EXCEPT !.protocol = "https", !.certs = {up}, !.hcproto = "http"],
                [Plain(<<TLS>>) EXCEPT !.protocol = "https", !.certs = {up, missing}]}]

MCDefaults == {[proxy |-> Unset, interval |-> Unset], [proxy |-> 0, interval |-> 15]}
=============================================================================
