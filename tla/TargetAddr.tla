----------------------------- MODULE TargetAddr -----------------------------
(***************************************************************************)
(* The destination of a connection on its way through the program: the     *)
(* address on the wire of SOCKS5 and OwOSS, the host string in between, and *)
(* the test that sends a host past the proxy.                              *)
(*                                                                         *)
(* A text is what an address means, as its sequence of labels (a literal   *)
(* has one label); letter case is left out, every comparison of the code   *)
(* being made in lower case.  A host is a text, perhaps in brackets.       *)
(***************************************************************************)
EXTENDS Sequences, SequencesExt

CONSTANTS
    V4, V6,      \* texts that are IPv4 and IPv6 literals
    Names,       \* texts that are domain names
    Sensitive,   \* sensitiveDirectDomains
    Additional   \* additionalDirectDomains

NoName == <<"">>

Texts == V4 \cup V6 \cup Names \cup {NoName}
Hosts == [text : Texts, brackets : BOOLEAN]

Plain(t)     == [text |-> t, brackets |-> FALSE]
Bracketed(t) == [text |-> t, brackets |-> TRUE]

(* ATYP and address.  An IPv4 address can be sent in an IPv6 field.         *)
WireAddrs ==
    [atyp : {"ipv4"}, host : {Plain(t) : t \in V4}]
      \cup [atyp : {"ipv6"}, host : {Plain(t) : t \in V4 \cup V6}]
      \cup [atyp : {"domain"}, host : {Plain(t) : t \in Texts}]

(* net.ParseIP(host) # nil                                                  *)
IsIP(h) == ~h.brackets /\ h.text \in V4 \cup V6

(* The host of a request: only ATYP 4 gets brackets.                        *)
ReadHost(w) == IF w.atyp = "ipv6" THEN Bracketed(w.host.text) ELSE w.host

Wire(atyp, h) == [atyp |-> atyp, host |-> h]

(* The address of a CONNECT to the next hop.  A name with an underscore is  *)
(* a definition as a plausible mistake would have written it; no action     *)
(* uses it.                                                                 *)
ConnectAddr_NoLiterals(h) == Wire("domain", h)
ConnectAddr(h) ==
    CASE h.brackets /\ h.text \in V4 \cup V6 -> Wire("ipv6", Plain(h.text))
      [] ~h.brackets /\ h.text \in V4        -> Wire("ipv4", h)
      [] OTHER                               -> Wire("domain", h)

(* ssEncodeTargetAddr                                                       *)
EncodeTarget(h) ==
    CASE IsIP(h) /\ h.text \in V4 -> Wire("ipv4", h)
      [] IsIP(h) /\ h.text \in V6 -> Wire("ipv6", h)
      [] OTHER                    -> Wire("domain", h)

(* ssReadTargetAddr accepts it.                                             *)
Decodes(w) == w.atyp = "domain" => w.host # Plain(NoName)

(* net.JoinHostPort encloses a host with a colon in brackets; net.Dial then *)
(* refuses one that had them already.                                       *)
Dialable(h) == ~(h.brackets /\ h.text \in V6)

(* A host is named by a domain of the list or lies under one.               *)
Under(h, domains) == ~h.brackets /\ \E d \in domains : IsSuffix(d, h.text)

IsDirectDomain_Exact(h) == ~h.brackets /\ h.text \in Sensitive \cup Additional
IsDirectDomain(h) == Under(h, Sensitive) \/ Under(h, Additional)

(* A domain of the lists, "one domain per line" (domains_direct.go:92-93),  *)
(* or under one; a listed literal is not a domain.                          *)
Listed(t) == t \notin V4 \cup V6 /\ \E d \in Sensitive \cup Additional : IsSuffix(d, t)
=============================================================================
