-------------------------------- MODULE Arp --------------------------------
(***************************************************************************)
(* ArpHandler, ArpCache and ArpSpoofDetector of                            *)
(* TCPIP/src/52/rust/arp_implementation.rs, one per host of a link that    *)
(* loses packets or delivers them late, by MaxDelay at most.  A host is    *)
(* its protocol address; <<h, v>> is the hardware address it has after v   *)
(* changes of its interface.  The clock is not set back.                   *)
(***************************************************************************)
EXTENDS Naturals, FiniteSets

CONSTANTS Host, timeout,
  MaxDelay,                \* how long a packet may be under way
  Changing,                \* the hosts whose interface may be exchanged
  MaxChanges, MaxPackets   \* bounds: changes of an interface, packets under way

VARIABLES
  version, since,   \* of each host: its interface, time since it changed
  cache,            \* of each host: address |-> [mac, age, is_static]
  known, alarm,     \* of each host: known_mappings; a packet was refused
  net               \* packets under way, with the host that gets them
vars == <<version, since, cache, known, alarm, net>>

mac(h) == <<h, version[h]>>
zero == <<0, 0>>

Init == /\ version = [h \in Host |-> 0] /\ since = [h \in Host |-> 0]
        /\ cache = [h \in Host |-> << >>]
        /\ known = [h \in Host |-> << >>] /\ alarm = [h \in Host |-> FALSE]
        /\ net = {}

-----------------------------------------------------------------------------
(* ArpPacket, without the target's hardware address, which nobody reads *)

Packet(op, smac, sip, tip, to) ==
  [operation |-> op, sender_hw |-> smac, sender |-> sip, target |-> tip, to |-> to, age |-> 0]

new_request(h, ip, to) == Packet("Request", mac(h), h, ip, to)
new_gratuitous(h, to) == Packet("Reply", mac(h), h, h, to)

new_reply(h, p) == Packet("Reply", mac(h), h, p.sender, p.sender)

Send(P) == Cardinality(net \cup P) <= MaxPackets /\ net' = net \cup P

-----------------------------------------------------------------------------
(* ArpCache *)

(* HashMap::insert *)
Put(c, ip, value) == [k \in DOMAIN c \cup {ip} |-> IF k = ip THEN value ELSE c[k]]

(* An entry is replaced whatever it was, a static one by a dynamic one. *)
Add(c, ip, m, static) == Put(c, ip, [mac |-> m, age |-> 0, is_static |-> static])

(* Fault: the age of an entry is not looked at. *)
Valid_Always(e) == TRUE

Valid(e) == e.is_static \/ e.age < timeout

lookup(h, ip) == IF ip \in DOMAIN cache[h] /\ Valid(cache[h][ip])
                 THEN cache[h][ip].mac ELSE zero

Keep(c, S) == [ip \in DOMAIN c \cap S |-> c[ip]]

AddStatic(h) == /\ \E ip \in Host \ {h} : cache' = [cache EXCEPT ![h] = Add(@, ip, mac(ip), TRUE)]
                /\ UNCHANGED <<version, since, known, alarm, net>>

cleanup(h) == /\ cache' = [cache EXCEPT ![h] = Keep(@, {ip \in DOMAIN @ : Valid(@[ip])})]
              /\ UNCHANGED <<version, since, known, alarm, net>>

remove(h) == /\ \E ip \in DOMAIN cache[h] : cache' = [cache EXCEPT ![h] = Keep(@, Host \ {ip})]
             /\ UNCHANGED <<version, since, known, alarm, net>>

clear(h) == /\ cache' = [cache EXCEPT ![h] = << >>]
            /\ UNCHANGED <<version, since, known, alarm, net>>

-----------------------------------------------------------------------------
(* ArpHandler *)

(* resolve() looks into the cache, and prints what it would ask for. *)
resolve(h, ip) == lookup(h, ip)

(* It leaves the request to its caller. *)
send_request(h) == /\ \E ip \in Host \ {h} :
                        /\ resolve(h, ip) = zero
                        /\ Send({new_request(h, ip, to) : to \in Host \ {h}})
                   /\ UNCHANGED <<version, since, cache, known, alarm>>

send_gratuitous(h) == /\ Send({new_gratuitous(h, to) : to \in Host \ {h}})
                      /\ UNCHANGED <<version, since, cache, known, alarm>>

(* check_packet() keeps the first mapping of an address for ever. *)
check_packet(h, p) ==
  IF p.sender \in DOMAIN known[h]
  THEN /\ alarm' = [alarm EXCEPT ![h] = @ \/ known[h][p.sender] # p.sender_hw]
       /\ UNCHANGED known
  ELSE /\ known' = [known EXCEPT ![h] = Put(@, p.sender, p.sender_hw)]
       /\ UNCHANGED alarm

(* handle_packet() learns from every packet and answers a request for us. *)
handle_packet(h) ==
  \E p \in net :
    /\ p.to = h
    /\ cache' = [cache EXCEPT ![h] = Add(@, p.sender, p.sender_hw, FALSE)]
    /\ net' = (net \ {p}) \cup
              IF p.target = h /\ p.operation = "Request" THEN {new_reply(h, p)} ELSE {}
    /\ check_packet(h, p)
    /\ UNCHANGED <<version, since>>

(* External: the link, the clock, an interface that is exchanged. *)
Lose == /\ \E p \in net : net' = net \ {p}
        /\ UNCHANGED <<version, since, cache, known, alarm>>

(* Times saturate: beyond the limit they make no difference. *)
Older(time, limit) == IF time < limit THEN time + 1 ELSE limit

Tick == /\ \A p \in net : p.age < MaxDelay
        /\ net' = {[p EXCEPT !.age = @ + 1] : p \in net}
        /\ since' = [h \in Host |-> Older(since[h], timeout + MaxDelay)]
        /\ cache' = [h \in Host |-> [ip \in DOMAIN cache[h] |->
                       [cache[h][ip] EXCEPT !.age = Older(@, timeout)]]]
        /\ UNCHANGED <<version, known, alarm>>

Exchange(h) == /\ h \in Changing /\ version[h] < MaxChanges
               /\ version' = [version EXCEPT ![h] = @ + 1]
               /\ since' = [since EXCEPT ![h] = 0]
               /\ UNCHANGED <<cache, known, alarm, net>>

Next == \/ \E h \in Host : \/ AddStatic(h) \/ cleanup(h) \/ remove(h) \/ clear(h)
                           \/ send_request(h) \/ send_gratuitous(h) \/ handle_packet(h)
                           \/ Exchange(h)
        \/ Lose \/ Tick
Spec == Init /\ [][Next]_vars

-----------------------------------------------------------------------------
(* An address a lookup gives is the present one of its host, or is out of  *)
(* date by less than `timeout' and the delay of a packet, also when a       *)
(* packet sent before the exchange arrives after one sent later and         *)
(* replaces what that one told; or an administrator entered it.  And the    *)
(* detector refuses a packet only when an interface was exchanged.          *)
StaleIsBounded ==
  \A h, ip \in Host :
    /\ lookup(h, ip) \notin {zero, mac(ip)} =>
         /\ since[ip] < timeout + MaxDelay \/ cache[h][ip].is_static
         /\ \E v \in 0 .. version[ip] : lookup(h, ip) = <<ip, v>>
    /\ alarm[h] => \E i \in Host : version[i] > 0
=============================================================================
