--------------------------- MODULE Network_proofs ---------------------------
(***************************************************************************)
(* Proofs about the TCP/IP programs and the MQTT-SN gateway of Network, for *)
(* every value of the constants.  Each component has an inductive           *)
(* invariant, shown for its own Init and Next; a step of Network is a step  *)
(* of that component or leaves it alone.                                    *)
(***************************************************************************)
EXTENDS Network, Integers, SequenceTheorems, FiniteSetTheorems, WellFoundedInduction, TLAPS

-----------------------------------------------------------------------------
(* MqttSnGateway: until the counter comes round, every identifier in use is *)
(* below it, and what a client was told is what the map says.               *)
GatewayInv ==
  /\ next_topic_id \in 0 .. (IdMod - 1)
  /\ ~wrapped =>
       /\ next_topic_id > 0
       /\ \A id \in DOMAIN topic_id_map : id \in Nat /\ id < next_topic_id
       /\ \A t \in DOMAIN topic_name_map : /\ topic_name_map[t] \in DOMAIN topic_id_map
                                           /\ topic_id_map[topic_name_map[t]] = t
       /\ \A c \in g_Client : \A k \in g_known[c] : /\ k[1] \in DOMAIN topic_id_map
                                                  /\ topic_id_map[k[1]] = k[2]
       /\ misdirected = {}
  /\ g_known = [c \in g_Client |-> g_known[c]]

LEMMA GatewayInit == Gateway!Init => GatewayInv
BY GatewayAssumption DEF Gateway!Init, GatewayInv

(* A new identifier leaves the others as they are. *)
LEMMA AllocateKeeps ==
  ASSUME GatewayInv, NEW c \in g_Client, NEW t \in Topic, Gateway!Allocate(t),
         Gateway!Told(c, next_topic_id, t), misdirected' = misdirected
  PROVE  GatewayInv'
<1> DEFINE i == next_topic_id
<1>1. i \in Nat /\ i < IdMod
  BY GatewayAssumption DEF GatewayInv
<1>2. next_topic_id' = (i + 1) % IdMod /\ next_topic_id' \in 0 .. (IdMod - 1)
  BY <1>1, GatewayAssumption DEF Gateway!Allocate
<1>3. ~wrapped /\ (~wrapped' => next_topic_id' # 0)
  BY DEF Gateway!Allocate
<1>4. ~wrapped' => next_topic_id' = i + 1
  BY <1>1, <1>2, <1>3, GatewayAssumption
<1>5. /\ DOMAIN topic_id_map' = DOMAIN topic_id_map \cup {i} /\ topic_id_map'[i] = t
      /\ \A k \in DOMAIN topic_id_map : k # i => topic_id_map'[k] = topic_id_map[k]
      /\ DOMAIN topic_name_map' = DOMAIN topic_name_map \cup {t} /\ topic_name_map'[t] = i
      /\ \A u \in DOMAIN topic_name_map : u # t => topic_name_map'[u] = topic_name_map[u]
  BY DEF Gateway!Allocate, Gateway!insert
<1>6. /\ \A k \in DOMAIN topic_id_map : k \in Nat /\ k < i
      /\ \A u \in DOMAIN topic_name_map : /\ topic_name_map[u] \in DOMAIN topic_id_map
                                          /\ topic_id_map[topic_name_map[u]] = u
      /\ misdirected = {}
  BY <1>3 DEF GatewayInv
<1>7. \A k \in DOMAIN topic_id_map : k # i
  BY <1>1, <1>6
<1>8. /\ g_known' = [d \in g_Client |-> g_known'[d]]
      /\ \A d \in g_Client : g_known'[d] \subseteq g_known[d] \cup {<<i, t>>}
  BY <1>1 DEF Gateway!Told, GatewayInv
<1>9. \A d \in g_Client : \A k \in g_known'[d] : /\ k[1] \in DOMAIN topic_id_map'
                                               /\ topic_id_map'[k[1]] = k[2]
  BY <1>3, <1>5, <1>7, <1>8 DEF GatewayInv
<1>10. \A k \in DOMAIN topic_id_map' : ~wrapped' => k \in Nat /\ k < next_topic_id'
  BY <1>1, <1>4, <1>5, <1>6
<1>11. \A u \in DOMAIN topic_name_map' : /\ topic_name_map'[u] \in DOMAIN topic_id_map'
                                         /\ topic_id_map'[topic_name_map'[u]] = u
  BY <1>5, <1>6, <1>7
<1>. QED  BY <1>1, <1>2, <1>4, <1>6, <1>8, <1>9, <1>10, <1>11 DEF GatewayInv

LEMMA GatewayNext == GatewayInv /\ [Gateway!Next]_(Gateway!vars) => GatewayInv'
<1> SUFFICES ASSUME GatewayInv, [Gateway!Next]_(Gateway!vars) PROVE GatewayInv'
  OBVIOUS
<1>1. ASSUME NEW c \in g_Client, NEW a \in Address, Gateway!handle_connect(c, a)
      PROVE  GatewayInv'
  BY <1>1 DEF Gateway!handle_connect, Gateway!topics, GatewayInv
<1>2. ASSUME NEW c \in g_Client, NEW t \in Topic, Gateway!handle_register(c, t)
      PROVE  GatewayInv'
  BY <1>2, AllocateKeeps DEF Gateway!handle_register
<1>3. ASSUME NEW c \in g_Client, NEW t \in Topic, Gateway!handle_subscribe(c, t)
      PROVE  GatewayInv'
  <2>1. CASE t \notin DOMAIN topic_name_map
    BY <1>3, <2>1, AllocateKeeps DEF Gateway!handle_subscribe
  <2>2. CASE t \in DOMAIN topic_name_map
    <3>1. /\ UNCHANGED <<topic_id_map, topic_name_map, next_topic_id, wrapped, misdirected>>
          /\ g_known' \in {g_known, [g_known EXCEPT ![c] = @ \cup {<<topic_name_map[t], t>>}]}
      BY <1>3, <2>2 DEF Gateway!handle_subscribe, Gateway!topics, Gateway!Told
    <3>. QED  BY <2>2, <3>1 DEF GatewayInv
  <2>. QED  BY <2>1, <2>2
<1>4. ASSUME NEW c \in g_Client, Gateway!handle_publish(c) PROVE GatewayInv'
  BY <1>4 DEF Gateway!handle_publish, Gateway!topics, GatewayInv
<1>5. CASE UNCHANGED Gateway!vars
  BY <1>5 DEF Gateway!vars, GatewayInv
<1>. QED  BY <1>1, <1>2, <1>3, <1>4, <1>5 DEF Gateway!Next, Gateway!Unchanging

LEMMA GatewayRuns == [NetworkNext]_network => [Gateway!Next]_(Gateway!vars)
BY DEF NetworkNext, network, Only, Gateway_vars, Gateway!vars

(* A publication under an identifier a client was given for a topic reaches  *)
(* that topic, whatever was registered again and however late the answer     *)
(* came, until the counter of identifiers comes round.                       *)
THEOREM PublicationsReachTheirTopic == NetworkSpec => []RightTopic
<1>1. NetworkInit => GatewayInv
  BY GatewayInit DEF NetworkInit
<1>2. GatewayInv /\ [NetworkNext]_network => GatewayInv'
  BY GatewayNext, GatewayRuns
<1>3. GatewayInv => RightTopic
  BY DEF GatewayInv, RightTopic, Gateway!RightTopic
<1>. QED
  BY <1>1, <1>2, <1>3, PTL DEF NetworkSpec

-----------------------------------------------------------------------------
(* Linger: a socket that is not handle_client()'s is in the kernel what its *)
(* option says, and data is lost only when the peer resets the connection   *)
(* or the stream is dropped.                                                *)
Asked == sock.linger.mode # "Disabled" /\ sock.linger.time < 2

ClosingInv ==
  /\ buffered \in Nat /\ lost \in Nat /\ unread \in Nat /\ l_linger \in Nat
  /\ sock \in [user : {"ManagedSocket", "SocketLinger", "handle_client"},
               at : {"new", "open", "closed", "read", "respond", "set_linger", "shutdown",
                     "drain"},
               linger : Closing!Option]
  /\ IF sock.user = "handle_client" THEN sock.at \notin {"new", "open"}
                                    ELSE sock.at \in {"new", "open", "closed"}
  /\ l_onoff /\ l_linger = 0 => sock.user # "handle_client" /\ Asked
  /\ lost > 0 => peer = "reset" \/ sock.at = "closed"
  /\ Closing!NothingLost

LEMMA ClosingInit == Closing!Init => ClosingInv
BY LingerAssumption
   DEF Closing!Init, Closing!Option, ClosingInv, Closing!NothingLost, Asked

(* The option a caller sets: a time below one second is an abortive close. *)
LEMMA OptionSet ==
  ASSUME NEW o \in Closing!Option, Closing!Linger(o)
  PROVE  /\ o \in [mode : {"Disabled", "Abortive", "Enabled"}, time : Nat]
         /\ l_linger' \in Nat
         /\ l_onoff' /\ l_linger' = 0 => o.mode # "Disabled" /\ o.time < 2
<1>1. o \in [mode : {"Disabled", "Abortive", "Enabled"}, time : Nat]
      /\ (o.mode # "Enabled" => o.time = 0)
  BY LingerAssumption DEF Closing!Option
<1>2. l_linger' \in Nat /\ (o.mode = "Enabled" /\ l_linger' = 0 => o.time < 2)
  <2>1. o.time \in Nat
    BY <1>1
  <2>2. o.time \div 2 \in Nat /\ (o.time \div 2 = 0 => o.time < 2)
    BY <2>1
  <2>. QED  BY <2>2 DEF Closing!Linger
<1>3. l_onoff' => o.mode # "Disabled"
  BY DEF Closing!Linger
<1>. QED  BY <1>1, <1>2, <1>3

(* drop(stream) at a place where a reset is somebody's doing. *)
LEMMA DropKeeps ==
  ASSUME ClosingInv, NEW from, Closing!Drop(from),
         sock.user = "handle_client" => unread = 0 \/ peer = "reset"
  PROVE  ClosingInv'
<1>1. /\ sock' = [sock EXCEPT !.at = "closed"]
      /\ UNCHANGED <<l_onoff, l_linger, unread, peer>>
      /\ sock'.at = "closed" /\ sock'.user = sock.user /\ sock'.linger = sock.linger
  BY DEF Closing!Drop, Closing!Goto, ClosingInv
<1>2. lost' \in Nat /\ buffered' \in Nat /\ (Closing!Resets \/ lost' = lost)
  BY DEF Closing!Drop, ClosingInv
<1>3. Closing!Resets => \/ peer = "reset"
                        \/ sock.user # "handle_client" /\ unread > 0
                        \/ sock.user # "handle_client" /\ Asked
  BY DEF Closing!Resets, ClosingInv
<1>. QED
  BY <1>1, <1>2, <1>3 DEF ClosingInv, Closing!NothingLost, Asked

LEMMA ClosingNext == ClosingInv /\ [Closing!Next]_(Closing!vars) => ClosingInv'
<1> SUFFICES ASSUME ClosingInv, [Closing!Next]_(Closing!vars) PROVE ClosingInv'
  OBVIOUS
<1> USE DEF ClosingInv, Closing!NothingLost, Asked
<1>1. CASE Closing!apply_linger
  <2>1. /\ sock.user = "ManagedSocket" /\ sock.at = "new"
        /\ sock' = [sock EXCEPT !.at = "open"] /\ Closing!Linger(sock.linger)
        /\ UNCHANGED <<buffered, lost, unread, peer>>
    BY <1>1 DEF Closing!apply_linger, Closing!Goto, Closing!data
  <2>. QED  BY <2>1, OptionSet
<1>2. CASE Closing!set_linger
  <2>1. PICK o \in Closing!Option : sock' = [sock EXCEPT !.linger = o] /\ Closing!Linger(o)
    BY <1>2 DEF Closing!set_linger
  <2>2. /\ sock.user = "SocketLinger" /\ sock.at = "open"
        /\ UNCHANGED <<buffered, lost, unread, peer>>
    BY <1>2 DEF Closing!set_linger, Closing!data
  <2>. QED  BY <2>1, <2>2, OptionSet
<1>3. CASE Closing!send_all \/ Closing!Transmit
  BY <1>3 DEF Closing!send_all, Closing!Transmit
<1>4. CASE Closing!receive \/ Closing!Drain
  BY <1>4 DEF Closing!receive, Closing!Drain
<1>5. CASE Closing!close
  BY <1>5, DropKeeps DEF Closing!close, Closing!Drop, Closing!Goto
<1>6. CASE Closing!ReadRequest \/ Closing!ReadNothing \/ Closing!Shutdown
  BY <1>6 DEF Closing!ReadRequest, Closing!ReadNothing, Closing!Shutdown, Closing!Goto,
              Closing!data
<1>7. CASE Closing!Respond
  BY <1>7 DEF Closing!Respond, Closing!Goto
<1>8. CASE Closing!GracefulLinger
  BY <1>8 DEF Closing!GracefulLinger, Closing!Goto, Closing!data
<1>9. CASE Closing!LingerError \/ Closing!ShutdownError \/ Closing!DrainEnd
  BY <1>9, DropKeeps DEF Closing!LingerError, Closing!ShutdownError, Closing!DrainEnd
<1>10. CASE Closing!PeerSends
  BY <1>10 DEF Closing!PeerSends
<1>11. CASE Closing!PeerEnds
  BY <1>11 DEF Closing!PeerEnds
<1>12. CASE UNCHANGED Closing!vars
  BY <1>12 DEF Closing!vars
<1>. QED
  BY <1>1, <1>2, <1>3, <1>4, <1>5, <1>6, <1>7, <1>8, <1>9, <1>10, <1>11, <1>12
     DEF Closing!Next, Closing!Handler

LEMMA ClosingRuns == [NetworkNext]_network => [Closing!Next]_(Closing!vars)
BY DEF NetworkNext, network, Only, Closing_vars, Closing!vars

(* What was written is lost only when the peer resets the connection or the  *)
(* program asked for it: graceful_close() reads to the end of the stream     *)
(* before it drops it, so that nothing it wrote is reset away.               *)
THEOREM NothingIsLost == NetworkSpec => []NothingLost
<1>1. NetworkInit => ClosingInv
  BY ClosingInit DEF NetworkInit
<1>2. ClosingInv /\ [NetworkNext]_network => ClosingInv'
  BY ClosingNext, ClosingRuns
<1>3. ClosingInv => NothingLost
  BY DEF ClosingInv, NothingLost
<1>. QED
  BY <1>1, <1>2, <1>3, PTL DEF NetworkSpec

-----------------------------------------------------------------------------
(* Arp: an entry holds an address its host has or had, and one that is out  *)
(* of date is at most by MaxDelay younger than the exchange of the          *)
(* interface; a packet under way that tells an old address was sent before. *)
EntryType == [mac : Host \X Nat, age : Nat, is_static : BOOLEAN]

Had(m, ip) == \E v \in 0 .. version[ip] : m = <<ip, v>>

Entry(e, ip) ==
  /\ ip \in Host /\ e \in EntryType /\ Had(e.mac, ip)
  /\ e.is_static \/ e.mac = <<ip, version[ip]>> \/ since[ip] <= e.age + MaxDelay

(* Packets under way. *)
Sent(p) ==
  /\ p = [operation |-> p.operation, sender_hw |-> p.sender_hw, sender |-> p.sender,
          target |-> p.target, to |-> p.to, age |-> p.age]
  /\ p.sender \in Host /\ p.to \in Host /\ p.age \in 0 .. MaxDelay
  /\ Had(p.sender_hw, p.sender)
  /\ p.sender_hw = <<p.sender, version[p.sender]>> \/ since[p.sender] <= p.age

LinkInv ==
  /\ version \in [Host -> Nat] /\ since \in [Host -> Nat]
  /\ cache = [h \in Host |-> cache[h]] /\ known = [h \in Host |-> known[h]]
  /\ alarm = [h \in Host |-> alarm[h]]
  /\ \A h \in Host : \A ip \in DOMAIN cache[h] : Entry(cache[h][ip], ip)
  /\ \A h \in Host : \A ip \in DOMAIN known[h] : ip \in Host /\ Had(known[h][ip], ip)
  /\ \A h \in Host : alarm[h] => \E i \in Host : version[i] > 0
  /\ \A p \in link : Sent(p)

LEMMA LinkInit == Link!Init => LinkInv
BY DEF Link!Init, LinkInv

(* A packet that is sent tells the present address. *)
LEMMA PresentPacket ==
  ASSUME LinkInv, NEW h \in Host, NEW to \in Host, NEW op, NEW ip
  PROVE  Sent(Link!Packet(op, Link!mac(h), h, ip, to))
<1>1. version[h] \in Nat /\ version[h] \in 0 .. version[h] /\ 0 \in 0 .. MaxDelay
  BY LinkAssumption DEF LinkInv
<1>. QED  BY <1>1 DEF Sent, Had, Link!Packet, Link!mac

(* A present address makes an entry, static or not. *)
LEMMA PresentEntry ==
  ASSUME LinkInv, NEW ip \in Host, NEW st \in BOOLEAN
  PROVE  Entry([mac |-> <<ip, version[ip]>>, age |-> 0, is_static |-> st], ip)
<1>1. version[ip] \in Nat /\ since[ip] \in Nat /\ version[ip] \in 0 .. version[ip]
  BY DEF LinkInv
<1>. QED  BY <1>1 DEF Entry, EntryType, Had

(* What a packet tells makes one too. *)
LEMMA ToldEntry ==
  ASSUME LinkInv, NEW p \in link
  PROVE  Entry([mac |-> p.sender_hw, age |-> 0, is_static |-> FALSE], p.sender)
<1>1. Sent(p) /\ version \in [Host -> Nat] /\ since \in [Host -> Nat]
  BY DEF LinkInv
<1>2. p.sender_hw \in Host \X Nat
  BY <1>1 DEF Sent, Had
<1>3. p.sender_hw = <<p.sender, version[p.sender]>> \/ since[p.sender] <= 0 + MaxDelay
  BY <1>1, LinkAssumption DEF Sent
<1>. QED  BY <1>1, <1>2, <1>3 DEF Entry, EntryType, Sent

(* Only the cache of h changes, to one of good entries. *)
LEMMA CacheKeeps ==
  ASSUME LinkInv, NEW h \in Host, NEW c, cache' = [cache EXCEPT ![h] = c],
         \A ip \in DOMAIN c : Entry(c[ip], ip),
         UNCHANGED <<version, since>>
  PROVE  /\ cache' = [g \in Host |-> cache'[g]]
         /\ \A g \in Host : \A ip \in DOMAIN cache'[g] : Entry(cache[g][ip], ip)'
<1>1. \A g \in Host : cache'[g] = IF g = h THEN c ELSE cache[g]
  BY DEF LinkInv
<1>2. ASSUME NEW g \in Host, NEW ip \in DOMAIN cache'[g] PROVE Entry(cache[g][ip], ip)'
  <2>1. Entry(cache'[g][ip], ip)
    BY <1>1 DEF LinkInv
  <2>. QED  BY <2>1 DEF Entry, Had
<1>. QED  BY <1>1, <1>2 DEF LinkInv

LEMMA LinkNext == LinkInv /\ [Link!Next]_(Link!vars) => LinkInv'
<1> SUFFICES ASSUME LinkInv, [Link!Next]_(Link!vars) PROVE LinkInv'
  OBVIOUS
<1>1. ASSUME NEW h \in Host, Link!AddStatic(h) PROVE LinkInv'
  <2>1. PICK ip \in Host \ {h} :
          cache' = [cache EXCEPT ![h] = Link!Add(cache[h], ip, Link!mac(ip), TRUE)]
    BY <1>1 DEF Link!AddStatic
  <2>2. UNCHANGED <<version, since, known, alarm, link>>
    BY <1>1 DEF Link!AddStatic
  <2>3. \A i \in DOMAIN Link!Add(cache[h], ip, Link!mac(ip), TRUE) :
          Entry(Link!Add(cache[h], ip, Link!mac(ip), TRUE)[i], i)
    BY PresentEntry DEF LinkInv, Link!Add, Link!Put, Link!mac
  <2>4. /\ cache' = [g \in Host |-> cache'[g]]
        /\ \A g \in Host : \A i \in DOMAIN cache'[g] : Entry(cache[g][i], i)'
    BY <2>1, <2>2, <2>3, CacheKeeps
  <2>. QED  BY <2>2, <2>4 DEF LinkInv, Had, Sent
<1>2. ASSUME NEW h \in Host, Link!cleanup(h) \/ Link!remove(h) \/ Link!clear(h) PROVE LinkInv'
  <2>1. /\ UNCHANGED <<version, since, known, alarm, link>>
        /\ \/ cache' = [cache EXCEPT ![h] = << >>]
           \/ \E S : cache' = [cache EXCEPT ![h] = Link!Keep(cache[h], S)]
    BY <1>2 DEF Link!cleanup, Link!remove, Link!clear
  <2>2. PICK c : /\ cache' = [cache EXCEPT ![h] = c]
                 /\ \A i \in DOMAIN c : Entry(c[i], i)
    <3>1. \A i \in DOMAIN << >> : Entry(<< >>[i], i)
      OBVIOUS
    <3>2. ASSUME NEW S
          PROVE  \A i \in DOMAIN Link!Keep(cache[h], S) : Entry(Link!Keep(cache[h], S)[i], i)
      BY DEF Link!Keep, LinkInv
    <3>. QED  BY <2>1, <3>1, <3>2
  <2>3. /\ cache' = [g \in Host |-> cache'[g]]
        /\ \A g \in Host : \A i \in DOMAIN cache'[g] : Entry(cache[g][i], i)'
    BY <2>1, <2>2, CacheKeeps
  <2>. QED  BY <2>1, <2>3 DEF LinkInv, Had, Sent
<1>3. ASSUME NEW h \in Host, Link!send_request(h) \/ Link!send_gratuitous(h) PROVE LinkInv'
  <2>1. /\ UNCHANGED <<version, since, cache, known, alarm>>
        /\ \A p \in link' : \/ p \in link
                            \/ \E ip \in Host, to \in Host \ {h} :
                                 \/ p = Link!new_request(h, ip, to)
                                 \/ p = Link!new_gratuitous(h, to)
    BY <1>3 DEF Link!send_request, Link!send_gratuitous, Link!Send
  <2>2. \A p \in link' : Sent(p)
    BY <2>1, PresentPacket DEF Link!new_request, Link!new_gratuitous, LinkInv
  <2>. QED  BY <2>1, <2>2 DEF LinkInv, Entry, Had, Sent
<1>4. ASSUME NEW h \in Host, Link!handle_packet(h) PROVE LinkInv'
  <2>1. PICK p \in link :
          /\ p.to = h
          /\ cache' = [cache EXCEPT ![h] = Link!Add(cache[h], p.sender, p.sender_hw, FALSE)]
          /\ link' \subseteq link \cup {Link!new_reply(h, p)}
          /\ Link!check_packet(h, p)
    BY <1>4 DEF Link!handle_packet
  <2>2. UNCHANGED <<version, since>>
    BY <1>4 DEF Link!handle_packet
  <2>3. p.sender \in Host /\ Had(p.sender_hw, p.sender)
    BY DEF LinkInv, Sent
  <2>4. \A i \in DOMAIN Link!Add(cache[h], p.sender, p.sender_hw, FALSE) :
          Entry(Link!Add(cache[h], p.sender, p.sender_hw, FALSE)[i], i)
    BY <2>3, ToldEntry DEF LinkInv, Link!Add, Link!Put
  <2>5. /\ cache' = [g \in Host |-> cache'[g]]
        /\ \A g \in Host : \A i \in DOMAIN cache'[g] : Entry(cache[g][i], i)'
    BY <2>1, <2>2, <2>4, CacheKeeps
  <2>6. \A q \in link' : Sent(q)'
    <3>1. \A q \in link' : Sent(q)
      BY <2>1, <2>3, PresentPacket DEF Link!new_reply, LinkInv
    <3>. QED  BY <2>2, <3>1 DEF Sent, Had
  <2>7. CASE p.sender \in DOMAIN known[h]
    <3>1. known' = known
      BY <2>1, <2>7 DEF Link!check_packet
    <3>2. alarm' = [alarm EXCEPT ![h] = alarm[h] \/ known[h][p.sender] # p.sender_hw]
      BY <2>1, <2>7 DEF Link!check_packet
    <3>3. known[h][p.sender] # p.sender_hw => version[p.sender] > 0
      BY <2>3, <2>7 DEF LinkInv, Had
    <3>4. \A g \in Host : alarm'[g] => \E i \in Host : version[i] > 0
      BY <2>3, <3>2, <3>3 DEF LinkInv
    <3>5. alarm' = [g \in Host |-> alarm'[g]]
      BY <3>2 DEF LinkInv
    <3>. QED  BY <2>2, <2>5, <2>6, <3>1, <3>4, <3>5 DEF LinkInv, Had
  <2>8. CASE p.sender \notin DOMAIN known[h]
    <3>1. alarm' = alarm
      BY <2>1, <2>8 DEF Link!check_packet
    <3>2. known' = [known EXCEPT ![h] = Link!Put(known[h], p.sender, p.sender_hw)]
      BY <2>1, <2>8 DEF Link!check_packet
    <3>4. \A g \in Host : \A i \in DOMAIN known'[g] : i \in Host /\ Had(known'[g][i], i)
      BY <2>3, <3>2 DEF LinkInv, Link!Put
    <3>5. known' = [g \in Host |-> known'[g]]
      BY <3>2 DEF LinkInv
    <3>. QED  BY <2>2, <2>5, <2>6, <3>1, <3>4, <3>5 DEF LinkInv, Had
  <2>. QED  BY <2>7, <2>8
<1>5. ASSUME NEW h \in Host, Link!Exchange(h) PROVE LinkInv'
  <2>1. /\ UNCHANGED <<cache, known, alarm, link>>
        /\ version' = [version EXCEPT ![h] = @ + 1] /\ since' = [since EXCEPT ![h] = 0]
    BY <1>5 DEF Link!Exchange
  <2>2. /\ version' \in [Host -> Nat] /\ since' \in [Host -> Nat]
        /\ \A i \in Host : version[i] <= version'[i] /\ version[i] \in Nat
        /\ \A i \in Host : (version'[i] = version[i] /\ since'[i] = since[i]) \/ since'[i] = 0
    BY <2>1 DEF LinkInv
  <2>3. \A m : \A i \in Host : Had(m, i) => \E v \in 0 .. version'[i] : m = <<i, v>>
    BY <2>2 DEF Had
  <2>4. \A g \in Host : \A i \in DOMAIN cache[g] : Entry(cache[g][i], i)'
    <3> SUFFICES ASSUME NEW g \in Host, NEW i \in DOMAIN cache[g]
                 PROVE  Entry(cache[g][i], i)'
      OBVIOUS
    <3>1. Entry(cache[g][i], i)
      BY DEF LinkInv
    <3>2. cache[g][i].age \in Nat /\ i \in Host
      BY <3>1 DEF Entry, EntryType
    <3>. QED  BY <2>1, <2>2, <2>3, <3>1, <3>2, LinkAssumption DEF Entry, Had
  <2>5. ASSUME NEW p \in link PROVE Sent(p)'
    <3>1. Sent(p) /\ p.age \in Nat
      BY LinkAssumption DEF LinkInv, Sent
    <3>. QED  BY <2>2, <2>3, <3>1 DEF Sent, Had
  <2>. QED  BY <2>1, <2>2, <2>3, <2>4, <2>5 DEF LinkInv, Had
<1>6. CASE Link!Lose
  BY <1>6 DEF Link!Lose, LinkInv, Entry, Had, Sent
<1>7. CASE Link!Tick
  <2> DEFINE limit == timeout + MaxDelay
  <2>1. /\ UNCHANGED <<version, known, alarm>>
        /\ \A p \in link : p.age < MaxDelay
        /\ link' = {[p EXCEPT !.age = p.age + 1] : p \in link}
        /\ since' = [h \in Host |-> Link!Older(since[h], limit)]
        /\ cache' = [h \in Host |-> [ip \in DOMAIN cache[h] |->
                       [cache[h][ip] EXCEPT !.age = Link!Older(cache[h][ip].age, timeout)]]]
    BY <1>7 DEF Link!Tick
  <2>2. \A a \in Nat : Link!Older(a, timeout) \in Nat /\ Link!Older(a, limit) \in Nat
    BY LinkAssumption DEF Link!Older
  <2> HIDE DEF limit
  <2>3. since' \in [Host -> Nat]
    BY <2>1, <2>2 DEF LinkInv
  <2>4. \A g \in Host : \A i \in DOMAIN cache'[g] : Entry(cache[g][i], i)'
    <3> SUFFICES ASSUME NEW g \in Host, NEW i \in DOMAIN cache'[g]
                 PROVE  Entry(cache[g][i], i)'
      OBVIOUS
    <3> DEFINE e == cache[g][i]
               f == cache'[g][i]
    <3>1. i \in DOMAIN cache[g] /\ f = [e EXCEPT !.age = Link!Older(e.age, timeout)]
      BY <2>1
    <3>2. Entry(e, i)
      BY <3>1 DEF LinkInv
    <3> HIDE DEF e
    <3>3. /\ f \in EntryType /\ f.mac = e.mac /\ f.is_static = e.is_static
          /\ f.age = Link!Older(e.age, timeout) /\ e.age \in Nat
      BY <2>2, <3>1, <3>2 DEF Entry, EntryType
    <3>4. since[i] \in Nat /\ since'[i] = Link!Older(since[i], limit)
      BY <2>1, <3>2 DEF LinkInv, Entry
    <3> HIDE DEF f
    <3>5. /\ i \in Host /\ \E v \in 0 .. version'[i] : f.mac = <<i, v>>
          /\ f.is_static \/ f.mac = <<i, version'[i]>> \/ since'[i] <= f.age + MaxDelay
      <4>1. since[i] <= e.age + MaxDelay => since'[i] <= f.age + MaxDelay
        BY <3>3, <3>4, LinkAssumption DEF Link!Older, limit
      <4>. QED  BY <2>1, <3>2, <3>3, <4>1 DEF Entry, Had
    <3>. QED  BY <3>3, <3>5 DEF f, Entry, Had
  <2>5. ASSUME NEW q \in link' PROVE Sent(q)'
    <3>1. PICK p \in link : q = [p EXCEPT !.age = p.age + 1]
      BY <2>1
    <3>2. Sent(p) /\ p.age < MaxDelay
      BY <2>1 DEF LinkInv
    <3>3. /\ q = [operation |-> p.operation, sender_hw |-> p.sender_hw, sender |-> p.sender,
                 target |-> p.target, to |-> p.to, age |-> p.age + 1]
          /\ p.age \in Nat /\ p.age + 1 \in 0 .. MaxDelay
      BY <3>1, <3>2, LinkAssumption DEF Sent
    <3>4. q.sender_hw = p.sender_hw /\ q.sender = p.sender /\ q.to = p.to /\ q.age = p.age + 1
      BY <3>3
    <3>5. q = [operation |-> q.operation, sender_hw |-> q.sender_hw, sender |-> q.sender,
               target |-> q.target, to |-> q.to, age |-> q.age]
      BY <3>3
    <3>6. since[p.sender] \in Nat /\ since'[p.sender] = Link!Older(since[p.sender], limit)
      BY <2>1, <3>2 DEF LinkInv, Sent
    <3>7. q.sender_hw = <<q.sender, version[q.sender]>> \/ since'[q.sender] <= q.age
      <4>1. since[p.sender] <= p.age => since'[p.sender] <= p.age + 1
        BY <3>3, <3>6, LinkAssumption DEF Link!Older, limit
      <4>. QED  BY <3>2, <3>4, <4>1 DEF Sent
    <3>. QED  BY <2>1, <3>2, <3>3, <3>4, <3>5, <3>7 DEF Sent, Had
  <2>. QED  BY <2>1, <2>3, <2>4, <2>5 DEF LinkInv, Had
<1>8. CASE UNCHANGED Link!vars
  BY <1>8 DEF Link!vars, LinkInv, Entry, Had, Sent
<1>. QED  BY <1>1, <1>2, <1>3, <1>4, <1>5, <1>6, <1>7, <1>8 DEF Link!Next

LEMMA LinkRuns == [NetworkNext]_network => [Link!Next]_(Link!vars)
BY DEF NetworkNext, network, Only, Link_vars, Link!vars

(* A lookup of the ARP cache is out of date for less than the timeout of an *)
(* entry and the delay of a packet, unless an administrator entered the     *)
(* address; and the detector sounds no alarm as long as no interface was    *)
(* exchanged.                                                               *)
THEOREM LookupsAreFresh == NetworkSpec => []StaleIsBounded
<1>1. NetworkInit => LinkInv
  BY LinkInit DEF NetworkInit
<1>2. LinkInv /\ [NetworkNext]_network => LinkInv'
  BY LinkNext, LinkRuns
<1>3. LinkInv => StaleIsBounded
  <2> SUFFICES ASSUME LinkInv, NEW h \in Host, NEW ip \in Host,
                      Link!lookup(h, ip) \notin {Link!zero, Link!mac(ip)}
               PROVE  /\ since[ip] < timeout + MaxDelay \/ cache[h][ip].is_static
                      /\ \E v \in 0 .. version[ip] : Link!lookup(h, ip) = <<ip, v>>
    BY DEF LinkInv, StaleIsBounded, Link!StaleIsBounded
  <2>1. /\ ip \in DOMAIN cache[h] /\ Link!Valid(cache[h][ip])
        /\ Link!lookup(h, ip) = cache[h][ip].mac
    BY DEF Link!lookup
  <2>2. Entry(cache[h][ip], ip) /\ cache[h][ip].mac # <<ip, version[ip]>>
    BY <2>1 DEF LinkInv, Link!mac
  <2>3. cache[h][ip].age \in Nat /\ since[ip] \in Nat
    BY <2>2 DEF Entry, EntryType, LinkInv
  <2>. QED  BY <2>1, <2>2, <2>3, LinkAssumption DEF Entry, Had, Link!Valid
<1>. QED
  BY <1>1, <1>2, <1>3, PTL DEF NetworkSpec

-----------------------------------------------------------------------------
(* TcpStateManager: at every place of run_client() and run_server(), what   *)
(* the connection believes and whether the FINs were sent and read.         *)
Believed(s, place, read, sent) ==
  /\ s \in {"Closed", "Listen"} => place \in {"connect", "accept"} /\ ~read /\ ~sent
  /\ place \in {"connect", "accept"} => s \in {"Closed", "Listen"}
  /\ place \in {"hello", "answer", "shutdown", "loop", "echo"} => s = "Established"
  /\ place = "final" => s \in {"Established", "CloseWait"}
  /\ place = "sleep" => s = "FinWait1"
  /\ place = "half_closed" => s = "FinWait2"
  /\ place \in {"goodbye", "close"} => s = "CloseWait"
  /\ place \in {"final", "goodbye"} => ~sent
  /\ place = "close" => sent
  /\ s = "Established" => ~read /\ (sent => place = "done")
  /\ s \in {"FinWait1", "FinWait2"} => sent /\ ~read
  /\ s = "CloseWait" => read
  /\ s \in {"Closed", "Listen", "Established", "FinWait1", "FinWait2", "CloseWait"}
  /\ place \in {"connect", "accept", "hello", "answer", "final", "shutdown", "sleep",
                "half_closed", "loop", "echo", "goodbye", "close", "done"}

TcpInv ==
  /\ DOMAIN current_state = Tcp!End /\ DOMAIN at = Tcp!End
  /\ DOMAIN fin_read = Tcp!End /\ DOMAIN fin_sent = Tcp!End
  /\ \A e \in Tcp!End : Believed(current_state[e], at[e], fin_read[e], fin_sent[e])

LEMMA TcpInit == Tcp!Init => TcpInv
<1> SUFFICES ASSUME Tcp!Init PROVE TcpInv
  OBVIOUS
<1>1. /\ DOMAIN current_state = Tcp!End /\ DOMAIN at = Tcp!End
      /\ DOMAIN fin_read = Tcp!End /\ DOMAIN fin_sent = Tcp!End
  BY DEF Tcp!Init
<1>2. ASSUME NEW e \in Tcp!End
      PROVE  /\ current_state[e] \in {"Closed", "Listen"} /\ at[e] \in {"connect", "accept"}
             /\ ~fin_read[e] /\ ~fin_sent[e]
  BY DEF Tcp!Init
<1>3. ASSUME NEW e \in Tcp!End
      PROVE  Believed(current_state[e], at[e], fin_read[e], fin_sent[e])
  BY <1>2 DEF Believed
<1>. QED  BY <1>1, <1>3 DEF TcpInv

(* One end moves to a place where its beliefs are right. *)
LEMMA OneEnd ==
  ASSUME TcpInv, NEW e \in Tcp!End, NEW to, NEW s,
         at' = [at EXCEPT ![e] = to],
         \/ current_state' = [current_state EXCEPT ![e] = s]
         \/ current_state' = current_state /\ s = current_state[e],
         fin_read' = fin_read \/ fin_read' = [fin_read EXCEPT ![e] = TRUE],
         fin_sent' = fin_sent \/ fin_sent' = [fin_sent EXCEPT ![e] = TRUE],
         Believed(s, to, fin_read'[e], fin_sent'[e])
  PROVE  TcpInv'
<1>1. /\ DOMAIN current_state' = Tcp!End /\ DOMAIN at' = Tcp!End
      /\ current_state'[e] = s /\ at'[e] = to
      /\ \A d \in Tcp!End : d # e => current_state'[d] = current_state[d] /\ at'[d] = at[d]
  BY DEF TcpInv
<1>2. DOMAIN fin_read' = Tcp!End /\ \A d \in Tcp!End : d # e => fin_read'[d] = fin_read[d]
  BY DEF TcpInv
<1>3. DOMAIN fin_sent' = Tcp!End /\ \A d \in Tcp!End : d # e => fin_sent'[d] = fin_sent[d]
  BY DEF TcpInv
<1>4. ASSUME NEW d \in Tcp!End
      PROVE  Believed(current_state'[d], at'[d], fin_read'[d], fin_sent'[d])
  BY <1>1, <1>2, <1>3 DEF TcpInv
<1>. QED  BY <1>1, <1>2, <1>3, <1>4 DEF TcpInv

LEMMA TcpNext == TcpInv /\ [Tcp!Next]_(Tcp!vars) => TcpInv'
<1> SUFFICES ASSUME TcpInv, [Tcp!Next]_(Tcp!vars) PROVE TcpInv'
  OBVIOUS
<1>1. ASSUME NEW e \in Tcp!End
      PROVE  Believed(current_state[e], at[e], fin_read[e], fin_sent[e])
  BY DEF TcpInv
<1>2. ASSUME NEW e \in Tcp!End, NEW from, Tcp!Drop(e, from), from \notin {"connect", "accept"}
      PROVE  TcpInv'
  <2>1. /\ at[e] = from /\ at' = [at EXCEPT ![e] = "done"]
        /\ fin_sent' = [fin_sent EXCEPT ![e] = TRUE] /\ current_state' = current_state
        /\ fin_read' = fin_read
    BY <1>2 DEF Tcp!Drop, Tcp!Goto
  <2>2. fin_sent'[e]
    BY <2>1 DEF TcpInv
  <2>3. Believed(current_state[e], "done", fin_read'[e], fin_sent'[e])
    BY <1>1, <1>2, <2>1, <2>2 DEF Believed
  <2>. QED  BY <2>1, <2>3, OneEnd
<1>3. ASSUME NEW e \in Tcp!End, NEW from, NEW to,
             at[e] = from /\ at' = [at EXCEPT ![e] = to],
             UNCHANGED <<current_state, fin_read, fin_sent>>,
             \/ from = "hello" /\ to = "answer"
             \/ from = "final" /\ to = "shutdown" /\ current_state[e] = "Established"
             \/ from = "answer" /\ to = "final"
             \/ from = "half_closed" /\ to = "half_closed"
             \/ from = "loop" /\ to = "echo"
             \/ from = "echo" /\ to = "loop"
             \/ from = "goodbye" /\ to = "close" /\ current_state[e] = "Established"
      PROVE  TcpInv'
  <2>1. Believed(current_state[e], to, fin_read[e], fin_sent[e])
    BY <1>1, <1>3 DEF Believed
  <2>2. current_state' = current_state /\ fin_read' = fin_read /\ fin_sent' = fin_sent
    BY <1>3
  <2>. QED  BY <1>3, <2>1, <2>2, OneEnd
<1>4. ASSUME NEW e \in Tcp!End, NEW from, NEW to, Tcp!ReceiveFin(e, from, to),
             \/ from = "answer" /\ to = "final"
             \/ from = "half_closed" /\ to = "close"
             \/ from = "loop" /\ to = "goodbye"
      PROVE  TcpInv'
  <2>1. /\ at[e] = from /\ at' = [at EXCEPT ![e] = to] /\ fin_sent' = fin_sent
        /\ current_state' = [current_state EXCEPT ![e] = "CloseWait"]
        /\ fin_read' = [fin_read EXCEPT ![e] = TRUE]
    BY <1>4 DEF Tcp!ReceiveFin, Tcp!Goto
  <2>2. fin_read'[e]
    BY <2>1 DEF TcpInv
  <2>3. Believed("CloseWait", to, fin_read'[e], fin_sent'[e])
    BY <1>1, <1>4, <2>1, <2>2 DEF Believed
  <2>. QED  BY <2>1, <2>3, OneEnd
<1>5. ASSUME NEW e \in Tcp!End, NEW from, NEW to, NEW n, Tcp!SendData(e, from, to, n)
      PROVE  /\ at[e] = from /\ at' = [at EXCEPT ![e] = to]
             /\ UNCHANGED <<current_state, fin_read, fin_sent>>
             /\ current_state[e] = "Established"
  BY <1>5 DEF Tcp!SendData, Tcp!Goto
<1>5a. ASSUME NEW e \in Tcp!End, NEW from, NEW to, Tcp!ReceiveData(e, from, to)
       PROVE  /\ at[e] = from /\ at' = [at EXCEPT ![e] = to]
              /\ UNCHANGED <<current_state, fin_read, fin_sent>>
  BY <1>5a DEF Tcp!ReceiveData, Tcp!Goto
<1>6. "client" \in Tcp!End /\ "server" \in Tcp!End
  BY DEF Tcp!End
<1>7. CASE Tcp!Connect
  <2>1. /\ \A e \in Tcp!End : at'[e] \in {"hello", "loop"} /\ current_state'[e] = "Established"
        /\ at["client"] = "connect" /\ at["server"] = "accept"
        /\ fin_read' = fin_read /\ fin_sent' = fin_sent
        /\ DOMAIN at' = Tcp!End /\ DOMAIN current_state' = Tcp!End
    BY <1>7 DEF Tcp!Connect
  <2>2. ASSUME NEW e \in Tcp!End
        PROVE  Believed(current_state'[e], at'[e], fin_read'[e], fin_sent'[e])
    <3>1. at[e] \in {"connect", "accept"}
      BY <2>1 DEF Tcp!End
    <3>2. ~fin_read'[e] /\ ~fin_sent'[e]
      BY <1>1, <2>1, <3>1 DEF Believed
    <3>. QED  BY <2>1, <3>2 DEF Believed
  <2>. QED  BY <2>1, <2>2 DEF TcpInv
<1>8. CASE Tcp!Client
  <2>1. CASE \E n \in {1, 2} : Tcp!SendData("client", "hello", "answer", n)
    BY <1>3, <1>5, <1>6, <2>1
  <2>2. CASE \E n \in {1, 2} : Tcp!SendData("client", "final", "shutdown", n)
    BY <1>3, <1>5, <1>6, <2>2
  <2>3. CASE Tcp!ClientAnswer
    <3>1. CASE Tcp!ReceiveData("client", "answer", "final")
      BY <1>3, <1>5a, <1>6, <3>1
    <3>2. CASE Tcp!ReceiveFin("client", "answer", "final")
      BY <1>4, <1>6, <3>2
    <3>. QED  BY <2>3, <3>1, <3>2 DEF Tcp!ClientAnswer
  <2>4. CASE Tcp!ClientTimeout
    BY <1>3, <1>6, <2>4 DEF Tcp!ClientTimeout, Tcp!Goto
  <2>5. CASE Tcp!ShutdownWrite("client", "shutdown", "sleep")
    <3>1. /\ at["client"] = "shutdown" /\ at' = [at EXCEPT !["client"] = "sleep"]
          /\ current_state' = [current_state EXCEPT !["client"] = "FinWait1"]
          /\ fin_sent' = [fin_sent EXCEPT !["client"] = TRUE] /\ fin_read' = fin_read
      BY <2>5 DEF Tcp!ShutdownWrite, Tcp!Goto
    <3>2. fin_sent'["client"]
      BY <1>6, <3>1 DEF TcpInv
    <3>3. Believed("FinWait1", "sleep", fin_read'["client"], fin_sent'["client"])
      BY <1>1, <1>6, <3>1, <3>2 DEF Believed
    <3>. QED  BY <1>6, <3>1, <3>3, OneEnd
  <2>6. CASE Tcp!FinAcked
    <3>1. /\ at["client"] = "sleep" /\ at' = [at EXCEPT !["client"] = "half_closed"]
          /\ current_state' = [current_state EXCEPT !["client"] = "FinWait2"]
          /\ fin_read' = fin_read /\ fin_sent' = fin_sent
      BY <2>6 DEF Tcp!FinAcked, Tcp!Goto
    <3>2. Believed("FinWait2", "half_closed", fin_read'["client"], fin_sent'["client"])
      BY <1>1, <1>6, <3>1 DEF Believed
    <3>. QED  BY <1>6, <3>1, <3>2, OneEnd
  <2>7. CASE Tcp!ReceiveData("client", "half_closed", "half_closed")
    BY <1>3, <1>5a, <1>6, <2>7
  <2>7a. CASE Tcp!ReceiveFin("client", "half_closed", "close")
    BY <1>4, <1>6, <2>7a
  <2>8. CASE Tcp!Drop("client", "close")
    BY <1>2, <1>6, <2>8
  <2>. QED  BY <1>8, <2>1, <2>2, <2>3, <2>4, <2>5, <2>6, <2>7, <2>7a, <2>8 DEF Tcp!Client
<1>9. CASE Tcp!Server
  <2>1. CASE Tcp!ReceiveData("server", "loop", "echo")
    BY <1>3, <1>5a, <1>6, <2>1
  <2>1a. CASE Tcp!SendData("server", "echo", "loop", 1)
    BY <1>3, <1>5, <1>6, <2>1a
  <2>2. CASE Tcp!ReceiveFin("server", "loop", "goodbye")
    BY <1>4, <1>6, <2>2
  <2>3. CASE Tcp!SendData("server", "goodbye", "close", 1)
    BY <1>3, <1>5, <1>6, <2>3
  <2>4. CASE Tcp!Drop("server", "close")
    BY <1>2, <1>6, <2>4
  <2>. QED  BY <1>9, <2>1, <2>1a, <2>2, <2>3, <2>4 DEF Tcp!Server
<1>10. CASE Tcp!ServerRefused \/ Tcp!ClientRefused
  BY <1>2, <1>6, <1>10 DEF Tcp!ServerRefused, Tcp!ClientRefused
<1>11. ASSUME NEW e \in Tcp!End, Tcp!Fail(e) PROVE TcpInv'
  BY <1>2, <1>11 DEF Tcp!Fail
<1>12. CASE UNCHANGED Tcp!vars
  BY <1>12 DEF Tcp!vars, TcpInv
<1>. QED
  BY <1>7, <1>8, <1>9, <1>10, <1>11, <1>12 DEF Tcp!Next, Tcp!Step

LEMMA TcpRuns == [NetworkNext]_network => [Tcp!Next]_(Tcp!vars)
BY DEF NetworkNext, network, Only, Tcp_vars, Tcp!vars

(* The streams: a FIN is the last thing in one, and was sent. *)
Ended(b, sent) ==
  /\ b \in Seq({"data", "FIN"})
  /\ \A k \in 1 .. Len(b) : b[k] = "FIN" => k = Len(b) /\ sent

TcpStreams ==
  /\ DOMAIN stream = Tcp!End
  /\ \A e \in Tcp!End : /\ Ended(stream[e], fin_sent[Tcp!Peer(e)])
                        /\ fin_read[e] => fin_sent[Tcp!Peer(e)]

LEMMA StreamsInit == Tcp!Init => TcpStreams
BY DEF Tcp!Init, TcpStreams, Ended, Tcp!End

LEMMA EndedTail ==
  ASSUME NEW sent, NEW b, Ended(b, sent), b # << >> PROVE Ended(Tail(b), sent)
<1>1. /\ Tail(b) \in Seq({"data", "FIN"}) /\ Len(Tail(b)) = Len(b) - 1 /\ Len(b) \in Nat
      /\ \A k \in 1 .. Len(Tail(b)) : Tail(b)[k] = b[k + 1]
  BY HeadTailProperties, LenProperties DEF Ended
<1>2. \A k \in 1 .. Len(Tail(b)) : k + 1 \in 1 .. Len(b)
  BY <1>1
<1>3. ASSUME NEW k \in 1 .. Len(Tail(b)), Tail(b)[k] = "FIN"
      PROVE  k = Len(Tail(b)) /\ sent
  <2>1. b[k + 1] = "FIN" /\ k + 1 \in 1 .. Len(b)
    BY <1>1, <1>2, <1>3
  <2>2. k + 1 = Len(b)
    BY <2>1 DEF Ended
  <2>3. sent
    BY <2>1 DEF Ended
  <2>4. k = Len(Tail(b))
    <3>1. k \in Nat /\ k = (k + 1) - 1
      BY <1>1
    <3>2. Len(Tail(b)) = Len(b) - 1
      BY <1>1
    <3> QED BY <2>2, <3>1, <3>2, Zenon
  <2> QED BY <2>3, <2>4, Zenon
<1> QED BY <1>1, <1>3 DEF Ended

(* Data is written before the FIN, and the FIN once. *)
LEMMA EndedMore ==
  ASSUME NEW b, Ended(b, FALSE), NEW s \in Seq({"data", "FIN"}), NEW sent,
         \A k \in 1 .. Len(s) : s[k] = "FIN" => k = Len(s) /\ sent
  PROVE  Ended(b \o s, sent)
<1>1. /\ b \o s \in Seq({"data", "FIN"}) /\ Len(b \o s) = Len(b) + Len(s)
      /\ Len(b) \in Nat /\ Len(s) \in Nat
      /\ \A k \in 1 .. (Len(b) + Len(s)) :
           (b \o s)[k] = IF k <= Len(b) THEN b[k] ELSE s[k - Len(b)]
  BY ConcatProperties, LenProperties DEF Ended
<1>2. ASSUME NEW k \in 1 .. (Len(b) + Len(s)), (b \o s)[k] = "FIN"
      PROVE  k = Len(b) + Len(s) /\ sent
  <2>1. CASE k <= Len(b)
    BY <1>1, <1>2, <2>1 DEF Ended
  <2>2. CASE ~(k <= Len(b))
    <3>1. k - Len(b) \in 1 .. Len(s) /\ s[k - Len(b)] = "FIN"
      BY <1>1, <1>2, <2>2
    <3> QED BY <1>1, <3>1
  <2> QED BY <2>1, <2>2
<1> QED BY <1>1, <1>2 DEF Ended

(* A write by e: nothing, or data or a FIN when no FIN has been sent. *)
LEMMA WriteStep ==
  ASSUME TcpInv, TcpStreams, NEW e \in Tcp!End, NEW s, Tcp!Written(e, s), fin_read' = fin_read,
         \/ s = << >> /\ (fin_sent' = fin_sent \/ fin_sent' = [fin_sent EXCEPT ![e] = TRUE])
         \/ /\ ~fin_sent[e] /\ s \in Seq({"data"}) /\ fin_sent' = fin_sent
         \/ /\ ~fin_sent[e] /\ s = <<"FIN">> /\ fin_sent' = [fin_sent EXCEPT ![e] = TRUE]
  PROVE  TcpStreams'
<1>1. Tcp!Peer(e) \in Tcp!End /\ \A d \in Tcp!End : Tcp!Peer(d) \in Tcp!End
  BY DEF Tcp!Peer, Tcp!End
<1>2. Tcp!Peer(Tcp!Peer(e)) = e /\ \A d \in Tcp!End : d # Tcp!Peer(e) => Tcp!Peer(d) = Tcp!Peer(e)
  BY DEF Tcp!Peer, Tcp!End
<1> DEFINE p == Tcp!Peer(e)
<1>3. /\ DOMAIN stream' = Tcp!End
      /\ stream'[p] = stream[p] \/ stream'[p] = stream[p] \o s
      /\ \A d \in Tcp!End : d # p => stream'[d] = stream[d]
  BY <1>1 DEF Tcp!Written, TcpStreams
<1>4. \A d \in Tcp!End : (fin_sent[d] => fin_sent'[d]) /\ (d # e => fin_sent'[d] = fin_sent[d])
  BY DEF TcpInv
<1>5. ASSUME NEW d \in Tcp!End PROVE Ended(stream[d], fin_sent'[Tcp!Peer(d)])
  BY <1>1, <1>4 DEF TcpStreams, Ended
<1>6. Ended(stream[p], fin_sent[e])
  BY <1>1, <1>2 DEF TcpStreams
<1> HIDE DEF p
<1>7. Ended(stream[p] \o s, fin_sent'[e])
  <2>1. CASE s = << >>
    <3>1. stream[p] \o s = stream[p]
      BY <2>1, <1>6, ConcatEmptySeq DEF Ended
    <3> QED BY <3>1, <1>4, <1>6 DEF Ended
  <2>2. CASE ~fin_sent[e] /\ s \in Seq({"data"})
    <3>1. s \in Seq({"data", "FIN"}) /\ \A k \in 1 .. Len(s) : s[k] # "FIN"
      BY <2>2
    <3>2. Ended(stream[p], FALSE)
      BY <2>2, <1>6 DEF Ended
    <3> QED BY <3>1, <3>2, EndedMore
  <2>3. CASE ~fin_sent[e] /\ s = <<"FIN">> /\ fin_sent' = [fin_sent EXCEPT ![e] = TRUE]
    <3>1. s \in Seq({"data", "FIN"}) /\ Len(s) = 1
      BY <2>3
    <3>2. Ended(stream[p], FALSE)
      BY <2>3, <1>6 DEF Ended
    <3>3. fin_sent'[e]
      BY <2>3 DEF TcpInv
    <3>4. \A k \in 1 .. Len(s) : s[k] = "FIN" => k = Len(s) /\ TRUE
      BY <3>1
    <3>5. Ended(stream[p] \o s, TRUE)
      BY <3>1, <3>2, <3>4, EndedMore
    <3> QED BY <3>3, <3>5 DEF Ended
  <2> QED BY <2>1, <2>2, <2>3
<1>8. ASSUME NEW d \in Tcp!End
      PROVE  /\ Ended(stream'[d], fin_sent'[Tcp!Peer(d)])
             /\ fin_read[d] => fin_sent'[Tcp!Peer(d)]
  <2>1. fin_read[d] => fin_sent'[Tcp!Peer(d)]
    BY <1>1, <1>4 DEF TcpStreams
  <2>2. CASE d = p
    <3>1. Tcp!Peer(d) = e
      BY <2>2, <1>2 DEF p
    <3> QED BY <2>1, <2>2, <3>1, <1>3, <1>5, <1>7
  <2>3. CASE d # p
    BY <2>1, <2>3, <1>3, <1>5
  <2> QED BY <2>2, <2>3
<1> QED BY <1>3, <1>8 DEF TcpStreams

LEMMA StreamsNext == TcpInv /\ TcpStreams /\ [Tcp!Next]_(Tcp!vars) => TcpStreams'
<1> SUFFICES ASSUME TcpInv, TcpStreams, [Tcp!Next]_(Tcp!vars) PROVE TcpStreams'
  OBVIOUS
<1>1. ASSUME NEW e \in Tcp!End
      PROVE  Believed(current_state[e], at[e], fin_read[e], fin_sent[e])
  BY DEF TcpInv
<1>2. CASE UNCHANGED <<stream, fin_read, fin_sent>>
  BY <1>2 DEF TcpStreams
<1>3. ASSUME NEW e \in Tcp!End, NEW from, Tcp!Drop(e, from) PROVE TcpStreams'
  <2>1. /\ Tcp!Written(e, IF fin_sent[e] THEN << >> ELSE <<"FIN">>)
        /\ fin_sent' = [fin_sent EXCEPT ![e] = TRUE] /\ fin_read' = fin_read
    BY <1>3 DEF Tcp!Drop
  <2>2. CASE fin_sent[e]
    BY <2>1, <2>2, WriteStep
  <2>3. CASE ~fin_sent[e]
    BY <2>1, <2>3, WriteStep
  <2> QED BY <2>2, <2>3
<1>4. ASSUME NEW e \in Tcp!End, NEW from, NEW to, NEW n \in Nat, Tcp!SendData(e, from, to, n),
             from # "done"
      PROVE  TcpStreams'
  <2>1. /\ Tcp!Written(e, [k \in 1 .. n |-> "data"]) /\ fin_sent' = fin_sent /\ fin_read' = fin_read
        /\ current_state[e] = "Established" /\ at[e] = from
    BY <1>4 DEF Tcp!SendData, Tcp!Goto
  <2>2. ~fin_sent[e]
    BY <1>1, <1>4, <2>1 DEF Believed
  <2>3. [k \in 1 .. n |-> "data"] \in Seq({"data"})
    OBVIOUS
  <2> QED BY <2>1, <2>2, <2>3, WriteStep
<1>5. ASSUME NEW e \in Tcp!End, NEW from, NEW to, Tcp!ReceiveData(e, from, to) PROVE TcpStreams'
  <2>1. /\ stream[e] # << >> /\ stream' = [stream EXCEPT ![e] = Tail(stream[e])]
        /\ fin_sent' = fin_sent /\ fin_read' = fin_read
    BY <1>5 DEF Tcp!ReceiveData
  <2>2. Ended(Tail(stream[e]), fin_sent[Tcp!Peer(e)])
    BY <2>1, EndedTail DEF TcpStreams
  <2> QED BY <2>1, <2>2 DEF TcpStreams
<1>6. ASSUME NEW e \in Tcp!End, NEW from, NEW to, Tcp!ReceiveFin(e, from, to) PROVE TcpStreams'
  <2>1. /\ stream[e] # << >> /\ Head(stream[e]) = "FIN" /\ stream' = stream
        /\ fin_sent' = fin_sent /\ fin_read' = [fin_read EXCEPT ![e] = TRUE]
    BY <1>6 DEF Tcp!ReceiveFin
  <2>2. Ended(stream[e], fin_sent[Tcp!Peer(e)])
    BY DEF TcpStreams
  <2>3. 1 \in 1 .. Len(stream[e]) /\ stream[e][1] = "FIN"
    BY <2>1, <2>2 DEF Ended
  <2>4. fin_sent[Tcp!Peer(e)]
    BY <2>2, <2>3 DEF Ended
  <2>5. \A d \in Tcp!End : fin_read'[d] => fin_sent[Tcp!Peer(d)]
    BY <2>1, <2>4 DEF TcpStreams, TcpInv
  <2> QED BY <2>1, <2>5 DEF TcpStreams
<1>7. "client" \in Tcp!End /\ "server" \in Tcp!End
  BY DEF Tcp!End
<1>8. CASE Tcp!Client
  <2>1. CASE Tcp!ShutdownWrite("client", "shutdown", "sleep")
    <3>1. /\ Tcp!Written("client", <<"FIN">>) /\ fin_read' = fin_read
          /\ fin_sent' = [fin_sent EXCEPT !["client"] = TRUE] /\ at["client"] = "shutdown"
      BY <2>1 DEF Tcp!ShutdownWrite, Tcp!Goto
    <3>2. ~fin_sent["client"]
      BY <1>1, <1>7, <3>1 DEF Believed
    <3> QED BY <1>7, <3>1, <3>2, WriteStep
  <2>2. CASE Tcp!FinAcked \/ Tcp!ClientTimeout
    BY <1>2, <2>2 DEF Tcp!FinAcked, Tcp!ClientTimeout
  <2>3. CASE Tcp!ClientAnswer
    BY <1>5, <1>6, <1>7, <2>3 DEF Tcp!ClientAnswer
  <2>4. CASE \E n \in {1, 2} : \/ Tcp!SendData("client", "hello", "answer", n)
                              \/ Tcp!SendData("client", "final", "shutdown", n)
    BY <1>4, <1>7, <2>4
  <2>5. CASE \/ Tcp!ReceiveData("client", "half_closed", "half_closed")
             \/ Tcp!ReceiveFin("client", "half_closed", "close") \/ Tcp!Drop("client", "close")
    BY <1>3, <1>5, <1>6, <1>7, <2>5
  <2> QED BY <1>8, <2>1, <2>2, <2>3, <2>4, <2>5 DEF Tcp!Client
<1>9. CASE Tcp!Server
  <2>1. CASE Tcp!SendData("server", "echo", "loop", 1) \/ Tcp!SendData("server", "goodbye", "close", 1)
    BY <1>4, <1>7, <2>1
  <2>2. CASE Tcp!ReceiveData("server", "loop", "echo") \/ Tcp!ReceiveFin("server", "loop", "goodbye")
             \/ Tcp!Drop("server", "close")
    BY <1>3, <1>5, <1>6, <1>7, <2>2
  <2> QED BY <1>9, <2>1, <2>2 DEF Tcp!Server
<1>10. CASE Tcp!ServerRefused \/ Tcp!ClientRefused
  BY <1>3, <1>7, <1>10 DEF Tcp!ServerRefused, Tcp!ClientRefused
<1>11. ASSUME NEW e \in Tcp!End, Tcp!Fail(e) PROVE TcpStreams'
  BY <1>3, <1>11 DEF Tcp!Fail
<1>12. CASE Tcp!Connect \/ UNCHANGED Tcp!vars
  BY <1>2, <1>12 DEF Tcp!Connect, Tcp!vars
<1> QED BY <1>8, <1>9, <1>10, <1>11, <1>12 DEF Tcp!Next, Tcp!Step

(* Whatever run_client(), run_server(), the timeout of a read and a failing  *)
(* connection interleave, TcpConnection believes the state that the FINs put *)
(* it in (except the client that has closed both ways, which believes        *)
(* CLOSE_WAIT), nothing is written behind a FIN, and no FIN is read that was *)
(* not sent.                                                                 *)
THEOREM TcpStateIsTrue == NetworkSpec => []Tcp!StateTruthful
<1>1. NetworkInit => TcpInv /\ TcpStreams
  BY TcpInit, StreamsInit DEF NetworkInit
<1>2. TcpInv /\ TcpStreams /\ [NetworkNext]_network => TcpInv' /\ TcpStreams'
  BY TcpNext, StreamsNext, TcpRuns
<1>3. TcpInv /\ TcpStreams => Tcp!StateTruthful
  <2> SUFFICES ASSUME TcpInv, TcpStreams, NEW e \in Tcp!End
               PROVE  /\ at[e] \notin {"connect", "accept", "done"} =>
                           \/ current_state[e] \in Tcp!TrueState(e)
                           \/ /\ at[e] = "close" /\ Tcp!TrueState(e) = {"TimeWait"}
                              /\ current_state[e] = "CloseWait"
                      /\ \A k \in 1 .. Len(stream[e]) : stream[e][k] = "FIN" => k = Len(stream[e])
                      /\ fin_read[e] => fin_sent[Tcp!Peer(e)]
    BY DEF Tcp!StateTruthful
  <2>1. Believed(current_state[e], at[e], fin_read[e], fin_sent[e])
    BY DEF TcpInv
  <2>2. Ended(stream[e], fin_sent[Tcp!Peer(e)]) /\ (fin_read[e] => fin_sent[Tcp!Peer(e)])
    BY DEF TcpStreams
  <2>3. at[e] \notin {"connect", "accept", "done"} =>
           \/ current_state[e] \in Tcp!TrueState(e)
           \/ /\ at[e] = "close" /\ Tcp!TrueState(e) = {"TimeWait"}
              /\ current_state[e] = "CloseWait"
    <3>1. CASE ~fin_sent[e] /\ ~fin_read[e]
      <4>1. Tcp!TrueState(e) = {"Established"}
        BY <3>1 DEF Tcp!TrueState
      <4> QED BY <2>1, <3>1, <4>1 DEF Believed
    <3>2. CASE fin_sent[e] /\ ~fin_read[e]
      <4>1. Tcp!TrueState(e) = {"FinWait1", "FinWait2"}
        BY <3>2 DEF Tcp!TrueState
      <4> QED BY <2>1, <3>2, <4>1 DEF Believed
    <3>3. CASE ~fin_sent[e] /\ fin_read[e]
      <4>1. Tcp!TrueState(e) = {"CloseWait"}
        BY <3>3 DEF Tcp!TrueState
      <4> QED BY <2>1, <3>3, <4>1 DEF Believed
    <3>4. CASE fin_sent[e] /\ fin_read[e]
      <4>1. Tcp!TrueState(e) = {"TimeWait"}
        BY <3>4 DEF Tcp!TrueState
      <4> QED BY <2>1, <3>4, <4>1 DEF Believed
    <3> QED BY <3>1, <3>2, <3>3, <3>4
  <2> QED BY <2>2, <2>3 DEF Ended
<1>. QED
  BY <1>1, <1>2, <1>3, PTL DEF NetworkSpec

-----------------------------------------------------------------------------
(* ReliableUdp.  Facts about numbers first: the remainder of a number that  *)
(* grows by a window, and the first number missing from a finite set.       *)

LEMMA SameRemainder ==
  ASSUME NEW w \in Nat \ {0}, NEW p \in Int, NEW q \in Int,
         NEW r \in 0 .. (w - 1), NEW s \in 0 .. (w - 1), w * p + r = w * q + s
  PROVE  r = s
<1>1. \A d \in Int : d >= 1 => w * d >= w
  OBVIOUS
<1>2. w * (p - q) = s - r /\ w * (q - p) = r - s
  OBVIOUS
<1>3. ~(p - q >= 1) /\ ~(q - p >= 1)
  BY <1>1, <1>2
<1>. QED  BY <1>3

LEMMA Quotient ==
  ASSUME NEW a \in Nat, NEW w \in Nat \ {0}
  PROVE  \E q \in Int : \E r \in 0 .. (w - 1) : r = a % w /\ a = w * q + r
<1>1. a = w * (a \div w) + (a % w)
  BY Z3
<1>2. a % w \in 0 .. (w - 1) /\ a \div w \in Int
  OBVIOUS
<1>. QED  BY <1>1, <1>2

LEMMA NextWindow ==
  ASSUME NEW a \in Nat, NEW w \in Nat \ {0}
  PROVE  (a + w) % w = a % w
<1>1. PICK q \in Int, r \in 0 .. (w - 1) : r = a % w /\ a = w * q + r
  BY Quotient
<1>2. PICK p \in Int, s \in 0 .. (w - 1) : s = (a + w) % w /\ a + w = w * p + s
  BY Quotient
<1>3. w * (q + 1) + r = w * p + s
  BY <1>1, <1>2
<1>4. r = s
  BY <1>3, SameRemainder
<1>. QED  BY <1>1, <1>2, <1>4

LEMMA LeastNumber ==
  ASSUME NEW T, T \subseteq Nat, T # {}
  PROVE  \E n \in T : \A k \in T : n <= k
<1>1. OpToRel(<, Nat) = {ss \in Nat \X Nat : ss[1] < ss[2]}
  BY DEF OpToRel
<1> DEFINE less == {ss \in Nat \X Nat : ss[1] < ss[2]}
<1>2. IsWellFoundedOn(less, Nat)
  BY <1>1, NatLessThanWellFounded
<1>3. PICK n \in T : \A k \in T : ~(<<k, n>> \in less)
  <2> HIDE DEF less
  <2>. QED  BY <1>2, WFMin
<1>4. \A k \in T : ~(k < n)
  BY <1>3
<1>. QED  BY <1>4

LEMMA FirstMissing ==
  ASSUME NEW S, IsFiniteSet(S), NEW from \in Nat
  PROVE  \E n \in from .. (from + Cardinality(S)) :
           n \notin S /\ \A k \in from .. (n - 1) : k \in S
<1>1. Cardinality(S) \in Nat
  BY FS_CardinalityType
<1>2. PICK m \in from .. (from + Cardinality(S)) : m \notin S
  <2> SUFFICES ASSUME (from .. (from + Cardinality(S))) \subseteq S PROVE FALSE
    OBVIOUS
  <2>1. Cardinality(from .. (from + Cardinality(S))) = Cardinality(S) + 1
    BY <1>1, FS_Interval
  <2>2. Cardinality(from .. (from + Cardinality(S))) <= Cardinality(S)
    BY FS_Subset
  <2>. QED  BY <1>1, <2>1, <2>2
<1> DEFINE T == {n \in Nat : n >= from /\ n \notin S}
<1>3. m \in T /\ T \subseteq Nat
  BY <1>1, <1>2
<1>4. PICK n \in T : \A k \in T : n <= k
  <2> HIDE DEF T
  <2>. QED  BY <1>3, LeastNumber
<1>5. \A k \in from .. (n - 1) : k \in S
  BY <1>4
<1>. QED  BY <1>1, <1>2, <1>3, <1>4, <1>5

LEMMA Peers == \A e \in End : Peer(e) \in End /\ Peer(e) # e /\ Peer(Peer(e)) = e
BY DEF Peer, End

-----------------------------------------------------------------------------
SlotType(e) == [packet : Packet(e), retry_count : 0 .. MAX_RETRIES, acked : BOOLEAN]

(* What the sender has put in its window and on the network was numbered.   *)
SenderInv(e) ==
  /\ send_sequence[e] \in 0 .. MaxSend[e]
  /\ net[e] \subseteq Packet(e)
  /\ \A p \in net[e] : p.sequence < send_sequence[e]
  /\ send_window[e] \in [Slots -> SlotType(e)]
  /\ givenUp[e] \subseteq Seqs(e)

(* A packet that waits in slot i has a number that belongs there, one of    *)
(* the last WINDOW_SIZE that were given.                                    *)
WindowInv(e) ==
  \A i \in Slots : ~send_window[e][i].acked =>
    /\ send_window[e][i].packet.sequence % WINDOW_SIZE = i
    /\ send_window[e][i].packet.sequence < send_sequence[e]
    /\ send_sequence[e] <= send_window[e][i].packet.sequence + WINDOW_SIZE

(* What was returned is behind recv_sequence, what is buffered ahead of it. *)
ReceiverInv(e) ==
  /\ recv_sequence[e] \in Seqs(Peer(e))
  /\ recv_buffer[e] \subseteq Seqs(Peer(e))
  /\ \A k \in recv_buffer[e] : /\ k > recv_sequence[e] /\ k < recv_sequence[e] + BITS
                               /\ k < MaxSend[Peer(e)]
  /\ recv_ack_bitfield[e] \subseteq 0 .. (BITS - 1)
  /\ \A b \in recv_ack_bitfield[e] : recv_sequence[e] + b + 1 \in recv_buffer[e]

ReturnedInv(e) ==
  /\ delivered[e] \in Seq(Nat)
  /\ \A i \in 1 .. Len(delivered[e]) : delivered[e][i] < recv_sequence[e]
  /\ \A i, j \in 1 .. Len(delivered[e]) : i < j => delivered[e][i] < delivered[e][j]
  /\ \A i \in 1 .. Len(delivered[e]) :
       \E p \in net[Peer(e)] : p.sequence = delivered[e][i] /\ p.data = "data"

UdpInv ==
  /\ DOMAIN net = End /\ DOMAIN send_sequence = End /\ DOMAIN send_window = End
  /\ DOMAIN givenUp = End /\ DOMAIN recv_sequence = End /\ DOMAIN recv_buffer = End
  /\ DOMAIN recv_ack_bitfield = End /\ DOMAIN delivered = End
  /\ send_sequence = [e \in End |-> send_sequence[e]]
  /\ delivered = [e \in End |-> delivered[e]]
  /\ \A e \in End : SenderInv(e) /\ WindowInv(e) /\ ReceiverInv(e) /\ ReturnedInv(e)

LEMMA UdpInit == Init => UdpInv
<1> SUFFICES ASSUME Init PROVE UdpInv
  OBVIOUS
<1>1. /\ DOMAIN net = End /\ DOMAIN send_sequence = End /\ DOMAIN send_window = End
      /\ DOMAIN givenUp = End /\ DOMAIN recv_sequence = End /\ DOMAIN recv_buffer = End
      /\ DOMAIN recv_ack_bitfield = End /\ DOMAIN delivered = End
      /\ send_sequence = [e \in End |-> send_sequence[e]]
      /\ delivered = [e \in End |-> delivered[e]]
  BY DEF Init
<1>2. ASSUME NEW e \in End PROVE SenderInv(e) /\ WindowInv(e)
  <2>1. /\ net[e] = {} /\ send_sequence[e] = 0 /\ givenUp[e] = {} /\ MaxSend[e] \in Nat
        /\ MaxSend[Peer(e)] \in Nat
    BY Peers, SizesAssumption DEF Init
  <2> DEFINE first == [packet |-> [sequence |-> 0, ack |-> 0, ack_bitfield |-> {},
                                   data |-> "empty"], retry_count |-> 0, acked |-> TRUE]
  <2>2. send_window[e] = [i \in Slots |-> first]
    BY DEF Init
  <2>3. first \in SlotType(e) /\ first.acked
    BY <2>1, SizesAssumption DEF SlotType, Packet, Seqs, Payload
  <2> HIDE DEF first
  <2>4. send_window[e] \in [Slots -> SlotType(e)] /\ \A i \in Slots : send_window[e][i].acked
    BY <2>2, <2>3
  <2>. QED  BY <2>1, <2>4 DEF SenderInv, WindowInv
<1>3. ASSUME NEW e \in End PROVE ReceiverInv(e) /\ ReturnedInv(e)
  <2>1. /\ recv_sequence[e] = 0 /\ recv_buffer[e] = {} /\ recv_ack_bitfield[e] = {}
        /\ delivered[e] = << >> /\ MaxSend[Peer(e)] \in Nat
    BY Peers, SizesAssumption DEF Init
  <2>. QED  BY <2>1 DEF ReceiverInv, ReturnedInv, Seqs
<1>. QED  BY <1>1, <1>2, <1>3 DEF UdpInv

(* A number is given: the slots in use but the next one keep their place.   *)
LEMMA WindowMoves ==
  ASSUME NEW e \in End, SenderInv(e), WindowInv(e), ~WindowFull(e)
  PROVE  /\ Slot(e) \in Slots
         /\ send_window[e][Slot(e)].acked
         /\ \A i \in Slots : ~send_window[e][i].acked =>
              send_sequence[e] + 1 <= send_window[e][i].packet.sequence + WINDOW_SIZE
<1> DEFINE W == WINDOW_SIZE
           n == send_sequence[e]
<1>1. W \in Nat \ {0} /\ n \in Nat
  BY SizesAssumption DEF SenderInv
<1>2. Slot(e) \in Slots
  BY <1>1 DEF Slot, Slots
<1>3. ASSUME NEW i \in Slots
      PROVE  send_window[e][i].packet.sequence \in Nat
  BY DEF SenderInv, SlotType, Packet, Seqs
<1>4. send_window[e][Slot(e)].acked
  <2> SUFFICES ASSUME ~send_window[e][Slot(e)].acked PROVE FALSE
    OBVIOUS
  <2>1. n <= send_window[e][Slot(e)].packet.sequence + W
    BY <1>2 DEF WindowInv
  <2>2. send_window[e][Slot(e)].packet.sequence >= saturating_sub(n, W)
    BY <1>1, <1>2, <1>3, <2>1 DEF saturating_sub
  <2>. QED  BY <2>2 DEF WindowFull
<1>5. ASSUME NEW i \in Slots, ~send_window[e][i].acked
      PROVE  n + 1 <= send_window[e][i].packet.sequence + W
  <2> DEFINE s == send_window[e][i].packet.sequence
  <2>1. s % W = i /\ n <= s + W /\ s \in Nat
    BY <1>3, <1>5 DEF WindowInv
  <2>2. i # Slot(e)
    BY <1>4, <1>5
  <2>3. n # s + W
    <3> SUFFICES ASSUME n = s + W PROVE FALSE
      OBVIOUS
    <3>1. (s + W) % W = s % W
      BY <1>1, <2>1, NextWindow
    <3>. QED  BY <2>1, <2>2, <3>1 DEF Slot
  <2>. QED  BY <1>1, <2>1, <2>3
<1>. QED  BY <1>2, <1>4, <1>5

LEMMA UdpSend ==
  ASSUME UdpInv, NEW e \in End, NEW d \in Payload, Send(e, d)
  PROVE  UdpInv'
<1>1. SenderInv(e) /\ WindowInv(e) /\ ReceiverInv(e) /\ ~WindowFull(e)
  BY DEF UdpInv, Send
<1>2. /\ Slot(e) \in Slots
      /\ \A i \in Slots : ~send_window[e][i].acked =>
              send_sequence[e] + 1 <= send_window[e][i].packet.sequence + WINDOW_SIZE
  BY <1>1, WindowMoves
<1> DEFINE p == NewPacket(e, d)
           new == [packet |-> p, retry_count |-> 0, acked |-> FALSE]
<1>3. /\ send_sequence[e] \in Nat /\ MaxSend[e] \in Nat /\ send_sequence[e] < MaxSend[e]
  BY <1>1, SizesAssumption DEF SenderInv, Send
<1>4. p \in Packet(e) /\ p.sequence = send_sequence[e]
  <2>1. /\ recv_sequence[e] \in Seqs(Peer(e))
        /\ recv_ack_bitfield[e] \in SUBSET (0 .. (BITS - 1))
    BY <1>1 DEF ReceiverInv
  <2>. QED  BY <1>3, <2>1 DEF NewPacket, Packet, Seqs
<1> HIDE DEF p
<1>5. new \in SlotType(e) /\ new.packet = p /\ ~new.acked
  BY <1>4, SizesAssumption DEF SlotType
<1>6. /\ net' = [net EXCEPT ![e] = net[e] \cup {p}]
      /\ send_window' = [send_window EXCEPT ![e] = [send_window[e] EXCEPT ![Slot(e)] = new]]
      /\ send_sequence' = [send_sequence EXCEPT ![e] = send_sequence[e] + 1]
      /\ UNCHANGED <<givenUp, recv_sequence, recv_ack_bitfield, recv_buffer, delivered>>
  BY DEF Send, receiver, p
<1> HIDE DEF new
<1>7. /\ net'[e] = net[e] \cup {p} /\ send_sequence'[e] = send_sequence[e] + 1
      /\ send_window'[e] = [send_window[e] EXCEPT ![Slot(e)] = new]
      /\ DOMAIN net' = End /\ DOMAIN send_sequence' = End /\ DOMAIN send_window' = End
      /\ \A c \in End : c # e => /\ net'[c] = net[c] /\ send_sequence'[c] = send_sequence[c]
                                 /\ send_window'[c] = send_window[c]
      /\ \A c \in End : net[c] \subseteq net'[c]
      /\ send_sequence' = [c \in End |-> send_sequence'[c]]
  BY <1>6 DEF UdpInv
<1>8. SenderInv(e)'
  <2>1. send_window'[e] \in [Slots -> SlotType(e)]
    BY <1>1, <1>2, <1>5, <1>7 DEF SenderInv
  <2>2. net'[e] \subseteq Packet(e) /\ \A q \in net'[e] : q.sequence < send_sequence'[e]
    <3> SUFFICES ASSUME NEW q \in net'[e]
                 PROVE  q \in Packet(e) /\ q.sequence < send_sequence[e] + 1
      BY <1>7
    <3>1. CASE q = p
      BY <1>3, <1>4, <3>1
    <3>2. CASE q \in net[e]
      <4>1. q \in Packet(e) /\ q.sequence < send_sequence[e]
        BY <1>1, <3>2 DEF SenderInv
      <4>2. q.sequence \in Nat
        BY <4>1, <1>3 DEF Packet, Seqs
      <4>. QED  BY <1>3, <4>1, <4>2
    <3>. QED  BY <1>7, <3>1, <3>2
  <2>3. send_sequence'[e] \in 0 .. MaxSend[e]
    BY <1>3, <1>7
  <2>4. givenUp'[e] \subseteq Seqs(e)
    BY <1>1, <1>6 DEF SenderInv
  <2>. QED  BY <2>1, <2>2, <2>3, <2>4 DEF SenderInv, SlotType, Packet, Seqs, Slots
<1>9. WindowInv(e)'
  <2> SUFFICES ASSUME NEW i \in Slots, ~send_window'[e][i].acked
               PROVE  /\ send_window'[e][i].packet.sequence % WINDOW_SIZE = i
                      /\ send_window'[e][i].packet.sequence < send_sequence'[e]
                      /\ send_sequence'[e] <= send_window'[e][i].packet.sequence + WINDOW_SIZE
    BY DEF WindowInv, Slots
  <2>1. CASE i = Slot(e)
    <3>1. send_window'[e][i] = new
      BY <1>1, <1>7, <2>1 DEF SenderInv
    <3>2. new.packet.sequence = send_sequence[e]
      BY <1>4, <1>5
    <3>3. send_sequence[e] % WINDOW_SIZE = i
      BY <2>1 DEF Slot
    <3>. QED  BY <1>3, <1>7, <3>1, <3>2, <3>3, SizesAssumption
  <2>2. CASE i # Slot(e)
    <3>1. send_window'[e][i] = send_window[e][i]
      BY <1>1, <1>7, <2>2 DEF SenderInv
    <3>2. /\ ~send_window[e][i].acked
          /\ send_window[e][i].packet.sequence % WINDOW_SIZE = i
          /\ send_window[e][i].packet.sequence < send_sequence[e]
          /\ send_sequence[e] + 1 <= send_window[e][i].packet.sequence + WINDOW_SIZE
      BY <1>1, <1>2, <3>1 DEF WindowInv
    <3>3. send_window[e][i].packet.sequence \in Nat
      BY <1>1 DEF SenderInv, SlotType, Packet, Seqs
    <3>. QED  BY <1>3, <1>7, <3>1, <3>2, <3>3
  <2>. QED  BY <2>1, <2>2
<1>10. ASSUME NEW c \in End PROVE ReceiverInv(c)' /\ ReturnedInv(c)'
  <2>1. ReceiverInv(c) /\ ReturnedInv(c) /\ net[Peer(c)] \subseteq net'[Peer(c)]
    BY <1>7, Peers DEF UdpInv
  <2>2. ReceiverInv(c)'
    BY <1>6, <2>1 DEF ReceiverInv, Seqs, Peer
  <2>3. ReturnedInv(c)'
    BY <1>6, <2>1 DEF ReturnedInv, Peer
  <2>. QED  BY <2>2, <2>3
<1>11. ASSUME NEW c \in End, c # e PROVE SenderInv(c)' /\ WindowInv(c)'
  <2>1. SenderInv(c) /\ WindowInv(c) /\ givenUp' = givenUp
    BY <1>6 DEF UdpInv
  <2>. QED  BY <1>7, <1>11, <2>1 DEF SenderInv, WindowInv, SlotType, Packet, Seqs, Slots
<1>. QED  BY <1>6, <1>7, <1>8, <1>9, <1>10, <1>11 DEF UdpInv

LEMMA UdpSendError ==
  ASSUME UdpInv, NEW e \in End, SendError(e)
  PROVE  UdpInv'
<1>1. SenderInv(e) /\ WindowInv(e) /\ ~WindowFull(e)
  BY DEF UdpInv, SendError
<1>2. \A i \in Slots : ~send_window[e][i].acked =>
        send_sequence[e] + 1 <= send_window[e][i].packet.sequence + WINDOW_SIZE
  BY <1>1, WindowMoves
<1>3. send_sequence[e] \in Nat /\ MaxSend[e] \in Nat /\ send_sequence[e] < MaxSend[e]
  BY <1>1, SizesAssumption DEF SenderInv, SendError
<1>4. /\ send_sequence' = [send_sequence EXCEPT ![e] = send_sequence[e] + 1]
      /\ UNCHANGED <<net, send_window, givenUp, recv_sequence, recv_ack_bitfield, recv_buffer,
                     delivered>>
  BY DEF SendError, receiver
<1>5. /\ send_sequence'[e] = send_sequence[e] + 1 /\ DOMAIN send_sequence' = End
      /\ \A c \in End : c # e => send_sequence'[c] = send_sequence[c]
      /\ send_sequence' = [c \in End |-> send_sequence'[c]]
  BY <1>4 DEF UdpInv
<1>6. SenderInv(e)'
  <2>1. \A p \in net[e] : p.sequence < send_sequence[e] + 1
    <3> SUFFICES ASSUME NEW p \in net[e] PROVE p.sequence < send_sequence[e] + 1
      OBVIOUS
    <3>1. p \in Packet(e) /\ p.sequence < send_sequence[e]
      BY <1>1 DEF SenderInv
    <3>. QED  BY <1>3, <3>1 DEF Packet, Seqs
  <2>. QED  BY <1>1, <1>3, <1>4, <1>5, <2>1 DEF SenderInv, SlotType, Packet, Seqs, Slots
<1>7. WindowInv(e)'
  <2> SUFFICES ASSUME NEW i \in Slots, ~send_window[e][i].acked
               PROVE  /\ send_window[e][i].packet.sequence % WINDOW_SIZE = i
                      /\ send_window[e][i].packet.sequence < send_sequence'[e]
                      /\ send_sequence'[e] <= send_window[e][i].packet.sequence + WINDOW_SIZE
    BY <1>4 DEF WindowInv, Slots
  <2>1. /\ send_window[e][i].packet.sequence % WINDOW_SIZE = i
        /\ send_window[e][i].packet.sequence < send_sequence[e]
        /\ send_sequence[e] + 1 <= send_window[e][i].packet.sequence + WINDOW_SIZE
    BY <1>1, <1>2 DEF WindowInv
  <2>2. send_window[e][i].packet.sequence \in Nat
    BY <1>1 DEF SenderInv, SlotType, Packet, Seqs
  <2>. QED  BY <1>3, <1>5, <2>1, <2>2
<1>8. ASSUME NEW c \in End PROVE ReceiverInv(c)' /\ ReturnedInv(c)'
  <2>1. ReceiverInv(c) /\ ReturnedInv(c)
    BY DEF UdpInv
  <2>. QED  BY <1>4, <2>1 DEF ReceiverInv, ReturnedInv, Seqs, Peer
<1>9. ASSUME NEW c \in End, c # e PROVE SenderInv(c)' /\ WindowInv(c)'
  <2>1. SenderInv(c) /\ WindowInv(c)
    BY DEF UdpInv
  <2>. QED  BY <1>4, <1>5, <1>9, <2>1 DEF SenderInv, WindowInv, SlotType, Packet, Seqs, Slots
<1>. QED  BY <1>4, <1>5, <1>6, <1>7, <1>8, <1>9 DEF UdpInv

(* The window of e changes without a packet entering or leaving it, and a   *)
(* slot that is done stays done.                                            *)
SameWindow(e) ==
  /\ DOMAIN send_window' = End
  /\ \A c \in End : c # e => send_window'[c] = send_window[c]
  /\ send_window'[e] \in [Slots -> SlotType(e)]
  /\ \A i \in Slots : /\ send_window'[e][i].packet = send_window[e][i].packet
                      /\ send_window[e][i].acked => send_window'[e][i].acked
                      /\ send_window'[e][i].retry_count >= send_window[e][i].retry_count

LEMMA UdpWindow ==
  ASSUME UdpInv, NEW e \in End, SameWindow(e), UNCHANGED <<net, send_sequence>>,
         \A c \in End : givenUp'[c] \subseteq Seqs(c)
  PROVE  \A c \in End : SenderInv(c)' /\ WindowInv(c)'
<1> SUFFICES ASSUME NEW c \in End PROVE SenderInv(c)' /\ WindowInv(c)'
  OBVIOUS
<1>1. SenderInv(c) /\ WindowInv(c)
  BY DEF UdpInv
<1>2. /\ send_window'[c] \in [Slots -> SlotType(c)]
      /\ \A i \in Slots : ~send_window'[c][i].acked =>
           ~send_window[c][i].acked /\ send_window'[c][i].packet = send_window[c][i].packet
  BY <1>1 DEF SameWindow, SenderInv
<1>3. SenderInv(c)'
  BY <1>1, <1>2 DEF SenderInv, SlotType, Packet, Seqs, Slots
<1>4. WindowInv(c)'
  BY <1>1, <1>2 DEF WindowInv, Slots
<1>. QED  BY <1>3, <1>4

LEMMA UdpRetransmit ==
  ASSUME UdpInv, NEW e \in End, NEW expired \in SUBSET Pending(e), NEW failed \in SUBSET expired,
         process_retransmissions(e, expired, failed)
  PROVE  UdpInv' /\ SameWindow(e)
<1>1. SenderInv(e) /\ MAX_RETRIES \in Nat
  BY SizesAssumption DEF UdpInv
<1>2. /\ send_window' = [send_window EXCEPT ![e] =
           [i \in Slots |->
              IF i \notin expired THEN send_window[e][i]
              ELSE IF GivesUp(e, i) THEN [send_window[e][i] EXCEPT !.acked = TRUE]
              ELSE IF i \in failed THEN send_window[e][i]
              ELSE [send_window[e][i] EXCEPT !.retry_count = send_window[e][i].retry_count + 1]]]
      /\ givenUp' = [givenUp EXCEPT ![e] = givenUp[e] \cup
           {send_window[e][i].packet.sequence : i \in {j \in expired : GivesUp(e, j)}}]
      /\ UNCHANGED <<net, send_sequence, recv_sequence, recv_ack_bitfield, recv_buffer, delivered>>
  <2>1. /\ UNCHANGED <<net, send_sequence, recv_sequence, recv_ack_bitfield, recv_buffer, delivered>>
        /\ givenUp' = [givenUp EXCEPT ![e] = givenUp[e] \cup
           {send_window[e][i].packet.sequence : i \in {j \in expired : GivesUp(e, j)}}]
    BY DEF process_retransmissions, receiver
  <2>2. send_window' = [send_window EXCEPT ![e] =
           [i \in Slots |->
              IF i \notin expired THEN send_window[e][i]
              ELSE IF GivesUp(e, i) THEN [send_window[e][i] EXCEPT !.acked = TRUE]
              ELSE IF i \in failed THEN send_window[e][i]
              ELSE [send_window[e][i] EXCEPT !.retry_count = send_window[e][i].retry_count + 1]]]
    BY DEF process_retransmissions
  <2>. QED  BY <2>1, <2>2
<1>3. SameWindow(e)
  <2>1. /\ DOMAIN send_window' = End
        /\ \A c \in End : c # e => send_window'[c] = send_window[c]
        /\ DOMAIN send_window'[e] = Slots
        /\ send_window'[e] = [i \in Slots |-> send_window'[e][i]]
    BY <1>2 DEF UdpInv
  <2>2. ASSUME NEW i \in Slots
        PROVE  /\ send_window'[e][i] \in SlotType(e)
               /\ send_window'[e][i].packet = send_window[e][i].packet
               /\ send_window[e][i].acked => send_window'[e][i].acked
               /\ send_window'[e][i].retry_count >= send_window[e][i].retry_count
    <3> DEFINE old == send_window[e][i]
               new == send_window'[e][i]
    <3>1. old \in SlotType(e) /\ old.retry_count \in Nat
      BY <1>1 DEF SenderInv, SlotType
    <3>2. \/ new = old
          \/ new = [old EXCEPT !.acked = TRUE]
          \/ ~GivesUp(e, i) /\ new = [old EXCEPT !.retry_count = old.retry_count + 1]
      BY <1>2 DEF UdpInv
    <3>3. GivesUp(e, i) \/ old.retry_count + 1 \in 0 .. MAX_RETRIES
      BY <1>1, <3>1 DEF GivesUp
    <3> HIDE DEF old, new
    <3>7. /\ new \in SlotType(e) /\ new.packet = old.packet /\ (old.acked => new.acked)
          /\ new.retry_count >= old.retry_count
      <4>1. CASE new = old
        BY <3>1, <4>1
      <4>2. CASE new = [old EXCEPT !.acked = TRUE]
        <5>1. /\ new \in SlotType(e) /\ new.packet = old.packet
              /\ new.retry_count = old.retry_count
          BY <3>1, <4>2 DEF SlotType
        <5>2. new.acked
          BY <3>1, <4>2 DEF SlotType
        <5>. QED  BY <3>1, <5>1, <5>2
      <4>3. CASE ~GivesUp(e, i) /\ new = [old EXCEPT !.retry_count = old.retry_count + 1]
        BY <3>1, <3>3, <4>3 DEF SlotType
      <4>. QED  BY <3>2, <4>1, <4>2, <4>3
    <3>. QED  BY <3>7 DEF old, new
  <2>. QED  BY <2>1, <2>2 DEF SameWindow
<1>4. ASSUME NEW c \in End PROVE givenUp'[c] \subseteq Seqs(c)
  <2>1. givenUp[c] \subseteq Seqs(c)
    BY DEF UdpInv, SenderInv
  <2>2. \A i \in Slots : send_window[e][i].packet.sequence \in Seqs(e)
    BY <1>1 DEF SenderInv, SlotType, Packet
  <2>3. expired \subseteq Slots
    BY DEF Pending
  <2>. QED  BY <1>2, <2>1, <2>2, <2>3 DEF UdpInv
<1>5. \A c \in End : SenderInv(c)' /\ WindowInv(c)'
  BY <1>2, <1>3, <1>4, UdpWindow
<1>6. ASSUME NEW c \in End PROVE ReceiverInv(c)' /\ ReturnedInv(c)'
  <2>1. ReceiverInv(c) /\ ReturnedInv(c)
    BY DEF UdpInv
  <2>. QED  BY <1>2, <2>1 DEF ReceiverInv, ReturnedInv, Seqs, Peer
<1>7. DOMAIN givenUp' = End
  BY <1>2 DEF UdpInv
<1>. QED  BY <1>2, <1>3, <1>5, <1>6, <1>7 DEF UdpInv, SameWindow

(* The run of buffered packets ends, at a number the peer may yet give.     *)
LEMMA AfterTheRun ==
  ASSUME NEW e \in End, ReceiverInv(e), NEW from \in Nat, from <= MaxSend[Peer(e)]
  PROVE  /\ AfterBuffered(e, from) \in Nat /\ AfterBuffered(e, from) >= from
         /\ AfterBuffered(e, from) <= MaxSend[Peer(e)]
         /\ AfterBuffered(e, from) \notin recv_buffer[e]
<1> DEFINE S == recv_buffer[e]
           n == AfterBuffered(e, from)
<1>1. MaxSend[Peer(e)] \in Nat /\ S \subseteq 0 .. MaxSend[Peer(e)]
  BY Peers, SizesAssumption DEF ReceiverInv, Seqs
<1>2. IsFiniteSet(S)
  <2>1. IsFiniteSet(0 .. MaxSend[Peer(e)])
    BY <1>1, FS_Interval
  <2>. QED  BY <1>1, <2>1, FS_Subset
<1>3. \E m \in from .. (from + Cardinality(S)) : m \notin S /\ \A k \in from .. (m - 1) : k \in S
  BY <1>2, FirstMissing
<1>4. /\ n \in from .. (from + Cardinality(S)) /\ n \notin S
      /\ \A k \in from .. (n - 1) : k \in S
  BY <1>3 DEF AfterBuffered
<1>5. Cardinality(S) \in Nat
  BY <1>2, FS_CardinalityType
<1> HIDE DEF n
<1>6. n \in Nat /\ n >= from
  BY <1>4, <1>5
<1>7. n <= MaxSend[Peer(e)]
  <2>1. CASE n = from
    BY <2>1
  <2>2. CASE n > from
    <3>1. n - 1 \in S
      BY <1>4, <1>6, <2>2
    <3>2. n - 1 < MaxSend[Peer(e)]
      BY <3>1 DEF ReceiverInv
    <3>. QED  BY <1>1, <1>6, <3>2
  <2>. QED  BY <1>6, <2>1, <2>2
<1>8. n \in Nat /\ n >= from /\ n <= MaxSend[Peer(e)] /\ n \notin recv_buffer[e]
  BY <1>4, <1>6, <1>7
<1>. QED  BY <1>8 DEF n

(* receive() marks slots as acknowledged and touches nothing else of the    *)
(* sender.                                                                  *)
LEMMA UdpAcks ==
  ASSUME UdpInv, NEW e \in End, NEW p,
         send_window' = [send_window EXCEPT ![e] = AfterAcks(e, p)]
  PROVE  SameWindow(e)
<1>1. SenderInv(e)
  BY DEF UdpInv
<1>2. /\ DOMAIN send_window' = End
      /\ \A c \in End : c # e => send_window'[c] = send_window[c]
      /\ send_window'[e] = [i \in Slots |-> send_window'[e][i]]
  BY DEF UdpInv, AfterAcks
<1>3. ASSUME NEW i \in Slots
      PROVE  /\ send_window'[e][i] \in SlotType(e)
             /\ send_window'[e][i].packet = send_window[e][i].packet
             /\ send_window[e][i].acked => send_window'[e][i].acked
             /\ send_window'[e][i].retry_count >= send_window[e][i].retry_count
  <2> DEFINE old == send_window[e][i]
             new == send_window'[e][i]
  <2>1. old \in SlotType(e) /\ old.retry_count \in Nat
    BY <1>1, SizesAssumption DEF SenderInv, SlotType
  <2>2. new = old \/ new = [old EXCEPT !.acked = TRUE]
    BY DEF UdpInv, AfterAcks
  <2> HIDE DEF old, new
  <2>3. CASE new = [old EXCEPT !.acked = TRUE]
    <3>1. new \in SlotType(e) /\ new.packet = old.packet /\ new.retry_count = old.retry_count
      BY <2>1, <2>3 DEF SlotType
    <3>2. new.acked
      BY <2>1, <2>3 DEF SlotType
    <3>. QED  BY <2>1, <3>1, <3>2 DEF old, new
  <2>4. CASE new = old
    <3>1. new \in SlotType(e) /\ new.retry_count >= old.retry_count
      BY <2>1, <2>4
    <3>. QED  BY <2>4, <3>1 DEF old, new
  <2>. QED  BY <2>2, <2>3, <2>4
<1>. QED  BY <1>2, <1>3 DEF SameWindow

(* The receiver of e changes, that of the other endpoint does not.          *)
OnlyReceiver(e) ==
  /\ DOMAIN recv_sequence' = End /\ DOMAIN recv_buffer' = End
  /\ DOMAIN recv_ack_bitfield' = End /\ DOMAIN delivered' = End
  /\ \A c \in End : c # e => /\ recv_sequence'[c] = recv_sequence[c]
                             /\ recv_buffer'[c] = recv_buffer[c]
                             /\ recv_ack_bitfield'[c] = recv_ack_bitfield[c]
                             /\ delivered'[c] = delivered[c]
  /\ delivered' = [c \in End |-> delivered'[c]]

LEMMA UdpInOrder ==
  ASSUME UdpInv, NEW e \in End, NEW p \in net[Peer(e)], InOrder(e, p), UNCHANGED net
  PROVE  OnlyReceiver(e) /\ ReceiverInv(e)' /\ ReturnedInv(e)'
<1> DEFINE r == recv_sequence[e]
           n == AfterBuffered(e, r + 1)
<1>1. ReceiverInv(e) /\ ReturnedInv(e) /\ SenderInv(Peer(e)) /\ Peer(e) \in End
  BY Peers DEF UdpInv
<1>2. MaxSend[Peer(e)] \in Nat /\ r \in Nat /\ BITS \in Nat \ {0}
  BY <1>1, SizesAssumption DEF ReceiverInv, Seqs
<1>3. p.sequence = r /\ p.data = "data" /\ r + 1 <= MaxSend[Peer(e)]
  BY <1>1, <1>2 DEF SenderInv, InOrder
<1>4. n \in Nat /\ n >= r + 1 /\ n <= MaxSend[Peer(e)] /\ n \notin recv_buffer[e]
  BY <1>1, <1>2, <1>3, AfterTheRun
<1>5. /\ recv_sequence' = [recv_sequence EXCEPT ![e] = n]
      /\ recv_buffer' = [recv_buffer EXCEPT ![e] = {k \in recv_buffer[e] : k >= n}]
      /\ recv_ack_bitfield' = [recv_ack_bitfield EXCEPT ![e] = {}]
      /\ delivered' = [delivered EXCEPT ![e] = Append(delivered[e], r)]
  BY <1>3 DEF InOrder
<1> HIDE DEF n
<1>6. OnlyReceiver(e)
  BY <1>5 DEF OnlyReceiver, UdpInv
<1>7. /\ recv_sequence'[e] = n /\ recv_buffer'[e] = {k \in recv_buffer[e] : k >= n}
      /\ recv_ack_bitfield'[e] = {} /\ delivered'[e] = Append(delivered[e], r)
  BY <1>5 DEF UdpInv
<1>8. ReceiverInv(e)'
  <2>1. ASSUME NEW k \in recv_buffer'[e]
        PROVE  k > n /\ k < n + BITS /\ k < MaxSend[Peer(e)] /\ k \in Seqs(Peer(e))
    <3>1. k \in recv_buffer[e] /\ k >= n /\ k # n
      BY <1>4, <1>7
    <3>2. k < r + BITS /\ k < MaxSend[Peer(e)] /\ k \in Seqs(Peer(e))
      BY <1>1, <3>1 DEF ReceiverInv
    <3>. QED  BY <1>2, <1>4, <3>1, <3>2 DEF Seqs
  <2>2. n \in Seqs(Peer(e))
    BY <1>2, <1>4 DEF Seqs
  <2>. QED  BY <1>7, <2>1, <2>2 DEF ReceiverInv, Seqs, Peer
<1>9. ReturnedInv(e)'
  <2> DEFINE s == delivered[e]
             t == delivered'[e]
  <2>1. s \in Seq(Nat) /\ t = Append(s, r)
    BY <1>1, <1>7 DEF ReturnedInv
  <2>2. /\ t \in Seq(Nat) /\ Len(t) = Len(s) + 1 /\ t[Len(s) + 1] = r
        /\ \A i \in 1 .. Len(s) : t[i] = s[i]
    BY <1>2, <2>1, AppendProperties
  <2>3. \A i \in 1 .. Len(s) : s[i] < r /\ s[i] \in Nat
    BY <1>1, <2>1, ElementOfSeq DEF ReturnedInv
  <2>4. Len(s) \in Nat
    BY <2>1
  <2>5. \A i, j \in 1 .. Len(s) : i < j => s[i] < s[j]
    BY <1>1 DEF ReturnedInv
  <2>6. \A i \in 1 .. Len(s) : \E q \in net[Peer(e)] : q.sequence = s[i] /\ q.data = "data"
    BY <1>1 DEF ReturnedInv
  <2> HIDE DEF s, t
  <2>7. \A i \in 1 .. Len(t) : t[i] < n
    BY <1>2, <1>4, <2>2, <2>3, <2>4
  <2>8. \A i, j \in 1 .. Len(t) : i < j => t[i] < t[j]
    <3> SUFFICES ASSUME NEW i \in 1 .. Len(t), NEW j \in 1 .. Len(t), i < j PROVE t[i] < t[j]
      OBVIOUS
    <3>1. i \in 1 .. Len(s) /\ t[i] = s[i]
      BY <2>2, <2>4
    <3>2. CASE j = Len(s) + 1
      BY <2>2, <2>3, <3>1, <3>2
    <3>3. CASE j \in 1 .. Len(s)
      BY <2>2, <2>5, <3>1, <3>3
    <3>. QED  BY <2>2, <2>4, <3>2, <3>3
  <2>9. \A i \in 1 .. Len(t) : \E q \in net[Peer(e)] : q.sequence = t[i] /\ q.data = "data"
    <3> SUFFICES ASSUME NEW i \in 1 .. Len(t)
                 PROVE  \E q \in net[Peer(e)] : q.sequence = t[i] /\ q.data = "data"
      OBVIOUS
    <3>1. CASE i = Len(s) + 1
      BY <1>3, <2>2, <3>1
    <3>2. CASE i \in 1 .. Len(s)
      BY <2>2, <2>6, <3>2
    <3>. QED  BY <2>2, <2>4, <3>1, <3>2
  <2>. QED  BY <1>7, <2>2, <2>7, <2>8, <2>9 DEF t, ReturnedInv, Peer
<1>. QED  BY <1>6, <1>8, <1>9

LEMMA UdpAhead ==
  ASSUME UdpInv, NEW e \in End, NEW p \in net[Peer(e)], Ahead(e, p), UNCHANGED net
  PROVE  OnlyReceiver(e) /\ ReceiverInv(e)' /\ ReturnedInv(e)'
<1> DEFINE r == recv_sequence[e]
           k == p.sequence
<1>1. ReceiverInv(e) /\ ReturnedInv(e) /\ SenderInv(Peer(e)) /\ Peer(e) \in End
  BY Peers DEF UdpInv
<1>2. MaxSend[Peer(e)] \in Nat /\ r \in Nat /\ BITS \in Nat \ {0}
  BY <1>1, SizesAssumption DEF ReceiverInv, Seqs
<1>3. /\ k \in Seqs(Peer(e)) /\ k \in Nat /\ k < MaxSend[Peer(e)]
      /\ k > r /\ k < r + BITS
  <2>1. p \in Packet(Peer(e)) /\ k < send_sequence[Peer(e)]
        /\ send_sequence[Peer(e)] \in 0 .. MaxSend[Peer(e)]
    BY <1>1 DEF SenderInv
  <2>2. k \in Seqs(Peer(e))
    BY <2>1 DEF Packet
  <2>. QED  BY <1>2, <2>1, <2>2 DEF Ahead, Seqs
<1>4. /\ recv_ack_bitfield' = [recv_ack_bitfield EXCEPT ![e] =
           recv_ack_bitfield[e] \cup {(k - r) - 1}]
      /\ recv_buffer' = [recv_buffer EXCEPT ![e] = recv_buffer[e] \cup {k}]
      /\ UNCHANGED <<recv_sequence, delivered>>
  BY DEF Ahead
<1> HIDE DEF k
<1>5. OnlyReceiver(e)
  BY <1>4 DEF OnlyReceiver, UdpInv
<1>6. /\ recv_sequence'[e] = r /\ recv_buffer'[e] = recv_buffer[e] \cup {k}
      /\ recv_ack_bitfield'[e] = recv_ack_bitfield[e] \cup {(k - r) - 1}
      /\ delivered'[e] = delivered[e]
  BY <1>4 DEF UdpInv
<1>7. ReceiverInv(e)'
  <2>1. ASSUME NEW j \in recv_buffer'[e]
        PROVE  j > r /\ j < r + BITS /\ j < MaxSend[Peer(e)] /\ j \in Seqs(Peer(e))
    BY <1>1, <1>3, <1>6 DEF ReceiverInv
  <2>2. ASSUME NEW b \in recv_ack_bitfield'[e]
        PROVE  b \in 0 .. (BITS - 1) /\ r + b + 1 \in recv_buffer'[e]
    <3>1. CASE b = (k - r) - 1
      <4>1. b \in 0 .. (BITS - 1) /\ r + b + 1 = k
        BY <1>2, <1>3, <3>1
      <4>. QED  BY <1>6, <4>1
    <3>2. CASE b \in recv_ack_bitfield[e]
      BY <1>1, <1>6, <3>2 DEF ReceiverInv
    <3>. QED  BY <1>6, <3>1, <3>2
  <2>. QED  BY <1>1, <1>6, <2>1, <2>2 DEF ReceiverInv, Seqs, Peer
<1>8. ReturnedInv(e)'
  BY <1>1, <1>6 DEF ReturnedInv, Peer
<1>. QED  BY <1>5, <1>7, <1>8

LEMMA UdpReceive ==
  ASSUME UdpInv, NEW e \in End, Receive(e)
  PROVE  UdpInv' /\ SameWindow(e)
<1>1. PICK p \in net[Peer(e)] :
        /\ send_window' = [send_window EXCEPT ![e] = AfterAcks(e, p)]
        /\ InOrder(e, p) \/ Ahead(e, p) \/ Ignored(e, p)
        /\ UNCHANGED <<net, send_sequence, givenUp>>
  BY DEF Receive
<1>2. SameWindow(e)
  BY <1>1, UdpAcks
<1>3. \A c \in End : SenderInv(c)' /\ WindowInv(c)'
  <2>1. UNCHANGED <<net, send_sequence>> /\ \A c \in End : givenUp'[c] \subseteq Seqs(c)
    BY <1>1 DEF UdpInv, SenderInv
  <2>. QED  BY <1>2, <2>1, UdpWindow
<1>4. OnlyReceiver(e) /\ ReceiverInv(e)' /\ ReturnedInv(e)'
  <2>1. CASE InOrder(e, p)
    BY <1>1, <2>1, UdpInOrder
  <2>2. CASE Ahead(e, p)
    BY <1>1, <2>2, UdpAhead
  <2>3. CASE Ignored(e, p)
    <3>1. UNCHANGED <<net, recv_sequence, recv_ack_bitfield, recv_buffer, delivered>>
      BY <1>1, <2>3 DEF Ignored, receiver
    <3>2. ReceiverInv(e) /\ ReturnedInv(e)
      BY DEF UdpInv
    <3>. QED  BY <3>1, <3>2 DEF OnlyReceiver, UdpInv, ReceiverInv, ReturnedInv, Seqs, Peer
  <2>. QED  BY <1>1, <2>1, <2>2, <2>3
<1>5. ASSUME NEW c \in End, c # e PROVE ReceiverInv(c)' /\ ReturnedInv(c)'
  <2>1. ReceiverInv(c) /\ ReturnedInv(c)
    BY DEF UdpInv
  <2>2. /\ recv_sequence'[c] = recv_sequence[c] /\ recv_buffer'[c] = recv_buffer[c]
        /\ recv_ack_bitfield'[c] = recv_ack_bitfield[c] /\ delivered'[c] = delivered[c]
        /\ net' = net
    BY <1>1, <1>4, <1>5 DEF OnlyReceiver
  <2>3. ReceiverInv(c)'
    BY <2>1, <2>2 DEF ReceiverInv, Seqs, Peer
  <2>4. ReturnedInv(c)'
    BY <2>1, <2>2 DEF ReturnedInv, Peer
  <2>. QED  BY <2>3, <2>4
<1>. QED  BY <1>1, <1>2, <1>3, <1>4, <1>5 DEF UdpInv, OnlyReceiver, SameWindow

LEMMA UdpNext == UdpInv /\ [Next]_vars => UdpInv'
<1> SUFFICES ASSUME UdpInv, [Next]_vars PROVE UdpInv'
  OBVIOUS
<1>1. CASE UNCHANGED vars
  <2>1. UNCHANGED <<net, send_sequence, send_window, givenUp, recv_sequence, recv_ack_bitfield,
                    recv_buffer, delivered>>
    BY <1>1 DEF vars, sender, receiver
  <2>2. ASSUME NEW c \in End PROVE SenderInv(c)' /\ WindowInv(c)'
    BY <2>1 DEF UdpInv, SenderInv, WindowInv, SlotType, Packet, Seqs, Slots
  <2>3. ASSUME NEW c \in End PROVE ReceiverInv(c)' /\ ReturnedInv(c)'
    BY <2>1 DEF UdpInv, ReceiverInv, ReturnedInv, Seqs, Peer
  <2>. QED  BY <2>1, <2>2, <2>3 DEF UdpInv
<1>2. ASSUME NEW e \in End, Retransmit(e) PROVE UdpInv'
  BY <1>2, UdpRetransmit DEF Retransmit
<1>. QED
  BY <1>1, <1>2, UdpSend, UdpSendError, UdpReceive DEF Next

LEMMA UdpRuns == [NetworkNext]_network => [Next]_vars
BY DEF NetworkNext, network, Only, Gateway_vars, Link_vars, Tcp_vars, Closing_vars, vars

(* receive() returns packets in the order of their numbers, each at most    *)
(* once and only ones the peer sent, and the acknowledgement bits announce  *)
(* only packets that are buffered, whatever the network loses, duplicates,  *)
(* delays or reorders and for every size of the window and the bitfield.    *)
THEOREM DeliveryIsInOrder == NetworkSpec => []DeliveryInv
<1>1. NetworkInit => UdpInv
  BY UdpInit DEF NetworkInit
<1>2. UdpInv /\ [NetworkNext]_network => UdpInv'
  BY UdpNext, UdpRuns
<1>3. UdpInv => DeliveryInv
  <2> SUFFICES ASSUME UdpInv PROVE DeliveryInv
    OBVIOUS
  <2>1. InOrderOnce
    BY DEF UdpInv, ReturnedInv, InOrderOnce
  <2>2. BitsTruthful
    BY DEF UdpInv, ReceiverInv, BitsTruthful
  <2>3. ASSUME NEW e \in End
        PROVE  /\ net[e] \subseteq Packet(e)
               /\ \A i \in Slots : send_window[e][i].packet \in Packet(e)
               /\ \A i \in Slots : send_window[e][i].retry_count \in 0 .. MAX_RETRIES
               /\ givenUp[e] \subseteq Seqs(e)
    BY DEF UdpInv, SenderInv, SlotType
  <2>4. ASSUME NEW e \in End
        PROVE  /\ recv_ack_bitfield[e] \subseteq 0 .. (BITS - 1)
               /\ recv_sequence[e] \in Seqs(Peer(e))
               /\ recv_buffer[e] \subseteq Seqs(Peer(e))
    BY DEF UdpInv, ReceiverInv
  <2>5. send_sequence \in [End -> Nat]
    <3>1. \A e \in End : send_sequence[e] \in Nat
      BY DEF UdpInv, SenderInv
    <3>. QED  BY <3>1 DEF UdpInv
  <2>6. delivered \in [End -> Seq(Nat)]
    <3>1. \A e \in End : delivered[e] \in Seq(Nat)
      BY DEF UdpInv, ReturnedInv
    <3>. QED  BY <3>1 DEF UdpInv
  <2>. QED  BY <2>1, <2>2, <2>3, <2>4, <2>5, <2>6 DEF DeliveryInv, TypeOK
<1>. QED
  BY <1>1, <1>2, <1>3, PTL DEF NetworkSpec

(* send() never takes a slot whose packet is neither acknowledged nor given *)
(* up, although failed sends leave gaps in the numbering: the guard "Send   *)
(* window full" is enough for every WINDOW_SIZE.                            *)
THEOREM SlotsAreKept == NetworkSpec => NeverOverwritten
<1>1. NetworkInit => UdpInv
  BY UdpInit DEF NetworkInit
<1>2. UdpInv /\ [NetworkNext]_network => UdpInv'
  BY UdpNext, UdpRuns
<1>3. UdpInv /\ [NetworkNext]_network => [SlotsKept]_vars
  <2> SUFFICES ASSUME UdpInv, Next, NEW e \in End, NEW i \in Slots, ~send_window[e][i].acked
               PROVE  /\ send_window'[e][i].packet = send_window[e][i].packet
                      /\ send_window'[e][i].retry_count >= send_window[e][i].retry_count
    BY UdpRuns DEF SlotsKept
  <2>1. send_window[e][i].retry_count \in Nat /\ DOMAIN send_window = End
        /\ DOMAIN send_window[e] = Slots
    BY SizesAssumption DEF UdpInv, SenderInv, SlotType
  <2>2. ASSUME NEW c \in End, NEW d \in Payload, Send(c, d)
        PROVE  send_window'[e][i] = send_window[e][i]
    <3>1. send_window[c][Slot(c)].acked
      <4>1. SenderInv(c) /\ WindowInv(c) /\ ~WindowFull(c)
        BY <2>2 DEF UdpInv, Send
      <4>. QED  BY <4>1, WindowMoves
    <3>2. e # c \/ i # Slot(c)
      BY <3>1
    <3>. QED  BY <2>1, <2>2, <3>2 DEF Send
  <2>3. ASSUME NEW c \in End, SendError(c)
        PROVE  send_window'[e][i] = send_window[e][i]
    BY <2>3 DEF SendError
  <2>4. ASSUME NEW c \in End, SameWindow(c)
        PROVE  /\ send_window'[e][i].packet = send_window[e][i].packet
               /\ send_window'[e][i].retry_count >= send_window[e][i].retry_count
    BY <2>1, <2>4 DEF SameWindow
  <2>5. ASSUME NEW c \in End, Receive(c) \/ Retransmit(c) PROVE SameWindow(c)
    BY <2>5, UdpReceive, UdpRetransmit DEF Retransmit
  <2>. QED  BY <2>1, <2>2, <2>3, <2>4, <2>5 DEF Next
<1>. QED
  BY <1>1, <1>2, <1>3, PTL DEF NetworkSpec, NeverOverwritten
=============================================================================
