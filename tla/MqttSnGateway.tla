--------------------------- MODULE MqttSnGateway ---------------------------
(***************************************************************************)
(* MqttSnGateway of MQTT/src/57/MQTT_SN_Gateway_Implementation.rs.  One    *)
(* task receives datagrams and handles each to the end, so a handler is a  *)
(* step.  Datagrams are lost, repeated and late as UDP pleases: a client   *)
(* may send any request at any time, and may or may not see the answer.    *)
(***************************************************************************)
EXTENDS Naturals

CONSTANTS Client, Address, Topic,
  IdMod   \* topic identifiers are counted modulo this, 2^16 in the code

VARIABLES
  topic_id_map, topic_name_map, client_map, next_topic_id,
  wrapped,    \* next_topic_id has come round
  known,      \* what each client was told: pairs of identifier and topic
  misdirected   \* topics whose publications went to another one
vars == <<topic_id_map, topic_name_map, client_map, next_topic_id, wrapped, known,
          misdirected>>

Init == /\ topic_id_map = << >> /\ topic_name_map = << >> /\ client_map = << >>
        /\ next_topic_id = 1 /\ wrapped = FALSE
        /\ known = [c \in Client |-> {}]
        /\ misdirected = {}

topics == <<topic_id_map, topic_name_map, next_topic_id, wrapped>>

(* HashMap::insert: the entry for a key is new or replaced. *)
insert(map, key, value) ==
  [k \in DOMAIN map \cup {key} |-> IF k = key THEN value ELSE map[k]]

(* The answer reaches the client or does not. *)
Told(c, id, t) == known' \in {known, [known EXCEPT ![c] = @ \cup {<<id, t>>}]}

-----------------------------------------------------------------------------

(* The last entry for a client identifier wins, whatever its address.  A    *)
(* datagram shorter than its length byte says is entered as "unknown"; one  *)
(* of fewer than six bytes is ignored.                                      *)
handle_connect(c, a) ==
  /\ \E client_id \in {c, "unknown"} : client_map' = insert(client_map, client_id, a)
  /\ UNCHANGED <<topics, known, misdirected>>

(* Fault: the counter is not moved on. *)
Allocate_Same(t) ==
  /\ topic_id_map' = insert(topic_id_map, next_topic_id, t)
  /\ topic_name_map' = insert(topic_name_map, t, next_topic_id)
  /\ UNCHANGED <<next_topic_id, wrapped>>

(* A new identifier for topic t, entered in both maps. *)
Allocate(t) ==
  /\ ~wrapped                     \* bound: the counter comes round once
  /\ topic_id_map' = insert(topic_id_map, next_topic_id, t)
  /\ topic_name_map' = insert(topic_name_map, t, next_topic_id)
  /\ next_topic_id' = (next_topic_id + 1) % IdMod
  /\ wrapped' = (wrapped \/ next_topic_id' = 0)

(* A topic that is registered again gets another identifier. *)
handle_register(c, t) ==
  /\ Allocate(t) /\ Told(c, next_topic_id, t)
  /\ UNCHANGED <<client_map, misdirected>>

(* A known topic keeps its identifier; whether the broker accepted the       *)
(* subscription makes no difference to the answer.                           *)
handle_subscribe(c, t) ==
  /\ \/ t \in DOMAIN topic_name_map /\ UNCHANGED topics /\ Told(c, topic_name_map[t], t)
     \/ t \notin DOMAIN topic_name_map /\ Allocate(t) /\ Told(c, next_topic_id, t)
  /\ UNCHANGED <<client_map, misdirected>>

(* The publication goes to the topic the identifier stands for, and is      *)
(* dropped when it stands for none; the answer tells the client nothing.     *)
handle_publish(c) ==
  /\ \E k \in known[c] :
       /\ k[1] \in DOMAIN topic_id_map
       /\ misdirected' = IF topic_id_map[k[1]] = k[2] THEN misdirected
                         ELSE misdirected \cup {k[2]}
  /\ UNCHANGED <<topics, client_map, known>>

(* handle_searchgw(), handle_pingreq() and handle_disconnect() change nothing: *)
(* a client that disconnects stays in client_map.                              *)
Unchanging == UNCHANGED vars

Next == \/ \E c \in Client :
             \/ \E a \in Address : handle_connect(c, a)
             \/ \E t \in Topic : handle_register(c, t) \/ handle_subscribe(c, t)
             \/ handle_publish(c)
        \/ Unchanging
Spec == Init /\ [][Next]_vars

-----------------------------------------------------------------------------
(* A client that publishes under an identifier it was given for a topic     *)
(* reaches that topic, however often topics were registered again and       *)
(* however late the answer came, until the 16-bit counter of identifiers    *)
(* comes round; and the two maps agree on every topic so far.               *)
RightTopic ==
  ~wrapped => /\ misdirected = {}
              /\ \A t \in DOMAIN topic_name_map : topic_id_map[topic_name_map[t]] = t
=============================================================================
