----------------------------- MODULE WsGateway -----------------------------
(***************************************************************************)
(* The gateway of WebSocket/src/50/websocket_microservices_gateway.rs: one *)
(* task per client with a Redis connection of its own, and one task that   *)
(* subscribes to all events.  The lock of the session table is never held  *)
(* over an await, so that what is done under it is one step.  Redis runs   *)
(* the commands of a connection one after the other: a BLPOP whose caller  *)
(* has timed out still stands before the commands that follow.  Services   *)
(* answer when they like, or never.  Messages that are not understood, or  *)
(* lack a field, change nothing and are left out; there is one channel.    *)
(***************************************************************************)
EXTENDS Naturals, Sequences

CONSTANTS
  Session,    \* the clients, each with the session made for it
  MaxMsgs     \* bound: messages of each client that are handled

VARIABLES
  at,          \* where handle_connection() is
  msgs,        \* how many messages of the client it has handled
  closed,      \* the client has closed, or its connection has failed
  sessions,    \* the table: of each session, whether it has subscribed
  pipe,        \* Redis: commands of each connection that are not done
  requests,    \* Redis: calls published and not answered
  lists,       \* Redis: answers pushed and not popped, with their list
  listening,   \* psubscribe() is done
  events,      \* Redis: events on their way to the subscriber
  tx           \* what was queued for the task that writes to each client
vars == <<at, msgs, closed, sessions, pipe, requests, lists, listening, events, tx>>
task == <<at, msgs, closed, sessions, tx>>
redis == <<requests, lists, listening, events>>

Init ==
  /\ at = [s \in Session |-> "accept"] /\ msgs = [s \in Session |-> 0]
  /\ closed = [s \in Session |-> FALSE]
  /\ sessions = << >>
  /\ pipe = [s \in Session |-> << >>]
  /\ requests = {} /\ lists = {} /\ listening = FALSE /\ events = << >>
  /\ tx = [s \in Session |-> << >>]

Goto(s, from, to) == at[s] = from /\ at' = [at EXCEPT ![s] = to]
Queue(s, m) == tx' = [tx EXCEPT ![s] = Append(@, m)]
Command(s, cmd) == pipe' = [pipe EXCEPT ![s] = Append(@, cmd)]
Without(s) == [t \in DOMAIN sessions \ {s} |-> sessions[t]]

(* Fault: one list for the answers of a service. *)
response_channel_Shared(call) == "response"

(* A new name for each call. *)
response_channel(call) == call

-----------------------------------------------------------------------------
(* handle_connection() *)

accept_async(s) ==
  /\ Goto(s, "accept", "insert") \/ Goto(s, "accept", "end")
  /\ UNCHANGED <<msgs, closed, sessions, pipe, redis, tx>>

Insert(s) ==
  /\ Goto(s, "insert", "bridge")
  /\ sessions' = [t \in DOMAIN sessions \union {s} |-> IF t = s THEN FALSE ELSE sessions[t]]
  /\ UNCHANGED <<msgs, closed, pipe, redis, tx>>

(* The bridge is made, or unwrap() panics and the entry stays. *)
Bridge(s) ==
  /\ Goto(s, "bridge", "loop") \/ Goto(s, "bridge", "panicked")
  /\ UNCHANGED <<msgs, closed, sessions, pipe, redis, tx>>

Handling(s) == /\ at[s] = "loop" /\ msgs[s] < MaxMsgs[s]
               /\ msgs' = [msgs EXCEPT ![s] = @ + 1]

Subscribe(s) ==
  /\ Handling(s) /\ s \in DOMAIN sessions
  /\ sessions' = [sessions EXCEPT ![s] = TRUE]
  /\ UNCHANGED <<at, closed, pipe, redis, tx>>

(* publish_event(): the reply of Redis is awaited, without a limit. *)
PublishEvent(s) ==
  /\ Handling(s) /\ Goto(s, "loop", "publish")
  /\ Command(s, <<"event", <<s, msgs'[s]>> >>)
  /\ UNCHANGED <<closed, sessions, redis, tx>>

(* call_service(): publish the request, await the reply of Redis, ... *)
CallService(s) ==
  /\ Handling(s) /\ Goto(s, "loop", "request")
  /\ Command(s, <<"request", <<s, msgs'[s]>> >>)
  /\ UNCHANGED <<closed, sessions, redis, tx>>

(* ... and then the answer in the list named in the request, ... *)
Published(s) ==
  /\ pipe[s] = << >>
  /\ \/ Goto(s, "publish", "loop") /\ UNCHANGED pipe
     \/ /\ Goto(s, "request", "blpop")
        /\ Command(s, <<"blpop", response_channel(<<s, msgs[s]>>)>>)
  /\ UNCHANGED <<msgs, closed, sessions, redis, tx>>

(* Fault: the answer is waited for without a limit. *)
Timeout_None(s) == FALSE /\ UNCHANGED vars

(* ... for five seconds; the command stays in the pipe. *)
Timeout(s) ==
  /\ Goto(s, "blpop", "loop")
  /\ UNCHANGED <<msgs, closed, sessions, pipe, redis, tx>>

(* Redis fails and is connected anew: an error for whoever waits. *)
RedisFails(s) ==
  /\ at[s] \in {"publish", "request", "blpop"} /\ at' = [at EXCEPT ![s] = "loop"]
  /\ pipe' = [pipe EXCEPT ![s] = << >>]
  /\ UNCHANGED <<msgs, closed, sessions, redis, tx>>

(* Close, an error or the end of the stream: the loop ends, the session is  *)
(* removed, and the bridge goes with its connection.                        *)
Closing(s) == /\ closed[s] /\ Goto(s, "loop", "remove")
              /\ UNCHANGED <<msgs, closed, sessions, pipe, redis, tx>>

Remove(s) == /\ Goto(s, "remove", "end")
             /\ sessions' = Without(s)
             /\ pipe' = [pipe EXCEPT ![s] = << >>]
             /\ UNCHANGED <<msgs, closed, redis, tx>>

ClientCloses(s) == /\ ~closed[s] /\ closed' = [closed EXCEPT ![s] = TRUE]
                   /\ UNCHANGED <<at, msgs, sessions, pipe, redis, tx>>

-----------------------------------------------------------------------------
(* Redis and the services *)

Done(s) == pipe' = [pipe EXCEPT ![s] = Tail(@)]

RunPublish(s) ==
  /\ pipe[s] # << >> /\ Done(s)
  /\ LET cmd == Head(pipe[s]) IN
     \/ /\ cmd[1] = "event"
        /\ events' = IF listening THEN Append(events, cmd[2]) ELSE events
        /\ UNCHANGED requests
     \/ /\ cmd[1] = "request"
        /\ requests' = requests \union {cmd[2]}
        /\ UNCHANGED events
  /\ UNCHANGED <<task, lists, listening>>

Answer(call) ==
  /\ call \in requests
  /\ requests' = requests \ {call}
  /\ lists' = lists \union { <<response_channel(call), call>> }
  /\ UNCHANGED <<task, pipe, listening, events>>

(* BLPOP takes an answer; nobody looks at it if its caller has timed out. *)
RunPop(s) ==
  /\ pipe[s] # << >> /\ Head(pipe[s])[1] = "blpop"
  /\ \E a \in lists : /\ a[1] = Head(pipe[s])[2]
                      /\ lists' = lists \ {a}
                      /\ IF at[s] = "blpop"
                         THEN Goto(s, "blpop", "loop") /\ Queue(s, <<"answer", a[2]>>)
                         ELSE UNCHANGED <<at, tx>>
  /\ Done(s)
  /\ UNCHANGED <<msgs, closed, sessions, requests, listening, events>>

-----------------------------------------------------------------------------
(* start_event_subscriber() *)

psubscribe == /\ ~listening /\ listening' = TRUE
              /\ UNCHANGED <<task, pipe, requests, lists, events>>

Broadcast ==
  /\ events # << >> /\ events' = Tail(events)
  /\ tx' = [s \in Session |-> IF s \in DOMAIN sessions /\ sessions[s]
                              THEN Append(tx[s], <<"event", Head(events)>>) ELSE tx[s]]
  /\ UNCHANGED <<at, msgs, closed, sessions, pipe, requests, lists, listening>>

Task(s) == \/ accept_async(s) \/ Insert(s) \/ Bridge(s) \/ Published(s) \/ Timeout(s)
           \/ Closing(s) \/ Remove(s)
Handle(s) == Subscribe(s) \/ PublishEvent(s) \/ CallService(s)
Redis(s) == RunPublish(s) \/ RunPop(s)

Next == \/ psubscribe \/ Broadcast
        \/ \E s \in Session : \/ Task(s) \/ Handle(s) \/ Redis(s)
                              \/ RedisFails(s) \/ ClientCloses(s)
        \/ \E call \in requests : Answer(call)

(* The tasks and Redis run; nothing is assumed of clients and services. *)
Fairness == \A s \in Session : WF_vars(Task(s)) /\ WF_vars(Redis(s))
Spec == Init /\ [][Next]_vars /\ Fairness

-----------------------------------------------------------------------------
(* Redis holds up the commands of s behind the BLPOP of a call that timed   *)
(* out and was not answered since.                                          *)
Stuck(s) == /\ at[s] \in {"publish", "request"}
            /\ pipe[s] # << >> /\ Head(pipe[s])[1] = "blpop"

IsAnswer(m) == m[1] = "answer"

(* Each answer a client gets is to a call of its own, and answers come in   *)
(* the order of the calls and once each: a late answer, or one meant for    *)
(* another session's call to the same service, is never taken for it.       *)
AnswersBelong ==
  \A s \in Session : \A i \in DOMAIN tx[s] :
    IsAnswer(tx[s][i]) =>
      /\ tx[s][i][2][1] = s
      /\ \A j \in 1 .. i - 1 : IsAnswer(tx[s][j]) => tx[s][j][2][2] < tx[s][i][2][2]

(* A client that has gone leaves the table, unless its task panicked; or it *)
(* made a further call after one that was never answered, and waits for     *)
(* Redis for ever.                                                          *)
Departs ==
  \A s \in Session :
    \/ (closed[s] ~> (s \notin DOMAIN sessions \/ at[s] = "panicked"))
    \/ <>[]Stuck(s)
=============================================================================
