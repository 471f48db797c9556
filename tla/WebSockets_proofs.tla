-------------------------- MODULE WebSockets_proofs --------------------------
(***************************************************************************)
(* Proofs about the WebSocket programs, for every value of the constants   *)
(* of WebSockets.  Each component has its inductive invariant, shown to    *)
(* hold initially and to be kept by each of its actions; it is kept by     *)
(* WebSocketNext because the component rests when another program runs.    *)
(***************************************************************************)
EXTENDS WebSockets, Integers, SequenceTheorems, FiniteSetTheorems, WellFoundedInduction, TLAPS

-----------------------------------------------------------------------------
(* WsGateway: while a task waits for an answer, its BLPOP is the only       *)
(* command of its connection, and every answer its client got is to an      *)
(* earlier call.                                                            *)
Call == Session \X Nat
Command == {"event", "request", "blpop"} \X Call
Item == {"event", "answer"} \X Call

Waits(s) == g_at[s] = "blpop" => pipe[s] = << <<"blpop", <<s, msgs[s]>> >> >>

Answered(s) ==
  /\ \A k \in 1 .. Len(tx[s]) : Gateway!IsAnswer(tx[s][k]) =>
       /\ tx[s][k][2][1] = s /\ tx[s][k][2][2] <= msgs[s]
       /\ g_at[s] \in {"request", "blpop"} => tx[s][k][2][2] < msgs[s]
  /\ \A k, j \in 1 .. Len(tx[s]) :
       j < k /\ Gateway!IsAnswer(tx[s][k]) /\ Gateway!IsAnswer(tx[s][j]) =>
         tx[s][j][2][2] < tx[s][k][2][2]

GatewayInv ==
  /\ DOMAIN g_at = Session /\ msgs \in [Session -> Nat]
  /\ pipe \in [Session -> Seq(Command)] /\ tx \in [Session -> Seq(Item)]
  /\ requests \subseteq Call /\ events \in Seq(Call)
  /\ \A a \in lists : a = <<a[1], a[2]>> /\ a[1] = a[2] /\ a[2] \in Call
  /\ \A s \in Session : Waits(s) /\ Answered(s)

LEMMA GatewayInit == Gateway!Init => GatewayInv
<1> SUFFICES ASSUME Gateway!Init PROVE GatewayInv
  OBVIOUS
<1>1. /\ DOMAIN g_at = Session /\ msgs \in [Session -> Nat]
      /\ pipe \in [Session -> Seq(Command)] /\ tx \in [Session -> Seq(Item)]
      /\ requests \subseteq Call /\ events \in Seq(Call) /\ lists = {}
  BY DEF Gateway!Init
<1>2. \A s \in Session : g_at[s] = "accept" /\ tx[s] = << >>
  BY DEF Gateway!Init
<1>. QED  BY <1>1, <1>2 DEF GatewayInv, Waits, Answered

Moves(s, to) == g_at' = [g_at EXCEPT ![s] = to] \/ (g_at' = g_at /\ g_at[s] = to)

(* A step that gives no client anything and moves the task of s only.       *)
LEMMA TaskMoves ==
  ASSUME GatewayInv, NEW s \in Session, NEW to, Moves(s, to),
         tx' = tx, pipe' \in [Session -> Seq(Command)],
         msgs' \in [Session -> Nat], msgs'[s] >= msgs[s],
         \A t \in Session : t # s => msgs'[t] = msgs[t] /\ pipe'[t] = pipe[t],
         to = "blpop" => /\ g_at[s] = "request" /\ msgs'[s] = msgs[s]
                         /\ pipe'[s] = << <<"blpop", <<s, msgs[s]>> >> >>,
         to = "request" => msgs'[s] > msgs[s],
         UNCHANGED <<requests, lists, events>>
  PROVE  GatewayInv'
<1>1. DOMAIN g_at' = Session /\ \A t \in Session : g_at'[t] = IF t = s THEN to ELSE g_at[t]
  BY DEF GatewayInv, Moves
<1>2. ASSUME NEW t \in Session PROVE Waits(t)'
  <2>1. CASE t = s
    BY <1>1, <2>1 DEF Waits
  <2>2. CASE t # s
    BY <1>1, <2>2 DEF Waits, GatewayInv
  <2>. QED  BY <2>1, <2>2
<1>3. ASSUME NEW t \in Session PROVE Answered(t)'
  <2>1. Answered(t) /\ tx[t] \in Seq(Item) /\ msgs[t] \in Nat /\ msgs'[t] \in Nat
    BY DEF GatewayInv
  <2>2. \A k \in 1 .. Len(tx[t]) : tx[t][k][2][2] \in Nat
    <3>1. \A k \in 1 .. Len(tx[t]) : tx[t][k] \in Item
      BY <2>1, ElementOfSeq
    <3>. QED  BY <3>1 DEF Item, Call
  <2>3. CASE t # s
    BY <1>1, <2>1, <2>3 DEF Answered
  <2>4. CASE t = s
    <3>1. ASSUME NEW k \in 1 .. Len(tx[t]), Gateway!IsAnswer(tx[t][k])
          PROVE  /\ tx[t][k][2][1] = t /\ tx[t][k][2][2] <= msgs'[t]
                 /\ g_at'[t] \in {"request", "blpop"} => tx[t][k][2][2] < msgs'[t]
      <4>1. /\ tx[t][k][2][1] = t /\ tx[t][k][2][2] <= msgs[t] /\ tx[t][k][2][2] \in Nat
            /\ g_at[t] \in {"request", "blpop"} => tx[t][k][2][2] < msgs[t]
        BY <2>1, <2>2, <3>1 DEF Answered
      <4>. QED  BY <1>1, <2>1, <2>4, <4>1
    <3>. QED  BY <2>1, <3>1 DEF Answered
  <2>. QED  BY <2>3, <2>4
<1>. QED  BY <1>1, <1>2, <1>3 DEF GatewayInv

(* Every step of a task but the ones that write a command.                  *)
LEMMA TaskOnly ==
  ASSUME GatewayInv, NEW s \in Session, NEW to, g_at' = [g_at EXCEPT ![s] = to],
         to \notin {"request", "blpop"}, UNCHANGED <<msgs, tx, requests, lists, events>>,
         pipe' = pipe \/ pipe' = [pipe EXCEPT ![s] = << >>]
  PROVE  GatewayInv'
<1>1. pipe \in [Session -> Seq(Command)] /\ << >> \in Seq(Command) /\ msgs \in [Session -> Nat]
  BY DEF GatewayInv
<1>2. pipe' \in [Session -> Seq(Command)]
  BY <1>1
<1>3. \A t \in Session : t # s => msgs'[t] = msgs[t] /\ pipe'[t] = pipe[t]
  BY <1>1
<1>4. msgs' \in [Session -> Nat] /\ msgs'[s] >= msgs[s]
  BY <1>1
<1>5. tx' = tx /\ UNCHANGED <<requests, lists, events>> /\ Moves(s, to)
  BY DEF Moves
<1>. QED  BY <1>2, <1>3, <1>4, <1>5, TaskMoves

(* A client is given one more item: an event, or the answer to its latest   *)
(* call.                                                                    *)
LEMMA OneMore ==
  ASSUME NEW s \in Session, tx[s] \in Seq(Item), msgs[s] \in Nat, msgs' = msgs, Answered(s),
         NEW m \in Item, tx'[s] = Append(tx[s], m),
         Gateway!IsAnswer(m) => /\ m[2] = <<s, msgs[s]>> /\ g_at[s] = "blpop"
                                /\ g_at'[s] = "loop",
         ~Gateway!IsAnswer(m) => g_at'[s] = g_at[s]
  PROVE  Answered(s)'
<1> DEFINE t == tx[s]
           u == tx'[s]
<1>1. /\ Len(t) \in Nat /\ Len(u) = Len(t) + 1 /\ u[Len(t) + 1] = m
      /\ \A k \in 1 .. Len(t) : u[k] = t[k] /\ t[k] \in Item
  BY AppendProperties, ElementOfSeq
<1>2. \A k \in 1 .. Len(t) : t[k][2][2] \in Nat
  BY <1>1 DEF Item, Call
<1>3. ASSUME NEW k \in 1 .. Len(t), Gateway!IsAnswer(t[k])
      PROVE  /\ t[k][2][1] = s /\ t[k][2][2] <= msgs[s]
             /\ g_at[s] \in {"request", "blpop"} => t[k][2][2] < msgs[s]
  BY <1>3 DEF Answered
<1>4. ASSUME NEW k \in 1 .. Len(u), Gateway!IsAnswer(u[k])
      PROVE  /\ u[k][2][1] = s /\ u[k][2][2] <= msgs[s]
             /\ g_at'[s] \in {"request", "blpop"} => u[k][2][2] < msgs[s]
  <2>1. CASE k \in 1 .. Len(t)
    <3>1. Gateway!IsAnswer(t[k]) /\ u[k] = t[k]
      BY <1>1, <1>4, <2>1
    <3>2. g_at'[s] \in {"request", "blpop"} => g_at[s] \in {"request", "blpop"}
      OBVIOUS
    <3>. QED  BY <1>3, <2>1, <3>1, <3>2
  <2>2. CASE k = Len(t) + 1
    BY <1>1, <1>4, <2>2
  <2>. QED  BY <1>1, <2>1, <2>2
<1>5. ASSUME NEW k \in 1 .. Len(u), NEW j \in 1 .. Len(u), j < k, Gateway!IsAnswer(u[k]),
             Gateway!IsAnswer(u[j])
      PROVE  u[j][2][2] < u[k][2][2]
  <2>1. j \in 1 .. Len(t) /\ u[j] = t[j]
    BY <1>1, <1>5
  <2>2. CASE k \in 1 .. Len(t)
    BY <1>1, <1>5, <2>1, <2>2 DEF Answered
  <2>3. CASE k = Len(t) + 1
    <3>1. m[2] = <<s, msgs[s]>> /\ g_at[s] = "blpop" /\ u[k] = m
      BY <1>1, <1>5, <2>3
    <3>2. t[j][2][2] < msgs[s]
      BY <1>3, <1>5, <2>1, <3>1
    <3>. QED  BY <2>1, <3>1, <3>2
  <2>. QED  BY <1>1, <2>2, <2>3
<1>. QED  BY <1>4, <1>5 DEF Answered

LEMMA GatewayNext == GatewayInv /\ [Gateway!Next]_(Gateway!vars) => GatewayInv'
<1> SUFFICES ASSUME GatewayInv, [Gateway!Next]_(Gateway!vars) PROVE GatewayInv'
  OBVIOUS
<1>1. /\ msgs \in [Session -> Nat] /\ pipe \in [Session -> Seq(Command)]
      /\ tx \in [Session -> Seq(Item)] /\ events \in Seq(Call) /\ DOMAIN g_at = Session
  BY DEF GatewayInv
<1>2. CASE UNCHANGED <<g_at, msgs, pipe, requests, lists, events, tx>>
  BY <1>2 DEF GatewayInv, Waits, Answered
<1>3. CASE UNCHANGED Gateway!vars
  BY <1>2, <1>3 DEF Gateway!vars
<1>4. CASE Gateway!psubscribe
  BY <1>2, <1>4 DEF Gateway!psubscribe, Gateway!task
<1>5. CASE Gateway!Broadcast
  <2>1. /\ events # << >> /\ events' = Tail(events)
        /\ tx' = [s \in Session |-> IF s \in DOMAIN sessions /\ sessions[s]
                                    THEN Append(tx[s], <<"event", Head(events)>>) ELSE tx[s]]
        /\ UNCHANGED <<g_at, msgs, pipe, requests, lists>>
    BY <1>5 DEF Gateway!Broadcast
  <2>2. Head(events) \in Call /\ events' \in Seq(Call)
    BY <1>1, <2>1
  <2> DEFINE m == <<"event", Head(events)>>
  <2>3. m \in Item /\ ~Gateway!IsAnswer(m)
    BY <2>2 DEF Item, Gateway!IsAnswer
  <2> HIDE DEF m
  <2>4. \A s \in Session : tx'[s] = tx[s] \/ tx'[s] = Append(tx[s], m)
    BY <2>1 DEF m
  <2>5. tx' \in [Session -> Seq(Item)]
    <3>1. \A s \in Session : tx[s] \in Seq(Item) /\ Append(tx[s], m) \in Seq(Item)
      BY <1>1, <2>3, AppendProperties
    <3>2. \A s \in Session : tx'[s] \in Seq(Item)
      BY <2>4, <3>1
    <3>. QED  BY <2>1, <3>2
  <2>6. ASSUME NEW s \in Session PROVE Waits(s)' /\ Answered(s)'
    <3>1. Waits(s) /\ Answered(s) /\ tx[s] \in Seq(Item) /\ msgs[s] \in Nat
      BY <1>1 DEF GatewayInv
    <3>2. Waits(s)'
      BY <2>1, <3>1 DEF Waits
    <3>3. CASE tx'[s] = tx[s]
      BY <2>1, <3>1, <3>2, <3>3 DEF Answered
    <3>4. CASE tx'[s] = Append(tx[s], m)
      <4>1. msgs' = msgs /\ g_at'[s] = g_at[s]
        BY <2>1
      <4>. QED  BY <2>3, <3>1, <3>2, <3>4, <4>1, OneMore
    <3>. QED  BY <2>4, <3>3, <3>4
  <2>. QED  BY <1>1, <2>1, <2>2, <2>5, <2>6 DEF GatewayInv
<1>6. ASSUME NEW s \in Session,
             \/ Gateway!accept_async(s) \/ Gateway!Insert(s) \/ Gateway!Bridge(s)
             \/ Gateway!Timeout(s) \/ Gateway!Closing(s) \/ Gateway!Remove(s)
             \/ Gateway!RedisFails(s)
      PROVE  GatewayInv'
  <2>1. PICK to : /\ g_at' = [g_at EXCEPT ![s] = to] /\ to \notin {"request", "blpop"}
                  /\ UNCHANGED <<msgs, tx, requests, lists, events>>
                  /\ pipe' = pipe \/ pipe' = [pipe EXCEPT ![s] = << >>]
    BY <1>6 DEF Gateway!accept_async, Gateway!Insert, Gateway!Bridge, Gateway!Timeout,
      Gateway!Closing, Gateway!Remove, Gateway!RedisFails, Gateway!Goto, Gateway!redis
  <2>. QED  BY <2>1, TaskOnly
<1>7. ASSUME NEW s \in Session, Gateway!Published(s) PROVE GatewayInv'
  <2>1. CASE Gateway!Goto(s, "publish", "loop") /\ UNCHANGED pipe
    <3>1. g_at' = [g_at EXCEPT ![s] = "loop"] /\ UNCHANGED <<msgs, tx, requests, lists, events, pipe>>
      BY <1>7, <2>1 DEF Gateway!Published, Gateway!Goto, Gateway!redis
    <3>2. "loop" \notin {"request", "blpop"}
      OBVIOUS
    <3>. QED  BY <3>1, <3>2, TaskOnly
  <2>2. CASE /\ Gateway!Goto(s, "request", "blpop")
             /\ Gateway!Command(s, <<"blpop", Gateway!response_channel(<<s, msgs[s]>>)>>)
    <3> DEFINE cmd == <<"blpop", <<s, msgs[s]>> >>
    <3>1. /\ g_at[s] = "request" /\ g_at' = [g_at EXCEPT ![s] = "blpop"] /\ pipe[s] = << >>
          /\ pipe' = [pipe EXCEPT ![s] = Append(pipe[s], cmd)]
          /\ UNCHANGED <<msgs, tx, requests, lists, events>>
      BY <1>7, <2>2 DEF Gateway!Published, Gateway!Goto, Gateway!redis, Gateway!Command,
        Gateway!response_channel
    <3>2. cmd \in Command
      BY <1>1 DEF Command, Call
    <3> HIDE DEF cmd
    <3>3. /\ Append(pipe[s], cmd) = <<cmd>> /\ <<cmd>> \in Seq(Command)
      BY <3>1, <3>2
    <3>4. /\ pipe' \in [Session -> Seq(Command)] /\ pipe'[s] = <<cmd>>
          /\ \A t \in Session : t # s => msgs'[t] = msgs[t] /\ pipe'[t] = pipe[t]
          /\ msgs' \in [Session -> Nat] /\ msgs'[s] = msgs[s] /\ msgs'[s] >= msgs[s]
      BY <1>1, <3>1, <3>3
    <3>5. pipe'[s] = << <<"blpop", <<s, msgs[s]>> >> >>
      BY <3>4 DEF cmd
    <3>6. Moves(s, "blpop")
      BY <3>1 DEF Moves
    <3>. QED  BY <3>1, <3>4, <3>5, <3>6, TaskMoves
  <2>. QED  BY <1>7, <2>1, <2>2 DEF Gateway!Published
<1>8. ASSUME NEW s \in Session, Gateway!Subscribe(s) PROVE GatewayInv'
  <2>1. /\ g_at' = g_at /\ g_at[s] = "loop" /\ UNCHANGED <<pipe, tx, requests, lists, events>>
        /\ msgs' = [msgs EXCEPT ![s] = msgs[s] + 1]
    BY <1>8 DEF Gateway!Subscribe, Gateway!Handling, Gateway!redis
  <2>2. /\ msgs' \in [Session -> Nat] /\ msgs'[s] >= msgs[s] /\ pipe' \in [Session -> Seq(Command)]
        /\ \A t \in Session : t # s => msgs'[t] = msgs[t] /\ pipe'[t] = pipe[t]
    BY <1>1, <2>1
  <2>3. Moves(s, "loop")
    BY <2>1 DEF Moves
  <2>. QED  BY <2>1, <2>2, <2>3, TaskMoves
<1>9. ASSUME NEW s \in Session, Gateway!PublishEvent(s) \/ Gateway!CallService(s) PROVE GatewayInv'
  <2>1. PICK kind \in {"event", "request"}, to \in {"publish", "request"} :
          /\ g_at' = [g_at EXCEPT ![s] = to] /\ msgs' = [msgs EXCEPT ![s] = msgs[s] + 1]
          /\ pipe' = [pipe EXCEPT ![s] = Append(pipe[s], <<kind, <<s, msgs'[s]>> >>)]
          /\ UNCHANGED <<tx, requests, lists, events>>
    BY <1>9 DEF Gateway!PublishEvent, Gateway!CallService, Gateway!Handling, Gateway!Goto,
      Gateway!Command, Gateway!redis
  <2>2. /\ msgs' \in [Session -> Nat] /\ msgs'[s] > msgs[s] /\ msgs'[s] >= msgs[s]
        /\ \A t \in Session : t # s => msgs'[t] = msgs[t]
    BY <1>1, <2>1
  <2>3. <<kind, <<s, msgs'[s]>> >> \in Command
    BY <2>2 DEF Command, Call
  <2> DEFINE cmd == <<kind, <<s, msgs'[s]>> >>
  <2> HIDE DEF cmd
  <2>4. pipe' = [pipe EXCEPT ![s] = Append(pipe[s], cmd)] /\ cmd \in Command
    BY <2>1, <2>3 DEF cmd
  <2>5. /\ pipe' \in [Session -> Seq(Command)] /\ \A t \in Session : t # s => pipe'[t] = pipe[t]
    BY <1>1, <2>4
  <2>6. Moves(s, to)
    BY <2>1 DEF Moves
  <2>. QED  BY <2>1, <2>2, <2>5, <2>6, TaskMoves
<1>10. ASSUME NEW s \in Session, Gateway!RunPublish(s) PROVE GatewayInv'
  <2> DEFINE cmd == Head(pipe[s])
  <2>1. /\ pipe[s] # << >> /\ pipe' = [pipe EXCEPT ![s] = Tail(pipe[s])]
        /\ cmd[1] \in {"event", "request"}
        /\ events' = Append(events, cmd[2]) \/ events' = events
        /\ requests' = requests \cup {cmd[2]} \/ requests' = requests
        /\ UNCHANGED <<g_at, msgs, tx, lists>>
    BY <1>10 DEF Gateway!RunPublish, Gateway!Done, Gateway!task
  <2>2. cmd \in Command /\ Tail(pipe[s]) \in Seq(Command) /\ pipe[s] \in Seq(Command)
    BY <1>1, <2>1
  <2>3. cmd[2] \in Call
    BY <2>2 DEF Command
  <2>4. /\ pipe' \in [Session -> Seq(Command)] /\ \A t \in Session : t # s => pipe'[t] = pipe[t]
    BY <1>1, <2>1, <2>2
  <2>5. events' \in Seq(Call) /\ requests' \subseteq Call
    <3>1. Append(events, cmd[2]) \in Seq(Call)
      BY <1>1, <2>3, AppendProperties
    <3>2. requests \subseteq Call
      BY DEF GatewayInv
    <3>. QED  BY <1>1, <2>1, <2>3, <3>1, <3>2
  <2>6. g_at[s] # "blpop"
    <3> SUFFICES ASSUME g_at[s] = "blpop" PROVE FALSE
      OBVIOUS
    <3>1. pipe[s] = << <<"blpop", <<s, msgs[s]>> >> >>
      BY DEF GatewayInv, Waits
    <3>. QED  BY <2>1, <3>1
  <2>7. ASSUME NEW t \in Session PROVE Waits(t)' /\ Answered(t)'
    <3>1. Waits(t) /\ Answered(t)
      BY DEF GatewayInv
    <3>2. Waits(t)'
      BY <2>1, <2>4, <2>6, <3>1 DEF Waits
    <3>. QED  BY <2>1, <3>1, <3>2 DEF Answered
  <2>. QED  BY <1>1, <2>1, <2>4, <2>5, <2>7 DEF GatewayInv
<1>11. ASSUME NEW call \in requests, Gateway!Answer(call) PROVE GatewayInv'
  <2>1. /\ requests' \subseteq requests /\ lists' = lists \cup {<<call, call>>}
        /\ UNCHANGED <<g_at, msgs, pipe, events, tx>>
    BY <1>11 DEF Gateway!Answer, Gateway!response_channel, Gateway!task
  <2>2. call \in Call
    BY DEF GatewayInv
  <2>3. \A a \in lists' : a = <<a[1], a[2]>> /\ a[1] = a[2] /\ a[2] \in Call
    BY <2>1, <2>2 DEF GatewayInv
  <2>4. ASSUME NEW t \in Session PROVE Waits(t)' /\ Answered(t)'
    BY <2>1 DEF GatewayInv, Waits, Answered
  <2>5. requests' \subseteq Call
    BY <2>1 DEF GatewayInv
  <2>. QED  BY <1>1, <2>1, <2>3, <2>4, <2>5 DEF GatewayInv
<1>12. ASSUME NEW s \in Session, Gateway!RunPop(s) PROVE GatewayInv'
  <2>1. PICK a \in lists :
          /\ a[1] = Head(pipe[s])[2] /\ lists' = lists \ {a}
          /\ IF g_at[s] = "blpop"
             THEN /\ g_at' = [g_at EXCEPT ![s] = "loop"]
                  /\ tx' = [tx EXCEPT ![s] = Append(tx[s], <<"answer", a[2]>>)]
             ELSE UNCHANGED <<g_at, tx>>
    BY <1>12 DEF Gateway!RunPop, Gateway!Goto, Gateway!Queue
  <2>2. /\ pipe[s] # << >> /\ pipe' = [pipe EXCEPT ![s] = Tail(pipe[s])]
        /\ UNCHANGED <<msgs, requests, events>>
    BY <1>12 DEF Gateway!RunPop, Gateway!Done
  <2>3. pipe' \in [Session -> Seq(Command)] /\ \A t \in Session : t # s => pipe'[t] = pipe[t]
    <3>1. Tail(pipe[s]) \in Seq(Command)
      BY <1>1, <2>2
    <3>. QED  BY <1>1, <2>2, <3>1
  <2>4. \A b \in lists' : b = <<b[1], b[2]>> /\ b[1] = b[2] /\ b[2] \in Call
    BY <2>1 DEF GatewayInv
  <2>5. CASE g_at[s] # "blpop"
    <3>1. UNCHANGED <<g_at, tx>>
      BY <2>1, <2>5
    <3>2. ASSUME NEW t \in Session PROVE Waits(t)' /\ Answered(t)'
      <4>1. Waits(t) /\ Answered(t)
        BY DEF GatewayInv
      <4>2. Waits(t)'
        BY <2>2, <2>3, <2>5, <3>1, <4>1 DEF Waits
      <4>. QED  BY <2>2, <3>1, <4>1, <4>2 DEF Answered
    <3>3. requests' \subseteq Call
      BY <2>2 DEF GatewayInv
    <3>. QED  BY <1>1, <2>2, <2>3, <2>4, <3>1, <3>2, <3>3 DEF GatewayInv
  <2>6. CASE g_at[s] = "blpop"
    <3> DEFINE m == <<"answer", a[2]>>
    <3>1. g_at' = [g_at EXCEPT ![s] = "loop"] /\ tx' = [tx EXCEPT ![s] = Append(tx[s], m)]
      BY <2>1, <2>6
    <3>2. pipe[s] = << <<"blpop", <<s, msgs[s]>> >> >>
      BY <2>6 DEF GatewayInv, Waits
    <3>3. a[2] = <<s, msgs[s]>> /\ a[2] \in Call
      BY <2>1, <3>2 DEF GatewayInv
    <3>4. m \in Item /\ m[2] = <<s, msgs[s]>>
      BY <3>3 DEF Item
    <3> HIDE DEF m
    <3>5. /\ tx' \in [Session -> Seq(Item)] /\ tx'[s] = Append(tx[s], m)
          /\ \A t \in Session : t # s => tx'[t] = tx[t]
      BY <1>1, <3>1, <3>4
    <3>6. /\ DOMAIN g_at' = Session /\ g_at'[s] = "loop"
          /\ \A t \in Session : t # s => g_at'[t] = g_at[t]
      BY <1>1, <3>1
    <3>7. ASSUME NEW t \in Session PROVE Waits(t)' /\ Answered(t)'
      <4>1. Waits(t) /\ Answered(t)
        BY DEF GatewayInv
      <4>2. CASE t # s
        BY <2>2, <2>3, <3>5, <3>6, <4>1, <4>2 DEF Waits, Answered
      <4>3. CASE t = s
        <5>1. Waits(s)'
          BY <3>6 DEF Waits
        <5>2. Gateway!IsAnswer(m)
          BY DEF Gateway!IsAnswer, m
        <5>3. Answered(s)'
          <6>1. tx[s] \in Seq(Item) /\ msgs[s] \in Nat /\ msgs' = msgs /\ Answered(s)
            BY <1>1, <2>2, <4>1, <4>3
          <6>. QED  BY <2>6, <3>4, <3>5, <3>6, <5>2, <6>1, OneMore
        <5>. QED  BY <4>3, <5>1, <5>3
      <4>. QED  BY <4>2, <4>3
    <3>8. requests' \subseteq Call
      BY <2>2 DEF GatewayInv
    <3>. QED  BY <1>1, <2>2, <2>3, <2>4, <3>5, <3>6, <3>7, <3>8 DEF GatewayInv
  <2>. QED  BY <2>5, <2>6
<1>13. ASSUME NEW s \in Session, Gateway!ClientCloses(s) PROVE GatewayInv'
  BY <1>2, <1>13 DEF Gateway!ClientCloses, Gateway!redis
<1>. QED
  BY <1>3, <1>4, <1>5, <1>6, <1>7, <1>8, <1>9, <1>10, <1>11, <1>12, <1>13
     DEF Gateway!Next, Gateway!Task, Gateway!Handle, Gateway!Redis

LEMMA GatewayRuns == [WebSocketNext]_websocket => [Gateway!Next]_(Gateway!vars)
BY DEF WebSocketNext, websocket, Only, Gateway_vars, Gateway!vars

(* Each answer a client of the gateway gets is to a call of its own, in the *)
(* order of the calls and once: a BLPOP left over from a call that timed    *)
(* out never gives its answer to a later call, for any number of clients    *)
(* and calls.                                                               *)
THEOREM AnswersAreOwn == WebSocketSpec => []AnswersBelong
<1>1. WebSocketInit => GatewayInv
  BY GatewayInit DEF WebSocketInit
<1>2. GatewayInv /\ [WebSocketNext]_websocket => GatewayInv'
  BY GatewayNext, GatewayRuns
<1>3. GatewayInv => AnswersBelong
  <2> SUFFICES ASSUME GatewayInv, NEW s \in Session, NEW n \in DOMAIN tx[s],
                      Gateway!IsAnswer(tx[s][n])
               PROVE  /\ tx[s][n][2][1] = s
                      /\ \A j \in 1 .. n - 1 : Gateway!IsAnswer(tx[s][j]) =>
                           tx[s][j][2][2] < tx[s][n][2][2]
    BY DEF AnswersBelong, Gateway!AnswersBelong
  <2>1. DOMAIN tx[s] = 1 .. Len(tx[s]) /\ Len(tx[s]) \in Nat
    BY DEF GatewayInv
  <2>2. Answered(s)
    BY DEF GatewayInv
  <2>. QED  BY <2>1, <2>2 DEF Answered
<1>. QED
  BY <1>1, <1>2, <1>3, PTL DEF WebSocketSpec

-----------------------------------------------------------------------------
(* WsValidator *)
Piece == [opcode : Validator!Data \cup {"Continuation"}, fin : BOOLEAN]

ValidatorInv == /\ accepted \in Seq(Piece) /\ Validator!MessagesWellFormed

LEMMA ValidatorInit == Validator!Init => ValidatorInv
BY DEF Validator!Init, ValidatorInv, Validator!MessagesWellFormed

LEMMA ValidatorAccepts ==
  ASSUME ValidatorInv, NEW f \in Validator!Frame, Validator!Accept(f)
  PROVE  ValidatorInv'
<1> DEFINE n == Len(accepted)
<1>0. /\ accepted \in Seq(Piece) /\ n \in Nat /\ DOMAIN accepted = 1 .. n
      /\ accepted # << >> <=> n > 0
  BY DEF ValidatorInv
<1>1. \A c \in farewell' : c \notin 0 .. 999 \cup {1004, 1005, 1006}
  <2>1. f.code \in Nat
    BY ValidatorAssumption DEF Validator!Frame
  <2>2. farewell' = farewell \/
        (farewell' = farewell \cup {f.code} /\ f.opcode = "Close" /\ f.length > 0)
    BY DEF Validator!Accept
  <2>3. CASE farewell' = farewell
    BY <2>3 DEF ValidatorInv, Validator!MessagesWellFormed
  <2>4. CASE farewell' = farewell \cup {f.code} /\ f.opcode = "Close" /\ f.length > 0
    <3>1. Validator!CodeOk(f.code)
      <4>1. f.length = 0 \/ Validator!CodeOk(f.code)
        BY <2>4 DEF Validator!Accept, Validator!PayloadOk
      <4>. QED  BY <2>4, <4>1
    <3>2. f.code \notin 0 .. 999 \cup {1004, 1005, 1006}
      <4>1. f.code >= 1000 /\ f.code \notin 1004 .. 1006
        BY <3>1 DEF Validator!CodeOk
      <4>2. f.code \notin 0 .. 999
        BY <2>1, <4>1
      <4>3. f.code \notin {1004, 1005, 1006}
        BY <4>1
      <4>. QED  BY <4>2, <4>3
    <3>3. \A c \in farewell : c \notin 0 .. 999 \cup {1004, 1005, 1006}
      BY DEF ValidatorInv, Validator!MessagesWellFormed
    <3> DEFINE Reserved == 0 .. 999 \cup {1004, 1005, 1006}
    <3> HIDE DEF Reserved
    <3>4. \A c \in farewell' : c \notin Reserved
      BY <2>4, <3>2, <3>3 DEF Reserved
    <3>. QED  BY <3>4 DEF Reserved
  <2>. QED  BY <2>2, <2>3, <2>4
<1>2. CASE f.opcode \in Validator!Control
  <2>1. f.opcode # "Continuation" /\ f.opcode \notin Validator!Data
    BY <1>2 DEF Validator!Control, Validator!Data
  <2>2. UNCHANGED <<in_fragmented_message, fragmented_opcode, accepted>>
    BY <1>2, <2>1 DEF Validator!Accept, Validator!Fragmentation
  <2>. QED  BY <1>1, <2>2 DEF ValidatorInv, Validator!MessagesWellFormed
<1>3. CASE f.opcode \in Validator!Data \cup {"Continuation"}
  <2> DEFINE p == [opcode |-> f.opcode, fin |-> f.fin]
             a == accepted'
  <2>1. f.fin \in BOOLEAN /\ f.opcode \notin Validator!Control
    BY <1>3 DEF Validator!Frame, Validator!Control, Validator!Data
  <2>2. a = Append(accepted, p) /\ p \in Piece /\ p.opcode = f.opcode /\ p.fin = f.fin
    BY <1>3, <2>1 DEF Validator!Accept, Piece
  <2> HIDE DEF p
  <2>3. /\ a \in Seq(Piece) /\ Len(a) = n + 1 /\ a[n + 1] = p /\ DOMAIN a = 1 .. n + 1
        /\ \A k \in 1 .. n : a[k] = accepted[k]
        /\ a # << >>
    BY <1>0, <2>2, AppendProperties
  <2>4. in_fragmented_message <=> (n > 0 /\ ~accepted[n].fin)
    BY <1>0 DEF ValidatorInv, Validator!MessagesWellFormed
  <2>5. f.opcode = "Continuation" <=> in_fragmented_message
    BY <1>3 DEF Validator!Accept, Validator!FragmentationOk
  <2>6. \A k \in 1 .. n : accepted[k].opcode = "Continuation" <=> (k > 1 /\ ~accepted[k - 1].fin)
    BY <1>0 DEF ValidatorInv, Validator!MessagesWellFormed
  <2>7. ASSUME NEW k \in 1 .. n + 1
        PROVE  a[k].opcode = "Continuation" <=> (k > 1 /\ ~a[k - 1].fin)
    <3>1. CASE k = n + 1
      <4>1. a[k].opcode = "Continuation" <=> (n > 0 /\ ~accepted[n].fin)
        BY <2>2, <2>3, <2>4, <2>5, <3>1
      <4>2. n > 0 => n \in 1 .. n /\ a[k - 1] = accepted[n]
        BY <1>0, <2>3, <3>1
      <4>3. k > 1 <=> n > 0
        BY <1>0, <3>1
      <4>. QED  BY <4>1, <4>2, <4>3
    <3>2. CASE k \in 1 .. n
      <4>1. k > 1 => k - 1 \in 1 .. n
        BY <1>0, <3>2
      <4>. QED  BY <2>3, <2>6, <3>2, <4>1
    <3>. QED  BY <1>0, <3>1, <3>2
  <2>8. CASE f.opcode = "Continuation" /\ f.fin
    <3>1. ~in_fragmented_message'
      BY <2>8 DEF Validator!Accept, Validator!Fragmentation, Validator!reset_fragmentation
    <3>2. p.fin
      BY <2>2, <2>8
    <3>3. in_fragmented_message' <=> (a # << >> /\ ~a[Len(a)].fin)
      BY <2>3, <3>1, <3>2
    <3>. QED  BY <1>1, <2>3, <2>7, <3>1, <3>3 DEF ValidatorInv, Validator!MessagesWellFormed
  <2>9. CASE f.opcode = "Continuation" /\ ~f.fin
    <3>1. UNCHANGED <<in_fragmented_message, fragmented_opcode>>
      <4>1. "Continuation" \notin Validator!Data
        BY DEF Validator!Data
      <4>. QED  BY <2>9, <4>1 DEF Validator!Accept, Validator!Fragmentation
    <3>2. in_fragmented_message /\ ~p.fin
      BY <2>2, <2>5, <2>9
    <3>3. in_fragmented_message' <=> (a # << >> /\ ~a[Len(a)].fin)
      BY <2>3, <3>1, <3>2
    <3>4. PICK k \in 1 .. n : /\ accepted[k].opcode = fragmented_opcode
                              /\ \A j \in k + 1 .. n : accepted[j].opcode = "Continuation"
      BY <1>0, <3>2 DEF ValidatorInv, Validator!MessagesWellFormed
    <3>5. /\ k \in DOMAIN a /\ a[k].opcode = fragmented_opcode'
          /\ \A j \in k + 1 .. Len(a) : a[j].opcode = "Continuation"
      <4>1. k \in DOMAIN a /\ a[k].opcode = fragmented_opcode'
        BY <1>0, <2>3, <3>1, <3>4
      <4>2. ASSUME NEW j \in k + 1 .. n + 1 PROVE a[j].opcode = "Continuation"
        <5>1. CASE j = n + 1
          BY <2>2, <2>3, <2>9, <5>1
        <5>2. CASE j # n + 1
          <6>1. j \in k + 1 .. n /\ j \in 1 .. n
            BY <1>0, <5>2
          <6>. QED  BY <2>3, <3>4, <6>1
        <5>. QED  BY <5>1, <5>2
      <4>. QED  BY <2>3, <4>1, <4>2
    <3>. QED  BY <1>1, <2>3, <2>7, <3>3, <3>5 DEF ValidatorInv, Validator!MessagesWellFormed
  <2>10. CASE f.opcode \in Validator!Data /\ ~f.fin
    <3>0. f.opcode # "Continuation"
      BY <2>10 DEF Validator!Data
    <3>1. in_fragmented_message' /\ fragmented_opcode' = f.opcode
      BY <2>10, <3>0 DEF Validator!Accept, Validator!Fragmentation
    <3>2. ~p.fin
      BY <2>2, <2>10
    <3>3. in_fragmented_message' <=> (a # << >> /\ ~a[Len(a)].fin)
      BY <2>3, <3>1, <3>2
    <3>4. /\ n + 1 \in DOMAIN a /\ a[n + 1].opcode = fragmented_opcode'
          /\ \A j \in (n + 1) + 1 .. Len(a) : a[j].opcode = "Continuation"
      BY <1>0, <2>2, <2>3, <3>1
    <3>5. \E k \in DOMAIN a : /\ a[k].opcode = fragmented_opcode'
                              /\ \A j \in k + 1 .. Len(a) : a[j].opcode = "Continuation"
      BY <3>4
    <3>6. DOMAIN a = 1 .. n + 1
      BY <2>3
    <3>. QED  BY <1>1, <2>3, <2>7, <3>3, <3>5, <3>6 DEF ValidatorInv, Validator!MessagesWellFormed
  <2>11. CASE f.opcode \in Validator!Data /\ f.fin
    <3>0. f.opcode # "Continuation"
      BY <2>11 DEF Validator!Data
    <3>1. UNCHANGED <<in_fragmented_message, fragmented_opcode>>
      BY <2>11, <3>0 DEF Validator!Accept, Validator!Fragmentation
    <3>2. ~in_fragmented_message /\ p.fin
      BY <2>2, <2>5, <2>11, <3>0
    <3>3. in_fragmented_message' <=> (a # << >> /\ ~a[Len(a)].fin)
      BY <2>3, <3>1, <3>2
    <3>. QED  BY <1>1, <2>3, <2>7, <3>1, <3>2, <3>3 DEF ValidatorInv, Validator!MessagesWellFormed
  <2>. QED  BY <1>3, <2>8, <2>9, <2>10, <2>11
<1>. QED  BY <1>2, <1>3 DEF Validator!Frame

LEMMA ValidatorNext == ValidatorInv /\ [Validator!Next]_(Validator!vars) => ValidatorInv'
<1> SUFFICES ASSUME ValidatorInv, [Validator!Next]_(Validator!vars) PROVE ValidatorInv'
  OBVIOUS
<1>1. ASSUME NEW f \in Validator!Frame, Validator!Violation(f) PROVE ValidatorInv'
  <2>1. ~in_fragmented_message' /\ accepted' = << >> /\ farewell' = farewell
    BY <1>1 DEF Validator!Violation, Validator!reset_fragmentation
  <2>. QED  BY <2>1 DEF ValidatorInv, Validator!MessagesWellFormed
<1>2. CASE UNCHANGED Validator!vars
  BY <1>2 DEF Validator!vars, ValidatorInv, Validator!MessagesWellFormed
<1>. QED
  BY <1>1, <1>2, ValidatorAccepts DEF Validator!Next, Validator!process_frame

LEMMA ValidatorRuns == [WebSocketNext]_websocket => [Validator!Next]_(Validator!vars)
BY DEF WebSocketNext, websocket, Only, Validator_vars, Validator!vars

(* Between violations process_frame() accepts whole messages and at most    *)
(* one unfinished at the end, and the state of the connection says which,   *)
(* whatever frames a peer sends; no reserved close code is accepted.        *)
THEOREM MessagesAreWhole == WebSocketSpec => []MessagesWellFormed
<1>1. WebSocketInit => ValidatorInv
  BY ValidatorInit DEF WebSocketInit
<1>2. ValidatorInv /\ [WebSocketNext]_websocket => ValidatorInv'
  BY ValidatorNext, ValidatorRuns
<1>3. ValidatorInv => MessagesWellFormed
  BY DEF ValidatorInv, MessagesWellFormed
<1>. QED
  BY <1>1, <1>2, <1>3, PTL DEF WebSocketSpec

-----------------------------------------------------------------------------
(* WsPool.  The counters run modulo a number that the objects cannot reach, *)
(* so that their difference is exact.                                       *)
LEMMA Difference ==
  ASSUME NEW m \in Nat \ {0}, NEW a \in 0 .. (m - 1), NEW d \in 0 .. (m - 1)
  PROVE  /\ (a + m - d) % m = IF a >= d THEN a - d ELSE a + m - d
         /\ (a + 1) % m = IF a + 1 < m THEN a + 1 ELSE 0
<1>1. \A x \in 0 .. (m - 1) : x % m = x /\ (x + m) % m = x
  OBVIOUS
<1>2. (a + m - d) % m = IF a >= d THEN a - d ELSE a + m - d
  <2>1. CASE a >= d
    <3>1. a - d \in 0 .. (m - 1) /\ a + m - d = (a - d) + m
      BY <2>1
    <3>. QED  BY <1>1, <2>1, <3>1
  <2>2. CASE a < d
    <3>1. a + m - d \in 0 .. (m - 1)
      BY <2>2
    <3>. QED  BY <1>1, <2>2, <3>1
  <2>. QED  BY <2>1, <2>2
<1>3. (a + 1) % m = IF a + 1 < m THEN a + 1 ELSE 0
  <2>1. CASE a + 1 < m
    BY <1>1, <2>1
  <2>2. CASE a + 1 = m
    BY <1>1, <2>2
  <2>. QED  BY <2>1, <2>2
<1>. QED  BY <1>2, <1>3

(* The module and its instance count alike. *)
LEMMA SameCardinality == ASSUME NEW S PROVE Pool!Cardinality(S) = Cardinality(S)
BY DEF Pool!Cardinality, Cardinality

Holders == {t \in Thread : handle[t] # 0}
Out == (allocations + Pool!Modulus - deallocations) % Pool!Modulus

PoolTypes ==
  /\ objects \in Nat /\ objects <= initial_size + max_size
  /\ in_use \in Seq(BOOLEAN) /\ Len(in_use) = objects
  /\ available \in Seq(Nat) /\ handle \in [Thread -> Nat]
  /\ \A t \in Thread : handle[t] <= objects
  /\ allocations \in 0 .. (Pool!Modulus - 1) /\ deallocations \in 0 .. (Pool!Modulus - 1)

(* Every object is held by one thread or none, and marked so. *)
Held == /\ \A t, u \in Thread : handle[t] = handle[u] => t = u \/ handle[t] = 0
        /\ \A n \in 1 .. objects : in_use[n] <=> \E t \in Thread : handle[t] = n

(* The free objects are queued once each. *)
Free == /\ \A j, k \in 1 .. Len(available) : available[j] = available[k] => j = k
        /\ \A k \in 1 .. Len(available) :
             available[k] \in 1 .. objects /\ ~in_use[available[k]]
        /\ \A n \in 1 .. objects :
             ~in_use[n] => \E k \in 1 .. Len(available) : available[k] = n

Counted == /\ Out = Cardinality(Holders)
           /\ Len(available) + Cardinality(Holders) = objects

PoolInv == PoolTypes /\ Held /\ Free /\ Counted

LEMMA ModulusType == Pool!Modulus \in Nat \ {0} /\ Pool!Modulus = initial_size + max_size + 1
BY PoolAssumption DEF Pool!Modulus

LEMMA HoldersFinite == IsFiniteSet(Holders) /\ Cardinality(Holders) \in Nat
<1>1. Holders \subseteq Thread
  BY DEF Holders
<1>2. IsFiniteSet(Holders)
  BY <1>1, PoolAssumption, FS_Subset
<1>. QED  BY <1>2, FS_CardinalityType

LEMMA PoolInit == Pool!Init => PoolInv
<1> SUFFICES ASSUME Pool!Init PROVE PoolInv
  OBVIOUS
<1>1. /\ objects = initial_size /\ available = [n \in 1 .. initial_size |-> n]
      /\ in_use = [n \in 1 .. initial_size |-> FALSE] /\ allocations = 0 /\ deallocations = 0
      /\ handle = [t \in Thread |-> 0]
  BY DEF Pool!Init, Pool!None
<1>2. /\ initial_size \in Nat /\ max_size \in Nat
      /\ in_use \in Seq(BOOLEAN) /\ Len(in_use) = initial_size
  BY <1>1, PoolAssumption
<1>3. available \in Seq(Nat) /\ Len(available) = initial_size
  BY <1>1, <1>2
<1>4. PoolTypes
  BY <1>1, <1>2, <1>3, ModulusType DEF PoolTypes
<1>5. \A n \in 1 .. objects : ~in_use[n]
  BY <1>1
<1>6. Held
  BY <1>1, <1>2, <1>5 DEF Held
<1>7. Free
  BY <1>1, <1>2, <1>3, <1>5 DEF Free
<1>8. Holders = {}
  BY <1>1 DEF Holders
<1>9. Out = 0
  BY ModulusType, Difference, <1>1 DEF Out
<1>. QED  BY <1>1, <1>2, <1>3, <1>4, <1>6, <1>7, <1>8, <1>9, FS_EmptySet DEF PoolInv, Counted

(* One thread takes an object, or gives one back. *)
LEMMA OneMoreOut ==
  ASSUME PoolInv, Cardinality(Holders)' = Cardinality(Holders) + 1,
         Cardinality(Holders) < Pool!Modulus - 1,
         allocations' = Pool!Counter(allocations), deallocations' = deallocations
  PROVE  Out' = Cardinality(Holders)' /\ allocations' \in 0 .. (Pool!Modulus - 1)
<1> DEFINE m == Pool!Modulus
           a == allocations
           d == deallocations
           c == Cardinality(Holders)
<1>1. /\ m \in Nat \ {0} /\ a \in 0 .. (m - 1) /\ d \in 0 .. (m - 1) /\ c \in Nat
  BY ModulusType, HoldersFinite DEF PoolInv, PoolTypes
<1>2. c = (a + m - d) % m
  BY DEF PoolInv, Counted, Out
<1>3. allocations' = (a + 1) % m
  BY DEF Pool!Counter
<1>4. Out' = (allocations' + m - d) % m
  BY DEF Out, Pool!Modulus
<1>5. allocations' = IF a + 1 < m THEN a + 1 ELSE 0
  BY <1>1, <1>3, Difference
<1>6. c = IF a >= d THEN a - d ELSE a + m - d
  BY <1>1, <1>2, Difference
<1>7. allocations' \in 0 .. (m - 1)
  BY <1>1, <1>5
<1>8. Out' = IF allocations' >= d THEN allocations' - d ELSE allocations' + m - d
  BY <1>1, <1>4, <1>7, Difference
<1> HIDE DEF m, a, d, c
<1>9. c < m - 1 /\ Cardinality(Holders)' = c + 1
  BY DEF c, m
<1>10. Out' = c + 1
  BY <1>1, <1>5, <1>6, <1>8, <1>9
<1>. QED  BY <1>7, <1>9, <1>10 DEF m

LEMMA OneLessOut ==
  ASSUME PoolInv, Cardinality(Holders)' = Cardinality(Holders) - 1,
         Cardinality(Holders) > 0,
         deallocations' = Pool!Counter(deallocations), allocations' = allocations
  PROVE  Out' = Cardinality(Holders)' /\ deallocations' \in 0 .. (Pool!Modulus - 1)
<1> DEFINE m == Pool!Modulus
           a == allocations
           d == deallocations
           c == Cardinality(Holders)
<1>1. /\ m \in Nat \ {0} /\ a \in 0 .. (m - 1) /\ d \in 0 .. (m - 1) /\ c \in Nat
  BY ModulusType, HoldersFinite DEF PoolInv, PoolTypes
<1>2. c = (a + m - d) % m
  BY DEF PoolInv, Counted, Out
<1>3. deallocations' = (d + 1) % m
  BY DEF Pool!Counter
<1>4. Out' = (a + m - deallocations') % m
  BY DEF Out, Pool!Modulus
<1>5. deallocations' = IF d + 1 < m THEN d + 1 ELSE 0
  BY <1>1, <1>3, Difference
<1>6. c = IF a >= d THEN a - d ELSE a + m - d
  BY <1>1, <1>2, Difference
<1>7. deallocations' \in 0 .. (m - 1)
  BY <1>1, <1>5
<1>8. Out' = IF a >= deallocations' THEN a - deallocations' ELSE a + m - deallocations'
  BY <1>1, <1>4, <1>7, Difference
<1> HIDE DEF m, a, d, c
<1>9. c > 0 /\ Cardinality(Holders)' = c - 1
  BY DEF c
<1>10. Out' = c - 1
  BY <1>1, <1>5, <1>6, <1>8, <1>9
<1>. QED  BY <1>7, <1>9, <1>10 DEF m

(* Thread t, which held nothing, now holds object n: no other does. *)
LEMMA Takes ==
  ASSUME PoolInv, NEW t \in Thread, handle[t] = 0, NEW n \in Nat \ {0},
         handle' = [handle EXCEPT ![t] = n], \A u \in Thread : handle[u] # n,
         objects' \in Nat, objects' >= objects, n <= objects'
  PROVE  /\ handle' \in [Thread -> Nat] /\ \A u \in Thread : handle'[u] <= objects'
         /\ \A u, v \in Thread : handle'[u] = handle'[v] => u = v \/ handle'[u] = 0
         /\ \A k : (\E u \in Thread : handle'[u] = k) <=>
                   (k = n \/ (k = 0 /\ \E u \in Thread : u # t /\ handle[u] = 0)
                    \/ (k # 0 /\ \E u \in Thread : handle[u] = k))
         /\ Cardinality(Holders)' = Cardinality(Holders) + 1
<1>1. handle \in [Thread -> Nat] /\ objects \in Nat /\ \A u \in Thread : handle[u] <= objects
  BY DEF PoolInv, PoolTypes
<1>2. /\ handle' \in [Thread -> Nat] /\ handle'[t] = n
      /\ \A u \in Thread : u # t => handle'[u] = handle[u]
  BY <1>1
<1>3. \A u \in Thread : handle'[u] <= objects'
  BY <1>1, <1>2
<1>4. \A u, v \in Thread : handle'[u] = handle'[v] => u = v \/ handle'[u] = 0
  BY <1>2 DEF PoolInv, Held
<1>5. Holders' = Holders \cup {t} /\ t \notin Holders
  BY <1>2 DEF Holders
<1>6. Cardinality(Holders)' = Cardinality(Holders) + 1
  <2>1. Cardinality(Holders \cup {t}) = Cardinality(Holders) + 1
    BY <1>5, HoldersFinite, FS_AddElement
  <2>. QED  BY <1>5, <2>1
<1>7. \A k : (\E u \in Thread : handle'[u] = k) <=>
             (k = n \/ (k = 0 /\ \E u \in Thread : u # t /\ handle[u] = 0)
              \/ (k # 0 /\ \E u \in Thread : handle[u] = k))
  BY <1>2
<1>. QED  BY <1>2, <1>3, <1>4, <1>6, <1>7

(* What the arena does leaves the pool alone. *)
LEMMA PoolRests ==
  ASSUME PoolInv,
         UNCHANGED <<objects, available, in_use, allocations, deallocations, handle>>
  PROVE  PoolInv'
<1>1. Holders' = Holders /\ Out' = Out
  BY DEF Holders, Out, Pool!Modulus
<1>2. Cardinality(Holders)' = Cardinality(Holders)
  BY <1>1
<1>. QED  BY <1>1, <1>2 DEF PoolInv, PoolTypes, Held, Free, Counted, Pool!Modulus

LEMMA AppendKeeps ==
  ASSUME NEW S, NEW s \in Seq(S), NEW e \in S, NEW k \in 1 .. Len(s)
  PROVE  Append(s, e)[k] = s[k]
BY AppendProperties

LEMMA PoolAcquire ==
  ASSUME PoolInv, NEW t \in Thread, Pool!acquire(t)
  PROVE  PoolInv'
<1>0. /\ objects \in Nat /\ in_use \in Seq(BOOLEAN) /\ Len(in_use) = objects
      /\ available \in Seq(Nat) /\ Len(available) \in Nat /\ handle[t] = 0
      /\ DOMAIN in_use = 1 .. objects
      /\ allocations' = Pool!Counter(allocations) /\ deallocations' = deallocations
  BY DEF PoolInv, PoolTypes, Pool!acquire, Pool!None
<1>1. /\ Len(available) + Cardinality(Holders) = objects /\ Cardinality(Holders) \in Nat
      /\ objects <= initial_size + max_size /\ deallocations \in 0 .. (Pool!Modulus - 1)
  BY HoldersFinite DEF PoolInv, PoolTypes, Counted
<1>2. CASE /\ available # << >> /\ available' = Tail(available) /\ objects' = objects
           /\ in_use' = [in_use EXCEPT ![Head(available)] = TRUE]
           /\ handle' = [handle EXCEPT ![t] = Head(available)]
  <2> DEFINE n == Head(available)
             s == available
             rest == Tail(available)
  <2>1. /\ Len(s) > 0 /\ n = s[1] /\ 1 \in 1 .. Len(s)
        /\ rest \in Seq(Nat) /\ Len(rest) = Len(s) - 1 /\ \A k \in 1 .. Len(rest) : rest[k] = s[k + 1]
    BY <1>0, <1>2
  <2>2. n \in 1 .. objects /\ ~in_use[n]
    BY <2>1 DEF PoolInv, Free
  <2>3. \A u \in Thread : handle[u] # n
    BY <2>2 DEF PoolInv, Held
  <2> HIDE DEF n
  <2>4. /\ handle' \in [Thread -> Nat] /\ \A u \in Thread : handle'[u] <= objects'
        /\ \A u, v \in Thread : handle'[u] = handle'[v] => u = v \/ handle'[u] = 0
        /\ \A k : (\E u \in Thread : handle'[u] = k) <=>
                  (k = n \/ (k = 0 /\ \E u \in Thread : u # t /\ handle[u] = 0)
                   \/ (k # 0 /\ \E u \in Thread : handle[u] = k))
        /\ Cardinality(Holders)' = Cardinality(Holders) + 1
    <3>1. /\ n \in Nat \ {0} /\ objects' \in Nat /\ objects' >= objects /\ n <= objects'
          /\ handle' = [handle EXCEPT ![t] = n]
      BY <1>0, <1>2, <2>2 DEF n
    <3>. QED  BY <1>0, <2>3, <3>1, Takes
  <2>5. in_use' \in Seq(BOOLEAN) /\ Len(in_use') = objects
    <3>1. in_use' = [in_use EXCEPT ![n] = TRUE]
      BY <1>2 DEF n
    <3>. QED  BY <1>0, <2>2, <3>1
  <2>6. in_use'[n] /\ \A k \in 1 .. objects : k # n => (in_use'[k] <=> in_use[k])
    <3>1. in_use' = [in_use EXCEPT ![n] = TRUE]
      BY <1>2 DEF n
    <3>2. in_use'[n]
      BY <1>0, <2>2, <3>1
    <3>3. \A k \in 1 .. objects : k # n => in_use'[k] = in_use[k]
      BY <1>0, <3>1
    <3>. QED  BY <3>2, <3>3
  <2>7. Cardinality(Holders) < Pool!Modulus - 1
    BY <1>1, <2>1, <1>0, ModulusType, PoolAssumption
  <2>8. Out' = Cardinality(Holders)' /\ allocations' \in 0 .. (Pool!Modulus - 1)
    BY <1>0, <2>4, <2>7, OneMoreOut
  <2>9. PoolTypes'
    BY <1>0, <1>1, <1>2, <2>1, <2>4, <2>5, <2>8 DEF PoolTypes, Pool!Modulus
  <2>10. Held'
    <3>1. ASSUME NEW k \in 1 .. objects
          PROVE  in_use'[k] <=> \E u \in Thread : handle'[u] = k
      <4>1. in_use[k] <=> \E u \in Thread : handle[u] = k
        BY DEF PoolInv, Held
      <4>. QED  BY <2>4, <2>6, <4>1
    <3>. QED  BY <1>2, <2>4, <3>1 DEF Held
  <2>11. Free'
    <3>0. /\ \A j, k \in 1 .. Len(s) : s[j] = s[k] => j = k
          /\ \A k \in 1 .. Len(s) : s[k] \in 1 .. objects /\ ~in_use[s[k]]
          /\ \A m \in 1 .. objects : ~in_use[m] => \E k \in 1 .. Len(s) : s[k] = m
      BY DEF PoolInv, Free
    <3> HIDE DEF s, rest
    <3>1. ASSUME NEW k \in 1 .. Len(rest)
          PROVE  k + 1 \in 1 .. Len(s) /\ rest[k] = s[k + 1] /\ k + 1 # 1
      <4>1. Len(s) \in Nat /\ Len(rest) = Len(s) - 1
        BY <1>0, <2>1 DEF s
      <4>2. k + 1 \in 1 .. Len(s) /\ k + 1 # 1
        BY <4>1
      <4>3. rest[k] = s[k + 1]
        BY <2>1
      <4>. QED  BY <4>2, <4>3
    <3>2. \A j, k \in 1 .. Len(rest) : rest[j] = rest[k] => j = k
      BY <3>0, <3>1
    <3>3. ASSUME NEW k \in 1 .. Len(rest) PROVE rest[k] \in 1 .. objects /\ ~in_use'[rest[k]]
      <4>1. rest[k] \in 1 .. objects /\ ~in_use[rest[k]]
        BY <3>0, <3>1
      <4>2. rest[k] # n
        BY <2>1, <3>0, <3>1
      <4>. QED  BY <2>6, <4>1, <4>2
    <3>4. ASSUME NEW m \in 1 .. objects, ~in_use'[m] PROVE \E k \in 1 .. Len(rest) : rest[k] = m
      <4>1. m # n /\ ~in_use[m]
        BY <2>6, <3>4
      <4>2. PICK k \in 1 .. Len(s) : s[k] = m
        BY <3>0, <4>1
      <4>3. k # 1
        BY <2>1, <4>1, <4>2
      <4>4. k - 1 \in 1 .. Len(rest) /\ (k - 1) + 1 = k
        BY <1>0, <2>1, <4>3 DEF s
      <4>5. rest[k - 1] = s[k]
        BY <3>1, <4>4
      <4>. QED  BY <4>2, <4>4, <4>5
    <3>. QED  BY <1>2, <3>2, <3>3, <3>4 DEF Free, rest
  <2>12. Counted'
    <3>1. Len(rest) + (Cardinality(Holders) + 1) = objects
      BY <1>0, <1>1, <2>1
    <3>. QED  BY <1>2, <2>4, <2>8, <3>1 DEF Counted
  <2>. QED  BY <2>9, <2>10, <2>11, <2>12 DEF PoolInv
<1>3. CASE /\ available = << >> /\ objects < max_size
           /\ objects' = objects + 1 /\ available' = available
           /\ in_use' = Append(in_use, TRUE)
           /\ handle' = [handle EXCEPT ![t] = objects']
  <2> DEFINE n == objects + 1
  <2>1. \A u \in Thread : handle[u] # n
    BY <1>0 DEF PoolInv, PoolTypes
  <2>2. /\ handle' \in [Thread -> Nat] /\ \A u \in Thread : handle'[u] <= objects'
        /\ \A u, v \in Thread : handle'[u] = handle'[v] => u = v \/ handle'[u] = 0
        /\ \A k : (\E u \in Thread : handle'[u] = k) <=>
                  (k = n \/ (k = 0 /\ \E u \in Thread : u # t /\ handle[u] = 0)
                   \/ (k # 0 /\ \E u \in Thread : handle[u] = k))
        /\ Cardinality(Holders)' = Cardinality(Holders) + 1
    <3>1. /\ n \in Nat \ {0} /\ objects' \in Nat /\ objects' >= objects /\ n <= objects'
          /\ handle' = [handle EXCEPT ![t] = n]
      BY <1>0, <1>3
    <3> HIDE DEF n
    <3>. QED  BY <1>0, <2>1, <3>1, Takes
  <2>3. in_use' \in Seq(BOOLEAN) /\ Len(in_use') = n
    BY <1>0, <1>3, AppendProperties
  <2>4. in_use'[n] /\ \A k \in 1 .. objects : in_use'[k] <=> in_use[k]
    <3>1. Len(in_use) + 1 = n
      BY <1>0
    <3>2. in_use'[Len(in_use) + 1] = TRUE
      BY <1>0, <1>3, AppendProperties
    <3>3. ASSUME NEW k \in 1 .. objects PROVE in_use'[k] <=> in_use[k]
      <4>1. k \in 1 .. Len(in_use) /\ k # Len(in_use) + 1
        BY <1>0
      <4>2. Append(in_use, TRUE)[k] = in_use[k]
        <5>1. TRUE \in BOOLEAN /\ in_use \in Seq(BOOLEAN)
          BY <1>0
        <5>. QED  BY <4>1, <5>1, AppendKeeps, Zenon
      <4>. QED  BY <1>3, <4>2
    <3>4. in_use'[n]
      BY <3>1, <3>2
    <3>. QED  BY <3>3, <3>4
  <2>5. Cardinality(Holders) < Pool!Modulus - 1
    BY <1>0, <1>1, <1>3, ModulusType, PoolAssumption
  <2>6. Out' = Cardinality(Holders)' /\ allocations' \in 0 .. (Pool!Modulus - 1)
    BY <1>0, <2>2, <2>5, OneMoreOut
  <2>7. PoolTypes'
    BY <1>0, <1>1, <1>3, <2>2, <2>3, <2>6, PoolAssumption DEF PoolTypes, Pool!Modulus
  <2>8. Held'
    <3>1. ASSUME NEW k \in 1 .. n
          PROVE  in_use'[k] <=> \E u \in Thread : handle'[u] = k
      <4>1. CASE k = n
        BY <2>2, <2>4, <4>1
      <4>2. CASE k \in 1 .. objects
        <5>1. in_use[k] <=> \E u \in Thread : handle[u] = k
          BY <4>2 DEF PoolInv, Held
        <5>2. k # n /\ k # 0
          BY <1>0, <4>2
        <5>. QED  BY <2>2, <2>4, <4>2, <5>1, <5>2
      <4>. QED  BY <1>0, <4>1, <4>2
    <3>. QED  BY <1>3, <2>2, <3>1 DEF Held
  <2>9. Free'
    <3>1. Len(available) = 0 /\ \A k \in 1 .. objects : in_use[k]
      <4>1. Len(available) = 0
        BY <1>3
      <4>. QED  BY <4>1 DEF PoolInv, Free
    <3>2. \A k \in 1 .. n : in_use'[k]
      BY <1>0, <2>4, <3>1
    <3>3. objects' = n /\ Len(available') = 0
      BY <1>3, <3>1
    <3> HIDE DEF n
    <3>4. 1 .. Len(available') = {}
      BY <3>3
    <3>. QED  BY <3>2, <3>3, <3>4 DEF Free
  <2>10. Counted'
    BY <1>0, <1>1, <1>3, <2>2, <2>6 DEF Counted
  <2>. QED  BY <2>7, <2>8, <2>9, <2>10 DEF PoolInv
<1>. QED  BY <1>2, <1>3 DEF Pool!acquire

LEMMA PoolDrop ==
  ASSUME PoolInv, NEW t \in Thread, Pool!drop(t)
  PROVE  PoolInv'
<1> DEFINE n == handle[t]
           s == available
           rest == available'
<1>0. /\ objects \in Nat /\ in_use \in Seq(BOOLEAN) /\ Len(in_use) = objects
      /\ available \in Seq(Nat) /\ Len(available) \in Nat /\ handle \in [Thread -> Nat]
      /\ DOMAIN in_use = 1 .. objects /\ \A u \in Thread : handle[u] <= objects
      /\ objects <= initial_size + max_size /\ allocations \in 0 .. (Pool!Modulus - 1)
  BY DEF PoolInv, PoolTypes
<1>1. n \in 1 .. objects
  BY <1>0 DEF Pool!drop, Pool!None
<1>2. in_use[n]
  BY <1>1 DEF PoolInv, Held
<1>3. /\ in_use' = [in_use EXCEPT ![n] = FALSE] /\ available' = Append(available, n)
      /\ deallocations' = Pool!Counter(deallocations) /\ handle' = [handle EXCEPT ![t] = 0]
      /\ objects' = objects /\ allocations' = allocations
  BY <1>2 DEF Pool!drop, Pool!None
<1> HIDE DEF n
<1>4. /\ handle' \in [Thread -> Nat] /\ handle'[t] = 0
      /\ \A u \in Thread : u # t => handle'[u] = handle[u]
      /\ \A u \in Thread : handle'[u] <= objects
  BY <1>0, <1>3
<1>5. Cardinality(Holders)' = Cardinality(Holders) - 1 /\ Cardinality(Holders) > 0
  <2>1. Holders' = Holders \ {t} /\ t \in Holders
    BY <1>1, <1>4 DEF Holders, n
  <2>2. Cardinality(Holders \ {t}) = Cardinality(Holders) - 1
    BY <2>1, HoldersFinite, FS_RemoveElement
  <2>3. IsFiniteSet(Holders \ {t})
    BY HoldersFinite, FS_RemoveElement
  <2>4. Cardinality(Holders \ {t}) \in Nat
    BY <2>3, FS_CardinalityType
  <2>. QED  BY <2>1, <2>2, <2>4, HoldersFinite
<1>6. Out' = Cardinality(Holders)' /\ deallocations' \in 0 .. (Pool!Modulus - 1)
  BY <1>3, <1>5, OneLessOut
<1>7. in_use' \in Seq(BOOLEAN) /\ Len(in_use') = objects
  BY <1>0, <1>1, <1>3
<1>8. ~in_use'[n] /\ \A k \in 1 .. objects : k # n => (in_use'[k] <=> in_use[k])
  <2>1. ~in_use'[n]
    BY <1>0, <1>1, <1>3
  <2>2. \A k \in 1 .. objects : k # n => in_use'[k] = in_use[k]
    BY <1>0, <1>3
  <2>. QED  BY <2>1, <2>2
<1>9. /\ rest \in Seq(Nat) /\ Len(rest) = Len(s) + 1 /\ rest[Len(s) + 1] = n
      /\ \A k \in 1 .. Len(s) : rest[k] = s[k]
  BY <1>0, <1>1, <1>3, AppendProperties
<1>10. PoolTypes'
  BY <1>0, <1>3, <1>4, <1>6, <1>7, <1>9 DEF PoolTypes, Pool!Modulus
<1>11. Held'
  <2>1. \A u, v \in Thread : handle'[u] = handle'[v] => u = v \/ handle'[u] = 0
    BY <1>4 DEF PoolInv, Held
  <2>2. ASSUME NEW k \in 1 .. objects
        PROVE  in_use'[k] <=> \E u \in Thread : handle'[u] = k
    <3>1. in_use[k] <=> \E u \in Thread : handle[u] = k
      BY DEF PoolInv, Held
    <3>2. CASE k = n
      <4>1. \A u \in Thread : handle[u] = n => u = t
        BY <1>1 DEF PoolInv, Held, n
      <4>2. \A u \in Thread : handle'[u] # n
        BY <1>1, <1>4, <4>1
      <4>. QED  BY <1>8, <3>2, <4>2
    <3>3. CASE k # n
      <4>1. k # 0 /\ handle[t] # k
        BY <3>3 DEF n
      <4>. QED  BY <1>4, <1>8, <3>1, <3>3, <4>1
    <3>. QED  BY <3>2, <3>3
  <2>. QED  BY <1>3, <2>1, <2>2 DEF Held
<1>12. Free'
  <2>0. /\ \A j, k \in 1 .. Len(s) : s[j] = s[k] => j = k
        /\ \A k \in 1 .. Len(s) : s[k] \in 1 .. objects /\ ~in_use[s[k]]
        /\ \A m \in 1 .. objects : ~in_use[m] => \E k \in 1 .. Len(s) : s[k] = m
    BY DEF PoolInv, Free
  <2>1. \A k \in 1 .. Len(s) : s[k] # n
    BY <1>2, <2>0
  <2>2. Len(s) \in Nat
    BY <1>0
  <2> HIDE DEF s, rest
  <2>3. \A j, k \in 1 .. Len(rest) : rest[j] = rest[k] => j = k
    <3> SUFFICES ASSUME NEW j \in 1 .. Len(rest), NEW k \in 1 .. Len(rest), rest[j] = rest[k] PROVE j = k
      OBVIOUS
    <3>1. (j = Len(s) + 1 \/ j \in 1 .. Len(s)) /\ (k = Len(s) + 1 \/ k \in 1 .. Len(s))
      BY <1>9, <2>2
    <3>. QED  BY <1>9, <2>0, <2>1, <3>1
  <2>4. ASSUME NEW k \in 1 .. Len(rest) PROVE rest[k] \in 1 .. objects /\ ~in_use'[rest[k]]
    <3>1. CASE k = Len(s) + 1
      BY <1>1, <1>8, <1>9, <3>1
    <3>2. CASE k \in 1 .. Len(s)
      <4>1. rest[k] = s[k] /\ s[k] # n /\ s[k] \in 1 .. objects /\ ~in_use[s[k]]
        BY <1>9, <2>0, <2>1, <3>2
      <4>. QED  BY <1>8, <4>1
    <3>. QED  BY <1>9, <2>2, <3>1, <3>2
  <2>5. ASSUME NEW m \in 1 .. objects, ~in_use'[m] PROVE \E k \in 1 .. Len(rest) : rest[k] = m
    <3>1. CASE m = n
      <4>1. Len(s) + 1 \in 1 .. Len(rest)
        BY <1>9, <2>2
      <4>. QED  BY <1>9, <3>1, <4>1
    <3>2. CASE m # n
      <4>1. ~in_use[m]
        BY <1>8, <2>5, <3>2
      <4>2. PICK k \in 1 .. Len(s) : s[k] = m
        BY <2>0, <4>1
      <4>3. k \in 1 .. Len(rest)
        BY <1>9, <2>2
      <4>. QED  BY <1>9, <4>2, <4>3
    <3>. QED  BY <3>1, <3>2
  <2>. QED  BY <1>3, <2>3, <2>4, <2>5 DEF Free, rest
<1>13. Counted'
  <2>1. Len(s) + Cardinality(Holders) = objects /\ Cardinality(Holders) \in Nat
    BY HoldersFinite DEF PoolInv, Counted
  <2>2. Len(rest) + (Cardinality(Holders) - 1) = objects
    BY <1>0, <1>9, <2>1
  <2>. QED  BY <1>3, <1>5, <1>6, <2>2 DEF Counted
<1>. QED  BY <1>10, <1>11, <1>12, <1>13 DEF PoolInv

(* The arena.  Offsets grow within a block and blocks only follow, so that  *)
(* what is given lies before the place of the next slice.                   *)
ArenaTypes ==
  /\ arena = [blocks |-> arena.blocks, current_block |-> arena.current_block,
              current_offset |-> arena.current_offset]
  /\ arena.blocks \in Nat /\ arena.current_block \in Nat /\ arena.current_offset \in Nat
  /\ 1 <= arena.current_block /\ arena.current_block <= arena.blocks
  /\ arena.current_offset <= block_size

Behind == \A g \in given :
            /\ g[1] \in Nat /\ g[2] \in Nat /\ g[2] < block_size
            /\ g[1] < arena.current_block
                 \/ (g[1] = arena.current_block /\ g[2] < arena.current_offset)

ArenaInv == /\ ArenaTypes /\ Behind /\ IsFiniteSet(given) /\ p_taken \in Nat
            /\ Cardinality(given) = p_taken

LEMMA ArenaInit == Pool!Init => ArenaInv
BY PoolAssumption, FS_EmptySet DEF Pool!Init, ArenaInv, ArenaTypes, Behind

LEMMA ArenaSafe == ArenaInv => Pool!SlicesApart
<1> SUFFICES ASSUME ArenaInv PROVE Pool!SlicesApart
  OBVIOUS
<1>1. \A g \in given : g[1] <= arena.blocks /\ g[2] < block_size
  <2>1. arena.current_block \in Nat /\ arena.blocks \in Nat /\ arena.current_block <= arena.blocks
    BY DEF ArenaInv, ArenaTypes
  <2>. QED  BY <2>1 DEF ArenaInv, Behind
<1>. QED  BY <1>1, SameCardinality DEF ArenaInv, Pool!SlicesApart

(* A slice has as many bytes as were asked for. *)
LEMMA SliceSize ==
  ASSUME NEW b \in Nat, NEW o \in Nat, NEW size \in Nat
  PROVE  LET slice == {<<b, k>> : k \in o .. (o + size - 1)}
         IN  IsFiniteSet(slice) /\ Cardinality(slice) = size
<1> DEFINE S == o .. (o + size - 1)
           slice == {<<b, k>> : k \in S}
           f == [k \in S |-> <<b, k>>]
<1>1. IsFiniteSet(S) /\ Cardinality(S) = size
  <2>1. o \in Int /\ o + size - 1 \in Int
    OBVIOUS
  <2>2. IsFiniteSet(S) /\ Cardinality(S) = IF o > o + size - 1 THEN 0 ELSE (o + size - 1) - o + 1
    BY <2>1, FS_Interval
  <2>3. (IF o > o + size - 1 THEN 0 ELSE (o + size - 1) - o + 1) = size
    OBVIOUS
  <2>. QED  BY <2>2, <2>3
<1>2. f \in Surjection(S, slice)
  BY DEF Surjection
<1>3. IsFiniteSet(slice) /\ Cardinality(slice) <= Cardinality(S)
      /\ (Cardinality(slice) = Cardinality(S) <=> f \in Injection(S, slice))
  BY <1>1, <1>2, FS_Surjection
<1>4. f \in Injection(S, slice)
  <2>1. f \in [S -> slice]
    OBVIOUS
  <2>2. \A j, k \in S : f[j] = f[k] => j = k
    OBVIOUS
  <2>. QED  BY <2>1, <2>2 DEF Injection, IsInjective
<1>. QED  BY <1>1, <1>3, <1>4

LEMMA ArenaAllocate ==
  ASSUME ArenaInv, NEW size \in Sizes, Pool!allocate(size)
  PROVE  ArenaInv'
<1> DEFINE a == Pool!Fit(size)
           slice == {<<a.current_block, k>> :
                       k \in a.current_offset .. (a.current_offset + size - 1)}
<1>0. size \in Nat /\ size <= block_size /\ block_size \in Nat
  BY PoolAssumption
<1>1. /\ arena' = [a EXCEPT !.current_offset = a.current_offset + size]
      /\ given' = given \cup slice /\ p_taken' = p_taken + size
  BY DEF Pool!allocate
<1>2. /\ a = [blocks |-> a.blocks, current_block |-> a.current_block,
              current_offset |-> a.current_offset]
      /\ a.blocks \in Nat /\ a.current_block \in Nat /\ a.current_offset \in Nat
      /\ 1 <= a.current_block /\ a.current_block <= a.blocks
      /\ a.current_offset + size <= block_size
  BY <1>0 DEF ArenaInv, ArenaTypes, Pool!Fit
<1>3. \A g \in given :
        \/ g[1] < a.current_block
        \/ g[1] = a.current_block /\ g[2] < a.current_offset
  BY <1>0 DEF ArenaInv, ArenaTypes, Behind, Pool!Fit
<1> HIDE DEF a
<1>4. /\ arena' = [blocks |-> a.blocks, current_block |-> a.current_block,
                   current_offset |-> a.current_offset + size]
  BY <1>1, <1>2
<1>5. ArenaTypes'
  BY <1>0, <1>2, <1>4 DEF ArenaTypes
<1>6. Behind'
  <2>1. ASSUME NEW g \in given
        PROVE  /\ g[1] \in Nat /\ g[2] \in Nat /\ g[2] < block_size
               /\ g[1] < a.current_block
                    \/ (g[1] = a.current_block /\ g[2] < a.current_offset + size)
    BY <1>0, <1>2, <1>3 DEF ArenaInv, Behind
  <2>2. ASSUME NEW g \in slice
        PROVE  /\ g[1] \in Nat /\ g[2] \in Nat /\ g[2] < block_size
               /\ g[1] = a.current_block /\ g[2] < a.current_offset + size
    BY <1>0, <1>2
  <2>. QED  BY <1>1, <1>4, <2>1, <2>2 DEF Behind
<1>7. IsFiniteSet(slice) /\ Cardinality(slice) = size
  BY <1>0, <1>2, SliceSize
<1>8. given \cap slice = {}
  <2>1. ASSUME NEW g \in given, g \in slice PROVE FALSE
    <3>1. PICK k \in a.current_offset .. (a.current_offset + size - 1) :
            g = <<a.current_block, k>>
      BY <2>1
    <3>2. g[1] = a.current_block /\ g[2] = k /\ k >= a.current_offset /\ k \in Nat
      BY <1>0, <1>2, <3>1
    <3>. QED  BY <1>2, <1>3, <3>2
  <2>. QED  BY <2>1
<1>9. IsFiniteSet(given \cup slice) /\ Cardinality(given \cup slice) = p_taken + size
  <2> HIDE DEF slice
  <2>1. IsFiniteSet(given) /\ Cardinality(given) = p_taken /\ p_taken \in Nat
    BY DEF ArenaInv
  <2>2. /\ IsFiniteSet(given \cup slice)
        /\ Cardinality(given \cup slice)
             = Cardinality(given) + Cardinality(slice) - Cardinality(given \cap slice)
    BY <1>7, <2>1, FS_Union
  <2>3. Cardinality(given \cap slice) = 0
    BY <1>8, FS_EmptySet
  <2>. QED  BY <1>0, <1>7, <2>1, <2>2, <2>3
<1>10. p_taken' \in Nat
  BY <1>0, <1>1 DEF ArenaInv
<1> HIDE DEF slice
<1>. QED  BY <1>1, <1>5, <1>6, <1>9, <1>10 DEF ArenaInv

LEMMA ArenaReset ==
  ASSUME ArenaInv, Pool!reset
  PROVE  ArenaInv'
<1>1. /\ arena' = [arena EXCEPT !.current_block = 1, !.current_offset = 0]
      /\ given' = {} /\ p_taken' = 0
  BY DEF Pool!reset
<1>2. arena.blocks >= 1 /\ block_size \in Nat
  BY PoolAssumption DEF ArenaInv, ArenaTypes
<1>3. ArenaTypes'
  <2>1. arena' = [blocks |-> arena.blocks, current_block |-> 1, current_offset |-> 0]
    BY <1>1 DEF ArenaInv, ArenaTypes
  <2>2. arena.blocks \in Nat
    BY DEF ArenaInv, ArenaTypes
  <2>. QED  BY <1>2, <2>1, <2>2 DEF ArenaTypes
<1>4. Behind'
  BY <1>1 DEF Behind
<1>. QED  BY <1>1, <1>3, <1>4, FS_EmptySet DEF ArenaInv

LEMMA PoolNext == PoolInv /\ ArenaInv /\ [Pool!Next]_(Pool!vars) => PoolInv' /\ ArenaInv'
<1> SUFFICES ASSUME PoolInv, ArenaInv, [Pool!Next]_(Pool!vars) PROVE PoolInv' /\ ArenaInv'
  OBVIOUS
<1>1. ASSUME UNCHANGED Pool!temp PROVE ArenaInv'
  BY <1>1 DEF Pool!temp, ArenaInv, ArenaTypes, Behind
<1>2. ASSUME NEW t \in Thread, Pool!acquire(t) PROVE PoolInv' /\ ArenaInv'
  <2>1. UNCHANGED Pool!temp
    BY <1>2 DEF Pool!acquire
  <2>. QED  BY <1>1, <1>2, <2>1, PoolAcquire
<1>3. ASSUME NEW t \in Thread, Pool!drop(t) PROVE PoolInv' /\ ArenaInv'
  <2>1. UNCHANGED Pool!temp
    BY <1>3 DEF Pool!drop
  <2>. QED  BY <1>1, <1>3, <2>1, PoolDrop
<1>4. ASSUME NEW t \in Thread, Pool!get_mut(t) \/ Pool!EndWrite(t) PROVE PoolInv' /\ ArenaInv'
  <2>1. UNCHANGED Pool!temp /\ UNCHANGED Pool!pool /\ UNCHANGED handle
    BY <1>4 DEF Pool!get_mut, Pool!EndWrite
  <2>. QED  BY <1>1, <2>1, PoolRests DEF Pool!pool
<1>5. ASSUME NEW size \in Sizes, Pool!allocate(size) PROVE PoolInv' /\ ArenaInv'
  <2>1. UNCHANGED Pool!pool /\ UNCHANGED handle
    BY <1>5 DEF Pool!allocate
  <2>. QED  BY <1>5, <2>1, ArenaAllocate, PoolRests DEF Pool!pool
<1>6. CASE Pool!reset
  <2>1. UNCHANGED Pool!pool /\ UNCHANGED handle
    BY <1>6 DEF Pool!reset
  <2>. QED  BY <1>6, <2>1, ArenaReset, PoolRests DEF Pool!pool
<1>7. CASE UNCHANGED Pool!vars
  <2>1. UNCHANGED Pool!temp /\ UNCHANGED Pool!pool /\ UNCHANGED handle
    BY <1>7 DEF Pool!vars, Pool!temp, Pool!pool
  <2>. QED  BY <1>1, <2>1, PoolRests DEF Pool!pool
<1>. QED  BY <1>2, <1>3, <1>4, <1>5, <1>6, <1>7 DEF Pool!Next

LEMMA PoolRuns == [WebSocketNext]_websocket => [Pool!Next]_(Pool!vars)
BY DEF WebSocketNext, websocket, Only, Pool_vars, Pool!vars

LEMMA PoolOneOwner == PoolInv => Pool!OneOwner
<1> SUFFICES ASSUME PoolInv PROVE Pool!OneOwner
  OBVIOUS
<1>1. DOMAIN available = 1 .. Len(available)
  BY DEF PoolInv, PoolTypes
<1>2. /\ \A t, u \in Thread : handle[t] = handle[u] => t = u \/ handle[t] = 0
      /\ \A n \in 1 .. objects : in_use[n] <=> \E t \in Thread : handle[t] = n
  BY DEF PoolInv, Held
<1>3. \A j, k \in DOMAIN available : available[j] = available[k] => j = k
  BY <1>1 DEF PoolInv, Free
<1>4. {available[k] : k \in DOMAIN available} = {n \in 1 .. objects : ~in_use[n]}
  BY <1>1 DEF PoolInv, Free
<1>5. (allocations + Pool!Modulus - deallocations) % Pool!Modulus
        = Cardinality({t \in Thread : handle[t] # 0})
  BY DEF PoolInv, Counted, Out, Holders
<1>6. (allocations + Pool!Modulus - deallocations) % Pool!Modulus
        = Pool!Cardinality({t \in Thread : handle[t] # Pool!None})
  BY <1>5, SameCardinality DEF Pool!None
<1>. QED  BY <1>2, <1>3, <1>4, <1>6 DEF Pool!OneOwner, Pool!None

(* An object of the pool has one owner however acquire() and the drop of    *)
(* handles interleave, the free list holds every other object once, the     *)
(* statistics count those that are out; the slices of the arena share no    *)
(* byte and lie in blocks that exist, however often it was reset.           *)
THEOREM PoolIsSafe == WebSocketSpec => []PoolSafe
<1>1. WebSocketInit => PoolInv /\ ArenaInv
  BY PoolInit, ArenaInit DEF WebSocketInit
<1>2. PoolInv /\ ArenaInv /\ [WebSocketNext]_websocket => PoolInv' /\ ArenaInv'
  BY PoolNext, PoolRuns
<1>3. PoolInv /\ ArenaInv => PoolSafe
  BY PoolOneOwner, ArenaSafe DEF PoolSafe
<1>. QED
  BY <1>1, <1>2, <1>3, PTL DEF WebSocketSpec

-----------------------------------------------------------------------------
(* WsMigration.  Messages are numbered as they are queued and leave the     *)
(* queue from the front only, so that what is written and then what is      *)
(* queued are the numbers from 0 on: no acknowledgement finds a message in  *)
(* the queue that it covers.                                                *)
Pushed == IF main = "push" THEN next_sequence_num - 1 ELSE next_sequence_num

Numbered ==
  /\ next_sequence_num \in Nat /\ next_sequence_num <= Messages
  /\ main \in {"idle", "push", "wait"} /\ (main = "push" => next_sequence_num > 0)
  /\ m_written \in Seq(Nat) /\ pending_messages \in Seq(Nat)
  /\ Len(m_written) + Len(pending_messages) = Pushed
  /\ \A k \in 1 .. Len(m_written) : m_written[k] = k - 1
  /\ \A k \in 1 .. Len(pending_messages) : pending_messages[k] = Len(m_written) + k - 1
  /\ last_acked_sequence \in Nat /\ last_acked_sequence <= Messages

(* A connection that was opened has its checker still to come, running,     *)
(* left behind, or stopped with a report; only a task that reads has one.   *)
Coming(t) == IF pc[t] \in {"opened", "request", "requested", "flush"} THEN 1 ELSE 0
Checks(t) == IF health[t] THEN 1 ELSE 0
Reports == IF missed_pongs > 2 THEN missed_pongs - 2 ELSE 0

Places == {"off", "connect", "dialing", "opened", "request", "requested",
           "flush", "reading", "look", "attempts", "backoff", "ended"}

CheckerTypes ==
  /\ pc \in [Migration!Task -> Places] /\ health \in [Migration!Task -> BOOLEAN]
  /\ connections \in Nat /\ connections <= MaxConnections
  /\ orphans \in Nat /\ missed_pongs \in Nat

Budget ==
  /\ \A t \in Migration!Task : health[t] => pc[t] = "reading"
  /\ Coming("first") + Coming("loop") + Checks("first") + Checks("loop") + orphans + Reports
       <= connections

(* The loop counts an attempt after it has found one left. *)
Attempted ==
  /\ reconnect_attempts \in Nat /\ reconnect_attempts <= max_reconnect_attempts
  /\ pc["loop"] = "backoff" => reconnect_attempts < max_reconnect_attempts

Fields ==
  /\ m_state \in {"Disconnected", "Connecting", "Connected", "Reconnecting"}
  /\ session_token \in BOOLEAN /\ pending \in Migration!Task \cup {"none"}

MigrationInd == Numbered /\ CheckerTypes /\ Budget /\ Attempted /\ Fields

LEMMA MigrationInit == Migration!Init => MigrationInd
<1> SUFFICES ASSUME Migration!Init PROVE MigrationInd
  OBVIOUS
<1>1. Numbered
  BY MigrationAssumption DEF Migration!Init, Numbered, Pushed
<1>2. CheckerTypes
  <2>1. pc \in [Migration!Task -> Places]
    BY DEF Migration!Init, Places
  <2>2. health \in [Migration!Task -> BOOLEAN]
    BY DEF Migration!Init
  <2>. QED  BY <2>1, <2>2, MigrationAssumption DEF Migration!Init, CheckerTypes
<1>3. Budget
  <2>1. \A t \in Migration!Task : ~health[t]
    BY DEF Migration!Init
  <2>2. Coming("first") = 0 /\ Coming("loop") = 0
    BY DEF Migration!Init, Migration!Task, Coming
  <2>3. Checks("first") = 0 /\ Checks("loop") = 0
    BY <2>1 DEF Migration!Task, Checks
  <2>. QED  BY <2>1, <2>2, <2>3 DEF Migration!Init, Budget, Reports
<1>4. Attempted
  BY MigrationAssumption DEF Migration!Init, Attempted, Migration!Task
<1>5. Fields
  BY DEF Migration!Init, Fields, Migration!None
<1>. QED  BY <1>1, <1>2, <1>3, <1>4, <1>5 DEF MigrationInd

(* The front of the queue goes out. *)
LEMMA FlushKeepsNumbers ==
  ASSUME Numbered, NEW t \in Migration!Task, Migration!FlushSend(t)
  PROVE  Numbered'
<1> DEFINE out == m_written
           q == pending_messages
<1>1. /\ q # << >> /\ m_written' = Append(out, Head(q)) /\ pending_messages' = Tail(q)
      /\ UNCHANGED <<next_sequence_num, main, last_acked_sequence>>
  BY DEF Migration!FlushSend, Migration!session
<1>2. /\ out \in Seq(Nat) /\ q \in Seq(Nat) /\ Len(out) \in Nat /\ Len(q) \in Nat
      /\ Len(out) + Len(q) = Pushed
      /\ \A k \in 1 .. Len(out) : out[k] = k - 1
      /\ \A k \in 1 .. Len(q) : q[k] = Len(out) + k - 1
  BY DEF Numbered
<1>3. /\ Len(q) > 0 /\ Head(q) = Len(out) /\ Len(Tail(q)) = Len(q) - 1 /\ Tail(q) \in Seq(Nat)
      /\ \A k \in 1 .. Len(Tail(q)) : Tail(q)[k] = q[k + 1]
  BY <1>1, <1>2
<1>4. /\ m_written' \in Seq(Nat) /\ Len(m_written') = Len(out) + 1
      /\ \A k \in 1 .. Len(out) : m_written'[k] = out[k]
      /\ m_written'[Len(out) + 1] = Len(out)
  BY <1>1, <1>2, <1>3, AppendProperties
<1>5. ASSUME NEW k \in 1 .. Len(m_written') PROVE m_written'[k] = k - 1
  <2>1. k \in 1 .. Len(out) \/ k = Len(out) + 1
    BY <1>2, <1>4
  <2>. QED  BY <1>2, <1>4, <2>1
<1>6. ASSUME NEW k \in 1 .. Len(pending_messages')
      PROVE  pending_messages'[k] = Len(m_written') + k - 1
  <2>1. k \in Nat /\ k + 1 \in 1 .. Len(q)
    BY <1>1, <1>2, <1>3
  <2>2. pending_messages'[k] = q[k + 1]
    BY <1>1, <1>3
  <2>. QED  BY <1>2, <1>4, <2>1, <2>2
<1>7. Pushed' = Pushed
  BY <1>1 DEF Pushed
<1>8. Len(m_written') + Len(pending_messages') = Pushed
  BY <1>1, <1>2, <1>3, <1>4
<1>. QED  BY <1>1, <1>3, <1>4, <1>5, <1>6, <1>7, <1>8 DEF Numbered

(* Every queued message is newer than every written one. *)
LEMMA AckKeepsNumbers ==
  ASSUME Numbered, NEW t \in Migration!Task, NEW k \in 1 .. Len(m_written),
         Migration!Ack(t, m_written[k])
  PROVE  Numbered'
<1> DEFINE q == pending_messages
           seq == m_written[k]
           P(n) == /\ \A j \in 1 .. n : q[j] <= seq
                   /\ n < Len(q) => q[n + 1] > seq
<1>1. /\ last_acked_sequence' = seq
      /\ pending_messages' = Migration!cleanup_acked_messages(q, seq)
      /\ UNCHANGED <<next_sequence_num, main, m_written>>
  BY DEF Migration!Ack
<1>2. /\ q \in Seq(Nat) /\ Len(q) \in Nat /\ Len(m_written) \in Nat
      /\ \A j \in 1 .. Len(q) : q[j] = Len(m_written) + j - 1
      /\ seq \in Nat /\ seq < Len(m_written)
  BY DEF Numbered
<1>3. \A j \in 1 .. Len(q) : q[j] > seq
  BY <1>2
<1>4. P(0)
  BY <1>2, <1>3
<1>5. ASSUME NEW n \in 0 .. Len(q), P(n) PROVE n = 0
  <2>1. CASE n > 0
    <3>1. 1 \in 1 .. n /\ 1 \in 1 .. Len(q)
      BY <1>2, <2>1
    <3>2. q[1] <= seq
      BY <1>5, <3>1
    <3>. QED  BY <1>2, <3>1, <3>2
  <2>. QED  BY <1>2, <2>1
<1>6. 0 \in 0 .. Len(q)
  BY <1>2
<1>7. (CHOOSE n \in 0 .. Len(q) : P(n)) = 0
  <2> HIDE DEF P
  <2>. QED  BY <1>4, <1>5, <1>6
<1>8. pending_messages' = SubSeq(q, 0 + 1, Len(q))
  BY <1>1, <1>7 DEF Migration!cleanup_acked_messages
<1>9. SubSeq(q, 1, Len(q)) = q
  BY <1>2
<1>10. pending_messages' = q
  BY <1>8, <1>9
<1>11. Pushed \in Nat /\ Pushed <= Messages /\ Len(m_written) <= Pushed
  BY <1>2, MigrationAssumption DEF Numbered, Pushed
<1>12. last_acked_sequence' \in Nat /\ last_acked_sequence' <= Messages
  BY <1>1, <1>2, <1>11, MigrationAssumption
<1>13. Pushed' = Pushed
  BY <1>1 DEF Pushed
<1>. QED  BY <1>1, <1>10, <1>12, <1>13 DEF Numbered

LEMMA MainKeepsNumbers == Numbered /\ Migration!Main => Numbered'
<1> SUFFICES ASSUME Numbered, Migration!Main PROVE Numbered'
  OBVIOUS
<1>1. CASE Migration!TakeNumber
  BY <1>1, MigrationAssumption DEF Migration!TakeNumber, Numbered, Pushed, Migration!session
<1>2. CASE Migration!StartLoop
  BY <1>2 DEF Migration!StartLoop, Numbered, Pushed, Migration!session
<1>3. CASE Migration!Push
  <2> DEFINE q == pending_messages
             x == next_sequence_num - 1
  <2>1. /\ main = "push" /\ main' = "idle" /\ pending_messages' = Append(q, x)
        /\ UNCHANGED <<next_sequence_num, m_written, last_acked_sequence>>
    BY <1>3 DEF Migration!Push, Migration!session
  <2>2. /\ q \in Seq(Nat) /\ Len(q) \in Nat /\ Len(m_written) \in Nat /\ x \in Nat
        /\ Len(m_written) + Len(q) = x
        /\ \A k \in 1 .. Len(q) : q[k] = Len(m_written) + k - 1
    BY <2>1 DEF Numbered, Pushed
  <2>3. /\ pending_messages' \in Seq(Nat) /\ Len(pending_messages') = Len(q) + 1
        /\ \A k \in 1 .. Len(q) : pending_messages'[k] = q[k]
        /\ pending_messages'[Len(q) + 1] = x
    <3> HIDE DEF x
    <3>. QED  BY <2>1, <2>2, AppendProperties
  <2>4. ASSUME NEW k \in 1 .. Len(pending_messages')
        PROVE  pending_messages'[k] = Len(m_written) + k - 1
    <3>1. k \in 1 .. Len(q) \/ k = Len(q) + 1
      BY <2>2, <2>3
    <3>. QED  BY <2>2, <2>3, <3>1
  <2>5. Pushed' = next_sequence_num /\ next_sequence_num \in Nat
    BY <2>1 DEF Pushed, Numbered
  <2>6. Len(m_written) + Len(pending_messages') = Pushed'
    BY <2>2, <2>3, <2>5
  <2>. QED  BY <2>1, <2>3, <2>4, <2>6 DEF Numbered
<1>. QED  BY <1>1, <1>2, <1>3 DEF Migration!Main

(* A step of task t, seen by its checker: the place of the task moves.      *)
LEMMA Moves_pc ==
  ASSUME CheckerTypes, NEW t \in Migration!Task, NEW from, NEW to \in Places,
         Migration!Goto(t, from, to)
  PROVE  /\ pc' \in [Migration!Task -> Places] /\ pc[t] = from /\ pc'[t] = to
         /\ \A u \in Migration!Task : u # t => pc'[u] = pc[u]
BY DEF CheckerTypes, Migration!Goto

(* The checker of a task is set. *)
LEMMA Sets_health ==
  ASSUME CheckerTypes, NEW t \in Migration!Task, NEW b \in BOOLEAN,
         health' = [health EXCEPT ![t] = b]
  PROVE  /\ health' \in [Migration!Task -> BOOLEAN] /\ (health'[t] <=> b)
         /\ \A u \in Migration!Task : u # t => (health'[u] <=> health[u])
<1>1. health \in [Migration!Task -> BOOLEAN]
  BY DEF CheckerTypes
<1>2. health' \in [Migration!Task -> BOOLEAN] /\ health'[t] = b
  BY <1>1
<1>3. \A u \in Migration!Task : u # t => health'[u] = health[u]
  BY <1>1
<1>. QED  BY <1>2, <1>3

Sum == Coming("first") + Coming("loop") + Checks("first") + Checks("loop")

(* What a step of task t adds to the sum is what it adds for t. *)
LEMMA SumMoves ==
  ASSUME NEW t \in Migration!Task, NEW d \in Int,
         \A u \in Migration!Task : u # t => pc'[u] = pc[u] /\ (health'[u] <=> health[u]),
         Coming(t)' + Checks(t)' = Coming(t) + Checks(t) + d
  PROVE  Sum' = Sum + d /\ Sum \in Nat
<1>1. /\ Coming("first") \in Nat /\ Coming("loop") \in Nat
      /\ Checks("first") \in Nat /\ Checks("loop") \in Nat
      /\ Coming("first")' \in Nat /\ Coming("loop")' \in Nat
      /\ Checks("first")' \in Nat /\ Checks("loop")' \in Nat
  BY DEF Coming, Checks
<1>2. CASE t = "first"
  <2>1. Coming("loop")' = Coming("loop") /\ Checks("loop")' = Checks("loop")
    BY <1>2 DEF Coming, Checks, Migration!Task
  <2>. QED  BY <1>1, <1>2, <2>1 DEF Sum
<1>3. CASE t = "loop"
  <2>1. Coming("first")' = Coming("first") /\ Checks("first")' = Checks("first")
    BY <1>3 DEF Coming, Checks, Migration!Task
  <2>. QED  BY <1>1, <1>3, <2>1 DEF Sum
<1>. QED  BY <1>2, <1>3 DEF Migration!Task

(* The steps of the tasks, as their checkers see them. *)
Quiet(t) ==   \* no connection, or one that is set up
  /\ \E from, to \in Places :
       /\ Migration!Goto(t, from, to)
       /\ from # "reading" /\ (to \in {"opened", "request", "requested", "flush"}
                               => from \in {"opened", "request", "requested", "flush"})
  /\ UNCHANGED <<health, orphans, connections>> /\ missed_pongs' \in {0, missed_pongs}

Starts(t) ==  \* the checker
  /\ \E from \in {"requested", "flush"} : Migration!Goto(t, from, "reading")
  /\ health' = [health EXCEPT ![t] = TRUE]
  /\ UNCHANGED <<orphans, connections, missed_pongs>>

Ends(t) ==    \* the connection, with its checker or without
  /\ \E to \in {"ended", "look"} : Migration!Goto(t, "reading", to)
  /\ health' = [health EXCEPT ![t] = FALSE]
  /\ orphans' \in {orphans, IF health[t] THEN orphans + 1 ELSE orphans}
  /\ UNCHANGED <<connections, missed_pongs>>

LEMMA QuietKeeps ==
  ASSUME CheckerTypes, Budget, NEW t \in Migration!Task, Quiet(t)
  PROVE  CheckerTypes' /\ Budget'
<1>1. PICK from \in Places, to \in Places :
        /\ Migration!Goto(t, from, to)
        /\ from # "reading" /\ (to \in {"opened", "request", "requested", "flush"}
                                => from \in {"opened", "request", "requested", "flush"})
  BY DEF Quiet
<1>2. UNCHANGED <<health, orphans, connections>> /\ missed_pongs' \in {0, missed_pongs}
  BY DEF Quiet
<1>3. /\ pc' \in [Migration!Task -> Places] /\ pc[t] = from /\ pc'[t] = to
      /\ \A u \in Migration!Task : u # t => pc'[u] = pc[u]
  BY <1>1, Moves_pc
<1>4. CheckerTypes'
  BY <1>2, <1>3 DEF CheckerTypes
<1>5. \A u \in Migration!Task : health'[u] => pc'[u] = "reading"
  BY <1>1, <1>2, <1>3 DEF Budget
<1>6. Coming(t)' <= Coming(t) /\ Checks(t)' = Checks(t)
      /\ Coming(t) \in Nat /\ Coming(t)' \in Nat /\ Checks(t) \in Nat
  BY <1>1, <1>2, <1>3 DEF Coming, Checks
<1>7. Sum' = Sum + (Coming(t)' - Coming(t)) /\ Sum \in Nat
  <2> DEFINE d == Coming(t)' - Coming(t)
  <2>1. /\ d \in Int /\ Coming(t)' + Checks(t)' = Coming(t) + Checks(t) + d
        /\ \A u \in Migration!Task : u # t => pc'[u] = pc[u] /\ (health'[u] <=> health[u])
    BY <1>2, <1>3, <1>6
  <2> HIDE DEF d
  <2>2. Sum' = Sum + d /\ Sum \in Nat
    BY <2>1, SumMoves
  <2>. QED  BY <2>2 DEF d
<1>8. Reports' <= Reports /\ Reports \in Nat /\ Reports' \in Nat
  <2>1. missed_pongs \in Nat /\ (missed_pongs' = 0 \/ missed_pongs' = missed_pongs)
    BY <1>2 DEF CheckerTypes
  <2>2. CASE missed_pongs' = 0
    BY <2>1, <2>2 DEF Reports
  <2>3. CASE missed_pongs' = missed_pongs
    BY <2>1, <2>3 DEF Reports
  <2>. QED  BY <2>1, <2>2, <2>3
<1>9. Sum + orphans + Reports <= connections /\ connections \in Nat /\ orphans \in Nat
  BY DEF Budget, Sum, CheckerTypes
<1>10. Sum' + orphans' + Reports' <= connections'
  BY <1>2, <1>6, <1>7, <1>8, <1>9
<1>. QED  BY <1>4, <1>5, <1>10 DEF Budget, Sum

LEMMA StartsKeeps ==
  ASSUME CheckerTypes, Budget, NEW t \in Migration!Task, Starts(t)
  PROVE  CheckerTypes' /\ Budget'
<1>1. PICK from \in {"requested", "flush"} : Migration!Goto(t, from, "reading")
  BY DEF Starts
<1>2. UNCHANGED <<orphans, connections, missed_pongs>> /\ health' = [health EXCEPT ![t] = TRUE]
  BY DEF Starts
<1>3. /\ pc' \in [Migration!Task -> Places] /\ pc[t] = from /\ pc'[t] = "reading"
      /\ \A u \in Migration!Task : u # t => pc'[u] = pc[u]
  BY <1>1, Moves_pc DEF Places
<1>4. /\ health' \in [Migration!Task -> BOOLEAN] /\ health'[t]
      /\ \A u \in Migration!Task : u # t => (health'[u] <=> health[u])
  BY <1>2, Sets_health
<1>5. CheckerTypes'
  BY <1>2, <1>3, <1>4 DEF CheckerTypes
<1>6. \A u \in Migration!Task : health'[u] => pc'[u] = "reading"
  BY <1>3, <1>4 DEF Budget
<1>7. ~health[t]
  BY <1>1, <1>3 DEF Budget
<1>8. Coming(t)' + Checks(t)' = Coming(t) + Checks(t) + 0
  BY <1>3, <1>4, <1>7 DEF Coming, Checks
<1>9. Sum' = Sum + 0 /\ Sum \in Nat
  BY <1>3, <1>4, <1>8, SumMoves
<1>10. Reports' = Reports
  BY <1>2 DEF Reports
<1>11. Sum + orphans + Reports <= connections
  BY DEF Budget, Sum
<1>12. Sum' + orphans' + Reports' <= connections'
  BY <1>2, <1>9, <1>10, <1>11
<1>. QED  BY <1>5, <1>6, <1>12 DEF Budget, Sum

LEMMA EndsKeeps ==
  ASSUME CheckerTypes, Budget, NEW t \in Migration!Task, Ends(t)
  PROVE  CheckerTypes' /\ Budget'
<1>1. PICK to \in {"ended", "look"} : Migration!Goto(t, "reading", to)
  BY DEF Ends
<1>2. /\ UNCHANGED <<connections, missed_pongs>> /\ health' = [health EXCEPT ![t] = FALSE]
      /\ orphans' \in {orphans, IF health[t] THEN orphans + 1 ELSE orphans}
  BY DEF Ends
<1>3. /\ pc' \in [Migration!Task -> Places] /\ pc[t] = "reading" /\ pc'[t] = to
      /\ \A u \in Migration!Task : u # t => pc'[u] = pc[u]
  <2>1. to \in Places
    BY DEF Places
  <2>. QED  BY <1>1, <2>1, Moves_pc
<1>4. /\ health' \in [Migration!Task -> BOOLEAN] /\ ~health'[t]
      /\ \A u \in Migration!Task : u # t => (health'[u] <=> health[u])
  BY <1>2, Sets_health
<1>5. orphans \in Nat /\ orphans' \in Nat /\ orphans' <= orphans + Checks(t) /\ Checks(t) \in Nat
  BY <1>2 DEF CheckerTypes, Checks
<1>6. CheckerTypes'
  BY <1>2, <1>3, <1>4, <1>5 DEF CheckerTypes
<1>7. \A u \in Migration!Task : health'[u] => pc'[u] = "reading"
  BY <1>3, <1>4 DEF Budget
<1>8. Coming(t) = 0 /\ Coming(t)' = 0 /\ Checks(t)' = 0
  BY <1>1, <1>3, <1>4 DEF Coming, Checks
<1>9. Sum' = Sum + (0 - Checks(t)) /\ Sum \in Nat
  <2> DEFINE d == 0 - Checks(t)
  <2>1. d \in Int /\ Coming(t)' + Checks(t)' = Coming(t) + Checks(t) + d
    BY <1>5, <1>8
  <2> HIDE DEF d
  <2>2. Sum' = Sum + d /\ Sum \in Nat
    BY <1>3, <1>4, <2>1, SumMoves
  <2>. QED  BY <2>2 DEF d
<1>10. Reports' = Reports /\ Reports \in Nat
  BY <1>2 DEF Reports, CheckerTypes
<1>11. Sum + orphans + Reports <= connections /\ connections \in Nat
  BY DEF Budget, Sum, CheckerTypes
<1>12. Sum' + orphans' + Reports' <= connections'
  BY <1>2, <1>5, <1>9, <1>10, <1>11
<1>. QED  BY <1>6, <1>7, <1>12 DEF Budget, Sum

LEMMA DialKeeps ==
  ASSUME CheckerTypes, Budget, NEW t \in Migration!Task, Migration!DialOk(t)
  PROVE  CheckerTypes' /\ Budget'
<1>1. /\ Migration!Goto(t, "dialing", "opened") /\ UNCHANGED <<health, orphans, missed_pongs>>
      /\ connections < MaxConnections /\ connections' = connections + 1
  BY DEF Migration!DialOk, Migration!counts, Migration!checkers
<1>2. /\ pc' \in [Migration!Task -> Places] /\ pc[t] = "dialing" /\ pc'[t] = "opened"
      /\ \A u \in Migration!Task : u # t => pc'[u] = pc[u]
  BY <1>1, Moves_pc DEF Places
<1>3. CheckerTypes'
  BY <1>1, <1>2, MigrationAssumption DEF CheckerTypes
<1>4. ~health[t] /\ \A u \in Migration!Task : health'[u] => pc'[u] = "reading"
  BY <1>1, <1>2 DEF Budget
<1>5. Coming(t)' + Checks(t)' = Coming(t) + Checks(t) + 1
  BY <1>1, <1>2, <1>4 DEF Coming, Checks
<1>6. Sum' = Sum + 1 /\ Sum \in Nat
  BY <1>1, <1>2, <1>5, SumMoves
<1>7. Reports' = Reports /\ Reports \in Nat
  BY <1>1 DEF Reports, CheckerTypes
<1>8. Sum + orphans + Reports <= connections /\ connections \in Nat /\ orphans \in Nat
  BY DEF Budget, Sum, CheckerTypes
<1>9. Sum' + orphans' + Reports' <= connections'
  BY <1>1, <1>6, <1>7, <1>8
<1>. QED  BY <1>3, <1>4, <1>9 DEF Budget, Sum

(* The third missed pong, and every later one, stops the checker that finds *)
(* it.                                                                      *)
LEMMA HealthKeeps ==
  ASSUME CheckerTypes, Budget, Migration!HealthCheck
  PROVE  CheckerTypes' /\ Budget'
<1>1. Migration!Missed /\ UNCHANGED <<pc, connections>> /\ missed_pongs' = missed_pongs + 1
  BY DEF Migration!HealthCheck, Migration!Missed
<1>2. Sum + orphans + Reports <= connections /\ connections \in Nat /\ orphans \in Nat
      /\ missed_pongs \in Nat /\ Reports \in Nat
  BY DEF Budget, Sum, CheckerTypes, Reports
<1>3. CASE missed_pongs + 1 < 3
  <2>1. UNCHANGED <<health, orphans>>
    BY <1>1, <1>2, <1>3 DEF Migration!Missed, Migration!checkers
  <2>2. Sum' = Sum
    BY <1>1, <2>1 DEF Sum, Coming, Checks
  <2>3. Reports' = Reports
    BY <1>1, <1>2, <1>3 DEF Reports
  <2>4. CheckerTypes'
    BY <1>1, <1>2, <2>1 DEF CheckerTypes
  <2>5. Sum' + orphans' + Reports' <= connections'
    BY <1>1, <1>2, <2>1, <2>2, <2>3
  <2>6. \A u \in Migration!Task : health'[u] => pc'[u] = "reading"
    BY <1>1, <2>1 DEF Budget
  <2>. QED  BY <2>4, <2>5, <2>6 DEF Budget, Sum
<1>4. CASE missed_pongs + 1 >= 3
  <2>1. Reports' = Reports + 1
    BY <1>1, <1>2, <1>4 DEF Reports
  <2>2. ASSUME NEW t \in Migration!Task, health[t], UNCHANGED orphans,
               health' = [health EXCEPT ![t] = FALSE]
        PROVE  CheckerTypes' /\ Budget'
    <3>1. /\ health' \in [Migration!Task -> BOOLEAN] /\ ~health'[t]
          /\ \A u \in Migration!Task : u # t => (health'[u] <=> health[u])
      BY <2>2, Sets_health
    <3>2. CheckerTypes'
      BY <1>1, <1>2, <2>2, <3>1 DEF CheckerTypes
    <3>3. \A u \in Migration!Task : health'[u] => pc'[u] = "reading"
      BY <1>1, <3>1 DEF Budget
    <3>4. Coming(t)' = Coming(t) /\ Checks(t) = 1 /\ Checks(t)' = 0 /\ Coming(t) \in Nat
      BY <1>1, <2>2, <3>1 DEF Coming, Checks
    <3>5. Sum' = Sum + (-1) /\ Sum \in Nat
      <4>1. -1 \in Int /\ Coming(t)' + Checks(t)' = Coming(t) + Checks(t) + (-1)
        BY <3>4
      <4>. QED  BY <1>1, <3>1, <4>1, SumMoves
    <3>6. Sum' + orphans' + Reports' <= connections'
      BY <1>1, <1>2, <2>1, <2>2, <3>5
    <3>. QED  BY <3>2, <3>3, <3>6 DEF Budget, Sum
  <2>3. CASE orphans > 0 /\ orphans' = orphans - 1 /\ UNCHANGED health
    <3>1. Sum' = Sum /\ Sum \in Nat
      BY <1>1, <2>3 DEF Sum, Coming, Checks
    <3>2. CheckerTypes'
      BY <1>1, <1>2, <2>3 DEF CheckerTypes
    <3>3. Sum' + orphans' + Reports' <= connections'
      BY <1>1, <1>2, <2>1, <2>3, <3>1
    <3>4. \A u \in Migration!Task : health'[u] => pc'[u] = "reading"
      BY <1>1, <2>3 DEF Budget
    <3>. QED  BY <3>2, <3>3, <3>4 DEF Budget, Sum
  <2>. QED  BY <1>1, <1>4, <2>2, <2>3 DEF Migration!Missed
<1>. QED  BY <1>2, <1>3, <1>4

LEMMA CheckersRest ==
  ASSUME CheckerTypes, Budget, UNCHANGED <<pc, health, orphans, connections>>,
         missed_pongs' \in {0, missed_pongs}
  PROVE  CheckerTypes' /\ Budget'
<1>1. missed_pongs \in Nat /\ (missed_pongs' = 0 \/ missed_pongs' = missed_pongs)
  BY DEF CheckerTypes
<1>2. Reports' <= Reports /\ Reports \in Nat /\ Reports' \in Nat
  <2>2. CASE missed_pongs' = 0
    BY <1>1, <2>2 DEF Reports
  <2>3. CASE missed_pongs' = missed_pongs
    BY <1>1, <2>3 DEF Reports
  <2>. QED  BY <1>1, <2>2, <2>3
<1>3. CheckerTypes'
  BY <1>1 DEF CheckerTypes
<1>4. Sum' = Sum
  BY DEF Sum, Coming, Checks
<1>5. Sum + orphans + Reports <= connections /\ connections \in Nat /\ orphans \in Nat
      /\ Sum \in Nat
  BY DEF Budget, Sum, CheckerTypes, Coming, Checks
<1>6. Sum' + orphans' + Reports' <= connections'
  <2>1. orphans' = orphans /\ connections' = connections
    OBVIOUS
  <2>2. Sum + orphans + Reports' <= connections
    <3> DEFINE a == Sum + orphans
               rest == Reports
               p == Reports'
               c == connections
    <3>1. a \in Nat /\ a + rest <= c /\ p <= rest /\ rest \in Nat /\ p \in Nat /\ c \in Nat
      BY <1>2, <1>5
    <3> HIDE DEF a, rest, p, c
    <3>2. a + p <= c
      BY <3>1
    <3>. QED  BY <3>2 DEF a, p, c
  <2>. QED  BY <1>4, <2>1, <2>2
<1>7. \A u \in Migration!Task : health'[u] => pc'[u] = "reading"
  BY DEF Budget
<1>. QED  BY <1>3, <1>6, <1>7 DEF Budget, Sum

LEMMA TaskKeepsCheckers ==
  ASSUME CheckerTypes, Budget, NEW t \in Migration!Task,
         Migration!Connecting(t) \/ Migration!Resuming(t) \/ Migration!Receiving(t)
  PROVE  CheckerTypes' /\ Budget'
<1>0. Migration!Return(t) \in {"ended", "look"} /\ Migration!Return(t) \in Places
  BY DEF Migration!Return, Places
<1>1. CASE \/ Migration!Connect(t) \/ Migration!DialFails(t) \/ Migration!Opened(t)
           \/ Migration!Request(t) \/ Migration!RequestFails(t) \/ Migration!FlushLock(t)
  <2>1. UNCHANGED <<health, orphans, connections>> /\ missed_pongs' \in {0, missed_pongs}
    BY <1>1 DEF Migration!Connect, Migration!DialFails, Migration!Opened, Migration!Request,
                Migration!RequestFails, Migration!FlushLock, Migration!checkers, Migration!counts
  <2>2. \/ Migration!Goto(t, "connect", "dialing") \/ Migration!Goto(t, "dialing", Migration!Return(t))
        \/ Migration!Goto(t, "opened", "request") \/ Migration!Goto(t, "request", "requested")
        \/ Migration!Goto(t, "request", Migration!Return(t))
        \/ Migration!Goto(t, "requested", "flush")
    BY <1>1 DEF Migration!Connect, Migration!DialFails, Migration!Opened, Migration!Request,
                Migration!RequestFails, Migration!FlushLock
  <2>3. {"connect", "dialing", "opened", "request", "requested", "flush"} \subseteq Places
    BY DEF Places
  <2>4. Quiet(t)
    BY <1>0, <2>1, <2>2, <2>3 DEF Quiet
  <2>. QED  BY <2>4, QuietKeeps
<1>2. CASE Migration!DialOk(t)
  BY <1>2, DialKeeps
<1>3. CASE Migration!NoSession(t) \/ Migration!FlushStop(t)
  <2>1. Starts(t)
    BY <1>3 DEF Migration!NoSession, Migration!FlushStop, Starts, Migration!counts
  <2>. QED  BY <2>1, StartsKeeps
<1>4. CASE Migration!PongFails(t) \/ Migration!Closed(t)
  <2>1. Ends(t)
    BY <1>0, <1>4 DEF Migration!PongFails, Migration!Closed, Ends, Migration!counts
  <2>. QED  BY <2>1, EndsKeeps
<1>5. CASE \/ Migration!FlushSend(t) \/ Migration!SessionToken(t) \/ Migration!Pong(t)
           \/ \E k \in 1 .. Len(m_written) : Migration!Ack(t, m_written[k])
  <2>1. UNCHANGED <<pc, health, orphans, connections>> /\ missed_pongs' \in {0, missed_pongs}
    BY <1>5 DEF Migration!FlushSend, Migration!SessionToken, Migration!Pong, Migration!Ack,
                Migration!checkers, Migration!counts
  <2>. QED  BY <2>1, CheckersRest
<1>. QED  BY <1>1, <1>2, <1>3, <1>4, <1>5
          DEF Migration!Connecting, Migration!Resuming, Migration!Receiving

LEMMA LoopKeepsCheckers ==
  ASSUME CheckerTypes, Budget, Migration!Loop \/ Migration!Main
  PROVE  CheckerTypes' /\ Budget'
<1>1. UNCHANGED <<health, orphans, connections, missed_pongs>>
  BY DEF Migration!Loop, Migration!Look, Migration!Attempts, Migration!Backoff, Migration!Main,
         Migration!TakeNumber, Migration!Push, Migration!StartLoop, Migration!counts,
         Migration!checkers
<1>2. \/ UNCHANGED pc
      \/ Migration!Goto("loop", "look", "attempts") \/ Migration!Goto("loop", "look", "ended")
      \/ Migration!Goto("loop", "attempts", "ended") \/ Migration!Goto("loop", "attempts", "backoff")
      \/ Migration!Goto("loop", "backoff", "connect") \/ Migration!Goto("loop", "off", "look")
  BY DEF Migration!Loop, Migration!Look, Migration!Attempts, Migration!Backoff, Migration!Main,
         Migration!TakeNumber, Migration!Push, Migration!StartLoop, Migration!Goto
<1>3. CASE UNCHANGED pc
  BY <1>1, <1>3, CheckersRest
<1>4. CASE ~UNCHANGED pc
  <2>1. {"look", "attempts", "backoff", "connect", "off", "ended"} \subseteq Places
        /\ "loop" \in Migration!Task
    BY DEF Places, Migration!Task
  <2>2. Quiet("loop")
    BY <1>1, <1>2, <1>4, <2>1 DEF Quiet
  <2>. QED  BY <2>1, <2>2, QuietKeeps
<1>. QED  BY <1>3, <1>4

(* The queue's own steps, and those of the others. *)
LEMMA NumbersRest ==
  ASSUME Numbered,
         UNCHANGED <<next_sequence_num, main, m_written, pending_messages, last_acked_sequence>>
  PROVE  Numbered'
BY DEF Numbered, Pushed

LEMMA TaskKeepsNumbers ==
  ASSUME Numbered, NEW t \in Migration!Task,
         Migration!Connecting(t) \/ Migration!Resuming(t) \/ Migration!Receiving(t)
  PROVE  Numbered'
<1>1. CASE Migration!FlushSend(t)
  BY <1>1, FlushKeepsNumbers
<1>2. CASE \E k \in 1 .. Len(m_written) : Migration!Ack(t, m_written[k])
  BY <1>2, AckKeepsNumbers
<1>3. ASSUME ~Migration!FlushSend(t),
             ~(\E k \in 1 .. Len(m_written) : Migration!Ack(t, m_written[k]))
      PROVE  Numbered'
  <2>1. UNCHANGED <<next_sequence_num, main, m_written, pending_messages, last_acked_sequence>>
    BY <1>3 DEF Migration!Connecting, Migration!Resuming, Migration!Receiving,
                Migration!Connect, Migration!DialFails, Migration!DialOk, Migration!Opened,
                Migration!Request, Migration!RequestFails, Migration!NoSession,
                Migration!FlushLock, Migration!FlushStop, Migration!SessionToken,
                Migration!Pong, Migration!PongFails, Migration!Closed, Migration!queue,
                Migration!session
  <2>. QED  BY <2>1, NumbersRest
<1>. QED  BY <1>1, <1>2, <1>3

LEMMA TaskKeepsAttempts ==
  ASSUME CheckerTypes, Attempted, NEW t \in Migration!Task,
         Migration!Connecting(t) \/ Migration!Resuming(t) \/ Migration!Receiving(t)
  PROVE  Attempted'
<1>1. reconnect_attempts' \in {0, reconnect_attempts}
  BY DEF Migration!Connecting, Migration!Resuming, Migration!Receiving,
         Migration!Connect, Migration!DialFails, Migration!DialOk, Migration!Opened,
         Migration!Request, Migration!RequestFails, Migration!NoSession,
         Migration!FlushLock, Migration!FlushStop, Migration!FlushSend, Migration!SessionToken,
         Migration!Ack, Migration!Pong, Migration!PongFails, Migration!Closed, Migration!counts
<1>2. UNCHANGED pc \/ \E from, to \in Places : Migration!Goto(t, from, to) /\ to # "backoff"
  <2>1. Migration!Return(t) \in {"ended", "look"}
    BY DEF Migration!Return
  <2>. QED
    BY <2>1 DEF Migration!Connecting, Migration!Resuming, Migration!Receiving,
         Migration!Connect, Migration!DialFails, Migration!DialOk, Migration!Opened,
         Migration!Request, Migration!RequestFails, Migration!NoSession,
         Migration!FlushLock, Migration!FlushStop, Migration!FlushSend, Migration!SessionToken,
         Migration!Ack, Migration!Pong, Migration!PongFails, Migration!Closed, Places
<1>3. pc'["loop"] = "backoff" => pc["loop"] = "backoff"
  <2>1. CASE UNCHANGED pc
    BY <2>1
  <2>2. CASE \E from, to \in Places : Migration!Goto(t, from, to) /\ to # "backoff"
    BY <2>2, Moves_pc DEF Migration!Task
  <2>. QED  BY <1>2, <2>1, <2>2
<1>4. reconnect_attempts \in Nat /\ reconnect_attempts <= max_reconnect_attempts
      /\ (pc["loop"] = "backoff" => reconnect_attempts < max_reconnect_attempts)
      /\ (reconnect_attempts' = 0 \/ reconnect_attempts' = reconnect_attempts)
  BY <1>1 DEF Attempted
<1>. QED  BY <1>3, <1>4, MigrationAssumption DEF Attempted

LEMMA LoopKeepsAttempts ==
  ASSUME CheckerTypes, Attempted, Migration!Loop \/ Migration!Main \/ Migration!HealthCheck
  PROVE  Attempted'
<1>0. "loop" \in Migration!Task /\ pc \in [Migration!Task -> Places]
  BY DEF Migration!Task, CheckerTypes
<1>1. CASE Migration!Backoff
  <2>1. pc["loop"] = "backoff" /\ pc'["loop"] = "connect"
    BY <1>0, <1>1 DEF Migration!Backoff, Migration!Goto
  <2>2. reconnect_attempts' = reconnect_attempts + 1
    BY <1>1 DEF Migration!Backoff
  <2>. QED  BY <2>1, <2>2, MigrationAssumption DEF Attempted
<1>2. CASE ~Migration!Backoff
  <2>1. UNCHANGED reconnect_attempts
    BY <1>2 DEF Migration!Loop, Migration!Look, Migration!Attempts, Migration!Main,
         Migration!TakeNumber, Migration!Push, Migration!StartLoop, Migration!HealthCheck,
         Migration!counts
  <2>2. \/ UNCHANGED pc
        \/ Migration!Goto("loop", "look", "attempts") \/ Migration!Goto("loop", "look", "ended")
        \/ Migration!Goto("loop", "attempts", "ended") \/ Migration!Goto("loop", "off", "look")
        \/ Migration!Goto("loop", "attempts", "backoff")
             /\ reconnect_attempts < max_reconnect_attempts
    BY <1>2 DEF Migration!Loop, Migration!Look, Migration!Attempts, Migration!Main,
         Migration!TakeNumber, Migration!Push, Migration!StartLoop, Migration!HealthCheck,
         Migration!Goto
  <2>3. pc'["loop"] = "backoff"
          => pc["loop"] = "backoff" \/ reconnect_attempts < max_reconnect_attempts
    BY <1>0, <2>2 DEF Migration!Goto
  <2>. QED  BY <2>1, <2>3 DEF Attempted
<1>. QED  BY <1>1, <1>2

LEMMA FieldsKept ==
  ASSUME Fields, Migration!Next
  PROVE  Fields'
<1>1. m_state' \in {m_state, "Disconnected", "Connecting", "Connected", "Reconnecting"}
      /\ pending' \in {pending, "none"} \cup Migration!Task
  BY DEF Migration!Next, Migration!Connecting, Migration!Resuming, Migration!Receiving,
         Migration!Connect, Migration!DialFails, Migration!DialOk, Migration!Opened,
         Migration!Request, Migration!RequestFails, Migration!NoSession,
         Migration!FlushLock, Migration!FlushStop, Migration!FlushSend, Migration!SessionToken,
         Migration!Ack, Migration!Pong, Migration!PongFails, Migration!Closed, Migration!queue,
         Migration!HealthCheck, Migration!Missed, Migration!Loop, Migration!Look,
         Migration!Attempts, Migration!Backoff, Migration!Main, Migration!TakeNumber,
         Migration!Push, Migration!StartLoop, Migration!None
<1>2. session_token' = TRUE \/ session_token' = session_token
  BY DEF Migration!Next, Migration!Connecting, Migration!Resuming, Migration!Receiving,
         Migration!Connect, Migration!DialFails, Migration!DialOk, Migration!Opened,
         Migration!Request, Migration!RequestFails, Migration!NoSession,
         Migration!FlushLock, Migration!FlushStop, Migration!FlushSend, Migration!SessionToken,
         Migration!Ack, Migration!Pong, Migration!PongFails, Migration!Closed, Migration!session,
         Migration!HealthCheck, Migration!Loop, Migration!Look,
         Migration!Attempts, Migration!Backoff, Migration!Main, Migration!TakeNumber,
         Migration!Push, Migration!StartLoop
<1>3. session_token' \in BOOLEAN
  BY <1>2 DEF Fields
<1>. QED  BY <1>1, <1>3 DEF Fields

LEMMA MigrationNext == MigrationInd /\ [Migration!Next]_(Migration!vars) => MigrationInd'
<1> SUFFICES ASSUME MigrationInd, [Migration!Next]_(Migration!vars) PROVE MigrationInd'
  OBVIOUS
<1>0. Numbered /\ CheckerTypes /\ Budget /\ Attempted /\ Fields
  BY DEF MigrationInd
<1>1. ASSUME NEW t \in Migration!Task,
             Migration!Connecting(t) \/ Migration!Resuming(t) \/ Migration!Receiving(t)
      PROVE  Numbered' /\ CheckerTypes' /\ Budget' /\ Attempted'
  BY <1>0, <1>1, TaskKeepsNumbers, TaskKeepsCheckers, TaskKeepsAttempts
<1>2. CASE Migration!Loop \/ Migration!HealthCheck
  <2>1. UNCHANGED <<next_sequence_num, main, m_written, pending_messages, last_acked_sequence>>
    BY <1>2 DEF Migration!Loop, Migration!Look, Migration!Attempts, Migration!Backoff,
                Migration!HealthCheck, Migration!queue, Migration!session
  <2>. QED
    BY <1>0, <1>2, <2>1, NumbersRest, LoopKeepsCheckers, HealthKeeps, LoopKeepsAttempts, FieldsKept
       DEF MigrationInd, Migration!Next
<1>3. CASE Migration!Main
  BY <1>0, <1>3, MainKeepsNumbers, LoopKeepsCheckers, LoopKeepsAttempts, FieldsKept
     DEF MigrationInd, Migration!Next
<1>4. CASE UNCHANGED Migration!vars
  <2>1. /\ UNCHANGED <<next_sequence_num, main, m_written, pending_messages, last_acked_sequence>>
        /\ UNCHANGED <<pc, health, orphans, connections>> /\ missed_pongs' \in {0, missed_pongs}
        /\ UNCHANGED <<reconnect_attempts, m_state, session_token, pending>>
    BY <1>4 DEF Migration!vars, Migration!queue, Migration!counts, Migration!session,
                Migration!checkers
  <2>2. Numbered' /\ CheckerTypes' /\ Budget'
    BY <1>0, <2>1, NumbersRest, CheckersRest
  <2>3. Attempted' /\ Fields'
    BY <1>0, <2>1 DEF Attempted, Fields
  <2>. QED  BY <2>2, <2>3 DEF MigrationInd
<1>5. CASE \E t \in Migration!Task :
             Migration!Connecting(t) \/ Migration!Resuming(t) \/ Migration!Receiving(t)
  <2>1. Migration!Next
    BY <1>5 DEF Migration!Next
  <2>. QED  BY <1>0, <1>1, <1>5, <2>1, FieldsKept DEF MigrationInd
<1>. QED  BY <1>2, <1>3, <1>4, <1>5 DEF Migration!Next

LEMMA MigrationRuns == [WebSocketNext]_websocket => [Migration!Next]_(Migration!vars)
BY DEF WebSocketNext, websocket, Only, Migration_vars, Migration!vars, Migration!queue,
       Migration!counts, Migration!session, Migration!checkers

(* What the invariant says of the properties. *)
LEMMA MigrationOrdered == Numbered => Migration!OrderedOnce
<1> SUFFICES ASSUME Numbered PROVE Migration!OrderedOnce
  OBVIOUS
<1> DEFINE trail == m_written \o pending_messages
<1>1. /\ m_written \in Seq(Nat) /\ pending_messages \in Seq(Nat)
      /\ Len(m_written) \in Nat /\ Len(pending_messages) \in Nat
  BY DEF Numbered
<1>2. Len(trail) = Len(m_written) + Len(pending_messages)
      /\ \A k \in 1 .. Len(trail) :
           trail[k] = IF k <= Len(m_written) THEN m_written[k]
                      ELSE pending_messages[k - Len(m_written)]
  BY <1>1, ConcatProperties
<1>3. ASSUME NEW k \in 1 .. Len(trail) PROVE trail[k] = k - 1
  <2>1. CASE k <= Len(m_written)
    BY <1>1, <1>2, <2>1 DEF Numbered
  <2>2. CASE k > Len(m_written)
    <3>1. k - Len(m_written) \in 1 .. Len(pending_messages) /\ trail[k] = pending_messages[k - Len(m_written)]
      BY <1>1, <1>2, <2>2
    <3>. QED  BY <1>1, <3>1 DEF Numbered
  <2>. QED  BY <1>1, <2>1, <2>2
<1> HIDE DEF trail
<1>4. \A j, k \in 1 .. Len(trail) : j < k => trail[j] < trail[k]
  BY <1>3
<1>. QED  BY <1>4 DEF Migration!OrderedOnce, trail

LEMMA MigrationWhole == Numbered => Migration!UnwrittenStayQueued
<1> SUFFICES ASSUME Numbered PROVE Migration!UnwrittenStayQueued
  OBVIOUS
<1> DEFINE out == m_written
           q == pending_messages
           gone == {out[k] : k \in 1 .. Len(out)}
           rest == {q[k] : k \in 1 .. Len(q)}
<1>1. /\ Len(out) \in Nat /\ Len(q) \in Nat /\ Len(out) + Len(q) = Pushed
      /\ \A k \in 1 .. Len(out) : out[k] = k - 1
      /\ \A k \in 1 .. Len(q) : q[k] = Len(out) + k - 1
  BY DEF Numbered
<1>2. ASSUME NEW x \in gone PROVE x < Len(out)
  BY <1>1
<1>3. ASSUME NEW x \in rest PROVE x \in 0 .. (Pushed - 1) /\ x >= Len(out)
  BY <1>1
<1>4. ASSUME NEW x \in 0 .. (Pushed - 1), x \notin gone PROVE x \in rest
  <2>1. x >= Len(out)
    <3> SUFFICES ASSUME x < Len(out) PROVE FALSE
      BY <1>1
    <3>1. x + 1 \in 1 .. Len(out)
      BY <1>1
    <3>2. out[x + 1] = x
      BY <1>1, <3>1
    <3>. QED  BY <1>4, <3>1, <3>2
  <2>2. x - Len(out) + 1 \in 1 .. Len(q)
    BY <1>1, <2>1
  <2>3. q[x - Len(out) + 1] = x
    BY <1>1, <2>2
  <2>. QED  BY <2>2, <2>3
<1>5. rest = (0 .. (Pushed - 1)) \ gone
  <2> HIDE DEF gone, rest
  <2>. QED  BY <1>1, <1>2, <1>3, <1>4
<1>. QED  BY <1>5 DEF Migration!UnwrittenStayQueued, Pushed

LEMMA MigrationTyped == MigrationInd => Migration!TypeOK
<1> SUFFICES ASSUME MigrationInd PROVE Migration!TypeOK
  OBVIOUS
<1>1. /\ m_state \in {"Disconnected", "Connecting", "Connected", "Reconnecting"}
      /\ session_token \in BOOLEAN /\ pending \in Migration!Task \cup {Migration!None}
  BY DEF MigrationInd, Fields, Migration!None
<1>2. /\ next_sequence_num \in 0 .. Messages /\ last_acked_sequence \in 0 .. Messages
      /\ main \in {"idle", "push", "wait"}
  BY MigrationAssumption DEF MigrationInd, Numbered
<1>3. Pushed \in Nat /\ Pushed <= Messages
  BY MigrationAssumption DEF MigrationInd, Numbered, Pushed
<1>4. m_written \in Seq(0 .. Messages)
  <2>1. m_written \in Seq(Nat) /\ \A k \in 1 .. Len(m_written) : m_written[k] \in 0 .. Messages
    BY <1>3, MigrationAssumption DEF MigrationInd, Numbered
  <2>2. Len(m_written) \in Nat /\ m_written \in [1 .. Len(m_written) -> 0 .. Messages]
    BY <2>1
  <2>. QED  BY <2>2, SeqDef
<1>5. pending_messages \in Seq(0 .. Messages)
  <2>1. pending_messages \in Seq(Nat)
        /\ \A k \in 1 .. Len(pending_messages) : pending_messages[k] \in 0 .. Messages
    BY <1>3, MigrationAssumption DEF MigrationInd, Numbered
  <2>2. /\ Len(pending_messages) \in Nat
        /\ pending_messages \in [1 .. Len(pending_messages) -> 0 .. Messages]
    BY <2>1
  <2>. QED  BY <2>2, SeqDef
<1>6. reconnect_attempts \in 0 .. max_reconnect_attempts
  BY MigrationAssumption DEF MigrationInd, Attempted
<1>7. /\ missed_pongs \in 0 .. (2 + MaxConnections) /\ orphans \in 0 .. MaxConnections
      /\ connections \in 0 .. MaxConnections
  <2>1. /\ Coming("first") \in Nat /\ Coming("loop") \in Nat /\ Checks("first") \in Nat
        /\ Checks("loop") \in Nat /\ Reports \in Nat
    BY DEF Coming, Checks, Reports, MigrationInd, CheckerTypes
  <2>2. Reports <= MaxConnections /\ orphans \in Nat /\ orphans <= MaxConnections
        /\ connections \in Nat /\ connections <= MaxConnections
    BY <2>1, MigrationAssumption DEF MigrationInd, Budget, CheckerTypes
  <2>3. missed_pongs \in Nat /\ missed_pongs <= 2 + MaxConnections
    BY <2>2, MigrationAssumption DEF Reports, MigrationInd, CheckerTypes
  <2>. QED  BY <2>2, <2>3, MigrationAssumption
<1>8. health \in [Migration!Task -> BOOLEAN] /\ pc \in [Migration!Task -> Places]
  BY DEF MigrationInd, CheckerTypes
<1>. QED  BY <1>1, <1>2, <1>4, <1>5, <1>6, <1>7, <1>8 DEF Migration!TypeOK, Places

LEMMA MigrationCheckers == CheckerTypes /\ Budget => Migration!CheckersBounded
<1> SUFFICES ASSUME CheckerTypes, Budget PROVE Migration!CheckersBounded
  OBVIOUS
<1> DEFINE H == {t \in Migration!Task : health[t]}
<1>1. Cardinality(H) = Checks("first") + Checks("loop")
  <2>1. CASE health["first"] /\ health["loop"]
    <3>1. H = {"first", "loop"} /\ Checks("first") = 1 /\ Checks("loop") = 1
      BY <2>1 DEF Migration!Task, Checks
    <3>2. Cardinality({"first"} \cup {"loop"}) = Cardinality({"first"}) + 1
      <4>1. IsFiniteSet({"first"}) /\ "loop" \notin {"first"}
        BY FS_Singleton
      <4>. QED  BY <4>1, FS_AddElement
    <3>3. Cardinality({"first"}) = 1 /\ H = {"first"} \cup {"loop"}
      BY <3>1, FS_Singleton
    <3>. QED  BY <3>1, <3>2, <3>3
  <2>2. CASE health["first"] /\ ~health["loop"]
    <3>0. Cardinality({"first"}) = 1
      BY FS_Singleton
    <3>1. H = {"first"} /\ Checks("first") = 1 /\ Checks("loop") = 0
      BY <2>2 DEF Migration!Task, Checks
    <3> HIDE DEF H
    <3>. QED  BY <3>0, <3>1
  <2>3. CASE ~health["first"] /\ health["loop"]
    <3>0. Cardinality({"loop"}) = 1
      BY FS_Singleton
    <3>1. H = {"loop"} /\ Checks("first") = 0 /\ Checks("loop") = 1
      BY <2>3 DEF Migration!Task, Checks
    <3> HIDE DEF H
    <3>. QED  BY <3>0, <3>1
  <2>4. CASE ~health["first"] /\ ~health["loop"]
    <3>1. H = {} /\ Checks("first") = 0 /\ Checks("loop") = 0
      BY <2>4 DEF Migration!Task, Checks
    <3>. QED  BY <3>1, FS_EmptySet
  <2>. QED  BY <2>1, <2>2, <2>3, <2>4
<1>2. Migration!Cardinality(H) = Cardinality(H)
  BY DEF Migration!Cardinality, Cardinality
<1>3. /\ Coming("first") \in Nat /\ Coming("loop") \in Nat /\ Checks("first") \in Nat
      /\ Checks("loop") \in Nat /\ Reports \in Nat /\ orphans \in Nat /\ connections \in Nat
  BY DEF Coming, Checks, Reports, CheckerTypes
<1>4. Checks("first") + Checks("loop") + orphans + Reports <= connections
  BY <1>3 DEF Budget
<1>5. Migration!Cardinality(H) + orphans + Reports <= connections
  BY <1>1, <1>2, <1>4
<1>. QED  BY <1>5 DEF Migration!CheckersBounded, Reports

(* Over all connections together, two of which may be open at a time, a     *)
(* message is written at most once and in the order of the numbers, and the *)
(* queue holds exactly those not yet written, whichever connection an       *)
(* acknowledgement arrives on; the checkers and the deaths they reported    *)
(* are no more than the connections.  A message lost after its write is not *)
(* claimed to be sent again: the code does not do so.                       *)
THEOREM MigrationIsSound == WebSocketSpec => []MigrationInv
<1>1. WebSocketInit => MigrationInd
  BY MigrationInit DEF WebSocketInit
<1>2. MigrationInd /\ [WebSocketNext]_websocket => MigrationInd'
  BY MigrationNext, MigrationRuns
<1>3. MigrationInd => MigrationInv
  BY MigrationTyped, MigrationOrdered, MigrationWhole, MigrationCheckers
     DEF MigrationInd, MigrationInv
<1>. QED
  BY <1>1, <1>2, <1>3, PTL DEF WebSocketSpec

-----------------------------------------------------------------------------
(* WsRecovery.  As long as no flush failed, a connection that is Connected  *)
(* has an empty buffer, so that what is written at once overtakes nothing;  *)
(* no message on its way is newer than the last one submitted.              *)
Before(x, y) == x # 0 /\ y # 0 => x < y
Ascends(s) == \A j, k \in 1 .. Len(s) : j < k => Before(s[j], s[k])

Line ==
  lost = {} =>
    /\ state = "Connected" => r_buffer = << >>
    /\ Ascends(written) /\ Ascends(r_buffer)
    /\ \A j \in 1 .. Len(written), k \in 1 .. Len(r_buffer) : Before(written[j], r_buffer[k])
    /\ \A j \in 1 .. Len(written) : written[j] <= submitted
    /\ \A k \in 1 .. Len(r_buffer) : r_buffer[k] <= submitted

Numbers == 0 .. MaxMsg

RecoveryTypes ==
  /\ state \in {"Disconnected", "Connecting", "Connected", "Error"}
  /\ stream \in BOOLEAN /\ (state = "Connected" => stream)
  /\ retry_count \in Nat /\ retry_count <= max_retries
  /\ r_buffer \in Seq(Numbers) /\ Len(r_buffer) <= r_max_size
  /\ written \in Seq(Numbers) /\ submitted \in Numbers
  /\ dropped \subseteq Numbers /\ failed \subseteq Numbers /\ lost \subseteq Numbers

(* Main sends message i + 1 in iteration i, if it sends one. *)
MainInv ==
  /\ phase \in {"api", "connect", "retry", "loop", "send", "receive", "done"}
  /\ i \in Nat /\ i <= Iterations
  /\ phase \in {"send", "receive"} => i < Iterations
  /\ phase \notin {"api", "receive"} => submitted <= i
  /\ phase = "receive" => submitted <= i + 1

RecoveryInd == RecoveryTypes /\ Line /\ MainInv

LEMMA RecoveryInit == Recovery!Init => RecoveryInd
<1> SUFFICES ASSUME Recovery!Init PROVE RecoveryInd
  OBVIOUS
<1>0. << >> \in Seq(Numbers) /\ Len(<< >>) = 0
  OBVIOUS
<1>1. RecoveryTypes
  <2>1. stream \in BOOLEAN /\ state = "Disconnected"
    BY DEF Recovery!Init
  <2>2. 0 \in Numbers /\ 0 <= max_retries /\ 0 <= r_max_size
    BY RecoveryAssumption DEF Numbers
  <2>. QED  BY <1>0, <2>1, <2>2 DEF Recovery!Init, RecoveryTypes
<1>2. Line
  BY <1>0 DEF Recovery!Init, Line, Ascends
<1>3. MainInv
  BY RecoveryAssumption DEF Recovery!Init, MainInv
<1>. QED  BY <1>1, <1>2, <1>3 DEF RecoveryInd

(* The whole buffer is flushed. *)
LEMMA FlushKeeps ==
  ASSUME RecoveryTypes, Line, Recovery!ConnectOk
  PROVE  RecoveryTypes' /\ Line'
<1> DEFINE out == written
           b == r_buffer
<1>1. /\ stream' = TRUE /\ state' = "Connected" /\ retry_count' = 0
      /\ r_buffer' = << >> /\ written' = out \o b
      /\ UNCHANGED <<submitted, dropped, failed, lost>>
  BY DEF Recovery!ConnectOk, Recovery!history
<1>2. out \in Seq(Numbers) /\ b \in Seq(Numbers) /\ Len(out) \in Nat /\ Len(b) \in Nat
  BY DEF RecoveryTypes
<1>3. /\ written' \in Seq(Numbers) /\ Len(written') = Len(out) + Len(b)
      /\ \A k \in 1 .. Len(out) + Len(b) :
           written'[k] = IF k <= Len(out) THEN out[k] ELSE b[k - Len(out)]
  BY <1>1, <1>2, ConcatProperties
<1>4. r_buffer' \in Seq(Numbers) /\ Len(r_buffer') = 0
  BY <1>1
<1>5. RecoveryTypes'
  BY <1>1, <1>3, <1>4, RecoveryAssumption DEF RecoveryTypes
<1>6. ASSUME lost = {} PROVE Ascends(written') /\ \A j \in 1 .. Len(written') : written'[j] <= submitted
  <2>1. /\ Ascends(out) /\ Ascends(b)
        /\ \A j \in 1 .. Len(out), k \in 1 .. Len(b) : Before(out[j], b[k])
        /\ \A j \in 1 .. Len(out) : out[j] <= submitted
        /\ \A k \in 1 .. Len(b) : b[k] <= submitted
    BY <1>6 DEF Line
  <2>2. \A k \in 1 .. Len(written') :
          \/ k \in 1 .. Len(out) /\ written'[k] = out[k]
          \/ k - Len(out) \in 1 .. Len(b) /\ written'[k] = b[k - Len(out)] /\ k > Len(out)
    BY <1>2, <1>3
  <2>3. \A j \in 1 .. Len(written') : written'[j] <= submitted
    BY <2>1, <2>2
  <2>4. ASSUME NEW j \in 1 .. Len(written'), NEW k \in 1 .. Len(written'), j < k
        PROVE  Before(written'[j], written'[k])
    <3>1. CASE j \in 1 .. Len(out) /\ k \in 1 .. Len(out)
      BY <1>2, <2>1, <2>2, <2>4, <3>1 DEF Ascends
    <3>2. CASE j \in 1 .. Len(out) /\ k - Len(out) \in 1 .. Len(b)
      BY <1>2, <2>1, <2>2, <2>4, <3>2
    <3>3. CASE j - Len(out) \in 1 .. Len(b) /\ k - Len(out) \in 1 .. Len(b)
      <4>1. j - Len(out) < k - Len(out)
        BY <1>2, <2>4
      <4>2. Before(b[j - Len(out)], b[k - Len(out)])
        BY <2>1, <3>3, <4>1 DEF Ascends
      <4>3. written'[j] = b[j - Len(out)] /\ written'[k] = b[k - Len(out)]
        BY <1>2, <2>2, <3>3
      <4>. QED  BY <4>2, <4>3
    <3>. QED  BY <1>2, <2>2, <2>4, <3>1, <3>2, <3>3
  <2>. QED  BY <2>3, <2>4 DEF Ascends
<1>7. Ascends(r_buffer') /\ 1 .. Len(r_buffer') = {}
  BY <1>4 DEF Ascends
<1>8. Line'
  BY <1>1, <1>6, <1>7 DEF Line
<1>. QED  BY <1>5, <1>8

(* A flush that fails loses a message: order is claimed no longer. *)
LEMMA FailKeeps ==
  ASSUME RecoveryTypes, Line, Recovery!FlushFails
  PROVE  RecoveryTypes' /\ Line'
<1> DEFINE b == r_buffer
<1>1. PICK k \in 1 .. Len(b) :
        /\ stream' = TRUE /\ state' = "Connected" /\ retry_count' = 0
        /\ r_buffer' = SubSeq(b, k + 1, Len(b))
        /\ written' = written \o SubSeq(b, 1, k - 1)
        /\ lost' = lost \cup {b[k]} /\ UNCHANGED <<submitted, dropped, failed>>
  BY DEF Recovery!FlushFails
<1>2. b \in Seq(Numbers) /\ written \in Seq(Numbers) /\ Len(b) \in Nat /\ Len(b) <= r_max_size
  BY DEF RecoveryTypes
<1>3. /\ SubSeq(b, k + 1, Len(b)) \in Seq(Numbers)
      /\ Len(SubSeq(b, k + 1, Len(b))) <= r_max_size
  BY <1>2, SubSeqProperties, RecoveryAssumption
<1>4. SubSeq(b, 1, k - 1) \in Seq(Numbers)
  BY <1>2, SubSeqProperties
<1>5. written' \in Seq(Numbers)
  BY <1>1, <1>2, <1>4, ConcatProperties
<1>6. b[k] \in Numbers
  BY <1>2
<1>7. RecoveryTypes'
  BY <1>1, <1>3, <1>5, <1>6, RecoveryAssumption DEF RecoveryTypes
<1>8. lost' # {}
  BY <1>1
<1>. QED  BY <1>7, <1>8 DEF Line

(* An attempt that fails leaves messages alone, and the state is not        *)
(* Connected.                                                               *)
LEMMA AttemptKeeps ==
  ASSUME RecoveryTypes, Line, NEW tries \in Nat, tries <= max_retries, NEW c, NEW d \in BOOLEAN,
         Recovery!ConnectFails(tries, c, d)
  PROVE  RecoveryTypes' /\ Line'
<1>1. state' \in {"Connecting", "Error"} /\ stream' = d /\ retry_count' = tries
      /\ UNCHANGED <<r_buffer, written, submitted, dropped, failed, lost>>
  BY DEF Recovery!ConnectFails, Recovery!AfterError, Recovery!history, Recovery!Error
<1>2. RecoveryTypes'
  BY <1>1 DEF RecoveryTypes
<1>3. Line'
  BY <1>1 DEF Line, Ascends
<1>. QED  BY <1>2, <1>3

(* Message m, newer than all before it or a ping, joins a queue. *)
Fresh(m) == m \in Numbers /\ (m # 0 => m > submitted)

LEMMA AppendAscends ==
  ASSUME NEW s \in Seq(Numbers), NEW m \in Numbers, NEW top \in Numbers, m # 0 => m > top,
         Ascends(s), \A k \in 1 .. Len(s) : s[k] <= top
  PROVE  /\ Ascends(Append(s, m)) /\ Append(s, m) \in Seq(Numbers)
         /\ Len(Append(s, m)) = Len(s) + 1
         /\ \A k \in 1 .. Len(s) : Append(s, m)[k] = s[k]
         /\ Append(s, m)[Len(s) + 1] = m
         /\ \A k \in 1 .. Len(Append(s, m)) : k \in 1 .. Len(s) \/ k = Len(s) + 1
<1> DEFINE a == Append(s, m)
<1>1. Len(s) \in Nat /\ a \in Seq(Numbers) /\ Len(a) = Len(s) + 1
      /\ (\A k \in 1 .. Len(s) : a[k] = s[k]) /\ a[Len(s) + 1] = m
  BY AppendProperties
<1>2. \A k \in 1 .. Len(a) : k \in 1 .. Len(s) \/ k = Len(s) + 1
  BY <1>1
<1>3. \A k \in 1 .. Len(s) : s[k] \in Nat /\ m \in Nat /\ top \in Nat
  <2>1. \A k \in 1 .. Len(s) : s[k] \in Numbers
    OBVIOUS
  <2>. QED  BY <2>1 DEF Numbers
<1> HIDE DEF a
<1>4. ASSUME NEW j \in 1 .. Len(a), NEW k \in 1 .. Len(a), j < k PROVE Before(a[j], a[k])
  <2>1. j \in 1 .. Len(s)
    BY <1>1, <1>2, <1>4
  <2>2. CASE k \in 1 .. Len(s)
    BY <1>1, <1>4, <2>1, <2>2 DEF Ascends
  <2>3. CASE k = Len(s) + 1
    <3>1. a[j] = s[j] /\ a[k] = m /\ s[j] <= top
      BY <1>1, <2>1, <2>3
    <3>. QED  BY <1>3, <2>1, <3>1 DEF Before
  <2>. QED  BY <1>2, <2>2, <2>3
<1>5. Ascends(a)
  BY <1>4 DEF Ascends
<1>. QED  BY <1>1, <1>2, <1>5 DEF a

(* The ends of a send: written, put in the buffer, or neither. *)
Submits(m) == submitted' = IF m = 0 THEN submitted ELSE m

LEMMA SubmitGrows ==
  ASSUME RecoveryTypes, NEW m, Fresh(m), Submits(m)
  PROVE  submitted' \in Numbers /\ submitted' >= submitted /\ m <= submitted'
         /\ submitted \in Nat /\ submitted' \in Nat /\ m \in Numbers /\ m \in Nat
BY RecoveryAssumption DEF RecoveryTypes, Fresh, Submits, Numbers

(* Stays as it is below a higher mark. *)
LEMMA StillBelow ==
  ASSUME NEW s \in Seq(Numbers), submitted \in Nat, submitted' \in Nat, submitted' >= submitted,
         \A k \in 1 .. Len(s) : s[k] <= submitted
  PROVE  \A k \in 1 .. Len(s) : s[k] <= submitted'
<1>1. \A k \in 1 .. Len(s) : s[k] \in Numbers
  OBVIOUS
<1>2. \A k \in 1 .. Len(s) : s[k] \in Nat
  BY <1>1 DEF Numbers
<1>. QED  BY <1>2

LEMMA NothingQueued ==
  ASSUME RecoveryTypes, Line, NEW m, Fresh(m), Submits(m),
         UNCHANGED <<r_buffer, written, lost>>, state' = state \/ state' # "Connected"
  PROVE  Line'
<1>1. submitted' >= submitted /\ submitted \in Nat /\ submitted' \in Nat
  BY SubmitGrows
<1>2. written \in Seq(Numbers) /\ r_buffer \in Seq(Numbers)
  BY DEF RecoveryTypes
<1>3. ASSUME lost = {}
      PROVE  /\ \A j \in 1 .. Len(written) : written[j] <= submitted'
             /\ \A k \in 1 .. Len(r_buffer) : r_buffer[k] <= submitted'
  <2>1. /\ \A j \in 1 .. Len(written) : written[j] <= submitted
        /\ \A k \in 1 .. Len(r_buffer) : r_buffer[k] <= submitted
    BY <1>3 DEF Line
  <2>. QED  BY <1>1, <1>2, <2>1, StillBelow
<1>. QED  BY <1>3 DEF Line, Ascends

(* The message goes to the buffer, unless it is full. *)
LEMMA PushKeeps ==
  ASSUME RecoveryTypes, Line, NEW m, Fresh(m), Submits(m), Recovery!Push(m),
         state' # "Connected", UNCHANGED <<written, lost>>
  PROVE  /\ Line' /\ r_buffer' \in Seq(Numbers) /\ Len(r_buffer') <= r_max_size
         /\ dropped' \subseteq Numbers
<1> DEFINE b == r_buffer
<1>0. /\ b \in Seq(Numbers) /\ written \in Seq(Numbers) /\ Len(b) \in Nat
      /\ Len(b) <= r_max_size /\ dropped \subseteq Numbers /\ submitted \in Numbers
  BY DEF RecoveryTypes
<1>1. submitted' >= submitted /\ submitted \in Nat /\ submitted' \in Nat /\ m <= submitted'
      /\ m \in Numbers /\ m \in Nat
  BY SubmitGrows
<1>2. CASE Len(b) < r_max_size
  <2>1. b' = Append(b, m) /\ dropped' = dropped
    BY <1>2 DEF Recovery!Push
  <2>2. b' \in Seq(Numbers) /\ Len(b') = Len(b) + 1
    BY <1>0, <1>1, <2>1, AppendProperties
  <2>3. Len(b') <= r_max_size
    BY <1>0, <1>2, <2>2, RecoveryAssumption
  <2>4. ASSUME lost = {}
        PROVE  /\ Ascends(written) /\ Ascends(b')
               /\ \A j \in 1 .. Len(written), k \in 1 .. Len(b') : Before(written[j], b'[k])
               /\ \A j \in 1 .. Len(written) : written[j] <= submitted'
               /\ \A k \in 1 .. Len(b') : b'[k] <= submitted'
    <3>1. /\ Ascends(written) /\ Ascends(b)
          /\ \A j \in 1 .. Len(written), k \in 1 .. Len(b) : Before(written[j], b[k])
          /\ \A j \in 1 .. Len(written) : written[j] <= submitted
          /\ \A k \in 1 .. Len(b) : b[k] <= submitted
      BY <2>4 DEF Line
    <3>2. m # 0 => m > submitted
      BY DEF Fresh
    <3>3. /\ Ascends(b')
          /\ \A k \in 1 .. Len(b) : b'[k] = b[k]
          /\ b'[Len(b) + 1] = m
          /\ \A k \in 1 .. Len(b') : k \in 1 .. Len(b) \/ k = Len(b) + 1
      BY <1>0, <1>1, <2>1, <3>1, <3>2, AppendAscends
    <3>4. /\ \A j \in 1 .. Len(written) : written[j] <= submitted'
          /\ \A k \in 1 .. Len(b) : b[k] <= submitted'
      BY <1>0, <1>1, <3>1, StillBelow
    <3>5. \A k \in 1 .. Len(b') : b'[k] <= submitted'
      BY <1>1, <3>3, <3>4
    <3>6. \A j \in 1 .. Len(written) : written[j] \in Nat
      <4>1. \A j \in 1 .. Len(written) : written[j] \in Numbers
        BY <1>0
      <4>. QED  BY <4>1 DEF Numbers
    <3>7. \A j \in 1 .. Len(written) : Before(written[j], m)
      BY <1>1, <3>1, <3>2, <3>6 DEF Before
    <3>8. \A j \in 1 .. Len(written), k \in 1 .. Len(b') : Before(written[j], b'[k])
      BY <3>1, <3>3, <3>7
    <3>. QED  BY <3>1, <3>3, <3>4, <3>5, <3>8
  <2>5. Line'
    BY <2>4 DEF Line
  <2>. QED  BY <1>0, <2>1, <2>2, <2>3, <2>5
<1>3. CASE ~(Len(b) < r_max_size)
  <2>1. b' = b /\ dropped' = dropped \cup {m}
    BY <1>3 DEF Recovery!Push
  <2>2. Line'
    BY <2>1, NothingQueued
  <2>. QED  BY <1>0, <1>1, <2>1, <2>2
<1>. QED  BY <1>2, <1>3

LEMMA SendKeeps ==
  ASSUME RecoveryTypes, Line, NEW m, Fresh(m), Recovery!send(m)
  PROVE  RecoveryTypes' /\ Line' /\ Submits(m)
<1>0. Submits(m)
  BY DEF Recovery!send, Recovery!SendBuffered, Recovery!SendWritten, Recovery!SendFails,
         Recovery!Submit, Recovery!PING, Submits
<1>1. submitted' \in Numbers /\ submitted' >= submitted /\ submitted \in Nat /\ submitted' \in Nat
      /\ m <= submitted' /\ m \in Numbers /\ m \in Nat
  BY <1>0, SubmitGrows
<1>2. CASE Recovery!SendBuffered(m)
  <2>1. /\ state # "Connected" /\ Recovery!Push(m)
        /\ UNCHANGED <<state, stream, retry_count, written, failed, lost>>
    BY <1>2 DEF Recovery!SendBuffered
  <2>2. /\ Line' /\ r_buffer' \in Seq(Numbers) /\ Len(r_buffer') <= r_max_size
        /\ dropped' \subseteq Numbers
    BY <1>0, <2>1, PushKeeps
  <2>3. RecoveryTypes'
    BY <1>1, <2>1, <2>2 DEF RecoveryTypes
  <2>. QED  BY <1>0, <2>2, <2>3
<1>3. CASE Recovery!SendWritten(m)
  <2>1. /\ state = "Connected" /\ written' = Append(written, m)
        /\ UNCHANGED <<state, stream, retry_count, r_buffer, dropped, failed, lost>>
    BY <1>3 DEF Recovery!SendWritten
  <2>2. written \in Seq(Numbers) /\ submitted \in Numbers
    BY DEF RecoveryTypes
  <2>3. written' \in Seq(Numbers)
    BY <1>1, <2>1, <2>2, AppendProperties
  <2>4. RecoveryTypes'
    BY <1>1, <2>1, <2>3 DEF RecoveryTypes
  <2>5. ASSUME lost = {}
        PROVE  /\ r_buffer = << >> /\ Ascends(written') /\ Ascends(r_buffer)
               /\ \A j \in 1 .. Len(written') : written'[j] <= submitted'
               /\ 1 .. Len(r_buffer) = {}
    <3>1. /\ r_buffer = << >> /\ Ascends(written) /\ Ascends(r_buffer)
          /\ \A j \in 1 .. Len(written) : written[j] <= submitted
      BY <2>1, <2>5 DEF Line
    <3>2. m # 0 => m > submitted
      BY DEF Fresh
    <3>3. /\ Ascends(written')
          /\ \A k \in 1 .. Len(written) : written'[k] = written[k]
          /\ written'[Len(written) + 1] = m
          /\ \A k \in 1 .. Len(written') : k \in 1 .. Len(written) \/ k = Len(written) + 1
      BY <1>1, <2>1, <2>2, <3>1, <3>2, AppendAscends
    <3>4. \A k \in 1 .. Len(written) : written[k] <= submitted'
      BY <1>1, <2>2, <3>1, StillBelow
    <3>5. \A k \in 1 .. Len(written') : written'[k] <= submitted'
      BY <1>1, <3>3, <3>4
    <3>6. 1 .. Len(r_buffer) = {}
      BY <3>1
    <3>. QED  BY <3>1, <3>3, <3>5, <3>6
  <2>6. Line'
    BY <2>1, <2>5 DEF Line
  <2>. QED  BY <1>0, <2>4, <2>6
<1>4. ASSUME NEW e \in Recovery!Error, Recovery!SendFails(m, e)
      PROVE  RecoveryTypes' /\ Line' /\ Submits(m)
  <2>1. /\ state = "Connected" /\ state' = Recovery!AfterError(state, e)
        /\ UNCHANGED <<stream, retry_count, written, lost>>
    BY <1>4 DEF Recovery!SendFails
  <2>2. CASE e = "recoverable"
    <3>1. state' = "Error" /\ Recovery!Push(m) /\ UNCHANGED failed
      BY <1>4, <2>1, <2>2 DEF Recovery!SendFails, Recovery!AfterError
    <3>2. /\ Line' /\ r_buffer' \in Seq(Numbers) /\ Len(r_buffer') <= r_max_size
          /\ dropped' \subseteq Numbers
      BY <1>0, <2>1, <3>1, PushKeeps
    <3>3. RecoveryTypes'
      BY <1>1, <2>1, <3>1, <3>2 DEF RecoveryTypes
    <3>. QED  BY <1>0, <3>2, <3>3
  <2>3. CASE e # "recoverable"
    <3>1. /\ state' = state /\ failed' = failed \cup {m} /\ UNCHANGED <<r_buffer, dropped>>
      BY <1>4, <2>1, <2>3 DEF Recovery!SendFails, Recovery!AfterError
    <3>2. RecoveryTypes'
      BY <1>1, <2>1, <3>1 DEF RecoveryTypes
    <3>3. Line'
      BY <1>0, <2>1, <3>1, NothingQueued
    <3>. QED  BY <1>0, <3>2, <3>3
  <2>. QED  BY <2>2, <2>3
<1>. QED  BY <1>2, <1>3, <1>4 DEF Recovery!send

(* receive, disconnect, a refused reconnect. *)
Idles ==
  /\ UNCHANGED <<retry_count, r_buffer, written, submitted, dropped, failed, lost>>
  /\ \/ stream' = stream /\ state' \in {state, "Disconnected", "Error"}
     \/ stream' = FALSE /\ state' = "Disconnected"

LEMMA RecoveryRests ==
  ASSUME RecoveryTypes, Line, Idles
  PROVE  RecoveryTypes' /\ Line' /\ submitted' = submitted
<1>0. UNCHANGED <<retry_count, r_buffer, written, submitted, dropped, failed, lost>>
  BY DEF Idles
<1>1. state' = state \/ state' # "Connected"
  BY DEF Idles
<1>2. stream' \in BOOLEAN /\ (state' = "Connected" => stream')
      /\ state' \in {"Disconnected", "Connecting", "Connected", "Error"}
  BY DEF RecoveryTypes, Idles
<1>3. RecoveryTypes'
  BY <1>0, <1>2 DEF RecoveryTypes
<1>4. Line'
  BY <1>0, <1>1 DEF Line, Ascends
<1>. QED  BY <1>0, <1>3, <1>4

(* connect() and reconnect(), whatever the network does. *)
Dials == \/ Recovery!ConnectOk \/ Recovery!FlushFails
         \/ \E c, d : d \in BOOLEAN /\ \E tries \in Nat : tries <= max_retries /\ Recovery!ConnectFails(tries, c, d)

LEMMA DialsKeep ==
  ASSUME RecoveryTypes, Line, Dials
  PROVE  RecoveryTypes' /\ Line' /\ submitted' = submitted
<1>1. CASE Recovery!ConnectOk
  BY <1>1, FlushKeeps DEF Recovery!ConnectOk, Recovery!history
<1>2. CASE Recovery!FlushFails
  BY <1>2, FailKeeps DEF Recovery!FlushFails
<1>3. CASE \E c, d : d \in BOOLEAN /\ \E tries \in Nat : tries <= max_retries /\ Recovery!ConnectFails(tries, c, d)
  <2>1. PICK c, d : d \in BOOLEAN /\ \E tries \in Nat : tries <= max_retries /\ Recovery!ConnectFails(tries, c, d)
    BY <1>3
  <2>2. PICK tries \in Nat : tries <= max_retries /\ Recovery!ConnectFails(tries, c, d)
    BY <2>1
  <2>3. RecoveryTypes' /\ Line'
    BY <2>1, <2>2, AttemptKeeps
  <2>. QED  BY <2>2, <2>3 DEF Recovery!ConnectFails, Recovery!history
<1>. QED  BY <1>1, <1>2, <1>3 DEF Dials

LEMMA AttemptsDial ==
  ASSUME RecoveryTypes,
         \/ Recovery!ConnectFails(retry_count, current, stream)
         \/ Recovery!should_retry
             /\ Recovery!ConnectFails(retry_count + 1, Recovery!next_backoff, FALSE)
  PROVE  Dials
<1>1. retry_count \in Nat /\ retry_count <= max_retries /\ stream \in BOOLEAN
      /\ FALSE \in BOOLEAN /\ retry_count + 1 \in Nat
  BY DEF RecoveryTypes
<1>2. CASE Recovery!ConnectFails(retry_count, current, stream)
  BY <1>1, <1>2 DEF Dials
<1>3. CASE Recovery!should_retry
           /\ Recovery!ConnectFails(retry_count + 1, Recovery!next_backoff, FALSE)
  <2>1. retry_count + 1 <= max_retries
    BY <1>1, <1>3, RecoveryAssumption DEF Recovery!should_retry
  <2> DEFINE tries == retry_count + 1
  <2>2. tries \in Nat /\ tries <= max_retries /\ Recovery!ConnectFails(tries, Recovery!next_backoff, FALSE)
    BY <1>1, <1>3, <2>1
  <2> HIDE DEF tries
  <2>. QED  BY <1>1, <2>2 DEF Dials
<1>. QED  BY <1>2, <1>3

LEMMA ConnectDials ==
  ASSUME RecoveryTypes, Recovery!connect \/ Recovery!reconnect
  PROVE  Dials
<1>1. CASE Recovery!ConnectOk \/ Recovery!FlushFails
  BY <1>1 DEF Dials
<1>2. CASE \/ Recovery!ConnectFails(retry_count, current, stream)
           \/ Recovery!should_retry
               /\ Recovery!ConnectFails(retry_count + 1, Recovery!next_backoff, FALSE)
  BY <1>2, AttemptsDial
<1>. QED  BY <1>1, <1>2 DEF Recovery!connect, Recovery!reconnect

LEMMA RestsKeep ==
  ASSUME RecoveryTypes, Line,
         Recovery!receive \/ Recovery!disconnect \/ Recovery!reconnect_refused
  PROVE  RecoveryTypes' /\ Line' /\ submitted' = submitted
<1>1. Idles
  BY DEF Idles, Recovery!receive, Recovery!disconnect, Recovery!reconnect_refused, Recovery!AfterError,
         Recovery!history
<1>. QED  BY <1>1, RecoveryRests

LEMMA ApiKeeps == RecoveryInd /\ Recovery!ApiNext => RecoveryInd'
<1> SUFFICES ASSUME RecoveryInd, Recovery!ApiNext PROVE RecoveryInd'
  OBVIOUS
<1>0. RecoveryTypes /\ Line /\ MainInv /\ phase = "api" /\ UNCHANGED <<phase, i>>
  BY DEF RecoveryInd, Recovery!ApiNext, Recovery!main
<1>1. MainInv'
  BY <1>0 DEF MainInv
<1>2. CASE Recovery!connect \/ Recovery!reconnect
  BY <1>0, <1>1, <1>2, ConnectDials, DialsKeep DEF RecoveryInd
<1>3. CASE submitted < MaxMsg /\ Recovery!send(submitted + 1)
  <2> DEFINE m == submitted + 1
  <2>1. Fresh(m) /\ Recovery!send(m)
    BY <1>0, <1>3, RecoveryAssumption DEF Fresh, RecoveryTypes, Numbers
  <2> HIDE DEF m
  <2>. QED  BY <1>0, <1>1, <2>1, SendKeeps DEF RecoveryInd
<1>4. CASE Recovery!receive \/ Recovery!disconnect
  BY <1>0, <1>1, <1>4, RestsKeep DEF RecoveryInd
<1>. QED  BY <1>2, <1>3, <1>4 DEF Recovery!ApiNext

LEMMA MainKeeps == RecoveryInd /\ Recovery!MainNext => RecoveryInd'
<1> SUFFICES ASSUME RecoveryInd, Recovery!MainNext PROVE RecoveryInd'
  OBVIOUS
<1>0. RecoveryTypes /\ Line /\ MainInv
  BY DEF RecoveryInd
<1>a. submitted \in Nat /\ i \in Nat /\ Iterations \in Nat /\ MaxMsg \in Nat /\ Iterations <= MaxMsg
  BY <1>0, RecoveryAssumption DEF RecoveryTypes, Numbers, MainInv
<1>1. CASE Recovery!MainConnect
  <2>1. Dials
    BY <1>0, <1>1, AttemptsDial DEF Recovery!MainConnect, Dials
  <2>2. RecoveryTypes' /\ Line' /\ submitted' = submitted
    BY <1>0, <2>1, DialsKeep
  <2>3. phase = "connect" /\ phase' \in {"loop", "retry"} /\ i' = i
    BY <1>1 DEF Recovery!MainConnect
  <2>4. MainInv'
    BY <1>0, <2>2, <2>3 DEF MainInv
  <2>. QED  BY <2>2, <2>4 DEF RecoveryInd
<1>2. CASE Recovery!MainRetry
  <2>1. Dials \/ Recovery!reconnect_refused
    BY <1>0, <1>2, AttemptsDial DEF Recovery!MainRetry, Dials
  <2>2. RecoveryTypes' /\ Line' /\ submitted' = submitted
    BY <1>0, <2>1, DialsKeep, RestsKeep
  <2>3. phase = "retry" /\ phase' \in {"loop", "retry"} /\ i' = i
    BY <1>2 DEF Recovery!MainRetry
  <2>4. MainInv'
    BY <1>0, <2>2, <2>3 DEF MainInv
  <2>. QED  BY <2>2, <2>4 DEF RecoveryInd
<1>3. CASE Recovery!MainRecover \/ Recovery!MainWait
  <2>1. RecoveryTypes' /\ Line' /\ submitted' = submitted
    <3>1. CASE Recovery!MainRecover
      <4>1. Recovery!reconnect \/ Recovery!reconnect_refused
        BY <3>1 DEF Recovery!MainRecover
      <4>. QED  BY <1>0, <4>1, ConnectDials, DialsKeep, RestsKeep
    <3>2. CASE Recovery!MainWait
      <4>1. Idles
        BY <3>2 DEF Idles, Recovery!MainWait, Recovery!history
      <4>. QED  BY <1>0, <4>1, RecoveryRests
    <3>. QED  BY <1>3, <3>1, <3>2
  <2>2. phase = "loop" /\ phase' = "loop" /\ i < Iterations /\ i' = i + 1
    BY <1>3 DEF Recovery!MainRecover, Recovery!MainWait
  <2>3. submitted <= i
    BY <1>0, <2>2 DEF MainInv
  <2>4. MainInv'
    BY <1>a, <2>1, <2>2, <2>3 DEF MainInv
  <2>. QED  BY <2>1, <2>4 DEF RecoveryInd
<1>4. CASE Recovery!MainHealth
  <2>1. RecoveryTypes' /\ Line' /\ submitted' = submitted
    <3>1. CASE Recovery!send(0)
      <4>1. Fresh(0)
        BY <1>a DEF Fresh, Numbers
      <4>2. RecoveryTypes' /\ Line' /\ Submits(0)
        BY <1>0, <3>1, <4>1, SendKeeps
      <4>. QED  BY <4>2 DEF Submits
    <3>2. CASE UNCHANGED <<state, stream, retry_count, current, r_buffer, written, Recovery!history>>
      <4>1. Idles
        BY <3>2 DEF Idles, Recovery!history
      <4>. QED  BY <1>0, <4>1, RecoveryRests
    <3>. QED  BY <1>4, <3>1, <3>2
              DEF Recovery!MainHealth, Recovery!check_connection_health, Recovery!PING
  <2>2. phase = "loop" /\ phase' = "send" /\ i < Iterations /\ i' = i
    BY <1>4 DEF Recovery!MainHealth
  <2>3. MainInv'
    BY <1>0, <2>1, <2>2 DEF MainInv
  <2>. QED  BY <2>1, <2>3 DEF RecoveryInd
<1>5. CASE Recovery!MainSend
  <2> DEFINE m == i + 1
  <2>1. phase = "send" /\ phase' = "receive" /\ i' = i /\ Recovery!send(m)
    BY <1>5 DEF Recovery!MainSend
  <2>2. i < Iterations /\ submitted <= i
    BY <1>0, <2>1 DEF MainInv
  <2>3. Fresh(m) /\ m # 0
    BY <1>a, <2>2 DEF Fresh, Numbers
  <2>4. submitted' = m /\ RecoveryTypes' /\ Line'
    <3> HIDE DEF m
    <3>. QED  BY <1>0, <2>1, <2>3, SendKeeps DEF Submits
  <2>5. MainInv'
    BY <1>a, <2>1, <2>2, <2>4 DEF MainInv
  <2>. QED  BY <2>4, <2>5 DEF RecoveryInd
<1>6. CASE Recovery!MainReceive
  <2>1. phase = "receive" /\ phase' = "loop" /\ i' = i + 1 /\ Recovery!receive
    BY <1>6 DEF Recovery!MainReceive
  <2>2. RecoveryTypes' /\ Line' /\ submitted' = submitted
    BY <1>0, <2>1, RestsKeep
  <2>3. MainInv'
    BY <1>0, <1>a, <2>1, <2>2 DEF MainInv
  <2>. QED  BY <2>2, <2>3 DEF RecoveryInd
<1>7. CASE Recovery!MainEnd
  <2>1. phase = "loop" /\ phase' = "done" /\ i' = i /\ Recovery!disconnect
    BY <1>7 DEF Recovery!MainEnd
  <2>2. RecoveryTypes' /\ Line' /\ submitted' = submitted
    BY <1>0, <2>1, RestsKeep
  <2>3. MainInv'
    BY <1>0, <2>1, <2>2 DEF MainInv
  <2>. QED  BY <2>2, <2>3 DEF RecoveryInd
<1>8. CASE Recovery!Done
  BY <1>0, <1>8 DEF Recovery!Done, Recovery!vars, Recovery!history, Recovery!main, RecoveryInd,
     RecoveryTypes, Line, Ascends, MainInv
<1>. QED  BY <1>1, <1>2, <1>3, <1>4, <1>5, <1>6, <1>7, <1>8 DEF Recovery!MainNext

LEMMA RecoveryNext == RecoveryInd /\ [Recovery!Next]_(Recovery!vars) => RecoveryInd'
<1> SUFFICES ASSUME RecoveryInd, [Recovery!Next]_(Recovery!vars) PROVE RecoveryInd'
  OBVIOUS
<1>1. CASE UNCHANGED Recovery!vars
  BY <1>1 DEF Recovery!vars, Recovery!history, Recovery!main, RecoveryInd, RecoveryTypes, Line,
     Ascends, MainInv
<1>. QED  BY <1>1, ApiKeeps, MainKeeps DEF Recovery!Next

LEMMA RecoveryRuns == [WebSocketNext]_websocket => [Recovery!Next]_(Recovery!vars)
BY DEF WebSocketNext, websocket, Only, Recovery_vars, Recovery!vars, Recovery!history,
       Recovery!main

LEMMA RecoveryOrdered == RecoveryInd => Recovery!OrderKept
<1> SUFFICES ASSUME RecoveryInd, lost = {} PROVE Recovery!OrderKept
  BY DEF Recovery!OrderKept
<1> DEFINE out == written
           b == r_buffer
           trail == out \o b
<1>1. /\ out \in Seq(Numbers) /\ b \in Seq(Numbers) /\ Len(out) \in Nat /\ Len(b) \in Nat
      /\ Ascends(out) /\ Ascends(b)
      /\ \A j \in 1 .. Len(out), k \in 1 .. Len(b) : Before(out[j], b[k])
  BY DEF RecoveryInd, RecoveryTypes, Line
<1>2. /\ Len(trail) = Len(out) + Len(b)
      /\ \A k \in 1 .. Len(out) + Len(b) :
           trail[k] = IF k <= Len(out) THEN out[k] ELSE b[k - Len(out)]
  BY <1>1, ConcatProperties
<1> HIDE DEF trail, out, b
<1>3. \A k \in 1 .. Len(trail) :
        \/ k \in 1 .. Len(out) /\ trail[k] = out[k]
        \/ k - Len(out) \in 1 .. Len(b) /\ trail[k] = b[k - Len(out)] /\ k > Len(out)
  BY <1>1, <1>2
<1>4. ASSUME NEW j \in 1 .. Len(trail), NEW k \in 1 .. Len(trail), j < k
      PROVE  Before(trail[j], trail[k])
  <2>1. CASE j \in 1 .. Len(out) /\ k \in 1 .. Len(out)
    BY <1>1, <1>3, <1>4, <2>1 DEF Ascends
  <2>2. CASE j \in 1 .. Len(out) /\ k - Len(out) \in 1 .. Len(b)
    <3>1. j <= Len(out) /\ k > Len(out)
      BY <1>1, <2>2
    <3>2. trail[j] = out[j] /\ trail[k] = b[k - Len(out)]
      BY <1>1, <1>2, <2>2, <3>1
    <3>3. Before(out[j], b[k - Len(out)])
      BY <1>1, <2>2
    <3>. QED  BY <3>2, <3>3
  <2>3. CASE j - Len(out) \in 1 .. Len(b) /\ k - Len(out) \in 1 .. Len(b)
    <3>1. j - Len(out) < k - Len(out)
      BY <1>1, <1>4
    <3>2. Before(b[j - Len(out)], b[k - Len(out)])
      BY <1>1, <2>3, <3>1 DEF Ascends
    <3>3. trail[j] = b[j - Len(out)] /\ trail[k] = b[k - Len(out)]
      BY <1>1, <1>3, <2>3
    <3>. QED  BY <3>2, <3>3
  <2>. QED  BY <1>1, <1>3, <1>4, <2>1, <2>2, <2>3
<1>5. Recovery!Trail = trail /\ Recovery!PING = 0
  BY DEF Recovery!Trail, Recovery!PING, trail, out, b
<1>. QED  BY <1>4, <1>5 DEF Recovery!OrderKept, Before

LEMMA RecoveryTyped == RecoveryInd => Recovery!TypeOK /\ Recovery!ConnectedHasStream
<1> SUFFICES ASSUME RecoveryInd PROVE Recovery!TypeOK /\ Recovery!ConnectedHasStream
  OBVIOUS
<1>1. retry_count \in 0 .. max_retries
  BY RecoveryAssumption DEF RecoveryInd, RecoveryTypes
<1>2. \A s \in {dropped, failed, lost} : s \subseteq Numbers
  BY DEF RecoveryInd, RecoveryTypes
<1>3. stream \in BOOLEAN /\ (state = "Connected" => stream)
  BY DEF RecoveryInd, RecoveryTypes
<1>. QED  BY <1>1, <1>2, <1>3 DEF RecoveryInd, RecoveryTypes, MainInv, Numbers, Recovery!TypeOK,
              Recovery!ConnectedHasStream

(* Whatever the network does, and in whatever order the methods are called, *)
(* a message is written at most once and after every older one, as long as  *)
(* no flush has failed, and a connection that is Connected has a stream.    *)
THEOREM RecoveryKeepsOrder == WebSocketSpec => []RecoveryInv
<1>1. WebSocketInit => RecoveryInd
  BY RecoveryInit DEF WebSocketInit
<1>2. RecoveryInd /\ [WebSocketNext]_websocket => RecoveryInd'
  BY RecoveryNext, RecoveryRuns
<1>3. RecoveryInd => RecoveryInv
  BY RecoveryTyped, RecoveryOrdered DEF RecoveryInv
<1>. QED
  BY <1>1, <1>2, <1>3, PTL DEF WebSocketSpec

-----------------------------------------------------------------------------
(* WsBuffers.  BufferPool: numbers are given once, so that no buffer is in  *)
(* the pool and in use, or there twice.                                     *)
IsBuffer(b) == b = [id |-> b.id, by |-> b.by] /\ b.id \in Nat /\ b.id <= fresh

Blank == {[id |-> n, by |-> 0] : n \in Nat}

OwnedInv ==
  /\ fresh \in Nat /\ b_pool \in Seq(Blank)
  /\ \A k \in 1 .. Len(b_pool) : b_pool[k].id <= fresh
  /\ \A j, k \in 1 .. Len(b_pool) : b_pool[j].id = b_pool[k].id => j = k
  /\ \A b \in held : IsBuffer(b) /\ \A k \in 1 .. Len(b_pool) : b_pool[k].id # b.id
  /\ \A b, c \in held : b.id = c.id => b = c
  /\ Len(b_pool) <= max_pool_size \/ Len(b_pool) <= initial_count

LEMMA OwnedInit == Buffers!Init => OwnedInv
<1> SUFFICES ASSUME Buffers!Init PROVE OwnedInv
  OBVIOUS
<1>1. /\ b_pool = [n \in 1 .. initial_count |-> [id |-> n, by |-> 0]] /\ held = {}
      /\ fresh = initial_count /\ initial_count \in Nat
  BY BuffersAssumption DEF Buffers!Init
<1>2. \A n \in 1 .. initial_count : [id |-> n, by |-> 0] \in Blank
  BY DEF Blank
<1>3. b_pool \in Seq(Blank) /\ Len(b_pool) = initial_count
  BY <1>1, <1>2
<1>4. \A n \in 1 .. initial_count : b_pool[n].id = n
  BY <1>1
<1>. QED  BY <1>1, <1>3, <1>4 DEF OwnedInv

LEMMA BlankFields == \A b \in Blank : b.id \in Nat /\ b.by = 0 /\ b = [id |-> b.id, by |-> 0]
BY DEF Blank

LEMMA BufferAcquire == OwnedInv /\ Buffers!acquire => OwnedInv'
<1> SUFFICES ASSUME OwnedInv, Buffers!acquire PROVE OwnedInv'
  OBVIOUS
<1> DEFINE s == b_pool
<1>0. /\ fresh \in Nat /\ s \in Seq(Blank) /\ Len(s) \in Nat
      /\ \A k \in 1 .. Len(s) : s[k].id <= fresh
      /\ \A j, k \in 1 .. Len(s) : s[j].id = s[k].id => j = k
      /\ \A b \in held : IsBuffer(b) /\ \A k \in 1 .. Len(s) : s[k].id # b.id
      /\ \A b, c \in held : b.id = c.id => b = c
      /\ Len(s) <= max_pool_size \/ Len(s) <= initial_count
      /\ max_pool_size \in Nat /\ initial_count \in Nat
  BY BuffersAssumption DEF OwnedInv
<1>1. CASE s # << >>
  <2> DEFINE b == Head(s)
             q == Tail(s)
  <2>1. held' = held \cup {b} /\ b_pool' = q /\ fresh' = fresh
    BY <1>1 DEF Buffers!acquire
  <2>2. /\ Len(s) > 0 /\ b = s[1] /\ b \in Blank /\ q \in Seq(Blank) /\ Len(q) = Len(s) - 1
        /\ \A k \in 1 .. Len(q) : q[k] = s[k + 1]
    BY <1>0, <1>1
  <2>3. b.id \in Nat /\ b.id <= fresh /\ b = [id |-> b.id, by |-> b.by] /\ 1 \in 1 .. Len(s)
    BY <1>0, <2>2, BlankFields
  <2> HIDE DEF b, q, s
  <2>4. \A k \in 1 .. Len(q) : k + 1 \in 1 .. Len(s) /\ k + 1 # 1 /\ q[k] = s[k + 1]
    BY <1>0, <2>2
  <2>5. /\ \A k \in 1 .. Len(q) : q[k].id <= fresh
        /\ \A j, k \in 1 .. Len(q) : q[j].id = q[k].id => j = k
    <3>1. ASSUME NEW k \in 1 .. Len(q) PROVE q[k].id <= fresh
      BY <1>0, <2>4
    <3>2. ASSUME NEW j \in 1 .. Len(q), NEW k \in 1 .. Len(q), q[j].id = q[k].id PROVE j = k
      <4>1. /\ j + 1 \in 1 .. Len(s) /\ k + 1 \in 1 .. Len(s)
            /\ s[j + 1].id = s[k + 1].id /\ j \in Nat /\ k \in Nat
        BY <2>2, <2>4, <3>2
      <4>2. j + 1 = k + 1
        BY <1>0, <4>1
      <4>. QED  BY <4>1, <4>2
    <3>. QED  BY <3>1, <3>2
  <2>6. ASSUME NEW k \in 1 .. Len(q) PROVE q[k].id # b.id
    <3>1. k + 1 \in 1 .. Len(s) /\ k + 1 # 1 /\ q[k] = s[k + 1]
      BY <2>4
    <3>2. s[k + 1].id # s[1].id
      BY <1>0, <2>3, <3>1
    <3>. QED  BY <2>2, <3>1, <3>2
  <2>7. \A c \in held : c.id # b.id
    BY <1>0, <2>2, <2>3
  <2>8. \A c \in held' : IsBuffer(c)' /\ \A k \in 1 .. Len(q) : q[k].id # c.id
    BY <1>0, <2>1, <2>3, <2>4, <2>6 DEF IsBuffer
  <2>9. \A c, d \in held' : c.id = d.id => c = d
    BY <1>0, <2>1, <2>7
  <2>10. Len(q) <= max_pool_size \/ Len(q) <= initial_count
    BY <1>0, <2>2
  <2>11. /\ fresh' \in Nat /\ b_pool' \in Seq(Blank)
         /\ \A k \in 1 .. Len(b_pool') : b_pool'[k].id <= fresh'
         /\ \A j, k \in 1 .. Len(b_pool') : b_pool'[j].id = b_pool'[k].id => j = k
    BY <1>0, <2>1, <2>2, <2>5
  <2>12. /\ \A c \in held' : IsBuffer(c)' /\ \A k \in 1 .. Len(b_pool') : b_pool'[k].id # c.id
         /\ Len(b_pool') <= max_pool_size \/ Len(b_pool') <= initial_count
    BY <2>1, <2>8, <2>10
  <2>. QED  BY <2>9, <2>11, <2>12 DEF OwnedInv
<1>2. CASE s = << >>
  <2> DEFINE b == [id |-> fresh + 1, by |-> 0]
  <2>1. fresh' = fresh + 1 /\ held' = held \cup {b} /\ b_pool' = s
    BY <1>2 DEF Buffers!acquire
  <2>2. 1 .. Len(s) = {}
    BY <1>2
  <2>3. b.id = fresh + 1 /\ \A c : c = b => IsBuffer(c)'
    BY <1>0, <2>1 DEF IsBuffer
  <2>4. \A c \in held : IsBuffer(c)' /\ c.id # fresh + 1
    BY <1>0, <2>1 DEF IsBuffer
  <2>5. \A c, d \in held' : c.id = d.id => c = d
    BY <1>0, <2>1, <2>3, <2>4
  <2> HIDE DEF b
  <2>6. \A c \in held' : IsBuffer(c)'
    BY <2>1, <2>3, <2>4
  <2>7. fresh' \in Nat /\ Len(s) = 0
    BY <1>0, <1>2, <2>1
  <2>. QED  BY <1>0, <2>1, <2>2, <2>5, <2>6, <2>7 DEF OwnedInv
<1>. QED  BY <1>1, <1>2

LEMMA BufferWrite == OwnedInv /\ Buffers!as_mut_slice => OwnedInv'
<1> SUFFICES ASSUME OwnedInv, Buffers!as_mut_slice PROVE OwnedInv'
  OBVIOUS
<1>1. PICK b \in held : held' = (held \ {b}) \cup {[b EXCEPT !.by = 1]}
  BY DEF Buffers!as_mut_slice
<1>2. UNCHANGED <<b_pool, fresh>>
  BY DEF Buffers!as_mut_slice
<1> DEFINE w1 == [b EXCEPT !.by = 1]
<1>3. IsBuffer(b) /\ w1.id = b.id /\ w1 = [id |-> b.id, by |-> 1]
  BY DEF OwnedInv, IsBuffer
<1> HIDE DEF w1
<1>4. IsBuffer(w1)' /\ \A k \in 1 .. Len(b_pool) : b_pool[k].id # w1.id
  BY <1>2, <1>3 DEF OwnedInv, IsBuffer
<1>5. \A c \in held' : c = w1 \/ (c \in held /\ c # b)
  BY <1>1 DEF w1
<1>6. \A c \in held' : IsBuffer(c)' /\ \A k \in 1 .. Len(b_pool) : b_pool[k].id # c.id
  BY <1>2, <1>4, <1>5 DEF OwnedInv, IsBuffer
<1>7. \A c, d \in held' : c.id = d.id => c = d
  BY <1>3, <1>5 DEF OwnedInv
<1>. QED  BY <1>2, <1>6, <1>7 DEF OwnedInv

LEMMA BufferDrop == OwnedInv /\ Buffers!drop => OwnedInv'
<1> SUFFICES ASSUME OwnedInv, Buffers!drop PROVE OwnedInv'
  OBVIOUS
<1> DEFINE s == b_pool
<1>0. /\ fresh \in Nat /\ s \in Seq(Blank) /\ Len(s) \in Nat
      /\ \A k \in 1 .. Len(s) : s[k].id <= fresh
      /\ \A j, k \in 1 .. Len(s) : s[j].id = s[k].id => j = k
      /\ \A b \in held : IsBuffer(b) /\ \A k \in 1 .. Len(s) : s[k].id # b.id
      /\ \A b, c \in held : b.id = c.id => b = c
      /\ Len(s) <= max_pool_size \/ Len(s) <= initial_count
      /\ max_pool_size \in Nat /\ initial_count \in Nat
  BY BuffersAssumption DEF OwnedInv
<1>1. PICK b \in held :
        /\ held' = held \ {b}
        /\ b_pool' = IF Len(s) < max_pool_size THEN Append(s, Buffers!Returned(b)) ELSE s
  BY DEF Buffers!drop
<1>2. fresh' = fresh
  BY DEF Buffers!drop
<1>3. \A c \in held' : IsBuffer(c)' /\ c.id # b.id /\ \A k \in 1 .. Len(s) : s[k].id # c.id
  BY <1>0, <1>1, <1>2 DEF IsBuffer
<1>4. \A c, d \in held' : c.id = d.id => c = d
  BY <1>0, <1>1
<1>5. CASE Len(s) < max_pool_size
  <2> DEFINE c == Buffers!Returned(b)
             q == Append(s, c)
  <2>1. c = [id |-> b.id, by |-> 0] /\ b.id \in Nat /\ b.id <= fresh
    BY <1>0 DEF Buffers!Returned, IsBuffer
  <2>2. c \in Blank /\ c.id = b.id
    BY <2>1 DEF Blank
  <2> HIDE DEF c
  <2>3. /\ q \in Seq(Blank) /\ Len(q) = Len(s) + 1 /\ q[Len(s) + 1] = c
        /\ \A k \in 1 .. Len(s) : q[k] = s[k]
    BY <1>0, <2>2, AppendProperties
  <2>4. b_pool' = q
    BY <1>1, <1>5 DEF c
  <2> HIDE DEF q, s
  <2>5. \A k \in 1 .. Len(q) : k \in 1 .. Len(s) \/ k = Len(s) + 1
    BY <1>0, <2>3
  <2>6. \A k \in 1 .. Len(s) : s[k].id # b.id
    BY <1>0
  <2>7. \A k \in 1 .. Len(q) : q[k].id <= fresh
    BY <1>0, <2>1, <2>2, <2>3, <2>5
  <2>8. \A j, k \in 1 .. Len(q) : q[j].id = q[k].id => j = k
    BY <1>0, <2>2, <2>3, <2>5, <2>6
  <2>9. \A d \in held' : \A k \in 1 .. Len(q) : q[k].id # d.id
    BY <1>3, <2>2, <2>3, <2>5
  <2>10. Len(q) <= max_pool_size
    BY <1>0, <1>5, <2>3
  <2>. QED  BY <1>0, <1>2, <1>3, <1>4, <2>3, <2>4, <2>7, <2>8, <2>9, <2>10 DEF OwnedInv
<1>6. CASE ~(Len(s) < max_pool_size)
  <2>1. b_pool' = s
    BY <1>1, <1>6
  <2>. QED  BY <1>0, <1>2, <1>3, <1>4, <2>1 DEF OwnedInv
<1>. QED  BY <1>5, <1>6

LEMMA OwnedClean == OwnedInv => Buffers!PoolClean
<1> SUFFICES ASSUME OwnedInv PROVE Buffers!PoolClean
  OBVIOUS
<1>1. b_pool \in Seq(Blank) /\ DOMAIN b_pool = 1 .. Len(b_pool)
  BY DEF OwnedInv
<1>2. \A k \in 1 .. Len(b_pool) : b_pool[k].by = 0
  BY <1>1, BlankFields
<1>3. \A k \in 1 .. Len(b_pool) : b_pool[k].id \notin {b.id : b \in held}
  BY DEF OwnedInv
<1>. QED  BY <1>1, <1>2, <1>3 DEF OwnedInv, Buffers!PoolClean

(* CircularBuffer.  Place x of the ring lies x steps after the tail: an     *)
(* unread byte below the size, a free one from there on.                    *)
LEMMA AroundOnce ==
  ASSUME NEW c \in Nat \ {0}, NEW x \in Nat, x < 2 * c
  PROVE  x % c = IF x < c THEN x ELSE x - c
<1>1. CASE x < c
  BY <1>1
<1>2. CASE x >= c
  <2>1. x - c \in 0 .. (c - 1) /\ x = (x - c) + c
    BY <1>2
  <2>2. \A y \in 0 .. (c - 1) : (y + c) % c = y
    OBVIOUS
  <2>. QED  BY <1>2, <2>1, <2>2
<1>. QED  BY <1>1, <1>2

(* How far behind the head place x is written. *)
LEMMA BehindHead ==
  ASSUME NEW c \in Nat \ {0}, NEW t \in 0 .. (c - 1), NEW n \in 0 .. c, NEW x \in 0 .. (c - 1)
  PROVE  LET p == (t + x) % c
             h == (t + n) % c
         IN  /\ p \in 0 .. (c - 1) /\ h \in 0 .. (c - 1)
             /\ (p + c - h) % c = IF x >= n THEN x - n ELSE x + c - n
<1> DEFINE p == (t + x) % c
           h == (t + n) % c
<1>0. t + x \in Nat /\ t + x < 2 * c /\ t + n \in Nat /\ t + n < 2 * c
  OBVIOUS
<1>1. p = IF t + x < c THEN t + x ELSE t + x - c
  <2> DEFINE y == t + x
  <2>1. y \in Nat /\ y < 2 * c
    BY <1>0
  <2> HIDE DEF y
  <2>2. y % c = IF y < c THEN y ELSE y - c
    BY <2>1, AroundOnce
  <2>. QED  BY <2>2 DEF y
<1>2. h = IF t + n < c THEN t + n ELSE t + n - c
  <2> DEFINE y == t + n
  <2>1. y \in Nat /\ y < 2 * c
    BY <1>0
  <2> HIDE DEF y
  <2>2. y % c = IF y < c THEN y ELSE y - c
    BY <2>1, AroundOnce
  <2>. QED  BY <2>2 DEF y
<1> HIDE DEF p, h
<1>3. p \in 0 .. (c - 1) /\ h \in 0 .. (c - 1)
  BY <1>1, <1>2
<1>4. (p + c - h) % c = IF p + c - h < c THEN p + c - h ELSE p - h
  <2> DEFINE y == p + c - h
  <2>1. y \in Nat /\ y < 2 * c
    BY <1>3
  <2>2. y % c = IF y < c THEN y ELSE y - c
    BY <2>1, AroundOnce
  <2>. QED  BY <1>3, <2>2
<1>5. (IF p + c - h < c THEN p + c - h ELSE p - h) = IF x >= n THEN x - n ELSE x + c - n
  BY <1>1, <1>2, <1>3
<1>. QED  BY <1>3, <1>4, <1>5 DEF p, h

(* Of f bytes written to the n that are there, none reaches the unread ones. *)
LEMMA WriteRoom ==
  ASSUME NEW c \in Nat \ {0}, NEW t \in 0 .. (c - 1), NEW n \in 0 .. c, NEW f \in Nat,
         f <= c - n
  PROVE  /\ (((t + n) % c) + f) % c = (t + (n + f)) % c
         /\ \A p \in 0 .. (c - 1) : (p + c - ((t + n) % c)) % c \in Nat
         /\ \A x \in 0 .. (n + f - 1) :
              /\ (t + x) % c \in 0 .. (c - 1)
              /\ x < n => ~((((t + x) % c) + c - ((t + n) % c)) % c < f)
              /\ x >= n => (((t + x) % c) + c - ((t + n) % c)) % c = x - n
<1> DEFINE h == (t + n) % c
<1>1. h = (IF t + n < c THEN t + n ELSE t + n - c) /\ h \in 0 .. (c - 1)
  <2> DEFINE y == t + n
  <2>1. y \in Nat /\ y < 2 * c
    OBVIOUS
  <2> HIDE DEF y
  <2>2. y % c = IF y < c THEN y ELSE y - c
    BY <2>1, AroundOnce
  <2>3. h = IF t + n < c THEN t + n ELSE t + n - c
    BY <2>2 DEF y
  <2> HIDE DEF h
  <2>. QED  BY <2>3
<1>2. (h + f) % c = (t + (n + f)) % c
  <2> HIDE DEF h
  <2> DEFINE x == h + f
             y == t + (n + f)
  <2>1. x \in Nat /\ x < 2 * c /\ y \in Nat /\ y < 2 * c
    BY <1>1
  <2> HIDE DEF x, y
  <2>2. x % c = (IF x < c THEN x ELSE x - c) /\ y % c = (IF y < c THEN y ELSE y - c)
    BY <2>1, AroundOnce
  <2>3. (IF x < c THEN x ELSE x - c) = (IF y < c THEN y ELSE y - c)
    BY <1>1 DEF x, y
  <2>4. x % c = y % c
    BY <2>2, <2>3
  <2>. QED  BY <2>4 DEF x, y
<1>3. \A p \in 0 .. (c - 1) : (p + c - h) % c \in Nat
  <2> HIDE DEF h
  <2>. QED  BY <1>1
<1>4. ASSUME NEW x \in 0 .. (n + f - 1)
      PROVE  /\ (t + x) % c \in 0 .. (c - 1)
             /\ x < n => ~((((t + x) % c) + c - h) % c < f)
             /\ x >= n => (((t + x) % c) + c - h) % c = x - n
  <2>1. x \in 0 .. (c - 1)
    OBVIOUS
  <2> DEFINE j == (((t + x) % c) + c - h) % c
  <2>2. (t + x) % c \in 0 .. (c - 1) /\ j = IF x >= n THEN x - n ELSE x + c - n
    BY <2>1, BehindHead
  <2> HIDE DEF j
  <2>3. (x < n => ~(j < f)) /\ (x >= n => j = x - n)
    BY <2>1, <2>2
  <2>. QED  BY <2>2, <2>3 DEF j
<1>. QED  BY <1>2, <1>3, <1>4

Place(x) == (send.tail + x) % capacity

RingTypes ==
  /\ send = [buffer |-> send.buffer, head |-> send.head, tail |-> send.tail, size |-> send.size]
  /\ send.buffer \in [0 .. (capacity - 1) -> Nat]
  /\ send.tail \in 0 .. (capacity - 1) /\ send.size \in 0 .. capacity
  /\ send.head = (send.tail + send.size) % capacity
  /\ queued \in Seq(Nat) /\ sent \in Seq(Nat)

RingInv ==
  /\ RingTypes /\ Len(queued) = Len(sent) + send.size
  /\ \A j \in 1 .. Len(sent) : sent[j] = queued[j]
  /\ \A x \in 0 .. (send.size - 1) : send.buffer[Place(x)] = queued[Len(sent) + x + 1]

LEMMA RingInit == Buffers!Init => RingInv
<1> SUFFICES ASSUME Buffers!Init PROVE RingInv
  OBVIOUS
<1>1. /\ send = [buffer |-> [n \in 0 .. (capacity - 1) |-> 0], head |-> 0, tail |-> 0, size |-> 0]
      /\ queued = << >> /\ sent = << >> /\ capacity \in Nat \ {0}
  BY BuffersAssumption DEF Buffers!Init
<1>2. 0 % capacity = 0 /\ << >> \in Seq(Nat) /\ Len(<< >>) = 0
  BY <1>1
<1>3. RingTypes
  BY <1>1, <1>2 DEF RingTypes
<1>. QED  BY <1>1, <1>2, <1>3 DEF RingInv

LEMMA RingQueue == RingInv /\ Buffers!queue_send_data => RingInv'
<1> SUFFICES ASSUME RingInv, Buffers!queue_send_data PROVE RingInv'
  OBVIOUS
<1> DEFINE c == capacity
           t == send.tail
           n == send.size
           l == Len(queued)
           m == Len(sent)
<1>0. /\ c \in Nat \ {0} /\ t \in 0 .. (c - 1) /\ n \in 0 .. c
      /\ queued \in Seq(Nat) /\ sent \in Seq(Nat) /\ l = m + n /\ l \in Nat /\ m \in Nat
  BY BuffersAssumption DEF RingInv, RingTypes
<1>1. /\ send.buffer \in [0 .. (c - 1) -> Nat] /\ send.head = (t + n) % c
      /\ \A x \in 0 .. (n - 1) : send.buffer[(t + x) % c] = queued[m + x + 1]
      /\ \A j \in 1 .. m : sent[j] = queued[j]
  BY DEF RingInv, RingTypes, Place
<1>2. PICK k \in 1 .. 2 :
        LET bytes == [j \in 1 .. k |-> l + j]
            fits == Buffers!min(k, c - n)
        IN  /\ send' = Buffers!write(send, bytes)
            /\ queued' = queued \o SubSeq(bytes, 1, fits)
  BY DEF Buffers!queue_send_data
<1>3. sent' = sent
  BY DEF Buffers!queue_send_data
<1> DEFINE bytes == [j \in 1 .. k |-> l + j]
           f == Buffers!min(k, c - n)
           new == SubSeq(bytes, 1, f)
           h == (t + n) % c
<1>4. send' = Buffers!write(send, bytes) /\ queued' = queued \o new
  BY <1>2
<1> HIDE DEF l, m
<1>5. bytes \in Seq(Nat) /\ Len(bytes) = k /\ \A j \in 1 .. k : bytes[j] = l + j
  <2>1. \A j \in 1 .. k : l + j \in Nat
    BY <1>0
  <2>2. k \in Nat
    OBVIOUS
  <2>. QED  BY <2>1, <2>2
<1> HIDE DEF bytes
<1>6. /\ send'.buffer = [p \in 0 .. (c - 1) |->
                           LET j == (p + c - h) % c
                           IN  IF j < f THEN bytes[j + 1] ELSE send.buffer[p]]
      /\ send'.head = (h + f) % c /\ send'.tail = t /\ send'.size = n + f
      /\ send' = [buffer |-> send'.buffer, head |-> send'.head, tail |-> send'.tail,
                  size |-> send'.size]
  BY <1>1, <1>4, <1>5 DEF Buffers!write
<1> HIDE DEF c, t, n
<1>7. f \in Nat /\ f <= k /\ f <= c - n
  BY <1>0 DEF Buffers!min
<1> HIDE DEF f
<1>8. /\ (h + f) % c = (t + (n + f)) % c
      /\ \A p \in 0 .. (c - 1) : (p + c - h) % c \in Nat
      /\ \A x \in 0 .. (n + f - 1) :
           /\ (t + x) % c \in 0 .. (c - 1)
           /\ x < n => ~((((t + x) % c) + c - h) % c < f)
           /\ x >= n => (((t + x) % c) + c - h) % c = x - n
  <2>1. c \in Nat \ {0} /\ t \in 0 .. (c - 1) /\ n \in 0 .. c /\ f \in Nat /\ f <= c - n
    BY <1>0, <1>7
  <2>. QED  BY <2>1, WriteRoom
<1>9. new \in Seq(Nat) /\ Len(new) = f /\ \A j \in 1 .. f : new[j] = l + j
  <2>1. \A j \in 1 .. f : j \in 1 .. k
    BY <1>7
  <2>2. new \in Seq(Nat) /\ Len(new) = f /\ \A j \in 1 .. f : new[j] = bytes[j]
    BY <1>5, <1>7, SubSeqProperties
  <2>. QED  BY <1>5, <2>1, <2>2
<1> HIDE DEF new
<1>10. /\ queued' \in Seq(Nat) /\ Len(queued') = l + f
       /\ \A j \in 1 .. l : queued'[j] = queued[j]
       /\ \A j \in 1 .. f : queued'[l + j] = l + j
  <2>1. /\ queued' \in Seq(Nat) /\ Len(queued') = l + f
        /\ \A j \in 1 .. l + f : queued'[j] = IF j <= l THEN queued[j] ELSE new[j - l]
    <3>1. queued \in Seq(Nat) /\ new \in Seq(Nat) /\ Len(new) = f /\ queued' = queued \o new
      BY <1>0, <1>4, <1>9
    <3>. QED  BY <3>1, ConcatProperties DEF l
  <2>2. ASSUME NEW j \in 1 .. f PROVE queued'[l + j] = l + j
    <3>1. l + j \in 1 .. l + f /\ ~(l + j <= l) /\ (l + j) - l = j
      BY <1>0, <1>7
    <3>. QED  BY <1>9, <2>1, <3>1
  <2>3. ASSUME NEW j \in 1 .. l PROVE queued'[j] = queued[j]
    <3>1. j \in 1 .. l + f /\ j <= l
      BY <1>0, <1>7
    <3>. QED  BY <2>1, <3>1
  <2>. QED  BY <2>1, <2>2, <2>3
<1>11. ASSUME NEW x \in 0 .. (n + f - 1)
       PROVE  send'.buffer[(t + x) % c] = queued'[m + x + 1]
  <2> DEFINE p == (t + x) % c
             j == (p + c - h) % c
  <2>1. p \in 0 .. (c - 1) /\ (x < n => ~(j < f)) /\ (x >= n => j = x - n)
    BY <1>8
  <2>2. send'.buffer[p] = IF j < f THEN bytes[j + 1] ELSE send.buffer[p]
    BY <1>6, <2>1
  <2> HIDE DEF p, j
  <2>3. CASE x < n
    <3>1. send'.buffer[p] = send.buffer[p]
      BY <2>1, <2>2, <2>3
    <3>2. send.buffer[p] = queued[m + x + 1]
      <4>1. x \in 0 .. (n - 1)
        BY <1>0, <1>7, <2>3
      <4>. QED  BY <1>1, <4>1 DEF p
    <3>3. m + x + 1 \in 1 .. l
      BY <1>0, <1>7, <2>3
    <3>. QED  BY <1>10, <3>1, <3>2, <3>3 DEF p
  <2>4. CASE x >= n
    <3>1. j = x - n /\ j < f /\ j + 1 \in 1 .. f /\ j + 1 \in 1 .. k
      BY <1>0, <1>7, <2>1, <2>4
    <3>2. send'.buffer[p] = l + (j + 1)
      BY <1>5, <2>2, <3>1
    <3>3. queued'[l + (j + 1)] = l + (j + 1)
      BY <1>10, <3>1
    <3>4. m + x + 1 = l + (j + 1)
      BY <1>0, <1>7, <3>1
    <3>. QED  BY <3>2, <3>3, <3>4 DEF p
  <2>. QED  BY <1>0, <1>7, <2>3, <2>4
<1>12. send'.buffer \in [0 .. (c - 1) -> Nat]
  <2>1. ASSUME NEW j \in Nat, j < f PROVE bytes[j + 1] \in Nat
    <3>1. j + 1 \in 1 .. k
      BY <1>7, <2>1
    <3>. QED  BY <1>5, <3>1
  <2>2. ASSUME NEW p \in 0 .. (c - 1) PROVE send'.buffer[p] \in Nat
    <3> DEFINE j == (p + c - h) % c
    <3>1. send'.buffer[p] = IF j < f THEN bytes[j + 1] ELSE send.buffer[p]
      BY <1>6
    <3>2. j \in Nat
      BY <1>8
    <3> HIDE DEF j
    <3>. QED  BY <1>1, <2>1, <3>1, <3>2
  <2>. QED  BY <1>6, <2>2
<1>13. n + f \in 0 .. c
  BY <1>0, <1>7
<1>14. RingTypes'
  BY <1>0, <1>3, <1>6, <1>8, <1>10, <1>12, <1>13 DEF RingTypes, c
<1>15. Len(queued') = Len(sent') + send'.size
  BY <1>0, <1>3, <1>6, <1>7, <1>10 DEF m
<1>16. \A j \in 1 .. Len(sent') : sent'[j] = queued'[j]
  <2>1. \A j \in 1 .. m : j \in 1 .. l
    BY <1>0
  <2>. QED  BY <1>1, <1>3, <1>10, <2>1 DEF m
<1>17. \A x \in 0 .. (send'.size - 1) :
         send'.buffer[(send'.tail + x) % capacity] = queued'[Len(sent') + x + 1]
  <2>1. send'.size = n + f /\ send'.tail = t /\ Len(sent') = m /\ capacity = c
    BY <1>3, <1>6 DEF m, c
  <2>2. ASSUME NEW x, x \in 0 .. (n + f - 1)
        PROVE  send'.buffer[(send'.tail + x) % capacity] = queued'[Len(sent') + x + 1]
    <3>2. send'.buffer[(t + x) % c] = queued'[m + x + 1]
      BY <1>11, <2>2
    <3>3. (send'.tail + x) % capacity = (t + x) % c /\ Len(sent') + x + 1 = m + x + 1
      BY <2>1
    <3>. QED  BY <3>2, <3>3
  <2>3. 0 .. (send'.size - 1) = 0 .. (n + f - 1)
    BY <1>0, <1>7, <2>1
  <2>. QED  BY <2>2, <2>3
<1>. QED  BY <1>14, <1>15, <1>16, <1>17 DEF RingInv, Place

(* Reading k bytes moves the tail to place k. *)
LEMMA RingGet == RingInv /\ Buffers!get_send_data => RingInv'
<1> SUFFICES ASSUME RingInv, Buffers!get_send_data PROVE RingInv'
  OBVIOUS
<1> DEFINE c == capacity
           t == send.tail
           n == send.size
           m == Len(sent)
<1>0. /\ c \in Nat \ {0} /\ t \in 0 .. (c - 1) /\ n \in 0 .. c
      /\ queued \in Seq(Nat) /\ sent \in Seq(Nat) /\ Len(queued) = m + n /\ m \in Nat
  BY BuffersAssumption DEF RingInv, RingTypes
<1>1. /\ send.buffer \in [0 .. (c - 1) -> Nat] /\ send.head = (t + n) % c
      /\ \A x \in 0 .. (n - 1) : send.buffer[(t + x) % c] = queued[m + x + 1]
      /\ \A j \in 1 .. m : sent[j] = queued[j]
  BY DEF RingInv, RingTypes, Place
<1>2. PICK k \in 1 .. n : send' = Buffers!read(send, k) /\ sent' = sent \o Buffers!Oldest(send, k)
  BY DEF Buffers!get_send_data
<1>3. queued' = queued
  BY DEF Buffers!get_send_data
<1>4. /\ send'.buffer = send.buffer /\ send'.head = send.head
      /\ send'.tail = (t + k) % c /\ send'.size = n - k
      /\ send' = [buffer |-> send'.buffer, head |-> send'.head, tail |-> send'.tail,
                  size |-> send'.size]
  <2>1. send = [buffer |-> send.buffer, head |-> send.head, tail |-> t, size |-> n]
    BY DEF RingInv, RingTypes
  <2>. QED  BY <1>2, <2>1 DEF Buffers!read
<1>5. k \in Nat /\ k <= n /\ n - k \in Nat /\ n - k \in 0 .. c
  <2> HIDE DEF c, n
  <2>. QED  BY <1>0
<1> DEFINE out == Buffers!Oldest(send, k)
<1>6. \A j \in 1 .. k : out[j] = queued[m + j]
  <2>1. ASSUME NEW j \in 1 .. k PROVE out[j] = queued[m + j]
    <3>1. out[j] = send.buffer[(t + j - 1) % c]
      BY DEF Buffers!Oldest
    <3>2. j - 1 \in 0 .. (n - 1) /\ t + (j - 1) = t + j - 1 /\ m + (j - 1) + 1 = m + j
      BY <1>0, <1>5
    <3>3. send.buffer[(t + (j - 1)) % c] = queued[m + (j - 1) + 1]
      BY <1>1, <3>2
    <3>. QED  BY <3>1, <3>2, <3>3
  <2>. QED  BY <2>1
<1>7. out \in Seq(Nat) /\ Len(out) = k
  <2>1. out = [j \in 1 .. k |-> send.buffer[(t + j - 1) % c]]
    BY DEF Buffers!Oldest
  <2>2. \A j \in 1 .. k : m + j \in 1 .. Len(queued)
    <3> HIDE DEF c, t, n, m
    <3>. QED  BY <1>0, <1>5
  <2>3. \A j \in 1 .. k : queued[m + j] \in Nat
    <3> HIDE DEF c, t, n, m
    <3>1. queued \in Seq(Nat)
      BY <1>0
    <3>. QED  BY <2>2, <3>1
  <2>4. \A j \in 1 .. k : out[j] \in Nat
    BY <1>6, <2>3
  <2>5. \A j \in 1 .. k : send.buffer[(t + j - 1) % c] \in Nat
    BY <2>1, <2>4
  <2> HIDE DEF t, c, m, n
  <2>. QED  BY <1>5, <2>1, <2>5
<1> HIDE DEF out, c, t, n, m
<1>8. /\ sent' \in Seq(Nat) /\ Len(sent') = m + k
      /\ \A j \in 1 .. m + k : sent'[j] = queued[j]
  <2>1. sent' = sent \o out
    BY <1>2 DEF out
  <2>2. /\ sent' \in Seq(Nat) /\ Len(sent') = m + k
        /\ \A j \in 1 .. m + k : sent'[j] = IF j <= m THEN sent[j] ELSE out[j - m]
    BY <1>0, <1>7, <2>1, ConcatProperties DEF m
  <2>3. ASSUME NEW j \in 1 .. m + k PROVE sent'[j] = queued[j]
    <3>1. CASE j <= m
      <4>1. j \in 1 .. m
        BY <1>0, <3>1
      <4>. QED  BY <1>1, <2>2, <3>1, <4>1
    <3>2. CASE ~(j <= m)
      <4>1. j - m \in 1 .. k /\ m + (j - m) = j
        BY <1>0, <1>5, <3>2
      <4>2. out[j - m] = queued[m + (j - m)]
        BY <1>6, <4>1
      <4>. QED  BY <2>2, <3>2, <4>1, <4>2
    <3>. QED  BY <3>1, <3>2
  <2>. QED  BY <2>2, <2>3
<1>9. ASSUME NEW x, x \in 0 .. (n - k) PROVE (((t + k) % c) + x) % c = (t + (k + x)) % c
  <2>1. x \in Nat /\ x <= c - k /\ k \in 0 .. c /\ t \in 0 .. (c - 1) /\ c \in Nat \ {0}
    BY <1>0, <1>5, <1>9
  <2>. QED  BY <2>1, WriteRoom
<1>10. (t + k) % c \in 0 .. (c - 1)
  BY <1>0, <1>5
<1>11. send'.head = (send'.tail + send'.size) % c
  <2>1. n - k \in 0 .. (n - k) /\ k + (n - k) = n
    BY <1>0, <1>5
  <2>2. (((t + k) % c) + (n - k)) % c = (t + (k + (n - k))) % c
    BY <1>9, <2>1
  <2>. QED  BY <1>1, <1>4, <2>1, <2>2
<1>12. RingTypes'
  BY <1>0, <1>1, <1>3, <1>4, <1>5, <1>8, <1>10, <1>11 DEF RingTypes, c
<1>13. ASSUME NEW x, x \in 0 .. (n - k - 1)
       PROVE  send'.buffer[(send'.tail + x) % capacity] = queued'[Len(sent') + x + 1]
  <2>1. x \in 0 .. (n - k) /\ k + x \in 0 .. (n - 1) /\ m + (k + x) + 1 = (m + k) + x + 1
    BY <1>0, <1>5, <1>13
  <2>2. (((t + k) % c) + x) % c = (t + (k + x)) % c
    BY <1>9, <2>1
  <2>3. send.buffer[(t + (k + x)) % c] = queued[m + (k + x) + 1]
    BY <1>1, <2>1
  <2>4. (send'.tail + x) % capacity = (t + (k + x)) % c
    BY <1>4, <2>2 DEF c
  <2>. QED  BY <1>3, <1>4, <1>8, <2>1, <2>3, <2>4
<1>14. 0 .. (send'.size - 1) = 0 .. (n - k - 1)
  BY <1>4, <1>5
<1>15. \A x \in 0 .. (send'.size - 1) :
         send'.buffer[(send'.tail + x) % capacity] = queued'[Len(sent') + x + 1]
  BY <1>13, <1>14
<1>16. Len(queued') = Len(sent') + send'.size
  <2>1. Len(queued') = m + n /\ Len(sent') = m + k /\ send'.size = n - k
    BY <1>0, <1>3, <1>4, <1>8
  <2>2. m + n = (m + k) + (n - k)
    BY <1>0, <1>5
  <2>. QED  BY <2>1, <2>2
<1>17. \A j \in 1 .. Len(sent') : sent'[j] = queued'[j]
  BY <1>3, <1>8
<1>. QED  BY <1>12, <1>15, <1>16, <1>17 DEF RingInv, Place

LEMMA RingClear == RingInv /\ Buffers!clear => RingInv'
<1> SUFFICES ASSUME RingInv, Buffers!clear PROVE RingInv'
  OBVIOUS
<1>1. /\ capacity \in Nat \ {0} /\ send.buffer \in [0 .. (capacity - 1) -> Nat]
      /\ send = [buffer |-> send.buffer, head |-> send.head, tail |-> send.tail,
                 size |-> send.size]
      /\ sent \in Seq(Nat) /\ Len(sent) \in Nat
  BY BuffersAssumption DEF RingInv, RingTypes
<1>2. send' = [send EXCEPT !.head = 0, !.tail = 0, !.size = 0] /\ queued' = sent /\ sent' = sent
  BY DEF Buffers!clear
<1>3. send' = [buffer |-> send.buffer, head |-> 0, tail |-> 0, size |-> 0]
  BY <1>1, <1>2
<1>4. 0 % capacity = 0 /\ 0 \in 0 .. (capacity - 1) /\ 0 \in 0 .. capacity
  BY <1>1
<1>5. RingTypes'
  <2>1. /\ send'.buffer = send.buffer /\ send'.head = 0 /\ send'.tail = 0 /\ send'.size = 0
        /\ send' = [buffer |-> send'.buffer, head |-> send'.head, tail |-> send'.tail,
                    size |-> send'.size]
    BY <1>3
  <2>2. (0 + 0) % capacity = 0
    BY <1>4
  <2>. QED  BY <1>1, <1>2, <1>4, <2>1, <2>2 DEF RingTypes
<1>6. send'.size = 0 /\ 0 .. (0 - 1) = {} /\ Len(sent) = Len(sent) + 0
  BY <1>1, <1>3
<1>. QED  BY <1>2, <1>5, <1>6 DEF RingInv

LEMMA RingOrder == RingInv => Buffers!BytesInOrder
<1> SUFFICES ASSUME RingInv PROVE Buffers!BytesInOrder
  OBVIOUS
<1> DEFINE c == capacity
           t == send.tail
           n == send.size
           m == Len(sent)
           rest == Buffers!Oldest(send, n)
<1>0. /\ c \in Nat \ {0} /\ t \in 0 .. (c - 1) /\ n \in 0 .. c
      /\ queued \in Seq(Nat) /\ sent \in Seq(Nat) /\ Len(queued) = m + n /\ m \in Nat
      /\ \A x \in 0 .. (n - 1) : send.buffer[(t + x) % c] = queued[m + x + 1]
      /\ \A j \in 1 .. m : sent[j] = queued[j]
  BY BuffersAssumption DEF RingInv, RingTypes, Place
<1>2. rest = [j \in 1 .. n |-> send.buffer[(t + j - 1) % c]]
  BY DEF Buffers!Oldest
<1> HIDE DEF rest, c, t, n, m
<1>1. ASSUME NEW j \in 1 .. n
      PROVE  send.buffer[(t + j - 1) % c] = queued[m + j] /\ queued[m + j] \in Nat
  <2>1. j - 1 \in 0 .. (n - 1) /\ t + (j - 1) = t + j - 1 /\ m + (j - 1) + 1 = m + j
    BY <1>0
  <2>2. send.buffer[(t + (j - 1)) % c] = queued[m + (j - 1) + 1]
    BY <1>0, <2>1
  <2>3. m + j \in 1 .. Len(queued)
    BY <1>0
  <2>. QED  BY <1>0, <2>1, <2>2, <2>3
<1>3. rest \in Seq(Nat) /\ Len(rest) = n /\ \A j \in 1 .. n : rest[j] = queued[m + j]
  <2>1. n \in Nat
    BY <1>0
  <2>2. \A j \in 1 .. n : rest[j] = queued[m + j] /\ rest[j] \in Nat
    BY <1>1, <1>2
  <2>3. rest = [j \in 1 .. n |-> rest[j]]
    BY <1>2
  <2>4. rest \in Seq(Nat) /\ Len(rest) = n
    BY <2>1, <2>2, <2>3
  <2>. QED  BY <2>2, <2>4
<1>4. /\ sent \o rest \in Seq(Nat) /\ Len(sent \o rest) = m + n
      /\ \A j \in 1 .. m + n : (sent \o rest)[j] = IF j <= m THEN sent[j] ELSE rest[j - m]
  <2>1. sent \in Seq(Nat) /\ rest \in Seq(Nat) /\ Len(rest) = n
    BY <1>0, <1>3
  <2>. QED  BY <2>1, ConcatProperties DEF m
<1>5. ASSUME NEW j \in 1 .. m + n PROVE (sent \o rest)[j] = queued[j]
  <2>1. CASE j <= m
    <3>1. j \in 1 .. m
      BY <1>0, <2>1
    <3>. QED  BY <1>0, <1>4, <2>1, <3>1
  <2>2. CASE ~(j <= m)
    <3>1. j - m \in 1 .. n /\ m + (j - m) = j
      BY <1>0, <2>2
    <3>2. rest[j - m] = queued[m + (j - m)]
      BY <1>3, <3>1
    <3>. QED  BY <1>4, <2>2, <3>1, <3>2
  <2>. QED  BY <2>1, <2>2
<1>6. sent \o rest = queued
  BY <1>0, <1>4, <1>5, SeqEqual
<1>. QED  BY <1>0, <1>6 DEF Buffers!BytesInOrder, rest, n, c

(* DynamicBuffer: what append() and consume() do to the unread bytes. *)
Bytes == [frame : Nat, pos : Nat, form : Buffers!Form]

IsDynamic(b) ==
  /\ b = [data |-> b.data, read_pos |-> b.read_pos]
  /\ b.data \in Seq(Bytes) /\ b.read_pos \in 0 .. Len(b.data)

LEMMA Unread ==
  ASSUME NEW b, IsDynamic(b)
  PROVE  /\ Buffers!data(b) \in Seq(Bytes)
         /\ Len(Buffers!data(b)) = Len(b.data) - b.read_pos
         /\ \A j \in 1 .. Len(b.data) - b.read_pos :
              Buffers!data(b)[j] = b.data[b.read_pos + j]
<1> DEFINE s == b.data
           a == b.read_pos
           n == Len(s)
<1>1. s \in Seq(Bytes) /\ a \in 0 .. n /\ n \in Nat
  BY DEF IsDynamic
<1>2. Buffers!data(b) = SubSeq(s, a + 1, n)
  BY DEF Buffers!data
<1> HIDE DEF a, n
<1>3. \A j \in (a + 1) .. n : s[j] \in Bytes
  <2>1. \A j \in (a + 1) .. n : j \in 1 .. Len(s)
    BY <1>1 DEF n
  <2>. QED  BY <1>1, <2>1
<1> HIDE DEF s
<1>4. a + 1 \in Int /\ n \in Int
  BY <1>1
<1>5. /\ SubSeq(s, a + 1, n) \in Seq(Bytes)
      /\ Len(SubSeq(s, a + 1, n)) = IF a + 1 <= n THEN n - (a + 1) + 1 ELSE 0
      /\ \A j \in 1 .. n - (a + 1) + 1 : SubSeq(s, a + 1, n)[j] = s[(a + 1) + j - 1]
  BY <1>3, <1>4, SubSeqProperties
<1>6. (IF a + 1 <= n THEN n - (a + 1) + 1 ELSE 0) = n - a /\ n - (a + 1) + 1 = n - a
  BY <1>1
<1>7. ASSUME NEW j \in 1 .. n - a PROVE SubSeq(s, a + 1, n)[j] = s[a + j]
  <2>1. (a + 1) + j - 1 = a + j
    BY <1>1
  <2>. QED  BY <1>5, <1>6, <2>1
<1>. QED  BY <1>2, <1>5, <1>6, <1>7 DEF s, a, n

LEMMA UnreadAppend ==
  ASSUME NEW b, IsDynamic(b), NEW e \in Seq(Bytes)
  PROVE  LET d == Buffers!data(b)
             c == Buffers!append(b, e)
         IN  IsDynamic(c) /\ Buffers!data(c) = d \o e
<1> DEFINE d == Buffers!data(b)
           c == Buffers!append(b, e)
           s == b.data
           a == b.read_pos
           n == Len(s)
           m == Len(e)
<1>1. s \in Seq(Bytes) /\ a \in 0 .. n /\ n \in Nat /\ m \in Nat
  BY DEF IsDynamic
<1>2. c = [data |-> s \o e, read_pos |-> a]
  <2>1. b = [data |-> s, read_pos |-> a]
    BY DEF IsDynamic
  <2> DEFINE q == s \o e
  <2>2. c = [b EXCEPT !.data = q]
    BY DEF Buffers!append
  <2> HIDE DEF c, q, s, a
  <2>3. c = [data |-> q, read_pos |-> a]
    BY <2>1, <2>2
  <2>. QED  BY <2>3 DEF q
<1>3. /\ s \o e \in Seq(Bytes) /\ Len(s \o e) = n + m
      /\ \A j \in 1 .. n + m : (s \o e)[j] = IF j <= n THEN s[j] ELSE e[j - n]
  BY <1>1, ConcatProperties
<1>4. c.data = s \o e /\ c.read_pos = a
  BY <1>2
<1> HIDE DEF c
<1>5. IsDynamic(c)
  <2>1. a \in 0 .. n + m
    BY <1>1
  <2>. QED  BY <1>2, <1>3, <1>4, <2>1 DEF IsDynamic
<1>6. /\ Buffers!data(c) \in Seq(Bytes) /\ Len(Buffers!data(c)) = n + m - a
      /\ \A j \in 1 .. n + m - a : Buffers!data(c)[j] = (s \o e)[a + j]
  <2> DEFINE q == s \o e
  <2>1. c.data = q /\ c.read_pos = a /\ Len(q) = n + m
    BY <1>3, <1>4
  <2>2. /\ Buffers!data(c) \in Seq(Bytes) /\ Len(Buffers!data(c)) = Len(c.data) - c.read_pos
        /\ \A j \in 1 .. Len(c.data) - c.read_pos : Buffers!data(c)[j] = c.data[c.read_pos + j]
    BY <1>5, Unread
  <2> HIDE DEF q, a, n, m
  <2>3. /\ Buffers!data(c) \in Seq(Bytes) /\ Len(Buffers!data(c)) = n + m - a
        /\ \A j \in 1 .. n + m - a : Buffers!data(c)[j] = q[a + j]
    BY <1>1, <2>1, <2>2
  <2>. QED  BY <2>3 DEF q
<1>7. d \in Seq(Bytes) /\ Len(d) = n - a /\ \A j \in 1 .. n - a : d[j] = s[a + j]
  BY Unread
<1> HIDE DEF d, s, a, n
<1>8. /\ d \o e \in Seq(Bytes) /\ Len(d \o e) = (n - a) + m
      /\ \A j \in 1 .. (n - a) + m : (d \o e)[j] = IF j <= n - a THEN d[j] ELSE e[j - (n - a)]
  <2>1. /\ d \o e \in Seq(Bytes) /\ Len(d \o e) = Len(d) + m
        /\ \A j \in 1 .. Len(d) + m : (d \o e)[j] = IF j <= Len(d) THEN d[j] ELSE e[j - Len(d)]
    BY <1>7, ConcatProperties
  <2>. QED  BY <1>7, <2>1
<1> HIDE DEF m
<1>9. ASSUME NEW j \in 1 .. (n - a) + m PROVE Buffers!data(c)[j] = (d \o e)[j]
  <2>1. /\ j \in 1 .. n + m - a /\ a + j \in 1 .. n + m
        /\ (a + j <= n <=> j <= n - a) /\ (a + j) - n = j - (n - a)
        /\ (j <= n - a => j \in 1 .. n - a)
    BY <1>1
  <2>. QED  BY <1>3, <1>6, <1>7, <1>8, <2>1
<1>10. (n - a) + m = n + m - a
  BY <1>1
<1>11. Buffers!data(c) = d \o e
  BY <1>6, <1>8, <1>9, <1>10, SeqEqual
<1>. QED  BY <1>5, <1>11 DEF c, d

(* The first m bytes leave. *)
Drops(g, d, m) ==
  /\ g \in Seq(Bytes) /\ Len(g) = Len(d) - m
  /\ \A j \in 1 .. Len(d) - m : g[j] = d[m + j]

LEMMA UnreadConsume ==
  ASSUME NEW b, IsDynamic(b), NEW k \in Nat, k <= Len(Buffers!data(b))
  PROVE  LET d == Buffers!data(b)
             c == Buffers!consume(b, k)
         IN  IsDynamic(c) /\ Drops(Buffers!data(c), d, k)
<1> DEFINE d == Buffers!data(b)
           c == Buffers!consume(b, k)
           s == b.data
           a == b.read_pos
           n == Len(s)
<1>1. s \in Seq(Bytes) /\ a \in 0 .. n /\ n \in Nat
  BY DEF IsDynamic
<1>2. d \in Seq(Bytes) /\ Len(d) = n - a /\ \A j \in 1 .. n - a : d[j] = s[a + j]
  BY Unread
<1>3. b = [data |-> s, read_pos |-> a]
  BY DEF IsDynamic
<1>4. Buffers!min(k, Len(d)) = k
  BY DEF Buffers!min
<1>5. c = IF a + k > n \div 2
          THEN [data |-> SubSeq(s, (a + k) + 1, n), read_pos |-> 0]
          ELSE [data |-> s, read_pos |-> a + k]
  BY <1>3, <1>4 DEF Buffers!consume
<1> DEFINE t == SubSeq(s, (a + k) + 1, n)
           m == a + k
<1>6. m \in Nat /\ m <= n /\ k <= n - a
  BY <1>1, <1>2
<1> HIDE DEF d, c, n, a, m
<1>7. \A j \in (m + 1) .. n : s[j] \in Bytes
  <2>1. \A j \in (m + 1) .. n : j \in 1 .. Len(s)
    BY <1>1, <1>6 DEF n
  <2>. QED  BY <1>1, <2>1
<1> HIDE DEF s
<1>8. t \in Seq(Bytes) /\ Len(t) = n - m /\ \A j \in 1 .. n - m : t[j] = s[m + j]
  <2>1. m + 1 \in Int /\ n \in Int
    BY <1>1, <1>6
  <2>2. /\ SubSeq(s, m + 1, n) \in Seq(Bytes)
        /\ Len(SubSeq(s, m + 1, n)) = IF m + 1 <= n THEN n - (m + 1) + 1 ELSE 0
        /\ \A j \in 1 .. n - (m + 1) + 1 : SubSeq(s, m + 1, n)[j] = s[(m + 1) + j - 1]
    BY <1>7, <2>1, SubSeqProperties
  <2>3. (IF m + 1 <= n THEN n - (m + 1) + 1 ELSE 0) = n - m /\ n - (m + 1) + 1 = n - m
    BY <1>1, <1>6
  <2>4. ASSUME NEW j \in 1 .. n - m PROVE SubSeq(s, m + 1, n)[j] = s[m + j]
    <3>1. (m + 1) + j - 1 = m + j
      BY <1>6
    <3>. QED  BY <2>2, <2>3, <3>1
  <2>5. t = SubSeq(s, m + 1, n)
    BY DEF m
  <2>. QED  BY <2>2, <2>3, <2>4, <2>5
<1> HIDE DEF t
<1>9. Len(d) - k = n - m /\ \A j \in 1 .. n - m : d[k + j] = s[m + j]
  <2>1. ASSUME NEW j \in 1 .. n - m PROVE d[k + j] = s[m + j]
    <3>1. k + j \in 1 .. n - a /\ a + (k + j) = m + j
      BY <1>1, <1>6 DEF m
    <3>. QED  BY <1>2, <3>1
  <2>. QED  BY <1>1, <1>2, <2>1 DEF m
<1>10. /\ IsDynamic(c) /\ Buffers!data(c) \in Seq(Bytes) /\ Len(Buffers!data(c)) = n - m
       /\ \A j \in 1 .. n - m : Buffers!data(c)[j] = s[m + j]
  <2>1. CASE m > n \div 2
    <3>1. c = [data |-> t, read_pos |-> 0] /\ c.data = t /\ c.read_pos = 0
      BY <1>5, <2>1 DEF m, t
    <3>2. IsDynamic(c)
      BY <1>8, <3>1 DEF IsDynamic
    <3>3. /\ Buffers!data(c) \in Seq(Bytes) /\ Len(Buffers!data(c)) = (n - m) - 0
          /\ \A j \in 1 .. (n - m) - 0 : Buffers!data(c)[j] = t[0 + j]
      BY <1>8, <3>1, <3>2, Unread
    <3>4. (n - m) - 0 = n - m /\ \A j \in 1 .. n - m : 0 + j = j
      BY <1>1, <1>6
    <3>. QED  BY <1>8, <3>2, <3>3, <3>4
  <2>2. CASE ~(m > n \div 2)
    <3>1. c = [data |-> s, read_pos |-> m] /\ c.data = s /\ c.read_pos = m
      BY <1>5, <2>2 DEF m
    <3>2. IsDynamic(c)
      <4>1. m \in 0 .. n
        BY <1>1, <1>6
      <4>. QED  BY <1>1, <3>1, <4>1 DEF IsDynamic, n
    <3>. QED  BY <3>1, <3>2, Unread DEF n
  <2>. QED  BY <2>1, <2>2
<1>. QED  BY <1>9, <1>10 DEF c, d, Drops

(* The frames not yet extracted, b + 1 and after, lie one after the other   *)
(* in the unread bytes d: frame j ends at off[j], which may be beyond what  *)
(* has been received of it.                                                 *)
Layout(d, b, fs, off) ==
  /\ off \in [b .. Len(fs) -> Nat] /\ off[b] = 0
  /\ \A j \in (b + 1) .. Len(fs) : off[j] = off[j - 1] + Buffers!Total(fs[j])
  /\ \A j, k \in b .. Len(fs) : j <= k => off[j] <= off[k]
  /\ \A j \in (b + 1) .. Len(fs) : \A k \in 1 .. Buffers!Total(fs[j]) :
       off[j - 1] + k <= Len(d) =>
         d[off[j - 1] + k] = [frame |-> j, pos |-> k, form |-> fs[j]]

LEMMA FormSizes ==
  ASSUME NEW f \in Buffers!Form
  PROVE  /\ f.header \in Nat /\ f.mask \in Nat /\ f.payload \in Nat /\ f.header >= 2
         /\ Buffers!Total(f) \in Nat /\ Buffers!Total(f) >= 2
         /\ Buffers!Total(f) = f.header + f.mask + f.payload
BY DEF Buffers!Form, Buffers!Total

(* A frame begins: it has its place, and no bytes yet. *)
LEMMA LayoutBegins ==
  ASSUME NEW d, Len(d) \in Nat, NEW b \in Nat, NEW fs \in Seq(Buffers!Form), b <= Len(fs),
         NEW off, Layout(d, b, fs, off), Len(d) = off[Len(fs)], NEW f \in Buffers!Form
  PROVE  \E o : /\ Layout(d, b, Append(fs, f), o)
                /\ Len(d) = o[Len(fs)]
<1> DEFINE n == Len(fs)
           gs == Append(fs, f)
           tot == Buffers!Total(f)
           o == [j \in b .. n + 1 |-> IF j = n + 1 THEN off[n] + tot ELSE off[j]]
<1>1. n \in Nat /\ gs \in Seq(Buffers!Form) /\ Len(gs) = n + 1 /\ gs[n + 1] = f
      /\ \A j \in 1 .. n : gs[j] = fs[j]
  BY AppendProperties
<1>2. tot \in Nat /\ tot >= 2 /\ Buffers!Total(gs[n + 1]) = tot
  BY <1>1, FormSizes
<1>3. /\ off \in [b .. n -> Nat] /\ off[b] = 0
      /\ \A j \in (b + 1) .. n : off[j] = off[j - 1] + Buffers!Total(fs[j])
      /\ \A j, k \in b .. n : j <= k => off[j] <= off[k]
      /\ \A j \in (b + 1) .. n : \A k \in 1 .. Buffers!Total(fs[j]) :
           off[j - 1] + k <= Len(d) =>
             d[off[j - 1] + k] = [frame |-> j, pos |-> k, form |-> fs[j]]
  BY DEF Layout
<1> HIDE DEF n, gs, tot
<1>4. n \in b .. n /\ b <= n /\ b \in b .. n /\ off[n] \in Nat
  BY <1>1, <1>3 DEF n
<1>5. \A j \in b .. n : j \in b .. n + 1 /\ j # n + 1
  BY <1>1
<1>6. o[n + 1] = off[n] + tot /\ \A j \in b .. n : o[j] = off[j]
  <2>1. n + 1 \in b .. n + 1
    BY <1>1, <1>4
  <2>. QED  BY <1>5, <2>1
<1>7. o \in [b .. n + 1 -> Nat]
  <2>1. \A j \in b .. n + 1 : j = n + 1 \/ j \in b .. n
    BY <1>1
  <2>2. off[n] + tot \in Nat
    BY <1>2, <1>4
  <2>. QED  BY <1>3, <2>1, <2>2
<1> HIDE DEF o
<1>8. \A j \in (b + 1) .. n + 1 : j = n + 1 \/ (j \in (b + 1) .. n /\ j \in 1 .. n /\ j \in b .. n)
  BY <1>1
<1>9. \A j \in (b + 1) .. n + 1 : j - 1 \in b .. n /\ o[j - 1] = off[j - 1]
  <2>1. \A j \in (b + 1) .. n + 1 : j - 1 \in b .. n
    BY <1>1
  <2>. QED  BY <1>6, <2>1
<1>10. ASSUME NEW j \in (b + 1) .. n + 1 PROVE o[j] = o[j - 1] + Buffers!Total(gs[j])
  <2>1. CASE j = n + 1
    <3>1. j - 1 = n
      BY <1>1, <2>1
    <3>. QED  BY <1>2, <1>6, <1>9, <2>1, <3>1
  <2>2. CASE j # n + 1
    <3>1. j \in (b + 1) .. n /\ j \in 1 .. n /\ j \in b .. n
      BY <1>8, <2>2
    <3>. QED  BY <1>1, <1>3, <1>6, <1>9, <3>1
  <2>. QED  BY <2>1, <2>2
<1>11. ASSUME NEW j \in b .. n + 1, NEW k \in b .. n + 1, j <= k PROVE o[j] <= o[k]
  <2>1. CASE k = n + 1
    <3>1. CASE j = n + 1
      BY <1>7, <2>1, <3>1
    <3>2. CASE j # n + 1
      <4>1. j \in b .. n /\ j <= n
        BY <1>1, <3>2
      <4>2. off[j] <= off[n] /\ off[j] \in Nat
        BY <1>3, <1>4, <4>1
      <4>. QED  BY <1>2, <1>4, <1>6, <2>1, <4>1, <4>2
    <3>. QED  BY <3>1, <3>2
  <2>2. CASE k # n + 1
    <3>1. j \in b .. n /\ k \in b .. n
      BY <1>1, <1>11, <2>2
    <3>. QED  BY <1>3, <1>6, <1>11, <3>1
  <2>. QED  BY <2>1, <2>2
<1>12. ASSUME NEW j \in (b + 1) .. n + 1, NEW k \in 1 .. Buffers!Total(gs[j]),
              o[j - 1] + k <= Len(d)
       PROVE  d[o[j - 1] + k] = [frame |-> j, pos |-> k, form |-> gs[j]]
  <2>1. CASE j = n + 1
    <3>0. j - 1 = n
      BY <1>1, <2>1
    <3>1. off[n] + k <= Len(d) /\ Len(d) = off[n]
      BY <1>1, <1>9, <1>12, <3>0 DEF n
    <3>2. k \in Nat /\ k > 0
      BY <1>2, <2>1
    <3>. QED  BY <1>4, <3>1, <3>2
  <2>2. CASE j # n + 1
    <3>1. j \in (b + 1) .. n /\ gs[j] = fs[j] /\ o[j - 1] = off[j - 1]
      BY <1>1, <1>8, <1>9, <2>2
    <3>. QED  BY <1>3, <1>12, <3>1
  <2>. QED  BY <2>1, <2>2
<1>13. o[b] = 0 /\ Len(d) = o[n]
  BY <1>3, <1>4, <1>6 DEF n
<1>14. Layout(d, b, gs, o)
  BY <1>1, <1>7, <1>10, <1>11, <1>12, <1>13 DEF Layout
<1>. QED  BY <1>13, <1>14 DEF gs, n

(* A read of the socket brings the k bytes after the first c of the last frame. *)
Brings(e, fs, c, k) ==
  /\ e \in Seq(Bytes) /\ Len(e) = k /\ c + k <= Buffers!Total(fs[Len(fs)])
  /\ \A j \in 1 .. k : e[j] = [frame |-> Len(fs), pos |-> c + j, form |-> fs[Len(fs)]]

LEMMA LayoutGrows ==
  ASSUME NEW d \in Seq(Bytes), NEW b \in Nat, NEW fs \in Seq(Buffers!Form), b < Len(fs),
         NEW off, Layout(d, b, fs, off), NEW c \in Nat, Len(d) = off[Len(fs) - 1] + c,
         NEW k \in Nat, NEW e, Brings(e, fs, c, k)
  PROVE  Layout(d \o e, b, fs, off) /\ Len(d \o e) = off[Len(fs) - 1] + (c + k)
<1> DEFINE n == Len(fs)
           l == Len(d)
           g == d \o e
           tot == Buffers!Total(fs[n])
           z == off[n - 1]
<1>1. n \in Nat /\ l \in Nat /\ b < n /\ l = z + c /\ c + k <= tot
  BY DEF Brings
<1>2. /\ Len(g) = l + k
      /\ \A j \in 1 .. l + k : g[j] = IF j <= l THEN d[j] ELSE e[j - l]
  BY ConcatProperties DEF Brings
<1>3. /\ off \in [b .. n -> Nat] /\ off[b] = 0
      /\ \A j \in (b + 1) .. n : off[j] = off[j - 1] + Buffers!Total(fs[j])
      /\ \A j, m \in b .. n : j <= m => off[j] <= off[m]
      /\ \A j \in (b + 1) .. n : \A m \in 1 .. Buffers!Total(fs[j]) :
           off[j - 1] + m <= l => d[off[j - 1] + m] = [frame |-> j, pos |-> m, form |-> fs[j]]
  BY DEF Layout
<1>4. \A j \in 1 .. k : e[j] = [frame |-> n, pos |-> c + j, form |-> fs[n]]
  BY DEF Brings
<1>5. \A j \in 1 .. n : Buffers!Total(fs[j]) \in Nat
  BY FormSizes
<1> HIDE DEF n, l, g, tot
<1>6. n - 1 \in b .. n /\ z \in Nat
  <2>1. n - 1 \in b .. n
    BY <1>1
  <2>. QED  BY <1>3, <2>1
<1> HIDE DEF z
<1>7. ASSUME NEW j \in (b + 1) .. n, NEW m \in 1 .. Buffers!Total(fs[j]), off[j - 1] + m <= Len(g)
      PROVE  g[off[j - 1] + m] = [frame |-> j, pos |-> m, form |-> fs[j]]
  <2> DEFINE q == off[j - 1] + m
             tj == Buffers!Total(fs[j])
  <2>1. j - 1 \in b .. n /\ j \in b .. n /\ j \in 1 .. n /\ (j < n => j <= n - 1)
    BY <1>1
  <2>2. off[j - 1] \in Nat /\ tj \in Nat
    BY <1>3, <1>5, <2>1
  <2>3. m \in Nat /\ m > 0 /\ m <= tj
    BY <2>2
  <2>4. q \in 1 .. l + k /\ q \in Nat
    <3>1. q <= l + k /\ q = off[j - 1] + m
      BY <1>2, <1>7
    <3> DEFINE u == off[j - 1]
    <3>2. u \in Nat /\ q = u + m
      BY <2>2
    <3> HIDE DEF u, q
    <3>3. l \in Nat /\ m \in Nat /\ m > 0
      BY <1>1, <2>3
    <3>4. q \in Nat /\ 1 <= q
      BY <3>2, <3>3
    <3>. QED  BY <3>1, <3>3, <3>4
  <2>5. CASE q <= l
    BY <1>2, <1>3, <2>4, <2>5
  <2>6. CASE ~(q <= l)
    <3>1. j = n
      <4>1. SUFFICES ASSUME j < n PROVE FALSE
        BY <1>1
      <4>2. off[j] <= z /\ off[j] = off[j - 1] + tj
        BY <1>3, <1>6, <2>1, <4>1 DEF z
      <4>. QED  BY <1>1, <1>6, <2>2, <2>3, <2>6, <4>2
    <3>2. off[j - 1] = z
      BY <3>1 DEF z
    <3>3. q - l \in 1 .. k /\ c + (q - l) = m
      BY <1>1, <1>6, <2>3, <2>4, <2>6, <3>2
    <3>4. g[q] = e[q - l]
      BY <1>2, <2>4, <2>6
    <3>5. e[q - l] = [frame |-> n, pos |-> c + (q - l), form |-> fs[n]]
      BY <1>4, <3>3
    <3>. QED  BY <3>1, <3>3, <3>4, <3>5
  <2>. QED  BY <2>5, <2>6
<1>8. Layout(g, b, fs, off)
  BY <1>3, <1>7 DEF Layout, n
<1>9. Len(g) = z + (c + k)
  BY <1>1, <1>2, <1>6
<1>. QED  BY <1>8, <1>9 DEF g, n, z

(* The last byte received is byte c of the last frame, or its last when c = 0. *)
Reaches(d, b, fs, off, c) ==
  \/ c = 0 /\ Len(d) = off[Len(fs)]
  \/ /\ c > 0 /\ b < Len(fs) /\ Len(d) = off[Len(fs) - 1] + c
     /\ c < Buffers!Total(fs[Len(fs)])

(* Two bytes are enough to know the form of the first frame. *)
LEMMA LayoutFirst ==
  ASSUME NEW d \in Seq(Bytes), NEW b \in Nat, NEW fs \in Seq(Buffers!Form), b <= Len(fs),
         NEW off, Layout(d, b, fs, off), NEW c \in Nat, Reaches(d, b, fs, off, c), Len(d) >= 2
  PROVE  /\ b < Len(fs) /\ off[b + 1] = Buffers!Total(fs[b + 1])
         /\ \A k \in 1 .. Buffers!Total(fs[b + 1]) :
              k <= Len(d) => d[k] = [frame |-> b + 1, pos |-> k, form |-> fs[b + 1]]
         /\ d[2].form = fs[b + 1]
<1> DEFINE n == Len(fs)
           tot == Buffers!Total(fs[b + 1])
<1>0. n \in Nat /\ Len(d) \in Nat
  OBVIOUS
<1>1. /\ off[b] = 0
      /\ \A j \in (b + 1) .. n : off[j] = off[j - 1] + Buffers!Total(fs[j])
      /\ \A j \in (b + 1) .. n : \A k \in 1 .. Buffers!Total(fs[j]) :
           off[j - 1] + k <= Len(d) =>
             d[off[j - 1] + k] = [frame |-> j, pos |-> k, form |-> fs[j]]
  BY DEF Layout
<1>2. b < n
  BY <1>0, <1>1 DEF Reaches
<1>3. b + 1 \in (b + 1) .. n /\ (b + 1) - 1 = b /\ b + 1 \in 1 .. n
  BY <1>0, <1>2
<1>4. tot \in Nat /\ tot >= 2
  BY <1>3, FormSizes
<1> HIDE DEF n
<1>5. off[b + 1] = 0 + tot
  BY <1>1, <1>3
<1>6. \A k \in 1 .. tot : 0 + k <= Len(d) => d[0 + k] = [frame |-> b + 1, pos |-> k, form |-> fs[b + 1]]
  BY <1>1, <1>3
<1> HIDE DEF tot
<1>7. \A k \in 1 .. tot : k <= Len(d) => d[k] = [frame |-> b + 1, pos |-> k, form |-> fs[b + 1]]
  BY <1>4, <1>6
<1>8. d[2] = [frame |-> b + 1, pos |-> 2, form |-> fs[b + 1]]
  BY <1>4, <1>7
<1>. QED  BY <1>2, <1>4, <1>5, <1>7, <1>8 DEF n, tot

LEMMA Shifted ==
  ASSUME NEW u \in Nat, NEW h \in Nat, NEW l \in Nat, NEW k \in Nat,
         u >= h, k > 0, (u - h) + k <= l - h
  PROVE  /\ (u - h) + k \in 1 .. l - h
         /\ h + ((u - h) + k) = u + k /\ u + k <= l
OBVIOUS

(* The first frame leaves: the others move down by its size. *)
LEMMA LayoutTakes ==
  ASSUME NEW d \in Seq(Bytes), NEW b \in Nat, NEW fs \in Seq(Buffers!Form), b < Len(fs),
         NEW off, Layout(d, b, fs, off), NEW c \in Nat, Reaches(d, b, fs, off, c),
         NEW tot, tot = Buffers!Total(fs[b + 1]), tot <= Len(d), off[b + 1] = tot,
         NEW g, Drops(g, d, tot)
  PROVE  \E o : Layout(g, b + 1, fs, o) /\ Reaches(g, b + 1, fs, o, c)
<1> DEFINE n == Len(fs)
           l == Len(d)
           a == b + 1
           o == [j \in a .. n |-> off[j] - tot]
<1>1. n \in Nat /\ l \in Nat /\ b < n /\ a \in Nat /\ a <= n /\ a \in 1 .. n
  OBVIOUS
<1>2. /\ off \in [b .. n -> Nat]
      /\ \A j \in (b + 1) .. n : off[j] = off[j - 1] + Buffers!Total(fs[j])
      /\ \A j, k \in b .. n : j <= k => off[j] <= off[k]
      /\ \A j \in (b + 1) .. n : \A k \in 1 .. Buffers!Total(fs[j]) :
           off[j - 1] + k <= l => d[off[j - 1] + k] = [frame |-> j, pos |-> k, form |-> fs[j]]
  BY DEF Layout
<1>3. \A j \in 1 .. n : Buffers!Total(fs[j]) \in Nat
  BY FormSizes
<1>4. tot \in Nat /\ off[a] = tot /\ tot <= l /\ Len(g) = l - tot
  BY <1>1, <1>3 DEF Drops
<1>5. \A j \in 1 .. l - tot : g[j] = d[tot + j]
  BY DEF Drops
<1> HIDE DEF n, l, a
<1>6. \A j \in a .. n : j \in b .. n /\ a <= j /\ a \in b .. n
  BY <1>1 DEF a
<1>7. \A j \in a .. n : off[j] \in Nat /\ off[j] >= tot /\ off[j] - tot \in Nat
  <2>1. ASSUME NEW j \in a .. n PROVE off[j] \in Nat /\ off[j] >= tot
    BY <1>2, <1>4, <1>6
  <2>. QED  BY <1>4, <2>1
<1>8. o \in [a .. n -> Nat] /\ \A j \in a .. n : o[j] = off[j] - tot
  BY <1>7
<1> HIDE DEF o
<1>9. o[a] = 0
  <2>1. a \in a .. n
    BY <1>1
  <2>. QED  BY <1>4, <1>8, <2>1
<1>10. \A j \in (a + 1) .. n : j - 1 \in a .. n /\ j \in a .. n /\ j \in (b + 1) .. n /\ j \in 1 .. n
  BY <1>1 DEF a
<1>11. ASSUME NEW j \in (a + 1) .. n PROVE o[j] = o[j - 1] + Buffers!Total(fs[j])
  <2>1. off[j] = off[j - 1] + Buffers!Total(fs[j]) /\ Buffers!Total(fs[j]) \in Nat
    BY <1>2, <1>3, <1>10
  <2> DEFINE u == off[j - 1]
             y == Buffers!Total(fs[j])
  <2>2. o[j] = off[j] - tot /\ o[j - 1] = u - tot /\ u \in Nat /\ off[j] = u + y /\ y \in Nat
    BY <1>7, <1>8, <1>10, <2>1
  <2> HIDE DEF u, y
  <2>3. o[j] = (u + y) - tot
    BY <2>2
  <2>4. (u + y) - tot = (u - tot) + y
    BY <1>4, <2>2
  <2>5. o[j] = o[j - 1] + y
    BY <2>2, <2>3, <2>4
  <2>. QED  BY <2>5 DEF y
<1>12. ASSUME NEW j \in a .. n, NEW k \in a .. n, j <= k PROVE o[j] <= o[k]
  <2>1. off[j] <= off[k]
    BY <1>2, <1>6, <1>12
  <2> DEFINE u == off[j]
             y == off[k]
  <2>2. o[j] = u - tot /\ o[k] = y - tot /\ u \in Nat /\ y \in Nat /\ u <= y
    BY <1>7, <1>8, <2>1
  <2> HIDE DEF u, y
  <2>3. u - tot <= y - tot
    BY <1>4, <2>2
  <2>. QED  BY <2>2, <2>3
<1>13. ASSUME NEW j \in (a + 1) .. n, NEW k \in 1 .. Buffers!Total(fs[j]), o[j - 1] + k <= Len(g)
       PROVE  g[o[j - 1] + k] = [frame |-> j, pos |-> k, form |-> fs[j]]
  <2>1. /\ o[j - 1] = off[j - 1] - tot /\ off[j - 1] \in Nat /\ off[j - 1] >= tot
        /\ Buffers!Total(fs[j]) \in Nat
    BY <1>3, <1>7, <1>8, <1>10
  <2>2. k \in Nat /\ k > 0
    BY <2>1
  <2>3. /\ o[j - 1] + k \in 1 .. l - tot /\ tot + (o[j - 1] + k) = off[j - 1] + k
        /\ off[j - 1] + k <= l
    <3>1. off[j - 1] \in Nat /\ tot \in Nat /\ l \in Nat /\ k \in Nat /\ k > 0
      BY <1>1, <1>4, <2>1, <2>2
    <3>2. off[j - 1] >= tot /\ (off[j - 1] - tot) + k <= l - tot
      BY <1>4, <1>13, <2>1
    <3>3. /\ (off[j - 1] - tot) + k \in 1 .. l - tot
          /\ tot + ((off[j - 1] - tot) + k) = off[j - 1] + k /\ off[j - 1] + k <= l
      BY <3>1, <3>2, Shifted
    <3>. QED  BY <2>1, <3>3
  <2>4. g[o[j - 1] + k] = d[tot + (o[j - 1] + k)]
    BY <1>5, <2>3
  <2>5. d[off[j - 1] + k] = [frame |-> j, pos |-> k, form |-> fs[j]]
    BY <1>2, <1>10, <2>3
  <2>. QED  BY <2>3, <2>4, <2>5
<1>14. Layout(g, a, fs, o)
  BY <1>8, <1>9, <1>11, <1>12, <1>13 DEF Layout, n
<1>15. Reaches(g, a, fs, o, c)
  <2>1. CASE c = 0 /\ l = off[n]
    <3>1. n \in a .. n
      BY <1>1
    <3>. QED  BY <1>4, <1>8, <2>1, <3>1 DEF Reaches, n
  <2>2. CASE c > 0 /\ l = off[n - 1] + c /\ c < Buffers!Total(fs[n])
    <3>1. a < n
      <4>1. SUFFICES ASSUME a = n PROVE FALSE
        BY <1>1
      <4>2. off[n] = off[n - 1] + Buffers!Total(fs[n]) /\ n - 1 \in b .. n /\ n \in 1 .. n
        BY <1>1, <1>2, <4>1 DEF a
      <4>3. off[n - 1] \in Nat /\ Buffers!Total(fs[n]) \in Nat
        BY <1>2, <1>3, <4>2
      <4> DEFINE u == off[n - 1]
                 y == Buffers!Total(fs[n])
      <4>4. u \in Nat /\ y \in Nat /\ tot = u + y /\ l = u + c /\ c < y /\ tot <= l
        BY <1>4, <2>2, <4>1, <4>2, <4>3
      <4> HIDE DEF u, y
      <4>. QED  BY <4>4
    <3>2. n - 1 \in a .. n
      BY <1>1, <3>1
    <3>3. o[n - 1] = off[n - 1] - tot /\ off[n - 1] \in Nat
      BY <1>7, <1>8, <3>2
    <3>4. Len(g) = o[n - 1] + c
      BY <1>4, <2>2, <3>3
    <3>. QED  BY <2>2, <3>1, <3>4 DEF Reaches, n
  <2>. QED  BY <2>1, <2>2 DEF Reaches, l, n
<1>. QED  BY <1>14, <1>15 DEF a

Whole(f, j) == [k \in 1 .. f.payload |->
                  [frame |-> j, form |-> f, pos |-> f.header + f.mask + k]]

StreamInv ==
  /\ IsDynamic(recv) /\ frames \in Seq(Buffers!Form) /\ cut \in Nat
  /\ payloads \in Seq(Seq(Bytes)) /\ Len(payloads) <= Len(frames)
  /\ \A j \in 1 .. Len(payloads) : payloads[j] = Whole(frames[j], j)
  /\ \E off : /\ Layout(Buffers!data(recv), Len(payloads), frames, off)
              /\ Reaches(Buffers!data(recv), Len(payloads), frames, off, cut)

LEMMA StreamInit == Buffers!Init => StreamInv
<1> SUFFICES ASSUME Buffers!Init PROVE StreamInv
  OBVIOUS
<1>1. /\ recv = [data |-> << >>, read_pos |-> 0]
      /\ frames = << >> /\ cut = 0 /\ payloads = << >>
  BY DEF Buffers!Init
<1>2. recv.data = << >> /\ recv.read_pos = 0 /\ << >> \in Seq(Bytes) /\ Len(<< >>) = 0
  BY <1>1
<1>3. IsDynamic(recv)
  BY <1>1, <1>2 DEF IsDynamic
<1>4. Len(Buffers!data(recv)) = 0
  BY <1>2, <1>3, Unread
<1> DEFINE off == [j \in 0 .. 0 |-> 0]
<1>5. Layout(Buffers!data(recv), Len(payloads), frames, off)
  BY <1>1 DEF Layout
<1>6. Reaches(Buffers!data(recv), Len(payloads), frames, off, cut)
  BY <1>1, <1>4 DEF Reaches
<1> HIDE DEF off
<1>. QED  BY <1>1, <1>3, <1>5, <1>6 DEF StreamInv

LEMMA StreamReceive == StreamInv /\ Buffers!add_received_data => StreamInv'
<1> SUFFICES ASSUME StreamInv, Buffers!add_received_data PROVE StreamInv'
  OBVIOUS
<1> DEFINE fs == frames'
           n == Len(fs)
           f == fs[n]
           b == Len(payloads)
           d == Buffers!data(recv)
           tot == Buffers!Total(f)
<1>0. /\ IsDynamic(recv) /\ frames \in Seq(Buffers!Form) /\ cut \in Nat
      /\ payloads \in Seq(Seq(Bytes)) /\ b <= Len(frames) /\ b \in Nat /\ Len(frames) \in Nat
      /\ \A j \in 1 .. b : payloads[j] = Whole(frames[j], j)
  BY DEF StreamInv
<1>1. PICK off : Layout(d, b, frames, off) /\ Reaches(d, b, frames, off, cut)
  BY DEF StreamInv
<1>2. PICK k \in 1 .. 3 :
        /\ cut + k <= tot
        /\ recv' = Buffers!append(recv, [j \in 1 .. k |-> Buffers!Byte(f, cut + j)])
        /\ cut' = (cut + k) % tot
  BY DEF Buffers!add_received_data
<1>3. payloads' = payloads
  BY DEF Buffers!add_received_data
<1>4. d \in Seq(Bytes) /\ Len(d) \in Nat
  BY <1>0, Unread
<1> DEFINE e == [j \in 1 .. k |-> [frame |-> n, pos |-> cut + j, form |-> f]]
<1>5. recv' = Buffers!append(recv, e)
  BY <1>2 DEF Buffers!Byte
<1>6. \/ \E g \in Buffers!Form : cut = 0 /\ fs = Append(frames, g)
      \/ cut > 0 /\ fs = frames
  BY DEF Buffers!add_received_data
<1> HIDE DEF fs, d
<1>7. /\ fs \in Seq(Buffers!Form) /\ b < n
      /\ \A j \in 1 .. b : fs[j] = frames[j]
      /\ \E o : Layout(d, b, fs, o) /\ Len(d) = o[n - 1] + cut
  <2>1. ASSUME NEW g \in Buffers!Form, cut = 0, fs = Append(frames, g)
        PROVE  <1>7
    <3>1. /\ fs \in Seq(Buffers!Form) /\ n = Len(frames) + 1
          /\ \A j \in 1 .. Len(frames) : fs[j] = frames[j]
      BY <1>0, <2>1, AppendProperties
    <3>2. Len(d) = off[Len(frames)]
      BY <1>1, <2>1 DEF Reaches
    <3>3. PICK o : Layout(d, b, fs, o) /\ Len(d) = o[Len(frames)]
      <4>1. /\ Len(d) \in Nat /\ b \in Nat /\ frames \in Seq(Buffers!Form) /\ b <= Len(frames)
            /\ Layout(d, b, frames, off) /\ Len(d) = off[Len(frames)] /\ g \in Buffers!Form
        BY <1>0, <1>1, <1>4, <2>1, <3>2
      <4> HIDE DEF b
      <4>2. \E o : Layout(d, b, Append(frames, g), o) /\ Len(d) = o[Len(frames)]
        BY <4>1, LayoutBegins, Zenon
      <4>. QED  BY <2>1, <4>2
    <3>4. n - 1 = Len(frames) /\ b < n /\ Len(d) = Len(d) + cut /\ \A j \in 1 .. b : j \in 1 .. Len(frames)
      BY <1>0, <1>4, <2>1, <3>1
    <3>. QED  BY <3>1, <3>3, <3>4
  <2>2. ASSUME cut > 0, fs = frames
        PROVE  <1>7
    <3>1. b < Len(frames) /\ Len(d) = off[Len(frames) - 1] + cut
      BY <1>0, <1>1, <2>2 DEF Reaches
    <3>. QED  BY <1>0, <1>1, <2>2, <3>1
  <2>. QED  BY <1>6, <2>1, <2>2
<1>8. PICK o : Layout(d, b, fs, o) /\ Len(d) = o[n - 1] + cut
  BY <1>7
<1>9. n \in Nat /\ f \in Buffers!Form /\ n \in 1 .. n
  BY <1>0, <1>7
<1>10. tot \in Nat /\ tot >= 2 /\ k \in Nat /\ k > 0 /\ cut + k <= tot /\ cut' = (cut + k) % tot
  BY <1>2, <1>9, FormSizes
<1> HIDE DEF n, f, tot
<1>11. /\ e \in Seq(Bytes) /\ Len(e) = k
       /\ \A j \in 1 .. k : e[j] = [frame |-> n, pos |-> cut + j, form |-> f]
  <2>1. \A j \in 1 .. k : cut + j \in Nat
    BY <1>0, <1>10
  <2>2. \A j \in 1 .. k : [frame |-> n, pos |-> cut + j, form |-> f] \in Bytes
    BY <1>9, <2>1 DEF Bytes
  <2>. QED  BY <1>10, <2>2
<1> HIDE DEF e
<1>12. Layout(d \o e, b, fs, o) /\ Len(d \o e) = o[n - 1] + (cut + k)
  <2>1. /\ d \in Seq(Bytes) /\ b \in Nat /\ fs \in Seq(Buffers!Form) /\ cut \in Nat /\ k \in Nat
        /\ Layout(d, b, fs, o) /\ Len(d) = o[Len(fs) - 1] + cut /\ b < Len(fs)
    BY <1>0, <1>4, <1>7, <1>8, <1>10, <1>11 DEF n
  <2>2. Brings(e, fs, cut, k)
    BY <1>10, <1>11 DEF Brings, n, f, tot
  <2>3. Layout(d \o e, b, fs, o) /\ Len(d \o e) = o[Len(fs) - 1] + (cut + k)
    <3> HIDE DEF b
    <3>. QED  BY <2>1, <2>2, LayoutGrows
  <2>. QED  BY <2>3 DEF n
<1>13. IsDynamic(recv') /\ Buffers!data(recv') = d \o e
  BY <1>0, <1>5, <1>11, UnreadAppend DEF d
<1>14. Reaches(d \o e, b, fs, o, cut') /\ cut' \in Nat
  <2>1. CASE cut + k = tot
    <3>1. cut' = 0
      <4>1. tot % tot = 0
        BY <1>10
      <4>. QED  BY <1>10, <2>1, <4>1
    <3>2. o[n] = o[n - 1] + tot
      <4>1. n \in (b + 1) .. n
        BY <1>0, <1>7, <1>9 DEF n
      <4>. QED  BY <1>8, <4>1 DEF Layout, n, f, tot
    <3>. QED  BY <1>12, <2>1, <3>1, <3>2 DEF Reaches, n
  <2>2. CASE cut + k < tot
    <3> DEFINE x == cut + k
    <3>1. x \in Nat /\ x > 0 /\ x < tot /\ x % tot = x
      BY <1>0, <1>10, <2>2
    <3>. QED  BY <1>7, <1>10, <1>12, <3>1 DEF Reaches, n, f, tot
  <2>. QED  BY <1>0, <1>10, <2>1, <2>2
<1>15. b <= n /\ \A j \in 1 .. b : payloads[j] = Whole(fs[j], j)
  BY <1>0, <1>7, <1>9 DEF n
<1>. QED  BY <1>0, <1>3, <1>7, <1>12, <1>13, <1>14, <1>15 DEF StreamInv, fs, n

LEMMA StreamExtract == StreamInv /\ Buffers!try_extract_frame => StreamInv'
<1> SUFFICES ASSUME StreamInv, Buffers!try_extract_frame PROVE StreamInv'
  OBVIOUS
<1> DEFINE b == Len(payloads)
           d == Buffers!data(recv)
           f == frames[b + 1]
           tot == Buffers!Total(f)
           h == f.header + f.mask
<1>0. /\ IsDynamic(recv) /\ frames \in Seq(Buffers!Form) /\ cut \in Nat
      /\ payloads \in Seq(Seq(Bytes)) /\ b <= Len(frames) /\ b \in Nat /\ Len(frames) \in Nat
      /\ \A j \in 1 .. b : payloads[j] = Whole(frames[j], j)
  BY DEF StreamInv
<1>1. PICK off : Layout(d, b, frames, off) /\ Reaches(d, b, frames, off, cut)
  BY DEF StreamInv
<1>2. /\ Buffers!Extractable(d) /\ payloads' = Append(payloads, Buffers!Payload(d))
      /\ recv' = Buffers!consume(recv, Buffers!Total(d[2].form))
      /\ frames' = frames /\ cut' = cut
  BY DEF Buffers!try_extract_frame
<1>3. d \in Seq(Bytes) /\ Len(d) \in Nat
  BY <1>0, Unread
<1>4. Len(d) >= 2 /\ Len(d) >= Buffers!Total(d[2].form)
  BY <1>2 DEF Buffers!Extractable
<1>5. /\ b < Len(frames) /\ off[b + 1] = tot /\ d[2].form = f
      /\ \A k \in 1 .. tot : k <= Len(d) => d[k] = [frame |-> b + 1, pos |-> k, form |-> f]
  BY <1>0, <1>1, <1>3, <1>4, LayoutFirst
<1>6. f \in Buffers!Form /\ b + 1 \in Nat /\ b + 1 <= Len(frames)
  BY <1>0, <1>5
<1>7. /\ f.header \in Nat /\ f.mask \in Nat /\ f.payload \in Nat
      /\ tot \in Nat /\ tot = h + f.payload /\ h \in Nat
  BY <1>6, FormSizes
<1>8. /\ recv' = Buffers!consume(recv, tot) /\ tot <= Len(d)
      /\ Buffers!Payload(d) = [m \in 1 .. f.payload |->
           IF f.mask = 0 THEN d[h + m] ELSE Buffers!Unmask(d[h + m], f, m - 1)]
  BY <1>2, <1>4, <1>5 DEF Buffers!Payload
<1> HIDE DEF d, f, tot
<1>9. Buffers!Payload(d) = Whole(f, b + 1) /\ Buffers!Payload(d) \in Seq(Bytes)
  <2> DEFINE x == f.payload
             plain(m) == IF f.mask = 0 THEN d[h + m] ELSE Buffers!Unmask(d[h + m], f, m - 1)
             byte(m) == [frame |-> b + 1, form |-> f, pos |-> h + m]
  <2>1. ASSUME NEW m \in 1 .. x PROVE plain(m) = byte(m) /\ byte(m) \in Bytes
    <3>1. h + m \in 1 .. tot /\ h + m <= Len(d) /\ h + m \in Nat
      <4>1. h \in Nat /\ x \in Nat /\ tot = h + x /\ tot <= Len(d) /\ Len(d) \in Nat
        BY <1>3, <1>7, <1>8
      <4> HIDE DEF h, x
      <4>. QED  BY <4>1
    <3>2. d[h + m] = byte(m)
      BY <1>5, <3>1
    <3>3. f.header + f.mask + 1 + (m - 1) = h + m
      BY <1>7
    <3>4. Buffers!Unmask(d[h + m], f, m - 1) = d[h + m]
      BY <3>2, <3>3 DEF Buffers!Unmask
    <3>5. byte(m) \in Bytes
      BY <1>6, <3>1 DEF Bytes
    <3>. QED  BY <3>2, <3>4, <3>5
  <2>2. Buffers!Payload(d) = [m \in 1 .. x |-> plain(m)]
    BY <1>8
  <2>3. Whole(f, b + 1) = [m \in 1 .. x |-> byte(m)]
    BY DEF Whole
  <2>4. x \in Nat
    BY <1>7
  <2> HIDE DEF x, plain, byte
  <2>5. Buffers!Payload(d) = [m \in 1 .. x |-> byte(m)]
    BY <2>1, <2>2
  <2>6. [m \in 1 .. x |-> byte(m)] \in Seq(Bytes)
    BY <2>1, <2>4
  <2>. QED  BY <2>3, <2>5, <2>6
<1>10. /\ payloads' \in Seq(Seq(Bytes)) /\ Len(payloads') = b + 1
       /\ payloads'[b + 1] = Whole(f, b + 1)
       /\ \A j \in 1 .. b : payloads'[j] = payloads[j]
  BY <1>0, <1>2, <1>9, AppendProperties
<1>11. ASSUME NEW j \in 1 .. b + 1 PROVE payloads'[j] = Whole(frames[j], j)
  <2>1. CASE j = b + 1
    BY <1>10, <2>1 DEF f
  <2>2. CASE j # b + 1
    <3>1. j \in 1 .. b
      BY <1>0, <2>2
    <3>. QED  BY <1>0, <1>10, <3>1
  <2>. QED  BY <2>1, <2>2
<1> DEFINE g == Buffers!data(recv')
<1>12. IsDynamic(recv') /\ Drops(g, d, tot)
  BY <1>0, <1>7, <1>8, UnreadConsume DEF d
<1> HIDE DEF g
<1>13. \E o : Layout(g, b + 1, frames, o) /\ Reaches(g, b + 1, frames, o, cut)
  <2>1. tot = Buffers!Total(frames[b + 1]) /\ tot <= Len(d) /\ off[b + 1] = tot /\ b < Len(frames)
    BY <1>5, <1>8 DEF tot, f
  <2>2. /\ d \in Seq(Bytes) /\ b \in Nat /\ frames \in Seq(Buffers!Form) /\ cut \in Nat
        /\ Layout(d, b, frames, off) /\ Reaches(d, b, frames, off, cut)
    BY <1>0, <1>1, <1>3
  <2> HIDE DEF b
  <2>. QED  BY <1>12, <2>1, <2>2, LayoutTakes
<1>. QED  BY <1>0, <1>2, <1>6, <1>10, <1>11, <1>12, <1>13 DEF StreamInv, g

LEMMA StreamWhole == StreamInv => Buffers!FramesWhole
<1> SUFFICES ASSUME StreamInv PROVE Buffers!FramesWhole
  OBVIOUS
<1>1. DOMAIN payloads = 1 .. Len(payloads)
  BY DEF StreamInv
<1>. QED  BY <1>1 DEF StreamInv, Buffers!FramesWhole, Whole

BuffersInd == OwnedInv /\ RingInv /\ StreamInv

LEMMA BuffersInit == Buffers!Init => BuffersInd
BY OwnedInit, RingInit, StreamInit DEF BuffersInd

(* Each action moves one of the three parts. *)
LEMMA PartsRest ==
  /\ OwnedInv /\ UNCHANGED <<b_pool, held, fresh>> => OwnedInv'
  /\ RingInv /\ UNCHANGED <<send, queued, sent>> => RingInv'
  /\ StreamInv /\ UNCHANGED <<recv, frames, cut, payloads>> => StreamInv'
<1>1. OwnedInv /\ UNCHANGED <<b_pool, held, fresh>> => OwnedInv'
  BY DEF OwnedInv, IsBuffer
<1>2. RingInv /\ UNCHANGED <<send, queued, sent>> => RingInv'
  BY DEF RingInv, RingTypes, Place
<1>3. StreamInv /\ UNCHANGED <<recv, frames, cut, payloads>> => StreamInv'
  BY DEF StreamInv
<1>. QED  BY <1>1, <1>2, <1>3

LEMMA BuffersNext == BuffersInd /\ [Buffers!Next]_(Buffers!vars) => BuffersInd'
<1> SUFFICES ASSUME BuffersInd, [Buffers!Next]_(Buffers!vars) PROVE BuffersInd'
  OBVIOUS
<1> USE DEF Buffers!receiving, Buffers!sending, Buffers!pooling
<1>0. OwnedInv /\ RingInv /\ StreamInv
  BY DEF BuffersInd
<1>1. CASE UNCHANGED Buffers!vars
  BY <1>0, <1>1, PartsRest DEF BuffersInd, Buffers!vars
<1>2. CASE Buffers!add_received_data
  <2>1. UNCHANGED <<send, queued, sent>> /\ UNCHANGED <<b_pool, held, fresh>>
    BY <1>2 DEF Buffers!add_received_data
  <2>. QED  BY <1>0, <1>2, <2>1, PartsRest, StreamReceive DEF BuffersInd
<1>3. CASE Buffers!try_extract_frame
  <2>1. UNCHANGED <<send, queued, sent>> /\ UNCHANGED <<b_pool, held, fresh>>
    BY <1>3 DEF Buffers!try_extract_frame
  <2>. QED  BY <1>0, <1>3, <2>1, PartsRest, StreamExtract DEF BuffersInd
<1>4. CASE Buffers!queue_send_data
  <2>1. UNCHANGED <<recv, frames, cut, payloads>> /\ UNCHANGED <<b_pool, held, fresh>>
    BY <1>4 DEF Buffers!queue_send_data
  <2>. QED  BY <1>0, <1>4, <2>1, PartsRest, RingQueue DEF BuffersInd
<1>5. CASE Buffers!get_send_data
  <2>1. UNCHANGED <<recv, frames, cut, payloads>> /\ UNCHANGED <<b_pool, held, fresh>>
    BY <1>5 DEF Buffers!get_send_data
  <2>. QED  BY <1>0, <1>5, <2>1, PartsRest, RingGet DEF BuffersInd
<1>6. CASE Buffers!clear
  <2>1. UNCHANGED <<recv, frames, cut, payloads>> /\ UNCHANGED <<b_pool, held, fresh>>
    BY <1>6 DEF Buffers!clear
  <2>. QED  BY <1>0, <1>6, <2>1, PartsRest, RingClear DEF BuffersInd
<1>7. CASE Buffers!acquire
  <2>1. UNCHANGED <<recv, frames, cut, payloads>> /\ UNCHANGED <<send, queued, sent>>
    BY <1>7 DEF Buffers!acquire
  <2>. QED  BY <1>0, <1>7, <2>1, PartsRest, BufferAcquire DEF BuffersInd
<1>8. CASE Buffers!as_mut_slice
  <2>1. UNCHANGED <<recv, frames, cut, payloads>> /\ UNCHANGED <<send, queued, sent>>
    BY <1>8 DEF Buffers!as_mut_slice
  <2>. QED  BY <1>0, <1>8, <2>1, PartsRest, BufferWrite DEF BuffersInd
<1>9. CASE Buffers!drop
  <2>1. UNCHANGED <<recv, frames, cut, payloads>> /\ UNCHANGED <<send, queued, sent>>
    BY <1>9 DEF Buffers!drop
  <2>. QED  BY <1>0, <1>9, <2>1, PartsRest, BufferDrop DEF BuffersInd
<1>. QED  BY <1>1, <1>2, <1>3, <1>4, <1>5, <1>6, <1>7, <1>8, <1>9 DEF Buffers!Next

LEMMA BuffersRuns == [WebSocketNext]_websocket => [Buffers!Next]_(Buffers!vars)
BY DEF WebSocketNext, websocket, Only, Buffers_vars, Buffers!vars

(* However the stream is cut into reads and whenever the buffer is          *)
(* compacted, frames come out whole and in order; the circular buffer of    *)
(* any capacity gives the accepted bytes back in order; and a pooled buffer *)
(* has one owner and no trace of the last.                                  *)
THEOREM BuffersAreFaithful == WebSocketSpec => []BuffersFaithful
<1>1. WebSocketInit => BuffersInd
  BY BuffersInit DEF WebSocketInit
<1>2. BuffersInd /\ [WebSocketNext]_websocket => BuffersInd'
  BY BuffersNext, BuffersRuns
<1>3. BuffersInd => BuffersFaithful
  BY OwnedClean, RingOrder, StreamWhole DEF BuffersInd, BuffersFaithful
<1>. QED  BY <1>1, <1>2, <1>3, PTL DEF WebSocketSpec

-----------------------------------------------------------------------------
(* WsHeartbeat.  Until the network is cut, the pong an end waits for is on  *)
(* its way and comes before the next tick; after the cut, no pong comes,    *)
(* and the ticks are counted.                                               *)
Mail == {"ping", "pong"} \X Nat

Other(e) == IF e = "server" THEN "client" ELSE "server"
Every(e) == IF e = "server" THEN PING_INTERVAL ELSE client_interval

LEMMA HeartEnds ==
  /\ Heartbeat!End = {"server", "client"}
  /\ \A e \in {"server", "client"} :
       /\ Other(e) \in {"server", "client"} /\ Other(e) # e /\ Other(Other(e)) = e
       /\ Heartbeat!Peer(e) = Other(e) /\ Heartbeat!Interval(e) = Every(e)
       /\ Every(e) \in Nat /\ 2 * Delay + Lag < Every(e)
<1>1. Heartbeat!End = {"server", "client"}
  BY DEF Heartbeat!End
<1>2. "server" # "client"
  OBVIOUS
<1>. QED  BY <1>1, <1>2, HeartbeatAssumption
       DEF Other, Every, Heartbeat!Peer, Heartbeat!Interval

(* A message of kind m and of age n or more is in s. *)
Has(s, m, n) == \E k \in 1 .. Len(s) : s[k][1] = m /\ s[k][2] >= n

LEMMA HasMore ==
  ASSUME NEW s \in Seq(Mail), NEW x \in {"ping", "pong"}
  PROVE  /\ Append(s, <<x, 0>>) \in Seq(Mail)
         /\ \A m : \A n \in Int : Has(s, m, n) => Has(Append(s, <<x, 0>>), m, n)
         /\ \A n \in Int : n <= 0 => Has(Append(s, <<x, 0>>), x, n)
         /\ \A k \in 1 .. Len(Append(s, <<x, 0>>)) :
              \/ k \in 1 .. Len(s) /\ Append(s, <<x, 0>>)[k] = s[k]
              \/ Append(s, <<x, 0>>)[k] = <<x, 0>>
<1> DEFINE t == Append(s, <<x, 0>>)
           l == Len(s)
<1>1. <<x, 0>> \in Mail
  BY DEF Mail
<1>2. /\ t \in Seq(Mail) /\ Len(t) = l + 1 /\ t[l + 1] = <<x, 0>>
      /\ \A k \in 1 .. l : t[k] = s[k]
  BY <1>1, AppendProperties
<1>3. l \in Nat
  OBVIOUS
<1> HIDE DEF t, l
<1>4. l + 1 \in 1 .. l + 1 /\ \A k \in 1 .. l : k \in 1 .. l + 1
  BY <1>3
<1>5. \A m : \A n \in Int : Has(s, m, n) => Has(t, m, n)
  BY <1>2, <1>4 DEF Has, l
<1>6. \A n \in Int : n <= 0 => Has(t, x, n)
  <2>1. t[l + 1][1] = x /\ t[l + 1][2] = 0
    BY <1>2
  <2>2. \A n \in Int : n <= 0 => 0 >= n
    OBVIOUS
  <2>. QED  BY <1>2, <1>4, <2>1, <2>2 DEF Has
<1>7. \A k \in 1 .. l + 1 : k \in 1 .. l \/ k = l + 1
  BY <1>3
<1>. QED  BY <1>2, <1>5, <1>6, <1>7 DEF t, l

LEMMA HasRest ==
  ASSUME NEW s \in Seq(Mail), s # << >>
  PROVE  /\ Head(s) \in Mail /\ Tail(s) \in Seq(Mail) /\ 1 \in 1 .. Len(s) /\ Head(s) = s[1]
         /\ \A m : \A n \in Int : Has(s, m, n) =>
              Has(Tail(s), m, n) \/ (Head(s)[1] = m /\ Head(s)[2] >= n)
         /\ \A k \in 1 .. Len(Tail(s)) : k + 1 \in 1 .. Len(s) /\ Tail(s)[k] = s[k + 1]
<1> DEFINE t == Tail(s)
           l == Len(s)
<1>1. /\ Head(s) = s[1] /\ Head(s) \in Mail /\ t \in Seq(Mail) /\ Len(t) = l - 1 /\ l \in Nat
      /\ l > 0 /\ \A k \in 1 .. l - 1 : t[k] = s[k + 1]
  OBVIOUS
<1> HIDE DEF t, l
<1>2. \A k \in 1 .. l : k = 1 \/ (k - 1 \in 1 .. l - 1 /\ t[k - 1] = s[k])
  <2>1. \A k \in 1 .. l : k = 1 \/ (k - 1 \in 1 .. l - 1 /\ (k - 1) + 1 = k)
    BY <1>1
  <2>. QED  BY <1>1, <2>1
<1>3. \A m : \A n \in Int : Has(s, m, n) => Has(t, m, n) \/ (Head(s)[1] = m /\ Head(s)[2] >= n)
  BY <1>1, <1>2 DEF Has, l
<1>4. \A k \in 1 .. l - 1 : k + 1 \in 1 .. l
  BY <1>1
<1>. QED  BY <1>1, <1>3, <1>4 DEF t, l

LEMMA HasOlder ==
  ASSUME NEW s \in Seq(Mail),
         NEW t, t = [k \in DOMAIN s |-> <<s[k][1], s[k][2] + 1>>]
  PROVE  /\ t \in Seq(Mail) /\ Len(t) = Len(s)
         /\ \A k \in 1 .. Len(s) : t[k][2] = s[k][2] + 1 /\ t[k][1] = s[k][1] /\ s[k][2] \in Nat
         /\ \A m : \A n \in Int : Has(s, m, n) => Has(t, m, n + 1)
<1>1. DOMAIN s = 1 .. Len(s) /\ Len(s) \in Nat
  OBVIOUS
<1>2. \A k \in 1 .. Len(s) : s[k] \in Mail
  OBVIOUS
<1>3. \A k \in 1 .. Len(s) : s[k][1] \in {"ping", "pong"} /\ s[k][2] \in Nat
  BY <1>2 DEF Mail
<1>4. \A k \in 1 .. Len(s) : <<s[k][1], s[k][2] + 1>> \in Mail
  BY <1>3 DEF Mail
<1>5. t \in Seq(Mail) /\ Len(t) = Len(s)
  BY <1>1, <1>4
<1>6. \A k \in 1 .. Len(s) : t[k] = <<s[k][1], s[k][2] + 1>>
  BY <1>1
<1>7. \A k \in 1 .. Len(s) : t[k][1] = s[k][1] /\ t[k][2] = s[k][2] + 1
  BY <1>6
<1>8. ASSUME NEW m, NEW n \in Int, Has(s, m, n) PROVE Has(t, m, n + 1)
  <2>1. PICK k \in 1 .. Len(s) : s[k][1] = m /\ s[k][2] >= n
    BY <1>8 DEF Has
  <2>2. s[k][2] + 1 >= n + 1
    BY <1>3, <2>1
  <2>3. t[k][1] = m /\ t[k][2] >= n + 1
    BY <1>7, <2>1, <2>2
  <2>. QED  BY <1>5, <2>3 DEF Has
<1>. QED  BY <1>3, <1>5, <1>7, <1>8

TwoEnds == {"server", "client"}

(* The pong that e waits for is on its way, or its ping is: the ping has    *)
(* travelled no longer than since it was due.                               *)
Awaits(e) ==
  \/ Has(wire[Other(e)], "ping", Every(e) - Lag - due[e])
  \/ Has(wire[e], "pong", Every(e) - Lag - Delay - due[e])

HeartTypes ==
  /\ open \subseteq TwoEnds /\ severed \in Nat \cup {-1}
  /\ since_pong \in [TwoEnds -> Nat] /\ due \in [TwoEnds -> Int]
  /\ wire \in [TwoEnds -> Seq(Mail)]
  /\ \A e \in open : due[e] >= -Lag /\ due[e] <= Every(e)

Calm ==
  /\ open = TwoEnds /\ gave_up = {}
  /\ \A e \in TwoEnds : \A k \in 1 .. Len(wire[e]) : wire[e][k][2] <= Delay
  /\ waiting_for_pong => Awaits("server")
  /\ since_pong["client"] + due["client"] <= client_interval \/ Awaits("client")

Silent ==
  /\ \A e \in TwoEnds : wire[e] = << >>
  /\ "server" \in open =>
       \/ severed + due["server"] <= PING_INTERVAL
       \/ /\ severed + due["server"] <= 2 * PING_INTERVAL /\ waiting_for_pong
          /\ \/ since_pong["server"] > PONG_TIMEOUT
             \/ since_pong["server"] + due["server"] >= PING_INTERVAL - Lag
  /\ "client" \in open =>
       /\ severed + due["client"] <= client_limit + client_interval
       /\ since_pong["client"] > client_limit \/ since_pong["client"] >= severed

HeartInv == HeartTypes /\ (severed = -1 => Calm) /\ (severed # -1 => Silent)

LEMMA EndFacts ==
  /\ Heartbeat!End = TwoEnds
  /\ \A e \in TwoEnds :
       /\ Other(e) \in TwoEnds /\ Other(e) # e /\ Other(Other(e)) = e
       /\ Heartbeat!Peer(e) = Other(e) /\ Heartbeat!Interval(e) = Every(e)
       /\ Every(e) \in Nat /\ 2 * Delay + Lag < Every(e)
  /\ "server" \in TwoEnds /\ "client" \in TwoEnds /\ "server" # "client"
  /\ Every("server") = PING_INTERVAL /\ Every("client") = client_interval
  /\ Other("server") = "client" /\ Other("client") = "server"
  /\ Delay \in Nat /\ Lag \in Nat
BY HeartEnds, HeartbeatAssumption DEF TwoEnds, Every, Other

LEMMA HeartInit == Heartbeat!Init => HeartInv
<1> SUFFICES ASSUME Heartbeat!Init PROVE HeartInv
  OBVIOUS
<1>1. /\ open = TwoEnds /\ gave_up = {} /\ waiting_for_pong = FALSE
      /\ since_pong = [e \in TwoEnds |-> 0]
      /\ due = [server |-> PING_INTERVAL, client |-> 0]
      /\ wire = [e \in TwoEnds |-> << >>] /\ severed = -1
  BY EndFacts DEF Heartbeat!Init
<1>2. /\ due \in [TwoEnds -> Int] /\ due["server"] = PING_INTERVAL /\ due["client"] = 0
  <2>1. due = [e \in {"server", "client"} |-> IF e = "server" THEN PING_INTERVAL ELSE 0]
    BY <1>1
  <2>. QED  BY <2>1, HeartbeatAssumption DEF TwoEnds
<1>3. wire \in [TwoEnds -> Seq(Mail)] /\ \A e \in TwoEnds : wire[e] = << >> /\ Len(wire[e]) = 0
  BY <1>1
<1>4. \A e \in TwoEnds : due[e] >= -Lag /\ due[e] <= Every(e)
  <2>1. \A e \in TwoEnds : e = "server" \/ e = "client"
    BY DEF TwoEnds
  <2>2. PING_INTERVAL >= -Lag /\ 0 >= -Lag /\ 0 <= client_interval /\ PING_INTERVAL <= PING_INTERVAL
    BY HeartbeatAssumption
  <2>. QED  BY <1>2, <2>1, <2>2, EndFacts
<1>5. HeartTypes
  BY <1>1, <1>2, <1>3, <1>4 DEF HeartTypes
<1>6. since_pong["client"] + due["client"] <= client_interval
  <2>1. since_pong["client"] = 0
    BY <1>1, EndFacts
  <2>. QED  BY <1>2, <2>1, HeartbeatAssumption
<1>7. Calm
  BY <1>1, <1>3, <1>6 DEF Calm
<1>. QED  BY <1>1, <1>5, <1>7 DEF HeartInv

(* Between the ends: what a step takes from one wire and puts on the other. *)
LEMMA Posted ==
  ASSUME HeartTypes, NEW e \in TwoEnds, NEW s, NEW ms, Heartbeat!Wires(e, s, ms)
  PROVE  /\ wire' = [x \in TwoEnds |-> wire'[x]]
         /\ wire'[e] = s
         /\ wire'[Other(e)] = IF severed = -1 /\ Other(e) \in open
                              THEN wire[Other(e)] \o [k \in DOMAIN ms |-> <<ms[k], 0>>]
                              ELSE wire[Other(e)]
<1> DEFINE f == Other(e)
           v == IF severed = -1 /\ f \in open
                THEN wire[f] \o [k \in DOMAIN ms |-> <<ms[k], 0>>] ELSE wire[f]
<1>1. f \in TwoEnds /\ f # e /\ Heartbeat!Peer(e) = f /\ TwoEnds = {e, f}
  BY EndFacts DEF TwoEnds
<1>2. wire' = [wire EXCEPT ![e] = s, ![f] = v]
  BY <1>1 DEF Heartbeat!Wires
<1>3. DOMAIN wire = TwoEnds
  BY DEF HeartTypes
<1> HIDE DEF f, v
<1>4. wire' = [[wire EXCEPT ![e] = s] EXCEPT ![f] = v]
  BY <1>2
<1> DEFINE u == [wire EXCEPT ![e] = s]
<1>5. DOMAIN u = TwoEnds /\ u[e] = s
  BY <1>3
<1>6. wire' = [u EXCEPT ![f] = v]
  BY <1>4
<1> HIDE DEF u
<1>7. DOMAIN wire' = TwoEnds /\ wire'[f] = v /\ wire'[e] = s
  BY <1>1, <1>5, <1>6
<1>8. wire' = [x \in TwoEnds |-> wire'[x]]
  BY <1>1, <1>5, <1>6
<1>. QED  BY <1>7, <1>8 DEF f, v

LEMMA NoneOverdue ==
  ASSUME HeartTypes, Calm, NEW e \in TwoEnds, due[e] <= 0
  PROVE  ~Awaits(e) /\ ~Heartbeat!Overdue(e)
<1>0. /\ due[e] \in Int /\ Every(e) \in Nat /\ 2 * Delay + Lag < Every(e) /\ Delay \in Nat /\ Lag \in Nat
      /\ Other(e) \in TwoEnds
  BY EndFacts DEF HeartTypes
<1>1. \A x \in TwoEnds : \A k \in 1 .. Len(wire[x]) : wire[x][k][2] \in Nat /\ wire[x][k][2] <= Delay
  <2>1. ASSUME NEW x \in TwoEnds, NEW k \in 1 .. Len(wire[x]) PROVE wire[x][k][2] \in Nat
    <3>1. wire[x] \in Seq(Mail)
      BY DEF HeartTypes
    <3>2. wire[x][k] \in Mail
      BY <3>1
    <3>. QED  BY <3>2 DEF Mail
  <2>. QED  BY <2>1 DEF Calm
<1>2. ~Has(wire[Other(e)], "ping", Every(e) - Lag - due[e])
  <2> DEFINE n == Every(e) - Lag - due[e]
  <2>1. n \in Int /\ n > Delay
    BY <1>0
  <2> HIDE DEF n
  <2>2. ~Has(wire[Other(e)], "ping", n)
    BY <1>0, <1>1, <2>1 DEF Has
  <2>. QED  BY <2>2 DEF n
<1>3. ~Has(wire[e], "pong", Every(e) - Lag - Delay - due[e])
  <2> DEFINE n == Every(e) - Lag - Delay - due[e]
  <2>1. n \in Int /\ n > Delay
    BY <1>0
  <2> HIDE DEF n
  <2>2. ~Has(wire[e], "pong", n)
    BY <1>0, <1>1, <2>1 DEF Has
  <2>. QED  BY <2>2 DEF n
<1>4. ~Awaits(e)
  BY <1>2, <1>3 DEF Awaits
<1>5. CASE e = "server"
  <2>1. ~waiting_for_pong
    BY <1>4, <1>5 DEF Calm
  <2>. QED  BY <1>4, <1>5, <2>1 DEF Heartbeat!Overdue
<1>6. CASE e = "client"
  <2>1. since_pong["client"] + due["client"] <= client_interval
    BY <1>4, <1>6 DEF Calm
  <2>2. since_pong["client"] \in Nat /\ due["client"] >= -Lag /\ due["client"] \in Int
    BY <1>6, EndFacts DEF HeartTypes, Calm
  <2>3. ~(since_pong["client"] > client_limit)
    BY <2>1, <2>2, HeartbeatAssumption
  <2>4. Heartbeat!Limit(e) = client_limit
    BY <1>6 DEF Heartbeat!Limit
  <2>. QED  BY <1>4, <1>6, <2>3, <2>4 DEF Heartbeat!Overdue
<1>. QED  BY <1>5, <1>6 DEF TwoEnds

(* What Wires writes: nothing, or one message. *)
LEMMA WrittenNone ==
  ASSUME NEW s \in Seq(Mail), NEW ms, ms = << >>
  PROVE  s \o [k \in DOMAIN ms |-> <<ms[k], 0>>] = s
<1> DEFINE t == [k \in DOMAIN ms |-> <<ms[k], 0>>]
<1>1. t = << >>
  <2>1. ms \in Seq(Mail) /\ Len(ms) = 0
    OBVIOUS
  <2>3. DOMAIN ms = 1 .. 0
    BY <2>1
  <2>2. t \in Seq(Mail) /\ Len(t) = 0
    BY <2>3
  <2>. QED  BY <2>2, EmptySeq
<1>2. s \o << >> = s
  BY ConcatEmptySeq
<1>. QED  BY <1>1, <1>2

LEMMA WrittenOne ==
  ASSUME NEW s \in Seq(Mail), NEW x \in {"ping", "pong"}, NEW ms, ms = <<x>>
  PROVE  s \o [k \in DOMAIN ms |-> <<ms[k], 0>>] = Append(s, <<x, 0>>)
<1> DEFINE t == [k \in DOMAIN ms |-> <<ms[k], 0>>]
<1>1. DOMAIN ms = 1 .. 1 /\ ms[1] = x
  OBVIOUS
<1>2. t = <<<<x, 0>>>>
  BY <1>1
<1>3. <<x, 0>> \in Mail
  BY DEF Mail
<1> HIDE DEF t
<1>4. s \o <<<<x, 0>>>> = Append(s, <<x, 0>>)
  BY <1>3
<1>. QED  BY <1>2, <1>4 DEF t

LEMMA PostedNone ==
  ASSUME HeartTypes, NEW e \in TwoEnds, NEW s, Heartbeat!Wires(e, s, << >>)
  PROVE  wire' = [x \in TwoEnds |-> wire'[x]] /\ wire'[e] = s /\ wire'[Other(e)] = wire[Other(e)]
<1> DEFINE ms == << >>
<1>1. /\ wire' = [x \in TwoEnds |-> wire'[x]] /\ wire'[e] = s
      /\ wire'[Other(e)] = IF severed = -1 /\ Other(e) \in open
                            THEN wire[Other(e)] \o [k \in DOMAIN ms |-> <<ms[k], 0>>]
                            ELSE wire[Other(e)]
  <2> HIDE DEF ms
  <2>1. Heartbeat!Wires(e, s, ms)
    BY DEF ms
  <2>. QED  BY <2>1, Posted
<1>2. wire[Other(e)] \in Seq(Mail)
  BY EndFacts DEF HeartTypes
<1>3. wire[Other(e)] \o [k \in DOMAIN ms |-> <<ms[k], 0>>] = wire[Other(e)]
  <2>1. ms = << >>
    OBVIOUS
  <2> HIDE DEF ms
  <2>. QED  BY <1>2, <2>1, WrittenNone
<1> HIDE DEF ms
<1>. QED  BY <1>1, <1>3

LEMMA PostedOne ==
  ASSUME HeartTypes, severed = -1, NEW e \in TwoEnds, Other(e) \in open, NEW s,
         NEW m \in {"ping", "pong"}, Heartbeat!Wires(e, s, <<m>>)
  PROVE  /\ wire' = [x \in TwoEnds |-> wire'[x]] /\ wire'[e] = s
         /\ wire'[Other(e)] = Append(wire[Other(e)], <<m, 0>>)
<1> DEFINE ms == <<m>>
<1>1. /\ wire' = [x \in TwoEnds |-> wire'[x]] /\ wire'[e] = s
      /\ wire'[Other(e)] = IF severed = -1 /\ Other(e) \in open
                            THEN wire[Other(e)] \o [k \in DOMAIN ms |-> <<ms[k], 0>>]
                            ELSE wire[Other(e)]
  <2> HIDE DEF ms
  <2>1. Heartbeat!Wires(e, s, ms)
    BY DEF ms
  <2>. QED  BY <2>1, Posted
<1>2. wire[Other(e)] \in Seq(Mail)
  BY EndFacts DEF HeartTypes
<1>3. wire[Other(e)] \o [k \in DOMAIN ms |-> <<ms[k], 0>>] = Append(wire[Other(e)], <<m, 0>>)
  <2>1. ms = <<m>>
    OBVIOUS
  <2> HIDE DEF ms
  <2>. QED  BY <1>2, <2>1, WrittenOne
<1> HIDE DEF ms
<1>. QED  BY <1>1, <1>3

(* A pong that is awaited stays so when the wires keep their messages. *)
LEMMA StillAwaits ==
  ASSUME HeartTypes, NEW e \in TwoEnds, Awaits(e), due'[e] = due[e],
         \A n \in Int : Has(wire[Other(e)], "ping", n) => Has(wire'[Other(e)], "ping", n),
         \A n \in Int : Has(wire[e], "pong", n) => Has(wire'[e], "pong", n)
  PROVE  Awaits(e)'
<1>0. Every(e) \in Nat /\ Lag \in Nat /\ Delay \in Nat
  BY EndFacts
<1>1. due[e] \in Int
  BY DEF HeartTypes
<1>2. Every(e) - Lag - due[e] \in Int /\ Every(e) - Lag - Delay - due[e] \in Int
  BY <1>0, <1>1
<1>. QED  BY <1>2 DEF Awaits

LEMMA HeartTime == ASSUME HeartInv, Heartbeat!Time PROVE HeartInv'
<1>1. /\ \A e \in open : due[e] > -Lag /\ \A k \in DOMAIN wire[e] : wire[e][k][2] < Delay
      /\ due' = [e \in TwoEnds |-> IF e \in open THEN due[e] - 1 ELSE due[e]]
      /\ since_pong' = [e \in TwoEnds |-> IF since_pong[e] > Heartbeat!Limit(e) THEN since_pong[e]
                                                                        ELSE since_pong[e] + 1]
      /\ wire' = [e \in TwoEnds |-> [k \in DOMAIN wire[e] |-> <<wire[e][k][1], wire[e][k][2] + 1>>]]
      /\ severed' = IF severed = -1 THEN -1 ELSE severed + 1
      /\ open' = open /\ gave_up' = gave_up /\ waiting_for_pong' = waiting_for_pong
  BY EndFacts DEF Heartbeat!Time
<1>2. HeartTypes
  BY DEF HeartInv
<1>3. \A e \in TwoEnds : /\ due[e] \in Int /\ since_pong[e] \in Nat /\ wire[e] \in Seq(Mail)
                         /\ Every(e) \in Nat /\ Other(e) \in TwoEnds
  BY <1>2, EndFacts DEF HeartTypes
<1>4. \A e \in TwoEnds : /\ due'[e] = IF e \in open THEN due[e] - 1 ELSE due[e]
                         /\ since_pong'[e] = IF since_pong[e] > Heartbeat!Limit(e) THEN since_pong[e]
                                                                        ELSE since_pong[e] + 1
  BY <1>1
<1>5. \A e \in TwoEnds : /\ wire'[e] \in Seq(Mail) /\ Len(wire'[e]) = Len(wire[e])
                         /\ \A k \in 1 .. Len(wire[e]) : /\ wire'[e][k][2] = wire[e][k][2] + 1
                                                         /\ wire'[e][k][1] = wire[e][k][1]
                                                         /\ wire[e][k][2] \in Nat
                         /\ \A m : \A n \in Int : Has(wire[e], m, n) => Has(wire'[e], m, n + 1)
  <2> SUFFICES ASSUME NEW e \in TwoEnds
               PROVE  /\ wire'[e] \in Seq(Mail) /\ Len(wire'[e]) = Len(wire[e])
                      /\ \A k \in 1 .. Len(wire[e]) : /\ wire'[e][k][2] = wire[e][k][2] + 1
                                                      /\ wire'[e][k][1] = wire[e][k][1]
                                                      /\ wire[e][k][2] \in Nat
                      /\ \A m : \A n \in Int : Has(wire[e], m, n) => Has(wire'[e], m, n + 1)
    OBVIOUS
  <2> DEFINE u == wire[e]
             v == wire'[e]
  <2>1. v = [k \in DOMAIN u |-> <<u[k][1], u[k][2] + 1>>]
    BY <1>1
  <2>2. u \in Seq(Mail)
    BY <1>3
  <2> HIDE DEF u, v
  <2>3. /\ v \in Seq(Mail) /\ Len(v) = Len(u)
        /\ \A k \in 1 .. Len(u) : v[k][2] = u[k][2] + 1 /\ v[k][1] = u[k][1] /\ u[k][2] \in Nat
        /\ \A m : \A n \in Int : Has(u, m, n) => Has(v, m, n + 1)
    BY <2>1, <2>2, HasOlder
  <2>. QED  BY <2>3 DEF u, v
<1>6. HeartTypes'
  <2>1. due' \in [TwoEnds -> Int] /\ since_pong' \in [TwoEnds -> Nat]
    BY <1>1, <1>3
  <2>2. wire' \in [TwoEnds -> Seq(Mail)]
    BY <1>1, <1>5
  <2>3. \A e \in open : due'[e] >= -Lag /\ due'[e] <= Every(e)
    <3>1. ASSUME NEW e \in open PROVE due'[e] >= -Lag /\ due'[e] <= Every(e)
      <4>1. e \in TwoEnds /\ due[e] > -Lag /\ due[e] <= Every(e) /\ Lag \in Nat
        BY <1>1, <1>2, HeartbeatAssumption DEF HeartTypes
      <4>2. due'[e] = due[e] - 1 /\ due[e] \in Int /\ Every(e) \in Nat
        BY <1>3, <1>4, <4>1
      <4>. QED  BY <4>1, <4>2
    <3>. QED  BY <3>1
  <2>4. open \subseteq TwoEnds /\ severed' \in Nat \cup {-1}
    BY <1>1, <1>2 DEF HeartTypes
  <2>. QED  BY <1>1, <2>1, <2>2, <2>3, <2>4 DEF HeartTypes
<1>7. CASE severed = -1
  <2>1. Calm /\ severed' = -1
    BY <1>1, <1>7 DEF HeartInv
  <2>2. open = TwoEnds /\ open' = TwoEnds /\ gave_up' = {}
    BY <1>1, <2>1 DEF Calm
  <2>3. \A e \in TwoEnds : \A k \in 1 .. Len(wire'[e]) : wire'[e][k][2] <= Delay
    <3>1. ASSUME NEW e \in TwoEnds, NEW k \in 1 .. Len(wire[e]) PROVE wire[e][k][2] < Delay
      <4>1. DOMAIN wire[e] = 1 .. Len(wire[e])
        BY <1>3
      <4>. QED  BY <1>1, <2>2, <4>1
    <3>2. ASSUME NEW e \in TwoEnds, NEW k, k \in 1 .. Len(wire[e])
          PROVE  wire'[e][k][2] <= Delay
      <4>1. wire'[e][k][2] = wire[e][k][2] + 1 /\ wire[e][k][2] \in Nat /\ wire[e][k][2] < Delay
        BY <1>5, <3>1, <3>2
      <4>. QED  BY <4>1, HeartbeatAssumption
    <3>3. \A e \in TwoEnds : 1 .. Len(wire'[e]) = 1 .. Len(wire[e])
      BY <1>5
    <3>. QED  BY <3>2, <3>3
  <2>4. ASSUME NEW e \in TwoEnds, Awaits(e) PROVE Awaits(e)'
    <3> DEFINE n == Every(e) - Lag - due[e]
               o == Every(e) - Lag - Delay - due[e]
    <3>1. n \in Int /\ o \in Int
      BY <1>3, EndFacts
    <3>2. Every(e) - Lag - due'[e] = n + 1 /\ Every(e) - Lag - Delay - due'[e] = o + 1
      BY <1>3, <1>4, <2>2, EndFacts
    <3>3. Has(wire[Other(e)], "ping", n) \/ Has(wire[e], "pong", o)
      BY <2>4 DEF Awaits
    <3> HIDE DEF n, o
    <3>4. Has(wire'[Other(e)], "ping", n + 1) \/ Has(wire'[e], "pong", o + 1)
      BY <1>3, <1>5, <3>1, <3>3
    <3>. QED  BY <3>2, <3>4 DEF Awaits
  <2>5. since_pong["client"] + due["client"] <= client_interval =>
          since_pong'["client"] + due'["client"] <= client_interval
    <3>1. "client" \in TwoEnds
      BY EndFacts
    <3>. QED  BY <1>3, <1>4, <2>2, <3>1, HeartbeatAssumption
  <2>6. Calm'
    <3>1. waiting_for_pong' => Awaits("server")'
      BY <1>1, <2>1, <2>4, EndFacts DEF Calm
    <3>2. since_pong'["client"] + due'["client"] <= client_interval \/ Awaits("client")'
      BY <2>1, <2>4, <2>5, EndFacts DEF Calm
    <3>. QED  BY <2>2, <2>3, <3>1, <3>2 DEF Calm
  <2>. QED  BY <1>6, <2>1, <2>6 DEF HeartInv
<1>8. CASE severed # -1
  <2>1. Silent /\ severed \in Nat /\ severed' = severed + 1 /\ severed' # -1
    BY <1>1, <1>2, <1>8 DEF HeartInv, HeartTypes
  <2>2. \A e \in TwoEnds : wire'[e] = << >>
    <3>1. \A e \in TwoEnds : wire[e] = << >>
      BY <2>1 DEF Silent
    <3>2. \A e \in TwoEnds : wire'[e] \in Seq(Mail) /\ Len(wire'[e]) = 0
      BY <1>5, <3>1
    <3>. QED  BY <3>2, EmptySeq
  <2>3. ASSUME "server" \in open
        PROVE  \/ severed' + due'["server"] <= PING_INTERVAL
               \/ /\ severed' + due'["server"] <= 2 * PING_INTERVAL /\ waiting_for_pong'
                  /\ \/ since_pong'["server"] > PONG_TIMEOUT
                     \/ since_pong'["server"] + due'["server"] >= PING_INTERVAL - Lag
    <3> DEFINE d == due["server"]
               p == since_pong["server"]
    <3>1. /\ due'["server"] = d - 1 /\ d \in Int /\ p \in Nat
          /\ since_pong'["server"] = IF p > PONG_TIMEOUT THEN p ELSE p + 1
      BY <1>3, <1>4, <2>3, EndFacts DEF Heartbeat!Limit
    <3>2. \/ severed + d <= PING_INTERVAL
          \/ /\ severed + d <= 2 * PING_INTERVAL /\ waiting_for_pong
             /\ p > PONG_TIMEOUT \/ p + d >= PING_INTERVAL - Lag
      BY <2>1, <2>3 DEF Silent
    <3> HIDE DEF d, p
    <3>3. severed' + due'["server"] = severed + d
      BY <2>1, <3>1
    <3>4. p > PONG_TIMEOUT \/ p + d >= PING_INTERVAL - Lag =>
            \/ since_pong'["server"] > PONG_TIMEOUT
            \/ since_pong'["server"] + due'["server"] >= PING_INTERVAL - Lag
      BY <3>1, HeartbeatAssumption
    <3>. QED  BY <1>1, <3>2, <3>3, <3>4
  <2>4. ASSUME "client" \in open
        PROVE  /\ severed' + due'["client"] <= client_limit + client_interval
               /\ since_pong'["client"] > client_limit \/ since_pong'["client"] >= severed'
    <3> DEFINE d == due["client"]
               p == since_pong["client"]
    <3>1. /\ due'["client"] = d - 1 /\ d \in Int /\ p \in Nat
          /\ since_pong'["client"] = IF p > client_limit THEN p ELSE p + 1
      BY <1>3, <1>4, <2>4, EndFacts DEF Heartbeat!Limit
    <3>2. severed + d <= client_limit + client_interval /\ (p > client_limit \/ p >= severed)
      BY <2>1, <2>4 DEF Silent
    <3> HIDE DEF d, p
    <3>3. severed' + due'["client"] = severed + d
      BY <2>1, <3>1
    <3>4. since_pong'["client"] > client_limit \/ since_pong'["client"] >= severed'
      BY <2>1, <3>1, <3>2, HeartbeatAssumption
    <3>. QED  BY <3>2, <3>3, <3>4
  <2>5. Silent'
    BY <1>1, <2>2, <2>3, <2>4 DEF Silent
  <2>. QED  BY <1>6, <2>1, <2>5 DEF HeartInv
<1>. QED  BY <1>7, <1>8

LEMMA HeartCut == ASSUME HeartInv, Heartbeat!Cut PROVE HeartInv'
<1>1. /\ severed' = 0 /\ wire' = [e \in TwoEnds |-> << >>] /\ open' = open
      /\ waiting_for_pong' = waiting_for_pong /\ since_pong' = since_pong /\ due' = due
  BY EndFacts DEF Heartbeat!Cut
<1>2. HeartTypes
  BY DEF HeartInv
<1>3. wire' \in [TwoEnds -> Seq(Mail)] /\ \A e \in TwoEnds : wire'[e] = << >>
  BY <1>1
<1>4. HeartTypes'
  BY <1>1, <1>2, <1>3 DEF HeartTypes
<1>5. "server" \in open => 0 + due["server"] <= PING_INTERVAL
  BY <1>2, EndFacts, HeartbeatAssumption DEF HeartTypes
<1>6. "client" \in open => 0 + due["client"] <= client_limit + client_interval
  BY <1>2, EndFacts, HeartbeatAssumption DEF HeartTypes
<1>7. since_pong["client"] >= 0
  BY <1>2, EndFacts DEF HeartTypes
<1>8. Silent'
  BY <1>1, <1>3, <1>5, <1>6, <1>7 DEF Silent
<1>. QED  BY <1>1, <1>4, <1>8 DEF HeartInv

(* Until the cut: e read one message. *)
LEMMA HeartReads == ASSUME HeartInv, NEW e \in TwoEnds, Heartbeat!Read(e) PROVE HeartInv'
<1> DEFINE f == Other(e)
           msg == Head(wire[e])[1]
<1>1. HeartTypes /\ severed = -1 /\ Calm /\ wire[e] # << >> /\ open = TwoEnds /\ gave_up = {}
  BY DEF Heartbeat!Read, HeartInv, Calm
<1>2. /\ f \in TwoEnds /\ f # e /\ Other(f) = e /\ TwoEnds = {e, f}
      /\ Lag \in Nat /\ Delay \in Nat
  BY EndFacts DEF TwoEnds
<1>3. /\ wire \in [TwoEnds -> Seq(Mail)] /\ wire[e] \in Seq(Mail) /\ wire[f] \in Seq(Mail)
      /\ \A x \in TwoEnds : due[x] \in Int /\ due[x] <= Every(x) /\ due[x] >= -Lag /\ Every(x) \in Nat
  BY <1>1, <1>2, EndFacts DEF HeartTypes
<1>4. /\ Head(wire[e]) \in Mail /\ Tail(wire[e]) \in Seq(Mail) /\ 1 \in 1 .. Len(wire[e])
      /\ Head(wire[e]) = wire[e][1]
      /\ \A m : \A n \in Int : Has(wire[e], m, n) =>
           Has(Tail(wire[e]), m, n) \/ (msg = m /\ Head(wire[e])[2] >= n)
      /\ \A k \in 1 .. Len(Tail(wire[e])) :
           k + 1 \in 1 .. Len(wire[e]) /\ Tail(wire[e])[k] = wire[e][k + 1]
  BY <1>1, <1>3, HasRest
<1>5. msg \in {"ping", "pong"} /\ Head(wire[e])[2] \in Nat
  BY <1>4 DEF Mail
<1>6. \A x \in TwoEnds : \A k \in 1 .. Len(wire[x]) : wire[x][k][2] <= Delay
  BY <1>1 DEF Calm
<1>7. \A k \in 1 .. Len(Tail(wire[e])) : Tail(wire[e])[k][2] <= Delay
  BY <1>4, <1>6
<1>8. CASE msg = "ping"
  <2>1. /\ Heartbeat!Wires(e, Tail(wire[e]), <<"pong">>)
        /\ open' = open /\ gave_up' = gave_up /\ waiting_for_pong' = waiting_for_pong
        /\ since_pong' = since_pong /\ due' = due /\ severed' = severed
    BY <1>8 DEF Heartbeat!Read
  <2>2. /\ wire' = [x \in TwoEnds |-> wire'[x]] /\ wire'[e] = Tail(wire[e])
        /\ wire'[f] = Append(wire[f], <<"pong", 0>>)
    BY <1>1, <1>2, <2>1, PostedOne
  <2>4. /\ wire'[f] \in Seq(Mail)
        /\ \A m : \A n \in Int : Has(wire[f], m, n) => Has(wire'[f], m, n)
        /\ \A n \in Int : n <= 0 => Has(wire'[f], "pong", n)
        /\ \A k \in 1 .. Len(wire'[f]) :
             \/ k \in 1 .. Len(wire[f]) /\ wire'[f][k] = wire[f][k]
             \/ wire'[f][k] = <<"pong", 0>>
    BY <1>3, <2>2, HasMore
  <2>5. \A x \in TwoEnds : wire'[x] \in Seq(Mail)
    BY <1>2, <1>4, <2>2, <2>4
  <2>6. wire' \in [TwoEnds -> Seq(Mail)]
    BY <2>2, <2>5
  <2>7. HeartTypes'
    BY <1>1, <2>1, <2>6 DEF HeartTypes
  <2>8. \A x \in TwoEnds : \A k \in 1 .. Len(wire'[x]) : wire'[x][k][2] <= Delay
    <3>1. \A k \in 1 .. Len(wire'[f]) : wire'[f][k][2] <= Delay
      <4>1. ASSUME NEW k, k \in 1 .. Len(wire'[f]) PROVE wire'[f][k][2] <= Delay
        <5>1. CASE k \in 1 .. Len(wire[f]) /\ wire'[f][k] = wire[f][k]
          BY <1>2, <1>6, <5>1
        <5>2. CASE wire'[f][k] = <<"pong", 0>>
          <6>1. wire'[f][k][2] = 0
            BY <5>2
          <6>. QED  BY <1>2, <6>1
        <5>. QED  BY <2>4, <4>1, <5>1, <5>2
      <4>. QED  BY <4>1
    <3>2. \A k \in 1 .. Len(wire'[e]) : wire'[e][k][2] <= Delay
      BY <1>7, <2>2
    <3>. QED  BY <1>2, <3>1, <3>2
  <2>9. Awaits(e) => Awaits(e)'
    <3>1. \A n \in Int : Has(wire[e], "pong", n) => Has(wire'[e], "pong", n)
      BY <1>4, <1>8, <2>2
    <3>. QED  BY <1>1, <1>2, <2>1, <2>4, <3>1, StillAwaits
  <2>10. Awaits(f) => Awaits(f)'
    <3> DEFINE n == Every(f) - Lag - due[f]
               o == Every(f) - Lag - Delay - due[f]
    <3>0. due[f] \in Int /\ Every(f) \in Nat /\ Lag \in Nat /\ Delay \in Nat
      BY <1>2, <1>3
    <3>1. n \in Int /\ o \in Int /\ o = n - Delay
      BY <3>0
    <3>2. Awaits(f) <=> Has(wire[e], "ping", n) \/ Has(wire[f], "pong", o)
      BY <1>2 DEF Awaits
    <3>3. Awaits(f)' <=> Has(wire'[e], "ping", n) \/ Has(wire'[f], "pong", o)
      BY <1>2, <2>1 DEF Awaits
    <3> HIDE DEF n, o
    <3>4. CASE Has(wire[f], "pong", o)
      BY <2>4, <3>1, <3>3, <3>4
    <3>5. CASE Has(Tail(wire[e]), "ping", n)
      BY <2>2, <3>3, <3>5
    <3>6. CASE Head(wire[e])[2] >= n
      <4>1. Head(wire[e])[2] <= Delay
        BY <1>4, <1>6
      <4>2. o <= 0
        BY <1>2, <1>5, <3>1, <3>6, <4>1
      <4>. QED  BY <2>4, <3>1, <3>3, <4>2
    <3>. QED  BY <1>4, <3>1, <3>2, <3>4, <3>5, <3>6
  <2>11. \A x \in TwoEnds : Awaits(x) => Awaits(x)'
    BY <1>2, <2>9, <2>10
  <2>12. Calm'
    BY <1>1, <2>1, <2>8, <2>11, EndFacts DEF Calm
  <2>. QED  BY <1>1, <2>1, <2>7, <2>12 DEF HeartInv
<1>9. CASE msg = "pong"
  <2>1. /\ Heartbeat!Pong(e) /\ Heartbeat!Wires(e, Tail(wire[e]), << >>)
        /\ open' = open /\ gave_up' = gave_up /\ due' = due /\ severed' = severed
    BY <1>9 DEF Heartbeat!Read
  <2>2. /\ wire' = [x \in TwoEnds |-> wire'[x]] /\ wire'[e] = Tail(wire[e])
        /\ wire'[f] = wire[f]
    BY <1>1, <1>2, <2>1, PostedNone
  <2>4. \A x \in TwoEnds : wire'[x] \in Seq(Mail)
    BY <1>2, <1>3, <1>4, <2>2
  <2>5. wire' \in [TwoEnds -> Seq(Mail)]
    BY <2>2, <2>4
  <2>6. /\ since_pong' = [since_pong EXCEPT ![e] = 0]
        /\ waiting_for_pong' = IF e = "server" THEN FALSE ELSE waiting_for_pong
    BY <2>1 DEF Heartbeat!Pong
  <2>7. since_pong' \in [TwoEnds -> Nat] /\ since_pong'[e] = 0 /\ since_pong'[f] = since_pong[f]
    BY <1>1, <1>2, <2>6 DEF HeartTypes
  <2>8. HeartTypes'
    BY <1>1, <2>1, <2>5, <2>7 DEF HeartTypes
  <2>9. \A x \in TwoEnds : \A k \in 1 .. Len(wire'[x]) : wire'[x][k][2] <= Delay
    BY <1>2, <1>6, <1>7, <2>2
  <2>10. Awaits(f) => Awaits(f)'
    <3>1. \A n \in Int : Has(wire[e], "ping", n) => Has(wire'[e], "ping", n)
      BY <1>4, <1>9, <2>2
    <3>. QED  BY <1>1, <1>2, <2>1, <2>2, <3>1, StillAwaits
  <2>11. CASE e = "server"
    <3>1. f = "client"
      BY <2>11, EndFacts
    <3>2. ~waiting_for_pong' /\ since_pong'["client"] = since_pong["client"]
      BY <2>6, <2>7, <2>11, <3>1
    <3>3. since_pong["client"] + due["client"] <= client_interval \/ Awaits("client")
      BY <1>1 DEF Calm
    <3>4. Calm'
      BY <1>1, <2>1, <2>9, <2>10, <3>1, <3>2, <3>3 DEF Calm
    <3>. QED  BY <1>1, <2>1, <2>8, <3>4 DEF HeartInv
  <2>12. CASE e = "client"
    <3>1. f = "server"
      BY <2>12, EndFacts
    <3>2. waiting_for_pong' = waiting_for_pong
      BY <2>6, <2>12, EndFacts
    <3>3. since_pong'["client"] + due'["client"] <= client_interval
      <4>1. since_pong'["client"] = 0 /\ due'["client"] = due["client"]
        BY <2>1, <2>7, <2>12
      <4>2. due["client"] \in Int /\ due["client"] <= client_interval
        BY <1>3, EndFacts
      <4>. QED  BY <4>1, <4>2
    <3>4. waiting_for_pong' => Awaits("server")'
      BY <1>1, <2>10, <3>1, <3>2 DEF Calm
    <3>5. Calm'
      BY <1>1, <2>1, <2>9, <3>3, <3>4 DEF Calm
    <3>. QED  BY <1>1, <2>1, <2>8, <3>5 DEF HeartInv
  <2>. QED  BY <2>11, <2>12 DEF TwoEnds
<1>. QED  BY <1>5, <1>8, <1>9

(* After the cut: e leaves. *)
LEMMA HeartLeaves ==
  ASSUME HeartInv, severed # -1, NEW e \in TwoEnds, NEW ms, Heartbeat!Leave(e, ms)
  PROVE  HeartInv'
<1>1. /\ open' = open \ {e} /\ Heartbeat!Wires(e, << >>, ms \o <<"FIN">>)
      /\ waiting_for_pong' = waiting_for_pong /\ since_pong' = since_pong /\ due' = due
      /\ severed' = severed
  BY DEF Heartbeat!Leave
<1>2. HeartTypes /\ Silent
  BY DEF HeartInv
<1>3. /\ wire' = [x \in TwoEnds |-> wire'[x]] /\ wire'[e] = << >>
      /\ wire'[Other(e)] = wire[Other(e)]
  BY <1>1, <1>2, Posted
<1>4. Other(e) \in TwoEnds /\ TwoEnds = {e, Other(e)}
  BY EndFacts DEF TwoEnds
<1>5. \A x \in TwoEnds : wire'[x] = << >>
  BY <1>2, <1>3, <1>4 DEF Silent
<1>6. wire' \in [TwoEnds -> Seq(Mail)]
  <2>1. << >> \in Seq(Mail)
    OBVIOUS
  <2>2. \A x \in TwoEnds : wire'[x] \in Seq(Mail)
    BY <1>5, <2>1
  <2>. QED  BY <1>3, <2>2
<1>7. HeartTypes'
  BY <1>1, <1>2, <1>6 DEF HeartTypes
<1>8. Silent'
  BY <1>1, <1>2, <1>5 DEF Silent
<1>. QED  BY <1>1, <1>7, <1>8 DEF HeartInv

LEMMA HeartGivesUp == ASSUME HeartInv, NEW e \in TwoEnds, Heartbeat!TickGiveUp(e) PROVE HeartInv'
<1>1. due[e] <= 0 /\ Heartbeat!Overdue(e)
  BY DEF Heartbeat!TickGiveUp
<1>2. severed # -1
  <2>1. ASSUME severed = -1 PROVE FALSE
    <3>1. HeartTypes /\ Calm
      BY <2>1 DEF HeartInv
    <3>. QED  BY <1>1, <3>1, NoneOverdue
  <2>. QED  BY <2>1
<1>3. PICK ms : Heartbeat!Leave(e, ms)
  BY DEF Heartbeat!TickGiveUp
<1>. QED  BY <1>2, <1>3, HeartLeaves

LEMMA HeartFails == ASSUME HeartInv, NEW e \in TwoEnds, Heartbeat!WriteFails(e) PROVE HeartInv'
<1>1. severed # -1
  <2>1. ASSUME severed = -1 PROVE FALSE
    <3>1. open = TwoEnds
      BY <2>1 DEF HeartInv, Calm
    <3>2. Heartbeat!Peer(e) \notin open
      BY <2>1 DEF Heartbeat!WriteFails
    <3>. QED  BY <3>1, <3>2, EndFacts
  <2>. QED  BY <2>1
<1>2. Heartbeat!Leave(e, << >>)
  BY DEF Heartbeat!WriteFails
<1>. QED  BY <1>1, <1>2, HeartLeaves

(* The ping of a tick has not travelled yet, and the next tick is an        *)
(* interval away; after the cut, the server's second tick finds its pong    *)
(* overdue, and so does a client's beyond its limit.                        *)
LEMMA HeartPings == ASSUME HeartInv, NEW e \in TwoEnds, Heartbeat!TickPing(e) PROVE HeartInv'
<1> DEFINE f == Other(e)
<1>1. /\ e \in open /\ due[e] <= 0 /\ ~Heartbeat!Overdue(e)
      /\ due' = [due EXCEPT ![e] = @ + Every(e)]
      /\ waiting_for_pong' = (e = "server" \/ waiting_for_pong)
      /\ Heartbeat!Wires(e, wire[e], <<"ping">>)
      /\ open' = open /\ gave_up' = gave_up /\ since_pong' = since_pong /\ severed' = severed
  BY EndFacts DEF Heartbeat!TickPing
<1>2. HeartTypes
  BY DEF HeartInv
<1>3. f \in TwoEnds /\ f # e /\ Other(f) = e /\ TwoEnds = {e, f} /\ Lag \in Nat /\ Delay \in Nat
  BY EndFacts DEF TwoEnds
<1>4. /\ wire[e] \in Seq(Mail) /\ wire[f] \in Seq(Mail) /\ due[e] \in Int /\ due[e] >= -Lag
      /\ Every(e) \in Nat /\ since_pong[e] \in Nat
  BY <1>1, <1>2, <1>3, EndFacts DEF HeartTypes
<1>5. due'[e] = due[e] + Every(e) /\ due'[f] = due[f] /\ due' \in [TwoEnds -> Int]
  BY <1>1, <1>2, <1>3, <1>4 DEF HeartTypes
<1>6. due'[e] >= -Lag /\ due'[e] <= Every(e)
  BY <1>1, <1>3, <1>4, <1>5
<1>7. \A x \in open : due'[x] >= -Lag /\ due'[x] <= Every(x)
  BY <1>2, <1>3, <1>5, <1>6 DEF HeartTypes
<1>8. ASSUME wire' \in [TwoEnds -> Seq(Mail)] PROVE HeartTypes'
  BY <1>1, <1>2, <1>5, <1>7, <1>8 DEF HeartTypes
<1>9. CASE severed = -1
  <2>1. Calm /\ open = TwoEnds
    BY <1>9 DEF HeartInv, Calm
  <2>2. /\ wire' = [x \in TwoEnds |-> wire'[x]] /\ wire'[e] = wire[e]
        /\ wire'[f] = Append(wire[f], <<"ping", 0>>)
    BY <1>1, <1>2, <1>3, <1>9, <2>1, PostedOne
  <2>4. /\ wire'[f] \in Seq(Mail)
        /\ \A m : \A n \in Int : Has(wire[f], m, n) => Has(wire'[f], m, n)
        /\ \A n \in Int : n <= 0 => Has(wire'[f], "ping", n)
        /\ \A k \in 1 .. Len(wire'[f]) :
             \/ k \in 1 .. Len(wire[f]) /\ wire'[f][k] = wire[f][k]
             \/ wire'[f][k] = <<"ping", 0>>
    BY <1>4, <2>2, HasMore
  <2>5. \A x \in TwoEnds : wire'[x] \in Seq(Mail)
    BY <1>3, <1>4, <2>2, <2>4
  <2>6. HeartTypes'
    BY <1>8, <2>2, <2>5
  <2>7. \A x \in TwoEnds : \A k \in 1 .. Len(wire'[x]) : wire'[x][k][2] <= Delay
    <3>0. \A x \in TwoEnds : \A k \in 1 .. Len(wire[x]) : wire[x][k][2] <= Delay
      BY <2>1 DEF Calm
    <3>1. \A k \in 1 .. Len(wire'[f]) : wire'[f][k][2] <= Delay
      <4>1. ASSUME NEW k, k \in 1 .. Len(wire'[f]) PROVE wire'[f][k][2] <= Delay
        <5>1. CASE k \in 1 .. Len(wire[f]) /\ wire'[f][k] = wire[f][k]
          BY <1>3, <3>0, <5>1
        <5>2. CASE wire'[f][k] = <<"ping", 0>>
          <6>1. wire'[f][k][2] = 0
            BY <5>2
          <6>. QED  BY <1>3, <6>1
        <5>. QED  BY <2>4, <4>1, <5>1, <5>2
      <4>. QED  BY <4>1
    <3>2. \A k \in 1 .. Len(wire'[e]) : wire'[e][k][2] <= Delay
      BY <2>2, <3>0
    <3>. QED  BY <1>3, <3>1, <3>2
  <2>8. Awaits(e)'
    <3>1. Every(e) - Lag - due'[e] \in Int /\ Every(e) - Lag - due'[e] <= 0
      BY <1>3, <1>4, <1>5
    <3>. QED  BY <2>4, <3>1 DEF Awaits
  <2>9. Awaits(f) => Awaits(f)'
    BY <1>2, <1>3, <1>5, <2>2, <2>4, StillAwaits
  <2>10. waiting_for_pong' => Awaits("server")'
    <3>1. CASE e = "server"
      BY <2>8, <3>1
    <3>2. CASE e = "client"
      BY <1>1, <2>1, <2>9, <3>2, EndFacts DEF Calm
    <3>. QED  BY <3>1, <3>2 DEF TwoEnds
  <2>11. since_pong'["client"] + due'["client"] <= client_interval \/ Awaits("client")'
    <3>1. CASE e = "client"
      BY <2>8, <3>1
    <3>2. CASE e = "server"
      <4>1. f = "client"
        BY <3>2, EndFacts
      <4>. QED  BY <1>1, <1>5, <2>1, <2>9, <4>1 DEF Calm
    <3>. QED  BY <3>1, <3>2 DEF TwoEnds
  <2>12. Calm'
    BY <1>1, <2>1, <2>7, <2>10, <2>11 DEF Calm
  <2>. QED  BY <1>1, <1>9, <2>6, <2>12 DEF HeartInv
<1>10. CASE severed # -1
  <2>1. Silent /\ severed \in Nat
    BY <1>2, <1>10 DEF HeartInv, HeartTypes
  <2>2. wire' = [x \in TwoEnds |-> wire'[x]] /\ wire'[e] = wire[e] /\ wire'[f] = wire[f]
    BY <1>1, <1>2, <1>10, Posted
  <2>3. HeartTypes'
    <3>1. \A x \in TwoEnds : wire'[x] \in Seq(Mail)
      BY <1>3, <1>4, <2>2
    <3>. QED  BY <1>8, <2>2, <3>1
  <2>4. \A x \in TwoEnds : wire'[x] = << >>
    BY <1>3, <2>1, <2>2 DEF Silent
  <2>5. CASE e = "server"
    <3>1. f = "client" /\ waiting_for_pong'
      BY <1>1, <2>5, EndFacts
    <3> DEFINE d == due["server"]
               p == since_pong["server"]
    <3>2. /\ d \in Int /\ p \in Nat /\ d <= 0 /\ d >= -Lag /\ due'["server"] = d + PING_INTERVAL
          /\ waiting_for_pong => p <= PONG_TIMEOUT
      <4>1. Heartbeat!Limit("server") = PONG_TIMEOUT /\ Every("server") = PING_INTERVAL
        BY EndFacts DEF Heartbeat!Limit
      <4>2. waiting_for_pong => ~(p > PONG_TIMEOUT)
        BY <1>1, <2>5, <4>1 DEF Heartbeat!Overdue
      <4>. QED  BY <1>1, <1>4, <1>5, <2>5, <4>1, <4>2, HeartbeatAssumption
    <3>3. \/ severed + d <= PING_INTERVAL
          \/ /\ severed + d <= 2 * PING_INTERVAL /\ waiting_for_pong
             /\ p > PONG_TIMEOUT \/ p + d >= PING_INTERVAL - Lag
      BY <1>1, <2>1, <2>5 DEF Silent
    <3> HIDE DEF d, p
    <3>4. severed + d <= PING_INTERVAL
      BY <3>2, <3>3, HeartbeatAssumption
    <3>5. /\ severed + (d + PING_INTERVAL) <= 2 * PING_INTERVAL
          /\ p + (d + PING_INTERVAL) >= PING_INTERVAL - Lag
      BY <2>1, <3>2, <3>4, HeartbeatAssumption
    <3>6. /\ severed' + due'["server"] <= 2 * PING_INTERVAL
          /\ since_pong'["server"] + due'["server"] >= PING_INTERVAL - Lag
      BY <1>1, <3>2, <3>5 DEF p
    <3>7. "client" \in open' =>
            /\ severed' + due'["client"] <= client_limit + client_interval
            /\ since_pong'["client"] > client_limit \/ since_pong'["client"] >= severed'
      BY <1>1, <1>5, <2>1, <3>1 DEF Silent
    <3>8. Silent'
      BY <2>4, <3>1, <3>6, <3>7 DEF Silent
    <3>. QED  BY <1>1, <1>10, <2>3, <3>8 DEF HeartInv
  <2>6. CASE e = "client"
    <3>1. f = "server" /\ (waiting_for_pong' <=> waiting_for_pong)
      BY <1>1, <2>6, EndFacts
    <3> DEFINE d == due["client"]
               p == since_pong["client"]
    <3>2. /\ d \in Int /\ p \in Nat /\ d <= 0 /\ due'["client"] = d + client_interval
          /\ p <= client_limit
      <4>1. Heartbeat!Limit("client") = client_limit /\ Every("client") = client_interval
        BY EndFacts DEF Heartbeat!Limit
      <4>2. ~(p > client_limit)
        BY <1>1, <2>6, <4>1, EndFacts DEF Heartbeat!Overdue
      <4>. QED  BY <1>1, <1>4, <1>5, <2>6, <4>1, <4>2, HeartbeatAssumption
    <3>3. p > client_limit \/ p >= severed
      BY <1>1, <2>1, <2>6 DEF Silent
    <3> HIDE DEF d, p
    <3>4. severed + (d + client_interval) <= client_limit + client_interval /\ p >= severed
      BY <2>1, <3>2, <3>3, HeartbeatAssumption
    <3>5. /\ severed' + due'["client"] <= client_limit + client_interval
          /\ since_pong'["client"] >= severed'
      BY <1>1, <3>2, <3>4 DEF p
    <3>6. "server" \in open' =>
            \/ severed' + due'["server"] <= PING_INTERVAL
            \/ /\ severed' + due'["server"] <= 2 * PING_INTERVAL /\ waiting_for_pong'
               /\ \/ since_pong'["server"] > PONG_TIMEOUT
                  \/ since_pong'["server"] + due'["server"] >= PING_INTERVAL - Lag
      BY <1>1, <1>5, <2>1, <3>1 DEF Silent
    <3>7. Silent'
      BY <2>4, <3>5, <3>6 DEF Silent
    <3>. QED  BY <1>1, <1>10, <2>3, <3>7 DEF HeartInv
  <2>. QED  BY <2>5, <2>6 DEF TwoEnds
<1>. QED  BY <1>9, <1>10

LEMMA HeartNext == HeartInv /\ [Heartbeat!Next]_(Heartbeat!vars) => HeartInv'
<1> SUFFICES ASSUME HeartInv, [Heartbeat!Next]_(Heartbeat!vars) PROVE HeartInv'
  OBVIOUS
<1>1. CASE Heartbeat!Time
  BY <1>1, HeartTime
<1>2. CASE Heartbeat!Cut
  BY <1>2, HeartCut
<1>3. ASSUME NEW e \in TwoEnds, Heartbeat!Step(e) PROVE HeartInv'
  BY <1>3, HeartReads, HeartGivesUp, HeartPings, HeartFails DEF Heartbeat!Step
<1>4. CASE UNCHANGED Heartbeat!vars
  BY <1>4 DEF Heartbeat!vars, HeartInv, HeartTypes, Calm, Silent, Awaits
<1>. QED  BY <1>1, <1>2, <1>3, <1>4, EndFacts DEF Heartbeat!Next

LEMMA HeartRuns == [WebSocketNext]_websocket => [Heartbeat!Next]_(Heartbeat!vars)
BY DEF WebSocketNext, websocket, Only, Heartbeat_vars, Heartbeat!vars

LEMMA HeartImplies == HeartInv => Heartbeat!HeartbeatSound
<1> SUFFICES ASSUME HeartInv PROVE Heartbeat!HeartbeatSound
  OBVIOUS
<1>1. severed = -1 => gave_up = {}
  BY DEF HeartInv, Calm
<1>2. /\ open \subseteq TwoEnds /\ severed \in Nat \cup {-1} /\ due \in [TwoEnds -> Int]
      /\ \A e \in open : due[e] >= -Lag
  BY DEF HeartInv, HeartTypes
<1>3. ASSUME "server" \in open PROVE severed <= Heartbeat!Notice("server")
  <2>1. Heartbeat!Notice("server") = Lag + 2 * PING_INTERVAL
    BY DEF Heartbeat!Notice
  <2>2. CASE severed = -1
    BY <2>1, <2>2, HeartbeatAssumption
  <2>3. CASE severed # -1
    <3>1. severed + due["server"] <= PING_INTERVAL \/ severed + due["server"] <= 2 * PING_INTERVAL
      BY <1>3, <2>3 DEF HeartInv, Silent
    <3>2. due["server"] \in Int /\ due["server"] >= -Lag /\ severed \in Nat
      BY <1>2, <1>3, <2>3, EndFacts
    <3>. QED  BY <2>1, <3>1, <3>2, HeartbeatAssumption
  <2>. QED  BY <2>2, <2>3
<1>4. ASSUME "client" \in open PROVE severed <= Heartbeat!Notice("client")
  <2>1. Heartbeat!Notice("client") = Lag + (client_limit + client_interval)
    BY EndFacts DEF Heartbeat!Notice
  <2>2. CASE severed = -1
    BY <2>1, <2>2, HeartbeatAssumption
  <2>3. CASE severed # -1
    <3>1. severed + due["client"] <= client_limit + client_interval
      BY <1>4, <2>3 DEF HeartInv, Silent
    <3>2. due["client"] \in Int /\ due["client"] >= -Lag /\ severed \in Nat
      BY <1>2, <1>4, <2>3, EndFacts
    <3>. QED  BY <2>1, <3>1, <3>2, HeartbeatAssumption
  <2>. QED  BY <2>2, <2>3
<1>5. \A e \in open : e = "server" \/ e = "client"
  BY <1>2 DEF TwoEnds
<1>. QED  BY <1>1, <1>3, <1>4, <1>5 DEF Heartbeat!HeartbeatSound

(* The heartbeat of websocket_ping_pong.rs, for every interval and limit    *)
(* with room for a round trip: no end gives up while the network delivers,  *)
(* and each has left its loop within Notice of a cut.                       *)
THEOREM HeartbeatIsSound == WebSocketSpec => []HeartbeatSound
<1>1. WebSocketInit => HeartInv
  BY HeartInit DEF WebSocketInit
<1>2. HeartInv /\ [WebSocketNext]_websocket => HeartInv'
  BY HeartRuns, HeartNext
<1>3. HeartInv => HeartbeatSound
  BY HeartImplies DEF HeartbeatSound
<1>. QED  BY <1>1, <1>2, <1>3, PTL DEF WebSocketSpec
-----------------------------------------------------------------------------
(* WsRecovery's backoff.  The doubling that it is compared with is given by *)
(* a recursive definition, which says nothing until a function is shown to  *)
(* satisfy it; the numbers for which there is none would have a least one.  *)
LEMMA LeastNumber ==
  ASSUME NEW T, T \subseteq Nat, T # {}
  PROVE  \E x \in T : \A y \in T : ~ (y < x)
<1> DEFINE R == OpToRel(<, Nat)
<1>0. IsWellFoundedOn(R, Nat)
  BY NatLessThanWellFounded, Zenon
<1>1. \E x \in T : \A y \in T : ~ (<<y, x>> \in R)
  <2> HIDE DEF R
  <2> QED BY <1>0, WFMin
<1>2. \A x, y \in Nat : <<y, x>> \in R <=> y < x
  BY SMT DEF OpToRel
<1> HIDE DEF R
<1> QED BY <1>1, <1>2

(* g doubles as far as N. *)
Doubles(g, N) ==
  /\ g[0] = initial
  /\ \A k \in 0 .. N : g[k] \in Nat /\ (k # 0 => g[k] = g[k - 1] * 2)

LEMMA DoublesUnique ==
  ASSUME NEW g, NEW h, NEW N \in Nat, Doubles(g, N), Doubles(h, N)
  PROVE  g[N] = h[N]
<1> SUFFICES ASSUME g[N] # h[N] PROVE FALSE
  OBVIOUS
<1> DEFINE T == {k \in 0 .. N : g[k] # h[k]}
<1>1. T \subseteq Nat /\ T # {}
  OBVIOUS
<1>2. PICK x \in T : \A y \in T : ~ (y < x)
  <2> HIDE DEF T
  <2> QED BY <1>1, LeastNumber
<1>3. x \in 0 .. N /\ g[x] # h[x]
  OBVIOUS
<1>4. x # 0
  BY <1>3 DEF Doubles
<1>5. x - 1 \in 0 .. N /\ x - 1 < x
  BY <1>3, <1>4
<1>6. g[x - 1] = h[x - 1]
  BY <1>2, <1>5
<1>7. g[x] = g[x - 1] * 2 /\ h[x] = h[x - 1] * 2
  BY <1>3, <1>4 DEF Doubles
<1> QED BY <1>3, <1>6, <1>7

LEMMA DoublesExist ==
  ASSUME NEW N \in Nat
  PROVE  \E g : Doubles(g, N)
<1> SUFFICES ASSUME \A g : ~ Doubles(g, N) PROVE FALSE
  OBVIOUS
<1> DEFINE T == {k \in Nat : \A g : ~ Doubles(g, k)}
<1>1. T \subseteq Nat /\ T # {}
  OBVIOUS
<1>2. PICK x \in T : \A y \in T : ~ (y < x)
  <2> HIDE DEF T
  <2> QED BY <1>1, LeastNumber
<1>3. x \in Nat /\ \A g : ~ Doubles(g, x)
  OBVIOUS
<1>4. CASE x = 0
  <2>1. Doubles([k \in {0} |-> initial], 0)
    BY BackoffAssumption DEF Doubles
  <2> QED BY <1>3, <1>4, <2>1
<1>5. CASE x # 0
  <2>1. x - 1 \in Nat /\ x - 1 < x
    BY <1>3, <1>5
  <2>2. PICK g : Doubles(g, x - 1)
    BY <1>2, <2>1
  <2> DEFINE h == [k \in 0 .. x |-> IF k = x THEN g[x - 1] * 2 ELSE g[k]]
  <2>3. h[0] = initial
    BY <1>3, <1>5, <2>2 DEF Doubles
  <2>4. ASSUME NEW k \in 0 .. x PROVE h[k] \in Nat /\ (k # 0 => h[k] = h[k - 1] * 2)
    <3>1. CASE k = x
      <4>1. h[k] = g[x - 1] * 2 /\ h[k - 1] = g[x - 1]
        BY <1>3, <1>5, <2>1, <3>1
      <4>2. g[x - 1] \in Nat
        BY <2>1, <2>2 DEF Doubles
      <4> QED BY <4>1, <4>2
    <3>2. CASE k # x
      <4>1. k \in 0 .. x - 1
        BY <1>3, <2>4, <3>2
      <4>2. h[k] = g[k] /\ (k # 0 => h[k - 1] = g[k - 1])
        BY <1>3, <3>2, <4>1
      <4> QED BY <2>2, <4>1, <4>2 DEF Doubles
    <3> QED BY <3>1, <3>2
  <2> HIDE DEF h
  <2>5. Doubles(h, x)
    BY <2>3, <2>4 DEF Doubles
  <2> QED BY <1>3, <2>5
<1> QED BY <1>4, <1>5

LEMMA DoublingIsDefined ==
  \A k \in Nat : /\ Recovery!Doubled[k] \in Nat
                 /\ Recovery!Doubled[k] = IF k = 0 THEN initial ELSE Recovery!Doubled[k - 1] * 2
<1> DEFINE G(k) == CHOOSE g : Doubles(g, k)
           F == [k \in Nat |-> G(k)[k]]
<1>1. ASSUME NEW k \in Nat PROVE Doubles(G(k), k)
  BY <1>1, DoublesExist
<1> HIDE DEF G
<1>2. ASSUME NEW k \in Nat
      PROVE  F[k] \in Nat /\ F[k] = IF k = 0 THEN initial ELSE F[k - 1] * 2
  <2>1. F[k] = G(k)[k] /\ F[k] \in Nat
    BY <1>1 DEF Doubles
  <2>2. CASE k = 0
    BY <1>1, <2>1, <2>2 DEF Doubles
  <2>3. CASE k # 0
    <3>1. k - 1 \in Nat
      BY <2>3
    <3>2. Doubles(G(k), k - 1) /\ G(k)[k] = G(k)[k - 1] * 2
      BY <1>1, <2>3, <3>1 DEF Doubles
    <3>3. G(k)[k - 1] = G(k - 1)[k - 1]
      BY <1>1, <3>1, <3>2, DoublesUnique
    <3> QED BY <2>1, <2>3, <3>1, <3>2, <3>3
  <2> QED BY <2>1, <2>2, <2>3
<1>3. F = [k \in Nat |-> IF k = 0 THEN initial ELSE F[k - 1] * 2]
  <2> DEFINE E == [k \in Nat |-> IF k = 0 THEN initial ELSE F[k - 1] * 2]
  <2>1. \A k \in Nat : F[k] = E[k]
    BY <1>2
  <2> QED BY <2>1
<1> HIDE DEF F
<1> DEFINE D == Recovery!Doubled
<1>4. D = [k \in Nat |-> IF k = 0 THEN initial ELSE D[k - 1] * 2]
  BY <1>3 DEF Recovery!Doubled
<1> HIDE DEF D
<1>5. \A k \in Nat : D[k] = IF k = 0 THEN initial ELSE D[k - 1] * 2
  BY <1>4
<1>6. ASSUME NEW k \in Nat PROVE D[k] \in Nat
  <2> SUFFICES ASSUME D[k] \notin Nat PROVE FALSE
    OBVIOUS
  <2> DEFINE T == {j \in Nat : D[j] \notin Nat}
  <2>1. T \subseteq Nat /\ T # {}
    OBVIOUS
  <2>2. PICK x \in T : \A y \in T : ~ (y < x)
    <3> HIDE DEF T
    <3> QED BY <2>1, LeastNumber
  <2>3. x \in Nat /\ D[x] \notin Nat
    OBVIOUS
  <2>4. x # 0
    BY <1>5, <2>3, BackoffAssumption
  <2>5. x - 1 \in Nat /\ x - 1 < x
    BY <2>3, <2>4
  <2>6. D[x - 1] \in Nat
    BY <2>2, <2>5
  <2> QED BY <1>5, <2>3, <2>4, <2>6
<1> QED BY <1>5, <1>6 DEF D

(* The backoff where the retries are. *)
BackoffInv == retry_count \in Nat /\ current \in Nat /\ Recovery!BackoffFollowsRetries

LEMMA BackoffInit == Recovery!Init => BackoffInv
BY BackoffAssumption DEF Recovery!Init, BackoffInv, Recovery!BackoffFollowsRetries

(* One more attempt doubles the backoff, or leaves it at its limit. *)
LEMMA BackoffGrows ==
  ASSUME BackoffInv, NEW d, Recovery!ConnectFails(retry_count + 1, Recovery!next_backoff, d)
  PROVE  BackoffInv'
<1> DEFINE D == Recovery!Doubled
           tries == retry_count
<1>1. retry_count' = tries + 1 /\ current' = Recovery!next_backoff
  BY DEF Recovery!ConnectFails
<1>2. tries \in Nat /\ current \in Nat
  BY DEF BackoffInv
<1>3. CASE tries = 0
  <2>1. current' = initial /\ D[tries + 1 - 1] = initial
    BY <1>1, <1>3, DoublingIsDefined DEF Recovery!next_backoff
  <2> QED BY <1>1, <1>3, <2>1, BackoffAssumption DEF BackoffInv, Recovery!BackoffFollowsRetries
<1>4. CASE tries # 0
  <2>1. /\ tries - 1 \in Nat /\ D[tries - 1] \in Nat
        /\ D[tries] \in Nat /\ D[tries] = D[tries - 1] * 2
    BY <1>2, <1>4, DoublingIsDefined
  <2>2. current = IF D[tries - 1] < max THEN D[tries - 1] ELSE max
    BY <1>4 DEF BackoffInv, Recovery!BackoffFollowsRetries
  <2>3. current' = IF current * 2 < max THEN current * 2 ELSE max
    BY <1>1, <1>4 DEF Recovery!next_backoff
  <2> HIDE DEF D
  <2>4. current' \in Nat /\ current' = IF D[tries] < max THEN D[tries] ELSE max
    BY <1>2, <2>1, <2>2, <2>3, BackoffAssumption
  <2>5. retry_count' \in Nat /\ retry_count' # 0 /\ retry_count' - 1 = tries
    BY <1>1, <1>2
  <2> QED BY <2>4, <2>5 DEF BackoffInv, Recovery!BackoffFollowsRetries, D
<1> QED BY <1>3, <1>4

LEMMA BackoffNext == BackoffInv /\ [Recovery!Next]_(Recovery!vars) => BackoffInv'
<1> SUFFICES ASSUME BackoffInv, [Recovery!Next]_(Recovery!vars) PROVE BackoffInv'
  OBVIOUS
<1>1. CASE UNCHANGED <<retry_count, current>>
  BY <1>1 DEF BackoffInv, Recovery!BackoffFollowsRetries
<1>2. CASE retry_count' = 0 /\ current' = initial
  BY <1>2, BackoffAssumption DEF BackoffInv, Recovery!BackoffFollowsRetries
<1>3. CASE \E d : Recovery!ConnectFails(retry_count + 1, Recovery!next_backoff, d)
  BY <1>3, BackoffGrows
<1>4. CASE \E d : Recovery!ConnectFails(retry_count, current, d)
  BY <1>1, <1>4 DEF Recovery!ConnectFails
<1>5. CASE Recovery!ConnectOk \/ Recovery!FlushFails
  BY <1>2, <1>5 DEF Recovery!ConnectOk, Recovery!FlushFails
<1>6. CASE Recovery!connect
  BY <1>4, <1>5, <1>6 DEF Recovery!connect
<1>7. CASE Recovery!reconnect \/ Recovery!reconnect_refused
  BY <1>1, <1>3, <1>5, <1>7 DEF Recovery!reconnect, Recovery!reconnect_refused
<1>8. CASE \E m : Recovery!send(m)
  BY <1>1, <1>8 DEF Recovery!send, Recovery!SendBuffered, Recovery!SendWritten,
     Recovery!SendFails
<1>9. CASE Recovery!receive \/ Recovery!disconnect \/ Recovery!check_connection_health
  BY <1>1, <1>8, <1>9 DEF Recovery!receive, Recovery!disconnect, Recovery!check_connection_health
<1>10. CASE Recovery!ApiNext
  BY <1>6, <1>7, <1>8, <1>9, <1>10 DEF Recovery!ApiNext
<1>11. CASE Recovery!MainNext
  <2>1. CASE Recovery!MainConnect \/ Recovery!MainRetry
    BY <1>1, <1>3, <1>4, <1>5, <2>1
       DEF Recovery!MainConnect, Recovery!MainRetry, Recovery!reconnect_refused
  <2>2. CASE Recovery!MainRecover \/ Recovery!MainHealth \/ Recovery!MainSend
             \/ Recovery!MainReceive \/ Recovery!MainEnd
    BY <1>7, <1>8, <1>9, <2>2
       DEF Recovery!MainRecover, Recovery!MainHealth, Recovery!MainSend, Recovery!MainReceive,
           Recovery!MainEnd
  <2>3. CASE Recovery!MainWait \/ Recovery!Done
    BY <1>1, <2>3 DEF Recovery!MainWait, Recovery!Done, Recovery!vars
  <2> QED BY <1>11, <2>1, <2>2, <2>3 DEF Recovery!MainNext
<1>12. CASE UNCHANGED Recovery!vars
  BY <1>1, <1>12 DEF Recovery!vars
<1> QED BY <1>10, <1>11, <1>12 DEF Recovery!Next

(* Whatever the calls and their outcomes, the backoff is initial doubled     *)
(* once for each failed attempt but the first since the last success, and at *)
(* most max (the safety part of MainProgress).                               *)
THEOREM BackoffIsExponential == WebSocketSpec => []Recovery!BackoffFollowsRetries
<1>1. WebSocketInit => BackoffInv
  BY BackoffInit DEF WebSocketInit
<1>2. BackoffInv /\ [WebSocketNext]_websocket => BackoffInv'
  BY BackoffNext, RecoveryRuns
<1>3. BackoffInv => Recovery!BackoffFollowsRetries
  BY DEF BackoffInv
<1>. QED
  BY <1>1, <1>2, <1>3, PTL DEF WebSocketSpec
=============================================================================
