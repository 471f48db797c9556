----------------------------- MODULE WsBuffers -----------------------------
(***************************************************************************)
(* WebSocket/src/13/websocket_buffer_management.rs: WebSocketFrameBuffer   *)
(* with its DynamicBuffer and CircularBuffer, and BufferPool.  A program   *)
(* uses one of the three.  A byte of the stream is [frame, pos, form]: its *)
(* frame, its place in it, and the shape the second byte announces.        *)
(***************************************************************************)
EXTENDS Naturals, Sequences, FiniteSets

CONSTANTS capacity, max_pool_size, initial_count,
  MaxFrames, MaxBytes, MaxHeld   \* bounds: frames, bytes queued, buffers in use

VARIABLES
  user,                               \* what the program uses
  recv,                                \* DynamicBuffer: [data, read_pos]
  frames, cut, payloads,              \* forms received; bytes of the last one; extracted
  send, queued, sent,                 \* CircularBuffer: [buffer, head, tail, size]
  pool, held, fresh                   \* free buffers, those in use, buffers made
vars == <<user, recv, frames, cut, payloads, send, queued, sent, pool, held, fresh>>

receiving == <<recv, frames, cut, payloads>>
sending == <<send, queued, sent>>
pooling == <<pool, held, fresh>>

(* A form: the size of header and length, the mask, the payload. *)
Form == {[header |-> 2, mask |-> 0, payload |-> 1], [header |-> 4, mask |-> 4, payload |-> 5],
         [header |-> 10, mask |-> 0, payload |-> 0]}
Total(f) == f.header + f.mask + f.payload

Init ==
  /\ user \in {"receive", "send", "pool"}
  /\ recv = [data |-> << >>, read_pos |-> 0]
  /\ frames = << >> /\ cut = 0 /\ payloads = << >>
  /\ send = [buffer |-> [i \in 0 .. capacity - 1 |-> 0], head |-> 0, tail |-> 0, size |-> 0]
  /\ queued = << >> /\ sent = << >>
  /\ pool = [i \in 1 .. initial_count |-> [id |-> i, by |-> 0]]
  /\ held = {} /\ fresh = initial_count

-----------------------------------------------------------------------------
(* DynamicBuffer *)

min(m, n) == IF m <= n THEN m ELSE n

data(b) == SubSeq(b.data, b.read_pos + 1, Len(b.data))

append(b, bytes) == [b EXCEPT !.data = @ \o bytes]

(* Fault: the position outlives the bytes it counts. *)
consume_KeepPos(b, count) ==
  LET pos == b.read_pos + min(count, Len(data(b))) IN
  IF pos > Len(b.data) \div 2
  THEN [data |-> SubSeq(b.data, pos + 1, Len(b.data)), read_pos |-> min(pos, Len(b.data) - pos)]
  ELSE [b EXCEPT !.read_pos = pos]

(* More than half read: the rest moves to the front. *)
consume(b, count) ==
  LET pos == b.read_pos + min(count, Len(data(b))) IN
  IF pos > Len(b.data) \div 2
  THEN [data |-> SubSeq(b.data, pos + 1, Len(b.data)), read_pos |-> 0]
  ELSE [b EXCEPT !.read_pos = pos]

-----------------------------------------------------------------------------
(* The receiving half of WebSocketFrameBuffer *)

Byte(f, i) == [frame |-> Len(frames'), pos |-> i, form |-> f]

(* A read of the socket: the next one to three bytes, of one frame. *)
add_received_data ==
  /\ user = "receive"
  /\ \/ /\ cut = 0 /\ Len(frames) < MaxFrames
        /\ \E f \in Form : frames' = Append(frames, f)
     \/ cut > 0 /\ UNCHANGED frames
  /\ LET f == frames'[Len(frames')] IN
       \E k \in 1 .. 3 :
         /\ cut + k <= Total(f)
         /\ recv' = append(recv, [i \in 1 .. k |-> Byte(f, cut + i)])
         /\ cut' = (cut + k) % Total(f)
  /\ UNCHANGED <<user, payloads, sending, pooling>>

(* The header needs its first two bytes, then the length, then the mask. *)
Extractable(d) ==
  /\ Len(d) >= 2
  /\ LET f == d[2].form IN
       /\ Len(d) >= f.header /\ Len(d) >= f.header + f.mask
       /\ Len(d) >= Total(f)

(* The exclusive or with byte k % 4 of the key gives back a byte that the   *)
(* sender masked with the same one, and a wrong byte (place 0) otherwise.   *)
Unmask(byte, f, k) ==
  IF byte.pos % 4 = (f.header + f.mask + 1 + k) % 4 THEN byte ELSE [byte EXCEPT !.pos = 0]

(* What is given out: the bytes after header and mask, unmasked. *)
Payload(d) ==
  LET f == d[2].form
      offset == f.header + f.mask
  IN  [i \in 1 .. f.payload |->
         IF f.mask = 0 THEN d[offset + i] ELSE Unmask(d[offset + i], f, i - 1)]

try_extract_frame ==
  /\ user = "receive"
  /\ LET d == data(recv) IN
       /\ Extractable(d)
       /\ payloads' = Append(payloads, Payload(d))
       /\ recv' = consume(recv, Total(d[2].form))
  /\ UNCHANGED <<user, frames, cut, sending, pooling>>

-----------------------------------------------------------------------------
(* CircularBuffer and the sending half *)

(* write() takes what there is room for. *)
write(b, bytes) ==
  LET k == min(Len(bytes), capacity - b.size) IN
  [buffer |-> [i \in 0 .. capacity - 1 |->
                 LET j == (i + capacity - b.head) % capacity IN
                 IF j < k THEN bytes[j + 1] ELSE b.buffer[i]],
   head |-> (b.head + k) % capacity, tail |-> b.tail, size |-> b.size + k]

(* The first k bytes, which read() takes and peek() leaves. *)
Oldest(b, k) == [i \in 1 .. k |-> b.buffer[(b.tail + i - 1) % capacity]]

read(b, k) == [b EXCEPT !.tail = (@ + k) % capacity, !.size = @ - k]

(* false when only a part fitted; that part stays queued all the same. *)
queue_send_data ==
  /\ user = "send"
  /\ \E k \in 1 .. 2 :
       /\ Len(queued) + k <= MaxBytes
       /\ LET bytes == [i \in 1 .. k |-> Len(queued) + i]
              fits == min(k, capacity - send.size) IN
            /\ send' = write(send, bytes)
            /\ queued' = queued \o SubSeq(bytes, 1, fits)
  /\ UNCHANGED <<user, sent, receiving, pooling>>

get_send_data ==
  /\ user = "send"
  /\ \E k \in 1 .. send.size : send' = read(send, k) /\ sent' = sent \o Oldest(send, k)
  /\ UNCHANGED <<user, queued, receiving, pooling>>

(* clear() forgets what was not read yet. *)
clear ==
  /\ user = "send"
  /\ send' = [send EXCEPT !.head = 0, !.tail = 0, !.size = 0]
  /\ queued' = sent
  /\ UNCHANGED <<user, sent, receiving, pooling>>

-----------------------------------------------------------------------------
(* BufferPool: `by' is who last wrote into a buffer, 0 for zeroes.  The     *)
(* lock is held from end to end, so that acquire and drop are steps.        *)

acquire ==
  /\ user = "pool" /\ Cardinality(held) < MaxHeld
  /\ IF pool # << >>
     THEN held' = held \cup {Head(pool)} /\ pool' = Tail(pool) /\ fresh' = fresh
     ELSE /\ fresh' = fresh + 1 /\ fresh < initial_count + MaxHeld
          /\ held' = held \cup {[id |-> fresh', by |-> 0]} /\ pool' = pool
  /\ UNCHANGED <<user, receiving, sending>>

as_mut_slice ==
  /\ user = "pool"
  /\ \E b \in held : held' = (held \ {b}) \cup {[b EXCEPT !.by = 1]}
  /\ UNCHANGED <<user, pool, fresh, receiving, sending>>

Returned(b) == [b EXCEPT !.by = 0]

drop ==
  /\ user = "pool"
  /\ \E b \in held :
       /\ held' = held \ {b}
       /\ pool' = IF Len(pool) < max_pool_size THEN Append(pool, Returned(b)) ELSE pool
  /\ UNCHANGED <<user, fresh, receiving, sending>>

Next == \/ add_received_data \/ try_extract_frame
        \/ queue_send_data \/ get_send_data \/ clear
        \/ acquire \/ as_mut_slice \/ drop
Spec == Init /\ [][Next]_vars

-----------------------------------------------------------------------------
(* However the stream is cut into reads and whenever the buffer is          *)
(* compacted, the payloads try_extract_frame() gives are those of the       *)
(* frames received, complete and in order.                                  *)
FramesWhole ==
  /\ Len(payloads) <= Len(frames)
  /\ \A i \in DOMAIN payloads :
       payloads[i] = [k \in 1 .. frames[i].payload |->
                        [frame |-> i, form |-> frames[i],
                         pos |-> frames[i].header + frames[i].mask + k]]

(* What get_send_data() gave and what is still in the ring are the accepted *)
(* bytes in order, round the end of the ring, after refusals and clear().   *)
BytesInOrder == /\ send.size \in 0 .. capacity
                /\ sent \o Oldest(send, send.size) = queued

(* A pooled buffer has one owner, no user sees what another wrote, and the  *)
(* pool keeps no more than its limit or what it began with.                 *)
PoolClean ==
  /\ \A i, j \in DOMAIN pool : pool[i].id = pool[j].id => i = j
  /\ \A i \in DOMAIN pool : pool[i].by = 0 /\ pool[i].id \notin {b.id : b \in held}
  /\ Len(pool) <= max_pool_size \/ Len(pool) <= initial_count
=============================================================================
