------------------------------ MODULE WsPool ------------------------------
(***************************************************************************)
(* WebSocket/src/32/websocket_memory_pool.rs: ObjectPool behind the lock   *)
(* of ThreadSafePool, shared by threads, and the Arena.  The lock is held  *)
(* from end to end of a call; what get_mut() returns is used after it.     *)
(***************************************************************************)
EXTENDS Naturals, Sequences, FiniteSets

CONSTANTS Thread, initial_size, max_size,
  block_size, MaxBlocks, Sizes   \* Arena; bound: its blocks; sizes asked for

VARIABLES
  objects, available, in_use,    \* number of objects, free indices, flags
  allocations, deallocations,
  handle, writing,               \* of each thread: the index it has; inside get_mut()'s &mut
  arena, given, taken            \* [blocks, current_block, current_offset]; bytes given
                                 \* since the last reset; how many were asked for
vars == <<objects, available, in_use, allocations, deallocations, handle, writing, arena, given,
          taken>>
pool == <<objects, available, in_use, allocations, deallocations>>
temp == <<arena, given, taken>>

None == 0   \* indices count from 1

Init == /\ objects = initial_size
        /\ available = [i \in 1 .. initial_size |-> i]
        /\ in_use = [i \in 1 .. initial_size |-> FALSE]
        /\ allocations = 0 /\ deallocations = 0
        /\ handle = [t \in Thread |-> None] /\ writing = [t \in Thread |-> FALSE]
        /\ arena = [blocks |-> 1, current_block |-> 1, current_offset |-> 0]
        /\ given = {} /\ taken = 0

-----------------------------------------------------------------------------
(* ThreadSafePool::acquire: a free object, or a new one below the limit.    *)
(* The counters are kept modulo what tells them apart.                      *)
Modulus == initial_size + max_size + 1
Counter(n) == (n + 1) % Modulus

acquire(t) ==
  /\ handle[t] = None
  /\ \/ /\ available # << >>
        /\ available' = Tail(available) /\ objects' = objects
        /\ in_use' = [in_use EXCEPT ![Head(available)] = TRUE]
        /\ handle' = [handle EXCEPT ![t] = Head(available)]
     \/ /\ available = << >> /\ objects < max_size
        /\ objects' = objects + 1 /\ available' = available
        /\ in_use' = Append(in_use, TRUE)
        /\ handle' = [handle EXCEPT ![t] = objects']
  /\ allocations' = Counter(allocations)
  /\ UNCHANGED <<deallocations, writing, temp>>

(* get_mut() gives a pointer into the box of the object and unlocks. *)
get_mut(t) == /\ handle[t] # None /\ ~writing[t] /\ in_use[handle[t]]
              /\ writing' = [writing EXCEPT ![t] = TRUE]
              /\ UNCHANGED <<pool, handle, temp>>

EndWrite(t) == /\ writing[t]
               /\ writing' = [writing EXCEPT ![t] = FALSE]
               /\ UNCHANGED <<pool, handle, temp>>

(* Fault: what was created on demand is queued twice. *)
drop_Twice(t) ==
  /\ handle[t] # None /\ ~writing[t] /\ in_use[handle[t]]
  /\ in_use' = [in_use EXCEPT ![handle[t]] = FALSE]
  /\ available' = available \o (IF handle[t] > initial_size THEN <<handle[t], handle[t]>>
                                ELSE <<handle[t]>>)
  /\ deallocations' = Counter(deallocations)
  /\ handle' = [handle EXCEPT ![t] = None]
  /\ UNCHANGED <<objects, allocations, writing, temp>>

(* Drop of the handle, which is release(): the object goes back as it is. *)
drop(t) ==
  /\ handle[t] # None /\ ~writing[t]
  /\ IF in_use[handle[t]]
     THEN /\ in_use' = [in_use EXCEPT ![handle[t]] = FALSE]
          /\ available' = Append(available, handle[t])
          /\ deallocations' = Counter(deallocations)
     ELSE UNCHANGED <<in_use, available, deallocations>>
  /\ handle' = [handle EXCEPT ![t] = None]
  /\ UNCHANGED <<objects, allocations, writing, temp>>

-----------------------------------------------------------------------------
(* Arena *)

(* A block that is full is followed by the next one in order, while the new *)
(* block is put at the end: after a reset they are not the same.            *)
Fit(size) ==
  IF arena.current_offset + size > block_size
  THEN [blocks |-> arena.blocks + 1, current_block |-> arena.current_block + 1,
        current_offset |-> 0]
  ELSE arena

allocate(size) ==
  LET a == Fit(size) IN
  /\ a.blocks <= MaxBlocks
  /\ arena' = [a EXCEPT !.current_offset = @ + size]
  /\ given' = given \cup {<<a.current_block, k>> :
                            k \in a.current_offset .. a.current_offset + size - 1}
  /\ taken' = taken + size
  /\ UNCHANGED <<pool, handle, writing>>

reset == /\ arena' = [arena EXCEPT !.current_block = 1, !.current_offset = 0]
         /\ given' = {} /\ taken' = 0
         /\ UNCHANGED <<pool, handle, writing>>

Next == \/ \E t \in Thread : acquire(t) \/ get_mut(t) \/ EndWrite(t) \/ drop(t)
        \/ \E size \in Sizes : allocate(size)
        \/ reset
Spec == Init /\ [][Next]_vars

-----------------------------------------------------------------------------
(* No two threads hold the same object, so that no two write through        *)
(* get_mut()'s pointers at once; every object is free or held by one, and   *)
(* the statistics say how many are out.                                     *)
OneOwner ==
  /\ \A t, u \in Thread : handle[t] = handle[u] => t = u \/ handle[t] = None
  /\ \A i \in 1 .. objects :
       in_use[i] <=> \E t \in Thread : handle[t] = i
  /\ \A j, k \in DOMAIN available : available[j] = available[k] => j = k
  /\ {available[k] : k \in DOMAIN available} = {i \in 1 .. objects : ~in_use[i]}
  /\ (allocations + Modulus - deallocations) % Modulus
       = Cardinality({t \in Thread : handle[t] # None})

(* No two slices allocate() gave since the last reset() share a byte, and   *)
(* they lie in blocks that exist, however often the arena was reset.        *)
SlicesApart == /\ Cardinality(given) = taken
               /\ \A g \in given : g[1] <= arena.blocks /\ g[2] < block_size
=============================================================================
