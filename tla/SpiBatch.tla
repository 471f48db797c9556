------------------------------ MODULE SpiBatch ------------------------------
(***************************************************************************)
(* SPI/src/36/spi_transfer_batching.rs: SpiBatch and what is built on it,  *)
(* SpiBatchManager (with AutoBatch and SensorBatcher, whose parsing of the *)
(* answers is left out), RegisterBatch, and                                *)
(* ChunkedTransfer.  A program uses one of them.  A byte is [cmd, n]: what *)
(* it stands for and its number; the device answers a byte with itself.    *)
(***************************************************************************)
EXTENDS Naturals, Sequences, SequencesExt

CONSTANTS max_size, flush_threshold, chunk_size,
  MaxBytes   \* bound: bytes handed in

VARIABLES
  user,                    \* which of them the program uses
  tx_buffer, rx_buffer,    \* of SpiBatch; chunk of ChunkedTransfer
  read_addresses,          \* of RegisterBatch
  cs,                      \* chip select of the device
  n, wire, lost,           \* bytes accepted; transferred; in failed transfers
  results,                 \* of the last RegisterBatch::execute
  regular                  \* RegisterBatch: only whole reads, no failure yet
vars == <<user, tx_buffer, rx_buffer, read_addresses, cs, n, wire, lost, results, regular>>

Init == /\ user \in {"manager", "registers", "chunked"}
        /\ tx_buffer = << >> /\ rx_buffer = << >> /\ read_addresses = << >>
        /\ cs = FALSE /\ n = 0 /\ wire = << >> /\ lost = << >>
        /\ results = << >> /\ regular = TRUE

Bytes(cmds) == [k \in 1 .. Len(cmds) |-> [cmd |-> cmds[k], n |-> n + k]]

-----------------------------------------------------------------------------
(* SpiBatch::execute: the buffer is sent whole and emptied whatever comes   *)
(* of it; chip select is released in both cases.                            *)

(* Fault: the bytes stay in the buffer after a transfer that went well. *)
Transferred_Kept(data) ==
  /\ wire' = wire \o data /\ rx_buffer' = data
  /\ tx_buffer' = tx_buffer /\ lost' = lost

Transferred(data) ==
  /\ wire' = wire \o data /\ rx_buffer' = data
  /\ tx_buffer' = << >> /\ lost' = lost

TransferFailed(data) ==
  /\ lost' = lost \o data /\ rx_buffer' \in {rx_buffer, data}
  /\ tx_buffer' = << >> /\ wire' = wire

(* SpiBatchManager::flush, which Drop and SensorBatcher::finalize call. *)
flush == /\ user = "manager" /\ tx_buffer # << >>
         /\ Transferred(tx_buffer) \/ TransferFailed(tx_buffer)
         /\ UNCHANGED <<user, read_addresses, cs, n, results, regular>>

(* SpiBatchManager::add of one or two bytes; an error of the flush returns  *)
(* before the new bytes are taken, and so does a buffer without room.       *)
Flushes(k) == Len(tx_buffer) + k >= flush_threshold

AddKept(data) ==
  /\ ~Flushes(Len(data)) /\ Len(tx_buffer) + Len(data) <= max_size
  /\ tx_buffer' = tx_buffer \o data /\ n' = n + Len(data)
  /\ UNCHANGED <<rx_buffer, wire, lost>>

AddFlushed(data) ==
  /\ Flushes(Len(data)) /\ Len(data) <= max_size
  /\ wire' = wire \o tx_buffer
  /\ rx_buffer' = IF tx_buffer = << >> THEN rx_buffer ELSE tx_buffer
  /\ tx_buffer' = data /\ n' = n + Len(data) /\ lost' = lost

AddFailed(data) ==
  /\ Flushes(Len(data)) /\ tx_buffer # << >>
  /\ TransferFailed(tx_buffer) /\ n' = n

add == /\ user = "manager" /\ n + 2 <= MaxBytes
       /\ \E cmds \in {<<"data">>, <<"sensor", "id">>} :
            AddKept(Bytes(cmds)) \/ AddFlushed(Bytes(cmds)) \/ AddFailed(Bytes(cmds))
       /\ UNCHANGED <<user, read_addresses, cs, results, regular>>

-----------------------------------------------------------------------------
(* RegisterBatch *)

Queue(cmds) == /\ user = "registers" /\ n + 2 <= MaxBytes
               /\ Len(tx_buffer) + 2 <= max_size
               /\ tx_buffer' = tx_buffer \o Bytes(cmds) /\ n' = n + 2
               /\ UNCHANGED <<user, rx_buffer, cs, wire, lost, results>>

queue_read == /\ Queue(<<"read", "value">>)
              /\ read_addresses' = Append(read_addresses, n + 2)
              /\ UNCHANGED regular

queue_write == /\ Queue(<<"write", "data">>)
               /\ regular' = FALSE
               /\ UNCHANGED read_addresses

(* The buffer has room for the address byte and not for the second one. *)
HalfQueued ==
  /\ user = "registers" /\ n < MaxBytes /\ Len(tx_buffer) + 1 = max_size
  /\ tx_buffer' = tx_buffer \o Bytes(<<"read">>) /\ n' = n + 1
  /\ regular' = FALSE
  /\ UNCHANGED <<user, rx_buffer, read_addresses, cs, wire, lost, results>>

(* Where the answer to the i-th read is looked for: writes are not counted. *)
Answer(i) == i * 2

Results == [i \in 1 .. Len(read_addresses) |->
             <<read_addresses[i],
               IF Answer(i) \in DOMAIN rx_buffer' THEN rx_buffer'[Answer(i)].n ELSE 0>>]

(* An empty batch is Ok too and gives the answers of the transfer before. *)
execute ==
  /\ user = "registers"
  /\ \/ tx_buffer # << >> /\ Transferred(tx_buffer)
     \/ tx_buffer = << >> /\ UNCHANGED <<tx_buffer, rx_buffer, wire, lost>>
  /\ results' = Results /\ read_addresses' = << >>
  /\ UNCHANGED <<user, cs, n, regular>>

(* The addresses outlive the batch that failed. *)
ExecuteFailed ==
  /\ user = "registers" /\ tx_buffer # << >> /\ TransferFailed(tx_buffer)
  /\ regular' = FALSE
  /\ UNCHANGED <<user, read_addresses, cs, n, results>>

-----------------------------------------------------------------------------
(* ChunkedTransfer::execute, one byte of the iterator at a time. *)

TakeByte ==
  /\ user = "chunked" /\ n < MaxBytes /\ ~cs
  /\ n' = n + 1
  /\ LET chunk == tx_buffer \o Bytes(<<"data">>) IN
       \/ /\ Len(chunk) < chunk_size
          /\ tx_buffer' = chunk
          /\ UNCHANGED <<rx_buffer, wire, lost, cs>>
       \/ Len(chunk) >= chunk_size /\ Transferred(chunk) /\ cs' = FALSE
       \/ Len(chunk) >= chunk_size /\ TransferFailed(chunk) /\ cs' = TRUE
  /\ UNCHANGED <<user, read_addresses, results, regular>>

LastChunk ==
  /\ user = "chunked" /\ tx_buffer # << >> /\ ~cs
  /\ \/ Transferred(tx_buffer) /\ cs' = FALSE
     \/ TransferFailed(tx_buffer) /\ cs' = TRUE
  /\ UNCHANGED <<user, read_addresses, n, results, regular>>

Next == \/ flush \/ add \/ queue_read \/ queue_write \/ HalfQueued
        \/ execute \/ ExecuteFailed \/ TakeByte \/ LastChunk
Spec == Init /\ [][Next]_vars

-----------------------------------------------------------------------------
(* Every byte that was accepted is, once, in the buffer, on the wire or in *)
(* a transfer that was reported as failed, and the wire has them in the     *)
(* order they were given; only a failed ChunkedTransfer leaves the chip     *)
(* selected.                                                                *)
EachByteOnce ==
  /\ {b.n : b \in ToSet(wire \o lost \o tx_buffer)} = 1 .. n
  /\ Len(wire) + Len(lost) + Len(tx_buffer) = n
  /\ \A k \in 1 .. Len(wire) - 1 : wire[k].n < wire[k + 1].n
  /\ cs => user = "chunked" /\ lost # << >>

(* RegisterBatch::execute gives each address the answer to its own read, as *)
(* long as only reads are queued and no batch failed or was left half       *)
(* queued: a write between two reads shifts the answers, and the addresses  *)
(* of a failed batch stay for the next one.                                 *)
ReadsMatch == regular => \A i \in DOMAIN results : results[i][1] = results[i][2]
=============================================================================
