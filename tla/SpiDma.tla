------------------------------- MODULE SpiDma -------------------------------
(***************************************************************************)
(* SpiDma of SPI/src/38/spi_dma_cache_coherency.rs: transfers by DMA, which*)
(* sees memory, prepared by a processor that sees its cache.  The transmit *)
(* and the receive buffer are one aligned line each.  The processor may    *)
(* load a line on its own at any time and write a dirty one back.          *)
(***************************************************************************)
EXTENDS Naturals

CONSTANT MaxJobs   \* bound: calls made; the n-th call sends and gets n

VARIABLES
  mem, line, dirty,   \* per buffer: memory, cached value (0: none), flag
  at, method, n,      \* the call that runs and its number
  tx_job, rx_job,     \* the DMA streams: number of the call, 0 when done
  sent, received,     \* what the last tx job read; what the caller got
  overrun             \* the transmit buffer was refilled under the DMA
vars == <<mem, line, dirty, at, method, n, tx_job, rx_job, sent, received, overrun>>

Buffer == {"tx", "rx"}

Init == /\ mem = [b \in Buffer |-> 0] /\ line = mem
        /\ dirty = [b \in Buffer |-> FALSE]
        /\ at = "idle" /\ method = "none" /\ n = 0
        /\ tx_job = 0 /\ rx_job = 0
        /\ sent = <<0, 0>> /\ received = <<0, 0>> /\ overrun = FALSE

-----------------------------------------------------------------------------
(* External: the cache and the DMA. *)

Load(b) == /\ line[b] = 0 /\ mem[b] # 0
           /\ line' = [line EXCEPT ![b] = mem[b]]
           /\ UNCHANGED <<mem, dirty, at, method, n, tx_job, rx_job, sent, received, overrun>>

Evict(b) == /\ line[b] # 0
            /\ mem' = [mem EXCEPT ![b] = IF dirty[b] THEN line[b] ELSE @]
            /\ line' = [line EXCEPT ![b] = 0] /\ dirty' = [dirty EXCEPT ![b] = FALSE]
            /\ UNCHANGED <<at, method, n, tx_job, rx_job, sent, received, overrun>>

DmaRead == /\ tx_job # 0
           /\ sent' = <<tx_job, mem["tx"]>> /\ tx_job' = 0
           /\ UNCHANGED <<mem, line, dirty, at, method, n, rx_job, received, overrun>>

DmaWrite == /\ rx_job # 0
            /\ mem' = [mem EXCEPT !["rx"] = rx_job] /\ rx_job' = 0
            /\ UNCHANGED <<line, dirty, at, method, n, tx_job, sent, received, overrun>>

-----------------------------------------------------------------------------
(* cache_operation() *)

Clean(b) == /\ mem' = [mem EXCEPT ![b] = IF dirty[b] THEN line[b] ELSE @]
            /\ dirty' = [dirty EXCEPT ![b] = FALSE]
            /\ UNCHANGED line

Invalidate(b) == /\ line' = [line EXCEPT ![b] = 0]
                 /\ dirty' = [dirty EXCEPT ![b] = FALSE]
                 /\ UNCHANGED mem

(* A buffer too small is refused before anything happens. *)
Call == /\ at = "idle" /\ n < MaxJobs
        /\ \E m \in {"transmit", "receive", "transfer"} :
             method' = m /\ at' = IF m = "receive" THEN "invalidate" ELSE "copy"
        /\ n' = n + 1
        /\ UNCHANGED <<mem, line, dirty, tx_job, rx_job, sent, received, overrun>>

(* copy_from_slice into tx_buffer: transmit() does not look whether the DMA *)
(* has finished with what the call before it put there.                     *)
CopyIn == /\ at = "copy" /\ at' = "clean"
          /\ line' = [line EXCEPT !["tx"] = n] /\ dirty' = [dirty EXCEPT !["tx"] = TRUE]
          /\ overrun' = (overrun \/ tx_job # 0)
          /\ UNCHANGED <<mem, method, n, tx_job, rx_job, sent, received>>

CleanTx == /\ at = "clean" /\ Clean("tx")
           /\ at' = IF method = "transmit" THEN "start" ELSE "invalidate"
           /\ UNCHANGED <<method, n, tx_job, rx_job, sent, received, overrun>>

InvalidateRx == /\ at = "invalidate" /\ Invalidate("rx")
                /\ at' = "start"
                /\ UNCHANGED <<method, n, tx_job, rx_job, sent, received, overrun>>

(* configure_dma_*() and start_dma() *)
StartDma == /\ at = "start"
            /\ tx_job' = IF method = "receive" THEN tx_job ELSE n
            /\ rx_job' = IF method = "transmit" THEN rx_job ELSE n
            /\ at' = IF method = "transmit" THEN "idle" ELSE "wait"
            /\ UNCHANGED <<mem, line, dirty, method, n, sent, received, overrun>>

(* Fault: the lines loaded during the transfer stay. *)
WaitDone_Stale == /\ at = "wait" /\ rx_job = 0 /\ (method = "transfer" => tx_job = 0)
                  /\ at' = "copy_out"
                  /\ UNCHANGED <<mem, line, dirty, method, n, tx_job, rx_job, sent, received, overrun>>

(* wait_for_completion(), then the second invalidate() *)
WaitDone == /\ at = "wait" /\ rx_job = 0 /\ (method = "transfer" => tx_job = 0)
            /\ Invalidate("rx") /\ at' = "copy_out"
            /\ UNCHANGED <<method, n, tx_job, rx_job, sent, received, overrun>>

CopyOut == /\ at = "copy_out" /\ at' = "idle"
           /\ received' = <<n, IF line["rx"] # 0 THEN line["rx"] ELSE mem["rx"]>>
           /\ line' = [line EXCEPT !["rx"] = received'[2]]
           /\ UNCHANGED <<mem, dirty, method, n, tx_job, rx_job, sent, overrun>>

Next == \/ \E b \in Buffer : Load(b) \/ Evict(b)
        \/ DmaRead \/ DmaWrite \/ Call \/ CopyIn \/ CleanTx \/ InvalidateRx
        \/ StartDma \/ WaitDone \/ CopyOut
Spec == Init /\ [][Next]_vars

-----------------------------------------------------------------------------
(* What receive() and transfer() return is what the DMA wrote for this very *)
(* call, whatever the cache loaded meanwhile; and the DMA sends what the    *)
(* call was given, unless a transmit(), which does not wait, was followed   *)
(* by another call before the DMA had read the buffer.                      *)
Coherent == /\ received[1] = received[2]
            /\ ~overrun => sent[1] = sent[2]
=============================================================================
