------------------------------ MODULE GemTxFifo ------------------------------
(***************************************************************************)
(* What Rp1GemDxe promises an SNP client about transmission, with no ring, *)
(* no cursors and no DMA: a bounded FIFO of accepted frames.  Frames leave *)
(* on the wire in the order they were accepted (one that the MAC gives up  *)
(* on is skipped, never reordered), and buffers come back to the client    *)
(* in that same order, each exactly once, and only after its frame is done *)
(* with.                                                                   *)
(***************************************************************************)
EXTENDS Naturals, Sequences

CONSTANTS Depth,     \* frames the service holds at most
          Buffers,   \* the client's transmit buffers
          Frames,    \* the contents a frame can have
          NoFrame

VARIABLES up,        \* the interface is initialized
          queue,     \* accepted frames, oldest first
          done,      \* how many at the front of queue the MAC is done with
          clientBufs,\* the buffers the client may touch
          wire       \* the last frame put on the wire

vars == <<up, queue, done, clientBufs, wire>>

Entries == [buf : Buffers, frame : Frames]

Init ==
  /\ up = FALSE
  /\ queue = <<>>
  /\ done = 0
  /\ clientBufs = Buffers
  /\ wire = NoFrame

Open ==
  /\ ~up
  /\ up' = TRUE
  /\ UNCHANGED <<queue, done, clientBufs, wire>>

\* Shutdown forgets what was queued: the client owns everything again.
Close ==
  /\ up
  /\ up' = FALSE
  /\ queue' = <<>>
  /\ done' = 0
  /\ clientBufs' = Buffers
  /\ UNCHANGED wire

Accept(b, f) ==
  /\ up
  /\ Len(queue) < Depth
  /\ b \in clientBufs
  /\ queue' = Append(queue, [buf |-> b, frame |-> f])
  /\ clientBufs' = clientBufs \ {b}
  /\ UNCHANGED <<up, done, wire>>

\* The next frame goes out, or the MAC reports it as failed.
Finish ==
  /\ done < Len(queue)
  /\ done' = done + 1
  /\ wire' \in {wire, queue[done + 1].frame}
  /\ UNCHANGED <<up, queue, clientBufs>>

Return ==
  /\ done > 0
  /\ queue' = Tail(queue)
  /\ done' = done - 1
  /\ clientBufs' = clientBufs \cup {Head(queue).buf}
  /\ UNCHANGED <<up, wire>>

Next ==
  \/ Open \/ Close \/ Finish \/ Return
  \/ \E b \in Buffers, f \in Frames : Accept(b, f)

Spec == Init /\ [][Next]_vars
=============================================================================
