------------------------------ MODULE GemRxFifo ------------------------------
(***************************************************************************)
(* What Rp1GemDxe promises about reception: the frames the MAC stored are  *)
(* handed to the client in arrival order, each once, with the contents     *)
(* that arrived; frames with a bad status are dropped and never delivered. *)
(***************************************************************************)
EXTENDS Naturals, Sequences

CONSTANTS Depth, Frames, NoFrame

VARIABLES up,        \* the interface is initialized
          pending,   \* stored frames, oldest first
          delivered  \* the last frame handed to the client

vars == <<up, pending, delivered>>

Init == up = FALSE /\ pending = <<>> /\ delivered = NoFrame

Open == ~up /\ up' = TRUE /\ UNCHANGED <<pending, delivered>>

Close == up /\ up' = FALSE /\ pending' = <<>> /\ UNCHANGED delivered

Arrive(f, good) ==
  /\ up
  /\ Len(pending) < Depth
  /\ pending' = Append(pending, [frame |-> f, good |-> good])
  /\ UNCHANGED <<up, delivered>>

Deliver ==
  /\ pending # <<>>
  /\ Head(pending).good
  /\ delivered' = Head(pending).frame
  /\ pending' = Tail(pending)
  /\ UNCHANGED up

Drop ==
  /\ pending # <<>>
  /\ ~Head(pending).good
  /\ pending' = Tail(pending)
  /\ UNCHANGED <<up, delivered>>

Next == \/ Open \/ Close \/ Deliver \/ Drop
        \/ \E f \in Frames, good \in BOOLEAN : Arrive(f, good)

Spec == Init /\ [][Next]_vars
=============================================================================
