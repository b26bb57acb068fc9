------------------------------ MODULE RxQueue ------------------------------
(***************************************************************************)
(* What the receive path promises, without descriptors, indices or loops:  *)
(* frames are handed to the readers in the order the wire brought them,    *)
(* each once, and taking the unit down or up forgets what was waiting.     *)
(***************************************************************************)
EXTENDS Naturals, Sequences

CONSTANTS Frames, NoFrame
VARIABLES fifo,   \* frames received and not handed over, oldest first
          last    \* the frame handed over last

vars == <<fifo, last>>

Init == fifo = <<>> /\ last = NoFrame

Arrive(f) == fifo' = Append(fifo, f) /\ UNCHANGED last

HandOver == /\ fifo # <<>>
            /\ last' = Head(fifo)
            /\ fifo' = Tail(fifo)

Restart == fifo' = <<>> /\ UNCHANGED last

Next == (\E f \in Frames : Arrive(f)) \/ HandOver \/ Restart

Spec == Init /\ [][Next]_vars
=============================================================================
