------------------------------ MODULE TxQueue ------------------------------
(***************************************************************************)
(* What the transmit path promises its clients, without descriptors,       *)
(* indices, slots, semaphores or tasks: a queue of accepted requests.  The *)
(* wire takes them in the order they were accepted, a request is completed *)
(* only after the wire has taken it, and completions keep that order too.  *)
(* Bringing the unit online again forgets what was still queued.           *)
(***************************************************************************)
EXTENDS Naturals, Sequences

CONSTANT Reqs
VARIABLES fifo,   \* accepted and not completed, oldest first
          sent    \* how many of them the wire has taken

vars == <<fifo, sent>>

Init == fifo = <<>> /\ sent = 0

Accept(r) == /\ r \notin {fifo[i] : i \in DOMAIN fifo}
             /\ fifo' = Append(fifo, r)
             /\ UNCHANGED sent

Transmit == /\ sent < Len(fifo)
            /\ sent' = sent + 1
            /\ UNCHANGED fifo

Complete(k) == /\ fifo' = SubSeq(fifo, k + 1, Len(fifo))
               /\ sent' = sent - k

Restart == fifo' = <<>> /\ sent' = 0

Next == \/ \E r \in Reqs : Accept(r)
        \/ Transmit
        \/ \E k \in 1 .. sent : Complete(k)
        \/ Restart

Spec == Init /\ [][Next]_vars
=============================================================================
