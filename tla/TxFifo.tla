------------------------------- MODULE TxFifo -------------------------------
(***************************************************************************)
(* What the transmit ring promises to the network stack: the buffers it     *)
(* takes are sent in the order it took them, and each is given back once,   *)
(* after it was sent.  Resetting the device gives back all of them.         *)
(***************************************************************************)
EXTENDS Naturals, Sequences

CONSTANT Skb

VARIABLES
  queue,   (* the buffers taken and not yet given back, oldest first          *)
  sent     (* how many at its head the hardware has sent                     *)

fifoVars == <<queue, sent>>

FifoInit == queue = <<>> /\ sent = 0

Take(s) ==
  /\ \A n \in 1..Len(queue) : queue[n] # s
  /\ queue' = Append(queue, s)
  /\ UNCHANGED sent

Send ==
  /\ sent < Len(queue)
  /\ sent' = sent + 1
  /\ UNCHANGED queue

GiveBack ==
  /\ sent > 0
  /\ queue' = Tail(queue) /\ sent' = sent - 1

Flush == queue' = <<>> /\ sent' = 0

FifoNext == (\E s \in Skb : Take(s)) \/ Send \/ GiveBack \/ Flush

FifoSpec == FifoInit /\ [][FifoNext]_fifoVars

=============================================================================
