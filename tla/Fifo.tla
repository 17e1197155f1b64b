-------------------------------- MODULE Fifo ---------------------------------
(***************************************************************************)
(* What the two rings of libsurvive promise the application: a bounded     *)
(* queue.  The events that are taken are the events that were put, in the  *)
(* order in which they were put, each at most once.  A full queue either   *)
(* refuses a new event (the queue of button events, which then stutters)   *)
(* or displaces its oldest (the buffer of the simple API).                 *)
(***************************************************************************)
EXTENDS Naturals, Sequences

CONSTANTS Events,
          Capacity,    \* how many events the queue holds
          Displacing   \* whether a full queue gives up its oldest event

VARIABLES queue,  \* the events put and not yet taken, oldest first
          taken   \* the event taken last

fifoVars == <<queue, taken>>

Init == queue = <<>> /\ taken = <<>>

Put(e) ==
    /\ Len(queue) < Capacity
    /\ queue' = Append(queue, e)
    /\ UNCHANGED taken

Displace(e) ==
    /\ Displacing /\ Len(queue) = Capacity
    /\ queue' = Append(Tail(queue), e)
    /\ UNCHANGED taken

Take ==
    /\ queue # <<>>
    /\ taken' = Head(queue)
    /\ queue' = Tail(queue)

Next == Take \/ \E e \in Events : Put(e) \/ Displace(e)

Spec == Init /\ [][Next]_fifoVars
=============================================================================
