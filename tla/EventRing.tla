------------------------------ MODULE EventRing ------------------------------
(***************************************************************************)
(* The event buffer of the simple API (repos/libsurvive/src/survive_api.c): *)
(* a ring that knows where the next event is written and how many events   *)
(* it holds.  Both operations run under poll_mutex.                        *)
(***************************************************************************)
EXTENDS Integers, Sequences

CONSTANTS MaxEventSize,  \* MAX_EVENT_SIZE
          Events,        \* what can be inserted
          Invalid        \* an entry whose event_type is -1, or that never was one

ASSUME RingAssumption == MaxEventSize \in Nat \ {0} /\ Invalid \notin Events \cup {<<>>}

VARIABLES events, eventNextWrite, eventsCnt,
          popped   \* history: the last event given to the application

ringVars == <<events, eventNextWrite, eventsCnt, popped>>

Indices == 0 .. MaxEventSize - 1

RingTypeOK ==
    /\ events \in [Indices -> Events \cup {Invalid}]
    /\ eventNextWrite \in Indices
    /\ eventsCnt \in 0 .. MaxEventSize
    /\ popped \in Events \cup {Invalid, <<>>}

RingInit ==
    /\ events = [i \in Indices |-> Invalid]
    /\ eventNextWrite = 0 /\ eventsCnt = 0
    /\ popped = <<>>

\* Mutant: the count goes on when the ring is full.
InsertMutant(e) ==
    /\ events' = [events EXCEPT ![eventNextWrite] = e]
    /\ eventNextWrite' = (eventNextWrite + 1) % MaxEventSize
    /\ eventsCnt' = eventsCnt + 1
    /\ UNCHANGED popped

Insert(e) ==
    /\ events' = [events EXCEPT ![eventNextWrite] = e]
    /\ eventNextWrite' = (eventNextWrite + 1) % MaxEventSize
    /\ eventsCnt' = IF eventsCnt = MaxEventSize THEN eventsCnt ELSE eventsCnt + 1
    /\ UNCHANGED popped

\* The index of the k-th oldest event, from 0.
Index(k) == (MaxEventSize + eventNextWrite - eventsCnt + k) % MaxEventSize

\* Mutant: the newest event is popped.
PopMutant ==
    /\ eventsCnt > 0
    /\ popped' = events[Index(eventsCnt - 1)]
    /\ events' = [events EXCEPT ![Index(eventsCnt - 1)] = Invalid]
    /\ eventsCnt' = eventsCnt - 1
    /\ UNCHANGED eventNextWrite

Pop ==
    /\ eventsCnt > 0
    /\ popped' = events[Index(0)]
    /\ events' = [events EXCEPT ![Index(0)] = Invalid]
    /\ eventsCnt' = eventsCnt - 1
    /\ UNCHANGED eventNextWrite

RingNext == Pop \/ \E e \in Events : Insert(e)

RingSpec == RingInit /\ [][RingNext]_ringVars
-----------------------------------------------------------------------------
\* "assert(event->event_type != -1)": however inserts and pops follow each other,
\* an event that was popped, or never was there, is not popped.
NeverPopsInvalid == popped # Invalid

\* The ring holds valid events exactly where its count says.
ValidWhereCounted ==
    \A i \in Indices : events[i] # Invalid <=> \E k \in 0 .. eventsCnt - 1 : i = Index(k)

\* The application gets the events in the order of their insertion, each once;
\* what a full ring loses is always its oldest event.
Contents == [k \in 1 .. eventsCnt |-> events[Index(k - 1)]]
Queue == INSTANCE Fifo WITH
    Capacity <- MaxEventSize, Displacing <- TRUE, queue <- Contents, taken <- popped
IsAQueue == [][Queue!Next]_(Queue!fifoVars)
=============================================================================
