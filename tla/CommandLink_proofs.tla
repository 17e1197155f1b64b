------------------------- MODULE CommandLink_proofs -------------------------
(***************************************************************************)
(* For any number of keypresses, attempts and faults: what becomes of the  *)
(* newest command, and that none is sent again.                            *)
(***************************************************************************)
EXTENDS CommandLink, SequenceTheorems, TLAPS

\* What the sender keeps.  Attempts are used up exactly when ssh is started.
SenderTypes ==
    /\ posted \in 0 .. MaxPosts
    /\ next_action \in Commands \cup {None}
    /\ sender \in {"launch", "connect", "check", "dump", "send", "clear"}
    /\ tries \in 0 .. Retries /\ (sender # "launch" => tries > 0)
    /\ dumped \in Commands \cup {None}
    /\ sent \in 0 .. MaxPosts /\ erased \in 0 .. MaxPosts

\* What the network keeps.
NetTypes ==
    /\ listening \in BOOLEAN
    /\ link \in {"none", "up", "dead", "closed"}
    /\ wire \in Seq(Commands) /\ leftover \in Seq(Commands)
    /\ handled \in Commands \cup {None}
    /\ faults \in 0 .. MaxFaults
    /\ lost \in 0 .. MaxPosts

\* What waits is the newest command, and once the sender has looked at it, it
\* stays until it is cleared.  It is newer than what was sent, except while the
\* sender has sent it and not yet cleared it.
NewestWaits ==
    /\ next_action # None => next_action = posted
    /\ sender \in {"dump", "send", "clear"} => next_action # None
    /\ next_action # None /\ sender # "clear" => sent < next_action

\* What was read goes out once: it is newer than the one before until it is sent.
ReadInOrder ==
    /\ sender \in {"send", "clear"} => dumped # None
    /\ dumped <= posted /\ sent <= dumped
    /\ sender = "send" => sent < dumped
    /\ sender = "clear" => sent = dumped

IInv == SenderTypes /\ NetTypes /\ NewestWaits /\ ReadInOrder /\ NewestAccountedFor

LEMMA InitIInv == Init => IInv
<1> SUFFICES ASSUME Init PROVE IInv
  OBVIOUS
<1>1. <<>> \in Seq(Commands)
  OBVIOUS
<1>2. NetTypes
  <2>1. wire \in Seq(Commands) /\ leftover \in Seq(Commands)
    BY <1>1, Zenon DEF Init
  <2>2. listening = FALSE /\ link = "none" /\ handled = None /\ faults = 0 /\ lost = 0
    BY DEF Init
  <2>3. faults \in 0 .. MaxFaults /\ lost \in 0 .. MaxPosts
    BY <2>2, LinkAssumption
  <2> QED
    BY <2>1, <2>2, <2>3 DEF NetTypes
<1>3. SenderTypes /\ NewestWaits /\ ReadInOrder /\ NewestAccountedFor
  BY LinkAssumption DEF Init, SenderTypes, NewestWaits, ReadInOrder, NewestAccountedFor, None
<1> QED
  BY <1>2, <1>3 DEF IInv

\* Only commands are lost.
LEMMA LoseTypes ==
  ASSUME NEW gone \in Seq(Commands), lost \in 0 .. MaxPosts, Lose(gone)
  PROVE  lost' \in 0 .. MaxPosts
<1>1. CASE gone = <<>>
  BY <1>1 DEF Lose
<1>2. CASE gone # <<>>
  <2>1. gone[Len(gone)] \in Commands
    BY <1>2, ElementOfSeq, EmptySeq, LenProperties
  <2> QED
    BY <1>2, <2>1, LinkAssumption DEF Lose, Commands
<1> QED
  BY <1>1, <1>2

\* A keypress stores a command that is newer than all.
LEMMA PostIInv == ASSUME IInv, Post PROVE IInv'
<1>1. NetTypes'
  BY DEF Post, linkVars, IInv, NetTypes
<1>2. posted' = posted + 1 /\ posted' \in Commands /\ next_action' = posted'
  BY LinkAssumption DEF Post, IInv, SenderTypes, Commands
<1>3. UNCHANGED <<sender, tries, dumped, sent, erased>>
  BY DEF Post
<1>4. SenderTypes'
  BY <1>2, <1>3 DEF IInv, SenderTypes, Commands
<1>5. NewestWaits' /\ ReadInOrder' /\ NewestAccountedFor'
  BY <1>2, <1>3, LinkAssumption DEF IInv, SenderTypes, NewestWaits, ReadInOrder,
     NewestAccountedFor, Commands, None
<1> QED
  BY <1>1, <1>4, <1>5 DEF IInv

\* The network's steps concern its own variables.
LEMMA EnvironmentIInv ==
  ASSUME IInv, Environment, NetTypes'
  PROVE  IInv'
  BY DEF Environment, IInv, SenderTypes, NewestWaits, ReadInOrder, NewestAccountedFor

LEMMA NetworkTypes ==
  ASSUME IInv,
         \/ Listen \/ Notice \/ ListenerStops \/ Handle \/ HandleLeftover
         \/ \E how \in {"dead", "closed"} : Break(how)
  PROVE  NetTypes' /\ Environment
<1>1. wire \in Seq(Commands) /\ leftover \in Seq(Commands) /\ <<>> \in Seq(Commands)
  BY DEF IInv, NetTypes
<1>2. CASE Listen \/ Notice
  BY <1>2 DEF Listen, Notice, IInv, NetTypes
<1>6. CASE ListenerStops
  <2>1. faults' \in 0 .. MaxFaults
    BY <1>6, LinkAssumption DEF ListenerStops, IInv, NetTypes
  <2>2. leftover \o wire \in Seq(Commands)
    BY <1>1, ConcatProperties
  <2>3. lost' \in 0 .. MaxPosts
    BY <1>6, <2>2, LoseTypes DEF ListenerStops, IInv, NetTypes
  <2> QED
    BY <1>1, <1>6, <2>1, <2>3 DEF ListenerStops, IInv, NetTypes
<1>3. CASE Handle
  <2>1. Head(wire) \in Commands /\ Tail(wire) \in Seq(Commands)
    BY <1>1, <1>3, HeadTailProperties DEF Handle
  <2> QED
    BY <1>1, <1>3, <2>1 DEF Handle, IInv, NetTypes
<1>4. CASE HandleLeftover
  <2>1. Head(leftover) \in Commands /\ Tail(leftover) \in Seq(Commands)
    BY <1>1, <1>4, HeadTailProperties DEF HandleLeftover
  <2> QED
    BY <1>1, <1>4, <2>1 DEF HandleLeftover, IInv, NetTypes
<1>5. ASSUME NEW how \in {"dead", "closed"}, Break(how)
      PROVE  NetTypes' /\ Environment
  <2>1. PICK n \in 0 .. Len(wire) :
           wire' = SubSeq(wire, 1, n) /\ Lose(SubSeq(wire, n + 1, Len(wire)))
    BY <1>5 DEF Break
  <2>2. \A i \in 1 .. n : wire[i] \in Commands
    BY <1>1, <2>1
  <2>3. wire' \in Seq(Commands)
    BY <2>1, <2>2, SubSeqProperties
  <2>4. \A i \in n + 1 .. Len(wire) : wire[i] \in Commands
    BY <1>1, <2>1
  <2>5. SubSeq(wire, n + 1, Len(wire)) \in Seq(Commands)
    BY <1>1, <2>1, <2>4, SubSeqProperties
  <2>6. lost' \in 0 .. MaxPosts
    BY <2>1, <2>5, LoseTypes DEF IInv, NetTypes
  <2> QED
    BY <1>1, <1>5, <2>3, <2>6, LinkAssumption DEF Break, IInv, NetTypes
<1> QED
  BY <1>2, <1>3, <1>4, <1>5, <1>6

\* Another attempt is counted, or ssh is started: the command stays.
LEMMA FailIInv ==
  ASSUME IInv, sender \in {"connect", "send"}, Fail, NetTypes',
         UNCHANGED <<posted, next_action, dumped, sent, erased>>
  PROVE  IInv'
  BY LinkAssumption DEF Fail, IInv, SenderTypes, NewestWaits, ReadInOrder, NewestAccountedFor

\* Every step of the sender keeps the invariant.
LEMMA SenderIInv == ASSUME IInv, Sender PROVE IInv'
<1> USE DEF SenderAt, linkVars
<1>1. CASE Launch \/ Check \/ Dump
  <2>1. NetTypes'
    BY <1>1 DEF Launch, Check, Dump, IInv, NetTypes
  <2> QED
    BY <1>1, <2>1, LinkAssumption DEF Launch, Check, Dump, IInv, SenderTypes, NewestWaits,
       ReadInOrder, NewestAccountedFor, Commands, None
<1>2. CASE Connect
  <2>1. leftover \o wire \in Seq(Commands) /\ <<>> \in Seq(Commands)
    BY ConcatProperties DEF IInv, NetTypes
  <2>2. NetTypes'
    BY <1>2, <2>1 DEF Connect, IInv, NetTypes
  <2> QED
    BY <1>2, <2>2 DEF Connect, IInv, SenderTypes, NewestWaits, ReadInOrder, NewestAccountedFor
<1>3. CASE ConnectFails \/ SendFails
  <2>1. NetTypes'
    BY <1>3 DEF ConnectFails, SendFails, IInv, NetTypes
  <2> QED
    BY <1>3, <2>1, FailIInv DEF ConnectFails, SendFails
<1>4. CASE Send
  <2>1. dumped \in Commands
    BY <1>4 DEF Send, IInv, SenderTypes, ReadInOrder
  <2>3. lost' \in 0 .. MaxPosts
    <3>1. <<>> \in Seq(Commands) /\ <<dumped>> \in Seq(Commands)
      BY <2>1
    <3> QED
      BY <1>4, <3>1, LoseTypes DEF Send, IInv, NetTypes
  <2>2. NetTypes'
    BY <1>4, <2>1, <2>3, AppendProperties DEF Send, IInv, NetTypes
  <2> QED
    BY <1>4, <2>1, <2>2, LinkAssumption DEF Send, IInv, SenderTypes, NewestWaits, ReadInOrder,
       NewestAccountedFor, Commands, None
<1>5. CASE Clear
  BY <1>5, LinkAssumption DEF Clear, IInv, SenderTypes, NetTypes, NewestWaits, ReadInOrder,
     NewestAccountedFor, Commands, None
<1> QED
  BY <1>1, <1>2, <1>3, <1>4, <1>5 DEF Sender

LEMMA NextIInv == IInv /\ [Next]_vars => IInv'
<1> SUFFICES ASSUME IInv, [Next]_vars PROVE IInv'
  OBVIOUS
<1>1. CASE Post \/ Sender
  BY <1>1, PostIInv, SenderIInv
<1>2. CASE \/ Listen \/ Notice \/ ListenerStops \/ Handle \/ HandleLeftover
           \/ \E how \in {"dead", "closed"} : Break(how)
  BY <1>2, NetworkTypes, EnvironmentIInv
<1>3. CASE UNCHANGED vars
  BY <1>3 DEF vars, linkVars, IInv, SenderTypes, NetTypes, NewestWaits, ReadInOrder,
     NewestAccountedFor
<1> QED
  BY <1>1, <1>2, <1>3 DEF Next

LEMMA Invariance == Spec => []IInv
  BY InitIInv, NextIInv, PTL DEF Spec

\* Both programs stay in their types; in particular only commands are in flight,
\* for what is read to be sent is never None.
THEOREM LinkTypeCorrect == Spec => []TypeOK
<1>1. IInv => TypeOK
  BY DEF IInv, SenderTypes, NetTypes, TypeOK
<1> QED
  BY <1>1, Invariance, PTL

\* However many keys are pressed and connections lost, the newest command is to
\* be sent, was sent, or was erased because it came while an older one was sent.
THEOREM NewestAlwaysAccountedFor == Spec => []NewestAccountedFor
<1>1. IInv => NewestAccountedFor
  BY DEF IInv
<1> QED
  BY <1>1, Invariance, PTL

\* No command is handed to a connection twice, nor after a newer one, whatever
\* fails in between.
THEOREM SentOnceAlways == Spec => SentOnce
<1>1. IInv /\ [Next]_vars => [sender = "send" /\ sender' = "clear" => dumped > sent]_vars
  BY DEF IInv, ReadInOrder, SenderTypes, Commands, None
<1> QED
  BY <1>1, Invariance, PTL DEF Spec, SentOnce
=============================================================================
