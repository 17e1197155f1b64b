----------------------------- MODULE CommandLink -----------------------------
(***************************************************************************)
(* The operator's side of the drive connection: the keypress loop and the  *)
(* thread of send_action in main/record_trajectory.py (Retries = 5), and   *)
(* the same pair, Env.step and send_action, in main/env.py (Retries = 1).  *)
(*                                                                         *)
(* They share the global next_action without a lock: a keypress stores the *)
(* newest command in it, the thread sends it and stores None.  When the    *)
(* connection fails the command stays there, and after Retries failures    *)
(* ssh is started again.                                                   *)
(*                                                                         *)
(* Commands are numbered in the order of the keypresses; what they say     *)
(* does not matter here.                                                   *)
(***************************************************************************)
EXTENDS Integers, Sequences

CONSTANTS Retries,    \* connection attempts per start of ssh
          MaxPosts,   \* bound: keypresses
          MaxFaults   \* bound: failures of the network or of the listener

ASSUME LinkAssumption == Retries \in Nat \ {0} /\ MaxPosts \in Nat /\ MaxFaults \in Nat

VARIABLES posted,       \* number of the newest command
          next_action,  \* the command to send, or None
          sender,       \* where the thread of send_action is
          tries,        \* what is left of "for _ in range(5)"
          dumped,       \* the command json.dumps has read
          listening,    \* the listener on the car accepts connections
          link,         \* the sender's connection: none, up, dead (unnoticed), closed
          wire,         \* the commands in flight on it
          leftover,     \* those of earlier connections that have reached the car
          handled,      \* the command the listener handled last
          faults,       \* failures so far
          sent,         \* history: the last command whose send returned
          erased,       \* history: the last command removed unsent by the sender
          lost          \* history: the newest command lost with its connection

linkVars == <<listening, link, wire, leftover, handled, faults>>
vars == <<posted, next_action, sender, tries, dumped, linkVars, sent, erased, lost>>
-----------------------------------------------------------------------------
None == 0
Commands == 1 .. MaxPosts

TypeOK ==
    /\ posted \in 0 .. MaxPosts
    /\ next_action \in Commands \cup {None}
    /\ sender \in {"launch", "connect", "check", "dump", "send", "clear"}
    /\ tries \in 0 .. Retries
    /\ dumped \in Commands \cup {None}
    /\ listening \in BOOLEAN
    /\ link \in {"none", "up", "dead", "closed"}
    /\ wire \in Seq(Commands) /\ leftover \in Seq(Commands)
    /\ handled \in Commands \cup {None}
    /\ faults \in 0 .. MaxFaults
    /\ sent \in 0 .. MaxPosts /\ erased \in 0 .. MaxPosts /\ lost \in 0 .. MaxPosts

Init ==
    /\ posted = 0 /\ next_action = None
    /\ sender = "launch" /\ tries = 0 /\ dumped = None
    /\ listening = FALSE /\ link = "none" /\ wire = <<>> /\ leftover = <<>>
    /\ handled = None /\ faults = 0
    /\ sent = 0 /\ erased = 0 /\ lost = 0

\* What goes with a connection is lost.  Commands are sent in order, so the
\* last is the newest.
Lose(gone) ==
    LET newest == gone[Len(gone)]
    IN  lost' = IF gone # <<>> /\ newest > lost THEN newest ELSE lost
-----------------------------------------------------------------------------
(* The operator. *)

\* Mutant: a command that is still waiting is not replaced.
PostMutant ==
    /\ posted < MaxPosts
    /\ posted' = posted + 1
    /\ next_action' = IF next_action = None THEN posted + 1 ELSE next_action
    /\ UNCHANGED <<sender, tries, dumped, linkVars, sent, erased, lost>>

\* A key is read, the speeds are adjusted, and the command replaces the one
\* waiting.  Env.step does the same with the action it is given.
Post ==
    /\ posted < MaxPosts
    /\ posted' = posted + 1
    /\ next_action' = posted + 1
    /\ UNCHANGED <<sender, tries, dumped, linkVars, sent, erased, lost>>
-----------------------------------------------------------------------------
(* The thread of send_action. *)

SenderAt(point) == sender = point /\ UNCHANGED posted

\* ssh starts a listener on the car (see ListenerRestart for its start).
Launch ==
    /\ SenderAt("launch")
    /\ sender' = "connect" /\ tries' = Retries
    /\ UNCHANGED <<next_action, dumped, linkVars, sent, erased, lost>>

Connect ==
    /\ SenderAt("connect") /\ listening
    /\ sender' = "check"
    /\ link' = "up" /\ wire' = <<>> /\ leftover' = leftover \o wire
    /\ UNCHANGED <<next_action, tries, dumped, listening, handled, faults, sent, erased, lost>>

\* An exception of connect or send: another attempt, or ssh again.  The
\* command stays in next_action.
Fail ==
    /\ tries' = tries - 1
    /\ sender' = IF tries = 1 THEN "launch" ELSE "connect"

ConnectFails ==
    /\ SenderAt("connect") /\ ~listening
    /\ Fail
    /\ UNCHANGED <<next_action, dumped, linkVars, sent, erased, lost>>

Check ==
    /\ SenderAt("check") /\ next_action # None
    /\ sender' = "dump"
    /\ UNCHANGED <<next_action, tries, dumped, linkVars, sent, erased, lost>>

\* json.dumps reads next_action anew.
Dump ==
    /\ SenderAt("dump")
    /\ sender' = "send" /\ dumped' = next_action
    /\ UNCHANGED <<next_action, tries, linkVars, sent, erased, lost>>

\* On a connection that is dead but not yet known to be, the send returns too.
Send ==
    /\ SenderAt("send") /\ link \in {"up", "dead"}
    /\ sender' = "clear" /\ sent' = dumped
    /\ wire' = IF link = "up" THEN Append(wire, dumped) ELSE wire
    /\ Lose(IF link = "up" THEN <<>> ELSE <<dumped>>)
    /\ UNCHANGED <<next_action, tries, dumped, listening, link, leftover, handled, faults,
                   erased>>

\* Mutant: the send is tried again on the connection that is closed.
SendFailsMutant ==
    /\ SenderAt("send") /\ link = "closed"
    /\ UNCHANGED <<next_action, sender, tries, dumped, linkVars, sent, erased, lost>>

\* Mutant: the command is forgotten with the connection.
SendForgetsMutant ==
    /\ SenderAt("send") /\ link = "closed"
    /\ Fail
    /\ link' = "none" /\ next_action' = None
    /\ UNCHANGED <<dumped, listening, wire, leftover, handled, faults, sent, erased, lost>>

\* next_action stays as it is: it is sent on the next connection.
SendFails ==
    /\ SenderAt("send") /\ link = "closed"
    /\ Fail
    /\ link' = "none"
    /\ UNCHANGED <<next_action, dumped, listening, wire, leftover, handled, faults, sent,
                   erased, lost>>

\* Mutant: the command is not removed after it has been sent.
ClearMutant ==
    /\ SenderAt("clear")
    /\ sender' = "check"
    /\ UNCHANGED <<next_action, tries, dumped, linkVars, sent, erased, lost>>

\* next_action = None, whatever has been stored there since json.dumps.
Clear ==
    /\ SenderAt("clear")
    /\ sender' = "check" /\ next_action' = None
    /\ erased' = IF next_action # dumped THEN next_action ELSE erased
    /\ UNCHANGED <<tries, dumped, linkVars, sent, lost>>

Sender == Launch \/ Connect \/ ConnectFails \/ Check \/ Dump \/ Send \/ SendFails \/ Clear
-----------------------------------------------------------------------------
(* The network and the listener. *)

Environment == UNCHANGED <<posted, next_action, sender, tries, dumped, sent, erased>>

Listen ==
    /\ ~listening
    /\ listening' = TRUE
    /\ Environment /\ UNCHANGED <<link, wire, leftover, handled, faults, lost>>

\* A prefix of what was in flight has reached the car.
Break(how) ==
    /\ link = "up" /\ faults < MaxFaults
    /\ link' = how /\ faults' = faults + 1
    /\ \E n \in 0 .. Len(wire) :
          /\ wire' = SubSeq(wire, 1, n)
          /\ Lose(SubSeq(wire, n + 1, Len(wire)))
    /\ Environment /\ UNCHANGED <<listening, leftover, handled>>

\* What is sent on a dead connection is lost; sooner or later it is noticed.
Notice ==
    /\ link = "dead"
    /\ link' = "closed"
    /\ Environment /\ UNCHANGED <<listening, wire, leftover, handled, faults, lost>>

\* The listener process ends, and everything it had received with it.
ListenerStops ==
    /\ listening /\ faults < MaxFaults
    /\ listening' = FALSE /\ faults' = faults + 1
    /\ link' = IF link \in {"up", "dead"} THEN "closed" ELSE link
    /\ wire' = <<>> /\ leftover' = <<>> /\ Lose(leftover \o wire)
    /\ Environment /\ UNCHANGED handled

\* socket_response on the current connection, or its task on an earlier one.
Handle ==
    /\ wire # <<>>
    /\ handled' = Head(wire) /\ wire' = Tail(wire)
    /\ Environment /\ UNCHANGED <<listening, link, leftover, faults, lost>>

HandleLeftover ==
    /\ leftover # <<>>
    /\ handled' = Head(leftover) /\ leftover' = Tail(leftover)
    /\ Environment /\ UNCHANGED <<listening, link, wire, faults, lost>>

Next ==
    \/ Post
    \/ Sender
    \/ Listen \/ Notice \/ ListenerStops \/ Handle \/ HandleLeftover
    \/ \E how \in {"dead", "closed"} : Break(how)

Spec == Init /\ [][Next]_vars

\* The thread runs, the listener that ssh starts comes up in the end, and a
\* dead connection is noticed.  Faults are finite (MaxFaults).
FairSpec ==
    /\ Spec
    /\ WF_vars(Sender) /\ WF_vars(Listen) /\ WF_vars(Notice)
    /\ WF_vars(Handle) /\ WF_vars(HandleLeftover)
-----------------------------------------------------------------------------
\* The newest command is waiting to be sent, or its send has returned, or the
\* sender has erased it: and that happens only to a command that was stored
\* while an older one was being sent.
NewestAccountedFor ==
    posted > 0 =>
        \/ next_action = posted
        \/ sent = posted
        \/ erased = posted /\ sent < posted

\* A command is handed to a connection at most once, and never after a newer
\* one: what a failed connection left behind is not repeated.
SentOnce == [][sender = "send" /\ sender' = "clear" => dumped > sent]_vars

\* The sender is never stuck with a command: through refused connections, lost
\* ones and restarts of ssh it is sent in the end.
CommandIsSent == next_action # None ~> next_action = None

\* When the operator stops, the newest command reaches the listener, whatever
\* failed before and whatever fails yet: unless it was erased unsent, or it had
\* been handed to a connection that was dead by then or broke under it.  (That
\* it stays the last is not said: what an earlier connection left over may be
\* handled after it.)
NewestIsHandled ==
    posted = MaxPosts /\ sent < MaxPosts ~> MaxPosts \in {handled, erased, lost}
=============================================================================
