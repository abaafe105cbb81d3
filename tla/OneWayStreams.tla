--------------------------- MODULE OneWayStreams ---------------------------
(***************************************************************************)
(* What the streams of a run promise, whichever processor sends and        *)
(* however the two sides find each other: on each of them count messages,  *)
(* numbered from 0, are delivered in the order they were sent and none     *)
(* twice.                                                                  *)
(***************************************************************************)
EXTENDS Naturals, Sequences

CONSTANT Stream

VARIABLES
  count,   \* for each stream, the messages to be exchanged,
  sent,    \* those sent so far,
  rcvd,    \* those accepted so far,
  chan     \* and the numbers of those under way

vars == <<count, sent, rcvd, chan>>

Init ==
  /\ count \in [Stream -> Nat]
  /\ sent = [s \in Stream |-> 0] /\ rcvd = [s \in Stream |-> 0]
  /\ chan = [s \in Stream |-> <<>>]

Send(s) ==
  /\ sent[s] < count[s]
  /\ chan' = [chan EXCEPT ![s] = Append(@, sent[s])]
  /\ sent' = [sent EXCEPT ![s] = @ + 1]
  /\ UNCHANGED <<count, rcvd>>

Receive(s) ==
  /\ chan[s] # <<>> /\ Head(chan[s]) = rcvd[s]
  /\ chan' = [chan EXCEPT ![s] = Tail(@)]
  /\ rcvd' = [rcvd EXCEPT ![s] = @ + 1]
  /\ UNCHANGED <<count, sent>>

Next == \E s \in Stream : Send(s) \/ Receive(s)

\* Nothing is said of whether a sender that is able to go on does so.
SafeSpec == Init /\ [][Next]_vars

Spec == SafeSpec /\ \A s \in Stream : WF_vars(Send(s)) /\ WF_vars(Receive(s))

=============================================================================
