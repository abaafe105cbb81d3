------------------------------- MODULE Rounds -------------------------------
(***************************************************************************)
(* What the two programs of the zero-copy test promise each other: they go *)
(* through handshake, streams and data transaction in step, run after run. *)
(* Neither enters a phase before the other has done its part of the one    *)
(* before, and neither is left behind.                                     *)
(***************************************************************************)

VARIABLES
  host,    \* "idle", "handshake", "streams" or "transaction"
  slave    \* "ready", "streams", "transaction" or "replied"

vars == <<host, slave>>

Init == host = "idle" /\ slave = "ready"

HostStart == host = "idle" /\ host' = "handshake" /\ UNCHANGED slave

\* The slave has been told everything; then the host knows that it has.
SlaveAgrees ==
  /\ host = "handshake" /\ slave = "ready"
  /\ slave' = "streams" /\ UNCHANGED host
HostAgrees ==
  /\ host = "handshake" /\ slave = "streams"
  /\ host' = "streams" /\ UNCHANGED slave

\* The streams end on the two sides in either order.
HostStreamed ==
  /\ host = "streams" /\ slave \in {"streams", "transaction"}
  /\ host' = "transaction" /\ UNCHANGED slave
SlaveStreamed ==
  /\ slave = "streams" /\ host \in {"streams", "transaction"}
  /\ slave' = "transaction" /\ UNCHANGED host

SlaveReplies ==
  /\ host = "transaction" /\ slave = "transaction"
  /\ slave' = "replied" /\ UNCHANGED host

\* After the reply each side ends the run on its own.
HostEnds ==
  /\ host = "transaction" /\ slave \in {"replied", "ready"}
  /\ host' = "idle" /\ UNCHANGED slave
SlaveEnds == slave = "replied" /\ slave' = "ready" /\ UNCHANGED host

Progress ==
  \/ SlaveAgrees \/ HostAgrees \/ HostStreamed \/ SlaveStreamed
  \/ SlaveReplies \/ HostEnds \/ SlaveEnds

Next == HostStart \/ Progress

\* A run that has been started is carried through.
Spec == Init /\ [][Next]_vars /\ WF_vars(Progress)

=============================================================================
