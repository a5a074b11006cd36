---------------------------- MODULE CommandOrder ----------------------------
(***************************************************************************)
(* What the control plane promises about the order of requests, without    *)
(* connections, lines or replies: the server works on one request at a     *)
(* time, takes the requests of a client in the order they were issued and  *)
(* takes none twice.  A lost connection or server costs a client some of   *)
(* its oldest unserved requests; later ones never overtake earlier ones    *)
(* that are still served.                                                  *)
(***************************************************************************)
EXTENDS Sequences, SequencesExt

CONSTANTS Clients, Cmds, None

VARIABLES
  pending,  \* the requests each client issued that the server has not taken
  doing     \* the client and the request the server works on, or None

vars == <<pending, doing>>

Init ==
  /\ pending = [c \in Clients |-> <<>>]
  /\ doing = None

Issue(c, m) ==
  /\ pending' = [pending EXCEPT ![c] = Append(@, m)]
  /\ UNCHANGED doing

Take(c) ==
  /\ doing = None /\ pending[c] # <<>>
  /\ doing' = <<c, Head(pending[c])>>
  /\ pending' = [pending EXCEPT ![c] = Tail(@)]

Finish ==
  /\ doing # None /\ doing' = None
  /\ UNCHANGED pending

Lose ==
  /\ \A c \in Clients : IsSuffix(pending'[c], pending[c])
  /\ doing' \in {doing, None}

Next ==
  \/ Lose \/ Finish
  \/ \E c \in Clients : Take(c) \/ \E m \in Cmds : Issue(c, m)

Spec == Init /\ [][Next]_vars
=============================================================================
