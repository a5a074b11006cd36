------------------------- MODULE ControlPlaneOrder --------------------------
(***************************************************************************)
(* The control plane implements CommandOrder: with one session served at a *)
(* time and connections accepted oldest first, the requests of a client    *)
(* form one stream, although they travel over several connections.         *)
(***************************************************************************)
EXTENDS ControlPlane, SequencesExt

\* The connections in the order the server gets to them.
ServedOrder == (IF cur = None THEN <<>> ELSE <<cur>>) \o backlog

\* What client c sent and the server has not read yet, oldest first.
Unserved(c) ==
  FlattenSeq([k \in DOMAIN ServedOrder |->
                IF conn[ServedOrder[k]].cl = c THEN conn[ServedOrder[k]].c2s ELSE <<>>])

Order == INSTANCE CommandOrder WITH
           Cmds <- Msgs,
           pending <- [c \in Clients |-> Unserved(c)],
           doing <- IF msg = None THEN None ELSE <<conn[cur].cl, msg>>

\* The requests of each client reach the server in the order it sent them,
\* each at most once, even across a dropped session and its successor: what a
\* lost connection costs is a run of the oldest requests.  So a REVOKE that
\* timed out can still be served late, but never after a newer OFFER.
InOrder == Order!Spec
=============================================================================
