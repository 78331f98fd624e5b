---------------------------- MODULE MCSignalling ----------------------------
(* Three connections and three names for TLC. *)
EXTENDS Signalling, TLC

CONSTANTS c1, c2, c3, ann, bob, cam, r1

\* Each client has a name of its own.
MCOwnName == c1 :> {ann} @@ c2 :> {bob} @@ c3 :> {cam}

\* A client that reconnects, and one that presents its name or one of its own.
MCReconnecting == c1 :> {ann} @@ c2 :> {ann} @@ c3 :> {ann, bob}

\* The client with a name of its own; exchanging two exchanges their names.
ClientOf(u) == CHOOSE c \in Conns : u \in MCOwnName[c]

OwnNameSymmetry ==
  {p @@ [u \in Uids |-> CHOOSE v \in MCOwnName[p[ClientOf(u)]] : TRUE] : p \in Permutations(Conns)}
=============================================================================
