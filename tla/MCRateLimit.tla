---------------------------- MODULE MCRateLimit ----------------------------
(***************************************************************************)
(* Instances of RateLimit for TLC.                                         *)
(***************************************************************************)
EXTENDS RateLimit, TLC

CONSTANTS c1, i1   \* named so that StuckCounter can refer to them

OneIdentity == [c \in Clients |-> CHOOSE b \in Identities : TRUE]

NoStuck == {}

StuckCounter == {[scope |-> i1, service |-> NoService, key |-> c1]}

AllKeys == CounterKeys

BannableKeys == {k \in CounterKeys : k.service # NoService}

Symmetry == Permutations(Requests)
=============================================================================
