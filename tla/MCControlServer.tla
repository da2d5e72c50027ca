-------------------------- MODULE MCControlServer --------------------------
(* Two authorized clients and one whose credentials are rejected.         *)
EXTENDS ControlServer, TLC

CONSTANTS c1, c2, c3

MCClients == {c1, c2, c3}
MCAuthorized == {c1, c2}
MCLiveClients == {c1, c2}
MCTypes == {"start"}
MCArgs == {"known", "unknown"}
MCSendFailsNone == {}
MCSendFailsAll == {"EINTR", "ENOMEM"}
MCSymmetry == Permutations({c1, c2})
=============================================================================
