---------------------------- MODULE MCNotifGraph ----------------------------
(* Three services, every configuration of starton lists of up to two names *)
(* (one of them possibly unknown) and stopon lists of one name.            *)
EXTENDS NotifGraph

CONSTANTS a, b, c, ghost

MCSvc == {a, b, c}
MCRepoOrder == <<a, b, c>>
=============================================================================
