---------------------------- MODULE MCTargetWalk ----------------------------
(* Two services loaded from fa and fb, and a file fx no service comes from. *)
EXTENDS TargetWalk

CONSTANTS a, b, fa, fb, fx

MCSvc == {a, b}
MCFiles == {fa, fb, fx}
MCConfPath == (a :> fa) @@ (b :> fb)
MCDests == {fa, fb, fx, "dangling", "outside", "badbase"}
=============================================================================
