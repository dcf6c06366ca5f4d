---------------------------- MODULE MCEpollServer ----------------------------
(* EpollServer, instantiated for TLC: only one client sends requests.       *)
EXTENDS EpollServer, TLC

CONSTANTS c1, c2, c3

TwoOfOne == c1 :> 2 @@ c2 :> 0 @@ c3 :> 0

=============================================================================
