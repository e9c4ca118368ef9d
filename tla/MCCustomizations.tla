-------------------------- MODULE MCCustomizations --------------------------
(***************************************************************************)
(* Customizations with two apps, a blob of one chunk and one of two. The   *)
(* first chunk of one of the apps is asked for, and a file of the first    *)
(* time comes or comes back.                                               *)
(***************************************************************************)
EXTENDS Customizations, TLC

CONSTANTS a1, b1, b2

MCChunks == b1 :> 1 @@ b2 :> 2
MCAsked  == {<<a1, 0>>}
MCRestored == {[time |-> 1, blob |-> b1]}

=============================================================================
