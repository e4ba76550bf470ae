---------------------------- MODULE MCPublication ----------------------------
(***************************************************************************)
(* Two downloads of one file name, the second of unknown size.             *)
(***************************************************************************)
EXTENDS Publication, TLC

CONSTANTS file, second

Tried == <<file>>
OneVariant == (file :> <<second>>) @@ (second :> <<>>)
=============================================================================
