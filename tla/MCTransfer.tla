----------------------------- MODULE MCTransfer -----------------------------
(***************************************************************************)
(* Two frames of five bytes through every pair of kinds.                   *)
(***************************************************************************)
EXTENDS Transfer

EveryKind == AllKinds
=============================================================================
