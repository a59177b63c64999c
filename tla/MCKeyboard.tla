----------------------------- MODULE MCKeyboard ------------------------------
(***************************************************************************)
(* Readers at one keyboard, for TLC: three of them with buffers of one and *)
(* two characters, or one who may be interrupted where it hurts.           *)
(***************************************************************************)
EXTENDS Keyboard
=============================================================================
