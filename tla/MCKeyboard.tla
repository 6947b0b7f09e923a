----------------------------- MODULE MCKeyboard -----------------------------
(* Keyboard with a ring of three slots, which starts afresh every third key. *)
EXTENDS Keyboard
=============================================================================
