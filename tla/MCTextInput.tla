----------------------------- MODULE MCTextInput -----------------------------
(* The path of the text to the engine, for TLC. *)
EXTENDS TextInput
====
