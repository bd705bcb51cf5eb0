---------------------------- MODULE MCChatStore ----------------------------
(* Instances of ChatStore for TLC. *)
EXTENDS ChatStore, TLC

\* Users are interchangeable: no action tells one from another but by its state.
Symmetric == Permutations(Users)
=============================================================================
