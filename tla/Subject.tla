------------------------------ MODULE Subject ------------------------------
(***************************************************************************)
(* What the parts of a client have in common when they are checked side by *)
(* side: the "subject", the one part that a behaviour is about, and the    *)
(* wrappers of messages (View), in which the marked number of a channel is *)
(* the negative of Mark + its id.                                          *)
(***************************************************************************)
CONSTANT Mark
VARIABLE subject

View == INSTANCE MessageView
=============================================================================
