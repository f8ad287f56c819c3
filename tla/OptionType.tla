----------------------------- MODULE OptionType -----------------------------
(***************************************************************************)
(* Option::None, where a component's state or result is an Option.         *)
(***************************************************************************)

CONSTANT None

=============================================================================
