------------------------- MODULE MCConversationView -------------------------
(***************************************************************************)
(* One channel and one direct conversation, between which the user         *)
(* switches.                                                               *)
(***************************************************************************)
EXTENDS ConversationView

=============================================================================
