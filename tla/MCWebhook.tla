------------------------------ MODULE MCWebhook ------------------------------
(***************************************************************************)
(* Instances of BotWebhook for TLC: a bot that may be deleted and added    *)
(* again, two base URLs, two lists and two requests at a time.             *)
(***************************************************************************)
EXTENDS BotWebhook, TLC

Symmetric == Permutations(Requests) \cup Permutations(Bases)

==============================================================================
