----------------------------- MODULE MCAccounts -----------------------------
(* An instance of Accounts for TLC: one player signs in with an old key and  *)
(* a new one, and with a token that names no address.                        *)
EXTENDS Accounts, TLC

CONSTANTS old, new, her, his, home

SomeTokens ==
  {[player |-> her, email |-> home, key |-> old, valid |-> TRUE],
   [player |-> her, email |-> None, key |-> new, valid |-> TRUE],
   [player |-> his, email |-> home, key |-> new, valid |-> FALSE]}
=============================================================================
