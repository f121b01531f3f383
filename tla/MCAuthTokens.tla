---------------------------- MODULE MCAuthTokens -----------------------------
(***************************************************************************)
(* AuthTokens with two requests at a time and three tokens: a login and    *)
(* two refreshes of its token, in any interleaving, against a logout.      *)
(***************************************************************************)
EXTENDS AuthTokens
==============================================================================
