---------------------------- MODULE MCWebSession -----------------------------
(***************************************************************************)
(* WebSession with two calls, two requests at a time and three tokens: a   *)
(* login, refreshes of its token, and a request that outlives the tab's    *)
(* interest in it.                                                         *)
(***************************************************************************)
EXTENDS WebSession
==============================================================================
