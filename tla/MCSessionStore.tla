--------------------------- MODULE MCSessionStore ---------------------------
(* Model checking of SessionStore.                                         *)
EXTENDS SessionStore, TLC
=============================================================================
