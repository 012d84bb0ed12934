--------------------------- MODULE MCTokenRefresh ---------------------------
(* Two sessions of one grant and two calls.  A token lives three instants, *)
(* the buffer is two and headers take one at most; a body takes as long as *)
(* the clock allows, so that tokens arrive dead.                           *)
EXTENDS TokenRefresh
=============================================================================
