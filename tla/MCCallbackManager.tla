-------------------------- MODULE MCCallbackManager --------------------------
(* Small instances of CallbackManager. *)
EXTENDS CallbackManager

CONSTANTS r1, r2, r3
=============================================================================
