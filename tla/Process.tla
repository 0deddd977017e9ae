------------------------------ MODULE Process ------------------------------
(***************************************************************************)
(* The services process, which the modules that can end it share.          *)
(***************************************************************************)
VARIABLE alive   \* services run
=============================================================================
