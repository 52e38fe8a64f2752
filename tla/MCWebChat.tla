------------------------------ MODULE MCWebChat ------------------------------
(* The instance of WebChat that TLC checks: the bounds are in its .cfg.    *)
EXTENDS WebChat
=============================================================================
