------------------------ MODULE MCExternalDBManager -------------------------
(* A small instance of ExternalDBManager.                                  *)
EXTENDS ExternalDBManager, TLC
=============================================================================
