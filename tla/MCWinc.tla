------------------------------- MODULE MCWinc -------------------------------
(* WincSocket for TLC.                                                      *)
EXTENDS WincSocket

=============================================================================
