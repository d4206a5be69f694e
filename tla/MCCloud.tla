------------------------------ MODULE MCCloud ------------------------------
(* CloudService for TLC.                                                    *)
EXTENDS CloudService

=============================================================================
