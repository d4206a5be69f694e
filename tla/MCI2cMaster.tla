---------------------------- MODULE MCI2cMaster ----------------------------
(* I2cMaster for TLC.                                                       *)
EXTENDS I2cMaster

=============================================================================
