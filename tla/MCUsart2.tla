------------------------------ MODULE MCUsart2 ------------------------------
(* Usart2 for TLC.                                                          *)
EXTENDS Usart2

=============================================================================
