------------------------------ MODULE MCCom2Link ------------------------------
(* Payloads of up to two bytes, the smallest FIFO that holds one with its EOT, *)
(* a buffer that a torn payload and a whole one together overflow.             *)
EXTENDS Com2Link

UpToTwo == 0 .. 2
BothLoops == {"D2", "RunDaemon"}
=============================================================================
