----------------------------- MODULE MCUartRx -----------------------------
(* UartRx for TLC: a buffer of three bytes, so lines of up to two fit, and  *)
(* streams of up to six bytes: an overlong line and the end of its tail.    *)
EXTENDS UartRx

===========================================================================
