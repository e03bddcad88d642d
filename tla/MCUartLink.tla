---------------------------- MODULE MCUartLink ----------------------------
(* UartLink for TLC.                                                        *)
EXTENDS UartLink
===========================================================================
