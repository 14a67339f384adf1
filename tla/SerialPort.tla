----------------------------- MODULE SerialPort -----------------------------
(***************************************************************************)
(* What the two views of a port of class Serial share: PortSettings, its   *)
(* descriptor and settings, and SerialIO, its transfers.                   *)
(***************************************************************************)
VARIABLES
  lib,    \* "serial", "windows" or "lidar": which of the libraries it is
  isOpen  \* is_open_
=============================================================================
