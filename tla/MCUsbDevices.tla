---------------------------- MODULE MCUsbDevices ----------------------------
(* Two devices with two endpoints each, and two failures between them. *)
EXTENDS UsbDevices

CONSTANTS d1, d2, imu, lightcap

MCDevices == {d1, d2}
MCEndpoints == {imu, lightcap}
=============================================================================
