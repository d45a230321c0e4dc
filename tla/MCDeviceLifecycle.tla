------------------------- MODULE MCDeviceLifecycle --------------------------
(* Small instances of DeviceLifecycle: one host and one or two request threads. *)
EXTENDS DeviceLifecycle, TLC

CONSTANTS h1, h2
=============================================================================
