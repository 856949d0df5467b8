----------------------------- MODULE MCDeviceTable -----------------------------
(* DeviceTable with as many slots as devices, all of them alarms: slots are    *)
(* freed in any order and records spill over holes.  Nothing is claimed once a *)
(* start has read a record torn behind a free slot, nor is it followed.        *)
EXTENDS DeviceTable, TLC

CONSTANTS d1, d2, d3

Alike   == Permutations({d1, d2, d3})
NotTorn == ~torn
================================================================================
