---------------------------- MODULE MCInstallStore -----------------------------
(* InstallStore with an array of three slots and four ids, one of them the     *)
(* zeros of an unused slot.                                                    *)
EXTENDS InstallStore
================================================================================
