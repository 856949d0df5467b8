----------------------------- MODULE MCLocalUsers ------------------------------
(* LocalUsers with fewer slots than users, so that users are evicted while     *)
(* their threads are in recv.                                                  *)
EXTENDS LocalUsers
================================================================================
