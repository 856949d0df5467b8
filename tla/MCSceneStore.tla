----------------------------- MODULE MCSceneStore ------------------------------
(* SceneStore with an array of three slots and four host ids, one of them the  *)
(* zeros of an unused slot: the array fills, overflows and shrinks.            *)
EXTENDS SceneStore
================================================================================
