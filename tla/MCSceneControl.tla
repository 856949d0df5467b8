----------------------------- MODULE MCSceneControl ----------------------------
(* One panel with two keys, a sensor and a light; three scenes an app may set: under *)
(* the panel's id with and without its mac, and one with a trigger.                  *)
EXTENDS SceneControl

CONSTANTS p, s, a, lit, dark

MCRow == {<<LEARN, "off">>, <<CTRL, "off">>, <<"off", LEARN>>, <<"off", CTRL>>}
MCAppScene ==
  {[mac |-> p, major |-> Nobody, minor |-> <<<<CTRL, "off">>, 0>>, type |-> 2,
    trigger |-> {}, item |-> (a :> lit)],
   [mac |-> Nobody, major |-> p, minor |-> <<<<CTRL, "off">>, 0>>, type |-> 2,
    trigger |-> {}, item |-> (Fan :> lit)],
   [mac |-> Nobody, major |-> Nobody, minor |-> <<<<"off", CTRL>>, 0>>, type |-> 3,
    trigger |-> {<<s, lit>>}, item |-> (a :> dark)]}
================================================================================
