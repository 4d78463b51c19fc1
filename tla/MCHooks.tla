------------------------------ MODULE MCHooks ------------------------------
(* Phases with up to three hooks, fatal and not, with and without timeouts *)
(* and with states that fit into a pipe and that do not.                   *)
EXTENDS Hooks

AllConfigs ==
  [phase : {"createRuntime", "poststop"}, big : BOOLEAN,
   hooks : {<<>>, <<TRUE>>, <<FALSE, TRUE>>, <<TRUE, TRUE>>, <<TRUE, TRUE, TRUE>>}]
=============================================================================
