--------------------------- MODULE MCMaintenance ---------------------------
(* Configurations and control sequences of Maintenance for TLC.            *)
EXTENDS Maintenance

Setting(m, c, closed, behavioral) ==
  [mode |-> m, commands |-> c, closed |-> closed, behavioral |-> behavioral]

\* Automatic self-refresh with a mode register write and under the open-page
\* policy, the other automatic mode, and power-down under the frontend's
\* control.
UsualSetups ==
  {Setting("self_refresh", <<"MRW">>, TRUE, TRUE),
   Setting("self_refresh", <<>>, FALSE, TRUE),
   Setting("power_down", <<>>, FALSE, FALSE),
   Setting("off", <<"PDE", "PDX">>, FALSE, TRUE),
   Setting("off", <<"PDE", "PDX">>, FALSE, FALSE)}

\* The end of the init_sequence lpddr6_full.
RoundTrip == {Setting("off", <<"SREFEN", "SREFEX">>, TRUE, FALSE)}

NoControls == {Setting("off", <<>>, TRUE, FALSE)}
=============================================================================
