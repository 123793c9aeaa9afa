---------------------------- MODULE MCWriteFlux ----------------------------
(* Small instances of WriteFlux for TLC.                                    *)
EXTENDS WriteFlux

F(n) == <<"flux", n>>
S(n) == <<"space", n>>
A(n) == <<"astable", n>>
E == <<"end", 0>>

\* Long enough to start with a full ring: merged, split and oscillating fluxes
\* and a bad period.
MCStreams == {
  <<F(3), F(1), F(1), F(5), F(4), F(2), F(4), F(2), F(3), F(2), S(17), F(5),
    F(3), S(8), A(3), F(4), F(3), F(1), E>>,
  <<F(2), F(3), F(4), F(2), F(7), F(2), F(2), F(3), F(3), S(15), F(3), F(2), F(7), F(1),
    S(5), S(3), F(2), F(5), F(2), E>>,
  <<F(2), F(2), F(3), F(5), F(4), F(2), F(4), F(3), F(3), F(3), S(5), A(1), F(3), F(2), E>> }

\* The streams are those the theorems on the ring are about.
ASSUME SteadyAssumption == \A s \in MCStreams : Steady(s)
=============================================================================
