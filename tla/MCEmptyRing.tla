---------------------------- MODULE MCEmptyRing ----------------------------
(* WriteFlux with a stream that is not steady.                              *)
EXTENDS WriteFlux

\* A stream that starts with an oscillating region.
AstableFirst ==
  { << <<"space", 8>>, <<"astable", 3>>, <<"flux", 4>>, <<"flux", 3>>, <<"flux", 2>>, <<"end", 0>> >> }
=============================================================================
