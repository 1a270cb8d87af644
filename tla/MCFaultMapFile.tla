--------------------------- MODULE MCFaultMapFile ---------------------------
(* Four columns: one plane, split into bursts of one or two, or two channels, *)
(* or two planes of a different device.                                      *)
EXTENDS FaultMapFile

Shape(g, ch, p, col, bl) ==
  [geometry |-> g, channels |-> ch, planes |-> p, columns |-> col, BL |-> bl]

MCConfigs ==
  {Shape(8, 1, 1, 4, 1), Shape(8, 1, 1, 4, 2), Shape(8, 2, 1, 2, 2),
   Shape(4, 1, 2, 2, 2)}
MCOneChannel == {Shape(8, 1, 1, 2, 2)}

Weak(b, p) == [bit |-> b, prob |-> <<p, 3>>]
MCStructs ==
  {[hardfault |-> <<0, 0>>, vrt_size |-> 0, vrt |-> <<>>],
   [hardfault |-> <<1, 2>>, vrt_size |-> 1, vrt |-> <<Weak(5, 1)>>],
   [hardfault |-> <<4, 0>>, vrt_size |-> 2, vrt |-> <<Weak(6, 2), Weak(7, 2)>>]}

MCJunk == {[bit |-> 200, prob |-> <<9, 9>>]}
=============================================================================
