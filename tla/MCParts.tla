------------------------------ MODULE MCParts -------------------------------
(* Parts for TLC: two applications, of two ports and of one; three versions *)
(* of the binaries, the last as long as the first; every script of up to    *)
(* four steps.                                                              *)
EXTENDS Parts

SmallNames   == 1..8
SmallPorts   == <<<<80, 443>>, <<80>>>>
SmallSize    == <<2, 3, 2>>
SmallScripts == UNION {[1..n -> {"line", "part", "fork"}] : n \in 0..4}
SmallLengths == 1..25
=============================================================================
