------------------------------ MODULE MCFraming ------------------------------
(* Bodies that look like headers, an empty one and one of ten bytes; noise  *)
(* with a wrong length, with a length and junk, and without any length.     *)
EXTENDS Framing

MCBodies == {<<>>, <<1, Hash>>, <<Other, 2, Hash, Hash, 0, 0, Hash, 9, 1, Hash>>}
MCNoise == {<<1, Hash, 3, 2, Hash, Other>>, <<2, Other, Hash, Other>>, <<Other, Hash>>,
            <<Hash, 1>>}
=============================================================================
