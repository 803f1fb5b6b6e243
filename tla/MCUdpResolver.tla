---------------------------- MODULE MCUdpResolver ----------------------------
(***************************************************************************)
(* An instance of UdpResolver for TLC.  With IntRange = 1024 the numbers   *)
(* of four digits do what those of ten digits do in the code.              *)
(***************************************************************************)
EXTENDS UdpResolver

CONSTANTS c1, c2

Words == { <<>>, <<0>>, <<1>>, <<0, 1>>, <<2, 5, 5>>, <<2, 5, 6>>,
           <<1, 0, 2, 5>>, <<9, 9, 9, 9>>, <<Letter>>, <<Letter, 1>>,
           <<Letter, Hyphen>>, <<Other, Letter>> }

AllSamples == UNION {[1..n -> Words] : n \in 1..5}

\* A name, and a text that is refused.
SomeQueries == { << <<Letter>>, <<Letter, 1>> >>, << <<1>>, <<>>, <<1>> >> }
==============================================================================
