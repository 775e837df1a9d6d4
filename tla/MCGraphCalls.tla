---------------------------- MODULE MCGraphCalls ----------------------------
(* Two names, and a large file of three chunks: three, two and one bytes. *)
EXTENDS GraphCalls

MCBegin == <<0, 3, 5, 6>>
=============================================================================
