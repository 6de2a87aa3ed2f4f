----------------------------- MODULE MCSweWrites -----------------------------
(* Two sessions of one worker, each with a row of the local catalog, that    *)
(* write files into their containers.                                        *)
EXTENDS SweGrading

=============================================================================
