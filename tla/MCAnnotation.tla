---------------------------- MODULE MCAnnotation ----------------------------
(* Instances of Annotation for TLC.                                        *)
EXTENDS Annotation

CONSTANTS a1, a2

TwoAttempts == {a1, a2}
=============================================================================
