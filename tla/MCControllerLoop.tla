-------------------------- MODULE MCControllerLoop --------------------------
(* Instances of ControllerLoop for TLC.                                    *)
EXTENDS ControllerLoop, TLC

\* Workers are interchangeable, and so are keys.
Symmetry == Permutations(Keys) \cup Permutations(Workers)
=============================================================================
