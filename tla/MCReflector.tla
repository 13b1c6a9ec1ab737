----------------------------- MODULE MCReflector -----------------------------
(***************************************************************************)
(* Model-checking instance of the reflector controller.                    *)
(***************************************************************************)
EXTENDS ReflectorLiveness

CONSTANT h1
==============================================================================
