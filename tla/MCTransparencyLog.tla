--------------------------- MODULE MCTransparencyLog --------------------------
(* TransparencyLog with a few writers, verifiers and systems.                  *)
EXTENDS TransparencyLog
===============================================================================
