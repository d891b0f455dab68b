------------------------------- MODULE MCLucy -------------------------------
(* Instance of Lucy for TLC.                                                *)
EXTENDS Lucy

(* The second run uses exclusive language, the last one does so twice.      *)
MCBlame == <<0, 1, 2>>
=============================================================================
