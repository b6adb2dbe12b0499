---------------------------- MODULE MCJsbsimClient ----------------------------
(* Instance for TLC: a failed attempt and another, two sets in a row so that  *)
(* a late reply can be taken for the next one, two properties in a batch.     *)
EXTENDS JsbsimClient
===============================================================================
