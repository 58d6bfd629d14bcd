--------------------------- MODULE MCApkManager ---------------------------
(* Small instances of ApkManager for TLC: the variants are model values.  *)
EXTENDS ApkManager
============================================================================
