---------------------------- MODULE MCStubbornLink ----------------------------
(* Instances of StubbornLink for TLC: see the .cfg files.                  *)
EXTENDS StubbornLink

\* One message of a single package, one that fills the buffer, one longer.
MixedLens == <<1, 3, 4>>
\* Two that fill it: README.md says what is refuted with them.
TwoLens == <<3, 3>>
===============================================================================
