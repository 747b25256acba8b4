---------------------------- MODULE MCNamespace ----------------------------
(* Instances of Namespace for TLC: the paths its calls are made with.         *)
EXTENDS Namespace

CONSTANTS a, b

\* Down to the third level, across, and up again.
Winding == {<<a>>, <<b>>, <<a, a>>, <<a, b>>, <<b, a>>, <<a, a, b>>, <<a, "..", b>>}
ToA == {<<a>>}
=============================================================================
