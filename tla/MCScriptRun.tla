---------------------------- MODULE MCScriptRun ----------------------------
(* ScriptRun on a few requests.  Requests are interchangeable.             *)
EXTENDS ScriptRun, TLC

CONSTANTS r1, r2

Symmetry == Permutations(Requests)
=============================================================================
