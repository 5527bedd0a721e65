------------------------------- MODULE MCSltTest -------------------------------
(* Model-checking instance of SltTest: two hooks, one matching every test *)
(* and one matching only the first, so one test runs two hooks and the    *)
(* other a single one.                                                     *)
EXTENDS SltTest

CONSTANTS ta, tb, h1, h2

MCTests == {ta, tb}
MCHooks == <<h1, h2>>
MCMatches == {<<h1, ta>>, <<h1, tb>>, <<h2, ta>>}

=============================================================================
