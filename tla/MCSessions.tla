---------------------------- MODULE MCSessions ----------------------------
(***************************************************************************)
(* A browser with two tabs; a limit of one session.                        *)
(***************************************************************************)
EXTENDS Sessions, TLC

CONSTANTS home, tab1, tab2

MCBrowserOf == tab1 :> home @@ tab2 :> home

Symmetry == Permutations(Tabs)
=============================================================================
