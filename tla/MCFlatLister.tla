---------------------------- MODULE MCFlatLister ----------------------------
(***************************************************************************)
(* FlatLister on the tree  / { x/ { y/  f }  z/ }  with the prefix "x",    *)
(* where z/ may not be listed.                                             *)
(***************************************************************************)
EXTENDS FlatLister

MCDirs == {<< >>, <<"x">>, <<"x", "y">>, <<"z">>}
MCFiles == {<<"x", "f">>}
MCMatches == {<<"x">>, <<"x", "y">>, <<"x", "f">>}
MCDenied == {<<"z">>}
=============================================================================
