---------------------------- MODULE MCStatements ----------------------------
(***************************************************************************)
(* Two texts and two identifiers, one of them above 255, so that the order *)
(* of the bytes matters and identifiers are used again.                    *)
(***************************************************************************)
EXTENDS Statements

MCSqls == {<<83>>, <<68, 82>>}
MCIds == {1, 258}
=============================================================================
