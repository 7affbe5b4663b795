------------------------------ MODULE MCEditor ------------------------------
(* The line editor, as TLC explores it. *)
EXTENDS Editor

Letters == {"a", "(", ")"}
Characters == Letters \cup {"b", "c", " ", ";", NL}
\* Two entries, one as long as a line can be
Histories == {<<"a", " ", "(", "a", ")", NL, "a", NL>>}
Names     == {<<"a", "b">>, <<"a", "b", "c">>}
Elsewhere == {<<"b">>}
=============================================================================
