---------------------------- MODULE MCLibrarySync ----------------------------
(* A small instance of LibrarySync: identifiers 1 and 3 have the same value. *)
EXTENDS LibrarySync

CONSTANTS p1, p2, p3, s1, f1

MCValue == <<1, 2, 1>>
MCTitle == [e \in {p1, p2, p3, s1, f1} |-> IF e \in {p1, s1} THEN "A" ELSE "B"]
MCNamed == [e \in {p1, p2, p3, s1, f1} |->
              CASE e = p1 -> {1} [] e = p2 -> {2} [] e = p3 -> {3} [] e = s1 -> {1, 2} [] OTHER -> {2, 3}]
MCCorrections == {{1}, {1, 2}}
===============================================================================
