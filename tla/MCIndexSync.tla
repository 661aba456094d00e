---------------------------- MODULE MCIndexSync -----------------------------
(* IndexSync on a library and its user.  One revision may have no library. *)
EXTENDS IndexSync

CONSTANTS user, library, uses, lib, lib2, lib3, h1, h2, sig, sig2

Trees(other) ==
  [h \in {h1, h2} |-> [f \in {user, library} |->
     IF f = user THEN uses ELSE IF h = h1 THEN lib ELSE other]]

(* The library's symbol has one signature in two contents, and another in a   *)
(* third one.                                                                  *)
Signatures == [c \in {lib, lib2, lib3} |-> IF c = lib3 THEN sig2 ELSE sig]
UserFiles  == [f \in {user, library} |-> IF f = user THEN {uses, lib} ELSE {lib, lib2, lib3}]

LibraryGoes    == Trees(NoFile)
LibraryChanges == Trees(lib2)
=============================================================================
