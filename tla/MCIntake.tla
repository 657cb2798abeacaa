------------------------------ MODULE MCIntake ------------------------------
(* Instances of Intake for TLC: two attachments, six documents. *)
EXTENDS Intake, TLC

CONSTANTS worker, admin

Two == {worker, admin}
Symmetry == Permutations(Two)
\* two processes and one adverse event, or one process and three
ScenesOf == {[active |-> Two, adverse |-> 1]}
            \cup {[active |-> {p}, adverse |-> 3] : p \in Two}

\* an archive of a document, an oversized and a damaged member and a nested archive
\* that does not open, and an attachment with the bytes of the document
ItemsOf == {"zip", "doc", "inner", "huge", "torn", "copy"}
OfferedAll == <<"zip", "copy">>
FormatOf == [i \in ItemsOf |-> CASE i = "zip" -> "archive" [] i = "inner" -> "corrupt"
                                 [] OTHER -> "text"]
BytesOf == [i \in ItemsOf |-> IF i = "copy" THEN "doc" ELSE i]
Part(i, size) ==
  [item |-> i, unsafe |-> FALSE, damaged |-> i = "torn", size |-> size, packed |-> 1]
MembersOf == [i \in ItemsOf |->
  IF i = "zip" THEN <<Part("doc", 1), Part("huge", 3), Part("torn", 1), Part("inner", 2)>>
  ELSE <<>>]
=============================================================================
