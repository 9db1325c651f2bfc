--------------------------- MODULE MCResponseReuse ---------------------------
(* Finite instances of ResponseReuse: two spellings of one request, and a     *)
(* message of punctuation, whose normalized form is empty.                    *)
EXTENDS ResponseReuse

MCNormalize == [m \in Messages |-> CASE m \in {"hi", "Hi!"} -> "hi"
                                     [] m = "bye" -> "bye"
                                     [] m = "???" -> ""]
=============================================================================
