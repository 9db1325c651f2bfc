---------------------------- MODULE MCMemoryStore ----------------------------
(* Finite instances of MemoryStore.                                          *)
EXTENDS MemoryStore

\* One name in two spellings: remember keeps them apart, forget does not.
TypedNames == {"Editor", "editor"}
LowerTyped == [n \in TypedNames |-> "editor"]
=============================================================================
