------------------------------- MODULE MCChunker -------------------------------
(* Chunker.tla with all files of up to eight bytes of two values.             *)
EXTENDS Chunker

TwoGears == <<3, 6>>
ShortFiles == UNION {[1 .. n -> 1 .. 2] : n \in 0 .. 8}

================================================================================
