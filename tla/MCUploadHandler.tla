-------------------------- MODULE MCUploadHandler --------------------------
(* Small instances of UploadHandler for TLC. *)
EXTENDS UploadHandler, TLC

\* two files with a key in common
Overlapping == [f \in {1, 2} |-> IF f = 1 THEN {"a", "b"} ELSE {"b"}]

\* one name with more tags than fit into a buffer
LongTags == [p \in {"points", "tree", "index", "tagged"} |-> IF p = "tagged" THEN {"a"} ELSE {}]
NoneBad == [p \in {"series"} |-> {}]
=============================================================================
