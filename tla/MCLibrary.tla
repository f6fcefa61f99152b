------------------------------ MODULE MCLibrary ------------------------------
(***************************************************************************)
(* Three versions of a document: v1; v2, another PDF that shares a chunk   *)
(* with it; v3, the PDF of v1 with a corrected Markdown.                   *)
(***************************************************************************)
EXTENDS Library

CONSTANTS v1, v2, v3

MCChunks == [v \in {v1, v2, v3} |->
    CASE v = v1 -> {1, 2} [] v = v2 -> {2, 3} [] v = v3 -> {1, 3}]
MCChecksum == [v \in {v1, v2, v3} |-> IF v = v2 THEN 2 ELSE 1]
=============================================================================
