-------------------------- MODULE MCMetadataStore ---------------------------
(***************************************************************************)
(* MetadataStore with two directories and a file in each of them, on two   *)
(* machines.                                                               *)
(***************************************************************************)
EXTENDS MetadataStore

A  == <<"a">>
B  == <<"b">>
AC == <<"a", "c">>
BC == <<"b", "c">>

SomeShards == [p \in {Root, A, B, AC, BC} |-> IF p \in {Root, AC} THEN 1 ELSE 2]

TwoBytes == <<[length |-> 2, block |-> 7]>>

\* B is a directory, or another file; only the file in A has bytes.
SomeInputs ==
  {[type |-> "CREATE_FILE", path |-> p, kind |-> "DIR"]  : p \in {A, B}}
  \cup {[type |-> "CREATE_FILE", path |-> p, kind |-> "DATA"] : p \in {B, AC}}
  \cup [type : {"ERASE"}, path : {A, AC, BC}]
  \cup [type : {"COPY"}, path : {AC}, to : {BC}]
  \cup [type : {"RENAME"}, path : {AC}, to : {BC}]
  \cup [type : {"RENAME"}, path : {A}, to : {B, BC}]
  \cup [type : {"LOOKUP"}, path : {AC}]
  \cup [type : {"RESIZE"}, path : {AC}, size : 0 .. MaxBytes]
  \cup [type : {"APPEND"}, path : {AC, B}, data : {TwoBytes}]
=============================================================================
