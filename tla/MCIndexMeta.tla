----------------------------- MODULE MCIndexMeta -----------------------------
(***************************************************************************)
(* Model-checking instance of IndexMeta: a table of three columns, one     *)
(* name it lacks, an index name and a blank one, and indexes of up to two  *)
(* columns (documents of up to two names and a field_num one past that).   *)
(***************************************************************************)
EXTENDS IndexMeta

MCIndexNames == {"i_date", " "}
MCBlankNames == {" "}
=============================================================================
