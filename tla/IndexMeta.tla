------------------------------ MODULE IndexMeta ------------------------------
(***************************************************************************)
(* IndexMeta (storage/index/index_meta.cpp): an index's name, uniqueness  *)
(* flag and column names.  It is built by init() at CREATE INDEX, written  *)
(* to the catalogue document by to_json() and read back by from_json()    *)
(* when the table is opened again.                                         *)
(*                                                                         *)
(* A catalogue document is a record with the members name, unique,         *)
(* field_num and field_name.  A member may be Absent, and name may be a   *)
(* JSON value that is not a string (NotString).  jsoncpp's accessors are  *)
(* modelled by what they do: asInt() and asBool() of null are 0 and false, *)
(* an array read past its end is null, and asCString() of null throws,     *)
(* which is the outcome "EXCEPTION".  The document on disk may also have   *)
(* been written by another version or edited (ForeignDocs).                *)
(***************************************************************************)
EXTENDS Integers, Sequences

CONSTANTS
  TableFields,  \* the columns of the table (TableMeta::field finds these)
  OtherNames,   \* column names the table does not have
  IndexNames,   \* index names, as strings
  BlankNames,   \* the ones common::is_blank accepts
  NotString,    \* model value: a name member that is not a JSON string
  Absent,       \* model value: a member missing from the document
  MaxFields,    \* most columns of an index
  ForeignDocs   \* whether the document may be one init/to_json did not write

ASSUME BlankNames \subseteq IndexNames /\ MaxFields \in Nat \ {0}

VARIABLES
  meta,         \* the IndexMeta built by CREATE INDEX, or Absent
  doc,          \* the catalogue document, or Absent
  loaded,       \* the IndexMeta from_json built, or Absent
  rc,           \* what init() returned at CREATE INDEX ("NONE" before)
  loadRc,       \* what from_json returned ("NONE" before)
  phase         \* "none", "created", "saved", "loaded" or "failed"

vars == <<meta, doc, loaded, rc, loadRc, phase>>

Metas == [name : IndexNames, unique : BOOLEAN,
          field : UNION {[1..n -> TableFields] : n \in 1..MaxFields}]

Docs == [name       : IndexNames \cup {NotString, Absent},
         unique     : BOOLEAN \cup {Absent},
         field_num  : (0..MaxFields + 1) \cup {Absent},
         field_name : UNION {[1..n -> TableFields \cup OtherNames] : n \in 0..MaxFields}]

-----------------------------------------------------------------------------
\* Json::Value::asInt / asBool of a member that may be null.
asInt(v) == IF v = Absent THEN 0 ELSE v
asBool(v) == IF v = Absent THEN FALSE ELSE v

is_blank(name) == name \in BlankNames

\* IndexMeta::init on a fresh IndexMeta: [rc, meta].
init(name, fields, is_unique) ==
  IF is_blank(name) THEN [rc |-> "INVALID_ARGUMENT", meta |-> Absent]
  ELSE [rc |-> "SUCCESS", meta |-> [name |-> name, unique |-> is_unique, field |-> fields]]

\* Mutant: field_num written as the last index rather than the count.
to_json_last_index(m) ==
  [name |-> m.name, unique |-> m.unique, field_num |-> Len(m.field) - 1, field_name |-> m.field]

\* IndexMeta::to_json.
to_json(m) ==
  [name |-> m.name, unique |-> m.unique, field_num |-> Len(m.field), field_name |-> m.field]

\* The loop of from_json over i in 0..field_num-1 (here 1-based): the
\* columns found so far, an error for a missing column, or the exception
\* of asCString() on the null read past the array's end.
RECURSIVE LoadFields(_, _, _, _)
LoadFields(arr, n, i, acc) ==
  CASE i > n                  -> [rc |-> "SUCCESS", fields |-> acc]
    [] i > Len(arr)           -> [rc |-> "EXCEPTION", fields |-> acc]
    [] arr[i] \notin TableFields -> [rc |-> "SCHEMA_FIELD_MISSING", fields |-> acc]
    [] OTHER                  -> LoadFields(arr, n, i + 1, Append(acc, arr[i]))

\* IndexMeta::from_json into a fresh IndexMeta: [rc, meta].
from_json(d) ==
  IF d.name \in {NotString, Absent} THEN [rc |-> "INTERNAL", meta |-> Absent]
  ELSE LET f == LoadFields(d.field_name, asInt(d.field_num), 1, <<>>) IN
       IF f.rc # "SUCCESS" THEN [rc |-> f.rc, meta |-> Absent]
       ELSE init(d.name, f.fields, asBool(d.unique))

-----------------------------------------------------------------------------
Init ==
  /\ meta = Absent
  /\ doc \in {Absent} \cup (IF ForeignDocs THEN Docs ELSE {})
  /\ loaded = Absent
  /\ rc = "NONE"
  /\ loadRc = "NONE"
  /\ phase = "none"

\* CREATE INDEX: init() with the columns the statement names.
CreateIndex ==
  /\ phase = "none" /\ doc = Absent
  /\ \E m \in Metas :
       LET r == init(m.name, m.field, m.unique) IN
       /\ rc' = r.rc
       /\ meta' = r.meta
       /\ phase' = IF r.rc = "SUCCESS" THEN "created" ELSE "failed"
  /\ UNCHANGED <<doc, loaded, loadRc>>

\* The catalogue is written.
Save ==
  /\ phase = "created"
  /\ doc' = to_json(meta)
  /\ phase' = "saved"
  /\ UNCHANGED <<meta, loaded, rc, loadRc>>

\* The table is opened again and the index read from the catalogue.
Load ==
  /\ \/ phase = "saved"
     \/ phase = "none" /\ doc # Absent
  /\ LET r == from_json(doc) IN
     /\ loadRc' = r.rc
     /\ loaded' = r.meta
  /\ phase' = "loaded"
  /\ UNCHANGED <<meta, doc, rc>>

Finished ==
  /\ phase \in {"loaded", "failed"}
  /\ UNCHANGED vars

Next == CreateIndex \/ Save \/ Load \/ Finished

Spec == Init /\ [][Next]_vars

-----------------------------------------------------------------------------
TypeOK ==
  /\ meta \in Metas \cup {Absent}
  /\ doc \in Docs \cup {Absent}
  /\ loaded \in [name : IndexNames, unique : BOOLEAN,
                 field : UNION {[1..n -> TableFields] : n \in 0..MaxFields + 1}] \cup {Absent}
  /\ phase \in {"none", "created", "saved", "loaded", "failed"}

(***************************************************************************)
(* Catalogue round trip: an index CREATE INDEX built, written by to_json   *)
(* and read back by from_json, is read back without error and equal to     *)
(* the one that was written: same name, flag, and columns in order.       *)
(***************************************************************************)
RoundTrip ==
  phase = "loaded" /\ meta # Absent => loadRc = "SUCCESS" /\ loaded = meta

(***************************************************************************)
(* The catalogue contract of the spec (section 7): reading a document      *)
(* ends with an error code, never an exception; it fails whenever the name *)
(* is not a string or a column of field_name does not exist on the table;  *)
(* and when it succeeds the index has exactly the columns of field_name,   *)
(* in order.                                                               *)
(***************************************************************************)
LoadContract ==
  phase = "loaded" =>
    /\ loadRc \in {"SUCCESS", "INTERNAL", "SCHEMA_FIELD_MISSING", "INVALID_ARGUMENT"}
    /\ doc.name \in {NotString, Absent} => loadRc # "SUCCESS"
    /\ (\E i \in 1..Len(doc.field_name) : doc.field_name[i] \notin TableFields)
         => loadRc # "SUCCESS"
    /\ loadRc = "SUCCESS" => loaded.field = doc.field_name
=============================================================================
