---------------------------- MODULE MergeIndices ----------------------------
(***************************************************************************)
(* merge_indices (util/merge.py) and what is done to an index afterwards:   *)
(* its configuration is changed (CTADLConfig) and input relations are       *)
(* created in it and written (Facts, both vis/model.py).                   *)
(*                                                                         *)
(* The inputs are merged one by one into a database in memory, by way of a  *)
(* map from the ids of the input's symbols to those of the result, and the  *)
(* result is copied to the output at the end.  One step is one statement    *)
(* that other state is read by, or script of statements.                   *)
(***************************************************************************)
EXTENDS IndexDatabase

CONSTANTS
  File,
  Omitted, Config,
  Settings, Inputs,  \* what is set and written afterwards
  Merges             \* the inputs and outputs a check ranges over

ASSUME MergeAssumption ==
  /\ File # {}
  /\ Config \in Relation /\ Config \notin Omitted /\ Column[Config] = <<"TEXT", "TEXT">>
  /\ \A m \in Merges : /\ DOMAIN m.inputs = File /\ \A f \in File : IndexOK(m.inputs[f])
                       /\ IndexOK(m.output)
  /\ Settings \subseteq Symbol \X Symbol
  /\ DOMAIN Inputs \subseteq Relation \ {Config}
  /\ \A r \in DOMAIN Inputs : \A row \in Inputs[r] :
       /\ row \in [DOMAIN Column[r] -> Symbol \cup Int]
       /\ \A c \in DOMAIN row : row[c] \in IF c \in text_columns(r) THEN Symbol ELSE Int

VARIABLES
  content,        \* the inputs
  todo,           \* inputs that are still to be merged
  file, pending,  \* the input that is attached, its tables that are to be merged
  sym, map,       \* __SymbolTable, __SymbolTableMap
  mem,            \* the tables in memory
  table, tmp,     \* the table that is being merged, and its rows
  out,            \* the output
  phase

mergeVars == <<content, todo, file, pending, sym, map, mem, table, tmp, out, phase>>

Merged == Relation \ Omitted

MergeInit ==
  /\ \E m \in Merges : content = m.inputs /\ out = m.output
  /\ todo = File
  /\ file = (CHOOSE f \in File : TRUE) /\ pending = {}
  /\ sym = <<>> /\ map = <<>>
  /\ mem = [r \in Relation |-> {}]
  /\ table = Config /\ tmp = {}
  /\ phase = "next"

AttachMutant ==  \* the map of the input before is not deleted
  /\ phase = "next"
  /\ \E f \in todo :
       LET symbols == content[f].sym
       IN  /\ file' = f
           /\ todo' = todo \ {f}
           /\ sym' \in insert_symbols(sym, {symbols[i] : i \in DOMAIN symbols})
           /\ map' = [i \in DOMAIN symbols \cup DOMAIN map |->
                        IF i \in DOMAIN map THEN map[i] ELSE symbol_id(sym', symbols[i])]
  /\ pending' = Merged
  /\ phase' = "table"
  /\ UNCHANGED <<content, mem, table, tmp, out>>

\* The next input is attached, its symbols are added, and the map is computed anew.
Attach ==
  /\ phase = "next"
  /\ \E f \in todo :
       LET symbols == content[f].sym
       IN  /\ file' = f
           /\ todo' = todo \ {f}
           /\ sym' \in insert_symbols(sym, {symbols[i] : i \in DOMAIN symbols})
           /\ map' = [i \in DOMAIN symbols |-> symbol_id(sym', symbols[i])]
  /\ pending' = Merged
  /\ phase' = "table"
  /\ UNCHANGED <<content, mem, table, tmp, out>>

Copy ==
  /\ phase = "table"
  /\ table' \in pending
  /\ tmp' = content[file].rows[table']
  /\ phase' = "update"
  /\ UNCHANGED <<content, todo, file, pending, sym, map, mem, out>>

RenumberMutant(r, row) ==  \* every column is taken for text
  [c \in DOMAIN row |-> IF row[c] \in DOMAIN map THEN map[row[c]] ELSE row[c]]

\* merge_table_by_multi_column: all text columns of a row, or none if one of
\* them has no symbol.
Renumber(r, row) ==
  IF \E c \in text_columns(r) : row[c] \notin DOMAIN map THEN row
  ELSE [c \in DOMAIN Column[r] |-> IF c \in text_columns(r) THEN map[row[c]] ELSE row[c]]

Update ==
  /\ phase = "update"
  /\ tmp' = {Renumber(table, row) : row \in tmp}
  /\ phase' = "insert"
  /\ UNCHANGED <<content, todo, file, pending, sym, map, mem, table, out>>

\* INSERT OR IGNORE INTO the table, and DROP TABLE.
Insert ==
  /\ phase = "insert"
  /\ mem' = [mem EXCEPT ![table] = @ \cup tmp]
  /\ tmp' = {}
  /\ pending' = pending \ {table}
  /\ phase' = "table"
  /\ UNCHANGED <<content, todo, file, sym, map, table, out>>

Detach ==
  /\ phase = "table" /\ pending = {}
  /\ phase' = "next"
  /\ UNCHANGED <<content, todo, file, pending, sym, map, mem, table, tmp, out>>

Backup ==
  /\ phase = "next" /\ todo = {}
  /\ out' = [sym |-> sym, rows |-> mem]
  /\ phase' = "done"
  /\ UNCHANGED <<content, todo, file, pending, sym, map, mem, table, tmp>>

\* Any statement may raise an error of SQLite (a missing file, a table with
\* other columns, a full disk).
Raise ==
  /\ phase \in {"next", "table", "update", "insert"}
  /\ phase' = "failed"
  /\ UNCHANGED <<content, todo, file, pending, sym, map, mem, table, tmp, out>>

MergeStep == Attach \/ Copy \/ Update \/ Insert \/ Detach \/ Backup \/ Raise

----------------------------------------------------------------------------
(* The index that was written.                                             *)

unchanged == UNCHANGED <<content, todo, file, pending, sym, map, mem, table, tmp, phase>>

SetConfigMutant(feature, value) ==  \* a row is added to those there are
  /\ phase = "done"
  /\ \E s \in insert_symbols(out.sym, {feature, value}) :
       out' = [sym |-> s,
               rows |-> [out.rows EXCEPT ![Config] = @ \cup {Encode(s, Config, <<feature, value>>)}]]
  /\ unchanged

\* CTADLConfig.__setitem__: UPDATE OR IGNORE if the feature has a row, otherwise
\* INSERT.  With several rows one becomes the new one, unless it was there, and
\* UNIQUE keeps the others as they are.
SetConfig(feature, value) ==
  /\ phase = "done"
  /\ \E s \in insert_symbols(out.sym, {feature, value}) :
       LET new == Encode(s, Config, <<feature, value>>)
           old == {row \in out.rows[Config] : row[1] = new[1]}
       IN  \E gone \in IF old = {} \/ new \in old THEN {{}} ELSE {{row} : row \in old} :
             out' = [sym |-> s,
                     rows |-> [out.rows EXCEPT ![Config] = (@ \ gone) \cup {new}]]
  /\ unchanged

\* CTADLConfig.__delitem__, for a feature that is a symbol.
DeleteConfig(feature) ==
  /\ phase = "done"
  /\ \E i \in DOMAIN out.sym :
       /\ out.sym[i] = feature
       /\ out' = [sym |-> out.sym,
                  rows |-> [out.rows EXCEPT ![Config] = {row \in @ : row[1] # i}]]
  /\ unchanged

\* Facts.add_input_relation: the relation is dropped and created.
CreateRelation(r) ==
  /\ phase = "done"
  /\ out' = [sym |-> out.sym, rows |-> [out.rows EXCEPT ![r] = {}]]
  /\ unchanged

\* Facts.write.  INSERT raises an error if the row is there; its symbols stay.
WriteFact(r, row) ==
  /\ phase = "done"
  /\ \E s \in insert_symbols(out.sym, {row[c] : c \in text_columns(r)}) :
       out' = [sym |-> s, rows |-> [out.rows EXCEPT ![r] = @ \cup {Encode(s, r, row)}]]
  /\ unchanged

IndexStep ==
  \/ \E s \in Settings : SetConfig(s[1], s[2]) \/ DeleteConfig(s[1])
  \/ \E r \in DOMAIN Inputs : CreateRelation(r) \/ \E row \in Inputs[r] : WriteFact(r, row)

MergeNext == MergeStep \/ IndexStep

MergeSpec == MergeInit /\ [][MergeNext]_mergeVars

----------------------------------------------------------------------------

\* While an input is attached the map leads from each id to that of the same
\* symbol; all rows point into the symbol table, the rows in hand into that of
\* their input until they are renumbered; and rows in memory keep pointing at
\* the same symbols, as they only come in from a row with that meaning.
MergeInv ==
  /\ \A f \in File : IndexOK(content[f])
  /\ IndexOK(out)
  /\ IndexOK([sym |-> sym, rows |-> mem])
  /\ todo \subseteq File /\ file \in File /\ table \in Relation /\ pending \subseteq Merged
  /\ phase \in {"next", "table", "update", "insert", "done", "failed"}
  /\ phase \in {"next", "done"} => pending = {}
  /\ phase = "done" => todo = {}
  /\ phase \in {"table", "update", "insert"} =>
       /\ file \notin todo
       /\ DOMAIN map = DOMAIN content[file].sym
       /\ \A i \in DOMAIN map : map[i] \in DOMAIN sym /\ sym[map[i]] = content[file].sym[i]
  /\ phase \in {"update", "insert"} => table \in pending
  /\ phase = "update" => tmp = content[file].rows[table]
  /\ phase = "insert" =>
       /\ \A row \in tmp : RowOK(sym, table, row)
       /\ {Decode(sym, table, row) : row \in tmp} = Decoded(content[file])[table]

\* What is left to be added, seen from outside.
Left == {q \in File \X Merged : q[1] \in todo \/ (q[1] = file /\ q[2] \in pending)}

Union == INSTANCE MergedIndex WITH
  content <- [f \in File |-> Decoded(content[f])],
  left    <- Left,
  union   <- Decoded([sym |-> sym, rows |-> mem]),
  output  <- Decoded(out),
  state   <- IF phase = "done" THEN "published" ELSE IF phase = "failed" THEN "aborted" ELSE "merging"

ConfigRows(feature, db) == {row \in Decoded(db)[Config] : row[1] = feature}

\* The inputs give different values to the feature.
Disputed(feature) ==
  \E f, g \in File : \E p \in ConfigRows(feature, content[f]), q \in ConfigRows(feature, content[g]) : p # q

SetDisputed == \E s \in Settings : Disputed(s[1]) /\ SetConfig(s[1], s[2])

\* The views of the output become the union of the views of the inputs, at once
\* and at the end, though ids are renumbered in between; an error before that
\* changes nothing; and what is set, deleted, created or written later changes
\* what it names and no row of another meaning (util/merge.py, CTADLConfig and
\* Facts in vis/model.py).  One step is left to AssignmentSets: setting a feature
\* to which the inputs give different values.
UnionSpec == Union!AbsInit /\ [][Union!AbsNext \/ SetDisputed]_(Union!absVars)

\* "config[feature] = value sets the config value" (vis/model.py:594): after it
\* the feature has that value and no other, as reading it needs.
AssignmentSets ==
  [][\A s \in Settings : SetConfig(s[1], s[2]) => ConfigRows(s[1], out') = {s}]_mergeVars

=============================================================================
