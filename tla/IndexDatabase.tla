--------------------------- MODULE IndexDatabase ---------------------------
(***************************************************************************)
(* An index as Souffle stores it in SQLite: a symbol table, and for each    *)
(* relation a table of rows whose TEXT columns are ids of symbols.  A view  *)
(* of the relation shows the symbols.  The operations are those of          *)
(* vis/model.py (SymbolTableView, CTADLConfig, Facts) and util/merge.py.    *)
(***************************************************************************)
EXTENDS Integers, FiniteSets, Sequences

CONSTANTS
  Symbol,
  Relation,
  Column   \* for each relation, the types of its columns

ASSUME ColumnAssumption == Column \in [Relation -> Seq({"TEXT", "INTEGER"})]

text_columns(r) == {c \in DOMAIN Column[r] : Column[r][c] = "TEXT"}

\* An id has one symbol and a symbol (UNIQUE) one id.
SymbolsOK(sym) ==
  /\ sym \in [DOMAIN sym -> Symbol] /\ DOMAIN sym \subseteq Nat
  /\ \A i, j \in DOMAIN sym : sym[i] = sym[j] => i = j

RowOK(sym, r, row) ==
  /\ row \in [DOMAIN Column[r] -> Int]
  /\ \A c \in text_columns(r) : row[c] \in DOMAIN sym

\* What Souffle writes, and what all operations here keep.
IndexOK(db) ==
  /\ SymbolsOK(db.sym)
  /\ DOMAIN db.rows = Relation
  /\ \A r \in Relation : \A row \in db.rows[r] : RowOK(db.sym, r, row)

\* The view of a row.
Decode(sym, r, row) ==
  [c \in DOMAIN Column[r] |-> IF c \in text_columns(r) THEN sym[row[c]] ELSE row[c]]

Decoded(db) == [r \in Relation |-> {Decode(db.sym, r, row) : row \in db.rows[r]}]

\* symbol_id
symbol_id(sym, s) == CHOOSE i \in DOMAIN sym : sym[i] = s

\* INSERT OR IGNORE INTO "__SymbolTable": the symbols that are new get the ids
\* that follow; in which order is left open.
NewIds(sym, S) ==
  LET free == {i \in 1 .. Cardinality(DOMAIN sym) + Cardinality(S) : i \in Nat \ DOMAIN sym}
  IN  {ids \in [S -> free] : \A s, t \in S : ids[s] = ids[t] => s = t}
WithIds(sym, ids) ==
  [i \in DOMAIN sym \cup {ids[s] : s \in DOMAIN ids} |->
     IF i \in DOMAIN sym THEN sym[i] ELSE CHOOSE s \in DOMAIN ids : ids[s] = i]
insert_symbols(sym, S) ==
  LET known == {sym[i] : i \in DOMAIN sym}
  IN  {WithIds(sym, ids) : ids \in NewIds(sym, S \ known)}

\* A row of the view, with ids in place of the symbols.
Encode(sym, r, row) ==
  [c \in DOMAIN Column[r] |-> IF c \in text_columns(r) THEN symbol_id(sym, row[c]) ELSE row[c]]

=============================================================================
