------------------------ MODULE MergeIndices_proofs ------------------------
(***************************************************************************)
(* Merging indices implements the union of their views, for all inputs.    *)
(* MergeInv is inductive, and so, with it, is that a feature on which the   *)
(* inputs agree has one value in the output.  Every step of merging and of  *)
(* the operations on the index that was written is then a step of           *)
(* MergedIndex, or changes nothing that it sees.                           *)
(***************************************************************************)
EXTENDS MergeIndices, TLAPS

\* The symbols of `old` keep their ids.
Extends(old, new) ==
  /\ DOMAIN old \subseteq DOMAIN new
  /\ \A i \in DOMAIN old : new[i] = old[i]

----------------------------------------------------------------------------
(* Symbol tables.                                                          *)

\* symbol_id is the inverse of a symbol table.
LEMMA SymbolId ==
  ASSUME NEW s, SymbolsOK(s), NEW i \in DOMAIN s
  PROVE  symbol_id(s, s[i]) = i
BY DEF SymbolsOK, symbol_id

\* Inserting symbols adds them, and keeps what was there.
LEMMA InsertSymbols ==
  ASSUME NEW old, SymbolsOK(old), NEW S \in SUBSET Symbol, NEW new \in insert_symbols(old, S)
  PROVE  /\ SymbolsOK(new)
         /\ Extends(old, new)
         /\ \A x \in S : \E i \in DOMAIN new : new[i] = x
<1> DEFINE known == {old[i] : i \in DOMAIN old}
<1>1. PICK ids \in NewIds(old, S \ known) : new = WithIds(old, ids)
  BY DEF insert_symbols
<1> DEFINE fresh == {ids[x] : x \in S \ known}
<1>2. /\ ids \in [S \ known -> Nat] /\ DOMAIN ids = S \ known
      /\ \A x \in S \ known : ids[x] \notin DOMAIN old
      /\ \A x, y \in S \ known : ids[x] = ids[y] => x = y
  BY <1>1 DEF NewIds
<1>3. /\ DOMAIN new = DOMAIN old \cup fresh
      /\ \A i \in DOMAIN old : new[i] = old[i]
      /\ new = [i \in DOMAIN old \cup fresh |-> new[i]]
  BY <1>1, <1>2 DEF WithIds
<1>4. \A x \in S \ known : ids[x] \in DOMAIN new /\ new[ids[x]] = x
  <2> SUFFICES ASSUME NEW x \in S \ known
               PROVE  ids[x] \in DOMAIN new /\ new[ids[x]] = x
    OBVIOUS
  <2>1. new[ids[x]] = CHOOSE y \in S \ known : ids[y] = ids[x]
    BY <1>1, <1>2 DEF WithIds
  <2> QED
    BY <1>2, <1>3, <2>1
<1>5. \A i \in DOMAIN new : i \in DOMAIN old \/ \E x \in S \ known : i = ids[x]
  BY <1>3
<1>6. SymbolsOK(new)
  <2>1. DOMAIN new \subseteq Nat
    BY <1>2, <1>5 DEF SymbolsOK
  <2>2. \A i \in DOMAIN new : new[i] \in Symbol
    BY <1>3, <1>4, <1>5 DEF SymbolsOK
  <2>3. ASSUME NEW i \in DOMAIN new, NEW j \in DOMAIN new, new[i] = new[j]
        PROVE  i = j
    <3>1. CASE i \in DOMAIN old /\ j \in DOMAIN old
      BY <1>3, <2>3, <3>1 DEF SymbolsOK
    <3>2. CASE i \notin DOMAIN old /\ j \notin DOMAIN old
      BY <1>4, <1>5, <2>3, <3>2
    <3>3. CASE i \in DOMAIN old /\ j \notin DOMAIN old
      BY <1>3, <1>4, <1>5, <2>3, <3>3
    <3>4. CASE i \notin DOMAIN old /\ j \in DOMAIN old
      BY <1>3, <1>4, <1>5, <2>3, <3>4
    <3> QED
      BY <3>1, <3>2, <3>3, <3>4
  <2> QED
    BY <1>3, <2>1, <2>2, <2>3 DEF SymbolsOK
<1>7. ASSUME NEW x \in S PROVE \E i \in DOMAIN new : new[i] = x
  <2>1. CASE x \in known
    BY <1>3, <2>1
  <2>2. CASE x \notin known
    BY <1>4, <2>2
  <2> QED
    BY <2>1, <2>2
<1> QED
  BY <1>3, <1>6, <1>7 DEF Extends

----------------------------------------------------------------------------
(* Rows.                                                                   *)

\* A row means the same in a symbol table that has more symbols.
LEMMA RowExtends ==
  ASSUME NEW old, NEW new, Extends(old, new), NEW r \in Relation, NEW row, RowOK(old, r, row)
  PROVE  RowOK(new, r, row) /\ Decode(new, r, row) = Decode(old, r, row)
BY DEF Extends, RowOK, Decode, text_columns

\* An index means the same with more symbols.
LEMMA IndexExtends ==
  ASSUME NEW old, NEW new, NEW rows, SymbolsOK(new), Extends(old, new),
         IndexOK([sym |-> old, rows |-> rows])
  PROVE  /\ IndexOK([sym |-> new, rows |-> rows])
         /\ Decoded([sym |-> new, rows |-> rows]) = Decoded([sym |-> old, rows |-> rows])
<1>1. \A r \in Relation : \A row \in rows[r] : RowOK(old, r, row)
  BY DEF IndexOK
<1>2. \A r \in Relation : \A row \in rows[r] :
        RowOK(new, r, row) /\ Decode(new, r, row) = Decode(old, r, row)
  BY <1>1, RowExtends
<1>3. DOMAIN rows = Relation
  BY DEF IndexOK
<1>4. \A r \in Relation :
        {Decode(new, r, row) : row \in rows[r]} = {Decode(old, r, row) : row \in rows[r]}
  BY <1>2
<1> QED
  BY <1>2, <1>3, <1>4 DEF IndexOK, Decoded

\* Different rows have different views.
LEMMA DecodeInjective ==
  ASSUME NEW s, SymbolsOK(s), NEW r \in Relation, NEW a, NEW b, RowOK(s, r, a), RowOK(s, r, b),
         Decode(s, r, a) = Decode(s, r, b)
  PROVE  a = b
<1>1. a \in [DOMAIN Column[r] -> Int] /\ b \in [DOMAIN Column[r] -> Int]
  BY DEF RowOK
<1>2. ASSUME NEW c \in DOMAIN Column[r] PROVE a[c] = b[c]
  <2>1. Decode(s, r, a)[c] = Decode(s, r, b)[c]
    OBVIOUS
  <2>2. CASE c \in text_columns(r)
    <3>1. s[a[c]] = s[b[c]]
      BY <2>1, <2>2 DEF Decode
    <3> QED
      BY <2>2, <3>1 DEF SymbolsOK, RowOK
  <2>3. CASE c \notin text_columns(r)
    BY <2>1, <2>3 DEF Decode
  <2> QED
    BY <2>2, <2>3
<1> QED
  BY <1>1, <1>2

\* A row made for a view has that view.
LEMMA EncodeDecodes ==
  ASSUME NEW s, SymbolsOK(s), NEW r \in Relation, NEW row \in [DOMAIN Column[r] -> Symbol \cup Int],
         \A c \in text_columns(r) : \E i \in DOMAIN s : s[i] = row[c],
         \A c \in DOMAIN Column[r] \ text_columns(r) : row[c] \in Int
  PROVE  RowOK(s, r, Encode(s, r, row)) /\ Decode(s, r, Encode(s, r, row)) = row
<1>1. \A c \in text_columns(r) :
        symbol_id(s, row[c]) \in DOMAIN s /\ s[symbol_id(s, row[c])] = row[c]
  BY SymbolId
<1>2. DOMAIN s \subseteq Int /\ text_columns(r) \subseteq DOMAIN Column[r]
  BY DEF SymbolsOK, text_columns
<1>3. RowOK(s, r, Encode(s, r, row))
  BY <1>1, <1>2 DEF RowOK, Encode
<1>4. \A c \in DOMAIN Column[r] : Decode(s, r, Encode(s, r, row))[c] = row[c]
  BY <1>1, <1>2 DEF Decode, Encode
<1> QED
  BY <1>3, <1>4 DEF Decode

\* A row that is renumbered by a map between symbol tables keeps its view.
LEMMA RenumberDecodes ==
  ASSUME NEW from, NEW r \in Relation, NEW row, RowOK(from, r, row), SymbolsOK(sym),
         DOMAIN map = DOMAIN from,
         \A i \in DOMAIN map : map[i] \in DOMAIN sym /\ sym[map[i]] = from[i]
  PROVE  RowOK(sym, r, Renumber(r, row)) /\ Decode(sym, r, Renumber(r, row)) = Decode(from, r, row)
<1>1. Renumber(r, row) = [c \in DOMAIN Column[r] |-> IF c \in text_columns(r) THEN map[row[c]] ELSE row[c]]
  BY DEF Renumber, RowOK
<1>2. \A c \in text_columns(r) :
        /\ c \in DOMAIN Column[r] /\ map[row[c]] \in DOMAIN sym /\ map[row[c]] \in Int
        /\ sym[map[row[c]]] = from[row[c]]
  BY DEF RowOK, SymbolsOK, text_columns
<1>3. RowOK(sym, r, Renumber(r, row))
  BY <1>1, <1>2 DEF RowOK
<1>4. \A c \in DOMAIN Column[r] :
        (IF c \in text_columns(r) THEN sym[Renumber(r, row)[c]] ELSE Renumber(r, row)[c])
          = IF c \in text_columns(r) THEN from[row[c]] ELSE row[c]
  BY <1>1, <1>2
<1> QED
  BY <1>3, <1>4 DEF Decode

----------------------------------------------------------------------------
(* A step keeps the invariant.                                             *)

\* Changing the rows of one relation, and only adding symbols.
LEMMA ChangeRows ==
  ASSUME NEW db, IndexOK(db), NEW new, SymbolsOK(new), Extends(db.sym, new),
         NEW r \in Relation, NEW N, \A row \in N : row \in db.rows[r] \/ RowOK(new, r, row)
  PROVE  /\ IndexOK([sym |-> new, rows |-> [db.rows EXCEPT ![r] = N]])
         /\ Decoded([sym |-> new, rows |-> [db.rows EXCEPT ![r] = N]])
              = [Decoded(db) EXCEPT ![r] = {Decode(new, r, row) : row \in N}]
<1> DEFINE rows == [db.rows EXCEPT ![r] = N]
<1>1. \A q \in Relation : \A row \in db.rows[q] :
        RowOK(new, q, row) /\ Decode(new, q, row) = Decode(db.sym, q, row)
  BY RowExtends DEF IndexOK
<1>2. DOMAIN rows = Relation /\ rows[r] = N /\ \A q \in Relation \ {r} : rows[q] = db.rows[q]
  BY DEF IndexOK
<1>3. \A q \in Relation : \A row \in rows[q] : RowOK(new, q, row)
  BY <1>1, <1>2
<1>4. \A q \in Relation \ {r} :
        {Decode(new, q, row) : row \in rows[q]} = {Decode(db.sym, q, row) : row \in db.rows[q]}
  BY <1>1, <1>2
<1>5. IndexOK([sym |-> new, rows |-> rows])
  BY <1>2, <1>3 DEF IndexOK
<1> DEFINE before == Decoded(db)
           after == Decoded([sym |-> new, rows |-> rows])
           view == {Decode(new, r, row) : row \in N}
<1>6. before = [q \in Relation |-> before[q]] /\ after = [q \in Relation |-> after[q]]
  BY DEF Decoded
<1>7. \A q \in Relation \ {r} : after[q] = before[q]
  BY <1>4 DEF Decoded
<1>8. after[r] = view
  BY <1>2 DEF Decoded
<1>9. after = [before EXCEPT ![r] = view]
  <2> HIDE DEF before, after, view
  <2> QED
    BY <1>6, <1>7, <1>8
<1> QED
  BY <1>5, <1>9

\* The rows that are written are rows of the index.
LEMMA WrittenRow ==
  ASSUME NEW old, SymbolsOK(old), NEW r \in DOMAIN Inputs, NEW row \in Inputs[r],
         NEW s \in insert_symbols(old, {row[c] : c \in text_columns(r)})
  PROVE  /\ SymbolsOK(s) /\ Extends(old, s) /\ r \in Relation
         /\ RowOK(s, r, Encode(s, r, row)) /\ Decode(s, r, Encode(s, r, row)) = row
<1>1. /\ r \in Relation /\ row \in [DOMAIN Column[r] -> Symbol \cup Int]
      /\ \A c \in DOMAIN row : row[c] \in IF c \in text_columns(r) THEN Symbol ELSE Int
      /\ text_columns(r) \subseteq DOMAIN Column[r]
  BY MergeAssumption DEF text_columns
<1>2. {row[c] : c \in text_columns(r)} \in SUBSET Symbol
  BY <1>1
<1> DEFINE S == {row[c] : c \in text_columns(r)}
<1>3. SymbolsOK(s) /\ Extends(old, s) /\ \A x \in S : \E i \in DOMAIN s : s[i] = x
  <2> S \in SUBSET Symbol /\ s \in insert_symbols(old, S)
    BY <1>2
  <2> HIDE DEF S
  <2> QED
    BY InsertSymbols
<1>4. /\ \A c \in text_columns(r) : \E i \in DOMAIN s : s[i] = row[c]
      /\ \A c \in DOMAIN Column[r] \ text_columns(r) : row[c] \in Int
  BY <1>1, <1>3
<1> QED
  BY <1>1, <1>3, <1>4, EncodeDecodes

\* A row of the configuration, as it is written.
LEMMA ConfigRow ==
  ASSUME NEW old, SymbolsOK(old), NEW f \in Symbol, NEW v \in Symbol,
         NEW s \in insert_symbols(old, {f, v})
  PROVE  /\ SymbolsOK(s) /\ Extends(old, s) /\ Config \in Relation
         /\ RowOK(s, Config, Encode(s, Config, <<f, v>>))
         /\ Decode(s, Config, Encode(s, Config, <<f, v>>)) = <<f, v>>
<1>1. /\ Config \in Relation
      /\ Column[Config] = <<"TEXT", "TEXT">>
  BY MergeAssumption
<1>2. DOMAIN Column[Config] = {1, 2} /\ text_columns(Config) = {1, 2}
  BY <1>1 DEF text_columns
<1>3. /\ SymbolsOK(s) /\ Extends(old, s)
      /\ \A x \in {f, v} : \E i \in DOMAIN s : s[i] = x
  BY InsertSymbols
<1>4. <<f, v>> \in [{1, 2} -> Symbol \cup Int] /\ <<f, v>>[1] = f /\ <<f, v>>[2] = v
  OBVIOUS
<1>5. /\ \A c \in text_columns(Config) : \E i \in DOMAIN s : s[i] = <<f, v>>[c]
      /\ \A c \in DOMAIN Column[Config] \ text_columns(Config) : <<f, v>>[c] \in Int
  BY <1>2, <1>3, <1>4
<1> QED
  BY <1>1, <1>2, <1>3, <1>4, <1>5, EncodeDecodes

LEMMA InvInit == MergeInit => MergeInv
<1> SUFFICES ASSUME MergeInit PROVE MergeInv
  OBVIOUS
<1>1. (\A f \in File : IndexOK(content[f])) /\ IndexOK(out)
  BY MergeAssumption DEF MergeInit
<1>2. SymbolsOK(sym)
  BY DEF MergeInit, SymbolsOK
<1>3. IndexOK([sym |-> sym, rows |-> mem])
  BY <1>2 DEF MergeInit, IndexOK
<1>4. file \in File /\ table \in Relation
  BY MergeAssumption DEF MergeInit
<1> QED
  BY <1>1, <1>3, <1>4 DEF MergeInit, MergeInv

LEMMA InvAttach == MergeInv /\ Attach => MergeInv'
<1> SUFFICES ASSUME MergeInv, Attach PROVE MergeInv'
  OBVIOUS
<1>1. PICK f \in todo :
        /\ file' = f /\ todo' = todo \ {f}
        /\ sym' \in insert_symbols(sym, {content[f].sym[i] : i \in DOMAIN content[f].sym})
        /\ map' = [i \in DOMAIN content[f].sym |-> symbol_id(sym', content[f].sym[i])]
  BY DEF Attach
<1>2. f \in File /\ IndexOK(content[f]) /\ SymbolsOK(content[f].sym) /\ SymbolsOK(sym)
  BY DEF MergeInv, IndexOK
<1>3. {content[f].sym[i] : i \in DOMAIN content[f].sym} \in SUBSET Symbol
  BY <1>2 DEF SymbolsOK
<1> DEFINE S == {content[f].sym[i] : i \in DOMAIN content[f].sym}
<1>4. /\ SymbolsOK(sym') /\ Extends(sym, sym')
      /\ \A x \in S : \E j \in DOMAIN sym' : sym'[j] = x
  <2> S \in SUBSET Symbol /\ sym' \in insert_symbols(sym, S)
    BY <1>1, <1>3
  <2> HIDE DEF S
  <2> QED
    BY <1>2, InsertSymbols
<1>5. \A i \in DOMAIN map' : map'[i] \in DOMAIN sym' /\ sym'[map'[i]] = content[f].sym[i]
  <2> SUFFICES ASSUME NEW i \in DOMAIN map'
               PROVE  map'[i] \in DOMAIN sym' /\ sym'[map'[i]] = content[f].sym[i]
    OBVIOUS
  <2>1. PICK j \in DOMAIN sym' : sym'[j] = content[f].sym[i]
    BY <1>1, <1>4
  <2>2. symbol_id(sym', sym'[j]) = j
    BY <1>4, SymbolId
  <2> QED
    BY <1>1, <2>1, <2>2
<1>6. IndexOK([sym |-> sym', rows |-> mem])
  BY <1>4, IndexExtends DEF MergeInv
<1> QED
  BY <1>1, <1>2, <1>5, <1>6 DEF MergeInv, Attach

LEMMA InvCopy == MergeInv /\ Copy => MergeInv'
BY DEF MergeInv, Copy, Merged

LEMMA InvUpdate == MergeInv /\ Update => MergeInv'
<1> SUFFICES ASSUME MergeInv, Update PROVE MergeInv'
  OBVIOUS
<1> DEFINE from == content[file].sym
<1>1. /\ SymbolsOK(sym) /\ table \in Relation /\ tmp = content[file].rows[table]
      /\ DOMAIN map = DOMAIN from
      /\ \A i \in DOMAIN map : map[i] \in DOMAIN sym /\ sym[map[i]] = from[i]
      /\ \A row \in tmp : RowOK(from, table, row)
  BY DEF MergeInv, Update, IndexOK
<1>2. \A row \in tmp : /\ RowOK(sym, table, Renumber(table, row))
                       /\ Decode(sym, table, Renumber(table, row)) = Decode(from, table, row)
  BY <1>1, RenumberDecodes
<1>3. Decoded(content[file])[table] = {Decode(from, table, row) : row \in tmp}
  BY <1>1 DEF Decoded
<1>4. tmp' = {Renumber(table, row) : row \in tmp}
  BY DEF Update
<1>5. /\ \A row \in tmp' : RowOK(sym, table, row)
      /\ {Decode(sym, table, row) : row \in tmp'} = {Decode(from, table, row) : row \in tmp}
  BY <1>2, <1>4
<1> QED
  BY <1>3, <1>5 DEF MergeInv, Update

\* What is in memory after a table was inserted.
LEMMA InsertRows ==
  ASSUME MergeInv, Insert
  PROVE  /\ IndexOK([sym |-> sym, rows |-> mem'])
         /\ Decoded([sym |-> sym, rows |-> mem'])
              = [Decoded([sym |-> sym, rows |-> mem]) EXCEPT ![table] = @ \cup Decoded(content[file])[table]]
<1> DEFINE db == [sym |-> sym, rows |-> mem]
           N == mem[table] \cup tmp
<1>1. /\ IndexOK(db) /\ SymbolsOK(sym) /\ table \in Relation /\ Extends(db.sym, sym)
      /\ \A row \in tmp : RowOK(sym, table, row)
      /\ {Decode(sym, table, row) : row \in tmp} = Decoded(content[file])[table]
  BY DEF MergeInv, Insert, Extends, IndexOK
<1>2. mem' = [db.rows EXCEPT ![table] = N]
  BY DEF Insert
<1>3. \A row \in N : row \in db.rows[table] \/ RowOK(sym, table, row)
  BY <1>1
<1>4. /\ IndexOK([sym |-> sym, rows |-> mem'])
      /\ Decoded([sym |-> sym, rows |-> mem'])
           = [Decoded(db) EXCEPT ![table] = {Decode(sym, table, row) : row \in N}]
  <2> HIDE DEF db, N
  <2> QED
    BY <1>1, <1>2, <1>3, ChangeRows
<1>5. {Decode(sym, table, row) : row \in N}
        = {Decode(sym, table, row) : row \in mem[table]} \cup {Decode(sym, table, row) : row \in tmp}
  OBVIOUS
<1>6. Decoded(db)[table] = {Decode(sym, table, row) : row \in mem[table]}
  BY <1>1 DEF Decoded
<1>7. {Decode(sym, table, row) : row \in N} = Decoded(db)[table] \cup Decoded(content[file])[table]
  BY <1>1, <1>5, <1>6
<1> QED
  BY <1>4, <1>7

LEMMA InvInsert == MergeInv /\ Insert => MergeInv'
BY InsertRows DEF MergeInv, Insert

LEMMA InvDetach == MergeInv /\ Detach => MergeInv'
BY DEF MergeInv, Detach

LEMMA InvBackup == MergeInv /\ Backup => MergeInv'
BY DEF MergeInv, Backup

LEMMA InvRaise == MergeInv /\ Raise => MergeInv'
BY DEF MergeInv, Raise

----------------------------------------------------------------------------
(* What the operations on the index that was written do to its views.      *)

LEMMA WriteViews ==
  ASSUME MergeInv, NEW r \in DOMAIN Inputs, NEW row \in Inputs[r], WriteFact(r, row)
  PROVE  IndexOK(out') /\ Decoded(out') = [Decoded(out) EXCEPT ![r] = @ \cup {row}]
<1>1. PICK s \in insert_symbols(out.sym, {row[c] : c \in text_columns(r)}) :
        out' = [sym |-> s, rows |-> [out.rows EXCEPT ![r] = @ \cup {Encode(s, r, row)}]]
  BY DEF WriteFact
<1>2. IndexOK(out) /\ SymbolsOK(out.sym)
  BY DEF MergeInv, IndexOK
<1>3. /\ SymbolsOK(s) /\ Extends(out.sym, s) /\ r \in Relation
      /\ RowOK(s, r, Encode(s, r, row)) /\ Decode(s, r, Encode(s, r, row)) = row
  BY <1>2, WrittenRow
<1> DEFINE N == out.rows[r] \cup {Encode(s, r, row)}
<1>4. out' = [sym |-> s, rows |-> [out.rows EXCEPT ![r] = N]]
  BY <1>1
<1>5. \A q \in N : q \in out.rows[r] \/ RowOK(s, r, q)
  BY <1>3
<1>6. IndexOK(out') /\ Decoded(out') = [Decoded(out) EXCEPT ![r] = {Decode(s, r, q) : q \in N}]
  <2> HIDE DEF N
  <2> QED
    BY <1>2, <1>3, <1>4, <1>5, ChangeRows
<1>7. \A q \in out.rows[r] : Decode(s, r, q) = Decode(out.sym, r, q)
  BY <1>2, <1>3, RowExtends DEF IndexOK
<1>8. {Decode(s, r, q) : q \in N} = Decoded(out)[r] \cup {row}
  BY <1>3, <1>7 DEF Decoded
<1> QED
  BY <1>6, <1>8

LEMMA CreateViews ==
  ASSUME MergeInv, NEW r \in DOMAIN Inputs, CreateRelation(r)
  PROVE  IndexOK(out') /\ Decoded(out') = [Decoded(out) EXCEPT ![r] = {}]
<1>1. /\ IndexOK(out) /\ SymbolsOK(out.sym) /\ Extends(out.sym, out.sym) /\ r \in Relation
      /\ out' = [sym |-> out.sym, rows |-> [out.rows EXCEPT ![r] = {}]]
  BY MergeAssumption DEF MergeInv, IndexOK, Extends, CreateRelation
<1>2. IndexOK(out') /\ Decoded(out') = [Decoded(out) EXCEPT ![r] = {Decode(out.sym, r, q) : q \in {}}]
  <2> \A q \in {} : q \in out.rows[r] \/ RowOK(out.sym, r, q)
    OBVIOUS
  <2> QED
    BY <1>1, ChangeRows
<1>3. {Decode(out.sym, r, q) : q \in {}} = {}
  OBVIOUS
<1> QED
  BY <1>2, <1>3

\* The first column of a row of the configuration shows the symbol of its id.
LEMMA ConfigFeature ==
  ASSUME NEW s, NEW row, RowOK(s, Config, row)
  PROVE  row[1] \in DOMAIN s /\ Decode(s, Config, row)[1] = s[row[1]]
<1>1. 1 \in DOMAIN Column[Config] /\ 1 \in text_columns(Config)
  BY MergeAssumption DEF text_columns
<1> QED
  BY <1>1 DEF RowOK, Decode

LEMMA DeleteViews ==
  ASSUME MergeInv, NEW feature \in Symbol, DeleteConfig(feature)
  PROVE  /\ IndexOK(out')
         /\ Decoded(out') = [Decoded(out) EXCEPT ![Config] = {row \in @ : row[1] # feature}]
<1>1. PICK i \in DOMAIN out.sym :
        /\ out.sym[i] = feature
        /\ out' = [sym |-> out.sym,
                   rows |-> [out.rows EXCEPT ![Config] = {row \in @ : row[1] # i}]]
  BY DEF DeleteConfig
<1> DEFINE N == {row \in out.rows[Config] : row[1] # i}
<1>2. /\ IndexOK(out) /\ SymbolsOK(out.sym) /\ Extends(out.sym, out.sym) /\ Config \in Relation
      /\ \A row \in out.rows[Config] : RowOK(out.sym, Config, row)
  BY MergeAssumption DEF MergeInv, IndexOK, Extends
<1>3. IndexOK(out') /\ Decoded(out') = [Decoded(out) EXCEPT ![Config] = {Decode(out.sym, Config, q) : q \in N}]
  <2> out' = [sym |-> out.sym, rows |-> [out.rows EXCEPT ![Config] = N]]
    BY <1>1
  <2> \A q \in N : q \in out.rows[Config] \/ RowOK(out.sym, Config, q)
    OBVIOUS
  <2> HIDE DEF N
  <2> QED
    BY <1>2, ChangeRows
<1>4. \A row \in out.rows[Config] : Decode(out.sym, Config, row)[1] = feature <=> row[1] = i
  BY <1>1, <1>2, ConfigFeature DEF SymbolsOK
<1>5. Decoded(out)[Config] = {Decode(out.sym, Config, q) : q \in out.rows[Config]}
  BY <1>2 DEF Decoded
<1>6. {Decode(out.sym, Config, q) : q \in N} = {row \in Decoded(out)[Config] : row[1] # feature}
  BY <1>4, <1>5
<1> QED
  BY <1>3, <1>6

\* When all rows of the feature are the same row, only the new one is left.
LEMMA SetViews ==
  ASSUME MergeInv, NEW feature \in Symbol, NEW value \in Symbol, SetConfig(feature, value)
  PROVE  /\ IndexOK(out')
         /\ LET old == {row \in Decoded(out)[Config] : row[1] = feature}
            IN  \E kept \in SUBSET old :
                  /\ (\A p, q \in old : p = q) => kept = {}
                  /\ Decoded(out') =
                       [Decoded(out) EXCEPT ![Config] = (@ \ old) \cup kept \cup {<<feature, value>>}]
<1>1. PICK s \in insert_symbols(out.sym, {feature, value}) :
        LET new == Encode(s, Config, <<feature, value>>)
            old == {row \in out.rows[Config] : row[1] = new[1]}
        IN  \E gone \in IF old = {} \/ new \in old THEN {{}} ELSE {{row} : row \in old} :
              out' = [sym |-> s, rows |-> [out.rows EXCEPT ![Config] = (@ \ gone) \cup {new}]]
  BY DEF SetConfig
<1> DEFINE new == Encode(s, Config, <<feature, value>>)
           old == {row \in out.rows[Config] : row[1] = new[1]}
           View(row) == Decode(s, Config, row)
<1>2. PICK gone \in IF old = {} \/ new \in old THEN {{}} ELSE {{row} : row \in old} :
        out' = [sym |-> s, rows |-> [out.rows EXCEPT ![Config] = (@ \ gone) \cup {new}]]
  BY <1>1
<1>3. IndexOK(out) /\ SymbolsOK(out.sym) /\ \A row \in out.rows[Config] : RowOK(out.sym, Config, row)
  BY MergeAssumption DEF MergeInv, IndexOK
<1>4. /\ SymbolsOK(s) /\ Extends(out.sym, s) /\ Config \in Relation
      /\ RowOK(s, Config, new) /\ View(new) = <<feature, value>>
  BY <1>3, ConfigRow
<1> DEFINE rows == out.rows[Config]
           N == (rows \ gone) \cup {new}
<1>5. \A row \in rows : RowOK(s, Config, row) /\ View(row) = Decode(out.sym, Config, row)
  BY <1>3, <1>4, RowExtends
<1>6. IndexOK(out') /\ Decoded(out') = [Decoded(out) EXCEPT ![Config] = {View(row) : row \in N}]
  <2> out' = [sym |-> s, rows |-> [out.rows EXCEPT ![Config] = N]]
    BY <1>2
  <2> \A row \in N : row \in out.rows[Config] \/ RowOK(s, Config, row)
    BY <1>4
  <2> HIDE DEF N, new
  <2> QED
    BY <1>3, <1>4, ChangeRows
<1>7. Decoded(out)[Config] = {View(row) : row \in rows}
  BY <1>4, <1>5 DEF Decoded
<1>8. \A row \in rows : View(row)[1] = feature <=> row \in old
  <2> SUFFICES ASSUME NEW row \in rows PROVE View(row)[1] = feature <=> row[1] = new[1]
    OBVIOUS
  <2>1. /\ row[1] \in DOMAIN s /\ View(row)[1] = s[row[1]]
        /\ new[1] \in DOMAIN s /\ View(new)[1] = s[new[1]]
    <3> HIDE DEF new
    <3> QED
      BY <1>4, <1>5, ConfigFeature
  <2>2. View(new)[1] = feature
    BY <1>4
  <2> QED
    BY <1>4, <2>1, <2>2 DEF SymbolsOK
<1>9. \A p \in rows, q \in rows : View(p) = View(q) => p = q
  BY <1>4, <1>5, DecodeInjective
<1> HIDE DEF new, rows, View
<1> DEFINE Old == {row \in Decoded(out)[Config] : row[1] = feature}
           Kept == {View(row) : row \in (old \ gone) \ {new}}
<1>10. Old = {View(row) : row \in old}
  BY <1>7, <1>8 DEF rows
<1>11. Kept \in SUBSET Old
  BY <1>10
<1>12. ASSUME \A p, q \in Old : p = q PROVE Kept = {}
  <2>1. \A p, q \in old : p = q
    BY <1>9, <1>10, <1>12 DEF rows
  <2> QED
    BY <2>1
<1>13. gone \subseteq old
  OBVIOUS
<1>14. {View(row) : row \in N} = (Decoded(out)[Config] \ Old) \cup Kept \cup {<<feature, value>>}
  <2>1. Decoded(out)[Config] \ Old = {View(row) : row \in rows \ old}
    BY <1>7, <1>8, <1>10 DEF rows
  <2>2. N = (rows \ old) \cup ((old \ gone) \ {new}) \cup {new}
    BY <1>13 DEF rows
  <2> QED
    BY <1>4, <2>1, <2>2
<1> QED
  BY <1>6, <1>11, <1>12, <1>14

LEMMA InvIndexStep == MergeInv /\ IndexStep => MergeInv'
<1> SUFFICES ASSUME MergeInv, IndexStep PROVE MergeInv'
  OBVIOUS
<1>1. unchanged /\ IndexOK(out')
  <2>1. CASE \E t \in Settings : SetConfig(t[1], t[2]) \/ DeleteConfig(t[1])
    <3>1. PICK t \in Settings : SetConfig(t[1], t[2]) \/ DeleteConfig(t[1])
      BY <2>1
    <3>2. t[1] \in Symbol /\ t[2] \in Symbol
      BY MergeAssumption
    <3> QED
      BY <3>1, <3>2, SetViews, DeleteViews DEF SetConfig, DeleteConfig
  <2>2. CASE \E r \in DOMAIN Inputs : CreateRelation(r) \/ \E row \in Inputs[r] : WriteFact(r, row)
    BY <2>2, CreateViews, WriteViews DEF CreateRelation, WriteFact
  <2> QED
    BY <2>1, <2>2 DEF IndexStep
<1> QED
  BY <1>1 DEF MergeInv, unchanged

\* In every state of a merge and of what follows it, every row points at the
\* symbols it was read with, under every order of inputs and tables.
THEOREM MergeInvariant == MergeSpec => []MergeInv
<1>1. MergeInv /\ [MergeNext]_mergeVars => MergeInv'
  <2>1. MergeInv /\ UNCHANGED mergeVars => MergeInv'
    BY DEF MergeInv, mergeVars
  <2> QED
    BY <2>1, InvAttach, InvCopy, InvUpdate, InvInsert, InvDetach, InvBackup, InvRaise, InvIndexStep
    DEF MergeNext, MergeStep
<1> QED
  BY <1>1, InvInit, PTL DEF MergeSpec

----------------------------------------------------------------------------
(* Refinement.                                                             *)

LEMMA RefineInit == MergeInit => Union!AbsInit
<1> SUFFICES ASSUME MergeInit PROVE Union!AbsInit
  OBVIOUS
<1>1. Left = File \X Merged
  BY DEF MergeInit, Left
<1>2. Decoded([sym |-> sym, rows |-> mem]) = [r \in Relation |-> {}]
  BY DEF MergeInit, Decoded
<1> QED
  BY <1>1, <1>2 DEF MergeInit, Merged, Union!AbsInit

\* Steps of the merge of which the views show nothing.
LEMMA RefineStutter ==
  ASSUME MergeInv, Attach \/ Copy \/ Update \/ Detach
  PROVE  UNCHANGED Union!absVars
<1>1. CASE Attach
  <2>1. PICK f \in todo :
          /\ file' = f /\ todo' = todo \ {f}
          /\ sym' \in insert_symbols(sym, {content[f].sym[i] : i \in DOMAIN content[f].sym})
    BY <1>1 DEF Attach
  <2> DEFINE S == {content[f].sym[i] : i \in DOMAIN content[f].sym}
  <2>2. SymbolsOK(sym) /\ S \in SUBSET Symbol
    BY DEF MergeInv, IndexOK, SymbolsOK
  <2>3. SymbolsOK(sym') /\ Extends(sym, sym')
    <3> sym' \in insert_symbols(sym, S)
      BY <2>1
    <3> HIDE DEF S
    <3> QED
      BY <2>2, InsertSymbols
  <2>4. Decoded([sym |-> sym', rows |-> mem]) = Decoded([sym |-> sym, rows |-> mem])
    BY <2>3, IndexExtends DEF MergeInv
  <2>5. Left' = Left
    BY <1>1, <2>1 DEF Attach, MergeInv, Left, Merged
  <2> QED
    BY <1>1, <2>4, <2>5 DEF Attach, Union!absVars
<1>2. CASE Copy
  BY <1>2 DEF Copy, Union!absVars, Left
<1>3. CASE Update
  BY <1>3 DEF Update, Union!absVars, Left
<1>4. CASE Detach
  BY <1>4 DEF Detach, Union!absVars, Left
<1> QED
  BY <1>1, <1>2, <1>3, <1>4

LEMMA RefineInsert ==
  ASSUME MergeInv, Insert
  PROVE  Union!Add(file, table)
<1>1. /\ file \in File /\ table \in Merged /\ table \in pending /\ file \notin todo
      /\ pending \subseteq Merged
  BY DEF MergeInv, Insert
<1>2. <<file, table>> \in Left
  BY <1>1 DEF Left
<1>3. Left' = Left \ {<<file, table>>}
  BY <1>1 DEF Left, Insert
<1>4. Decoded([sym |-> sym, rows |-> mem])'
        = [Decoded([sym |-> sym, rows |-> mem]) EXCEPT ![table] = @ \cup Decoded(content[file])[table]]
  BY InsertRows DEF Insert
<1> QED
  BY <1>1, <1>2, <1>3, <1>4 DEF Insert, Union!Add

LEMMA RefineBackup ==
  ASSUME MergeInv, Backup
  PROVE  Union!Publish
<1>1. Left = {}
  BY DEF MergeInv, Backup, Left
<1>2. Left' = Left
  BY DEF Backup, Left
<1> QED
  BY <1>1, <1>2 DEF Backup, Union!Publish

LEMMA RefineRaise ==
  ASSUME Raise
  PROVE  Union!Abort
BY DEF Raise, Left, Union!Abort

----------------------------------------------------------------------------
(* The configuration.                                                      *)

\* What is in memory comes from the inputs, so that a feature they agree on has
\* one value in the output, whatever is set and deleted there.
ConfigInv ==
  /\ Decoded([sym |-> sym, rows |-> mem])[Config] \subseteq UNION {Decoded(content[f])[Config] : f \in File}
  /\ phase = "done" =>
       \A s \in Settings : Disputed(s[1]) \/ \A p, q \in ConfigRows(s[1], out) : p = q

LEMMA ConfigInit == MergeInit => ConfigInv
<1> SUFFICES ASSUME MergeInit PROVE ConfigInv
  OBVIOUS
<1>1. Config \in Relation
  BY MergeAssumption
<1>2. Decoded([sym |-> sym, rows |-> mem])[Config] = {}
  BY <1>1 DEF MergeInit, Decoded
<1> QED
  BY <1>2 DEF MergeInit, ConfigInv

\* The index that is written has the rows in memory.
LEMMA ConfigBackup == MergeInv /\ ConfigInv /\ Backup => ConfigInv'
<1> SUFFICES ASSUME ConfigInv, Backup PROVE ConfigInv'
  OBVIOUS
<1>1. content' = content /\ sym' = sym /\ mem' = mem /\ out' = [sym |-> sym, rows |-> mem]
  BY DEF Backup
<1>2. ASSUME NEW feature, ~Disputed(feature), NEW p \in ConfigRows(feature, out'), NEW q \in ConfigRows(feature, out')
      PROVE  p = q
  <2>1. /\ p[1] = feature /\ p \in UNION {Decoded(content[f])[Config] : f \in File}
        /\ q[1] = feature /\ q \in UNION {Decoded(content[f])[Config] : f \in File}
    BY <1>1, <1>2 DEF ConfigRows, ConfigInv
  <2>2. PICK f \in File, g \in File : p \in Decoded(content[f])[Config] /\ q \in Decoded(content[g])[Config]
    BY <2>1
  <2> QED
    BY <1>2, <2>1, <2>2 DEF Disputed, ConfigRows
<1>3. \A feature : Disputed(feature)' <=> Disputed(feature)
  BY <1>1 DEF Disputed, ConfigRows
<1> QED
  BY <1>1, <1>2, <1>3 DEF ConfigInv, ConfigRows

\* Changes of the index that was written.
LEMMA ConfigIndexStep == MergeInv /\ ConfigInv /\ IndexStep => ConfigInv'
<1> SUFFICES ASSUME MergeInv, ConfigInv, IndexStep PROVE ConfigInv'
  OBVIOUS
<1>1. phase = "done" /\ unchanged
  BY DEF IndexStep, SetConfig, DeleteConfig, CreateRelation, WriteFact
<1>2. \A feature : Disputed(feature)' <=> Disputed(feature)
  BY <1>1 DEF unchanged, Disputed, ConfigRows
<1>3. Config \in Relation /\ \A db : DOMAIN Decoded(db) = Relation
  BY MergeAssumption DEF Decoded
<1>4. SUFFICES ASSUME NEW s \in Settings, ~Disputed(s[1]),
                      NEW p \in ConfigRows(s[1], out'), NEW q \in ConfigRows(s[1], out')
               PROVE  p = q
  BY <1>1, <1>2 DEF unchanged, ConfigInv, ConfigRows
<1>5. \A a, b \in ConfigRows(s[1], out) : a = b
  BY <1>1, <1>4 DEF ConfigInv
<1>6. CASE \E t \in Settings : SetConfig(t[1], t[2]) \/ DeleteConfig(t[1])
  <2>1. PICK t \in Settings : SetConfig(t[1], t[2]) \/ DeleteConfig(t[1])
    BY <1>6
  <2>2. t[1] \in Symbol /\ t[2] \in Symbol
    BY MergeAssumption
  <2>3. CASE SetConfig(t[1], t[2])
    <3> DEFINE old == ConfigRows(t[1], out)
    <3>1. PICK kept \in SUBSET old :
            /\ (\A a, b \in old : a = b) => kept = {}
            /\ Decoded(out') = [Decoded(out) EXCEPT ![Config] = (@ \ old) \cup kept \cup {<<t[1], t[2]>>}]
      BY <2>2, <2>3, SetViews DEF ConfigRows
    <3>2. Decoded(out')[Config] = (Decoded(out)[Config] \ old) \cup kept \cup {<<t[1], t[2]>>}
      BY <1>3, <3>1
    <3>3. CASE s[1] = t[1]
      <4>1. kept = {}
        BY <1>5, <3>1, <3>3
      <4> QED
        BY <3>2, <3>3, <4>1 DEF ConfigRows
    <3>4. CASE s[1] # t[1]
      BY <1>5, <3>2, <3>4 DEF ConfigRows
    <3> QED
      BY <3>3, <3>4
  <2>4. CASE DeleteConfig(t[1])
    <3>1. Decoded(out')[Config] \subseteq Decoded(out)[Config]
      BY <1>3, <2>2, <2>4, DeleteViews
    <3> QED
      BY <1>5, <3>1 DEF ConfigRows
  <2> QED
    BY <2>1, <2>3, <2>4
<1>7. CASE \E r \in DOMAIN Inputs : CreateRelation(r) \/ \E row \in Inputs[r] : WriteFact(r, row)
  <2>1. PICK r \in DOMAIN Inputs : CreateRelation(r) \/ \E row \in Inputs[r] : WriteFact(r, row)
    BY <1>7
  <2>2. r # Config
    BY MergeAssumption
  <2>3. Decoded(out')[Config] = Decoded(out)[Config]
    BY <1>3, <2>1, <2>2, CreateViews, WriteViews
  <2> QED
    BY <1>5, <2>3 DEF ConfigRows
<1> QED
  BY <1>6, <1>7 DEF IndexStep

\* A feature the inputs agree on never has two values in the output.
LEMMA ConfigKept == MergeInv /\ ConfigInv /\ [MergeNext]_mergeVars => ConfigInv'
<1> SUFFICES ASSUME MergeInv, ConfigInv, [MergeNext]_mergeVars PROVE ConfigInv'
  OBVIOUS
<1>1. CASE Attach \/ Copy \/ Update \/ Detach
  <2>1. Decoded([sym |-> sym, rows |-> mem])' = Decoded([sym |-> sym, rows |-> mem])
    BY <1>1, RefineStutter DEF Union!absVars
  <2>2. content' = content /\ phase' # "done"
    BY <1>1 DEF Attach, Copy, Update, Detach
  <2> QED
    BY <2>1, <2>2 DEF ConfigInv
<1>2. CASE Insert
  <2>1. Decoded([sym |-> sym, rows |-> mem])'
          = [Decoded([sym |-> sym, rows |-> mem]) EXCEPT ![table] = @ \cup Decoded(content[file])[table]]
    BY <1>2, InsertRows DEF Insert
  <2>2. content' = content /\ phase' # "done" /\ file \in File /\ Config \in Relation
    BY <1>2, MergeAssumption DEF MergeInv, Insert
  <2>3. DOMAIN Decoded([sym |-> sym, rows |-> mem]) = Relation
    BY DEF Decoded
  <2>4. Decoded([sym |-> sym, rows |-> mem])'[Config]
          \subseteq Decoded([sym |-> sym, rows |-> mem])[Config] \cup Decoded(content[file])[Config]
    BY <2>1, <2>2, <2>3
  <2> QED
    BY <2>2, <2>4 DEF ConfigInv
<1>3. CASE Raise
  BY <1>3 DEF Raise, ConfigInv
<1>4. CASE UNCHANGED mergeVars
  BY <1>4 DEF mergeVars, ConfigInv, Disputed, ConfigRows
<1> QED
  BY <1>1, <1>2, <1>3, <1>4, ConfigBackup, ConfigIndexStep DEF MergeNext, MergeStep

----------------------------------------------------------------------------

LEMMA RefineIndexStep ==
  ASSUME MergeInv, ConfigInv, IndexStep
  PROVE  Union!AbsNext \/ SetDisputed
<1>1. phase = "done" /\ unchanged
  BY DEF IndexStep, SetConfig, DeleteConfig, CreateRelation, WriteFact
<1>2. Left' = Left
  BY <1>1 DEF unchanged, Left
<1>3. CASE \E t \in Settings : SetConfig(t[1], t[2]) \/ DeleteConfig(t[1])
  <2>1. PICK t \in Settings : SetConfig(t[1], t[2]) \/ DeleteConfig(t[1])
    BY <1>3
  <2>2. t[1] \in Symbol /\ t[2] \in Symbol
    BY MergeAssumption
  <2>3. CASE SetConfig(t[1], t[2])
    <3>1. ASSUME ~Disputed(t[1]) PROVE Union!Set(t[1], t[2])
      <4> DEFINE old == ConfigRows(t[1], out)
      <4>1. \A p, q \in old : p = q
        BY <1>1, <3>1 DEF ConfigInv
      <4>2. PICK kept \in SUBSET old :
              /\ (\A p, q \in old : p = q) => kept = {}
              /\ Decoded(out') = [Decoded(out) EXCEPT ![Config] = (@ \ old) \cup kept \cup {<<t[1], t[2]>>}]
        BY <2>2, <2>3, SetViews DEF ConfigRows
      <4>3. (Decoded(out)[Config] \ old) \cup kept = {row \in Decoded(out)[Config] : row[1] # t[1]}
        BY <4>1, <4>2 DEF ConfigRows
      <4>4. Decoded(out') = [Decoded(out) EXCEPT ![Config] = {row \in @ : row[1] # t[1]} \cup {<<t[1], t[2]>>}]
        BY <4>2, <4>3
      <4> QED
        BY <1>1, <1>2, <4>4 DEF unchanged, Union!Set
    <3> QED
      BY <2>3, <3>1 DEF Union!AbsNext, SetDisputed
  <2>4. CASE DeleteConfig(t[1])
    <3>1. Union!Delete(t[1])
      BY <1>1, <1>2, <2>2, <2>4, DeleteViews DEF unchanged, Union!Delete
    <3> QED
      BY <3>1 DEF Union!AbsNext
  <2> QED
    BY <2>1, <2>3, <2>4
<1>4. CASE \E r \in DOMAIN Inputs : CreateRelation(r) \/ \E row \in Inputs[r] : WriteFact(r, row)
  <2>1. PICK r \in DOMAIN Inputs : CreateRelation(r) \/ \E row \in Inputs[r] : WriteFact(r, row)
    BY <1>4
  <2>2. CASE CreateRelation(r)
    <3>1. Union!Create(r)
      BY <1>1, <1>2, <2>2, CreateViews DEF unchanged, Union!Create
    <3> QED
      BY <3>1 DEF Union!AbsNext
  <2>3. ASSUME NEW row \in Inputs[r], WriteFact(r, row) PROVE Union!AbsNext
    <3>1. Union!Write(r, row)
      BY <1>1, <1>2, <2>3, WriteViews DEF unchanged, Union!Write
    <3> QED
      BY <3>1 DEF Union!AbsNext
  <2> QED
    BY <2>1, <2>2, <2>3
<1> QED
  BY <1>3, <1>4 DEF IndexStep

\* Merging, and changing the result, implements the union of the views of the
\* inputs, for any indices and any renumbering, except for setting a feature to
\* which they give different values.
THEOREM MergeRefines == MergeSpec => UnionSpec
<1>1. MergeInv /\ ConfigInv /\ [MergeNext]_mergeVars => [Union!AbsNext \/ SetDisputed]_(Union!absVars)
  <2> SUFFICES ASSUME MergeInv, ConfigInv, [MergeNext]_mergeVars
               PROVE  [Union!AbsNext \/ SetDisputed]_(Union!absVars)
    OBVIOUS
  <2>1. CASE Attach \/ Copy \/ Update \/ Detach
    BY <2>1, RefineStutter
  <2>2. CASE Insert
    <3>1. file \in File /\ table \in Relation
      BY DEF MergeInv
    <3> QED
      BY <2>2, <3>1, RefineInsert DEF Union!AbsNext
  <2>3. CASE Backup
    BY <2>3, RefineBackup DEF Union!AbsNext
  <2>4. CASE Raise
    BY <2>4, RefineRaise DEF Union!AbsNext
  <2>5. CASE IndexStep
    BY <2>5, RefineIndexStep
  <2>6. CASE UNCHANGED mergeVars
    BY <2>6 DEF mergeVars, Union!absVars, Left
  <2> QED
    BY <2>1, <2>2, <2>3, <2>4, <2>5, <2>6 DEF MergeNext, MergeStep
<1>2. MergeSpec => []ConfigInv
  BY ConfigInit, ConfigKept, MergeInvariant, PTL DEF MergeSpec
<1> QED
  BY <1>1, <1>2, RefineInit, MergeInvariant, PTL DEF MergeSpec, UnionSpec

=============================================================================
