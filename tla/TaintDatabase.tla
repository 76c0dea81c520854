--------------------------- MODULE TaintDatabase ---------------------------
(***************************************************************************)
(* The tables a query leaves behind, as the Python side reads them: the     *)
(* forward and backward slice, the endpoints, the instructions and names of *)
(* the program, and the views over them (vis/model.py, create_taint_views). *)
(*                                                                         *)
(* An edge row of either slice leads from `from` to `to` as the slice went, *)
(* forward along the execution and backward against it.                    *)
(***************************************************************************)
EXTENDS Naturals, FiniteSets

CONSTANTS
  VertexId,   \* ids of reached vertices
  DVar, DPath, DInsn, DFunction, DLabel,
  DRegion, DFile  \* ids of source regions and of source files

DVertex == [v : DVar, p : DPath]

\* A directed table row.  The ids of the two slices differ.
VertexRow == [id : VertexId, v : DVar, p : DPath, label : DLabel, direction : {"f", "b"}]
EdgeRow   == [to : VertexId, from : VertexId, insn : DInsn,
              kind : {"move", "actual-to-formal", "formal-to-actual"}, direction : {"f", "b"}]
TagRow    == [v : DVar, p : DPath, tag : DLabel]

\* The four tables of regions, in the order in which they are read.
RegionKinds == <<"address", "byte", "char", "line">>
RegionKind  == {"address", "byte", "char", "line"}

DatabaseType ==
  [vertex : SUBSET VertexRow,    \* ReachableVertex of both slices
   edge : SUBSET EdgeRow,        \* ReachableEdge of both slices
   source : SUBSET TagRow,       \* TaintSourceVertex
   sink : SUBSET TagRow,         \* LeakingSinkVertex
   varIn : SUBSET (DVar \X DFunction),    \* CVar_InFunction: globals have none
   insnIn : SUBSET (DInsn \X DFunction),  \* IntCInsn_InFunction
   location : SUBSET [element : DVar \cup DInsn, region : DRegion, file : DFile],
   region : SUBSET [id : DRegion, kind : RegionKind],
   file : SUBSET [id : DFile, absolute : BOOLEAN, base : BOOLEAN],  \* base: has a UriBaseId
   match : SUBSET ([kind : {"insn"}, obj : DInsn, label : DLabel]            \* Match_Insn
                     \cup [kind : {"var"}, obj : DVar, label : DLabel]       \* Match_Var
                     \cup [kind : {"func"}, obj : DFunction, label : DLabel])]  \* Match_Func

\* What the slices guarantee: an id stands for one vertex of one slice (the
\* note on ids_by_vertex in vis/sarif.py), and edges join vertices of theirs.
DatabaseOK(db) ==
  /\ \A x, y \in db.vertex : x.id = y.id => x = y
  /\ \A e \in db.edge : \A i \in {e.to, e.from} :
       \E x \in db.vertex : x.id = i /\ x.direction = e.direction

\* What the schema asks of a frontend: "Any CInsn is a foreign key into the
\* CInsn_InFunction table" (ctadl_schema.dl:37), and a location refers to a region
\* and to a file (ctadl_schema.dl:185).
Located(db) ==
  /\ \A e \in db.edge : \E f \in DFunction : <<e.insn, f>> \in db.insnIn
  /\ \A m \in db.match : m.kind = "insn" => \E f \in DFunction : <<m.obj, f>> \in db.insnIn
  /\ \A l \in db.location : /\ \E r \in db.region : r.id = l.region
                            /\ \E f \in db.file : f.id = l.file

----------------------------------------------------------------------------
(* The views.                                                              *)

FlipRow(e) == [e EXCEPT !.to = e.from, !.from = e.to]

ForwardEdge(db)    == {e \in db.edge : e.direction = "f"}
BackwardEdge(db)   == {e \in db.edge : e.direction = "b"}

\* natural_flow.ReachableEdge: all edges in execution order.
NaturalEdge(db) == ForwardEdge(db) \cup {FlipRow(e) : e \in BackwardEdge(db)}

\* reverse_flow.ReachableEdge: it turns the edges of both slices around, so
\* that those of the backward slice are in execution order.
ReverseEdge(db) == {FlipRow(e) : e \in db.edge}

=============================================================================
