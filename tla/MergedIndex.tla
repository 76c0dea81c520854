---------------------------- MODULE MergedIndex ----------------------------
(***************************************************************************)
(* What merging indices and then configuring the result promise, in terms   *)
(* of the views alone: "Merges all input CTADL index files into output"     *)
(* (util/merge.py), "config[feature] = value sets the config value,         *)
(* creating the feature if it doesn't exist" and "creating new input        *)
(* relations and writing to them" (vis/model.py).                          *)
(***************************************************************************)
CONSTANTS
  Relation, File,
  Omitted,  \* relations that are not merged
  Config,   \* the relation of the configuration, with rows <<feature, value>>
  Settings, \* features and values that may be set
  Inputs    \* for input relations, rows that may be written

VARIABLES
  content,  \* the relations of each input
  left,     \* the relations of inputs that are not in `union` yet
  union,
  output,   \* the relations of the output
  state

absVars == <<content, left, union, output, state>>

AbsInit ==
  /\ DOMAIN content = File
  /\ left = File \X (Relation \ Omitted)
  /\ union = [r \in Relation |-> {}]
  /\ state = "merging"

Add(f, r) ==
  /\ state = "merging" /\ <<f, r>> \in left
  /\ left' = left \ {<<f, r>>}
  /\ union' = [union EXCEPT ![r] = @ \cup content[f][r]]
  /\ UNCHANGED <<content, output, state>>

\* The output becomes the union of all inputs.
Publish ==
  /\ state = "merging" /\ left = {}
  /\ output' = union
  /\ state' = "published"
  /\ UNCHANGED <<content, left, union>>

\* An error leaves the output as it was.
Abort ==
  /\ state = "merging"
  /\ state' = "aborted"
  /\ UNCHANGED <<content, left, union, output>>

\* The feature has the value, and no other.
Set(feature, value) ==
  /\ state = "published"
  /\ output' = [output EXCEPT ![Config] = {row \in @ : row[1] # feature} \cup {<<feature, value>>}]
  /\ UNCHANGED <<content, left, union, state>>

Delete(feature) ==
  /\ state = "published"
  /\ output' = [output EXCEPT ![Config] = {row \in @ : row[1] # feature}]
  /\ UNCHANGED <<content, left, union, state>>

Create(r) ==
  /\ state = "published"
  /\ output' = [output EXCEPT ![r] = {}]
  /\ UNCHANGED <<content, left, union, state>>

Write(r, row) ==
  /\ state = "published"
  /\ output' = [output EXCEPT ![r] = @ \cup {row}]
  /\ UNCHANGED <<content, left, union, state>>

AbsNext ==
  \/ \E f \in File, r \in Relation : Add(f, r)
  \/ Publish \/ Abort
  \/ \E s \in Settings : Set(s[1], s[2]) \/ Delete(s[1])
  \/ \E r \in DOMAIN Inputs : Create(r) \/ \E row \in Inputs[r] : Write(r, row)

AbsSpec == AbsInit /\ [][AbsNext]_absVars

=============================================================================
