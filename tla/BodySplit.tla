----------------------------- MODULE BodySplit -----------------------------
(***************************************************************************)
(* How a JSON body becomes span attributes: splitJSONBodyAttributes and    *)
(* the bodySplitter it uses.  Every leaf of the body is a value of the     *)
(* attribute named by its path; numbers of attributes, values and levels   *)
(* are limited, and what does not fit is to be marked.                     *)
(*                                                                         *)
(* The fields of the body are taken one after another; the recursion of    *)
(* walk is a list of what is still to be walked of the one taken last.  A  *)
(* name is a sequence, as "a.b" is a name like any other and paths are     *)
(* joined with dots; "!" stands for a name no attribute may have.          *)
(***************************************************************************)
EXTENDS Naturals, FiniteSets, Sequences, Folds

CONSTANTS NameOrder,  \* the names of fields as sort.Strings orders them
          MaxFields,  \* maxSplitBodyFields
          MaxDepth,   \* maxSplitBodyDepth
          MaxPaths,   \* maxSplitBodyAttributes
          MaxValues   \* maxSplitBodyValues

ASSUME LimitsAssumption == /\ {MaxDepth, MaxPaths} \subseteq Nat
                           /\ {MaxFields, MaxValues} \subseteq Nat \ {0}

(* A value is a leaf, an object or an array.  A leaf has its text and may   *)
(* be a string; an object has <<name, value>> pairs, an array values.       *)
Leaf(text) == [kind |-> "leaf", text |-> text, string |-> TRUE]
Number(text) == [kind |-> "leaf", text |-> text, string |-> FALSE]
Object(fields) == [kind |-> "object", fields |-> fields]
Array(items) == [kind |-> "array", items |-> items]

VARIABLES doc,      \* the body, while it is split
          nextField,\* its field to be taken next
          work,     \* what is still to be walked before, the first to be taken next
          scalars,  \* the attributes of top-level leaves, <<path, text>>
          values,   \* bodySplitter.values: for each path the texts found
          limited   \* bodySplitter.limited

splitVars == <<doc, nextField, work, scalars, values, limited>>

NoValues == [path \in {} |-> <<>>]

\* newBodySplitter.
SplitInit == /\ doc = Leaf("") /\ nextField = 1 /\ work = <<>>
             /\ scalars = {} /\ values = NoValues /\ limited = FALSE

Names(fields) == {fields[i][1] : i \in DOMAIN fields}
ValidName(name) == \A i \in DOMAIN name : name[i] # "!"

\* jsonObjectFields: no invalid name, and none twice.
FieldsAreClean(fields) == /\ \A name \in Names(fields) : ValidName(name)
                          /\ Cardinality(Names(fields)) = Len(fields)

\* Slip: no limit on the number of top-level fields.
SplittableAny(body) == body.kind = "object" /\ FieldsAreClean(body.fields) /\ body.fields # <<>>
\* What splitJSONBodyAttributes takes apart; anything else is kept as one text.
Splittable(body) == /\ body.kind = "object"
                    /\ FieldsAreClean(body.fields)
                    /\ Len(body.fields) \in 1..MaxFields

\* The fields of an object by name.
Sorted(fields) ==
    LET present == SelectSeq(NameOrder, LAMBDA name : name \in Names(fields))
    IN [k \in DOMAIN present |-> fields[CHOOSE i \in DOMAIN fields : fields[i][1] = present[k]]]

\* What is to be walked: by walk or by walkMessages.
Walk(path, value, depth) == [by |-> "walk", path |-> path, value |-> value, depth |-> depth]
Message(value) == [by |-> "message", path |-> <<"message">>, value |-> value, depth |-> 1]

WalkAll(path, fields, depth) ==
    [k \in DOMAIN fields |-> Walk(path \o fields[k][1], fields[k][2], depth)]

-----------------------------------------------------------------------------
(* Recording a text *)

\* emit: a new path needs room among the paths, another value room on its path.
Fits(path) == IF path \in DOMAIN values THEN Len(values[path]) < MaxValues
              ELSE Cardinality(DOMAIN values) < MaxPaths

TextsOf(path) == IF path \in DOMAIN values THEN values[path] ELSE <<>>

Emit(path, text) ==
    values' = IF Fits(path)
              THEN [p \in DOMAIN values \cup {path} |->
                       IF p = path THEN Append(TextsOf(path), text) ELSE values[p]]
              ELSE values

\* emitRaw: what cannot be walked is kept as its text, and marked.
EmitRaw(path) == Emit(path, "raw") /\ limited' = TRUE

-----------------------------------------------------------------------------
(* Taking the body apart *)

\* splitJSONBodyAttributes begins: its fields, in the order of the body.
Begin(body) ==
    /\ doc' = body /\ nextField' = 1 /\ work' = <<>>
    /\ scalars' = {} /\ values' = NoValues /\ limited' = FALSE

Name == doc.fields[nextField][1]
Value == doc.fields[nextField][2]
FieldIs(kind) == work = <<>> /\ nextField <= Len(doc.fields) /\ Value.kind = kind

\* A top-level field that is a scalar is an attribute of its own, ...
TakeScalar ==
    /\ FieldIs("leaf")
    /\ scalars' = scalars \cup {<<Name, Value.text>>}
    /\ nextField' = nextField + 1
    /\ UNCHANGED <<doc, work, values, limited>>

\* ... a list of messages is walked by role, ...
TakeMessages ==
    /\ FieldIs("array") /\ Name = <<"messages">>
    /\ work' = [k \in DOMAIN Value.items |-> Message(Value.items[k])]
    /\ nextField' = nextField + 1
    /\ UNCHANGED <<doc, scalars, values, limited>>

\* ... and anything else from level one.
TakeNested ==
    /\ FieldIs("object") \/ (FieldIs("array") /\ Name # <<"messages">>)
    /\ work' = <<Walk(Name, Value, 1)>>
    /\ nextField' = nextField + 1
    /\ UNCHANGED <<doc, scalars, values, limited>>

Task == Head(work)
Rest == Tail(work)
TaskIs(by, kind) == work # <<>> /\ Task.by = by /\ Task.value.kind = kind

\* The role of a message, if it is a string that can be part of a name.
RoleOf(fields) ==
    LET roles == {i \in DOMAIN fields : /\ fields[i][1] = <<"role">>
                                        /\ fields[i][2].kind = "leaf"
                                        /\ fields[i][2].string
                                        /\ ValidName(<<fields[i][2].text>>)}
    IN IF roles = {} THEN "default" ELSE fields[CHOOSE i \in roles : TRUE][2].text

\* walkMessages: the fields of a message are walked under its role, ...
TakeMessage ==
    /\ TaskIs("message", "object") /\ FieldsAreClean(Task.value.fields)
    /\ LET fields == SelectSeq(Sorted(Task.value.fields), LAMBDA field : field[1] # <<"role">>)
           path == Append(Task.path, RoleOf(Task.value.fields))
       IN work' = WalkAll(path, fields, 2) \o Rest
    /\ UNCHANGED <<doc, nextField, scalars, values, limited>>

\* ... one that is no object as it is ...
TakePlainMessage ==
    /\ TaskIs("message", "leaf") \/ TaskIs("message", "array")
    /\ work' = <<Walk(Append(Task.path, "default"), Task.value, 2)>> \o Rest
    /\ UNCHANGED <<doc, nextField, scalars, values, limited>>

\* ... and one with unusable names as its text.
TakeRawMessage ==
    /\ TaskIs("message", "object") /\ ~FieldsAreClean(Task.value.fields)
    /\ EmitRaw(Append(Task.path, "default"))
    /\ work' = Rest
    /\ UNCHANGED <<doc, nextField, scalars>>

TooDeep == Task.depth > MaxDepth

\* walk: an object by the names of its fields, ...
WalkObject ==
    /\ TaskIs("walk", "object") /\ ~TooDeep /\ FieldsAreClean(Task.value.fields)
    /\ work' = WalkAll(Task.path, Sorted(Task.value.fields), Task.depth + 1) \o Rest
    /\ UNCHANGED <<doc, nextField, scalars, values, limited>>

\* ... the elements of an array on the path of the array, ...
WalkArray ==
    /\ TaskIs("walk", "array") /\ ~TooDeep
    /\ work' = [k \in DOMAIN Task.value.items |->
                   Walk(Task.path, Task.value.items[k], Task.depth + 1)] \o Rest
    /\ UNCHANGED <<doc, nextField, scalars, values, limited>>

\* ... what is too deep, or has unusable names, as its text, ...
WalkRaw ==
    /\ \/ (TaskIs("walk", "object") /\ (TooDeep \/ ~FieldsAreClean(Task.value.fields)))
       \/ (TaskIs("walk", "array") /\ TooDeep)
    /\ EmitRaw(Task.path)
    /\ work' = Rest
    /\ UNCHANGED <<doc, nextField, scalars>>

\* Slip: a text that does not fit is left out without a mark.
WalkLeafUnmarked ==
    /\ TaskIs("walk", "leaf")
    /\ Emit(Task.path, Task.value.text)
    /\ work' = Rest
    /\ UNCHANGED <<doc, nextField, scalars, limited>>
\* ... and a leaf as a value of its path.
WalkLeaf ==
    /\ TaskIs("walk", "leaf")
    /\ Emit(Task.path, Task.value.text)
    /\ limited' = (limited \/ ~Fits(Task.path))
    /\ work' = Rest
    /\ UNCHANGED <<doc, nextField, scalars>>

SplitStep == \/ TakeScalar \/ TakeMessages \/ TakeNested
             \/ TakeMessage \/ TakePlainMessage \/ TakeRawMessage
             \/ WalkObject \/ WalkArray \/ WalkRaw \/ WalkLeaf

\* Every field has been taken and walked.
SplitDone == work = <<>> /\ nextField > Len(doc.fields)

\* splitJSONBodyAttributes with nothing to show for it: only empty containers.
SplitInVain == scalars = {} /\ values = NoValues /\ ~limited

\* How many attributes the body makes.
SplitCount == Cardinality(scalars) + Cardinality(DOMAIN values) + (IF limited THEN 1 ELSE 0)

-----------------------------------------------------------------------------
(* Properties *)

\* What the splitter holds stays within its limits, for any body.
SplitWithinLimits ==
    /\ Cardinality(DOMAIN values) <= MaxPaths
    /\ \A path \in DOMAIN values : Len(values[path]) <= MaxValues
=============================================================================
