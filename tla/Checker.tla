-------------------------------- MODULE Checker --------------------------------
(***************************************************************************)
(* check.go of the conformance lane: what Spec.Check finds in the answer of *)
(* an operation, and Fits, the reference it is held to.                     *)
(*                                                                          *)
(* A schema is a record with the keywords it has; type is a set, required   *)
(* a set, $ref a name.  A value is [kind |-> ..] with f for the fields of   *)
(* an object and e for the elements of an array.  Paths and wording of the  *)
(* findings are left out: a finding is its severity.                        *)
(***************************************************************************)
EXTENDS Integers, FiniteSets, SequencesExt

CONSTANTS
    Schemas,        \* components.schemas
    MaxDepth        \* maxDepth

Error == "error"
Warn == "warn"
Info == "info"
NotJson == [kind |-> "not JSON"]
Null == [kind |-> "null"]
Object(f) == [kind |-> "object", f |-> f]
Array(e) == [kind |-> "array", e |-> e]
Nothing == <<>>     \* no schema, nothing promised

Has(m, k) == k \in DOMAIN m
Lookup(m, k) == IF Has(m, k) THEN m[k] ELSE Nothing

TooDeep == [tooDeep |-> TRUE]

\* A schema and the parts of its allOf as one: of a keyword the first that has it counts, but properties
\* (of each the last counts) and required (all count) are merged.
Merge(parts) ==
    LET With(k) == {i \in DOMAIN parts : Has(parts[i], k)}
        props == UNION {DOMAIN parts[i].properties : i \in With("properties")}
    IN  [k \in UNION {DOMAIN parts[i] : i \in DOMAIN parts} \ {"allOf"} |->
            CASE k = "properties" -> [p \in props |-> parts[Max({i \in With(k) : Has(parts[i].properties, p)})].properties[p]]
            []   k = "required" -> UNION {parts[i].required : i \in With(k)}
            []   OTHER -> parts[Min(With(k))][k]]

RECURSIVE flatten(_, _)
flatten(s, depth) ==
    CASE s = Nothing -> Nothing
    []   s # Nothing /\ depth > MaxDepth -> TooDeep
    []   s # Nothing /\ depth <= MaxDepth /\ Has(s, "ref") -> flatten(Lookup(Schemas, s.ref), depth + 1)
    []   s # Nothing /\ depth <= MaxDepth /\ ~Has(s, "ref") /\ Has(s, "allOf") ->
             Merge(<<s>> \o [i \in DOMAIN s.allOf |-> flatten(s.allOf[i], depth + 1)])
    []   OTHER -> s

types(m) == IF Has(m, "type") THEN m.type ELSE {}
branches(m) == IF Has(m, "oneOf") THEN m.oneOf ELSE Lookup(m, "anyOf")

RECURSIVE nullable(_)
nullable(m) ==
    \/ "null" \in types(m)
    \/ \E i \in DOMAIN branches(m) : nullable(flatten(branches(m)[i], 0))

Count(sev, findings) == Len(SelectSeq(findings, LAMBDA f : f = sev))
Better(f, g) == \/ Count(Error, f) < Count(Error, g)
                \/ Count(Error, f) = Count(Error, g) /\ Count(Warn, f) < Count(Warn, g)
\* The first of the findings that none is better than.
Best(all) == all[CHOOSE i \in DOMAIN all : /\ \A j \in DOMAIN all : ~Better(all[j], all[i])
                                           /\ \A j \in 1..(i - 1) : Better(all[i], all[j])]

RECURSIVE walk(_, _, _)
walkBranches(root, b, v) ==
    LET real == SelectSeq(b, LAMBDA s : types(flatten(s, 0)) # {"null"})
    IN  IF real = <<>> THEN <<Error>> ELSE Best([i \in DOMAIN real |-> walk(root, real[i], v)])

walkObject(m, v) ==
    LET declared == IF Has(m, "properties") THEN DOMAIN m.properties ELSE {}
        Field(k) == CASE k \in declared -> walk(FALSE, m.properties[k], v.f[k])
                    []   k \notin declared /\ Has(m, "additional") -> walk(FALSE, m.additional, v.f[k])
                    []   OTHER -> IF Has(m, "properties") /\ ~Has(m, "closed") THEN <<Warn>> ELSE <<>>
    IN  [r \in 1..Cardinality((IF Has(m, "required") THEN m.required ELSE {}) \ DOMAIN v.f) |-> Error]
        \o FlattenSeq([i \in 1..Cardinality(DOMAIN v.f) |-> Field(SetToSeq(DOMAIN v.f)[i])])

walkArray(root, m, v) ==
    (IF v.e = <<>> /\ ~root THEN <<Info>> ELSE <<>>)
    \o IF Has(m, "prefixItems")
       THEN FlattenSeq([i \in DOMAIN v.e |-> IF i \in DOMAIN m.prefixItems THEN walk(FALSE, m.prefixItems[i], v.e[i]) ELSE <<>>])
       ELSE FlattenSeq([i \in DOMAIN v.e |-> walk(FALSE, Lookup(m, "items"), v.e[i])])

walk(root, s, v) ==
    LET m == flatten(s, 0)
        ts == types(m)
    IN  CASE m = Nothing -> <<>>
        []   Has(m, "tooDeep") -> <<Warn>>
        []   OTHER ->
             IF v = Null THEN <<IF nullable(m) THEN Info ELSE Error>>
             ELSE IF branches(m) # <<>> THEN walkBranches(root, branches(m), v)
             ELSE IF ts # {} /\ v.kind \notin ts /\ ~(v.kind = "integer" /\ "number" \in ts) THEN <<Error>>
             ELSE IF v.kind = "object" THEN walkObject(m, v)
             ELSE IF v.kind = "array" THEN walkArray(root, m, v) ELSE <<>>

\* How many items there were to measure, and the findings.
Items(schema, v) ==
    CASE v.kind = "array" -> Len(v.e)
    []   v.kind = "object" -> IF DOMAIN v.f # {} /\ Has(flatten(schema, 0), "properties") THEN 1
                              ELSE Cardinality(DOMAIN v.f)
    []   OTHER -> IF v \in {Null, NotJson} THEN 0 ELSE 1
Check(schema, v) ==
    [items |-> Items(schema, v), findings |-> IF v = NotJson THEN <<Error>> ELSE walk(TRUE, schema, v)]

-----------------------------------------------------------------------------
(* The reference *)

\* What it means for a value to be what a schema declares: read off JSON Schema, except that null is
\* taken only where it is declared, a value of a oneOf fits one branch or more, and undeclared fields
\* are allowed.  A chain of references that comes back to itself declares nothing.
RECURSIVE Fits(_, _, _)
Fits(s, v, refs) ==
    CASE s = Nothing -> TRUE
    []   s # Nothing /\ Has(s, "ref") -> s.ref \notin refs /\ Fits(Lookup(Schemas, s.ref), v, refs \cup {s.ref})
    []   OTHER ->
         /\ Has(s, "allOf") => \A i \in DOMAIN s.allOf : Fits(s.allOf[i], v, refs)
         /\ branches(s) # <<>> => \E i \in DOMAIN branches(s) : Fits(branches(s)[i], v, refs)
         /\ Has(s, "type") => v.kind \in s.type \cup (IF "number" \in s.type THEN {"integer"} ELSE {})
         /\ v = Null => Has(s, "type") \/ Has(s, "allOf") \/ branches(s) # <<>>
         /\ v.kind = "object" =>
                /\ Has(s, "required") => s.required \subseteq DOMAIN v.f
                /\ Has(s, "properties") => \A k \in DOMAIN v.f \cap DOMAIN s.properties : Fits(s.properties[k], v.f[k], {})
                /\ Has(s, "additional") =>
                       \A k \in DOMAIN v.f \ (IF Has(s, "properties") THEN DOMAIN s.properties ELSE {}) : Fits(s.additional, v.f[k], {})
         /\ v.kind = "array" => \A i \in DOMAIN v.e :
                IF Has(s, "prefixItems") THEN i \in DOMAIN s.prefixItems => Fits(s.prefixItems[i], v.e[i], {})
                ELSE Has(s, "items") => Fits(s.items, v.e[i], {})
Empty(v) == v \in {Null, Object(<<>>), Array(<<>>), NotJson}
================================================================================
