-------------------------------- MODULE Surface --------------------------------
(***************************************************************************)
(* scripts/release_gate/surface: the listing of a Go module's public API,   *)
(* one line per exported item, that the release gate compares with the one  *)
(* of the version published last.                                           *)
(*                                                                          *)
(* A module maps package paths to [name, files]; a file has imports (local  *)
(* name -> path) and a set of declarations.  A type is a name, a selector   *)
(* pkg.Name, a constructor over types (pointers, slices, maps, funcs,       *)
(* instantiations), a struct or an interface; a line is a record, equal to  *)
(* another when the printed lines are.                                      *)
(***************************************************************************)
EXTENDS Naturals, SequencesExt

CONSTANTS
    Unexported,     \* the names that start with a lower-case letter
    MaxFollow       \* maxFollow

Name(id) == [id |-> id]
Sel(pkg, id) == [pkg |-> pkg, id |-> id]
Con(con, args) == [con |-> con, args |-> args]
Struct(fields) == [struct |-> fields]       \* fields: [name, type], the name "" when embedded
Interface(methods) == [interface |-> methods]
None == [none |-> TRUE]
Has(r, f) == f \in DOMAIN r
Exported(n) == n \notin Unexported

isInternal(path) == Contains(path, "internal")
predeclared == {"any", "bool", "error", "float64", "int", "int64", "string"}

\* How names print in one file: qual is "" in a listed package, the package's name in one reached
\* through an alias.
ScopeOf(path, file, qual) == [path |-> path, file |-> file, qual |-> qual, tparams |-> {}]
withTypeParams(s, list) == [s EXCEPT !.tparams = @ \cup {list[i].name : i \in DOMAIN list}]

ident(s, n) == IF s.qual = "" \/ n \in predeclared \cup s.tparams THEN Name(n) ELSE Sel(s.qual, n)

\* A type, with the names of the package it is written in qualified.
RECURSIVE typeString(_, _)
Typed(s, list) == [i \in DOMAIN list |-> [list[i] EXCEPT !.type = typeString(s, @)]]
typeString(s, t) ==
    CASE Has(t, "con") -> Con(t.con, [i \in DOMAIN t.args |-> typeString(s, t.args[i])])
    []   Has(t, "struct") -> Struct(Typed(s, t.struct))
    []   Has(t, "interface") -> Interface(Typed(s, t.interface))
    []   Has(t, "id") /\ ~Has(t, "pkg") -> ident(s, t.id)
    []   OTHER -> t
\* A func type has its parameters and its results, without names; typeParams keep theirs.
signature(s, f) == [in |-> [i \in DOMAIN f.in |-> typeString(s, f.in[i])],
                    out |-> [i \in DOMAIN f.out |-> typeString(s, f.out[i])]]
typeParams(s, list) == Typed(s, list)

-----------------------------------------------------------------------------
(* Declarations of other packages of the module *)

Decls(m, path, tok) ==
    UNION {{[file |-> f, d |-> d] : d \in {d \in f.decls : d.tok = tok}} : f \in ToSet(m[path].files)}

\* The scope and name pkg.Name stands for, None outside the module.
resolveSelector(m, s, e) ==
    IF Has(e, "pkg") /\ Has(s.file.imports, e.pkg) /\ s.file.imports[e.pkg] \in DOMAIN m
    THEN LET path == s.file.imports[e.pkg] IN [path |-> path, qual |-> m[path].name, id |-> e.id]
    ELSE None
In(target, file) == ScopeOf(target.path, file, target.qual)

resolveType(m, s, e) ==
    LET target == resolveSelector(m, s, e)
        found == IF target = None THEN {} ELSE {x \in Decls(m, target.path, "type") : x.d.name = target.id}
    IN  IF found = {} THEN None
        ELSE LET x == CHOOSE x \in found : TRUE IN [scope |-> In(target, x.file), d |-> x.d]

\* The names of a const block, each with the type and value given last (an implicit repetition) and
\* its own iota.
constEntries(d) ==
    LET implicit(i) == d.specs[i].type = None /\ d.specs[i].vals = <<>>
        given(i) == d.specs[Max({k \in 1..i : ~implicit(k)})]
    IN  {[name |-> d.specs[i].names[j], type |-> given(i).type, iota |-> i - 1,
          val |-> IF j \in DOMAIN given(i).vals THEN given(i).vals[j] ELSE None] :
            <<i, j>> \in {x \in (DOMAIN d.specs) \X (1..2) : x[2] \in DOMAIN d.specs[x[1]].names}}
findConst(m, target) ==
    UNION {{[scope |-> In(target, x.file), c |-> c] : c \in {c \in constEntries(x.d) : c.name = target.id}} :
              x \in Decls(m, target.path, "const")}
findVar(m, target) ==
    UNION {{[scope |-> In(target, x.file), d |-> x.d, i |-> i] : i \in {i \in DOMAIN x.d.names : x.d.names[i] = target.id}} :
              x \in Decls(m, target.path, "var")}

\* What follows a const's name: its type, and its value with the iota it was taken at.
RECURSIVE constSuffix(_, _, _, _)
constSuffix(m, s, c, depth) ==
    LET typ == IF c.type = None THEN None ELSE typeString(s, c.type)
        target == resolveSelector(m, s, c.val)
        found == IF target = None \/ depth >= MaxFollow THEN {} ELSE findConst(m, target)
        x == CHOOSE x \in found : TRUE
        resolved == constSuffix(m, x.scope, x.c, depth + 1)
    IN  IF found # {} THEN [resolved EXCEPT !.type = IF typ = None THEN @ ELSE typ]
        ELSE [type |-> typ, value |-> c.val, iota |-> IF Has(c.val, "usesIota") THEN c.iota ELSE 0]

\* What follows a var's name: its type, as declared or as its value shows it, and the value of a
\* composite literal or of what shows no type.
RECURSIVE varSuffix(_, _, _, _, _)
varSuffix(m, s, d, i, depth) ==
    LET Line(type, value) == [type |-> type, value |-> value, iota |-> 0]
        v == d.vals[i]
        target == IF depth >= MaxFollow THEN None ELSE resolveSelector(m, s, v)
        vars == IF target = None THEN {} ELSE findVar(m, target)
        consts == IF target = None THEN {} ELSE findConst(m, target)
        x == CHOOSE x \in vars : TRUE
        k == CHOOSE k \in consts : TRUE
    IN  CASE d.type # None -> Line(typeString(s, d.type), None)
        []   d.type = None /\ Len(d.vals) # Len(d.names) -> Line(None, d.vals[1])
        []   OTHER ->
             IF vars # {} THEN varSuffix(m, x.scope, x.d, x.i, depth + 1)
             ELSE IF consts # {} THEN constSuffix(m, k.scope, k.c, depth + 1)
             ELSE IF Has(v, "errorText") THEN Line(Name("error"), None)
             ELSE IF Has(v, "composite") THEN Line(typeString(s, v.composite), v) ELSE Line(None, v)

-----------------------------------------------------------------------------
(* Lines *)

method(s, recvName, d) ==
    LET in == withTypeParams(s, d.tparams)
    IN  [on |-> recvName, method |-> d.name, star |-> d.star, targs |-> d.tparams, sig |-> signature(in, d.sig)]
methodsOf(m, s, owner, name) ==
    {method([s EXCEPT !.file = x.file], owner, x.d) :
        x \in {x \in Decls(m, s.path, "func") : x.d.recv = name /\ Exported(x.d.name)}}

\* A type's own line and one per field or interface method; an alias into this module lists its
\* target's lines and methods too.
embeddedName(t) == IF Has(t, "con") THEN t.args[1].id ELSE t.id
RECURSIVE typeLines(_, _, _, _, _)
typeLines(m, outer, owner, d, depth) ==
    LET s == withTypeParams(outer, d.tparams)
        target == resolveType(m, s, d.type)
        Line(is) == [type |-> owner, tparams |-> typeParams(s, d.tparams), is |-> is]
        Members(list, shown) == {[of |-> owner, name |-> list[i].name, type |-> typeString(s, list[i].type)] : i \in shown}
        Fields(list) == {i \in DOMAIN list : Exported(IF list[i].name = "" THEN embeddedName(list[i].type) ELSE list[i].name)}
        Methods(list) == {i \in DOMAIN list : list[i].name = "" \/ Exported(list[i].name)}
    IN  CASE d.alias -> {Line(Con("=", <<typeString(s, d.type)>>))}
                \cup IF target # None /\ depth < MaxFollow /\ target.d.tparams = <<>>
                     THEN typeLines(m, target.scope, owner, target.d, depth + 1)
                          \cup methodsOf(m, target.scope, owner, target.d.name)
                     ELSE {}
        []   ~d.alias /\ Has(d.type, "struct") -> {Line(Name("struct"))} \cup Members(d.type.struct, Fields(d.type.struct))
        []   ~d.alias /\ Has(d.type, "interface") -> {Line(Name("interface"))} \cup Members(d.type.interface, Methods(d.type.interface))
        []   OTHER -> {Line(typeString(s, d.type))}

genDecl(m, s, d) ==
    CASE d.tok = "type" -> IF Exported(d.name) THEN typeLines(m, s, <<s.path, d.name>>, d, 0) ELSE {}
    []   d.tok = "const" -> {[const |-> <<s.path, c.name>>, is |-> constSuffix(m, s, c, 0)] :
                                c \in {c \in constEntries(d) : Exported(c.name)}}
    []   d.tok = "var" -> {[var |-> <<s.path, d.names[i]>>, is |-> varSuffix(m, s, d, i, 0)] :
                                i \in {i \in DOMAIN d.names : Exported(d.names[i])}}

listPackage(m, path) == UNION UNION {{
    LET s == ScopeOf(path, f, "")
    IN  CASE d.tok = "func" /\ (~Exported(d.name) \/ (d.recv # "" /\ ~Exported(d.recv))) -> {}
        []   d.tok = "func" /\ Exported(d.name) /\ d.recv = "" ->
                 {[func |-> <<path, d.name>>, tparams |-> typeParams(withTypeParams(s, d.tparams), d.tparams),
                   sig |-> signature(withTypeParams(s, d.tparams), d.sig)]}
        []   d.tok = "func" /\ Exported(d.name) /\ d.recv # "" /\ Exported(d.recv) -> {method(s, <<path, d.recv>>, d)}
        []   OTHER -> genDecl(m, s, d) : d \in f.decls} : f \in ToSet(m[path].files)}

Listing(m) == UNION {listPackage(m, path) : path \in {p \in DOMAIN m : m[p].name # "main" /\ ~isInternal(p)}}

-----------------------------------------------------------------------------
(* What a consumer can use, for comparison: the exported names of the public packages, with every   *)
(* alias followed to the type it stands for.  Left out is what main.go names as unseen: promotion   *)
(* by embedding, tags, unexported fields, and types reached only through a field or a result.       *)

TypeNamed(m, path, n) == {x \in Decls(m, path, "type") : x.d.name = n}
RECURSIVE Canon(_, _, _, _)
RECURSIVE Origin(_, _, _)
\* The package and name of a type's definition.
Origin(m, path, n) ==
    LET x == CHOOSE x \in TypeNamed(m, path, n) : TRUE
    IN  IF x.d.alias THEN Canon(m, path, x.file, x.d.type) ELSE Sel(m[path].name, n)
Canon(m, path, file, t) ==
    LET All(list) == [i \in DOMAIN list |-> [list[i] EXCEPT !.type = Canon(m, path, file, @)]]
    IN  CASE Has(t, "con") -> Con(t.con, [i \in DOMAIN t.args |-> Canon(m, path, file, t.args[i])])
        []   Has(t, "struct") -> Struct(All(t.struct))
        []   Has(t, "interface") -> Interface(All(t.interface))
        []   Has(t, "pkg") -> IF t.pkg \in DOMAIN file.imports /\ file.imports[t.pkg] \in DOMAIN m
                              THEN Origin(m, file.imports[t.pkg], t.id) ELSE t
        []   OTHER -> IF TypeNamed(m, path, t.id) = {} THEN t ELSE Origin(m, path, t.id)

\* The definition behind an exported type.
RECURSIVE Definition(_, _, _)
Definition(m, path, n) ==
    LET x == CHOOSE x \in TypeNamed(m, path, n) : TRUE
        t == x.d.type
    IN  IF x.d.alias /\ Has(t, "pkg") /\ t.pkg \in DOMAIN x.file.imports
        THEN Definition(m, x.file.imports[t.pkg], t.id) ELSE [path |-> path, x |-> x]

UsesOfType(m, path, n) ==
    LET def == Definition(m, path, n)
        t == def.x.d.type
        C(u) == Canon(m, def.path, def.x.file, u)
        Members(list) == {[field |-> list[i].name, at |-> <<path, n>>, type |-> C(list[i].type)] :
                             i \in {i \in DOMAIN list : list[i].name # "" /\ Exported(list[i].name)}}
    IN  {[type |-> <<path, n>>, kind |-> IF Has(t, "struct") THEN "struct" ELSE IF Has(t, "interface") THEN "interface" ELSE "other"]}
        \cup (IF Has(t, "struct") THEN Members(t.struct) ELSE IF Has(t, "interface") THEN Members(t.interface)
              ELSE {[underlying |-> C(t), at |-> <<path, n>>]})
        \cup {[method |-> x.d.name, at |-> <<path, n>>, star |-> x.d.star,
               in |-> [i \in DOMAIN x.d.sig.in |-> Canon(m, def.path, x.file, x.d.sig.in[i])],
               out |-> [i \in DOMAIN x.d.sig.out |-> Canon(m, def.path, x.file, x.d.sig.out[i])]] :
                 x \in {x \in Decls(m, def.path, "func") : x.d.recv = def.x.d.name /\ Exported(x.d.name)}}

\* The value of a const, and its type.
RECURSIVE ConstValue(_, _, _, _)
ConstValue(m, path, file, c) ==
    IF Has(c.val, "pkg") /\ c.val.pkg \in DOMAIN file.imports
    THEN LET target == [path |-> file.imports[c.val.pkg], qual |-> "", id |-> c.val.id]
             x == CHOOSE x \in findConst(m, target) : TRUE
             v == ConstValue(m, target.path, x.scope.file, x.c)
         IN  [v EXCEPT !.type = IF c.type = None THEN @ ELSE Canon(m, path, file, c.type)]
    ELSE [type |-> IF c.type = None THEN None ELSE Canon(m, path, file, c.type),
          value |-> c.val, iota |-> IF Has(c.val, "usesIota") THEN c.iota ELSE 0]

UsableBy(m) ==
    LET Of(path) ==
            UNION {UsesOfType(m, path, x.d.name) : x \in {x \in Decls(m, path, "type") : Exported(x.d.name)}}
            \cup {[func |-> <<path, x.d.name>>, in |-> [i \in DOMAIN x.d.sig.in |-> Canon(m, path, x.file, x.d.sig.in[i])],
                   out |-> [i \in DOMAIN x.d.sig.out |-> Canon(m, path, x.file, x.d.sig.out[i])]] :
                     x \in {x \in Decls(m, path, "func") : x.d.recv = "" /\ Exported(x.d.name)}}
            \cup UNION {{[const |-> <<path, c.name>>, is |-> ConstValue(m, path, x.file, c)] :
                            c \in {c \in constEntries(x.d) : Exported(c.name)}} : x \in Decls(m, path, "const")}
            \cup UNION {{[var |-> <<path, x.d.names[i]>>] : i \in {i \in DOMAIN x.d.names : Exported(x.d.names[i])}} :
                            x \in Decls(m, path, "var")}
    IN  UNION {Of(path) : path \in {p \in DOMAIN m : m[p].name # "main" /\ ~Contains(p, "internal")}}
================================================================================
