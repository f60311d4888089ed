------------------------------- MODULE MCRelease -------------------------------
EXTENDS Release, FiniteSets

S == INSTANCE Surface WITH Unexported <- {"impl", "key"}, MaxFollow <- 8

Str == S!Name("string")
FieldOf(n, t) == [name |-> n, type |-> t]
TypeDecl(n, t) == [tok |-> "type", name |-> n, alias |-> FALSE, tparams |-> <<>>, type |-> t]
Alias(n, t) == [TypeDecl(n, t) EXCEPT !.alias = TRUE]
Func(n, recv, in, out) ==
    [tok |-> "func", name |-> n, recv |-> recv, star |-> recv # "", tparams |-> <<>>, sig |-> [in |-> in, out |-> out]]
Lit(v) == [lit |-> v]
ConstDecl(specs) == [tok |-> "const", specs |-> specs]
Const(n, t, v) == [names |-> <<n>>, type |-> t, vals |-> v]
VarDecl(n, v) == [tok |-> "var", names |-> <<n>>, type |-> S!None, vals |-> <<v>>]
Root == <<"nexus">>
Models == <<"nexus", "internal", "models">>
Swap(b, x, y) == IF b THEN <<y, x>> ELSE <<x, y>>

\* The SDK in small: an alias of an internal type with a field, a private field and a method, enum
\* values that name internal consts, an iota block, a var, and a client.  e says which edits it has.
Module(e) ==
    [p \in {Root, Models} |->
        IF p = Models
        THEN [name |-> "models", files |-> <<[imports |-> <<>>, decls |->
               {TypeDecl("Order", S!Struct(<<FieldOf("ID", Str), FieldOf("key", Str)>>
                                           \o IF "field" \in e THEN <<FieldOf("Side", S!Name("Side"))>> ELSE <<>>)),
                TypeDecl("Side", Str),
                ConstDecl(<<Const("SideBuy", S!Name("Side"), <<Lit(IF "value" \in e THEN "BUY" ELSE "Buy")>>)>>),
                VarDecl("ErrGone", [errorText |-> IF "text" \in e THEN "not found" ELSE "gone"])}
               \cup IF "method" \in e THEN {Func("String", "Order", <<>>, <<Str>>)} ELSE {}]>>]
        ELSE [name |-> "nexus", files |->
               <<[imports |-> [models |-> Models], decls |->
                   {Alias("Order", S!Sel("models", "Order")), Alias("Side", S!Sel("models", "Side")),
                    ConstDecl(<<Const("Buy", S!None, <<S!Sel("models", "SideBuy")>>)>>),
                    VarDecl("ErrGone", S!Sel("models", "ErrGone"))}],
                 [imports |-> [api |-> Models], decls |->
                   {TypeDecl("Network", S!Name("int")),
                    ConstDecl(<<[names |-> <<"Mainnet">>, type |-> S!Name("Network"), vals |-> <<[usesIota |-> "iota + 1"]>>]>>
                              \o [i \in 1..2 |-> [names |-> <<Swap("iota" \in e, "Testnet", "Local")[i]>>, type |-> S!None, vals |-> <<>>]]),
                    TypeDecl("Client", S!Struct(<<FieldOf("key", Str)>>)),
                    TypeDecl("Event", S!Interface(<<FieldOf("impl", S!Con("func", <<>>)), FieldOf("Seq", S!Con("func", <<S!Name("int")>>))>>)),
                    Func("Fetch", "Client", <<Str>>,
                         <<IF "bare" \in e THEN S!Name("Order") ELSE S!Con("*", <<S!Sel("api", "Order")>>), S!Name("error")>>),
                    Func("impl", "Client", <<Str>>, <<>>)}]>>]]

All == {Module(e) : e \in SUBSET {"field", "method", "value", "text", "iota", "bare"}}
AllLines == [m \in All |-> [l \in S!Listing(m) |-> 1]]
AllUsable == [m \in All |-> S!UsableBy(m)]
\* Equal listings, equal use: on every two of the 64 modules, with and without each edit.
ASSUME \A m, n \in All : Within(AllLines[m], AllLines[n]) => AllUsable[m] \subseteq AllUsable[n]
\* And what does not concern a consumer moves no line: the text of an error.
ASSUME \A e \in SUBSET {"field", "value"} : AllLines[Module(e)] = AllLines[Module(e \cup {"text"})]

Named == [base |-> {}, grown |-> {"field", "method"}, changed |-> {"field", "value"}]
MCModules == DOMAIN Named
MCLines == [m \in MCModules |-> AllLines[Module(Named[m])]]
MCUsable == [m \in MCModules |-> AllUsable[Module(Named[m])]]
MCPromises == [p1 |-> {"orders"}, p2 |-> {"orders", "fills"}]
MCPins == DOMAIN MCPromises
MCVersions == {Version(0, 2, 0), Version(0, 2, 1), Version(0, 3, 0), Version(1, 0, 0), Version(1, 1, 0),
               [Version(0, 3, 0) EXCEPT !.pre = TRUE]}
================================================================================
