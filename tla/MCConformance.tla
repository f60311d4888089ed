----------------------------- MODULE MCConformance -----------------------------
EXTENDS Conformance

T(t) == [type |-> {t}]
V(k) == [kind |-> k]
Obj(p, r) == [type |-> {"object"}, properties |-> p, required |-> r]
Ref(n) == [ref |-> n]

MCSchemas ==
    [Order |-> Obj([id |-> T("string"), fee |-> [type |-> {"number", "null"}]], {"id"}),
     Full |-> [allOf |-> <<Ref("Order"), Obj([legs |-> [type |-> {"array"}, items |-> Ref("Order")]], {"legs"})>>],
     Maybe |-> [oneOf |-> <<Ref("Order"), T("null")>>],
     Tree |-> Obj([kids |-> [type |-> {"array"}, items |-> Ref("Tree")]], {"kids"}),
     Loop |-> [allOf |-> <<Ref("Loop")>>]]

C == INSTANCE Checker WITH Schemas <- MCSchemas, MaxDepth <- 4
Null == C!Null
NotJson == C!NotJson
Object(f) == C!Object(f)
Array(e) == C!Array(e)

\* Orders, right and wrong.
O(id) == Object([id |-> id])
OFee(id, fee) == Object([id |-> id, fee |-> fee])
Orders == {O(V("string")), O(Null), OFee(V("string"), Null), OFee(V("string"), V("integer")),
           OFee(V("string"), V("string")), Object([fee |-> V("number")]), Object(<<>>), Array(<<>>), Null, NotJson,
           Object([id |-> V("string"), new |-> V("string")])}
Legs == {Object([id |-> V("string"), legs |-> l]) : l \in {Null, Array(<<>>), Array(<<O(V("string"))>>),
            Array(<<O(V("string")), OFee(V("integer"), Null)>>)}} \cup {O(V("string")), Object([legs |-> Array(<<>>)])}
Kids(e) == Object([kids |-> Array(e)])
Trees == {Kids(<<>>), Kids(<<Kids(<<>>)>>), Kids(<<Kids(<<>>), Kids(<<V("string")>>)>>), Kids(<<Object(<<>>)>>)}
Lists == {Array(<<>>), Array(<<O(V("string"))>>), Array(<<O(V("string")), O(Null)>>), Array(<<Null>>)}

EitherS == [anyOf |-> <<T("string"), [type |-> {"object"}, additional |-> Ref("Order"), closed |-> TRUE]>>]
PairS == [type |-> {"array"}, prefixItems |-> <<T("number"), T("string")>>]
ClosedS == [type |-> {"object"}, properties |-> [id |-> T("string")], closed |-> TRUE]
Listed == [type |-> {"array"}, items |-> Ref("Order")]

MCCases ==
    ({Ref("Order"), Ref("Maybe")} \X Orders) \cup ({Ref("Full")} \X Legs) \cup ({Ref("Tree")} \X Trees)
    \cup ({Listed, [type |-> {"array"}, items |-> Ref("Maybe")]} \X Lists)
    \cup ({Ref("Loop")} \X {O(V("string")), Null})
    \cup ({EitherS} \X {V("string"), V("boolean"), Object(<<>>), Object([a |-> O(V("string"))]), Object([a |-> O(Null)])})
    \cup ({PairS} \X {Array(<<V("integer"), V("string")>>), Array(<<V("number"), V("integer")>>),
                      Array(<<V("integer"), V("string"), Null>>), Array(<<>>)})
    \cup ({ClosedS} \X {O(V("string")), Object([id |-> V("string"), new |-> V("string")])})
    \cup ({Nothing} \X {Null, O(V("string"))})

MCChecked == [c \in MCCases |-> C!Check(c[1], c[2])]
MCFitting == {c \in MCCases : C!Fits(c[1], c[2], {})}
MCBlank == {c[2] : c \in {c \in MCCases : C!Empty(c[2])}}

Answers == {n :> s : n \in {200, 201}, s \in {c[1] : c \in MCCases}}
MCEntries ==
    {[responses |-> r] : r \in Answers}
    \cup {[security |-> x, responses |-> (200 :> Ref("Order") @@ 201 :> Ref("Loop"))] : x \in {{}, {{"hmac"}}, {{"hmac"}, {}}}}
    \cup {[security |-> {{}}, responses |-> (404 :> T("string"))]}

MCRows == <<[op |-> FetchOrder, write |-> TRUE], [op |-> FetchMarkets, write |-> FALSE]>>
===============================================================================
