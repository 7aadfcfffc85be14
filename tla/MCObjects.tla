----------------------------- MODULE MCObjects ------------------------------
(* Objects for TLC: bodies and edits of a Deployment and of a Secret.      *)
EXTENDS Objects, TLC

CONSTANTS s1, s2
Symmetry == Permutations(Servers)

Replicas(n) == (<<"replicas">> :> n)
Selector(v) == (<<"selector">> :> v)
Item(v) == (Name("x") :> "x") @@ (Value("x") :> v)
Bare == (Name("x") :> "x")
NoItems == (Env :> "[]")
Sealed == (<<"immutable">> :> "true")
Data(v) == (<<"data", "k">> :> v)
More == (<<"data", "l">> :> "1")
Type(v) == (<<"type">> :> v)

MCWords == {"env", "x", "name", "value", "", "[]", "replicas", "selector", "data", "k", "l",
            "immutable", "true", "type", "t", "1", "2"}
MCOrder == << <<"data", "k">>, <<"data", "l">>, Env, Name("x"), Value("x"), <<"immutable">>,
              <<"replicas">>, <<"selector">>, <<"type">> >>

MCBodies(k) ==
    IF k = "Deployment"
    THEN {Selector("1"), Selector("1") @@ Replicas("2"), Selector("1") @@ Item("1"),
          Selector("2"), Item("2"), Bare, NoItems}
    ELSE {Data("1"), Data("1") @@ More, Data("2") @@ Sealed, Type("t") @@ Data("1")}

MCEdits(k) ==
    IF k = "Deployment"
    THEN {[set |-> Replicas("2"), drop |-> {}], [set |-> Item("2"), drop |-> {}],
          [set |-> <<>>, drop |-> {<<"env", "x">>}],
          [set |-> Selector("2"), drop |-> {<<"replicas">>}]}
    ELSE {[set |-> Data("2"), drop |-> {}], [set |-> Sealed, drop |-> {}],
          [set |-> Data("1"), drop |-> {<<"immutable">>}]}
=============================================================================
