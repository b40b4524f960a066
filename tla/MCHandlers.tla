----------------------------- MODULE MCHandlers -----------------------------
(* Small inputs for Handlers: a database of four bytes, images of six *)
EXTENDS Handlers

MCNames == {"f", "ff", "g", "v"}

\* "ff" contains "f"
MCWithin == {<<n, n>> : n \in MCNames} \cup {<<"ff", "f">>}

MCRank == [n \in MCNames \cup {"", "E", "S", "T"} |->
    CASE n = "" -> 0 [] n = "E" -> 1 [] n = "S" -> 2 [] n = "T" -> 3
      [] n = "f" -> 4 [] n = "ff" -> 5 [] n = "g" -> 6 [] n = "v" -> 7]

Decl(n) == [name |-> n, kind |-> "struct", bit |-> FALSE, members |-> {}]

\* Two functions and two strings, one of which the loader missed
MCLoaded ==
    [bytes   |-> (0 :> 0 @@ 1 :> 3 @@ 2 :> 0 @@ 3 :> 0),
     big     |-> FALSE,
     name    |-> (0 :> "f" @@ 1 :> "ff" @@ 2 :> "v" @@ 3 :> ""),
     func    |-> {0, 1},
     item    |-> (0 :> "code" @@ 1 :> "code" @@ 2 :> "string" @@ 3 :> "string"),
     text    |-> [p \in {"line", "repeatable", "func"} \X (0 .. 3) |->
                     IF p = <<"line", 2>> THEN <<"x", "">> ELSE <<"">>],
     mark    |-> (1 :> -1 @@ 2 :> 2),
     types   |-> <<Decl("S")>>,
     frame   |-> [f \in 0 .. 3 |-> [v \in {"a", "b"} |->
                     IF f = 0 /\ v = "a" THEN "int" ELSE ""]],
     applied |-> [a \in 0 .. 3 |-> ""],
     index   |-> <<2>>]

At(a) == [by |-> "address", at |-> a, offset |-> 0]

Named(n, o) == [by |-> "name", at |-> n, offset |-> o]

\* The least and the greatest value that fit, and one that does not
Boundary(spec) ==
    LET low == IF spec.signed THEN -(Radix ^ spec.width \div 2) ELSE 0
    IN  {low, low + Radix ^ spec.width - 1, low + Radix ^ spec.width}

MCEdits ==
    {[op |-> "patch", target |-> t, bytes |-> <<1, 0>>] :
        t \in {At(0), Named("f", -1), Named("v", 1)}}
    \cup {[op |-> "asm", target |-> Named("f", 0), bytes |-> <<2>>]}
    \cup UNION {{[op |-> "put_int", at |-> 2, spec |-> s, value |-> v] :
                    v \in Boundary(s)} :
                  s \in {t \in IntSpecs({1, 2}) : t.endian # "little"}}
    \cup {[op |-> "rename", target |-> t, name |-> "g", flags |-> b] :
        t \in {At(1), Named("f", 0)}, b \in BOOLEAN}
    \cup {[op |-> "bookmark", at |-> a] : a \in {1, 2}}
    \cup {[op |-> "comment", target |-> Named("ff", 0), lines |-> <<"x">>,
           repeatable |-> b] : b \in BOOLEAN}
    \cup {[op |-> "append", at |-> a, lines |-> l, scope |-> s, dedupe |-> b] :
        a \in {0, 2}, l \in {<<"x">>, <<"x", "y">>},
        s \in {"auto", "func"}, b \in BOOLEAN}
    \cup {[op |-> "func", at |-> a] : a \in {1, 2}}
    \cup {[op |-> "code", at |-> 3], [op |-> "undefine", at |-> 2, size |-> 2],
          [op |-> "undefine", at |-> 0, size |-> 0],
          [op |-> "analyze", at |-> 2, to |-> 4], [op |-> "analyze", at |-> 2, to |-> 2],
          [op |-> "dirty", at |-> 3], [op |-> "operand", at |-> 0, decl |-> "enum"]}
    \cup {[op |-> "data", at |-> 1, decl |-> t, name |-> n, delete |-> b] :
        t \in {"int", "text"}, n \in {"", "g", "v"}, b \in BOOLEAN}
    \cup {[op |-> "enum", enum |-> n, member |-> m, value |-> 1, bit |-> b] :
        n \in {"E", "S"}, m \in {"m", "n"}, b \in BOOLEAN}
    \cup {[op |-> "type", decls |-> <<Decl("T"), Decl("S")>>, replace |-> b,
           multi |-> m] : b \in BOOLEAN, m \in BOOLEAN}
    \cup {[op |-> "apply", target |-> At(1), var |-> v, decl |-> "text"] :
        v \in {"", "a"}}
    \cup {[op |-> "stack", target |-> At(0), var |-> v, decl |-> "int"] :
        v \in {"a", "b"}}
    \cup {[op |-> "unstack", target |-> At(0), var |-> "a"],
          [op |-> "var", at |-> 0, var |-> "a", new |-> "b"]}
    \cup {[op |-> "lumina", target |-> At(3), allow |-> w, apply |-> b, name |-> "g"] :
        w \in BOOLEAN, b \in BOOLEAN}

MCQueries ==
    {[list |-> l, limit |-> n, order |-> "walk"] :
        l \in {"functions", "types", "strings", "find_string", "search", "xrefs",
               "symbols"}, n \in 0 .. 2}
    \cup {[list |-> l, limit |-> 1, order |-> o] :
        l \in {"functions", "globals", "types"}, o \in {"up", "down"}}

\* Two segments that touch
MCImages == {[bytes |-> b, segs |-> <<<<0, 4>>, <<4, 6>>>>] : b \in [0 .. 5 -> 0 .. 1]}

MCPatterns == UNION {[1 .. n -> {Wild, 0, 1}] : n \in 1 .. 3}

\* Any graph of four blocks
MCGraphs ==
    {[b \in 1 .. 4 |-> Ascending(s[b])] :
        s \in {f \in [1 .. 4 -> SUBSET (1 .. 4)] : \A b \in 1 .. 4 : b \notin f[b]}}

MCBudgets == {1, 2, 6}

=============================================================================
