------------------------------ MODULE Handlers ------------------------------
(***************************************************************************)
(* One open database and the requests its handlers serve: edits that a     *)
(* client may send again when it lost the answer, listings read page by    *)
(* page while other clients edit and list, and the scans of Scans.tla.     *)
(* The loop of IdaLoop runs a handler to its end before it takes the next  *)
(* request, so a handler is one step here.                                 *)
(***************************************************************************)
EXTENDS Idb, Scans

CONSTANTS
    Loaded,    \* the database as the loader left it
    Edits,     \* edit requests, each with its operation in op
    Queries,   \* listing requests [list, limit, order]
    Rank,      \* a number for each name, in the order of the names
    MaxPage,   \* the largest page
    Ceiling,   \* BOUNDED_SCAN_CEILING
    MaxEdits,  \* bound on the edits of a behaviour
    Images, Patterns, Budgets,  \* what the scans are asked about
    Graphs     \* successor sequences by block

EditOps == {"patch", "asm", "put_int", "rename", "bookmark", "comment",
            "append", "func", "code", "undefine", "analyze", "dirty", "data",
            "operand", "enum", "type", "apply", "stack", "unstack", "var",
            "lumina"}

\* Only the counted listings have a sort_by
Sortable == {"functions", "globals", "types", "strings"}

ASSUME HandlersAssumption ==
    /\ IsDb(Loaded)
    /\ MaxPage \in Nat \ {0} /\ Ceiling \in Nat
    /\ \A e \in Edits :
           /\ e.op \in EditOps
           /\ e.op = "type" => IsSequence(e.decls)
    /\ \A q \in Queries :
           /\ q.list \in Sortable \cup {"find_string", "search", "xrefs", "symbols"}
           /\ q.limit \in Nat
           /\ q.list \notin Sortable => q.order = "walk"

VARIABLES
    db,     \* the database
    last,   \* the last edit [edit, before, answer, tries] while nobody is
            \* reading a listing, or Nothing
    walk,   \* the listing a client is reading, or Nothing
    answer, \* the last scan [scan, request, result], or Nothing
    edits   \* the edits so far

vars == <<db, last, walk, answer, edits>>

Nothing == [nothing |-> TRUE]

-----------------------------------------------------------------------------
(* Edits *)

\* The handler an edit request reaches
Apply(d, e) ==
    CASE e.op = "patch"    -> handle_patch_bytes(d, e.target, e.bytes)
      [] e.op = "asm"      -> handle_patch_asm(d, e.target, e.bytes)
      [] e.op = "put_int"  -> handle_put_int(d, e.at, e.spec, e.value)
      [] e.op = "rename"   -> handle_rename(d, e.target, e.name, e.flags)
      [] e.op = "bookmark" -> handle_add_bookmark(d, e.at)
      [] e.op = "comment"  -> handle_set_comments(d, e.target, e.lines, e.repeatable)
      [] e.op = "append"   -> handle_append_comment(d, e.at, e.lines, e.scope, e.dedupe)
      [] e.op = "func"     -> handle_define_func(d, e.at)
      [] e.op = "code"     -> handle_define_code(d, e.at)
      [] e.op = "undefine" -> handle_undefine(d, e.at, e.size)
      [] e.op = "analyze"  -> handle_reanalyze(d, e.at, e.to)
      [] e.op = "dirty"    -> handle_mark_cfunc_dirty(d, e.at)
      [] e.op = "data"     -> handle_make_data(d, e.at, e.decl, e.name, e.delete)
      [] e.op = "operand"  -> handle_set_operand_type(d, e.at, e.decl)
      [] e.op = "enum"     -> handle_enum_upsert_member(d, e.enum, e.member, e.value, e.bit)
      [] e.op = "type"     -> handle_declare_type(d, e.decls, e.replace, e.multi)
      [] e.op = "apply"    -> handle_apply_types(d, e.target, e.var, e.decl)
      [] e.op = "stack"    -> handle_declare_stack(d, e.target, e.var, e.decl)
      [] e.op = "unstack"  -> handle_delete_stack(d, e.target, e.var)
      [] e.op = "var"      -> handle_rename_variable(d, e.at, e.var, e.new)
      [] e.op = "lumina"   -> handle_pull(d, e.target, e.allow, e.apply, e.name)

-----------------------------------------------------------------------------
(* Listings *)

\* What each listing is a list of, in the order its handler walks it
handle_list_functions(d) == Ascending(d.func)
handle_list_globals(d)   == Ascending({a \in Addr \ d.func : d.name[a] # ""})
handle_local_types(d)    == [i \in DOMAIN d.types |-> d.types[i].name]
handle_strings(d)        == d.index
handle_find_string(d)    == d.index
handle_search_imm(d)     == Ascending({a \in Addr : d.bytes[a] = 0})
handle_xrefs_to(d)       == Ascending(Addr)
handle_dsc_find_symbols(d) == Ascending(Addr)

Listed(d, list) ==
    CASE list = "functions"   -> handle_list_functions(d)
      [] list = "globals"     -> handle_list_globals(d)
      [] list = "types"       -> handle_local_types(d)
      [] list = "strings"     -> handle_strings(d)
      [] list = "find_string" -> handle_find_string(d)
      [] list = "search"      -> handle_search_imm(d)
      [] list = "xrefs"       -> handle_xrefs_to(d)
      [] list = "symbols"     -> handle_dsc_find_symbols(d)

\* sort_functions and its likes: by name, in either direction
SortKeys(d, q) ==
    LET found == Listed(d, q.list)
    IN  [i \in DOMAIN found |-> Rank[IF q.list = "types" THEN found[i] ELSE d.name[found[i]]]]

Ordered(d, q) ==
    IF q.order = "walk" THEN Listed(d, q.list)
    ELSE InOrder(Listed(d, q.list), SortKeys(d, q), q.order = "down")

\* find_string and the bounded searches take a limit of 0 as it is
PageLimit(q) ==
    IF q.list \in {"find_string", "search"} THEN Least(q.limit, MaxPage)
    ELSE page_bounds(q.limit, MaxPage)

Page(d, q, offset) ==
    LET limit == PageLimit(q)
        found == Listed(d, q.list)
        stop  == bounded_scan_ceiling(offset, limit, {}, Ceiling)
    IN  CASE q.list = "xrefs"   -> Cursor(found, offset, limit)
          [] q.list = "symbols" ->
                dsc_paginate(FirstOf(found, dsc_scan_count(offset, limit)), offset, limit)
          [] q.list = "search"  ->
                paginate_bounded_matches(FirstOf(found, stop), offset, limit, stop)
          [] OTHER -> IF q.order = "walk" THEN Streamed(found, offset, limit)
                      ELSE Sorted(found, offset, limit, SortKeys(d, q), q.order = "down")

\* The string tools see to the index before they read it
Refreshed(d, list, offset) ==
    IF list \in {"strings", "find_string"} THEN string_index(d, offset) ELSE d

\* A walk whose listing another client changed under it has drifted
Drifted(d) ==
    IF walk = Nothing THEN Nothing
    ELSE [walk EXCEPT !.drift = @ \/ Ordered(d, walk.query) # walk.base]

-----------------------------------------------------------------------------
(* Steps *)

Init ==
    /\ db = Loaded
    /\ last = Nothing /\ walk = Nothing /\ answer = Nothing
    /\ edits = 0

Edit ==
    /\ edits < MaxEdits /\ answer = Nothing
    /\ \E e \in Edits : \E r \in Apply(db, e) :
        /\ db' = r.db
        /\ last' = IF walk # Nothing THEN Nothing
                   ELSE [edit |-> e, before |-> db, answer |-> r.answer, tries |-> 1]
        /\ edits' = edits + 1
        /\ walk' = Drifted(r.db)
        /\ UNCHANGED answer

\* The client did not see the answer, or saw an error, and sends it again
Retry ==
    /\ last # Nothing /\ last.tries = 1
    /\ \E r \in Apply(db, last.edit) :
        /\ db' = r.db
        /\ last' = [last EXCEPT !.answer = r.answer, !.tries = 2]
    /\ UNCHANGED <<walk, answer, edits>>

\* A page at offset of query q, added to what the walk has so far
Serve(q, offset, got, drift) ==
    LET d    == Refreshed(db, q.list, offset)
        page == Page(d, q, offset)
    IN  /\ db' = d
        /\ walk' = [query |-> q, got |-> got \o page.items, next |-> page.next,
                    more |-> page.more, drift |-> drift,
                    base |-> IF offset = 0 THEN Ordered(d, q) ELSE walk.base]
        /\ last' = Nothing
        /\ UNCHANGED <<answer, edits>>

FirstPage ==
    /\ walk = Nothing /\ answer = Nothing
    /\ \E q \in Queries : Serve(q, 0, <<>>, FALSE)

NextPage ==
    /\ walk # Nothing
    /\ \E offset \in walk.next : Serve(walk.query, offset, walk.got, walk.drift)

\* Another client's string tool starts a scan of its own
OtherScan ==
    /\ walk # Nothing
    /\ db' = string_index(db, 0)
    /\ walk' = Drifted(string_index(db, 0))
    /\ last' = Nothing
    /\ UNCHANGED <<answer, edits>>

-----------------------------------------------------------------------------
(* Scans of a freshly loaded database *)

Fresh == edits = 0 /\ walk = Nothing /\ answer = Nothing

Answer(scan, request, result) ==
    /\ answer' = [scan |-> scan, request |-> request, result |-> result]
    /\ UNCHANGED <<db, last, walk, edits>>

FindBytes ==
    /\ Fresh
    /\ \E img \in Images, pat \in Patterns, n \in Budgets :
           Answer("bytes", [img |-> img, pat |-> pat, max |-> n],
                  handle_find_bytes(img, pat, n))

MakeSignature ==
    /\ Fresh
    /\ \E img \in Images, w \in BOOLEAN, n \in Budgets \cup {0} :
       \E a \in DOMAIN img.bytes : \E end \in {NoEnd} \cup DOMAIN img.bytes :
           LET r == [address |-> a, end |-> end, wildcard |-> w, max_length |-> n]
           IN  Answer("signature", [img |-> img, req |-> r], handle_make_signature(img, r))

\* The scope of an instruction scan: the database or a range
FindInsns ==
    /\ Fresh
    /\ \E img \in Images, n \in Budgets, scan \in Budgets :
       \E pat \in {p \in Patterns : \A i \in DOMAIN p : p[i] # Wild},
          ranges \in {img.segs, <<img.segs[1]>>} :
           Answer("insns",
                  [img |-> img, pat |-> pat, max |-> n, scan |-> scan, ranges |-> ranges],
                  handle_find_insns(img, ranges, pat, n, scan))

FindPaths ==
    /\ Fresh
    /\ \E g \in Graphs, n \in Budgets, depth \in Budgets \cup {0} :
       \E end \in DOMAIN g :
           Answer("paths", [graph |-> g, end |-> end, max |-> n, depth |-> depth],
                  handle_find_paths(g, 1, end, n, depth))

Callgraph ==
    /\ Fresh
    /\ \E g \in Graphs, n \in Budgets, depth \in Budgets \cup {0} :
           Answer("callgraph", [graph |-> g, max |-> n, depth |-> depth],
                  handle_callgraph(g, 1, depth, n))

Next ==
    \/ Edit \/ Retry
    \/ FirstPage \/ NextPage \/ OtherScan
    \/ FindBytes \/ MakeSignature \/ FindInsns \/ FindPaths \/ Callgraph

Spec == Init /\ [][Next]_vars

-----------------------------------------------------------------------------
(* Properties *)

\* Slots of bookmarks and ordinals of types are not compared
View(d) == [d EXCEPT !.mark = Range(d.mark), !.types = Range(d.types)]

\* The edits whose handlers make a second attempt safe: all but an append that
\* does not look for the comment, or that has several lines, and a rename by
\* name that lets IDA pick a variant
Repeatable(e) ==
    /\ e.op = "append" => e.dedupe /\ Len(e.lines) = 1 /\ e.lines # <<"">>
    /\ e.op = "rename" => ~(e.flags /\ e.target.by = "name")

\* An edit that is sent again, after an answer that was lost or after an error
\* half way through the handler, and now succeeds leaves the database where one
\* attempt that succeeds would have left it: no second comment line, enum
\* member or bookmark, no trace of the half-made item (annotations.rs,
\* definitions.rs, ida_sdk_bridge.cpp; put_int is declared idempotent).
RetryConverges ==
    (last # Nothing /\ last.tries = 2 /\ last.answer # "error" /\ Repeatable(last.edit))
    => \E r \in Apply(last.before, last.edit) :
           r.answer # "error" /\ View(r.db) = View(db)

\* A client that follows next_offset until there is none has read every match
\* once and in order, whatever the mechanism of the page, and for strings also
\* while other clients edit the database: a continuation reads the index its
\* first page built.  Excepted are listings another client changed (for
\* strings: rebuilt) during the walk, and a limit of 0; a bounded search that
\* ends early has reached the ceiling and says so (query.rs, strings.rs,
\* xrefs.rs, server/mod.rs).
PagesTile ==
    (walk # Nothing /\ walk.next = {} /\ ~walk.drift /\ PageLimit(walk.query) > 0) =>
        IF walk.query.list = "search"
        THEN /\ walk.got = FirstOf(walk.base, Ceiling)
             /\ walk.more = (Len(walk.base) >= Ceiling)
        ELSE walk.got = walk.base

\* Where a pattern lies within one segment
Occurrences(img, pat) ==
    {a \in DOMAIN img.bytes : \E i \in DOMAIN img.segs :
        /\ img.segs[i][1] <= a /\ a + Len(pat) <= img.segs[i][2]
        /\ Matches(img.bytes, a, pat)}

BytesFindAll ==
    (answer # Nothing /\ answer.scan = "bytes") =>
        LET r == answer.request
        IN  answer.result = FirstOf(Ascending(Occurrences(r.img, r.pat)), r.max)

\* A signature called unique matches its own address and no other, as long as
\* it stays inside its segment, and no shorter run of whole instructions would
\* have done; one not called unique has another match or none that a segment
\* holds (handlers/signature.rs).
SignatureIsUnique ==
    (answer # Nothing /\ answer.scan = "signature") =>
        \A s \in answer.result :
            LET img  == answer.request.img
                req  == answer.request.req
                seg  == img.segs[CHOOSE i \in SegmentAt(img, req.address) : TRUE]
                here == req.address + Len(s.sig) <= seg[2]
                at   == Occurrences(img, s.sig)
            IN  here => /\ req.address \in at
                        /\ s.unique = (at = {req.address})
                        /\ req.end = NoEnd /\ s.unique =>
                             \A n \in 1 .. Len(s.sig) - 1 :
                               LET p == trim_trailing_wildcards(SubSeq(s.sig, 1, n))
                               IN  Occurrences(img, p) = {req.address} =>
                                     ~\E h \in Range(HeadsFrom(img, req.address, seg[2])) :
                                         h = req.address + n

InsnScanHonest ==
    (answer # Nothing /\ answer.scan = "insns") =>
        LET r    == answer.request
            out  == answer.result
            all  == heads(r.img, r.ranges)
            Run(i) == /\ i + Len(r.pat) - 1 <= Len(all)
                      /\ \A j \in DOMAIN r.pat : r.img.bytes[all[i + j - 1]] = r.pat[j]
                      /\ \E g \in Range(r.ranges) :
                             g[1] <= all[i] /\ all[i + Len(r.pat) - 1] < g[2]
            hits == Ascending({all[i] : i \in {k \in DOMAIN all : Run(k)}})
        IN  /\ IsPrefix(out.items, hits)
            /\ Len(out.items) <= r.max
            /\ ~out.truncated /\ ~out.scan_truncated => out.items = hits

\* A scan finds every match once and in address order, or says that it stopped:
\* find_bytes, which reads a segment in overlapping chunks, also the match that
\* lies across two chunks, up to max_results; find_insns, when it raises neither
\* truncated nor scan_truncated, every run of its scope, and never one that goes
\* on into the next range (handlers/search.rs, scan.rs).
ScansFindAll == BytesFindAll /\ InsnScanHonest

SimplePath(g, p, end) ==
    /\ p[1] = 1 /\ Last(p) = end /\ IsInjective(p)
    /\ \A i \in 1 .. Len(p) - 1 : p[i + 1] \in Range(g[p[i]])

PathsComplete ==
    (answer # Nothing /\ answer.scan = "paths") =>
        LET r   == answer.request
            n   == Least(Greatest(r.depth, 1) + 1, Len(r.graph))
            all == {p \in UNION {[1 .. k -> DOMAIN r.graph] : k \in 1 .. n} :
                        SimplePath(r.graph, p, r.end)}
        IN  /\ Range(answer.result) \subseteq all /\ IsInjective(answer.result)
            /\ Len(answer.result) = Least(Cardinality(all), r.max)

\* The functions a walk of at most k calls reaches
Reached(g, k) ==
    LET step[i \in 0 .. k] ==
            IF i = 0 THEN {1}
            ELSE step[i - 1] \cup UNION {Range(g[f]) : f \in step[i - 1]}
    IN  step[k]

CallgraphReaches ==
    (answer # Nothing /\ answer.scan = "callgraph") =>
        LET r   == answer.request
            out == answer.result
            all == Reached(r.graph, Greatest(r.depth, 1))
        IN  /\ out.nodes \subseteq all
            /\ Cardinality(out.nodes) = Least(Cardinality(all), r.max)
            /\ \A f \in out.nodes \ {1} : \E e \in out.edges : e[2] = f /\ e[1] \in out.nodes
            /\ \A e \in out.edges : e[2] \in Range(r.graph[e[1]])

\* The graph walks answer with all there is within their bounds: find_paths with
\* the distinct simple paths of at most max_depth edges from the start block to
\* the end block, as many as there are up to max_paths; callgraph with the
\* functions within max_depth calls of the root, as many as max_nodes allows,
\* each joined to the root by edges of the answer (handlers/controlflow.rs).
WalksComplete == PathsComplete /\ CallgraphReaches
=============================================================================
