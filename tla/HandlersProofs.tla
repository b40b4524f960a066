--------------------------- MODULE HandlersProofs ---------------------------
(***************************************************************************)
(* PagesTile of Handlers, for any database, any edits and queries and any  *)
(* bounds: a client that follows next_offset reads a listing to its end.   *)
(***************************************************************************)
EXTENDS Handlers, IdbProofs

-----------------------------------------------------------------------------
(* Every listing is a sequence, of every database the edits lead to *)

\* Every listing of a database is a sequence of matches,
LEMMA ListedSequence ==
  ASSUME NEW d, IsDb(d), NEW q \in Queries
  PROVE  IsSequence(Listed(d, q.list))
<1>1. IsSequence(handle_list_functions(d))
  BY Zenon, AscendingSequence DEF handle_list_functions, IsDb
<1>2. IsSequence(handle_list_globals(d))
  BY Zenon, AscendingSequence DEF handle_list_globals
<1>3. IsSequence(handle_local_types(d))
  <2>1. IsSequence(d.types)
    BY Zenon DEF IsDb
  <2>2. Len(d.types) \in Nat /\ DOMAIN d.types = 1 .. Len(d.types)
    BY <2>1 DEF IsSequence
  <2> DEFINE f == handle_local_types(d)
  <2>3. f = [i \in 1 .. Len(d.types) |-> f[i]]
    BY Zenon, <2>2 DEF handle_local_types
  <2> HIDE DEF f
  <2> QED BY Zenon, <2>2, <2>3, FunctionIsSequence DEF f
<1>4. IsSequence(d.index)
  BY Zenon DEF IsDb
<1>5. IsSequence(handle_search_imm(d))
  BY Zenon, AscendingSequence DEF handle_search_imm
<1>6. IsSequence(Ascending(Addr))
  BY Zenon, AscendingSequence
<1>7. q.list \in {"functions", "globals", "types", "strings", "find_string", "search", "xrefs", "symbols"}
  BY Zenon, HandlersAssumption DEF Sortable
<1> QED BY Zenon, <1>1, <1>2, <1>3, <1>4, <1>5, <1>6, <1>7
        DEF Listed, handle_strings, handle_find_string, handle_xrefs_to, handle_dsc_find_symbols

\* and so is every listing in the order the client asked for.
LEMMA OrderedSequence ==
  ASSUME NEW d, IsDb(d), NEW q \in Queries
  PROVE  IsSequence(Ordered(d, q))
BY Zenon, ListedSequence, InOrderSequence DEF Ordered

\* Every edit handler leaves a database, whether it succeeds or fails half way.
LEMMA ApplyKeeps ==
  ASSUME NEW d, IsDb(d), NEW e \in Edits
  PROVE  Keeps(Apply(d, e))
<1>1. e.op \in EditOps /\ (e.op = "type" => IsSequence(e.decls))
  BY Zenon, HandlersAssumption
<1> QED
  BY Zenon, <1>1, OnTargetKeeps, BytesKeep, HandleRenameKeeps, BookmarkKeeps, CommentsKeep,
     AppendKeeps, DefineFuncKeeps, UndefineKeeps, AnalyzeKeeps, DataKeeps, OperandKeeps,
     EnumKeeps, DeclareKeeps, FrameKeeps, PullKeeps DEF Apply, EditOps

\* So does the rebuild of the string index.
LEMMA IndexKeeps ==
  ASSUME NEW d, IsDb(d), NEW offset
  PROVE  IsDb(string_index(d, offset))
<1>1. IsSequence(Ascending({a \in Addr : d.item[a] = "string"}))
  BY Zenon, AscendingSequence
<1> QED BY Zenon, <1>1 DEF string_index, IsDb, Fields

-----------------------------------------------------------------------------
(* Every page leaves the client with a prefix *)

\* What a client with the matches got has read of the listing all: the first n
\* and it is told to go on at n, or all there is.
Tiles(q, all, got, next, more) ==
    \/ \E n \in 1 .. Len(all) :
           /\ next = {n}
           /\ q.list = "search" => n <= Ceiling
           /\ got = FirstOf(all, n)
    \/ /\ next = {}
       /\ IF q.list = "search"
          THEN got = FirstOf(all, Ceiling) /\ more = (Len(all) >= Ceiling)
          ELSE got = all

\* The size of a page
LEMMA PageLimitType ==
  ASSUME NEW q \in Queries
  PROVE  PageLimit(q) \in Nat
<1>1. q.limit \in Nat /\ MaxPage \in Nat
  BY Zenon, HandlersAssumption
<1> QED BY Zenon, <1>1 DEF PageLimit, page_bounds, Least, Greatest

\* A page that extends what the client has leaves it with the first matches and
\* the offset of the next, or with all of them.
LEMMA ExtendsTiles ==
  ASSUME NEW S, NEW all \in Seq(S), NEW q, q.list # "search",
         NEW o \in Nat, NEW l \in Nat \ {0}, o <= Len(all), NEW page, Extends(page, all, o, l)
  PROVE  Tiles(q, all, FirstOf(all, o) \o page.items, page.next, page.more)
<1>1. /\ FirstOf(all, o) \o page.items = FirstOf(all, o + l)
      /\ page.next = IF Len(all) > o + l THEN {o + l} ELSE {}
  BY Zenon DEF Extends
<1>2. Len(all) \in Nat /\ o + l \in Nat \ {0}
  OBVIOUS
<1>3. CASE Len(all) > o + l
  <2>1. o + l \in 1 .. Len(all) /\ page.next = {o + l}
    BY <1>1, <1>2, <1>3
  <2> QED BY Zenon, <1>1, <2>1 DEF Tiles
<1>4. CASE ~(Len(all) > o + l)
  <2>1. FirstOf(all, o + l) = all
    BY SMTT(30), <1>2, <1>4, WholeFirstOf
  <2> QED BY Zenon, <1>1, <1>4, <2>1 DEF Tiles
<1> QED BY Zenon, <1>3, <1>4

\* So does every listing, whatever its mechanism.
LEMMA PageTiles ==
  ASSUME NEW d, IsDb(d), NEW q \in Queries, PageLimit(q) > 0,
         NEW o \in Nat, o <= Len(Ordered(d, q)), q.list = "search" => o <= Ceiling
  PROVE  Tiles(q, Ordered(d, q), FirstOf(Ordered(d, q), o) \o Page(d, q, o).items,
               Page(d, q, o).next, Page(d, q, o).more)
<1> DEFINE all == Ordered(d, q)
           found == Listed(d, q.list)
           l == PageLimit(q)
           stop == bounded_scan_ceiling(o, l, {}, Ceiling)
<1>1. /\ IsSequence(all) /\ IsSequence(found)
      /\ l \in Nat \ {0} /\ o <= Len(all)
  BY SMTT(30), OrderedSequence, ListedSequence, PageLimitType
<1>2. Ceiling \in Nat
  BY Zenon, HandlersAssumption
<1>3. q.list \in {"search", "xrefs", "symbols"} => q.order = "walk"
  BY Zenon, HandlersAssumption DEF Sortable
<1>4. q.order = "walk" => all = found
  BY Zenon DEF Ordered
<1>5. Page(d, q, o) =
        CASE q.list = "xrefs"   -> Cursor(found, o, l)
          [] q.list = "symbols" -> dsc_paginate(FirstOf(found, dsc_scan_count(o, l)), o, l)
          [] q.list = "search"  -> paginate_bounded_matches(FirstOf(found, stop), o, l, stop)
          [] OTHER -> IF q.order = "walk" THEN Streamed(found, o, l)
                      ELSE Sorted(found, o, l, SortKeys(d, q), q.order = "down")
  BY Zenon DEF Page
<1>6. q.order # "walk" => all = InOrder(found, SortKeys(d, q), q.order = "down")
  BY Zenon DEF Ordered
<1> DEFINE page == Page(d, q, o)
<1> SUFFICES Tiles(q, all, FirstOf(all, o) \o page.items, page.next, page.more)
  BY Zenon
<1> HIDE DEF all, found, l, page
<1>s. all \in Seq(Range(all)) /\ found \in Seq(Range(found))
  BY Zenon, <1>1 DEF IsSequence
<1>7. CASE q.list = "search"
  <2>1. all = found /\ page = paginate_bounded_matches(FirstOf(found, stop), o, l, stop)
    BY Zenon, <1>3, <1>4, <1>5, <1>7 DEF page
  <2>2. /\ FirstOf(all, o) \o page.items = FirstOf(all, Least(o + l, Ceiling))
        /\ page.next = IF Least(Len(all), Ceiling) > o + l THEN {o + l} ELSE {}
        /\ page.next = {} => page.more = (Len(all) >= Ceiling)
    <3>1. l \in Nat \ {0} /\ o <= Len(all) /\ o <= Ceiling
      BY Zenon, <1>1, <1>7
    <3>2. ExtendsBelow(page, all, o, l, Ceiling)
      BY Zenon, <1>2, <1>s, <2>1, <3>1, BoundedExtends
    <3> QED BY Zenon, <3>2 DEF ExtendsBelow
  <2>3. Len(all) \in Nat /\ o + l \in Nat \ {0}
    BY SMTT(30), <1>1, <1>s
  <2>4. CASE Least(Len(all), Ceiling) > o + l
    <3>1. Least(o + l, Ceiling) = o + l /\ o + l <= Len(all) /\ o + l <= Ceiling
      BY SMTT(30), <1>2, <2>3, <2>4 DEF Least
    <3>2. o + l \in 1 .. Len(all) /\ page.next = {o + l}
      BY SMTT(30), <2>2, <2>3, <2>4, <3>1
    <3> QED BY Zenon, <2>2, <3>1, <3>2 DEF Tiles
  <2>5. CASE ~(Least(Len(all), Ceiling) > o + l)
    <3>1. FirstOf(all, Least(o + l, Ceiling)) = FirstOf(all, Ceiling)
      BY SMTT(30), <1>2, <2>3, <2>5 DEF Least, FirstOf
    <3> QED BY Zenon, <1>7, <2>2, <2>5, <3>1 DEF Tiles
  <2> QED BY Zenon, <2>4, <2>5
<1>8. CASE q.list # "search"
  <2>1. Extends(page, all, o, l)
    <3>1. CASE q.list = "xrefs"
      <4>1. all = found /\ page = Cursor(found, o, l)
        BY Zenon, <1>3, <1>4, <1>5, <3>1 DEF page
      <4> QED BY Zenon, <4>1, <1>1, <1>s, CursorExtends
    <3>2. CASE q.list = "symbols"
      <4>1. /\ all = found
            /\ page = dsc_paginate(FirstOf(found, dsc_scan_count(o, l)), o, l)
        BY Zenon, <1>3, <1>4, <1>5, <3>2 DEF page
      <4> QED BY Zenon, <4>1, <1>1, <1>s, SymbolsExtend
    <3>3. CASE q.list \notin {"xrefs", "symbols"} /\ q.order = "walk"
      <4>1. all = found /\ page = Streamed(found, o, l)
        BY Zenon, <1>4, <1>5, <1>8, <3>3 DEF page
      <4> QED BY Zenon, <4>1, <1>1, <1>s, StreamedExtends
    <3>4. CASE q.list \notin {"xrefs", "symbols"} /\ q.order # "walk"
      <4>1. page = Sorted(found, o, l, SortKeys(d, q), q.order = "down")
        BY Zenon, <1>5, <1>8, <3>4 DEF page
      <4>2. all = InOrder(found, SortKeys(d, q), q.order = "down")
        BY Zenon, <1>6, <3>4
      <4> QED BY Zenon, <4>1, <4>2, <1>1, <1>s, SortedExtends
    <3> QED BY Zenon, <3>1, <3>2, <3>3, <3>4
  <2> QED BY Zenon, <2>1, <1>1, <1>8, <1>s, ExtendsTiles
<1> QED BY Zenon, <1>7, <1>8

-----------------------------------------------------------------------------
(* The invariant *)

\* The fields of a walk and of a remembered edit
WalkFields == {"query", "got", "next", "more", "drift", "base"}

EditFields == {"edit", "before", "answer", "tries"}

\* A listing that is being read in the database d: until it drifts, what the
\* client has and what it is told to ask for next tile the listing of d
Reading(w, d) ==
    /\ DOMAIN w = WalkFields /\ w.query \in Queries /\ w.drift \in BOOLEAN
    /\ (PageLimit(w.query) > 0 /\ w.drift = FALSE) =>
         /\ w.base = Ordered(d, w.query)
         /\ Tiles(w.query, w.base, w.got, w.next, w.more)

\* The edit that Retry sends again is one of the requests.
Edited(l) == DOMAIN l = EditFields /\ l.edit \in Edits

\* The inductive invariant.  PagesTile speaks of the last page only; what makes
\* it true is that every page on the way leaves the client with a prefix of the
\* listing that ends at the offset it asks for next, of the database as it is.
IInv ==
    /\ IsDb(db)
    /\ walk # Nothing => Reading(walk, db)
    /\ last # Nothing => walk = Nothing /\ Edited(last)

\* A walk is not the absence of one.
LEMMA NothingIsNoRecord ==
  ASSUME NEW w, DOMAIN w = WalkFields
  PROVE  w # Nothing
BY DEF WalkFields, Nothing

\* Another client's step on a walk: either it leaves the listing alone, or the
\* walk has drifted.
LEMMA DriftedWalks ==
  ASSUME NEW d, walk # Nothing, Reading(walk, db)
  PROVE  Drifted(d) # Nothing /\ Reading(Drifted(d), d)
<1> DEFINE drift == walk.drift \/ Ordered(d, walk.query) # walk.base
           w == [walk EXCEPT !.drift = drift]
<1>1. Drifted(d) = w
  BY Zenon DEF Drifted
<1>2. DOMAIN walk = WalkFields /\ walk.drift \in BOOLEAN
  BY Zenon DEF Reading
<1>3. /\ DOMAIN w = WalkFields /\ w.query = walk.query /\ w.base = walk.base
      /\ w.got = walk.got /\ w.next = walk.next /\ w.more = walk.more
      /\ w.drift = drift
  <2> HIDE DEF drift
  <2> QED BY Zenon, <1>2 DEF WalkFields
<1>4. w # Nothing
  BY Zenon, <1>3, NothingIsNoRecord
<1> HIDE DEF w
<1>5. w.drift = FALSE => walk.drift = FALSE /\ walk.base = Ordered(d, walk.query)
  <2>1. w.drift = (walk.drift \/ Ordered(d, walk.query) # walk.base)
    BY Zenon, <1>3
  <2>2. walk.drift \in BOOLEAN
    BY Zenon, <1>2
  <2> QED BY Zenon, <2>1, <2>2
<1>b. w.drift \in BOOLEAN
  <2>1. drift \in BOOLEAN
    BY Zenon
  <2> QED BY Zenon, <1>3, <2>1
<1>6. Reading(w, d)
  BY Zenon, <1>3, <1>5, <1>b DEF Reading
<1> QED BY Zenon, <1>1, <1>4, <1>6

\* Serve, for a client that has the first o matches.
LEMMA ServeWalks ==
  ASSUME NEW d, IsDb(d), NEW q \in Queries, NEW o, NEW got, NEW drift \in BOOLEAN, NEW base,
         (PageLimit(q) > 0 /\ drift = FALSE) =>
            /\ base = Ordered(d, q) /\ o \in Nat /\ o <= Len(base)
            /\ q.list = "search" => o <= Ceiling
            /\ got = FirstOf(base, o),
         NEW w, w = [query |-> q, got |-> got \o Page(d, q, o).items,
                     next |-> Page(d, q, o).next, more |-> Page(d, q, o).more,
                     drift |-> drift, base |-> base]
  PROVE  w # Nothing /\ Reading(w, d)
<1>1. /\ DOMAIN w = WalkFields /\ w.query = q /\ w.base = base
      /\ w.got = got \o Page(d, q, o).items /\ w.next = Page(d, q, o).next
      /\ w.more = Page(d, q, o).more /\ w.drift = drift
  BY Zenon DEF WalkFields
<1>2. w # Nothing
  BY Zenon, <1>1, NothingIsNoRecord
<1>3. ASSUME PageLimit(q) > 0, drift = FALSE
      PROVE  Tiles(q, base, got \o Page(d, q, o).items, Page(d, q, o).next,
                   Page(d, q, o).more)
  <2>1. /\ base = Ordered(d, q) /\ o \in Nat /\ o <= Len(Ordered(d, q))
        /\ q.list = "search" => o <= Ceiling
        /\ got = FirstOf(Ordered(d, q), o)
    BY Zenon, <1>3
  <2>2. Tiles(q, Ordered(d, q), FirstOf(Ordered(d, q), o) \o Page(d, q, o).items,
              Page(d, q, o).next, Page(d, q, o).more)
    BY Zenon, <1>3, <2>1, PageTiles
  <2> QED BY Zenon, <2>1, <2>2
<1>4. (PageLimit(w.query) > 0 /\ w.drift = FALSE) =>
        w.base = Ordered(d, w.query) /\ Tiles(w.query, w.base, w.got, w.next, w.more)
  BY Zenon, <1>1, <1>3
<1> QED BY Zenon, <1>1, <1>2, <1>4 DEF Reading

\* No listing is being read at the start.
LEMMA InitIInv == Init => IInv
<1>1. IsDb(Loaded)
  BY Zenon, HandlersAssumption
<1> QED BY Zenon, <1>1 DEF Init, IInv

\* Edit: the listing is the same, or the walk drifts.
LEMMA EditStep == IInv /\ Edit => IInv'
<1> SUFFICES ASSUME IInv, Edit PROVE IInv'
  BY Zenon
<1>1. PICK e \in Edits : \E r \in Apply(db, e) :
        /\ db' = r.db
        /\ last' = IF walk # Nothing THEN Nothing
                   ELSE [edit |-> e, before |-> db, answer |-> r.answer, tries |-> 1]
        /\ walk' = Drifted(r.db)
  BY Zenon DEF Edit
<1>2. PICK r \in Apply(db, e) :
        /\ db' = r.db
        /\ last' = IF walk # Nothing THEN Nothing
                   ELSE [edit |-> e, before |-> db, answer |-> r.answer, tries |-> 1]
        /\ walk' = Drifted(db')
  BY Zenon, <1>1
<1>3. IsDb(db')
  BY Zenon, <1>2, ApplyKeeps DEF IInv, Keeps
<1>4. CASE walk # Nothing
  <2>1. Reading(walk', db')
    BY Zenon, <1>2, <1>4, DriftedWalks DEF IInv
  <2>2. last' = Nothing
    BY Zenon, <1>2, <1>4
  <2> QED BY ZenonT(30), <1>3, <2>1, <2>2 DEF IInv
<1>5. CASE walk = Nothing
  <2>1. walk' = Nothing
    BY Zenon, <1>2, <1>5 DEF Drifted
  <2>2. last' = [edit |-> e, before |-> db, answer |-> r.answer, tries |-> 1]
    BY Zenon, <1>2, <1>5
  <2>3. Edited(last')
    BY Zenon, <2>2 DEF Edited, EditFields
  <2> QED BY Zenon, <1>3, <2>1, <2>3 DEF IInv
<1> QED BY Zenon, <1>4, <1>5

\* Retry: nobody is reading a listing.
LEMMA RetryStep == IInv /\ Retry => IInv'
<1> SUFFICES ASSUME IInv, Retry PROVE IInv'
  BY Zenon
<1>1. last # Nothing /\ walk' = walk
  BY Zenon DEF Retry, vars
<1>2. PICK r \in Apply(db, last.edit) :
        db' = r.db /\ last' = [last EXCEPT !.answer = r.answer, !.tries = 2]
  BY Zenon DEF Retry
<1>3. walk = Nothing /\ DOMAIN last = EditFields /\ last.edit \in Edits
  BY Zenon, <1>1 DEF IInv, Edited
<1>4. IsDb(db')
  BY Zenon, <1>2, <1>3, ApplyKeeps DEF IInv, Keeps
<1>5. Edited(last')
  BY Zenon, <1>2, <1>3 DEF Edited, EditFields
<1> QED BY Zenon, <1>1, <1>3, <1>4, <1>5 DEF IInv

\* A continuation does not rebuild the index.
LEMMA RefreshedKeeps ==
  ASSUME NEW d, IsDb(d), NEW list, NEW o
  PROVE  IsDb(Refreshed(d, list, o)) /\ (o # 0 => Refreshed(d, list, o) = d)
<1>1. IsDb(string_index(d, o)) /\ (o # 0 => string_index(d, o) = d)
  BY Zenon, IndexKeeps DEF string_index, should_rebuild
<1> QED BY Zenon, <1>1 DEF Refreshed

\* FirstPage: the client has nothing, and the listing is the one it starts on.
LEMMA FirstPageStep == IInv /\ FirstPage => IInv'
<1> SUFFICES ASSUME IInv, FirstPage PROVE IInv'
  BY Zenon
<1>1. PICK q \in Queries : Serve(q, 0, <<>>, FALSE)
  BY Zenon DEF FirstPage
<1> DEFINE d == Refreshed(db, q.list, 0)
<1>2. /\ db' = d /\ last' = Nothing
      /\ walk' = [query |-> q, got |-> <<>> \o Page(d, q, 0).items,
                  next |-> Page(d, q, 0).next, more |-> Page(d, q, 0).more,
                  drift |-> FALSE, base |-> Ordered(d, q)]
  BY Zenon, <1>1 DEF Serve
<1>3. IsDb(d)
  BY Zenon, RefreshedKeeps DEF IInv
<1> HIDE DEF d
<1>4. /\ 0 <= Len(Ordered(d, q)) /\ <<>> = FirstOf(Ordered(d, q), 0)
      /\ 0 <= Ceiling
  <2>1. Ordered(d, q) \in Seq(Range(Ordered(d, q)))
    BY Zenon, <1>3, OrderedSequence DEF IsSequence
  <2>2. Ceiling \in Nat
    BY Zenon, HandlersAssumption
  <2> QED BY SMTT(30), <2>1, <2>2 DEF FirstOf, Least
<1>5. walk' # Nothing /\ Reading(walk', d)
  <2> DEFINE base == Ordered(d, q)
  <2>1. /\ base = Ordered(d, q) /\ 0 \in Nat /\ 0 <= Len(base)
        /\ q.list = "search" => 0 <= Ceiling
        /\ <<>> = FirstOf(base, 0) /\ FALSE \in BOOLEAN
    BY Zenon, <1>4
  <2> QED BY Zenon, <1>2, <1>3, <2>1, ServeWalks
<1> QED BY Zenon, <1>2, <1>3, <1>5 DEF IInv

\* NextPage: the offset is the one the page before announced.
LEMMA NextPageStep == IInv /\ NextPage => IInv'
<1> SUFFICES ASSUME IInv, NextPage PROVE IInv'
  BY Zenon
<1>1. PICK o \in walk.next : Serve(walk.query, o, walk.got, walk.drift)
  BY Zenon DEF NextPage
<1> DEFINE q == walk.query
           d == Refreshed(db, q.list, o)
           base == IF o = 0 THEN Ordered(d, q) ELSE walk.base
<1>2. /\ db' = d /\ last' = Nothing
      /\ walk' = [query |-> q, got |-> walk.got \o Page(d, q, o).items,
                  next |-> Page(d, q, o).next, more |-> Page(d, q, o).more,
                  drift |-> walk.drift, base |-> base]
  BY Zenon, <1>1 DEF Serve
<1>3. IsDb(d) /\ (o # 0 => d = db)
  BY Zenon, RefreshedKeeps DEF IInv
<1>4. walk # Nothing /\ Reading(walk, db)
  BY Zenon DEF NextPage, IInv
<1>5. q \in Queries /\ walk.drift \in BOOLEAN
  BY Zenon, <1>4 DEF Reading
<1>6. ASSUME PageLimit(q) > 0, walk.drift = FALSE
      PROVE  /\ base = Ordered(d, q) /\ o \in Nat /\ o <= Len(base)
             /\ q.list = "search" => o <= Ceiling
             /\ walk.got = FirstOf(base, o)
  <2>1. walk.base = Ordered(db, q) /\ Tiles(q, walk.base, walk.got, walk.next, walk.more)
    BY Zenon, <1>4, <1>6 DEF Reading
  <2>2. /\ o \in Nat \ {0} /\ o <= Len(walk.base)
        /\ q.list = "search" => o <= Ceiling
        /\ walk.got = FirstOf(walk.base, o)
    <3>1. PICK n \in 1 .. Len(walk.base) :
            /\ walk.next = {n}
            /\ q.list = "search" => n <= Ceiling
            /\ walk.got = FirstOf(walk.base, n)
      BY Zenon, <1>1, <2>1 DEF Tiles
    <3>2. o = n
      BY Zenon, <1>1, <3>1
    <3>3. n \in Nat \ {0} /\ n <= Len(walk.base)
      <4>1. Len(walk.base) \in Nat
        BY SMTT(30), <1>4, <1>5, <2>1, OrderedSequence DEF IInv, IsSequence
      <4> QED BY <4>1
    <3> QED BY Zenon, <3>1, <3>2, <3>3
  <2>3. o \in Nat /\ o # 0
    BY Zenon, <2>2
  <2>4. d = db /\ base = walk.base
    BY Zenon, <1>3, <2>3
  <2> HIDE DEF d, base, q
  <2> QED BY Zenon, <2>1, <2>2, <2>3, <2>4
<1> HIDE DEF d, base, q
<1>7. walk' # Nothing /\ Reading(walk', d)
  BY Zenon, <1>2, <1>3, <1>5, <1>6, ServeWalks
<1> QED BY Zenon, <1>2, <1>3, <1>7 DEF IInv

\* OtherScan: the rebuilt index lists the same strings, or the walk drifts.
LEMMA OtherScanStep == IInv /\ OtherScan => IInv'
<1> SUFFICES ASSUME IInv, OtherScan PROVE IInv'
  BY Zenon
<1>1. /\ walk # Nothing /\ db' = string_index(db, 0)
      /\ walk' = Drifted(db') /\ last' = Nothing
  BY Zenon DEF OtherScan
<1>2. IsDb(db')
  BY Zenon, <1>1, IndexKeeps DEF IInv
<1>3. Reading(walk', db')
  BY Zenon, <1>1, DriftedWalks DEF IInv
<1> QED BY Zenon, <1>1, <1>2, <1>3 DEF IInv

\* Every step keeps the invariant; the scans change nothing it speaks of.
LEMMA NextIInv == IInv /\ [Next]_vars => IInv'
<1> SUFFICES ASSUME IInv, [Next]_vars PROVE IInv'
  BY Zenon
<1>1. ASSUME UNCHANGED <<db, last, walk>> PROVE IInv'
  BY Zenon, <1>1 DEF IInv
<1>2. CASE FindBytes \/ MakeSignature \/ FindInsns \/ FindPaths \/ Callgraph
  <2>1. UNCHANGED <<db, last, walk>>
    BY Zenon, <1>2 DEF FindBytes, MakeSignature, FindInsns, FindPaths, Callgraph, Answer
  <2> QED BY Zenon, <1>1, <2>1
<1>3. CASE UNCHANGED vars
  BY Zenon, <1>1, <1>3 DEF vars
<1> QED
  BY Zenon, <1>2, <1>3, EditStep, RetryStep, FirstPageStep, NextPageStep, OtherScanStep
     DEF Next

\* For every database, every set of edits and queries, every page size and
\* ceiling: a client that follows next_offset to the end has read every match once
\* and in order, unless another client changed the listing meanwhile (query.rs,
\* xrefs.rs, strings.rs, server/mod.rs).
THEOREM PagesCoverTheListing == Spec => []PagesTile
<1>1. IInv => PagesTile
  <2> SUFFICES ASSUME IInv, walk # Nothing, walk.next = {}, ~walk.drift,
                      PageLimit(walk.query) > 0
               PROVE  IF walk.query.list = "search"
                      THEN /\ walk.got = FirstOf(walk.base, Ceiling)
                           /\ walk.more = (Len(walk.base) >= Ceiling)
                      ELSE walk.got = walk.base
    BY Zenon DEF PagesTile
  <2>1. Tiles(walk.query, walk.base, walk.got, walk.next, walk.more)
    <3>1. walk.drift \in BOOLEAN
      BY Zenon DEF IInv, Reading
    <3>2. walk.drift = FALSE
      BY Zenon, <3>1
    <3> QED BY Zenon, <3>2 DEF IInv, Reading
  <2> QED BY Zenon, <2>1 DEF Tiles
<1> QED BY <1>1, InitIInv, NextIInv, PTL DEF Spec

=============================================================================
