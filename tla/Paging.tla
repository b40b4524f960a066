------------------------------- MODULE Paging -------------------------------
(***************************************************************************)
(* How the listings cut a page out of a sequence of matches.  Four         *)
(* mechanisms: a streaming walk or a full sort (query.rs and the listing   *)
(* handlers), a cursor that stops one item past the page (xrefs.rs), a     *)
(* scan for one match more than the page (the dsc_* searches), and a scan  *)
(* under a ceiling (search and find_bytes, server/mod.rs).                 *)
(*                                                                         *)
(* A page is [items, next, total, more]: next is a set with the offset of  *)
(* the following page, or empty when the answer has no next_offset; more   *)
(* is the answer's truncated or total_is_lower_bound flag.                 *)
(***************************************************************************)
EXTENDS Naturals, Sequences, FiniteSets, SequencesExt

Least(a, b) == IF a <= b THEN a ELSE b

Greatest(a, b) == IF a >= b THEN a ELSE b

\* vibrev_kit::page: an empty page has no successor, whatever the total
next_offset(offset, returned, total) ==
    {n \in {offset + returned} : returned > 0 /\ n < total}

\* vibrev_kit::page::bounds clamps a limit into 1 .. max
page_bounds(limit, max) == Least(Greatest(limit, 1), max)

-----------------------------------------------------------------------------
(* The walk of the counted listings *)

\* One match reaches the walk: counted, and kept if it falls in the page
StreamStep(offset, limit, acc, x) ==
    LET total == acc.total + 1
    IN  [total |-> total,
         items |-> IF total <= offset \/ Len(acc.items) >= limit
                   THEN acc.items ELSE Append(acc.items, x)]

StreamWalk(matches, offset, limit) ==
    LET after[i \in 0 .. Len(matches)] ==
          IF i = 0 THEN [total |-> 0, items |-> <<>>]
          ELSE StreamStep(offset, limit, after[i - 1], matches[i])
    IN  after[Len(matches)]

Streamed(matches, offset, limit) ==
    LET walk == StreamWalk(matches, offset, limit)
    IN  [items |-> walk.items, total |-> walk.total, more |-> FALSE,
         next |-> next_offset(offset, Len(walk.items), walk.total)]

\* A stable sort by the key of each match, reversed when descending
InOrder(matches, key, descending) ==
    LET before(i, j) == \/ key[i] < key[j]
                        \/ key[i] = key[j] /\ i < j
        at(k) == CHOOSE i \in DOMAIN matches :
                     Cardinality({j \in DOMAIN matches : before(j, i)}) = k - 1
        ascending == [k \in DOMAIN matches |-> matches[at(k)]]
    IN  IF descending THEN Reverse(ascending) ELSE ascending

\* The whole list is ordered first, then cut at start .. end
Sorted(matches, offset, limit, key, descending) ==
    LET all   == InOrder(matches, key, descending)
        start == Least(offset, Len(all))
        items == SubSeq(all, start + 1, Least(start + limit, Len(all)))
    IN  [items |-> items, total |-> Len(all), more |-> FALSE,
         next |-> next_offset(offset, Len(items), Len(all))]

-----------------------------------------------------------------------------
(* The cursor of the reference listings *)

\* PageCursor::admit: Skip before the page, Take in it, Stop past it
Admit(offset, limit, c, x) ==
    IF c.walk = "stopped" THEN c
    ELSE IF c.kept < offset
    THEN [kept |-> c.kept + 1, taken |-> c.taken, walk |-> "on"]
    ELSE IF Len(c.taken) = limit
    THEN [kept |-> c.kept, taken |-> c.taken, walk |-> "stopped"]
    ELSE [kept |-> c.kept + 1, taken |-> Append(c.taken, x), walk |-> "on"]

\* The walk of collect_query over the references that passed its filter
CursorWalk(matches, offset, limit) ==
    LET after[i \in 0 .. Len(matches)] ==
          IF i = 0 THEN [kept |-> 0, taken |-> <<>>, walk |-> "on"]
          ELSE Admit(offset, limit, after[i - 1], matches[i])
    IN  after[Len(matches)]

Cursor(matches, offset, limit) ==
    LET c == CursorWalk(matches, offset, limit)
        stopped  == c.walk = "stopped"
        at_least == offset + Len(c.taken) + (IF stopped THEN 1 ELSE 0)
    IN  [items |-> c.taken, total |-> at_least, more |-> stopped,
         next |-> next_offset(offset, Len(c.taken), at_least)]

-----------------------------------------------------------------------------
(* The searches of a shared cache *)

\* dsc_scan_count: one match past the page
dsc_scan_count(offset, limit) == offset + limit + 1

\* IDA stops collecting at count matches
FirstOf(matches, count) == SubSeq(matches, 1, Least(count, Len(matches)))

dsc_paginate(matches, offset, limit) ==
    LET page == SubSeq(matches, offset + 1, Len(matches))
        more == Len(page) > limit
    IN  [items |-> FirstOf(page, limit), total |-> Len(matches), more |-> more,
         next |-> {n \in {offset + limit} : more}]

-----------------------------------------------------------------------------
(* The scans under a ceiling *)

\* bounded_scan_ceiling: one past the page, but never past the hard ceiling;
\* the supervisor may ask a child for an exact number instead
bounded_scan_ceiling(offset, limit, exact, ceiling) ==
    IF exact # {} THEN CHOOSE n \in exact : TRUE
    ELSE Least(offset + limit + 1, ceiling)

paginate_bounded_matches(found, offset, limit, ceiling) ==
    LET page     == FirstOf(SubSeq(found, offset + 1, Len(found)), limit)
        consumed == offset + Len(page)
    IN  [items |-> page, total |-> Len(found), more |-> Len(found) >= ceiling,
         next |-> {n \in {consumed} : Len(found) > n}]

=============================================================================
