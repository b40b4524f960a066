-------------------------------- MODULE Scans -------------------------------
(***************************************************************************)
(* The analyses that walk an image or a graph: the byte scans of           *)
(* handlers/search.rs and handlers/signature.rs, the instruction scans of  *)
(* ida/scan.rs, and the path and call-graph searches of                    *)
(* handlers/controlflow.rs.                                                *)
(*                                                                         *)
(* An image is [bytes, segs]: the bytes from address 0 on, and the         *)
(* segments <<start, end>> in address order.  IDA's decoder is external:   *)
(* an even byte is an instruction of its own and an odd byte takes the     *)
(* byte after it as its operand.  A pattern is a sequence of bytes with    *)
(* Wild for a wildcard.                                                    *)
(***************************************************************************)
EXTENDS Integers, Sequences, FiniteSets, Paging

CONSTANTS Chunk   \* the bytes of a segment a scan reads at a time

ASSUME ChunkAssumption == Chunk \in Nat \ {0}

Wild == -1

\* A request without an end
NoEnd == -1

Matches(bytes, at, pat) ==
    \A j \in DOMAIN pat : pat[j] = Wild \/ bytes[at + j - 1] = pat[j]

SegmentAt(img, a) ==
    {i \in DOMAIN img.segs : img.segs[i][1] <= a /\ a < img.segs[i][2]}

-----------------------------------------------------------------------------
(* Byte patterns *)

\* Mutant: reads do not overlap
read_len_flush(remaining, pat_len) == Least(remaining, Chunk)

\* The bytes of one read: a chunk and the overlap a pattern needs, or the rest
read_len(remaining, pat_len) == Least(remaining, Chunk + pat_len - 1)

\* The matches of one segment, chunk after chunk
SegmentMatches(bytes, seg, pat) ==
    LET len    == seg[2] - seg[1]
        offset == [k \in 1 .. (len + Chunk - 1) \div Chunk |-> (k - 1) * Chunk]
        windows(o) == read_len(len - o, Len(pat)) - Len(pat) + 1
        starts(o) == [i \in 1 .. Greatest(windows(o), 0) |-> seg[1] + o + i - 1]
    IN  FlattenSeq([k \in DOMAIN offset |->
            SelectSeq(starts(offset[k]), LAMBDA a : Matches(bytes, a, pat))])

handle_find_bytes(img, pat, max_results) ==
    FirstOf(FlattenSeq([i \in DOMAIN img.segs |->
                           SegmentMatches(img.bytes, img.segs[i], pat)]),
            max_results)

\* Mutant: the scan stops at the first match
StopAtFirst == 1

\* Two matches are enough to know that a pattern is not unique
UNIQUENESS_STOP == 2

count_matches(img, pat) == Len(handle_find_bytes(img, pat, UNIQUENESS_STOP))

-----------------------------------------------------------------------------
(* Instructions *)

\* The length of the instruction at a; 0 where nothing decodes
insn_len(img, a) ==
    IF a \notin DOMAIN img.bytes THEN 0
    ELSE IF img.bytes[a] % 2 = 0 THEN 1
    ELSE IF a + 1 \in DOMAIN img.bytes THEN 2 ELSE 0

append_instruction(img, sig, a, len, wildcard_operands) ==
    sig \o [i \in 1 .. len |->
               IF i > 1 /\ wildcard_operands THEN Wild ELSE img.bytes[a + i - 1]]

trim_trailing_wildcards(sig) ==
    LET exact == {i \in DOMAIN sig : sig[i] # Wild}
    IN  IF exact = {} THEN <<>>
        ELSE SubSeq(sig, 1, CHOOSE i \in exact : \A j \in exact : j <= i)

IsUnique(img, sig) == sig # <<>> /\ count_matches(img, sig) = 1

\* One instruction more, until the range is covered, the pattern is unique,
\* nothing decodes or the pattern is max_length long
Grown(img, r) ==
    LET grow[sig \in Seq(Int), cursor \in Nat] ==
          LET len    == insn_len(img, cursor)
              longer == append_instruction(img, sig, cursor, len, r.wildcard)
              next   == cursor + len
              short  == trim_trailing_wildcards(longer)
          IN  IF len = 0 THEN [sig |-> sig, unique |-> FALSE]
              ELSE IF r.end = NoEnd /\ IsUnique(img, short)
              THEN [sig |-> short, unique |-> TRUE]
              ELSE IF (r.end # NoEnd /\ next >= r.end) \/ Len(longer) >= r.max_length
              THEN [sig |-> longer, unique |-> FALSE]
              ELSE grow[longer, next]
    IN  grow[<<>>, r.address]

\* A request is [address, end, wildcard, max_length]; {} is an error
handle_make_signature(img, r) ==
    LET grown  == Grown(img, r)
        sig    == IF grown.unique THEN grown.sig
                  ELSE trim_trailing_wildcards(grown.sig)
        unique == grown.unique \/ IsUnique(img, sig)
    IN  IF \/ r.max_length = 0 \/ (r.end # NoEnd /\ r.end <= r.address)
           \/ SegmentAt(img, r.address) = {} \/ sig = <<>>
        THEN {}
        ELSE {[sig |-> sig, unique |-> unique,
               truncated |-> ~unique /\ r.end = NoEnd /\ Len(sig) >= r.max_length]}

\* InsnHeads: the heads of one range, each a step from the one before
HeadsFrom(img, start, end) ==
    LET from[a \in Nat] ==
          IF a >= end \/ insn_len(img, a) = 0 THEN <<>>
          ELSE <<a>> \o from[a + insn_len(img, a)]
    IN  from[start]

heads(img, ranges) ==
    FlattenSeq([i \in DOMAIN ranges |-> HeadsFrom(img, ranges[i][1], ranges[i][2])])

\* match_sequence: the patterns match consecutive instructions of one range
match_sequence(img, patterns, start, range_end) ==
    LET from[i \in Nat, a \in Nat] ==
          \/ i > Len(patterns)
          \/ /\ a < range_end /\ insn_len(img, a) > 0
             /\ img.bytes[a] = patterns[i]
             /\ from[i + 1, a + insn_len(img, a)]
    IN  from[1, start]

\* range_end_for: the end of the range that holds a
range_end_for(ranges, a) ==
    LET i == CHOOSE i \in DOMAIN ranges : ranges[i][1] <= a /\ a < ranges[i][2]
    IN  ranges[i][2]

\* The walk pulls heads while the budget lasts and stops at the first one it
\* pulls with max_results matches in hand
handle_find_insns(img, ranges, patterns, max_results, max_scan) ==
    LET all   == heads(img, ranges)
        seen  == FirstOf(all, max_scan)
        hit(a) == match_sequence(img, patterns, a, range_end_for(ranges, a))
        found == SelectSeq(seen, hit)
        full  == \E i \in DOMAIN seen :
                     Len(SelectSeq(SubSeq(seen, 1, i - 1), hit)) >= max_results
    IN  [items |-> FirstOf(found, max_results), truncated |-> full,
         scan_truncated |-> ~full /\ Len(all) >= max_scan]

-----------------------------------------------------------------------------
(* Graphs: succs[b] is the sequence of the successors of block b *)

\* dfs: the results so far, extended by the paths that go on from cur
dfs(succs, start, end, max_depth, max_paths) ==
    LET go[cur \in Nat, path \in Seq(Nat), results \in Seq(Seq(Nat))] ==
          LET here == Append(path, cur)
              Try(acc, b) == IF b \in Range(here) THEN acc ELSE go[b, here, acc]
          IN  IF Len(results) >= max_paths \/ Len(path) > max_depth THEN results
              ELSE IF cur = end THEN Append(results, here)
              ELSE FoldLeft(Try, results, succs[cur])
    IN  go[start, <<>>, <<>>]

\* Mutant: a depth of 0 is taken as it is
handle_find_paths_unclamped(succs, start, end, max_paths, max_depth) ==
    dfs(succs, start, end, max_depth, Greatest(max_paths, 1))

handle_find_paths(succs, start, end, max_paths, max_depth) ==
    dfs(succs, start, end, Greatest(max_depth, 1), Greatest(max_paths, 1))

\* Breadth first: q is the queue of <<function, depth>>
callgraph(calls, root, max_depth, max_nodes) ==
    LET Graph == [nodes : SUBSET Nat, edges : SUBSET (Nat \X Nat)]
        go[q \in Seq(Nat \X Nat), g \in Graph] ==
          LET cur   == q[1][1]
              depth == q[1][2]
              Add(acc, f) ==
                  LET new == f \notin acc.nodes /\ Cardinality(acc.nodes) < max_nodes
                  IN  [nodes |-> IF new THEN acc.nodes \cup {f} ELSE acc.nodes,
                       edges |-> acc.edges \cup {<<cur, f>>},
                       queue |-> IF new THEN Append(acc.queue, <<f, depth + 1>>)
                                 ELSE acc.queue]
              done == FoldLeft(Add, [nodes |-> g.nodes, edges |-> g.edges,
                                     queue |-> Tail(q)], calls[cur])
          IN  IF q = <<>> THEN g
              ELSE IF depth >= max_depth THEN go[Tail(q), g]
              ELSE IF Cardinality(g.nodes) >= max_nodes THEN g
              ELSE go[done.queue, [nodes |-> done.nodes, edges |-> done.edges]]
    IN  go[<<<<root, 0>>>>, [nodes |-> {root}, edges |-> {}]]

handle_callgraph(calls, root, max_depth, max_nodes) ==
    callgraph(calls, root, Greatest(max_depth, 1), Greatest(max_nodes, 1))

=============================================================================
