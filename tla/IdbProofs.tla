----------------------------- MODULE IdbProofs -----------------------------
(***************************************************************************)
(* What each of the paging mechanisms of Paging returns, for any listing,  *)
(* offset and limit, and that every edit handler of Idb leaves a database, *)
(* whether it succeeds or fails half way.                                  *)
(***************************************************************************)
EXTENDS Paging, Idb, WellFoundedInduction, FiniteSetTheorems, TLAPS

-----------------------------------------------------------------------------
(* What a page contains, for each of the mechanisms of Paging *)

\* A set of numbers that is not empty has a least one: what the inductions over
\* the positions of a listing rest on.
LEMMA LeastOne ==
  ASSUME NEW T, T \subseteq Nat, T # {}
  PROVE  \E n \in T : \A m \in T : n <= m
<1>1. PICK n \in T : \A m \in T : ~ (<<m, n>> \in OpToRel(<, Nat))
  BY Zenon, NatLessThanWellFounded, WFMin
<1>2. \A m \in T : ~ (m < n)
  BY Zenon, <1>1 DEF OpToRel
<1> QED BY <1>2

\* Of the first i matches, those that fall in the page of l at offset o.
Part(m, o, l, i) ==
    [j \in 1 .. (IF i <= o THEN 0 ELSE Least(i - o, l)) |-> m[o + j]]

\* One match more adds itself to the page, or nothing: the step of StreamStep and
\* of PageCursor::admit.
LEMMA PartStep ==
  ASSUME NEW S, NEW m \in Seq(S), NEW o \in Nat, NEW l \in Nat, NEW i \in 1 .. Len(m)
  PROVE  /\ Part(m, o, l, i - 1) \in Seq(S)
         /\ Len(Part(m, o, l, i - 1)) = IF i <= o THEN 0 ELSE Least(i - 1 - o, l)
         /\ Part(m, o, l, i) = IF i <= o \/ Len(Part(m, o, l, i - 1)) >= l
                               THEN Part(m, o, l, i - 1)
                               ELSE Append(Part(m, o, l, i - 1), m[i])
<1> DEFINE n(x) == IF x <= o THEN 0 ELSE Least(x - o, l)
           p(x) == [j \in 1 .. n(x) |-> m[o + j]]
<1>1. n(i) \in Nat /\ n(i - 1) \in Nat
  BY DEF Least
<1>2. p(i - 1) \in Seq(S) /\ Len(p(i - 1)) = n(i - 1)
  BY DEF Least
<1>3. n(i - 1) = IF i <= o THEN 0 ELSE Least(i - 1 - o, l)
  BY DEF Least
<1>4. Part(m, o, l, i - 1) = p(i - 1) /\ Part(m, o, l, i) = p(i)
  BY Zenon DEF Part
<1>5. CASE i <= o \/ n(i - 1) >= l
  <2>1. n(i) = n(i - 1)
    BY <1>5 DEF Least
  <2>2. p(i) = p(i - 1)
    BY Zenon, <2>1
  <2> HIDE DEF n, p
  <2> QED BY Zenon, <2>2, <1>2, <1>3, <1>4, <1>5
<1>6. CASE ~(i <= o \/ n(i - 1) >= l)
  <2>1. n(i) = n(i - 1) + 1 /\ o + n(i) = i
    BY <1>6 DEF Least
  <2>2. p(i) = Append(p(i - 1), m[i])
    <3> HIDE DEF n
    <3>1. /\ DOMAIN p(i) = 1 .. (n(i - 1) + 1)
          /\ DOMAIN Append(p(i - 1), m[i]) = 1 .. (n(i - 1) + 1)
      BY <2>1, <1>1, <1>2
    <3> QED BY <3>1, <2>1, <1>1, <1>2
  <2> QED BY Zenon, <2>2, <1>2, <1>3, <1>4, <1>6
<1> QED BY Zenon, <1>5, <1>6

\* The counted walk counts every match and keeps exactly the page.  By induction
\* over the matches: the page of each prefix satisfies the recursion, and two
\* functions that satisfy it agree.
LEMMA StreamedPart ==
  ASSUME NEW S, NEW m \in Seq(S), NEW o \in Nat, NEW l \in Nat
  PROVE StreamWalk(m, o, l) = [total |-> Len(m), items |-> Part(m, o, l, Len(m))]
<1> DEFINE Start == [total |-> 0, items |-> <<>>]
           Walks(f) == f = [i \in 0 .. Len(m) |-> IF i = 0 THEN Start
                           ELSE StreamStep(o, l, f[i - 1], m[i])]
           w == CHOOSE f : Walks(f)
           At(i) == [total |-> i, items |-> Part(m, o, l, i)]
           g == [i \in 0 .. Len(m) |-> At(i)]
<1>1. StreamWalk(m, o, l) = w[Len(m)]
  BY Zenon DEF StreamWalk
<1>2. At(0) = Start
  BY DEF Part
<1>3. ASSUME NEW i \in 1 .. Len(m)
      PROVE  At(i) = StreamStep(o, l, At(i - 1), m[i])
  <2>1. Part(m, o, l, i) = IF i <= o \/ Len(Part(m, o, l, i - 1)) >= l
                           THEN Part(m, o, l, i - 1)
                           ELSE Append(Part(m, o, l, i - 1), m[i])
    BY Zenon, PartStep
  <2> HIDE DEF Part
  <2> QED BY <2>1 DEF StreamStep
<1> HIDE DEF At, Start
<1>4. Walks(g)
  BY <1>2, <1>3
<1>5. Walks(w)
  BY Zenon, <1>4
<1>6. ASSUME NEW i \in 0 .. Len(m) PROVE w[i] = At(i)
  <2> DEFINE T == {k \in 0 .. Len(m) : w[k] # At(k)}
  <2>1. SUFFICES ASSUME T # {} PROVE FALSE
    BY Zenon
  <2>0. T \subseteq Nat
    OBVIOUS
  <2> HIDE DEF T
  <2>2. PICK n \in T : \A k \in T : n <= k
    BY Zenon, <2>0, <2>1, LeastOne
  <2>n. n \in 0 .. Len(m) /\ w[n] # At(n)
    BY Zenon DEF T
  <2> HIDE DEF w
  <2>3. CASE n = 0
    BY Zenon, <1>5, <1>2, <2>3, <2>n
  <2>4. CASE n # 0
    <3>1. n \in 1 .. Len(m) /\ n - 1 \in 0 .. Len(m) /\ n - 1 \notin T
      BY <2>2, <2>4, <2>n
    <3>2. w[n - 1] = At(n - 1)
      BY Zenon, <3>1 DEF T
    <3>3. w[n] = StreamStep(o, l, w[n - 1], m[n])
      <4> DEFINE h == [j \in 0 .. Len(m) |-> IF j = 0 THEN Start ELSE StreamStep(o, l, w[j - 1], m[j])]
      <4>1. h[n] = StreamStep(o, l, w[n - 1], m[n])
        BY Zenon, <2>n, <2>4
      <4>2. w = h
        BY Zenon, <1>5
      <4> QED BY Zenon, <4>1, <4>2
    <3> QED BY Zenon, <3>1, <3>2, <3>3, <1>3, <2>n
  <2> QED BY Zenon, <2>3, <2>4
<1>7. Len(m) \in 0 .. Len(m)
  OBVIOUS
<1>8. w[Len(m)] = At(Len(m))
  BY Zenon, <1>6, <1>7
<1> HIDE DEF w
<1> QED BY Zenon, <1>1, <1>8 DEF At

\* The cursor keeps exactly the page, and has stopped exactly when there is a
\* match past it.
LEMMA CursorPart ==
  ASSUME NEW S, NEW m \in Seq(S), NEW o \in Nat, NEW l \in Nat
  PROVE  CursorWalk(m, o, l) = [kept |-> Least(Len(m), o + l), taken |-> Part(m, o, l, Len(m)),
                                walk |-> IF Len(m) > o + l THEN "stopped" ELSE "on"]
<1> DEFINE Start == [kept |-> 0, taken |-> <<>>, walk |-> "on"]
           Walks(f) == f = [i \in 0 .. Len(m) |-> IF i = 0 THEN Start
                              ELSE Admit(o, l, f[i - 1], m[i])]
           w == CHOOSE f : Walks(f)
           At(i) == [kept |-> Least(i, o + l), taken |-> Part(m, o, l, i), walk |-> IF i > o + l THEN "stopped" ELSE "on"]
           g == [i \in 0 .. Len(m) |-> At(i)]
<1>1. CursorWalk(m, o, l) = w[Len(m)]
  BY Zenon DEF CursorWalk
<1>2. At(0) = Start
  <2>1. Part(m, o, l, 0) = <<>>
    BY DEF Part
  <2> QED BY <2>1 DEF Least
<1>3. ASSUME NEW i \in 1 .. Len(m)
      PROVE  At(i) = Admit(o, l, At(i - 1), m[i])
  <2> DEFINE c == At(i - 1)
  <2>1. c.kept = Least(i - 1, o + l) /\ c.taken = Part(m, o, l, i - 1) /\ c.walk = (IF i - 1 > o + l THEN "stopped" ELSE "on")
    BY Zenon
  <2> SUFFICES At(i) = Admit(o, l, c, m[i])
    BY Zenon
  <2> HIDE DEF c
  <2>2. /\ Len(c.taken) = IF i <= o THEN 0 ELSE Least(i - 1 - o, l)
        /\ Part(m, o, l, i) = IF i <= o \/ Len(c.taken) >= l THEN c.taken
                              ELSE Append(c.taken, m[i])
    <3>1. /\ Part(m, o, l, i - 1) \in Seq(S)
          /\ Len(Part(m, o, l, i - 1)) = IF i <= o THEN 0 ELSE Least(i - 1 - o, l)
          /\ Part(m, o, l, i) = IF i <= o \/ Len(Part(m, o, l, i - 1)) >= l
                                THEN Part(m, o, l, i - 1)
                                ELSE Append(Part(m, o, l, i - 1), m[i])
      BY Zenon, PartStep
    <3> QED BY Zenon, <3>1, <2>1
  <2>3. CASE i - 1 > o + l
    <3>1. Part(m, o, l, i) = Part(m, o, l, i - 1)
      BY <2>1, <2>2, <2>3 DEF Least
    <3>2. c = At(i)
      BY <3>1, <2>3 DEF Least, c
    <3> QED BY Zenon, <3>2, <2>1, <2>3 DEF Admit
  <2>4. CASE i <= o
    <3>1. c.kept < o /\ c.walk = "on" /\ c.kept + 1 = Least(i, o + l)
      BY <2>1, <2>4 DEF Least
    <3>2. Part(m, o, l, i) = c.taken
      BY Zenon, <2>2, <2>4
    <3> QED BY <3>1, <3>2, <2>4 DEF Admit
  <2>5. CASE i - 1 = o + l
    <3>1. ~(c.kept < o) /\ c.walk = "on" /\ c.kept = Least(i, o + l) /\ Len(c.taken) = l
      BY <2>1, <2>2, <2>5 DEF Least
    <3>2. Part(m, o, l, i) = c.taken
      BY <2>2, <3>1
    <3> QED BY <3>1, <3>2, <2>5 DEF Admit
  <2>6. CASE o < i /\ i - 1 < o + l
    <3>1. /\ ~(c.kept < o) /\ c.walk = "on" /\ c.kept + 1 = Least(i, o + l)
          /\ Len(c.taken) < l /\ Len(c.taken) \in Nat
      BY <2>1, <2>2, <2>6 DEF Least
    <3>2. Part(m, o, l, i) = Append(c.taken, m[i])
      BY <2>2, <2>6, <3>1
    <3>3. Admit(o, l, c, m[i])
            = [kept |-> c.kept + 1, taken |-> Append(c.taken, m[i]), walk |-> "on"]
      BY <3>1 DEF Admit
    <3>4. ~(i > o + l)
      BY <2>6
    <3> QED BY Zenon, <3>1, <3>2, <3>3, <3>4
  <2> QED BY <2>3, <2>4, <2>5, <2>6
<1> HIDE DEF At, Start
<1>4. Walks(g)
  BY <1>2, <1>3
<1>5. Walks(w)
  BY Zenon, <1>4
<1>6. ASSUME NEW i \in 0 .. Len(m) PROVE w[i] = At(i)
  <2> DEFINE T == {k \in 0 .. Len(m) : w[k] # At(k)}
  <2>1. SUFFICES ASSUME T # {} PROVE FALSE
    BY Zenon
  <2>2. T \subseteq Nat
    OBVIOUS
  <2> HIDE DEF T
  <2>3. PICK n \in T : \A k \in T : n <= k
    BY Zenon, <2>1, <2>2, LeastOne
  <2>4. n \in 0 .. Len(m) /\ w[n] # At(n)
    BY Zenon DEF T
  <2> HIDE DEF w
  <2>5. CASE n = 0
    BY Zenon, <1>5, <1>2, <2>4, <2>5
  <2>6. CASE n # 0
    <3>1. n \in 1 .. Len(m) /\ n - 1 \in 0 .. Len(m) /\ n - 1 \notin T
      BY <2>3, <2>4, <2>6
    <3>2. w[n - 1] = At(n - 1)
      BY Zenon, <3>1 DEF T
    <3>3. w[n] = Admit(o, l, w[n - 1], m[n])
      <4> DEFINE h == [j \in 0 .. Len(m) |-> IF j = 0 THEN Start ELSE Admit(o, l, w[j - 1], m[j])]
      <4>1. h[n] = Admit(o, l, w[n - 1], m[n])
        BY Zenon, <2>4, <2>6
      <4>2. w = h
        BY Zenon, <1>5
      <4> QED BY Zenon, <4>1, <4>2
    <3> QED BY Zenon, <3>1, <3>2, <3>3, <1>3, <2>4
  <2> QED BY Zenon, <2>5, <2>6
<1>7. w[Len(m)] = At(Len(m))
  BY <1>6
<1> HIDE DEF w
<1> QED BY Zenon, <1>1, <1>7 DEF At

\* What a scan that stops at n matches returns.
LEMMA FirstOfType ==
  ASSUME NEW S, NEW m \in Seq(S), NEW n \in Nat
  PROVE  /\ FirstOf(m, n) \in Seq(S)
         /\ Len(FirstOf(m, n)) = Least(n, Len(m))
         /\ \A j \in 1 .. Least(n, Len(m)) : FirstOf(m, n)[j] = m[j]
BY DEF FirstOf, Least

\* Two sequences with the same elements are the same.
LEMMA SameSequence ==
  ASSUME NEW S, NEW s \in Seq(S), NEW t \in Seq(S), Len(s) = Len(t),
         \A j \in 1 .. Len(s) : s[j] = t[j]
  PROVE  s = t
OBVIOUS

\* Stopping twice is stopping at the smaller count.
LEMMA FirstOfFirstOf ==
  ASSUME NEW S, NEW m \in Seq(S), NEW n \in Nat, NEW k \in Nat
  PROVE  FirstOf(FirstOf(m, n), k) = FirstOf(m, Least(k, n))
<1>1. /\ FirstOf(m, n) \in Seq(S) /\ Len(FirstOf(m, n)) = Least(n, Len(m))
      /\ \A j \in 1 .. Least(n, Len(m)) : FirstOf(m, n)[j] = m[j]
  BY Zenon, FirstOfType
<1> DEFINE f == FirstOf(m, n)
<1>2. /\ FirstOf(f, k) \in Seq(S) /\ Len(FirstOf(f, k)) = Least(k, Len(f))
      /\ \A j \in 1 .. Least(k, Len(f)) : FirstOf(f, k)[j] = f[j]
  BY Zenon, <1>1, FirstOfType
<1>3. Least(k, n) \in Nat
  BY Zenon DEF Least
<1>4. /\ FirstOf(m, Least(k, n)) \in Seq(S)
      /\ Len(FirstOf(m, Least(k, n))) = Least(Least(k, n), Len(m))
      /\ \A j \in 1 .. Least(Least(k, n), Len(m)) : FirstOf(m, Least(k, n))[j] = m[j]
  BY Zenon, <1>3, FirstOfType
<1> HIDE DEF f
<1>5. Least(k, Len(f)) = Least(Least(k, n), Len(m))
  BY <1>1 DEF Least, f
<1>6. \A j \in 1 .. Least(k, Len(f)) : FirstOf(f, k)[j] = FirstOf(m, Least(k, n))[j]
  BY <1>1, <1>2, <1>4, <1>5 DEF Least, f
<1> QED BY Zenon, <1>2, <1>4, <1>5, <1>6, SameSequence DEF f

\* A scan that does not reach its count has it all.
LEMMA WholeFirstOf ==
  ASSUME NEW S, NEW m \in Seq(S), NEW n \in Nat, n >= Len(m)
  PROVE  FirstOf(m, n) = m
BY DEF FirstOf, Least

\* The page at o continues the first o matches.
LEMMA PartGlues ==
  ASSUME NEW S, NEW m \in Seq(S), NEW o \in Nat, NEW l \in Nat, o <= Len(m)
  PROVE  /\ Part(m, o, l, Len(m)) \in Seq(S)
         /\ Len(Part(m, o, l, Len(m))) = Least(Len(m) - o, l)
         /\ FirstOf(m, o) \o Part(m, o, l, Len(m)) = FirstOf(m, o + l)
<1> DEFINE p == Part(m, o, l, Len(m))
           n == Least(Len(m) - o, l)
<1>1. n \in Nat /\ o + n = Least(o + l, Len(m)) /\ o + n <= Len(m)
  BY DEF Least
<1>2. p = [j \in 1 .. n |-> m[o + j]]
  BY DEF Part, Least
<1> HIDE DEF n, p
<1>3. p \in Seq(S) /\ Len(p) = n
  BY <1>1, <1>2
<1>4. /\ FirstOf(m, o) \in Seq(S) /\ Len(FirstOf(m, o)) = o
      /\ \A j \in 1 .. o : FirstOf(m, o)[j] = m[j]
  BY Zenon, FirstOfType DEF Least
<1>5. /\ FirstOf(m, o + l) \in Seq(S) /\ Len(FirstOf(m, o + l)) = o + n
      /\ \A j \in 1 .. o + n : FirstOf(m, o + l)[j] = m[j]
  <2>1. o + l \in Nat
    OBVIOUS
  <2> QED BY Zenon, <2>1, <1>1, FirstOfType
<1> DEFINE f == FirstOf(m, o)
           g == FirstOf(m, o + l)
<1>6. f \o p = g
  <2> HIDE DEF f, g
  <2>1. f \o p \in Seq(S) /\ Len(f \o p) = o + n
    <3>1. f \in Seq(S) /\ Len(f) = o
      BY Zenon, <1>4 DEF f
    <3> QED BY <3>1, <1>1, <1>3
  <2>2. ASSUME NEW j \in 1 .. o + n PROVE (f \o p)[j] = m[j]
    <3>1. CASE j <= o
      BY <3>1, <1>1, <1>3, <1>4 DEF f
    <3>2. CASE o < j
      <4>1. (f \o p)[j] = p[j - o]
        <5>1. Len(f) = o /\ f \in Seq(S) /\ j \in 1 .. Len(f) + Len(p) /\ j > Len(f)
          BY Zenon, <3>2, <1>1, <1>3, <1>4 DEF f
        <5> QED BY <5>1, <1>3
      <4>2. j - o \in 1 .. n /\ o + (j - o) = j
        BY <3>2, <1>1
      <4> QED BY Zenon, <4>1, <4>2, <1>2
    <3>3. j <= o \/ o < j
      BY <1>1
    <3> QED BY Zenon, <3>1, <3>2, <3>3
  <2> QED BY Zenon, <2>1, <2>2, <1>5, SameSequence DEF g
<1> QED BY Zenon, <1>3, <1>6 DEF p, n

\* The page at offset o of the listing all takes the client's first o matches
\* to the first o + l, and announces another page when there are more.
Extends(page, all, o, l) ==
    /\ FirstOf(all, o) \o page.items = FirstOf(all, o + l)
    /\ page.next = IF Len(all) > o + l THEN {o + l} ELSE {}

\* next_offset of the page at o: there is a next page exactly when there are more
\* matches, and it starts where this one ends.
LEMMA NextOffset ==
  ASSUME NEW o \in Nat, NEW l \in Nat \ {0}, NEW n \in Nat, o <= n
  PROVE  next_offset(o, Least(n - o, l), n) = IF n > o + l THEN {o + l} ELSE {}
BY DEF next_offset, Least

\* The counted walk extends what the client has.
LEMMA StreamedExtends ==
  ASSUME NEW S, NEW m \in Seq(S), NEW o \in Nat, NEW l \in Nat \ {0}, o <= Len(m)
  PROVE  Extends(Streamed(m, o, l), m, o, l)
<1> DEFINE p == Part(m, o, l, Len(m))
<1>1. Streamed(m, o, l) = [items |-> p, total |-> Len(m), more |-> FALSE,
                           next |-> next_offset(o, Len(p), Len(m))]
  <2>1. StreamWalk(m, o, l) = [total |-> Len(m), items |-> p]
    BY Zenon, StreamedPart
  <2> HIDE DEF p
  <2> QED BY <2>1 DEF Streamed
<1>2. Len(p) = Least(Len(m) - o, l) /\ FirstOf(m, o) \o p = FirstOf(m, o + l)
  BY Zenon, PartGlues
<1>3. next_offset(o, Len(p), Len(m)) = IF Len(m) > o + l THEN {o + l} ELSE {}
  <2>1. Len(m) \in Nat
    OBVIOUS
  <2> QED BY Zenon, <2>1, <1>2, NextOffset
<1> HIDE DEF p
<1> QED BY <1>1, <1>2, <1>3 DEF Extends

\* So does the cursor of the reference listings,
LEMMA CursorExtends ==
  ASSUME NEW S, NEW m \in Seq(S), NEW o \in Nat, NEW l \in Nat \ {0}, o <= Len(m)
  PROVE  Extends(Cursor(m, o, l), m, o, l)
<1> DEFINE p == Part(m, o, l, Len(m))
           atleast == o + Len(p) + (IF Len(m) > o + l THEN 1 ELSE 0)
<1>1. /\ Cursor(m, o, l).items = p
      /\ Cursor(m, o, l).next = next_offset(o, Len(p), atleast)
  <2>1. CursorWalk(m, o, l) = [kept |-> Least(Len(m), o + l), taken |-> p,
                               walk |-> IF Len(m) > o + l THEN "stopped" ELSE "on"]
    BY Zenon, CursorPart
  <2> HIDE DEF p
  <2>2. /\ CursorWalk(m, o, l).taken = p
        /\ (CursorWalk(m, o, l).walk = "stopped") <=> (Len(m) > o + l)
    BY <2>1
  <2> QED BY Zenon, <2>2 DEF Cursor
<1>2. Len(p) = Least(Len(m) - o, l) /\ FirstOf(m, o) \o p = FirstOf(m, o + l)
  BY Zenon, PartGlues
<1> HIDE DEF p
<1>3. next_offset(o, Len(p), atleast) = IF Len(m) > o + l THEN {o + l} ELSE {}
  BY <1>2 DEF next_offset, Least
<1> HIDE DEF atleast
<1> QED BY Zenon, <1>1, <1>2, <1>3 DEF Extends

\* Cutting a list at the page gives the page.
LEMMA SubSeqIsPart ==
  ASSUME NEW S, NEW m \in Seq(S), NEW o \in Nat, NEW l \in Nat, o <= Len(m)
  PROVE  /\ SubSeq(m, o + 1, Least(o + l, Len(m))) = Part(m, o, l, Len(m))
         /\ FirstOf(SubSeq(m, o + 1, Len(m)), l) = Part(m, o, l, Len(m))
         /\ Len(SubSeq(m, o + 1, Len(m))) = Len(m) - o
<1> DEFINE p == Part(m, o, l, Len(m))
           n == Least(Len(m) - o, l)
           t == SubSeq(m, o + 1, Len(m))
<1>1. n \in Nat /\ o + n = Least(o + l, Len(m)) /\ o + n <= Len(m) /\ n = Least(l, Len(m) - o)
  BY DEF Least
<1>2. p = [j \in 1 .. n |-> m[o + j]]
  BY DEF Part, Least
<1> HIDE DEF n, p
<1>3. p \in Seq(S) /\ Len(p) = n
  BY <1>1, <1>2
<1>4. t \in Seq(S) /\ Len(t) = Len(m) - o /\ \A j \in 1 .. Len(m) - o : t[j] = m[o + j]
  OBVIOUS
<1>5. SubSeq(m, o + 1, o + n) = p
  BY <1>1, <1>2
<1> HIDE DEF t
<1>6. /\ FirstOf(t, l) \in Seq(S) /\ Len(FirstOf(t, l)) = n
      /\ \A j \in 1 .. n : FirstOf(t, l)[j] = t[j]
  <2>1. /\ FirstOf(t, l) \in Seq(S) /\ Len(FirstOf(t, l)) = Least(l, Len(t))
        /\ \A j \in 1 .. Least(l, Len(t)) : FirstOf(t, l)[j] = t[j]
    BY Zenon, <1>4, FirstOfType
  <2> QED BY Zenon, <2>1, <1>1, <1>4
<1>7. FirstOf(t, l) = p
  <2>1. ASSUME NEW j \in 1 .. n PROVE p[j] = FirstOf(t, l)[j]
    <3>1. p[j] = m[o + j]
      BY Zenon, <1>2
    <3>2. j \in 1 .. Len(m) - o
      BY <1>1
    <3> QED BY Zenon, <3>1, <3>2, <1>4, <1>6
  <2> QED BY Zenon, <2>1, <1>3, <1>6, SameSequence
<1> QED BY Zenon, <1>1, <1>4, <1>5, <1>7 DEF p, t

\* the cut of a sorted list, for the order the sort gave,
LEMMA SortedExtends ==
  ASSUME NEW S, NEW m, NEW key, NEW descending, NEW o \in Nat, NEW l \in Nat \ {0},
         InOrder(m, key, descending) \in Seq(S), o <= Len(InOrder(m, key, descending))
  PROVE  Extends(Sorted(m, o, l, key, descending), InOrder(m, key, descending), o, l)
<1> DEFINE all == InOrder(m, key, descending)
           p == Part(all, o, l, Len(all))
<1>0. all \in Seq(S) /\ o <= Len(all)
  BY Zenon
<1>1. Sorted(m, o, l, key, descending)
        = [items |-> SubSeq(all, Least(o, Len(all)) + 1, Least(Least(o, Len(all)) + l, Len(all))),
           total |-> Len(all), more |-> FALSE,
           next |-> next_offset(o, Len(SubSeq(all, Least(o, Len(all)) + 1,
                                       Least(Least(o, Len(all)) + l, Len(all)))), Len(all))]
  BY Zenon DEF Sorted
<1> HIDE DEF all
<1>2. Least(o, Len(all)) = o
  BY Zenon, <1>0 DEF Least
<1>3. SubSeq(all, o + 1, Least(o + l, Len(all))) = p
  BY Zenon, <1>0, SubSeqIsPart
<1>4. Len(p) = Least(Len(all) - o, l) /\ FirstOf(all, o) \o p = FirstOf(all, o + l)
  BY <1>0, PartGlues
<1>5. next_offset(o, Len(p), Len(all)) = IF Len(all) > o + l THEN {o + l} ELSE {}
  <2>1. Len(all) \in Nat
    BY <1>0
  <2> QED BY Zenon, <2>1, <1>0, <1>4, NextOffset
<1> HIDE DEF p
<1>6. /\ Sorted(m, o, l, key, descending).items = p
      /\ Sorted(m, o, l, key, descending).next = next_offset(o, Len(p), Len(all))
  <2>1. SubSeq(all, Least(o, Len(all)) + 1, Least(Least(o, Len(all)) + l, Len(all))) = p
    BY Zenon, <1>2, <1>3
  <2>2. Sorted(m, o, l, key, descending)
          = [items |-> p, total |-> Len(all), more |-> FALSE,
             next |-> next_offset(o, Len(p), Len(all))]
    BY Zenon, <2>1, <1>1
  <2> QED BY <2>2
<1>7. Extends(Sorted(m, o, l, key, descending), all, o, l)
  BY Zenon, <1>4, <1>5, <1>6 DEF Extends
<1> QED BY Zenon, <1>7 DEF all

\* and the scan for one match more than the page (dsc_paginate).
LEMMA SymbolsExtend ==
  ASSUME NEW S, NEW m \in Seq(S), NEW o \in Nat, NEW l \in Nat \ {0}, o <= Len(m)
  PROVE  Extends(dsc_paginate(FirstOf(m, dsc_scan_count(o, l)), o, l), m, o, l)
<1> DEFINE c == o + l + 1
           f == FirstOf(m, c)
           p == Part(f, o, l, Len(f))
<1>1. f \in Seq(S) /\ Len(f) = Least(c, Len(m)) /\ o <= Len(f)
  BY FirstOfType DEF Least
<1>2. FirstOf(f, o) = FirstOf(m, o) /\ FirstOf(f, o + l) = FirstOf(m, o + l)
  BY FirstOfFirstOf DEF Least
<1>3. f = FirstOf(m, dsc_scan_count(o, l))
  BY Zenon DEF dsc_scan_count
<1> HIDE DEF f
<1>4. FirstOf(SubSeq(f, o + 1, Len(f)), l) = p /\ Len(SubSeq(f, o + 1, Len(f))) = Len(f) - o
  BY Zenon, <1>1, SubSeqIsPart
<1>5. FirstOf(f, o) \o p = FirstOf(f, o + l)
  BY Zenon, <1>1, PartGlues
<1> HIDE DEF p
<1>6. (Len(f) - o > l) <=> (Len(m) > o + l)
  BY <1>1 DEF Least
<1>7. /\ dsc_paginate(f, o, l).items = p
      /\ dsc_paginate(f, o, l).next = {n \in {o + l} : Len(f) - o > l}
  BY Zenon, <1>4 DEF dsc_paginate
<1> QED BY Zenon, <1>2, <1>3, <1>5, <1>6, <1>7 DEF Extends

\* The same under a ceiling: no match past it is read, and the last page says
\* whether the listing reached it.
ExtendsBelow(page, all, o, l, ceiling) ==
    /\ FirstOf(all, o) \o page.items = FirstOf(all, Least(o + l, ceiling))
    /\ page.next = IF Least(Len(all), ceiling) > o + l THEN {o + l} ELSE {}
    /\ page.next = {} => page.more = (Len(all) >= ceiling)

\* The scans under a ceiling extend what the client has up to the ceiling.
LEMMA BoundedExtends ==
  ASSUME NEW S, NEW m \in Seq(S), NEW o \in Nat, NEW l \in Nat \ {0}, NEW ceiling \in Nat,
         o <= Len(m), o <= ceiling,
         NEW stop, stop = bounded_scan_ceiling(o, l, {}, ceiling),
         NEW page, page = paginate_bounded_matches(FirstOf(m, stop), o, l, stop)
  PROVE  ExtendsBelow(page, m, o, l, ceiling)
<1> DEFINE f == FirstOf(m, stop)
           p == Part(f, o, l, Len(f))
<1>0. stop = Least(o + l + 1, ceiling)
  BY Zenon DEF bounded_scan_ceiling
<1>s. stop \in Nat /\ Least(o, stop) = o /\ Least(o + l, stop) = Least(o + l, ceiling)
  BY <1>0 DEF Least
<1>1. f \in Seq(S) /\ Len(f) = Least(stop, Len(m)) /\ o <= Len(f)
  <2>1. f \in Seq(S) /\ Len(f) = Least(stop, Len(m))
    BY Zenon, <1>s, FirstOfType
  <2> QED BY <2>1, <1>0 DEF Least
<1>2. FirstOf(f, o) = FirstOf(m, o) /\ FirstOf(f, o + l) = FirstOf(m, Least(o + l, ceiling))
  <2>1. /\ FirstOf(f, o) = FirstOf(m, Least(o, stop))
        /\ FirstOf(f, o + l) = FirstOf(m, Least(o + l, stop))
    BY <1>s, FirstOfFirstOf
  <2> QED BY Zenon, <2>1, <1>s
<1>3. page = paginate_bounded_matches(f, o, l, stop)
  BY Zenon
<1> HIDE DEF f
<1>4. FirstOf(SubSeq(f, o + 1, Len(f)), l) = p
  BY Zenon, <1>1, SubSeqIsPart
<1>5. FirstOf(f, o) \o p = FirstOf(f, o + l) /\ Len(p) = Least(Len(f) - o, l)
  <2>1. f \in Seq(S) /\ o <= Len(f)
    BY Zenon, <1>1
  <2> QED BY <2>1, PartGlues
<1> HIDE DEF p
<1>6. /\ page.items = p
      /\ page.next = {n \in {o + Len(p)} : Len(f) > n}
      /\ page.more = (Len(f) >= stop)
  BY <1>3, <1>4 DEF paginate_bounded_matches
<1>7. page.next = IF Least(Len(m), ceiling) > o + l THEN {o + l} ELSE {}
  <2>1. /\ (Len(f) > o + Len(p)) <=> (Least(Len(m), ceiling) > o + l)
        /\ Len(f) > o + Len(p) => Len(p) = l
    <3>1. Len(p) = Least(Len(f) - o, l) /\ Len(m) \in Nat
      BY <1>5
    <3> HIDE DEF p
    <3> QED BY <3>1, <1>0, <1>1 DEF Least
  <2>2. page.next = {n \in {o + Len(p)} : Len(f) > n}
    BY Zenon, <1>6
  <2> QED BY Zenon, <2>1, <2>2
<1>8. ASSUME page.next = {} PROVE page.more = (Len(m) >= ceiling)
  <2>1. ~(Least(Len(m), ceiling) > o + l)
    BY Zenon, <1>7, <1>8
  <2>2. (Len(f) >= stop) <=> (Len(m) >= ceiling)
    BY <2>1, <1>0, <1>1 DEF Least
  <2> QED BY <2>2, <1>6
<1> QED BY Zenon, <1>2, <1>5, <1>6, <1>7, <1>8 DEF ExtendsBelow

-----------------------------------------------------------------------------
(* The listings are sequences *)

\* A sequence over any set is one over its own elements.
LEMMA SequenceOfRange ==
  ASSUME NEW S, NEW s \in Seq(S)
  PROVE  IsSequence(s)
BY DEF IsSequence, Range

\* A function on 1 .. n is a sequence.
LEMMA FunctionIsSequence ==
  ASSUME NEW n \in Nat, NEW f, f = [i \in 1 .. n |-> f[i]]
  PROVE  IsSequence(f) /\ Len(f) = n
BY DEF IsSequence, Range

\* The addresses of a listing, in order, are a sequence.
LEMMA AscendingSequence ==
  ASSUME NEW S \in SUBSET Addr
  PROVE  IsSequence(Ascending(S))
<1>1. IsFiniteSet(Addr)
  <2>1. Size \in Nat
    BY Zenon, IdbAssumption
  <2>2. 0 \in Int /\ Size - 1 \in Int
    BY <2>1
  <2> QED BY Zenon, <2>2, FS_Interval DEF Addr
<1>2. Cardinality(S) \in Nat
  BY Zenon, <1>1, FS_Subset, FS_CardinalityType
<1> DEFINE f == Ascending(S)
<1>3. f = [i \in 1 .. Cardinality(S) |-> f[i]]
  BY DEF Ascending
<1> HIDE DEF f
<1> QED BY Zenon, <1>2, <1>3, FunctionIsSequence DEF f

\* sorting one gives one,
LEMMA InOrderSequence ==
  ASSUME NEW m, IsSequence(m), NEW key, NEW descending
  PROVE  IsSequence(InOrder(m, key, descending))
<1> DEFINE at(k) == CHOOSE i \in DOMAIN m :
                      Cardinality({j \in DOMAIN m : key[j] < key[i] \/ (key[j] = key[i] /\ j < i)}) = k - 1
           up == [k \in DOMAIN m |-> m[at(k)]]
           down == Reverse(up)
<1>1. Len(m) \in Nat /\ DOMAIN m = 1 .. Len(m)
  BY DEF IsSequence
<1>2. InOrder(m, key, descending) = IF descending THEN down ELSE up
  BY Zenon DEF InOrder
<1>3. up = [k \in 1 .. Len(m) |-> up[k]]
  BY <1>1
<1> HIDE DEF up
<1>4. IsSequence(up) /\ Len(up) = Len(m)
  BY Zenon, <1>1, <1>3, FunctionIsSequence
<1>5. down = [k \in 1 .. Len(m) |-> down[k]]
  BY Zenon, <1>4 DEF Reverse
<1> HIDE DEF down
<1>6. IsSequence(down)
  BY Zenon, <1>1, <1>5, FunctionIsSequence
<1> QED BY Zenon, <1>2, <1>4, <1>6

-----------------------------------------------------------------------------
(* The edit handlers leave a database *)

\* All the outcomes of a handler leave a database.
Keeps(results) == \A r \in results : IsDb(r.db)

\* Most fields of a database may hold anything.
LEMMA FieldKeeps ==
  ASSUME NEW d, IsDb(d), NEW f \in Fields \ {"func", "types", "index"}, NEW v
  PROVE  IsDb([d EXCEPT ![f] = v])
BY Zenon DEF IsDb, Fields

\* set_name
LEMMA NameKeeps ==
  ASSUME NEW d, IsDb(d), NEW a, NEW n
  PROVE  IsDb([d EXCEPT !.name[a] = n])
BY Zenon, FieldKeeps DEF Fields

\* patch_bytes
LEMMA PatchKeeps ==
  ASSUME NEW d, IsDb(d), NEW a, NEW bs
  PROVE  Keeps(patch_bytes(d, a, bs))
<1> DEFINE v == [x \in Addr |-> IF x \in a .. a + Len(bs) - 1 THEN bs[x - a + 1] ELSE d.bytes[x]]
<1>1. patch_bytes(d, a, bs) = IF (a .. a + Len(bs) - 1) \subseteq Addr
            THEN Attempt(d, [d EXCEPT !.bytes = v]) ELSE {Err(d)}
  BY Zenon DEF patch_bytes
<1>2. IsDb([d EXCEPT !.bytes = v])
  <2> HIDE DEF v
  <2> QED BY Zenon, FieldKeeps DEF Fields
<1> HIDE DEF v
<1> QED BY <1>1, <1>2 DEF Keeps, Attempt, Ok, Err

\* patch_bytes and patch_asm of an address or of a name
LEMMA OnTargetKeeps ==
  ASSUME NEW d, IsDb(d), NEW t, NEW bs
  PROVE  Keeps(handle_patch_bytes(d, t, bs)) /\ Keeps(handle_patch_asm(d, t, bs))
<1>1. \A a : Keeps(patch_bytes(d, a, bs))
  BY Zenon, PatchKeeps
<1>2. Keeps(handle_patch_bytes(d, t, bs))
  BY <1>1 DEF Keeps, handle_patch_bytes, OnTarget, Err
<1>3. Keeps(handle_patch_asm(d, t, bs))
  BY <1>1 DEF Keeps, handle_patch_asm, OnTarget, Err
<1> QED BY Zenon, <1>2, <1>3

\* put_int
LEMMA BytesKeep ==
  ASSUME NEW d, IsDb(d), NEW a, NEW spec, NEW value
  PROVE  Keeps(handle_put_int(d, a, spec, value))
<1>1. \A bs : Keeps(patch_bytes(d, a, bs))
  BY Zenon, PatchKeeps
<1> QED BY <1>1 DEF Keeps, handle_put_int, Err

\* set_name, with and without a variant of the name
LEMMA RenameKeeps ==
  ASSUME NEW d, IsDb(d), NEW a, NEW n
  PROVE  Keeps(set_name(d, a, n)) /\ Keeps(set_name_with_flags(d, a, n))
<1>1. \A m : Keeps(set_name(d, a, m))
  BY NameKeeps DEF Keeps, set_name, Attempt, Ok, Err
<1> QED BY <1>1 DEF Keeps, set_name_with_flags, Err

\* rename
LEMMA HandleRenameKeeps ==
  ASSUME NEW d, IsDb(d), NEW t, NEW n, NEW flags
  PROVE  Keeps(handle_rename(d, t, n, flags))
<1>1. \A a : Keeps(set_name(d, a, n)) /\ Keeps(set_name_with_flags(d, a, n))
  BY Zenon, RenameKeeps
<1> QED BY <1>1 DEF Keeps, handle_rename, OnTarget, Err

\* add_bookmark
LEMMA BookmarkKeeps ==
  ASSUME NEW d, IsDb(d), NEW a
  PROVE  Keeps(handle_add_bookmark(d, a))
<1>1. \A s, v : IsDb(Marked(d, s, v))
  BY Zenon, FieldKeeps DEF Fields, Marked
<1>2. ASSUME NEW r \in handle_add_bookmark(d, a)
      PROVE  \/ r = Err(d) \/ r = Ok(d)
             \/ \E s, v : r = Err(Marked(d, s, v)) \/ r = Ok(Marked(d, s, v))
  BY Zenon DEF handle_add_bookmark
<1> QED BY <1>1, <1>2 DEF Keeps, Ok, Err

\* set_comments
LEMMA CommentsKeep ==
  ASSUME NEW d, IsDb(d), NEW t, NEW lines, NEW repeatable
  PROVE  Keeps(handle_set_comments(d, t, lines, repeatable))
<1>1. \A p, x, v : IsDb(Commented(d, p, x, v))
  BY Zenon, FieldKeeps DEF Fields, Commented
<1> QED BY <1>1 DEF Keeps, handle_set_comments, OnTarget, Attempt, Ok, Err

\* append_comment
LEMMA AppendKeeps ==
  ASSUME NEW d, IsDb(d), NEW a, NEW lines, NEW scope, NEW dedupe
  PROVE  Keeps(handle_append_comment(d, a, lines, scope, dedupe))
<1>1. \A p, x, v : IsDb(Commented(d, p, x, v))
  BY Zenon, FieldKeeps DEF Fields, Commented
<1>2. ASSUME NEW r \in handle_append_comment(d, a, lines, scope, dedupe)
      PROVE  \/ r = Err(d) \/ r = Skipped(d) \/ \E p, x, v : r = Ok(Commented(d, p, x, v))
  <2> DEFINE g     == function_at(d, a)
             func  == scope = "func" \/ (scope = "auto" /\ a \in g)
             place == IF func THEN "func" ELSE "line"
             Write(at) ==
                 IF at \notin Addr THEN {Err(d)}
                 ELSE IF dedupe /\ duplicate(d.text[place, at], lines) THEN {Skipped(d)}
                 ELSE Attempt(d, Commented(d, place, at, combined(d.text[place, at], lines)))
  <2>1. handle_append_comment(d, a, lines, scope, dedupe)
          = IF func THEN (IF g = {} THEN {Err(d)} ELSE UNION {Write(at) : at \in g})
            ELSE Write(a)
    BY Zenon DEF handle_append_comment
  <2> HIDE DEF g, func, place
  <2>2. ASSUME NEW at, NEW s \in Write(at)
        PROVE  \/ s = Err(d) \/ s = Skipped(d) \/ \E p, x, v : s = Ok(Commented(d, p, x, v))
    BY Zenon DEF Attempt
  <2> HIDE DEF Write
  <2>3. r = Err(d) \/ \E at : r \in Write(at)
    BY Zenon, <2>1
  <2> QED BY Zenon, <2>2, <2>3
<1> QED BY <1>1, <1>2 DEF Keeps, Ok, Err, Skipped

\* define_func and define_code
LEMMA DefineFuncKeeps ==
  ASSUME NEW d, IsDb(d), NEW a
  PROVE  Keeps(handle_define_func(d, a)) /\ Keeps(handle_define_code(d, a))
<1>1. IsDb([d EXCEPT !.item[a] = "code"])
  BY Zenon, FieldKeeps DEF Fields
<1>2. a \in Addr => IsDb([d EXCEPT !.func = @ \cup {a}, !.item[a] = "code"])
  BY Zenon DEF IsDb, Fields
<1> QED BY <1>1, <1>2 DEF Keeps, handle_define_func, handle_define_code, Attempt, Ok, Err

\* Undefining removes functions and adds none.
LEMMA UndefinedKeeps ==
  ASSUME NEW d, IsDb(d), NEW hit
  PROVE  IsDb(Undefined(d, hit))
<1> DEFINE e == Undefined(d, hit)
<1>1. /\ e = [f \in Fields |-> e[f]] /\ e.func = d.func \ hit
      /\ e.types = d.types /\ e.index = d.index
  BY Zenon DEF Undefined, IsDb, Fields
<1> HIDE DEF e
<1>2. IsDb(e)
  BY Zenon, <1>1 DEF IsDb
<1> QED BY Zenon, <1>2 DEF e

\* undefine
LEMMA UndefineKeeps ==
  ASSUME NEW d, IsDb(d), NEW a, NEW n
  PROVE  Keeps(handle_undefine(d, a, n))
BY UndefinedKeeps DEF Keeps, handle_undefine, Attempt, Ok, Err

\* reanalyze and mark_cfunc_dirty; the analysis finds functions at addresses only.
LEMMA AnalyzeKeeps ==
  ASSUME NEW d, IsDb(d), NEW from, NEW to
  PROVE  Keeps(handle_reanalyze(d, from, to)) /\ Keeps(handle_mark_cfunc_dirty(d, from))
<1>1. \A F \in SUBSET Addr : IsDb([d EXCEPT !.func = @ \cup F])
  BY Zenon DEF IsDb, Fields
<1> QED BY <1>1 DEF Keeps, handle_reanalyze, handle_mark_cfunc_dirty, Ok, Err

\* Applying a declaration to an item
LEMMA TypedKeeps ==
  ASSUME NEW d, IsDb(d), NEW a, NEW decl
  PROVE  IsDb(Typed(d, a, decl))
<1> DEFINE e == Typed(d, a, decl)
<1>1. /\ e = [f \in Fields |-> e[f]] /\ e.func = d.func
      /\ e.types = d.types /\ e.index = d.index
  BY Zenon DEF Typed, IsDb, Fields
<1> HIDE DEF e
<1>2. IsDb(e)
  BY Zenon, <1>1 DEF IsDb
<1> QED BY Zenon, <1>2 DEF e

\* make_data, at each of the points where it may fail
LEMMA DataKeeps ==
  ASSUME NEW d, IsDb(d), NEW a, NEW decl, NEW n, NEW delete
  PROVE  Keeps(handle_make_data(d, a, decl, n, delete))
<1> DEFINE bare == Undefined(d, {a})
           raw  == [bare EXCEPT !.item[a] = "data"]
           made == IF delete THEN Typed(raw, a, decl) ELSE Typed(d, a, decl)
           failed == {d, Typed(d, a, decl)} \cup (IF delete THEN {bare, raw} ELSE {})
<1>1. handle_make_data(d, a, decl, n, delete)
        = IF a \notin Addr THEN {Err(d)}
          ELSE {Err(x) : x \in failed}
               \cup (IF n = "" THEN {Ok(made)} ELSE set_name(made, a, n))
  BY Zenon DEF handle_make_data
<1>2. IsDb(bare)
  BY Zenon, UndefinedKeeps
<1> HIDE DEF bare
<1>3. IsDb(raw)
  BY Zenon, <1>2, FieldKeeps DEF Fields
<1> HIDE DEF raw
<1>4. IsDb(made) /\ \A x \in failed : IsDb(x)
  BY Zenon, <1>2, <1>3, TypedKeeps
<1> HIDE DEF made, failed
<1>5. Keeps(set_name(made, a, n))
  BY Zenon, <1>4, RenameKeeps
<1>6. ASSUME NEW r \in handle_make_data(d, a, decl, n, delete)
      PROVE  \/ r = Err(d) \/ \E x \in failed : r = Err(x)
             \/ r = Ok(made) \/ r \in set_name(made, a, n)
  BY Zenon, <1>1
<1> QED BY <1>4, <1>5, <1>6 DEF Keeps, Ok, Err

\* set_operand_type
LEMMA OperandKeeps ==
  ASSUME NEW d, IsDb(d), NEW a, NEW kind
  PROVE  Keeps(handle_set_operand_type(d, a, kind))
<1>1. IsDb([d EXCEPT !.applied[a] = kind])
  BY Zenon, FieldKeeps DEF Fields
<1> QED BY <1>1 DEF Keeps, handle_set_operand_type, Attempt, Ok, Err

\* Appending to the type library
LEMMA AppendSequence ==
  ASSUME NEW s, IsSequence(s), NEW x
  PROVE  IsSequence(Append(s, x)) /\ Len(Append(s, x)) \in DOMAIN Append(s, x)
<1>1. s \in Seq(Range(s) \cup {x})
  BY DEF IsSequence
<1>2. Append(s, x) \in Seq(Range(s) \cup {x}) /\ Len(Append(s, x)) = Len(s) + 1 /\ Len(s) \in Nat
  BY <1>1
<1>3. IsSequence(Append(s, x))
  BY Zenon, <1>2, SequenceOfRange
<1>4. DOMAIN Append(s, x) = 1 .. Len(s) + 1
  BY <1>2
<1> QED BY <1>2, <1>3, <1>4

\* Changing entries of the type library in place
LEMMA MapSequence ==
  ASSUME NEW s, IsSequence(s), NEW t, t = [i \in DOMAIN s |-> t[i]]
  PROVE  IsSequence(t)
<1>1. Len(s) \in Nat /\ DOMAIN s = 1 .. Len(s)
  BY DEF IsSequence
<1> QED BY Zenon, <1>1, FunctionIsSequence

\* A database with another type library is a database.
LEMMA TypesKeep ==
  ASSUME NEW d, IsDb(d), NEW ts, IsSequence(ts)
  PROVE  IsDb([d EXCEPT !.types = ts])
BY Zenon DEF IsDb, Fields

\* A member added to an enum
LEMMA MemberKeeps ==
  ASSUME NEW d, IsDb(d), NEW i, NEW member, NEW value
  PROVE  IsDb(WithMember(d, i, member, value))
<1> DEFINE v == d.types[i].members \cup {<<member, value>>}
           ts == [d.types EXCEPT ![i] = [d.types[i] EXCEPT !.members = v]]
<1>1. ts = [j \in DOMAIN d.types |-> ts[j]]
  BY Zenon
<1>2. IsSequence(d.types)
  BY Zenon DEF IsDb
<1> HIDE DEF ts
<1>3. IsSequence(ts)
  BY Zenon, <1>1, <1>2, MapSequence
<1>4. IsDb([d EXCEPT !.types = ts])
  BY Zenon, <1>3, TypesKeep
<1> QED BY Zenon, <1>4 DEF ts, WithMember

\* enum_upsert_member, at each of the points where it may fail
LEMMA EnumKeeps ==
  ASSUME NEW d, IsDb(d), NEW en, NEW member, NEW value, NEW bitfield
  PROVE  Keeps(handle_enum_upsert_member(d, en, member, value, bitfield))
<1> DEFINE created == [d EXCEPT !.types = Append(@, [name |-> en, kind |-> "enum",
                                                     bit |-> bitfield, members |-> {}])]
<1>1. IsDb(created)
  BY Zenon, AppendSequence, TypesKeep DEF IsDb
<1> HIDE DEF created
<1>2. \A i : IsDb(WithMember(d, i, member, value))
  BY Zenon, MemberKeeps
<1>3. \A i : IsDb(WithMember(created, i, member, value))
  BY Zenon, <1>1, MemberKeeps
<1>4. ASSUME NEW r \in handle_enum_upsert_member(d, en, member, value, bitfield)
      PROVE  \/ r = Err(d) \/ r = Skipped(d) \/ r = Err(created)
             \/ \E i : \/ r = Ok(WithMember(d, i, member, value))
                      \/ r = Ok(WithMember(created, i, member, value))
  BY Zenon DEF handle_enum_upsert_member, created
<1> QED BY <1>1, <1>2, <1>3, <1>4 DEF Keeps, Ok, Err, Skipped

\* Storing a type replaces it or appends it.
LEMMA StoredSequence ==
  ASSUME NEW ts, IsSequence(ts), NEW t
  PROVE  IsSequence(Stored(ts, t))
<1> DEFINE u == [i \in DOMAIN ts |-> IF ts[i].name = t.name THEN t ELSE ts[i]]
<1>1. u = [i \in DOMAIN ts |-> u[i]]
  BY Zenon
<1>2. Stored(ts, t) = u \/ Stored(ts, t) = Append(ts, t)
  BY Zenon DEF Stored
<1> HIDE DEF u
<1>3. IsSequence(u)
  BY Zenon, <1>1, MapSequence
<1> QED BY Zenon, <1>2, <1>3, AppendSequence

\* Storing declarations one after the other, those that parse: by induction over
\* the declarations.
LEMMA DeclaredSequence ==
  ASSUME NEW ts, IsSequence(ts), NEW decls, IsSequence(decls), NEW S
  PROVE  IsSequence(Declared(ts, decls, S))
<1> DEFINE n == Len(decls)
           Step(u, i) == IF decls[i] \in S THEN Stored(u, decls[i]) ELSE u
           Reading(f, k) == f = [i \in 0 .. k |-> IF i = 0 THEN ts ELSE Step(f[i - 1], i)]
           w == CHOOSE f : Reading(f, n)
<1>0. n \in Nat
  BY DEF IsSequence
<1>1. Declared(ts, decls, S) = w[n]
  BY Zenon DEF Declared
<1>2. ASSUME NEW u, IsSequence(u), NEW i PROVE IsSequence(Step(u, i))
  BY Zenon, <1>2, StoredSequence
<1> HIDE DEF Step, n
<1>3. \E f : Reading(f, n)
  <2> DEFINE T == {k \in Nat : ~ \E f : Reading(f, k)}
  <2>1. SUFFICES ASSUME T # {} PROVE FALSE
    BY Zenon, <1>0
  <2>2. T \subseteq Nat
    BY Zenon
  <2> HIDE DEF T
  <2>3. PICK k \in T : \A j \in T : k <= j
    BY Zenon, <2>1, <2>2, LeastOne
  <2>4. k \in Nat /\ ~ \E f : Reading(f, k)
    BY Zenon DEF T
  <2>5. CASE k = 0
    <3> DEFINE f == [i \in 0 .. 0 |-> ts]
    <3>1. Reading(f, 0)
      OBVIOUS
    <3> QED BY Zenon, <3>1, <2>4, <2>5
  <2>6. CASE k # 0
    <3>1. k - 1 \in Nat /\ k - 1 \notin T
      BY <2>3, <2>4, <2>6
    <3>2. PICK f : Reading(f, k - 1)
      BY Zenon, <3>1 DEF T
    <3> DEFINE g == [i \in 0 .. k |-> IF i = k THEN Step(f[k - 1], k) ELSE f[i]]
    <3>3. Reading(g, k)
      <4>1. ASSUME NEW i \in 0 .. k PROVE g[i] = IF i = 0 THEN ts ELSE Step(g[i - 1], i)
        <5>1. CASE i = k
          BY <5>1, <2>4, <2>6
        <5>2. CASE i # k
          <6>1. i \in 0 .. k - 1 /\ (i # 0 => i - 1 \in 0 .. k /\ i - 1 # k)
            BY <5>2, <2>4
          <6>2. g[i] = f[i] /\ (i # 0 => g[i - 1] = f[i - 1])
            BY Zenon, <5>2, <6>1, <2>4
          <6>3. f[i] = IF i = 0 THEN ts ELSE Step(f[i - 1], i)
            BY Zenon, <3>2, <6>1
          <6> QED BY Zenon, <6>2, <6>3
        <5> QED BY Zenon, <5>1, <5>2
      <4>2. g = [i \in 0 .. k |-> g[i]]
        BY Zenon
      <4> HIDE DEF g
      <4> QED BY Zenon, <4>1, <4>2
    <3> QED BY Zenon, <3>3, <2>4
  <2> QED BY Zenon, <2>5, <2>6
<1>4. Reading(w, n)
  BY Zenon, <1>3
<1> HIDE DEF w
<1>5. ASSUME NEW i \in 0 .. n PROVE IsSequence(w[i])
  <2> DEFINE T == {k \in 0 .. n : ~ IsSequence(w[k])}
  <2>1. SUFFICES ASSUME T # {} PROVE FALSE
    BY Zenon
  <2>2. T \subseteq Nat
    BY <1>0
  <2> HIDE DEF T
  <2>3. PICK k \in T : \A j \in T : k <= j
    BY Zenon, <2>1, <2>2, LeastOne
  <2>4. k \in 0 .. n /\ ~ IsSequence(w[k])
    BY Zenon DEF T
  <2>5. CASE k = 0
    BY Zenon, <1>4, <2>4, <2>5
  <2>6. CASE k # 0
    <3>1. k - 1 \in 0 .. n /\ k - 1 \notin T
      BY <2>3, <2>4, <2>6, <1>0
    <3>2. IsSequence(w[k - 1])
      BY Zenon, <3>1 DEF T
    <3>3. w[k] = Step(w[k - 1], k)
      BY Zenon, <1>4, <2>4, <2>6
    <3> QED BY Zenon, <3>2, <3>3, <1>2, <2>4
  <2> QED BY Zenon, <2>5, <2>6
<1> QED BY <1>0, <1>1, <1>5

\* declare_type, of one declaration or of several
LEMMA DeclareKeeps ==
  ASSUME NEW d, IsDb(d), NEW decls, IsSequence(decls), NEW replace, NEW multi
  PROVE  Keeps(handle_declare_type(d, decls, replace, multi))
<1> DEFINE Keep(S) == [d EXCEPT !.types = Declared(@, decls, S)]
<1>1. \A S : IsDb(Keep(S))
  BY Zenon, DeclaredSequence, TypesKeep DEF IsDb
<1> QED BY <1>1 DEF Keeps, handle_declare_type, Attempt, Ok, Err

\* apply_types and the edits of a frame
LEMMA FrameKeeps ==
  ASSUME NEW d, IsDb(d), NEW a, NEW t, NEW var, NEW new, NEW decl
  PROVE  /\ Keeps(handle_apply_types(d, t, var, decl))
         /\ Keeps(handle_declare_stack(d, t, var, decl))
         /\ Keeps(handle_delete_stack(d, t, var))
         /\ Keeps(handle_rename_variable(d, a, var, new))
<1>1. \A f, u, v : IsDb(Framed(d, f, u, v))
  BY Zenon, FieldKeeps DEF Fields, Framed
<1>2. \A x, f, u, v : IsDb(x) => IsDb(Framed(x, f, u, v))
  BY Zenon, FieldKeeps DEF Fields, Framed
<1>3. \A x : IsDb(Typed(d, x, decl))
  BY Zenon, TypedKeeps
<1>4. Keeps(handle_apply_types(d, t, var, decl))
  <2>1. ASSUME NEW r \in handle_apply_types(d, t, var, decl)
        PROVE  \/ r = Err(d) \/ \E x : r = Ok(Typed(d, x, decl))
               \/ \E f, u, v : r = Ok(Framed(d, f, u, v))
    BY ZenonT(30) DEF handle_apply_types, OnTarget, Attempt
  <2> QED BY <2>1, <1>1, <1>3 DEF Keeps, Ok, Err
<1>5. Keeps(handle_declare_stack(d, t, var, decl)) /\ Keeps(handle_delete_stack(d, t, var))
  <2>1. ASSUME NEW r \in handle_declare_stack(d, t, var, decl)
                       \cup handle_delete_stack(d, t, var)
        PROVE  r = Err(d) \/ \E f, u, v : r = Ok(Framed(d, f, u, v))
    BY Zenon DEF handle_declare_stack, handle_delete_stack, OnTarget
  <2> QED BY <2>1, <1>1 DEF Keeps, Ok, Err
<1>6. Keeps(handle_rename_variable(d, a, var, new))
  <2>1. ASSUME NEW r \in handle_rename_variable(d, a, var, new)
        PROVE  \/ r = Err(d)
               \/ \E f, v : r = Ok(Framed(Framed(d, f, new, v), f, var, ""))
    BY Zenon DEF handle_rename_variable
  <2>2. \A f, v : IsDb(Framed(Framed(d, f, new, v), f, var, ""))
    BY Zenon, <1>1, <1>2
  <2>3. \A x : Ok(x).db = x /\ Err(x).db = x
    BY Zenon DEF Ok, Err
  <2>4. SUFFICES ASSUME NEW r \in handle_rename_variable(d, a, var, new)
                 PROVE  IsDb(r.db)
    BY Zenon DEF Keeps
  <2>5. CASE r = Err(d)
    BY Zenon, <2>3, <2>5
  <2>6. CASE r # Err(d)
    <3>1. PICK f, v : r = Ok(Framed(Framed(d, f, new, v), f, var, ""))
      BY Zenon, <2>1, <2>6
    <3>2. r.db = Framed(Framed(d, f, new, v), f, var, "")
      BY Zenon, <3>1, <2>3
    <3> QED BY Zenon, <3>2, <2>2
  <2> QED BY Zenon, <2>5, <2>6
<1> QED BY Zenon, <1>4, <1>5, <1>6

\* The Lumina pull
LEMMA PullKeeps ==
  ASSUME NEW d, IsDb(d), NEW t, NEW allow, NEW apply, NEW n
  PROVE  Keeps(handle_pull(d, t, allow, apply, n))
<1>1. \A f : Keeps(set_name(d, f, n))
  BY Zenon, RenameKeeps
<1> QED BY <1>1 DEF Keeps, handle_pull, OnTarget, Ok, Err

=============================================================================
