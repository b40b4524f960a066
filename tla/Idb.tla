-------------------------------- MODULE Idb ---------------------------------
(***************************************************************************)
(* The open database as the edit handlers of src/ida/handlers change it.   *)
(*                                                                         *)
(* A database is a record d.  A handler is an operator from d to the set   *)
(* of its possible results [answer, db]: IDA's own calls are external and  *)
(* may succeed or fail, and every failure that the code can see is a       *)
(* result of its own, with the database as the earlier calls left it.      *)
(*                                                                         *)
(*   bytes   the byte at each address          name    symbols             *)
(*   item    what IDA has defined there        func    function starts     *)
(*   text    comments by place, as lines       mark    bookmark slots      *)
(*   types   the local type library, in the order of the ordinals          *)
(*   frame   stack variables of each function  index   IDA's string list   *)
(***************************************************************************)
EXTENDS Integers, Sequences, FiniteSets, SequencesExt

CONSTANTS
    Size,      \* addresses are 0 .. Size - 1
    Radix,     \* values of a byte are 0 .. Radix - 1
    Names,     \* symbol names
    Within,  \* <<n, m>>: name n contains the text m (or is it)
    Slots      \* bookmark slots are 1 .. Slots

ASSUME IdbAssumption ==
    /\ Size \in Nat \ {0} /\ Slots \in Nat
    /\ Radix \in Nat /\ Radix % 2 = 0 /\ Radix > 0
    /\ "" \notin Names /\ Within \subseteq Names \X Names
    /\ \A n \in Names : <<n, n>> \in Within

Addr == 0 .. Size - 1

\* What a database is made of, as far as every handler relies on it
Fields == {"bytes", "big", "name", "func", "item", "text", "mark", "types",
           "frame", "applied", "index"}

IsSequence(s) == s \in Seq(Range(s))

IsDb(d) ==
    /\ d = [f \in Fields |-> d[f]]
    /\ d.func \subseteq Addr
    /\ IsSequence(d.types) /\ IsSequence(d.index)

Ok(d) == [answer |-> "ok", db |-> d]

Skipped(d) == [answer |-> "skipped", db |-> d]

Err(d) == [answer |-> "error", db |-> d]

\* An IDA call that either did all of it or nothing
Attempt(d, changed) == {Err(d), Ok(changed)}

Lowest(S) == {a \in S : \A b \in S : a <= b}

-----------------------------------------------------------------------------
(* Places *)

\* The function that contains a: the last one to start at or before it
function_at(d, a) ==
    {f \in d.func : f <= a /\ \A g \in d.func : g <= a => g <= f}

\* The first function whose name is or contains the text, else the first symbol
resolve_address_by_name(d, text) ==
    LET named == {a \in Addr : <<d.name[a], text>> \in Within}
    IN  IF named \cap d.func # {} THEN Lowest(named \cap d.func)
        ELSE Lowest(named)

\* A target is an address or a name, plus a signed offset; {} is an error
resolve_address(d, t) ==
    LET base == IF t.by = "name" THEN resolve_address_by_name(d, t.at)
                ELSE {t.at}
    IN  {b + t.offset : b \in {x \in base : x + t.offset >= 0}}

\* A handler that starts by resolving its target
OnTarget(d, t, Handler(_)) ==
    IF resolve_address(d, t) = {} THEN {Err(d)}
    ELSE UNION {Handler(a) : a \in resolve_address(d, t)}

-----------------------------------------------------------------------------
(* Bytes and integers *)

\* What can be read: IDA stops at the first address that is not there
get_bytes(d, a, n) ==
    [i \in 1 .. Cardinality({x \in Addr : x \in a .. a + n - 1}) |->
        d.bytes[a + i - 1]]

\* A patch reaches the database whole, or not at all
patch_bytes(d, a, bs) ==
    LET hit == a .. a + Len(bs) - 1
    IN  IF hit \subseteq Addr
        THEN Attempt(d, [d EXCEPT !.bytes = [x \in Addr |->
                            IF x \in hit THEN bs[x - a + 1] ELSE @[x]]])
        ELSE {Err(d)}

handle_patch_bytes(d, t, bs) == OnTarget(d, t, LAMBDA a : patch_bytes(d, a, bs))

\* The assembler speaks first; a line it refuses changes nothing
handle_patch_asm(d, t, code) ==
    OnTarget(d, t, LAMBDA a : {Err(d)} \cup patch_bytes(d, a, code))

\* IntSpec: [signed, width, endian], the endian "db" being the database's
IntSpecs(widths) ==
    [signed : BOOLEAN, width : widths, endian : {"little", "big", "db"}]

byte_order(spec, big) ==
    IF spec.endian = "db" THEN (IF big THEN "big" ELSE "little")
    ELSE spec.endian

Span(spec) == Radix ^ spec.width

Range_of(spec) == IF spec.signed THEN -(Span(spec) \div 2) .. Span(spec) \div 2 - 1
                  ELSE 0 .. Span(spec) - 1

\* IntSpec::encode: {} when the value does not fit; two's complement otherwise
encode(spec, value, big) ==
    LET raw    == value % Span(spec)
        little == [i \in 1 .. spec.width |-> (raw \div Radix ^ (i - 1)) % Radix]
    IN  IF value \notin Range_of(spec) THEN {}
        ELSE {IF byte_order(spec, big) = "little" THEN little ELSE Reverse(little)}

\* The value is encoded before anything is written
handle_put_int(d, a, spec, value) ==
    IF encode(spec, value, d.big) = {} THEN {Err(d)}
    ELSE UNION {patch_bytes(d, a, bs) : bs \in encode(spec, value, d.big)}

-----------------------------------------------------------------------------
(* Names, bookmarks and comments *)

\* IDA refuses a name that another address has
set_name(d, a, n) ==
    IF a \in Addr /\ \A b \in Addr \ {a} : d.name[b] # n
    THEN Attempt(d, [d EXCEPT !.name[a] = n]) ELSE {Err(d)}

\* With flags IDA may find a free variant of a name that is taken
set_name_with_flags(d, a, n) ==
    IF a \in Addr /\ \E b \in Addr \ {a} : d.name[b] = n
    THEN {Err(d)} \cup UNION {set_name(d, a, m) : m \in Names \ {n}}
    ELSE set_name(d, a, n)

handle_rename(d, t, n, flags) ==
    OnTarget(d, t, LAMBDA a : IF flags THEN set_name_with_flags(d, a, n)
                              ELSE set_name(d, a, n))

Marked(d, slot, a) == [d EXCEPT !.mark[slot] = a]

\* A second bookmark of an address takes the slot of the first: erase, mark
handle_add_bookmark(d, a) ==
    LET mine == Lowest({s \in 1 .. Slots : d.mark[s] = a})
        free == Lowest({s \in 1 .. Slots : d.mark[s] = -1})
    IN  {Err(d)} \cup
        (IF mine # {} THEN {Err(Marked(d, s, -1)) : s \in mine} \cup {Ok(d)}
         ELSE {Ok(Marked(d, s, a)) : s \in free})

Commented(d, place, a, lines) == [d EXCEPT !.text[<<place, a>>] = lines]

\* A comment is its lines; <<"">> is the empty one, and a last line "" of a
\* longer one is a trailing newline
handle_set_comments(d, t, lines, repeatable) ==
    LET place == IF repeatable THEN "repeatable" ELSE "line"
    IN  OnTarget(d, t, LAMBDA a :
            IF a \notin Addr THEN {Err(d)}
            ELSE Attempt(d, Commented(d, place, a, lines)))

\* The text that append writes: the comment glued to the last line when either
\* of the two is empty, on a line of its own otherwise
combined(current, lines) ==
    IF Last(current) = "" \/ lines = <<"">>
    THEN Front(current)
         \o <<IF Last(current) = "" THEN Head(lines) ELSE Last(current)>>
         \o Tail(lines)
    ELSE current \o lines

\* A one-line comment that is already a line of the text is skipped
duplicate(current, lines) ==
    Len(lines) = 1 /\ lines # <<"">> /\ \E i \in DOMAIN current : current[i] = lines[1]

\* Mutant: the text is compared with the whole comment, not line by line
handle_append_comment_whole(d, a, lines, scope, dedupe) ==
    LET f     == function_at(d, a)
        func  == scope = "func" \/ (scope = "auto" /\ a \in f)
        place == IF func THEN "func" ELSE "line"
        Write(at) ==
            IF at \notin Addr THEN {Err(d)}
            ELSE IF dedupe /\ d.text[place, at] = lines THEN {Skipped(d)}
            ELSE Attempt(d, Commented(d, place, at, combined(d.text[place, at], lines)))
    IN  IF func THEN (IF f = {} THEN {Err(d)} ELSE UNION {Write(at) : at \in f})
        ELSE Write(a)

handle_append_comment(d, a, lines, scope, dedupe) ==
    LET f     == function_at(d, a)
        func  == scope = "func" \/ (scope = "auto" /\ a \in f)
        place == IF func THEN "func" ELSE "line"
        Write(at) ==
            IF at \notin Addr THEN {Err(d)}
            ELSE IF dedupe /\ duplicate(d.text[place, at], lines) THEN {Skipped(d)}
            ELSE Attempt(d, Commented(d, place, at, combined(d.text[place, at], lines)))
    IN  IF func THEN (IF f = {} THEN {Err(d)} ELSE UNION {Write(at) : at \in f})
        ELSE Write(a)

-----------------------------------------------------------------------------
(* Code and data items *)

handle_define_func(d, a) ==
    IF a \in d.func \/ a \notin Addr THEN {Err(d)}
    ELSE Attempt(d, [d EXCEPT !.func = @ \cup {a}, !.item[a] = "code"])

handle_define_code(d, a) ==
    IF a \notin Addr THEN {Err(d)}
    ELSE Attempt(d, [d EXCEPT !.item[a] = "code"])

\* del_items takes the functions that start there with it
Undefined(d, hit) ==
    [d EXCEPT !.func    = @ \ hit,
              !.item    = [x \in Addr |-> IF x \in hit THEN "none" ELSE @[x]],
              !.applied = [x \in Addr |-> IF x \in hit THEN "" ELSE @[x]]]

handle_undefine(d, a, n) ==
    IF n = 0 THEN {Err(d)} ELSE Attempt(d, Undefined(d, a .. a + n - 1))

\* IDA may find functions it had not found before
handle_reanalyze(d, from, to) ==
    {Err(d)} \cup (IF to > from
                   THEN {Ok([d EXCEPT !.func = @ \cup F]) :
                             F \in SUBSET {x \in Addr : from <= x /\ x < to}}
                   ELSE {})

handle_mark_cfunc_dirty(d, a) ==
    IF function_at(d, a) = {} THEN {Err(d)} ELSE {Err(d), Ok(d)}

\* An item of type decl at a; text is the one type IDA lists as a string
Typed(d, a, decl) ==
    [d EXCEPT !.applied[a] = decl,
              !.item[a] = IF decl = "text" THEN "string" ELSE "data"]

\* make_data: apply, measure, and on request delete the item, create bytes and
\* apply again; the name comes last.  A failure keeps what was done before it.
handle_make_data(d, a, decl, n, delete_existing) ==
    LET bare    == Undefined(d, {a})
        raw     == [bare EXCEPT !.item[a] = "data"]
        failed  == {d, Typed(d, a, decl)}
                   \cup (IF delete_existing THEN {bare, raw} ELSE {})
        made    == IF delete_existing THEN Typed(raw, a, decl)
                   ELSE Typed(d, a, decl)
    IN  IF a \notin Addr THEN {Err(d)}
        ELSE {Err(x) : x \in failed}
             \cup (IF n = "" THEN {Ok(made)} ELSE set_name(made, a, n))

\* Operand types and decompiler annotations, kept as a type of the address
handle_set_operand_type(d, a, kind) ==
    IF a \notin Addr THEN {Err(d)}
    ELSE Attempt(d, [d EXCEPT !.applied[a] = kind])

-----------------------------------------------------------------------------
(* The local type library and stack frames *)

TypeAt(d, n) == {i \in DOMAIN d.types : d.types[i].name = n}

\* IDA stores a type under its name: in place, or at the end
Stored(ts, t) ==
    IF \E i \in DOMAIN ts : ts[i].name = t.name
    THEN [i \in DOMAIN ts |-> IF ts[i].name = t.name THEN t ELSE ts[i]]
    ELSE Append(ts, t)

WithMember(d, i, member, value) ==
    [d EXCEPT !.types[i].members = @ \cup {<<member, value>>}]

\* enum_upsert_member: an enum created on the way stays when its member fails
handle_enum_upsert_member(d, en, member, value, bitfield) ==
    LET fresh   == [name |-> en, kind |-> "enum", bit |-> bitfield, members |-> {}]
        created == [d EXCEPT !.types = Append(@, fresh)]
        Add(x, i) == Ok(WithMember(x, i, member, value))
        On(i) ==
            LET t == d.types[i] IN
            IF t.kind # "enum" \/ t.bit # bitfield THEN {Err(d)}
            ELSE IF <<member, value>> \in t.members THEN {Skipped(d)}
            ELSE IF \E m \in t.members : m[1] = member \/ m[2] = value THEN {Err(d)}
            ELSE {Err(d), Add(d, i)}
    IN  IF TypeAt(d, en) = {}
        THEN {Err(d), Err(created), Add(created, Len(created.types))}
        ELSE UNION {On(i) : i \in TypeAt(d, en)}

\* The library after the declarations of decls that are in S, in their order
Declared(ts, decls, S) ==
    LET after[i \in 0 .. Len(decls)] ==
          IF i = 0 THEN ts
          ELSE IF decls[i] \in S THEN Stored(after[i - 1], decls[i])
          ELSE after[i - 1]
    IN  after[Len(decls)]

\* One declaration, or with multi a list of them: IDA counts the ones it
\* refused and keeps the others, and any refusal makes the answer an error
handle_declare_type(d, decls, replace, multi) ==
    LET Keep(S) == [d EXCEPT !.types = Declared(@, decls, S)]
    IN  IF multi
        THEN {Err(Keep(S)) : S \in SUBSET Range(decls) \ {Range(decls)}}
             \cup {Ok(Keep(Range(decls)))}
        ELSE IF TypeAt(d, decls[1].name) # {} /\ ~replace THEN {Err(d)}
        ELSE Attempt(d, Keep({decls[1]}))

\* A stack variable of the function at f; "" is none of that name
Framed(d, f, var, decl) == [d EXCEPT !.frame[f][var] = decl]

\* A type for an address, or with a stack variable for that variable
handle_apply_types(d, t, var, decl) ==
    OnTarget(d, t, LAMBDA a :
        IF a \notin Addr THEN {Err(d)}
        ELSE IF var = "" THEN Attempt(d, Typed(d, a, decl))
        ELSE {Err(d)} \cup
             {Ok(Framed(d, f, var, decl)) :
                 f \in {g \in function_at(d, a) : d.frame[g][var] # ""}})

handle_declare_stack(d, t, var, decl) ==
    OnTarget(d, t, LAMBDA a :
        {Err(d)} \cup {Ok(Framed(d, f, var, decl)) :
                           f \in {g \in function_at(d, a) : d.frame[g][var] = ""}})

handle_delete_stack(d, t, var) ==
    OnTarget(d, t, LAMBDA a :
        {Err(d)} \cup {Ok(Framed(d, f, var, "")) :
                           f \in {g \in function_at(d, a) : d.frame[g][var] # ""}})

\* The variable keeps its type under its new name
handle_rename_variable(d, a, old, new) ==
    {Err(d)} \cup
    {Ok(Framed(Framed(d, f, new, d.frame[f][old]), f, old, "")) :
        f \in {g \in function_at(d, a) :
                  d.frame[g][old] # "" /\ d.frame[g][new] = ""}}

\* Lumina names the function it recognised, when asked to apply
handle_pull(d, t, allow_lumina, apply, n) ==
    IF ~allow_lumina THEN {Err(d)}
    ELSE OnTarget(d, t, LAMBDA a :
        {Err(d)} \cup
        (IF apply
         THEN UNION {{Ok(r.db) : r \in set_name(d, f, n)} : f \in function_at(d, a)}
         ELSE {Ok(d) : f \in function_at(d, a)}))

-----------------------------------------------------------------------------
(* IDA's string list: one for the database, rebuilt by whoever asks *)

Ascending(S) ==
    [k \in 1 .. Cardinality(S) |->
        CHOOSE a \in S : Cardinality({b \in S : b < a}) = k - 1]

\* Mutant: every page rebuilds
should_rebuild_always(offset) == TRUE

\* A scan from the first page rebuilds the list, a continuation reads it as is
should_rebuild(offset) == offset = 0

string_index(d, offset) ==
    IF should_rebuild(offset)
    THEN [d EXCEPT !.index = Ascending({a \in Addr : d.item[a] = "string"})]
    ELSE d

=============================================================================
