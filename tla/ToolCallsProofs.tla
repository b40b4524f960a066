-------------------------- MODULE ToolCallsProofs --------------------------
EXTENDS ToolCalls, TLAPS

(* The theorems about the tools' calls, for every set of callers, every bound
   on their scripts, the batches and the channel: first that the requests and
   the scripts are what the annotations of the tools say, then that every step
   preserves an invariant about the channel and one about the replies. *)

\* What the handlers' scripts have in common, and keep as they are worked off.
WellFormed(script) ==
    /\ \A i \in DOMAIN script : i + script[i].skip <= Len(script)
    /\ \A i \in DOMAIN script :
           script[i].do = "sample" =>
               i = 1 /\ \A j \in DOMAIN script : script[j].req.effect = "read"
    /\ \A i \in DOMAIN script :
           script[i].req.wait = Timed /\ script[i].req.effect # "read" =>
               /\ script[i].ends
               /\ script[i].req.name \in {"PutInt", "DscLoadImage", "DscLoadRegion"}

\* The part of the type that the channel and the scripts need.
Channel ==
    /\ queue \in Seq(Entries)
    /\ todo \in [Actors -> Seq(Steps)]
    /\ pc \in [Actors -> {"idle", "run", "wait"}]

\* What is left of a script is well formed, and only an idle actor has nothing
\* left.
Scripts ==
    \A a \in Actors :
        /\ WellFormed(todo[a])
        /\ pc[a] # "idle" => todo[a] # <<>>

\* The task runs its one analysis.
TaskAnalyses ==
    \A i \in DOMAIN todo[Task] :
        todo[Task][i].do = "ask" /\ todo[Task][i].req.effect = "analyse"

\* Whoever is in an await has their request in the channel, once, and it is the
\* one their script is at; no other request is theirs.
Awaited ==
    /\ \A a \in Actors : pc[a] = "wait" => \E i \in DOMAIN queue : queue[i].by = a
    /\ \A i \in DOMAIN queue : queue[i].by \in Actors =>
           /\ pc[queue[i].by] = "wait"
           /\ queue[i].req = Head(todo[queue[i].by]).req
    /\ \A i, j \in DOMAIN queue :
           queue[i].by \in Actors /\ queue[i].by = queue[j].by => i = j

\* An edit left behind by a call that timed out, still to be made.
Stale(e) == e.by = Nobody /\ ~e.cancelled /\ e.req.effect = "edit"

\* No call with a badge read a database still being analysed.  For that to last,
\* a call under a complete badge has only reads before it, on an analysed
\* database: the badge itself does not say so.
Covering ==
    \A c \in Callers :
        /\ ~partial[c]
        /\ badge[c] = "complete" /\ pc[c] # "idle" =>
               analysed /\ \A i \in DOMAIN todo[c] : todo[c][i].req.effect = "read"

\* The call_lock.
OneAtATime ==
    serial => \A c, d \in Callers : pc[c] # "idle" /\ pc[d] # "idle" => c = d

\* Behind the call_lock the channel serves what a timed out call left behind
\* before it serves the call that came after it.
InOrder ==
    serial => \A i, j \in DOMAIN queue : i < j /\ queue[i].by \in Callers => ~Stale(queue[j])

\* ... so a call that has read, or has its badge, has no such edit before it.
Settled ==
    serial => \A c \in Callers :
        /\ view[c] \in {"none", "one"} /\ badge[c] # "void"
        /\ pc[c] # "idle" /\ (view[c] = "one" \/ badge[c] = "complete") =>
               \A i \in DOMAIN queue : ~Stale(queue[i])

\* The inductive invariant.
IInv ==
    /\ TypeOK /\ Scripts /\ TaskAnalyses /\ Awaited /\ EditsAreAwaited
    /\ Covering /\ OneAtATime /\ InOrder /\ Settled

---------------------------------------------------------------------------
(* The tables of requests.                                                 *)

\* The requests whose arm only reads.
ReadNames ==
    {"AnalysisStatus", "DscImages", "DscImageDeps", "DscFindSymbols",
     "DscFindStrings", "DscRegionAt", "ListFunctions", "ResolveFunction",
     "DisasmByName", "Disasm", "Decompile", "Segments", "Strings",
     "LocalTypes", "InferTypes", "AddrInfo", "FunctionAt",
     "DisasmFunctionAt", "StackFrame", "Structs", "StructInfo", "ReadStruct",
     "XRefsTo", "XRefsFrom", "XRefsToField", "Imports", "Exports",
     "Entrypoints", "LuminaLookup", "GetBytes", "SdkRead", "BasicBlocks",
     "Callees", "Callers", "IdbMeta", "LookupFunctions", "ListGlobals",
     "AnalyzeStrings", "FindString", "XrefsToString", "FindBytes",
     "SearchText", "SearchImm", "FindInsns", "FindInsnOperands",
     "MakeSignature", "ReadInt", "GetInt", "GetString", "GetGlobalValue",
     "FindPaths", "CallGraph", "XrefMatrix", "ExportFuncs", "PseudocodeAt"}

\* The others: their callers wait for good, or can cancel them, or gave up
\* on one of the three edits that are left behind.
AwaitedNames ==
    {"LoadDebugInfo", "DeclareType", "ApplyTypes", "DeclareStack",
     "DeleteStack", "LuminaApply", "AddBookmark", "SdkEdit", "SetComments",
     "AppendComment", "Rename", "PatchBytes", "PatchAsm"}
CancellableNames == {"AnalyzeFuncs", "RunScript"}
LeftBehindNames  == {"PutInt", "DscLoadImage", "DscLoadRegion"}

\* An entry of a table is the entry of one of its parts.
LEMMA TableEntry ==
    ASSUME NEW parts, NEW name, NEW part \in parts, name \in DOMAIN part
    PROVE  /\ name \in DOMAIN Table(parts)
           /\ \E p \in parts :
                  name \in DOMAIN p /\ Table(parts)[name] = p[name]
  BY Zenon DEF Table

\* How the callers wait.
LEMMA CallsOf ==
    /\ ReadNames \cup AwaitedNames \cup CancellableNames \cup LeftBehindNames
          \subseteq DOMAIN Calls
    /\ \A n \in ReadNames : Calls[n] \in {Timed, Waits, Cancellable}
    /\ \A n \in AwaitedNames : Calls[n] = Waits
    /\ \A n \in CancellableNames : Calls[n] = Cancellable
    /\ \A n \in LeftBehindNames : Calls[n] = Timed
<1> DEFINE parts == {LifecycleCalls, DscCalls, CodeCalls, AddressCalls,
                     ReferenceCalls, EditCalls, GraphCalls, SearchCalls,
                     ValueCalls}
<1>1. ASSUME NEW n \in ReadNames \cup AwaitedNames \cup CancellableNames
                       \cup LeftBehindNames
      PROVE  \E part \in parts : n \in DOMAIN part
  BY DEF ReadNames, AwaitedNames, CancellableNames, LeftBehindNames,
         LifecycleCalls, DscCalls, CodeCalls, AddressCalls, ReferenceCalls,
         EditCalls, GraphCalls, SearchCalls, ValueCalls
<1>2. ASSUME NEW n \in ReadNames \cup AwaitedNames \cup CancellableNames
                       \cup LeftBehindNames
      PROVE  /\ n \in DOMAIN Calls
             /\ \E part \in parts : n \in DOMAIN part /\ Calls[n] = part[n]
  BY Zenon, <1>1, TableEntry DEF Calls
<1>3. \A n \in ReadNames : Calls[n] \in {Timed, Waits, Cancellable}
  BY <1>2 DEF LifecycleCalls, DscCalls, CodeCalls, AddressCalls,
         ReferenceCalls, EditCalls, GraphCalls, SearchCalls, ValueCalls
<1>4. \A n \in AwaitedNames : Calls[n] = Waits
  BY <1>2 DEF AwaitedNames, LifecycleCalls, DscCalls, CodeCalls, AddressCalls,
         ReferenceCalls, EditCalls, GraphCalls, SearchCalls, ValueCalls
<1>5. \A n \in CancellableNames : Calls[n] = Cancellable
  BY <1>2 DEF CancellableNames, LifecycleCalls, DscCalls, CodeCalls,
         AddressCalls, ReferenceCalls, EditCalls, GraphCalls, SearchCalls,
         ValueCalls
<1>6. \A n \in LeftBehindNames : Calls[n] = Timed
  BY <1>2 DEF LeftBehindNames, LifecycleCalls, DscCalls, CodeCalls,
         AddressCalls, ReferenceCalls, EditCalls, GraphCalls, SearchCalls,
         ValueCalls
<1> QED BY Zenon, <1>2, <1>3, <1>4, <1>5, <1>6

\* What the arms do.
LEMMA ArmsOf ==
    /\ \A n \in ReadNames : Arms[n] \in {Reads, BareRead}
    /\ \A n \in AwaitedNames \cup LeftBehindNames : Arms[n] = Edits
    /\ Arms["RunScript"] = Edits
    /\ Arms["AnalyzeFuncs"] = Analyses
<1> DEFINE parts == {LoaderArms, DscArms, CodeArms, TypeArms, StackArms,
                     ReferenceArms, SdkArms, EditArms, GraphArms, SearchArms,
                     PathArms}
<1>1. ASSUME NEW n \in ReadNames \cup AwaitedNames \cup CancellableNames
                       \cup LeftBehindNames
      PROVE  \E part \in parts : n \in DOMAIN part
  BY DEF ReadNames, AwaitedNames, CancellableNames, LeftBehindNames,
         LoaderArms, DscArms, CodeArms, TypeArms, StackArms, ReferenceArms,
         SdkArms, EditArms, GraphArms, SearchArms, PathArms
<1>2. ASSUME NEW n \in ReadNames \cup AwaitedNames \cup CancellableNames
                       \cup LeftBehindNames
      PROVE  \E part \in parts : n \in DOMAIN part /\ Arms[n] = part[n]
  BY Zenon, <1>1, TableEntry DEF Arms
<1>3. ASSUME NEW part \in parts, NEW n \in DOMAIN part
      PROVE  /\ n \in ReadNames => part[n] \in {Reads, BareRead}
             /\ n \in AwaitedNames \cup LeftBehindNames => part[n] = Edits
             /\ n = "RunScript" => part[n] = Edits
             /\ n = "AnalyzeFuncs" => part[n] = Analyses
  <2> USE DEF ReadNames, AwaitedNames, LeftBehindNames
  <2>1. CASE part \in {LoaderArms, DscArms, CodeArms}
    BY <1>3, <2>1 DEF LoaderArms, DscArms, CodeArms
  <2>2. CASE part \in {TypeArms, StackArms, SdkArms, EditArms}
    BY <1>3, <2>2 DEF TypeArms, StackArms, SdkArms, EditArms
  <2>3. CASE part \in {ReferenceArms, GraphArms}
    BY <1>3, <2>3 DEF ReferenceArms, GraphArms
  <2>4. CASE part \in {SearchArms, PathArms}
    BY <1>3, <2>4 DEF SearchArms, PathArms
  <2> HIDE DEF ReadNames, AwaitedNames, LeftBehindNames
  <2> QED BY Zenon, <1>3, <2>1, <2>2, <2>3, <2>4
<1>4. "RunScript" \in CancellableNames /\ "AnalyzeFuncs" \in CancellableNames
  BY Zenon DEF CancellableNames
<1> HIDE DEF parts
<1> QED BY Zenon, <1>2, <1>3, <1>4

\* A request that only reads, and one that changes the database.
LEMMA ReadRequest ==
    ASSUME NEW n \in ReadNames
    PROVE  Request(n) \in Requests /\ Request(n).effect = "read"
<1>1. Arms[n].effect = "read" /\ Arms[n].guarded \in BOOLEAN
  <2>1. CASE Arms[n] = Reads
    BY <2>1 DEF Reads
  <2>2. CASE Arms[n] = BareRead
    BY <2>2 DEF BareRead
  <2> QED BY Zenon, <2>1, <2>2, ArmsOf
<1>2. Request(n) = [wait |-> Calls[n], effect |-> "read",
                    guarded |-> Arms[n].guarded, name |-> "read"]
  BY Zenon, <1>1 DEF Request
<1> QED BY <1>1, <1>2, CallsOf DEF Requests

\* A request that changes the database: only the three that are left behind are
\* sent with a timeout.
LEMMA ChangeRequest ==
    ASSUME NEW n \in AwaitedNames \cup CancellableNames \cup LeftBehindNames
    PROVE  /\ Request(n) \in Requests
           /\ Request(n).wait = Timed => Request(n).name \in LeftBehindNames
<1> DEFINE Is(wait, effect, name) ==
               Request(n) = [wait |-> wait, effect |-> effect,
                             guarded |-> TRUE, name |-> name]
<1>1. CASE n \in AwaitedNames
  <2>1. Calls[n] = Waits /\ Arms[n] = Edits
    BY Zenon, <1>1, CallsOf, ArmsOf
  <2>2. Is(Waits, "edit", "edit")
    BY <2>1 DEF Request, Edits
  <2> QED BY <2>2 DEF Requests, Timed, Waits
<1>2. CASE n \in LeftBehindNames
  <2>1. Calls[n] = Timed /\ Arms[n] = Edits /\ n \in DOMAIN Calls
    BY Zenon, <1>2, CallsOf, ArmsOf
  <2>2. Is(Timed, "edit", n)
    BY <2>1 DEF Request, Edits, Timed, Waits
  <2> QED BY <1>2, <2>1, <2>2 DEF Requests
<1>3. CASE n = "RunScript"
  <2>1. Calls[n] = Cancellable /\ Arms[n] = Edits /\ n \in DOMAIN Calls
    BY Zenon, <1>3, CallsOf, ArmsOf DEF CancellableNames
  <2>2. Is(Cancellable, "edit", n)
    BY <2>1 DEF Request, Edits, Cancellable, Waits
  <2> QED BY <2>1, <2>2 DEF Requests, Timed, Cancellable
<1>4. CASE n = "AnalyzeFuncs"
  <2>1. Calls[n] = Cancellable /\ Arms[n] = Analyses /\ n \in DOMAIN Calls
    BY Zenon, <1>4, CallsOf, ArmsOf DEF CancellableNames
  <2>2. Is(Cancellable, "analyse", n)
    BY <2>1 DEF Request, Analyses, Cancellable, Waits
  <2> QED BY <2>1, <2>2 DEF Requests, Timed, Cancellable
<1> QED BY Zenon, <1>1, <1>2, <1>3, <1>4 DEF CancellableNames

---------------------------------------------------------------------------
(* The scripts.                                                            *)

\* A step that is no sample, skips nothing and may be left behind only at
\* the end of its call; one that moreover only reads.
PlainSteps ==
    {s \in Steps : /\ s.do # "sample" /\ s.skip = 0
                   /\ s.req.wait = Timed /\ s.req.effect # "read" =>
                          s.ends /\ s.req.name \in LeftBehindNames}
\* Steps of a script that only ask for a read.
ReadSteps ==
    {s \in Steps : s.do = "ask" /\ s.skip = 0 /\ s.req.effect = "read"}

\* What is shown of a tool's scripts, and of those of a read-only tool.
Fine(scripts) ==
    \A s \in scripts : s \in Seq(Steps) /\ WellFormed(s)
\* Scripts that only read.
Reading(scripts) ==
    \A s \in scripts :
        /\ s \in Seq(Steps) /\ WellFormed(s)
        /\ \A i \in DOMAIN s : s[i].req.effect = "read"

\* The fields of a step.
LEMMA StepFields ==
    ASSUME NEW s \in Steps
    PROVE  /\ s.skip \in Nat /\ s.req \in Requests
           /\ s.do \in {"ask", "sample", "spawn"} /\ s.ends \in BOOLEAN
  BY Zenon DEF Steps

\* Asking for a read.
LEMMA AskRead ==
    ASSUME NEW n \in ReadNames, NEW on
    PROVE  Ask(n, on) \in ReadSteps /\ Ask(n, on) \in PlainSteps
  BY ReadRequest DEF Ask, Step, ReadSteps, PlainSteps, Steps

\* Asking for a change, the call failing with it.
LEMMA AskChange ==
    ASSUME NEW n \in AwaitedNames \cup CancellableNames \cup LeftBehindNames
    PROVE  Ask(n, "fail") \in PlainSteps
  BY Zenon, ChangeRequest DEF Ask, Step, PlainSteps, Steps

\* Resolving an address, the steps that need it being skipped otherwise.
LEMMA ResolveStep ==
    ASSUME NEW n \in ReadNames, NEW k \in Nat
    PROVE  /\ Resolve(n, k) \in Steps
           /\ Resolve(n, k).do = "ask" /\ Resolve(n, k).skip = k
           /\ Resolve(n, k).req.effect = "read"
  BY Zenon, ReadRequest DEF Resolve, Step, Steps

\* Sampling the badge.
LEMMA SampleStep ==
    /\ Sample \in Steps /\ Sample.do = "sample" /\ Sample.skip = 0
    /\ Sample.req.effect = "read"
<1>1. "AnalysisStatus" \in ReadNames
  BY Zenon DEF ReadNames
<1> QED BY Zenon, <1>1, ReadRequest DEF Sample, Step, Steps

\* A script without samples and skips is well formed.
LEMMA PlainScript ==
    ASSUME NEW s \in Seq(PlainSteps)
    PROVE  s \in Seq(Steps) /\ WellFormed(s)
<1>1. \A i \in DOMAIN s : s[i] \in PlainSteps
  OBVIOUS
<1>2. s \in Seq(Steps)
  BY DEF PlainSteps
<1> QED BY <1>1, <1>2 DEF WellFormed, PlainSteps, LeftBehindNames

\* A script that only asks for reads, each skip within it.
Asking(s) ==
    /\ s \in Seq(Steps)
    /\ \A i \in DOMAIN s : /\ s[i].do = "ask" /\ s[i].req.effect = "read"
                           /\ i + s[i].skip <= Len(s)

\* Reads alone, or after a sample, make a read-only script.
LEMMA AskingReads ==
    ASSUME NEW s, Asking(s)
    PROVE  Reading({s}) /\ Reading({<<Sample>> \o s})
<1>1. s \in Seq(Steps)
  BY Zenon DEF Asking
<1>2. Reading({s})
  BY Zenon DEF Asking, WellFormed, Reading
<1> DEFINE b == <<Sample>> \o s
<1>3. b \in Seq(Steps) /\ Len(b) = Len(s) + 1
  BY <1>1, SampleStep
<1>4. ASSUME NEW i \in DOMAIN b
      PROVE  \/ i = 1 /\ b[i] = Sample
             \/ i - 1 \in DOMAIN s /\ b[i] = s[i - 1]
  <2>1. <<Sample>> \in Seq(Steps) /\ Len(<<Sample>>) = 1 /\ <<Sample>>[1] = Sample
    BY SampleStep
  <2>2. i \in 1 .. Len(s) + 1
    BY <1>3
  <2>3. b[i] = IF i <= 1 THEN <<Sample>>[i] ELSE s[i - 1]
    BY <1>1, <2>1, <2>2
  <2> QED BY <1>1, <2>1, <2>2, <2>3
<1>5. \A i \in DOMAIN s : s[i].skip \in Nat
  BY <1>1, StepFields
<1> HIDE DEF b
<1>6. ASSUME NEW i \in DOMAIN b
      PROVE  /\ b[i].do = "sample" => i = 1
             /\ b[i].req.effect = "read"
             /\ i + b[i].skip <= Len(b)
  <2>1. CASE i = 1 /\ b[i] = Sample
    BY <2>1, <1>1, <1>3, SampleStep
  <2>2. CASE i - 1 \in DOMAIN s /\ b[i] = s[i - 1]
    <3>1. /\ s[i - 1].do = "ask" /\ s[i - 1].req.effect = "read"
          /\ (i - 1) + s[i - 1].skip <= Len(s) /\ s[i - 1].skip \in Nat
      BY Zenon, <2>2, <1>5 DEF Asking
    <3>2. i \in Nat
      BY <1>3
    <3> QED BY <2>2, <3>1, <3>2, <1>1, <1>3
  <2> QED BY Zenon, <2>1, <2>2, <1>4
<1>7. Reading({b})
  BY Zenon, <1>3, <1>6 DEF WellFormed, Reading
<1> QED BY Zenon, <1>2, <1>7 DEF b

\* Reads after reads.
LEMMA AskingConcat ==
    ASSUME NEW s, NEW t, Asking(s), Asking(t)
    PROVE  Asking(s \o t)
<1>1. s \in Seq(Steps) /\ t \in Seq(Steps)
  BY Zenon DEF Asking
<1> DEFINE b == s \o t
<1>2. b \in Seq(Steps) /\ Len(b) = Len(s) + Len(t)
  BY <1>1
<1>3. \A i \in DOMAIN b :
          \/ i \in DOMAIN s /\ b[i] = s[i]
          \/ i - Len(s) \in DOMAIN t /\ b[i] = t[i - Len(s)]
  BY <1>1
<1>4. \A i \in DOMAIN s : s[i].skip \in Nat
  BY <1>1, StepFields
<1>5. \A i \in DOMAIN t : t[i].skip \in Nat
  BY <1>1, StepFields
<1> HIDE DEF b
<1>6. ASSUME NEW i \in DOMAIN b
      PROVE  /\ b[i].do = "ask" /\ b[i].req.effect = "read"
             /\ i + b[i].skip <= Len(b)
  <2>1. i \in Nat /\ Len(s) \in Nat /\ Len(t) \in Nat
    BY <1>1, <1>2
  <2>2. CASE i \in DOMAIN s /\ b[i] = s[i]
    BY <2>1, <2>2, <1>2, <1>4 DEF Asking
  <2>3. CASE i - Len(s) \in DOMAIN t /\ b[i] = t[i - Len(s)]
    BY <2>1, <2>3, <1>2, <1>5 DEF Asking
  <2> QED BY Zenon, <2>2, <2>3, <1>3
<1>7. Asking(b)
  BY Zenon, <1>2, <1>6 DEF Asking
<1> QED BY Zenon, <1>7 DEF b

\* Plain reads skip nothing.
LEMMA ReadsAsk ==
    ASSUME NEW s \in Seq(ReadSteps)
    PROVE  Asking(s)
<1>1. \A i \in DOMAIN s : s[i] \in ReadSteps
  OBVIOUS
<1>2. s \in Seq(Steps)
  BY DEF ReadSteps
<1> QED BY <1>1, <1>2 DEF ReadSteps, Asking

\* A script of plain reads is read-only, with or without a badge.
LEMMA ReadScript ==
    ASSUME NEW s \in Seq(ReadSteps)
    PROVE  Reading({s}) /\ Reading({<<Sample>> \o s})
  BY Zenon, ReadsAsk, AskingReads

\* Arithmetic of Repeat: the place in the part.
LEMMA RemainderInRange ==
    ASSUME NEW L \in Nat \ {0}, NEW i \in Nat
    PROVE  i % L \in 0 .. L - 1
  OBVIOUS

\* Arithmetic of Repeat: the length.
LEMMA ProductInNat ==
    ASSUME NEW L \in Nat \ {0}, NEW n \in Nat
    PROVE  n * L \in Nat
  OBVIOUS

\* The copies of a part.
LEMMA RepeatOf ==
    ASSUME NEW S, NEW part \in Seq(S), part # <<>>, NEW n \in Nat
    PROVE  /\ Repeat(part, n) \in Seq(S)
           /\ Len(Repeat(part, n)) = n * Len(part)
           /\ \A i \in 1 .. n * Len(part) :
                  /\ ((i - 1) % Len(part)) + 1 \in 1 .. Len(part)
                  /\ Repeat(part, n)[i] = part[((i - 1) % Len(part)) + 1]
<1> DEFINE L == Len(part)
<1>1. L \in Nat \ {0}
  OBVIOUS
<1>2. n * L \in Nat
  BY Zenon, <1>1, ProductInNat
<1>3. ASSUME NEW i \in 1 .. n * L
      PROVE  ((i - 1) % L) + 1 \in 1 .. L
  <2> HIDE DEF L
  <2>1. i - 1 \in Nat
    BY <1>1, <1>2
  <2>2. (i - 1) % L \in 0 .. L - 1
    BY Zenon, <2>1, <1>1, RemainderInRange
  <2> QED BY <2>2, <1>1
<1>4. ASSUME NEW i \in 1 .. n * L
      PROVE  part[((i - 1) % L) + 1] \in S
  BY <1>3
<1>5. Repeat(part, n) = [i \in 1 .. n * L |-> part[((i - 1) % L) + 1]]
  BY Zenon DEF Repeat
<1> HIDE DEF L
<1>6. Repeat(part, n) \in Seq(S) /\ Len(Repeat(part, n)) = n * L
  BY <1>4, <1>5, <1>2
<1> QED BY Zenon, <1>3, <1>5, <1>6 DEF L

\* The shapes the handlers share.
LEMMA OneReads ==
    ASSUME NEW n \in ReadNames
    PROVE  Reading(One(n)) /\ Reading({<<Ask(n, "fail")>>})
<1>1. <<Ask(n, "fail")>> \in Seq(ReadSteps)
  BY AskRead
<1> QED BY Zenon, <1>1, ReadScript DEF One

\* The tools with one request that changes the database.
LEMMA OneChanges ==
    ASSUME NEW n \in AwaitedNames \cup CancellableNames \cup LeftBehindNames
    PROVE  Fine(One(n)) /\ Fine({<<Ask(n, "fail")>>})
<1>1. <<Ask(n, "fail")>> \in Seq(PlainSteps)
  BY AskChange
<1> QED BY Zenon, <1>1, PlainScript DEF One, Fine

\* The tools with one read under a badge.
LEMMA CoveredReads ==
    ASSUME NEW n \in ReadNames
    PROVE  Reading(Covered(n)) /\ Reading({<<Sample, Ask(n, "fail")>>})
<1>1. <<Ask(n, "fail")>> \in Seq(ReadSteps)
  BY AskRead
<1>2. <<Sample, Ask(n, "fail")>> = <<Sample>> \o <<Ask(n, "fail")>>
  OBVIOUS
<1> QED BY Zenon, <1>1, <1>2, ReadScript DEF Covered

\* One read for each target.
LEMMA EntriesOf ==
    ASSUME NEW n \in ReadNames, NEW k \in Nat, NEW on
    PROVE  Repeat(<<Ask(n, on)>>, k) \in Seq(ReadSteps)
<1>1. <<Ask(n, on)>> \in Seq(ReadSteps) /\ <<Ask(n, on)>> # <<>>
  BY AskRead
<1> QED BY Zenon, <1>1, RepeatOf

\* The tools that collect one read for each target.
LEMMA CollectReads ==
    ASSUME NEW n \in ReadNames
    PROVE  Reading(Collect(<<>>, n)) /\ Reading(Collect(<<Sample>>, n))
<1>1. ASSUME NEW k \in 1 .. MaxTargets
      PROVE  /\ Reading({<<>> \o Repeat(<<Ask(n, "entry")>>, k)})
             /\ Reading({<<Sample>> \o Repeat(<<Ask(n, "entry")>>, k)})
  <2>1. k \in Nat
    BY MaxTargetsAssumption
  <2> DEFINE r == Repeat(<<Ask(n, "entry")>>, k)
  <2>2. r \in Seq(ReadSteps)
    BY Zenon, <2>1, EntriesOf
  <2> HIDE DEF r
  <2>3. <<>> \o r = r
    BY <2>2
  <2> QED BY Zenon, <2>2, <2>3, ReadScript DEF r
<1> QED BY Zenon, <1>1 DEF Collect, Reading

\* The tools that take one target or a batch.
LEMMA BatchReads ==
    ASSUME NEW n \in ReadNames
    PROVE  Reading(Batch(<<>>, n)) /\ Reading(Batch(<<Sample>>, n))
<1>1. ASSUME NEW k \in 2 .. MaxTargets
      PROVE  /\ Reading({<<>> \o Repeat(<<Ask(n, "entry")>>, k)})
             /\ Reading({<<Sample>> \o Repeat(<<Ask(n, "entry")>>, k)})
  <2>1. k \in Nat
    BY MaxTargetsAssumption
  <2> DEFINE r == Repeat(<<Ask(n, "entry")>>, k)
  <2>2. r \in Seq(ReadSteps)
    BY Zenon, <2>1, EntriesOf
  <2> HIDE DEF r
  <2>3. <<>> \o r = r
    BY <2>2
  <2> QED BY Zenon, <2>2, <2>3, ReadScript DEF r
<1>2. <<Ask(n, "fail")>> \in Seq(ReadSteps)
  BY AskRead
<1>3. <<>> \o <<Ask(n, "fail")>> = <<Ask(n, "fail")>>
  BY <1>2
<1>4. ASSUME NEW s \in Batch(<<>>, n) PROVE Reading({s})
  BY Zenon, <1>1, <1>3, OneReads DEF Batch
<1>5. ASSUME NEW s \in Batch(<<Sample>>, n) PROVE Reading({s})
  BY Zenon, <1>1, <1>2, ReadScript DEF Batch
<1> QED BY Zenon, <1>4, <1>5 DEF Reading

\* What is shown of every tool.
Honest(tool) ==
    Fine(tool.scripts) /\ (tool.read_only => Reading(tool.scripts))

\* A tool annotated read_only whose scripts read is honest.
LEMMA ReadOnlyHonest ==
    ASSUME NEW scripts, Reading(scripts)
    PROVE  Honest(ReadOnly(scripts))
  BY Zenon DEF Honest, ReadOnly, Reading, Fine

\* A tool that is not annotated has only to be well formed.
LEMMA WritesHonest ==
    ASSUME NEW scripts, Fine(scripts)
    PROVE  Honest(Writes(scripts))
  BY Zenon DEF Honest, Writes

\* Scripts that ask for nothing.
LEMMA NothingAsked == Reading({<<>>}) /\ Reading({<<Sample>>})
<1>1. <<>> \in Seq(ReadSteps)
  OBVIOUS
<1>2. <<Sample>> \o <<>> = <<Sample>>
  OBVIOUS
<1> QED BY Zenon, <1>1, <1>2, ReadScript

---------------------------------------------------------------------------
(* The composites.                                                         *)

\* The steps a failed resolve skips are those of the same target: a copy that
\* starts inside the script ends inside it.
LEMMA CopiesFit ==
    ASSUME NEW L \in {3, 4, 7}, NEW n \in Nat, NEW i \in 1 .. n * L,
           (i - 1) % L = 0
    PROVE  i + (L - 1) <= n * L
<1>1. CASE L = 3
  BY <1>1
<1>2. CASE L = 4
  BY <1>2
<1>3. CASE L = 7
  BY <1>3
<1> QED BY Zenon, <1>1, <1>2, <1>3

\* A token that does not resolve skips the sections of its own function.
LEMMA ResolvedAsk ==
    ASSUME NEW part \in Seq(ReadSteps), Len(part) \in {2, 3, 6}, NEW n \in Nat
    PROVE  Asking(Repeat(<<Resolve("FunctionAt", Len(part))>> \o part, n))
<1> DEFINE p == <<Resolve("FunctionAt", Len(part))>> \o part
           r == Repeat(p, n)
<1>1. "FunctionAt" \in ReadNames
  BY Zenon DEF ReadNames
<1>2. part \in Seq(Steps) /\ \A i \in DOMAIN part : part[i] \in ReadSteps
  BY DEF ReadSteps
<1>3. <<Resolve("FunctionAt", Len(part))>> \in Seq(Steps)
  BY <1>1, ResolveStep
<1>4. p \in Seq(Steps) /\ Len(p) = Len(part) + 1
  BY <1>2, <1>3
<1>5. /\ p[1] = Resolve("FunctionAt", Len(part))
      /\ \A i \in 2 .. Len(p) : p[i] \in ReadSteps
  BY <1>2, <1>3
<1>6. \A i \in 1 .. Len(p) :
          /\ p[i].do = "ask" /\ p[i].req.effect = "read"
          /\ p[i].skip = IF i = 1 THEN Len(p) - 1 ELSE 0
  BY <1>1, <1>4, <1>5, ResolveStep DEF ReadSteps
<1> HIDE DEF p
<1>7. Len(p) \in {3, 4, 7} /\ p # <<>>
  <2>1. Len(part) = 2 \/ Len(part) = 3 \/ Len(part) = 6
    BY Zenon
  <2>2. \A k, l \in Nat : l = k + 1 /\ (k = 2 \/ k = 3 \/ k = 6) => l \in {3, 4, 7}
    OBVIOUS
  <2>3. Len(p) \in Nat /\ Len(part) \in Nat /\ Len(p) = Len(part) + 1
    BY <1>4
  <2>4. Len(p) \in {3, 4, 7}
    BY <2>1, <2>2, <2>3, Zenon
  <2> QED BY <1>4, <2>4
<1>8. /\ r \in Seq(Steps) /\ Len(r) = n * Len(p)
      /\ \A i \in 1 .. n * Len(p) :
             /\ ((i - 1) % Len(p)) + 1 \in 1 .. Len(p)
             /\ r[i] = p[((i - 1) % Len(p)) + 1]
  BY Zenon, <1>4, <1>7, RepeatOf
<1> HIDE DEF r
<1>9. ASSUME NEW i \in DOMAIN r
      PROVE  /\ r[i].do = "ask" /\ r[i].req.effect = "read"
             /\ i + r[i].skip <= Len(r)
  <2>1. i \in 1 .. n * Len(p)
    BY <1>8
  <2>2. PICK k \in 1 .. Len(p) : k = ((i - 1) % Len(p)) + 1 /\ r[i] = p[k]
    BY Zenon, <2>1, <1>8
  <2>3. r[i].do = "ask" /\ r[i].req.effect = "read"
    BY Zenon, <2>2, <1>6
  <2>4. CASE k = 1
    <3>1. (i - 1) % Len(p) = 0
      BY <2>2, <2>4, <1>7
    <3>2. i + (Len(p) - 1) <= n * Len(p)
      BY Zenon, <3>1, <2>1, <1>7, CopiesFit
    <3> QED BY Zenon, <3>2, <2>2, <2>3, <2>4, <1>6, <1>8
  <2>5. CASE k # 1
    <3>1. r[i].skip = 0
      BY Zenon, <2>2, <2>5, <1>6
    <3> QED BY <3>1, <2>1, <2>3, <1>8
  <2> QED BY Zenon, <2>4, <2>5
<1>10. Asking(r)
  BY Zenon, <1>8, <1>9 DEF Asking
<1> QED BY Zenon, <1>10 DEF r, p

\* One request that reads.
LEMMA CallsWithOneRead ==
    ASSUME NEW tool \in
              {resolve_function, function_at, disasm_by_name,
               disasm_function_at, lookup_funcs, segments, entrypoints,
               stack_frame, struct_info, infer_types, lumina_lookup,
               analysis_status, dsc_list_images, dsc_image_deps,
               dsc_find_symbols, dsc_find_strings, dsc_region_at}
    PROVE  Honest(tool)
<1>1. \E n \in ReadNames : tool = ReadOnly(One(n))
  BY DEF ReadNames,
         resolve_function, function_at, disasm_by_name, disasm_function_at,
         lookup_funcs, segments, entrypoints, stack_frame, struct_info,
         infer_types, lumina_lookup, analysis_status, dsc_list_images,
         dsc_image_deps, dsc_find_symbols, dsc_find_strings, dsc_region_at,
         One
<1> QED BY Zenon, <1>1, OneReads, ReadOnlyHonest

\* A badge, then the request it describes.
LEMMA CallsWithABadge ==
    ASSUME NEW tool \in
              {list_functions, list_funcs, addr_info, imports, exports,
               xrefs_to_string, xref_matrix, xrefs_to_field, find_paths,
               strings, find_string, list_globals, analyze_strings,
               find_insns, find_insn_operands, local_types, structs,
               search_structs, idb_meta}
    PROVE  Honest(tool)
<1>1. \E n \in ReadNames : tool = ReadOnly(Covered(n))
  BY DEF ReadNames,
         list_functions, list_funcs, addr_info, imports, exports,
         xrefs_to_string, xref_matrix, xrefs_to_field, find_paths, strings,
         find_string, list_globals, analyze_strings, find_insns,
         find_insn_operands, local_types, structs, search_structs, idb_meta,
         Covered
<1> QED BY Zenon, <1>1, CoveredReads, ReadOnlyHonest

\* One request per target, with a badge or without.
LEMMA Batches ==
    ASSUME NEW tool \in
              {disasm, decompile, pseudocode_at, xrefs_to, xrefs_from,
               basic_blocks, callees, callers, callgraph, get_bytes, get_u8,
               get_u16, get_u32, get_u64, make_signature, get_int,
               get_string, get_global_value}
    PROVE  Honest(tool)
<1>1. \E n \in ReadNames : \/ tool = ReadOnly(Batch(<<>>, n))
                          \/ tool = ReadOnly(Batch(<<Sample>>, n))
  BY DEF ReadNames,
         disasm, decompile, pseudocode_at, xrefs_to, xrefs_from,
         basic_blocks, callees, callers, callgraph, get_bytes, get_u8,
         get_u16, get_u32, get_u64, make_signature, get_int, get_string,
         get_global_value, get_int_values, get_typed_int_values,
         xrefs_lookup
<1> QED BY Zenon, <1>1, BatchReads, ReadOnlyHonest

\* The same, all failures being entries.
LEMMA Collections ==
    ASSUME NEW tool \in
              {find_bytes, read_struct}
    PROVE  Honest(tool)
<1>1. \E n \in ReadNames : tool = ReadOnly(Collect(<<>>, n))
  BY Zenon DEF ReadNames,
         find_bytes, read_struct
<1> QED BY Zenon, <1>1, CollectReads, ReadOnlyHonest

\* One request that changes the database.
LEMMA CallsWithOneChange ==
    ASSUME NEW tool \in
              {put_int, declare_type, declare_stack, delete_stack,
               apply_types, lumina_apply, bookmark_add, comment_append,
               set_comments, patch_asm, rename, patch, load_debug_info}
    PROVE  Honest(tool)
<1>1. \E n \in AwaitedNames \cup CancellableNames \cup LeftBehindNames :
          tool = Writes(One(n))
  BY Zenon DEF AwaitedNames, LeftBehindNames, One,
         put_int, declare_type, declare_stack, delete_stack, apply_types,
         lumina_apply, bookmark_add, comment_append, set_comments,
         patch_asm, rename, patch, load_debug_info
<1> QED BY Zenon, <1>1, OneChanges, WritesHonest

\* Answered without the loop.
LEMMA CallsWithoutRequests ==
    ASSUME NEW tool \in
              {int_convert, tool_catalog, tool_help, task_status,
               recent_operations}
    PROVE  Honest(tool)
<1>1. tool = ReadOnly({<<>>})
  BY Zenon DEF int_convert, tool_catalog, tool_help, task_status, recent_operations
<1> QED BY Zenon, <1>1, NothingAsked, ReadOnlyHonest

\* Several shapes in one tool.
LEMMA MixedReads == Honest(export_funcs) /\ Honest(search)
<1>1. "LookupFunctions" \in ReadNames /\ "ExportFuncs" \in ReadNames
  BY Zenon DEF ReadNames
<1>2. Honest(export_funcs)
  BY Zenon, <1>1, CoveredReads, NothingAsked, ReadOnlyHonest
     DEF export_funcs, Reading
<1>3. "SearchText" \in ReadNames /\ "SearchImm" \in ReadNames
  BY Zenon DEF ReadNames
<1>4. Honest(search)
  BY Zenon, <1>3, CollectReads, NothingAsked, ReadOnlyHonest DEF search, Reading
<1> QED BY Zenon, <1>2, <1>4

\* The tools that edit, run a script or start the analysis.
LEMMA MixedChanges ==
    /\ Honest(sdk_mutation) /\ Honest(dsc_add_dylib) /\ Honest(dsc_add_region)
    /\ Honest(analyze_funcs) /\ Honest(run_script)
<1>1. /\ "SdkEdit" \in AwaitedNames /\ "SdkRead" \in ReadNames
      /\ "DscLoadImage" \in LeftBehindNames
      /\ "DscLoadRegion" \in LeftBehindNames
      /\ "AnalysisStatus" \in ReadNames
      /\ "AnalyzeFuncs" \in CancellableNames /\ "RunScript" \in CancellableNames
  BY Zenon DEF AwaitedNames, ReadNames, LeftBehindNames, CancellableNames
<1>2. Honest(sdk_mutation)
  BY Zenon, <1>1, OneReads, OneChanges, WritesHonest DEF sdk_mutation, Reading, Fine
<1>3. ASSUME NEW n \in LeftBehindNames
      PROVE  Fine({<<Ask(n, "fail"), Ask("AnalysisStatus", "entry")>>})
  <2>1. <<Ask(n, "fail"), Ask("AnalysisStatus", "entry")>> \in Seq(PlainSteps)
    BY <1>1, AskRead, AskChange
  <2> QED BY Zenon, <2>1, PlainScript DEF Fine
<1>4. Honest(dsc_add_dylib) /\ Honest(dsc_add_region)
  BY Zenon, <1>1, <1>3, WritesHonest DEF dsc_add_dylib, dsc_add_region
<1>5. ASSUME NEW n \in CancellableNames
      PROVE  Foreground(n) \in PlainSteps
  BY Zenon, ChangeRequest DEF Foreground, Step, PlainSteps, Steps
<1>6. ASSUME NEW n \in CancellableNames
      PROVE  Fine({<<Foreground(n)>>})
  <2>1. <<Foreground(n)>> \in Seq(PlainSteps)
    BY <1>5
  <2> QED BY Zenon, <2>1, PlainScript DEF Fine
<1>7. Fine({<<Spawn>>})
  <2>1. Spawn \in PlainSteps
    BY Zenon, <1>1, ChangeRequest DEF Spawn, Step, PlainSteps, Steps
  <2>2. <<Spawn>> \in Seq(PlainSteps)
    BY <2>1
  <2> QED BY Zenon, <2>2, PlainScript DEF Fine
<1>8. Honest(analyze_funcs)
  BY Zenon, <1>1, <1>6, <1>7, WritesHonest DEF analyze_funcs, Fine
<1>9. Honest(run_script)
  BY Zenon, <1>1, <1>6, WritesHonest DEF run_script
<1> QED BY Zenon, <1>2, <1>4, <1>8, <1>9

\* survey_binary.
LEMMA SurveyReads == Honest(survey_binary)
<1> DEFINE listings ==
               <<Ask("IdbMeta", "fail"), Ask("Segments", "fail"),
                 Ask("Entrypoints", "fail"), Ask("ListFunctions", "fail"),
                 Ask("Strings", "fail"), Ask("Imports", "fail"),
                 Ask("Exports", "fail")>>
           metrics == <<Ask("SdkRead", "entry")>>
<1>1. {"IdbMeta", "Segments", "Entrypoints", "ListFunctions", "Strings",
       "Imports", "Exports", "SdkRead"} \subseteq ReadNames
  BY Zenon DEF ReadNames
<1>2. listings \in Seq(ReadSteps)
  BY <1>1, AskRead
<1>3. metrics \in Seq(ReadSteps)
  BY <1>1, AskRead
<1>4. survey_listings = <<Sample>> \o listings
  BY DEF survey_listings
<1> HIDE DEF listings, metrics
<1>5. Reading({<<Sample>> \o listings})
  BY Zenon, <1>2, ReadScript
<1>6. listings \o metrics \in Seq(ReadSteps)
  BY <1>2, <1>3
<1>7. Reading({<<Sample>> \o (listings \o metrics)})
  BY Zenon, <1>6, ReadScript
<1>8. (<<Sample>> \o listings) \o metrics = <<Sample>> \o (listings \o metrics)
  <2>1. /\ <<Sample>> \in Seq(Steps) /\ listings \in Seq(Steps)
        /\ metrics \in Seq(Steps)
    BY <1>2, <1>3, SampleStep, ReadsAsk DEF Asking
  <2> QED BY <2>1
<1>9. Reading({survey_listings, survey_listings \o metrics})
  BY Zenon, <1>4, <1>5, <1>7, <1>8 DEF Reading
<1> QED BY Zenon, <1>9, ReadOnlyHonest DEF survey_binary, metrics

\* analyze_component.
LEMMA ComponentReads == Honest(analyze_component)
<1>1. {"FunctionAt", "XrefsToString", "Callees", "Callers", "BasicBlocks",
       "XRefsFrom", "AddrInfo"} \subseteq ReadNames
  BY Zenon DEF ReadNames
<1>2. component_function \in Seq(ReadSteps) /\ component_function # <<>>
  BY <1>1, AskRead DEF component_function
<1>3. ASSUME NEW n \in 1 .. MaxTargets
      PROVE  Reading({<<Sample>> \o Repeat(<<Ask("FunctionAt", "invalid")>>, n)
                        \o <<Ask("XrefsToString", "entry")>>
                        \o Repeat(component_function, n)
                        \o <<Ask("AddrInfo", "silent")>>})
  <2> DEFINE a == Repeat(<<Ask("FunctionAt", "invalid")>>, n)
             b == <<Ask("XrefsToString", "entry")>>
             c == Repeat(component_function, n)
             d == <<Ask("AddrInfo", "silent")>>
  <2>1. n \in Nat
    BY MaxTargetsAssumption
  <2>2. a \in Seq(ReadSteps)
    BY Zenon, <1>1, <2>1, EntriesOf
  <2>3. c \in Seq(ReadSteps)
    BY Zenon, <1>2, <2>1, RepeatOf
  <2>4. b \in Seq(ReadSteps) /\ d \in Seq(ReadSteps)
    BY <1>1, AskRead
  <2>5. <<Sample>> \in Seq(Steps)
    BY SampleStep
  <2> HIDE DEF a, b, c, d
  <2>6. a \in Seq(Steps) /\ b \in Seq(Steps) /\ c \in Seq(Steps) /\ d \in Seq(Steps)
    BY Zenon, <2>2, <2>3, <2>4, ReadsAsk DEF Asking
  <2>7. a \o b \in Seq(ReadSteps)
    BY <2>2, <2>4
  <2>8. (a \o b) \o c \in Seq(ReadSteps)
    BY <2>3, <2>7
  <2>9. ((a \o b) \o c) \o d \in Seq(ReadSteps)
    BY <2>4, <2>8
  <2>10. /\ a \o b \in Seq(Steps)
         /\ (a \o b) \o c \in Seq(Steps)
    BY <2>6
  <2>11. (<<Sample>> \o a) \o b = <<Sample>> \o (a \o b)
    BY <2>5, <2>6
  <2>12. (<<Sample>> \o (a \o b)) \o c = <<Sample>> \o ((a \o b) \o c)
    BY <2>5, <2>6, <2>10
  <2>13. (<<Sample>> \o ((a \o b) \o c)) \o d = <<Sample>> \o (((a \o b) \o c) \o d)
    BY <2>5, <2>6, <2>10
  <2>14. Reading({<<Sample>> \o (((a \o b) \o c) \o d)})
    BY Zenon, <2>9, ReadScript
  <2>15. Reading({(((<<Sample>> \o a) \o b) \o c) \o d})
    BY Zenon, <2>11, <2>12, <2>13, <2>14
  <2> QED BY Zenon, <2>15 DEF a, b, c, d
<1>4. \A s \in analyze_component.scripts : Reading({s})
  BY Zenon, <1>3 DEF analyze_component, ReadOnly
<1>5. Reading(analyze_component.scripts)
  BY Zenon, <1>4 DEF Reading
<1> QED BY Zenon, <1>5 DEF Honest, Fine, Reading

\* analyze_function.
LEMMA AnalyzeFunctionReads == Honest(analyze_function)
<1>1. {"XrefsToString", "Decompile", "DisasmFunctionAt", "Callers", "Callees",
       "StackFrame", "BasicBlocks"} \subseteq ReadNames
  BY Zenon DEF ReadNames
<1>2. ASSUME NEW all \in BOOLEAN
      PROVE  /\ analyze_function_sections(all) \in Seq(ReadSteps)
             /\ Len(analyze_function_sections(all)) \in {2, 3, 6}
  <2>1. CASE all
    BY <1>1, <2>1, AskRead DEF analyze_function_sections
  <2>2. CASE ~all
    BY <1>1, <2>2, AskRead DEF analyze_function_sections
  <2> QED BY Zenon, <2>1, <2>2
<1> DEFINE strs(all) == IF all THEN <<Ask("XrefsToString", "entry")>> ELSE <<>>
           part(all) == <<Resolve("FunctionAt",
                                  Len(analyze_function_sections(all)))>>
                            \o analyze_function_sections(all)
<1>3. ASSUME NEW all \in BOOLEAN, NEW n \in 1 .. MaxTargets
      PROVE  Reading({strs(all) \o Repeat(part(all), n)})
  <2>1. n \in Nat
    BY MaxTargetsAssumption
  <2>2. strs(all) \in Seq(ReadSteps)
    BY <1>1, AskRead
  <2>3. Asking(Repeat(part(all), n))
    BY Zenon, <1>2, <2>1, ResolvedAsk
  <2> HIDE DEF strs, part
  <2>4. Asking(strs(all))
    BY Zenon, <2>2, ReadsAsk
  <2>5. Asking(strs(all) \o Repeat(part(all), n))
    BY Zenon, <2>3, <2>4, AskingConcat
  <2> QED BY Zenon, <2>5, AskingReads
<1>4. ASSUME NEW all \in BOOLEAN
      PROVE  Reading(analyze_function_scripts(all))
  <2>1. ASSUME NEW s \in analyze_function_scripts(all)
        PROVE  \E n \in 1 .. MaxTargets : s = strs(all) \o Repeat(part(all), n)
    BY Zenon DEF analyze_function_scripts
  <2> HIDE DEF strs, part
  <2>2. \A s \in analyze_function_scripts(all) : Reading({s})
    BY <1>3, <2>1, Zenon
  <2> QED BY Zenon, <2>2 DEF Reading
<1>5. Reading(analyze_function_scripts(TRUE) \cup analyze_function_scripts(FALSE))
  BY Zenon, <1>4 DEF Reading
<1> QED BY Zenon, <1>5, ReadOnlyHonest DEF analyze_function

\* func_profile.
LEMMA ProfileReads == Honest(func_profile)
<1>1. {"XrefsToString", "Callers", "Callees", "BasicBlocks"} \subseteq ReadNames
  BY ZenonT(30) DEF ReadNames
<1>2. profile_sections \in Seq(ReadSteps) /\ Len(profile_sections) \in {2, 3, 6}
  BY <1>1, AskRead DEF profile_sections
<1> DEFINE strs == <<Ask("XrefsToString", "entry")>>
           part == <<Resolve("FunctionAt", Len(profile_sections))>>
                       \o profile_sections
<1>3. ASSUME NEW n \in 1 .. MaxTargets
      PROVE  Reading({<<Sample, Ask("XrefsToString", "entry")>> \o Repeat(part, n)})
  <2>1. n \in Nat
    BY MaxTargetsAssumption
  <2>2. strs \in Seq(ReadSteps)
    BY <1>1, AskRead
  <2>3. Asking(Repeat(part, n))
    BY Zenon, <1>2, <2>1, ResolvedAsk
  <2>4. <<Sample, Ask("XrefsToString", "entry")>> = <<Sample>> \o strs
    OBVIOUS
  <2> HIDE DEF strs, part
  <2>5. Asking(strs)
    BY Zenon, <2>2, ReadsAsk
  <2>6. Asking(strs \o Repeat(part, n))
    BY Zenon, <2>3, <2>5, AskingConcat
  <2>7. Reading({<<Sample>> \o (strs \o Repeat(part, n))})
    BY Zenon, <2>6, AskingReads
  <2>8. (<<Sample>> \o strs) \o Repeat(part, n) = <<Sample>> \o (strs \o Repeat(part, n))
    BY <2>3, <2>5, SampleStep DEF Asking
  <2> QED BY Zenon, <2>4, <2>7, <2>8
<1>4. \A s \in func_profile.scripts : Reading({s})
  BY Zenon, <1>3 DEF func_profile, ReadOnly
<1>5. Reading(func_profile.scripts)
  BY Zenon, <1>4 DEF Reading
<1> QED BY Zenon, <1>5 DEF Honest, Fine, Reading

\* trace_data_flow.
LEMMA TraceReads == Honest(trace_data_flow)
<1>1. {"AddrInfo", "Disasm", "XRefsFrom", "XRefsTo"} \subseteq ReadNames
  BY Zenon DEF ReadNames
<1>2. trace_data_flow_node \in Seq(ReadSteps)
  BY <1>1, AskRead DEF trace_data_flow_node
<1> DEFINE hop(xrefs) == <<Ask(xrefs, "silent")>> \o trace_data_flow_node
<1>3. ASSUME NEW xrefs \in {"XRefsFrom", "XRefsTo"}, NEW hops \in 0 .. MaxTargets
      PROVE  Reading({<<Sample>> \o trace_data_flow_node \o Repeat(hop(xrefs), hops)})
  <2>1. hops \in Nat
    BY MaxTargetsAssumption
  <2>2. <<Ask(xrefs, "silent")>> \in Seq(ReadSteps)
    BY <1>1, AskRead
  <2>3. hop(xrefs) \in Seq(ReadSteps) /\ hop(xrefs) # <<>>
    BY <1>2, <2>2
  <2> HIDE DEF hop
  <2>4. Repeat(hop(xrefs), hops) \in Seq(ReadSteps)
    BY Zenon, <2>1, <2>3, RepeatOf
  <2>5. trace_data_flow_node \o Repeat(hop(xrefs), hops) \in Seq(ReadSteps)
    BY <1>2, <2>4
  <2>6. Reading({<<Sample>> \o (trace_data_flow_node \o Repeat(hop(xrefs), hops))})
    BY Zenon, <2>5, ReadScript
  <2>7. (<<Sample>> \o trace_data_flow_node) \o Repeat(hop(xrefs), hops)
          = <<Sample>> \o (trace_data_flow_node \o Repeat(hop(xrefs), hops))
    BY <1>2, <2>4, ReadsAsk, SampleStep DEF Asking
  <2> QED BY Zenon, <2>6, <2>7
<1>4. ASSUME NEW xrefs \in {"XRefsFrom", "XRefsTo"}
      PROVE  Reading(trace_data_flow_scripts(xrefs))
  <2>1. ASSUME NEW s \in trace_data_flow_scripts(xrefs)
        PROVE  \E hops \in 0 .. MaxTargets :
                   s = <<Sample>> \o trace_data_flow_node \o Repeat(hop(xrefs), hops)
    BY Zenon DEF trace_data_flow_scripts
  <2> HIDE DEF hop
  <2> QED BY Zenon, <1>3, <2>1 DEF Reading
<1>5. Reading(trace_data_flow_scripts("XRefsFrom")
                \cup trace_data_flow_scripts("XRefsTo"))
  BY Zenon, <1>4 DEF Reading
<1> QED BY Zenon, <1>5, ReadOnlyHonest DEF trace_data_flow

\* diff_before_after, which edits between two reads.
LEMMA DiffIsFine == Honest(diff_before_after)
<1>1. /\ {"FunctionAt", "Decompile"} \subseteq ReadNames
      /\ {"Rename", "ApplyTypes", "SetComments", "SdkEdit"} \subseteq AwaitedNames
  BY Zenon DEF ReadNames, AwaitedNames
<1>2. Ask("SdkEdit", "entry") \in PlainSteps
  <2>1. Request("SdkEdit") \in Requests /\ Request("SdkEdit").wait = Waits
    BY Zenon, <1>1, ChangeRequest, CallsOf DEF Request
  <2> QED BY <2>1 DEF Ask, Step, PlainSteps, Steps, Waits, Timed
<1>3. ASSUME NEW action \in {"Rename", "ApplyTypes", "SetComments"}
      PROVE  Fine({<<Ask("FunctionAt", "fail"), Ask("Decompile", "entry"),
                     Ask(action, "fail"), Ask("SdkEdit", "entry"),
                     Ask("Decompile", "entry")>>})
  <2>1. <<Ask("FunctionAt", "fail"), Ask("Decompile", "entry"),
          Ask(action, "fail"), Ask("SdkEdit", "entry"),
          Ask("Decompile", "entry")>> \in Seq(PlainSteps)
    BY <1>1, <1>2, AskRead, AskChange
  <2> QED BY Zenon, <2>1, PlainScript DEF Fine
<1>4. Fine({<<Ask("FunctionAt", "fail"), Ask("Decompile", "entry"),
              Ask(action, "fail"), Ask("SdkEdit", "entry"),
              Ask("Decompile", "entry")>>
            : action \in {"Rename", "ApplyTypes", "SetComments"}})
  BY Zenon, <1>3 DEF Fine
<1> QED BY Zenon, <1>4, WritesHonest DEF diff_before_after

\* Every tool's scripts are well-formed, and a read-only tool's only read.
LEMMA EveryTool == \A tool \in Tools : Honest(tool)
  BY CallsWithOneRead, CallsWithABadge, Batches, Collections,
     CallsWithOneChange, CallsWithoutRequests, MixedReads, MixedChanges,
     SurveyReads, AnalyzeFunctionReads, ComponentReads, DiffIsFine,
     TraceReads, ProfileReads
     DEF Tools

\* A tool annotated read_only asks for nothing that edits the database or
\* runs the analysis, however many targets a batch names and whichever
\* branch its handler takes.
THEOREM ReadOnlyToolsRead == ReadOnlyToolsOnlyRead
  BY Zenon, EveryTool DEF ReadOnlyToolsOnlyRead, Honest, Reading

---------------------------------------------------------------------------
(* Moving along a script.                                                  *)

\* The badge has been sampled, or is not to be.
NoSample(s) == \A i \in DOMAIN s : s[i].do # "sample"

\* What is left of a script after its first n steps.
LEMMA Suffix ==
    ASSUME NEW s \in Seq(Steps), WellFormed(s), NEW n \in 1 .. Len(s)
    PROVE  LET t == SubSeq(s, n + 1, Len(s))
           IN  /\ t \in Seq(Steps) /\ Len(t) = Len(s) - n
               /\ WellFormed(t) /\ NoSample(t)
               /\ \A i \in DOMAIN t : i + n \in DOMAIN s /\ t[i] = s[i + n]
<1> DEFINE t == SubSeq(s, n + 1, Len(s))
<1>1. t \in Seq(Steps) /\ Len(t) = Len(s) - n
  OBVIOUS
<1>2. ASSUME NEW i \in DOMAIN t PROVE i + n \in DOMAIN s /\ t[i] = s[i + n]
  BY <1>1
<1> HIDE DEF t
<1>3. \A i \in DOMAIN s : s[i].skip \in Nat
  BY StepFields
<1>4. ASSUME NEW i \in DOMAIN t PROVE i + t[i].skip <= Len(t)
  <2>1. i \in Nat
    BY <1>1
  <2>2. (i + n) + s[i + n].skip <= Len(s)
    BY Zenon, <1>2 DEF WellFormed
  <2> QED BY SMTT(30), <2>1, <2>2, <1>1, <1>2, <1>3
<1>5. NoSample(t)
  <2> SUFFICES ASSUME NEW i \in DOMAIN t, t[i].do = "sample" PROVE FALSE
    BY Zenon DEF NoSample
  <2>1. i + n = 1
    BY Zenon, <1>2 DEF WellFormed
  <2>2. i \in Nat \ {0}
    BY <1>1
  <2> QED BY <2>1, <2>2
<1>6. WellFormed(t)
  BY Zenon, <1>2, <1>4, <1>5 DEF WellFormed, NoSample
<1> QED BY Zenon, <1>1, <1>2, <1>5, <1>6 DEF t

\* Actor a goes on with t, the end of its script.
Moves(a, t) ==
    /\ t \in Seq(Steps) /\ WellFormed(t) /\ NoSample(t)
    /\ \A i \in DOMAIN t : \E j \in DOMAIN todo[a] : t[i] = todo[a][j]
    /\ todo' = [todo EXCEPT ![a] = t]
    /\ pc' = [pc EXCEPT ![a] = IF t = <<>> THEN "idle" ELSE "run"]

\* Advancing goes on with the end of the script.
LEMMA AdvanceMoves ==
    ASSUME Channel, Scripts, NEW a \in Actors, NEW n \in 1 .. Len(todo[a]),
           Advance(a, n)
    PROVE  \E t : Moves(a, t)
<1> DEFINE s == todo[a]
           t == SubSeq(s, n + 1, Len(s))
<1>1. s \in Seq(Steps) /\ WellFormed(s)
  BY Zenon DEF Channel, Scripts
<1>2. /\ t \in Seq(Steps) /\ Len(t) = Len(s) - n
      /\ WellFormed(t) /\ NoSample(t)
      /\ \A i \in DOMAIN t : i + n \in DOMAIN s /\ t[i] = s[i + n]
  BY Zenon, <1>1, Suffix
<1>3. todo' = [todo EXCEPT ![a] = t]
  BY Zenon DEF Advance
<1>4. pc' = [pc EXCEPT ![a] = IF Len(s) = n THEN "idle" ELSE "run"]
  BY Zenon DEF Advance
<1> HIDE DEF s, t
<1>5. Len(s) = n <=> t = <<>>
  <2>1. n \in Nat /\ Len(s) \in Nat
    BY <1>1 DEF s
  <2> QED BY <1>2, <2>1
<1>6. \A i \in DOMAIN t : \E j \in DOMAIN todo[a] : t[i] = todo[a][j]
  BY Zenon, <1>2 DEF s
<1> QED BY Zenon, <1>2, <1>3, <1>4, <1>5, <1>6 DEF Moves

\* Ending leaves nothing of it.
LEMMA EndMoves ==
    ASSUME NEW a \in Actors, End(a)
    PROVE  Moves(a, <<>>)
  BY DEF End, Moves, WellFormed, NoSample

\* The head of the script at hand.
LEMMA HeadStep ==
    ASSUME Channel, Scripts, NEW a \in Actors, pc[a] # "idle"
    PROVE  /\ todo[a] \in Seq(Steps) /\ Len(todo[a]) \in Nat \ {0}
           /\ Head(todo[a]) = todo[a][1] /\ Head(todo[a]) \in Steps
           /\ 1 + Head(todo[a]).skip \in 1 .. Len(todo[a])
           /\ 1 \in DOMAIN todo[a]
<1> DEFINE s == todo[a]
<1>1. s \in Seq(Steps) /\ WellFormed(s) /\ s # <<>>
  BY Zenon DEF Channel, Scripts
<1> HIDE DEF s
<1>2. Len(s) \in Nat \ {0} /\ Head(s) = s[1] /\ Head(s) \in Steps
  BY <1>1
<1>3. Head(s).skip \in Nat
  BY Zenon, <1>2, StepFields
<1>4. 1 + s[1].skip <= Len(s)
  BY <1>1, <1>2 DEF WellFormed
<1>5. 1 \in DOMAIN s
  BY <1>1, <1>2
<1> QED BY <1>1, <1>2, <1>3, <1>4, <1>5 DEF s

\* A failure goes on with the end of the script, or ends the call.
LEMMA FailedMoves ==
    ASSUME Channel, Scripts, NEW a \in Actors, pc[a] # "idle", Failed(a)
    PROVE  \E t : Moves(a, t) /\ (Head(todo[a]).ends => t = <<>>)
<1>1. CASE Head(todo[a]).ends
  <2>1. End(a)
    BY Zenon, <1>1 DEF Failed
  <2> QED BY Zenon, <2>1, EndMoves
<1>2. CASE ~Head(todo[a]).ends
  <2>1. Advance(a, 1 + Head(todo[a]).skip)
    BY Zenon, <1>2 DEF Failed
  <2>2. 1 + Head(todo[a]).skip \in 1 .. Len(todo[a])
    BY Zenon, HeadStep
  <2>3. \E t : Moves(a, t)
    BY Zenon, <2>1, <2>2, AdvanceMoves
  <2> QED BY Zenon, <2>3, <1>2
<1> QED BY Zenon, <1>1, <1>2

---------------------------------------------------------------------------
(* The channel and the scripts.                                            *)

\* The part of the invariant that is about the channel and the scripts.
Struct ==
    /\ Channel /\ Scripts /\ TaskAnalyses /\ Awaited /\ EditsAreAwaited
    /\ OneAtATime /\ InOrder

\* An actor that moves on leaves the others' scripts as they are.
LEMMA MoveScripts ==
    ASSUME Channel, Scripts, TaskAnalyses, OneAtATime, serial' = serial,
           NEW a \in Actors, pc[a] # "idle", NEW t, Moves(a, t)
    PROVE  /\ todo' \in [Actors -> Seq(Steps)]
           /\ pc' \in [Actors -> {"idle", "run", "wait"}]
           /\ pc'[a] # "wait" /\ (t = <<>> => pc'[a] = "idle")
           /\ todo'[a] = t
           /\ \A b \in Actors \ {a} : pc'[b] = pc[b] /\ todo'[b] = todo[b]
           /\ Scripts' /\ TaskAnalyses' /\ OneAtATime'
<1>1. /\ todo' \in [Actors -> Seq(Steps)]
      /\ pc' \in [Actors -> {"idle", "run", "wait"}]
      /\ pc'[a] # "wait" /\ (t = <<>> => pc'[a] = "idle")
      /\ pc'[a] # "idle" => t # <<>>
      /\ todo'[a] = t
      /\ \A b \in Actors \ {a} : pc'[b] = pc[b] /\ todo'[b] = todo[b]
  BY Zenon DEF Moves, Channel
<1>2. Scripts'
  <2> SUFFICES ASSUME NEW b \in Actors
               PROVE  WellFormed(todo'[b]) /\ (pc'[b] # "idle" => todo'[b] # <<>>)
    BY Zenon DEF Scripts, WellFormed
  <2>1. CASE b = a
    BY Zenon, <1>1, <2>1 DEF Moves
  <2>2. CASE b # a
    BY Zenon, <1>1, <2>2 DEF Scripts
  <2> QED BY Zenon, <2>1, <2>2
<1>3. TaskAnalyses'
  <2>1. CASE a = Task
    BY <1>1, <2>1 DEF TaskAnalyses, Moves
  <2>2. CASE a # Task
    BY Zenon, <1>1, <2>2 DEF TaskAnalyses, Actors
  <2> QED BY Zenon, <2>1, <2>2
<1>4. OneAtATime'
  BY Zenon, <1>1 DEF OneAtATime, Actors
<1> QED BY Zenon, <1>1, <1>2, <1>3, <1>4

\* The channel after its head was taken.
LEMMA TailOf ==
    ASSUME Channel, queue # <<>>, queue' = Tail(queue)
    PROVE  /\ queue' \in Seq(Entries) /\ Len(queue') = Len(queue) - 1
           /\ 1 \in DOMAIN queue /\ Head(queue) = queue[1]
           /\ Head(queue) \in Entries
           /\ \A i \in DOMAIN queue' :
                  i \in Nat \ {0} /\ i + 1 \in DOMAIN queue /\ queue'[i] = queue[i + 1]
           /\ \A i \in DOMAIN queue :
                  i # 1 => i - 1 \in DOMAIN queue' /\ queue'[i - 1] = queue[i]
<1> DEFINE q == queue
           r == queue'
<1>1. q \in Seq(Entries) /\ q # <<>> /\ r = Tail(q)
  BY Zenon DEF Channel
<1> HIDE DEF q, r
<1>2. /\ r \in Seq(Entries) /\ Len(r) = Len(q) - 1 /\ Head(q) = q[1]
      /\ Len(q) \in Nat \ {0} /\ Head(q) \in Entries
      /\ \A i \in 1 .. Len(r) : r[i] = q[i + 1]
  BY <1>1
<1>3. \A i \in DOMAIN r :
          i \in Nat \ {0} /\ i + 1 \in DOMAIN q /\ r[i] = q[i + 1]
  BY <1>1, <1>2
<1>4. ASSUME NEW i \in DOMAIN q, i # 1
      PROVE  i - 1 \in DOMAIN r /\ r[i - 1] = q[i]
  <2>1. i \in 1 .. Len(q) /\ DOMAIN r = 1 .. Len(r)
    BY <1>1, <1>2
  <2>2. i - 1 \in 1 .. Len(r) /\ (i - 1) + 1 = i
    BY <1>2, <1>4, <2>1
  <2> QED BY Zenon, <2>1, <2>2, <1>2
<1>5. 1 \in DOMAIN q
  BY <1>1, <1>2
<1> QED BY Zenon, <1>2, <1>3, <1>4, <1>5 DEF q, r

\* The loop took a request; its actor, if it has one, moves on.
LEMMA ServedStruct ==
    ASSUME Struct, serial' = serial, queue # <<>>, queue' = Tail(queue),
           \/ Head(queue).by = Nobody /\ UNCHANGED <<todo, pc>>
           \/ Head(queue).by \in Actors /\ \E t : Moves(Head(queue).by, t)
    PROVE  Struct'
<1>0. Channel /\ Scripts /\ TaskAnalyses /\ Awaited /\ OneAtATime
  BY Zenon DEF Struct
<1> DEFINE h == Head(queue).by
<1>1. /\ queue' \in Seq(Entries)
      /\ 1 \in DOMAIN queue /\ queue[1].by = h
      /\ \A i \in DOMAIN queue' :
             i \in Nat \ {0} /\ i + 1 \in DOMAIN queue /\ queue'[i] = queue[i + 1]
      /\ \A i \in DOMAIN queue :
             i # 1 => i - 1 \in DOMAIN queue' /\ queue'[i - 1] = queue[i]
  BY Zenon, <1>0, TailOf
<1>2. \A i \in DOMAIN queue' : i + 1 # 1
  BY <1>1
<1>3. h \in Actors => pc[h] = "wait"
  BY <1>0, <1>1 DEF Awaited
<1>4. /\ Scripts' /\ TaskAnalyses' /\ OneAtATime'
      /\ todo' \in [Actors -> Seq(Steps)]
      /\ pc' \in [Actors -> {"idle", "run", "wait"}]
      /\ h \in Actors => pc'[h] # "wait"
      /\ \A b \in Actors : b # h => pc'[b] = pc[b] /\ todo'[b] = todo[b]
  <2>1. CASE h = Nobody /\ UNCHANGED <<todo, pc>>
    <3>1. h \notin Actors
      BY Zenon, <2>1, CallsAssumption DEF Actors
    <3>2. Scripts'
      BY Zenon, <1>0, <2>1 DEF Scripts
    <3>3. TaskAnalyses' /\ OneAtATime'
      BY Zenon, <1>0, <2>1 DEF TaskAnalyses, OneAtATime
    <3> QED BY Zenon, <1>0, <2>1, <3>1, <3>2, <3>3 DEF Channel
  <2>2. CASE h \in Actors /\ \E t : Moves(h, t)
    <3>1. PICK t : Moves(h, t)
      BY Zenon, <2>2
    <3> QED BY Zenon, <1>0, <1>3, <2>2, <3>1, MoveScripts
  <2> QED BY Zenon, <2>1, <2>2
<1> HIDE DEF h
<1>5. Awaited'
  <2>1. ASSUME NEW a \in Actors, pc'[a] = "wait"
        PROVE  \E i \in DOMAIN queue' : queue'[i].by = a
    <3>1. a # h /\ pc[a] = "wait"
      BY Zenon, <1>4, <2>1
    <3>2. PICK i \in DOMAIN queue : queue[i].by = a
      BY Zenon, <1>0, <3>1 DEF Awaited
    <3> QED BY Zenon, <1>1, <3>1, <3>2
  <2>2. ASSUME NEW i \in DOMAIN queue', queue'[i].by \in Actors
        PROVE  /\ pc'[queue'[i].by] = "wait"
               /\ queue'[i].req = Head(todo'[queue'[i].by]).req
    <3>1. PICK j \in DOMAIN queue : j # 1 /\ queue'[i] = queue[j]
      BY Zenon, <1>1, <1>2
    <3>2. PICK b \in Actors : b = queue[j].by
      BY Zenon, <2>2, <3>1
    <3>3. b # h
      BY Zenon, <1>0, <1>1, <3>1, <3>2 DEF Awaited
    <3>4. pc[b] = "wait" /\ queue[j].req = Head(todo[b]).req
      BY Zenon, <1>0, <3>2 DEF Awaited
    <3>5. pc'[b] = "wait" /\ todo'[b] = todo[b]
      BY Zenon, <1>4, <3>3, <3>4
    <3> QED BY Zenon, <3>1, <3>2, <3>4, <3>5
  <2>3. ASSUME NEW i \in DOMAIN queue', NEW j \in DOMAIN queue',
               queue'[i].by \in Actors, queue'[i].by = queue'[j].by
        PROVE  i = j
    <3>1. i + 1 = j + 1
      BY <1>0, <1>1, <2>3 DEF Awaited
    <3> QED BY <1>1, <3>1
  <2> QED BY Zenon, <2>1, <2>2, <2>3 DEF Awaited
<1>6. EditsAreAwaited'
  BY <1>1 DEF Struct, EditsAreAwaited
<1>7. InOrder'
  <2> SUFFICES ASSUME serial, NEW i \in DOMAIN queue', NEW j \in DOMAIN queue',
                      i < j, queue'[i].by \in Callers
               PROVE  ~Stale(queue'[j])
    BY Zenon DEF InOrder, Stale
  <2>1. i + 1 < j + 1
    BY <1>1
  <2> QED BY Zenon, <1>1, <2>1 DEF Struct, InOrder
<1> QED BY Zenon, <1>1, <1>4, <1>5, <1>6, <1>7 DEF Struct, Channel

\* A request that could not be sent, or a call that hands over to the task:
\* the actor moves on and the channel stays as it is.
LEMMA MovedStruct ==
    ASSUME Struct, serial' = serial, queue' = queue,
           NEW a \in Actors, pc[a] = "run", NEW t, Moves(a, t)
    PROVE  Struct'
<1>0. Channel /\ Scripts /\ TaskAnalyses /\ Awaited /\ OneAtATime
  BY Zenon DEF Struct
<1>1. /\ todo' \in [Actors -> Seq(Steps)]
      /\ pc' \in [Actors -> {"idle", "run", "wait"}]
      /\ pc'[a] # "wait"
      /\ \A b \in Actors \ {a} : pc'[b] = pc[b] /\ todo'[b] = todo[b]
      /\ Scripts' /\ TaskAnalyses' /\ OneAtATime'
  BY Zenon, <1>0, MoveScripts
<1>2. Awaited'
  <2>1. ASSUME NEW b \in Actors, pc'[b] = "wait"
        PROVE  \E i \in DOMAIN queue : queue[i].by = b
    BY Zenon, <1>0, <1>1, <2>1 DEF Awaited
  <2>2. ASSUME NEW i \in DOMAIN queue, queue[i].by \in Actors
        PROVE  /\ pc'[queue[i].by] = "wait"
               /\ queue[i].req = Head(todo'[queue[i].by]).req
    <3>1. PICK b \in Actors : b = queue[i].by
      BY Zenon, <2>2
    <3>2. pc[b] = "wait" /\ queue[i].req = Head(todo[b]).req
      BY Zenon, <1>0, <3>1 DEF Awaited
    <3>3. pc'[b] = "wait" /\ todo'[b] = todo[b]
      BY Zenon, <1>1, <3>2
    <3> QED BY Zenon, <3>1, <3>2, <3>3
  <2> QED BY Zenon, <1>0, <2>1, <2>2 DEF Awaited
<1>3. EditsAreAwaited' /\ InOrder'
  BY Zenon DEF Struct, EditsAreAwaited, InOrder, Stale
<1> QED BY Zenon, <1>0, <1>1, <1>2, <1>3 DEF Struct, Channel

\* A request was put at the end of the channel.
LEMMA SentStruct ==
    ASSUME Struct, serial' = serial, NEW a \in Actors, pc[a] = "run",
           queue' = Append(queue, [by |-> a, req |-> Head(todo[a]).req,
                                   cancelled |-> FALSE]),
           pc' = [pc EXCEPT ![a] = "wait"], todo' = todo
    PROVE  Struct'
<1>0. Channel /\ Scripts /\ TaskAnalyses /\ Awaited /\ OneAtATime
  BY Zenon DEF Struct
<1> DEFINE e == [by |-> a, req |-> Head(todo[a]).req, cancelled |-> FALSE]
           n == Len(queue) + 1
<1>1. Head(todo[a]).req \in Requests
  BY Zenon, <1>0, HeadStep, StepFields
<1>2. /\ e \in Entries /\ e.by = a /\ e.req = Head(todo[a]).req
      /\ a # Nobody
  BY Zenon, <1>1, CallsAssumption DEF Entries, Actors
<1> HIDE DEF e
<1>3. /\ queue' \in Seq(Entries) /\ n \in Nat /\ n \notin DOMAIN queue
      /\ DOMAIN queue' = DOMAIN queue \cup {n}
      /\ queue'[n] = e
      /\ \A i \in DOMAIN queue : i \in Nat /\ i < n /\ queue'[i] = queue[i]
  <2> DEFINE q == queue
             r == queue'
  <2>1. q \in Seq(Entries) /\ r = Append(q, e)
    BY Zenon, <1>0 DEF Channel, e
  <2> HIDE DEF q, r
  <2>2. /\ r \in Seq(Entries) /\ Len(r) = Len(q) + 1 /\ Len(q) \in Nat
        /\ r[Len(q) + 1] = e /\ \A i \in 1 .. Len(q) : r[i] = q[i]
    BY <2>1, <1>2
  <2>3. DOMAIN q = 1 .. Len(q) /\ DOMAIN r = 1 .. Len(q) + 1
    BY <2>1, <2>2
  <2>4. 1 .. Len(q) + 1 = (1 .. Len(q)) \cup {Len(q) + 1}
    BY <2>2
  <2> QED BY <2>2, <2>3, <2>4 DEF q, r
<1> HIDE DEF n
<1>4. /\ pc' \in [Actors -> {"idle", "run", "wait"}]
      /\ pc'[a] = "wait" /\ \A b \in Actors \ {a} : pc'[b] = pc[b]
  BY Zenon, <1>0 DEF Channel
<1>5. Scripts' /\ TaskAnalyses'
  BY Zenon, <1>0, <1>4 DEF Scripts, TaskAnalyses
<1>6. OneAtATime'
  BY Zenon, <1>0, <1>4 DEF OneAtATime, Actors
<1>7. \A i \in DOMAIN queue : queue[i].by # a
  BY Zenon, <1>0 DEF Awaited
<1>8. Awaited'
  <2>1. ASSUME NEW b \in Actors, pc'[b] = "wait"
        PROVE  \E i \in DOMAIN queue' : queue'[i].by = b
    <3>1. CASE b = a
      BY Zenon, <3>1, <1>2, <1>3
    <3>2. CASE b # a
      BY <3>2, <2>1, <1>0, <1>3, <1>4 DEF Awaited
    <3> QED BY Zenon, <3>1, <3>2
  <2>2. ASSUME NEW i \in DOMAIN queue', queue'[i].by \in Actors
        PROVE  /\ pc'[queue'[i].by] = "wait"
               /\ queue'[i].req = Head(todo'[queue'[i].by]).req
    <3>1. CASE i = n
      BY Zenon, <3>1, <1>2, <1>3, <1>4
    <3>2. CASE i \in DOMAIN queue
      <4>1. PICK b \in Actors : b = queue[i].by
        BY Zenon, <2>2, <3>2, <1>3
      <4>2. b # a /\ pc[b] = "wait" /\ queue[i].req = Head(todo[b]).req
        BY Zenon, <1>0, <1>7, <3>2, <4>1 DEF Awaited
      <4> QED BY Zenon, <1>3, <1>4, <3>2, <4>1, <4>2
    <3> QED BY Zenon, <1>3, <3>1, <3>2
  <2>3. ASSUME NEW i \in DOMAIN queue', NEW j \in DOMAIN queue',
               queue'[i].by \in Actors, queue'[i].by = queue'[j].by
        PROVE  i = j
    BY <1>0, <1>2, <1>3, <1>7, <2>3 DEF Awaited
  <2> QED BY Zenon, <2>1, <2>2, <2>3 DEF Awaited
<1>9. EditsAreAwaited'
  BY <1>2, <1>3 DEF Struct, EditsAreAwaited
<1>10. InOrder'
  <2> SUFFICES ASSUME serial, NEW i \in DOMAIN queue', NEW j \in DOMAIN queue',
                      i < j, queue'[i].by \in Callers
               PROVE  ~Stale(queue'[j])
    BY Zenon DEF InOrder, Stale
  <2>1. CASE j = n
    BY Zenon, <2>1, <1>2, <1>3 DEF Stale
  <2>2. CASE j \in DOMAIN queue
    <3>1. i \in DOMAIN queue
      BY <2>2, <1>3
    <3> QED BY Zenon, <2>2, <3>1, <1>3 DEF Struct, InOrder
  <2> QED BY Zenon, <2>1, <2>2, <1>3
<1> QED BY Zenon, <1>0, <1>3, <1>4, <1>5, <1>6, <1>8, <1>9, <1>10 DEF Struct, Channel

\* The entry of the channel that a timeout or a cancellation changed.
LEMMA EntryChanged ==
    ASSUME Channel, NEW i \in DOMAIN queue, NEW by \in Actors \cup {Nobody},
           NEW c \in BOOLEAN,
           queue' = [queue EXCEPT ![i] = [by |-> by, req |-> queue[i].req,
                                          cancelled |-> c]]
    PROVE  /\ queue' \in Seq(Entries) /\ DOMAIN queue' = DOMAIN queue
           /\ Len(queue') = Len(queue)
           /\ queue'[i].by = by /\ queue'[i].req = queue[i].req
           /\ queue'[i].cancelled = c
           /\ \A j \in DOMAIN queue : j # i => queue'[j] = queue[j]
<1> DEFINE q == queue
           r == queue'
           e == [by |-> by, req |-> queue[i].req, cancelled |-> c]
<1>1. q \in Seq(Entries) /\ i \in 1 .. Len(q)
  BY DEF Channel
<1>2. e \in Entries
  <2>1. queue[i] \in Entries
    BY <1>1
  <2>2. queue[i].req \in Requests
    BY Zenon, <2>1 DEF Entries
  <2> QED BY Zenon, <2>2 DEF Entries
<1>3. r = [q EXCEPT ![i] = e]
  BY Zenon
<1>4. e.by = by /\ e.req = queue[i].req /\ e.cancelled = c
  BY Zenon
<1> HIDE DEF q, r, e
<1>5. r \in Seq(Entries) /\ Len(r) = Len(q)
      /\ \A j \in 1 .. Len(q) : r[j] = IF j = i THEN e ELSE q[j]
  BY <1>1, <1>2, <1>3
<1>6. DOMAIN r = DOMAIN q /\ DOMAIN q = 1 .. Len(q)
  BY <1>1, <1>5
<1>7. r[i] = e /\ \A j \in DOMAIN q : j # i => r[j] = q[j]
  BY Zenon, <1>1, <1>5, <1>6
<1> QED BY Zenon, <1>4, <1>5, <1>6, <1>7 DEF q, r

\* recv_with_timeout gave up: the request is left behind in the channel.
LEMMA TimedOutStruct ==
    ASSUME Struct, NEW c \in Callers, TimeOut(c)
    PROVE  Struct'
<1>0. Channel /\ Scripts /\ TaskAnalyses /\ Awaited /\ OneAtATime
      /\ serial' = serial /\ pc[c] = "wait" /\ c \in Actors
  BY Zenon DEF Struct, TimeOut, Actors
<1> DEFINE w == Head(todo[c]).req.wait
<1>1. PICK i \in Pending(c) : queue' = [queue EXCEPT ![i] = LeftBehind(queue[i])]
  BY Zenon DEF TimeOut
<1>2. i \in DOMAIN queue /\ queue[i].by = c
  BY Zenon DEF Pending
<1>3. queue[i].req = Head(todo[c]).req
  BY Zenon, <1>0, <1>2 DEF Awaited
<1> DEFINE x == (queue[i].cancelled \/ queue[i].req.wait = Cancellable)
<1>4. queue' = [queue EXCEPT ![i] = [by |-> Nobody, req |-> queue[i].req,
                                     cancelled |-> x]]
  BY Zenon, <1>1 DEF LeftBehind
<1>5. x \in BOOLEAN
  BY Zenon
<1> HIDE DEF x
<1>6. /\ queue' \in Seq(Entries) /\ DOMAIN queue' = DOMAIN queue
      /\ queue'[i].by = Nobody /\ queue'[i].req = queue[i].req
      /\ queue'[i].cancelled = x
      /\ \A j \in DOMAIN queue : j # i => queue'[j] = queue[j]
  BY Zenon, <1>0, <1>2, <1>4, <1>5, EntryChanged
<1>7. PICK t : Moves(c, t) /\ (Head(todo[c]).ends => t = <<>>)
  BY Zenon, <1>0, FailedMoves DEF TimeOut
<1>8. /\ todo' \in [Actors -> Seq(Steps)]
      /\ pc' \in [Actors -> {"idle", "run", "wait"}]
      /\ pc'[c] # "wait"
      /\ \A b \in Actors \ {c} : pc'[b] = pc[b] /\ todo'[b] = todo[b]
      /\ Scripts' /\ TaskAnalyses' /\ OneAtATime'
  BY Zenon, <1>0, <1>7, MoveScripts
<1>9. Nobody \notin Actors
  BY Zenon, CallsAssumption DEF Actors
<1>10. \A j \in DOMAIN queue : j # i => queue[j].by # c
  BY Zenon, <1>0, <1>2 DEF Awaited
<1>11. Awaited'
  <2>1. ASSUME NEW b \in Actors, pc'[b] = "wait"
        PROVE  \E j \in DOMAIN queue' : queue'[j].by = b
    <3>1. b # c /\ pc[b] = "wait"
      BY Zenon, <1>8, <2>1
    <3>2. PICK j \in DOMAIN queue : queue[j].by = b
      BY Zenon, <1>0, <3>1 DEF Awaited
    <3> QED BY Zenon, <1>2, <1>6, <3>1, <3>2
  <2>2. ASSUME NEW j \in DOMAIN queue', queue'[j].by \in Actors
        PROVE  /\ pc'[queue'[j].by] = "wait"
               /\ queue'[j].req = Head(todo'[queue'[j].by]).req
    <3>1. j \in DOMAIN queue /\ j # i /\ queue'[j] = queue[j]
      BY Zenon, <1>6, <1>9, <2>2
    <3>2. PICK b \in Actors : b = queue[j].by
      BY Zenon, <2>2, <3>1
    <3>3. b # c /\ pc[b] = "wait" /\ queue[j].req = Head(todo[b]).req
      BY Zenon, <1>0, <1>10, <3>1, <3>2 DEF Awaited
    <3> QED BY Zenon, <1>8, <3>1, <3>2, <3>3
  <2>3. ASSUME NEW j \in DOMAIN queue', NEW k \in DOMAIN queue',
               queue'[j].by \in Actors, queue'[j].by = queue'[k].by
        PROVE  j = k
    BY Zenon, <1>0, <1>6, <1>9, <2>3 DEF Awaited
  <2> QED BY Zenon, <2>1, <2>2, <2>3 DEF Awaited
<1>12. EditsAreAwaited'
  <2> SUFFICES ASSUME NEW j \in DOMAIN queue', queue'[j].by = Nobody,
                      queue'[j].req.effect # "read", ~queue'[j].cancelled
               PROVE  queue'[j].req.name \in {"PutInt", "DscLoadImage", "DscLoadRegion"}
    BY Zenon DEF EditsAreAwaited
  <2>1. CASE j = i
    <3>1. w # Cancellable
      BY Zenon, <1>3, <1>6, <2>1 DEF x
    <3>3. w \in {Timed, Waits, Cancellable}
      BY Zenon, <1>0, HeadStep, StepFields DEF Requests
    <3>4. w = Timed
      BY Zenon, <3>1, <3>3 DEF TimeOut
    <3>5. Head(todo[c]) = todo[c][1] /\ 1 \in DOMAIN todo[c] /\ WellFormed(todo[c])
      BY Zenon, <1>0, HeadStep DEF Scripts
    <3> QED BY <1>3, <1>6, <2>1, <3>4, <3>5 DEF WellFormed
  <2>2. CASE j # i
    BY Zenon, <2>2, <1>6 DEF Struct, EditsAreAwaited
  <2> QED BY Zenon, <2>1, <2>2
<1>13. InOrder'
  <2> SUFFICES ASSUME serial, NEW j \in DOMAIN queue', NEW k \in DOMAIN queue',
                      j < k, queue'[j].by \in Callers
               PROVE  ~Stale(queue'[k])
    BY Zenon, <1>0 DEF InOrder, Stale
  <2>1. queue'[j].by \in Actors
    BY Zenon DEF Actors
  <2>2. j # i /\ j \in DOMAIN queue /\ queue'[j] = queue[j]
    BY Zenon, <2>1, <1>6, <1>9
  <2>3. pc[queue[j].by] = "wait" /\ queue[j].by # c
    BY Zenon, <2>1, <2>2, <1>0, <1>10 DEF Awaited
  <2>4. FALSE
    BY Zenon, <2>2, <2>3, <1>0 DEF OneAtATime
  <2> QED BY Zenon, <2>4
<1> QED BY Zenon, <1>6, <1>8, <1>11, <1>12, <1>13 DEF Struct, Channel

\* A task's token was cancelled while it waits.
LEMMA CancelledStruct ==
    ASSUME Struct, CancelTask
    PROVE  Struct'
<1>0. /\ Channel /\ Scripts /\ TaskAnalyses /\ Awaited /\ OneAtATime
      /\ serial' = serial /\ todo' = todo /\ pc' = pc
  BY Zenon DEF Struct, CancelTask
<1>1. PICK i \in Pending(Task) :
          queue' = [queue EXCEPT ![i] = [by |-> Task, req |-> queue[i].req,
                                         cancelled |-> TRUE]]
  BY Zenon DEF CancelTask
<1>2. i \in DOMAIN queue /\ queue[i].by = Task /\ Task \in Actors
  BY Zenon DEF Pending, Actors
<1>3. /\ queue' \in Seq(Entries) /\ DOMAIN queue' = DOMAIN queue
      /\ queue'[i].by = Task /\ queue'[i].req = queue[i].req
      /\ queue'[i].cancelled = TRUE
      /\ \A j \in DOMAIN queue : j # i => queue'[j] = queue[j]
  BY Zenon, <1>0, <1>1, <1>2, EntryChanged
<1>4. Task # Nobody /\ Task \notin Callers
  BY Zenon, CallsAssumption
<1>5. \A j \in DOMAIN queue :
          queue'[j].by = queue[j].by /\ queue'[j].req = queue[j].req
  BY Zenon, <1>2, <1>3
<1>6. Awaited'
  <2>1. ASSUME NEW b \in Actors, pc[b] = "wait"
        PROVE  \E j \in DOMAIN queue' : queue'[j].by = b
    BY <1>0, <1>3, <1>5, <2>1 DEF Awaited
  <2>2. ASSUME NEW j \in DOMAIN queue', queue'[j].by \in Actors
        PROVE  /\ pc[queue'[j].by] = "wait"
               /\ queue'[j].req = Head(todo[queue'[j].by]).req
    BY Zenon, <1>0, <1>3, <1>5, <2>2 DEF Awaited
  <2>3. ASSUME NEW j \in DOMAIN queue', NEW k \in DOMAIN queue',
               queue'[j].by \in Actors, queue'[j].by = queue'[k].by
        PROVE  j = k
    BY Zenon, <1>0, <1>3, <1>5, <2>3 DEF Awaited
  <2> QED BY Zenon, <1>0, <2>1, <2>2, <2>3 DEF Awaited
<1>7. EditsAreAwaited'
  BY Zenon, <1>2, <1>3, <1>4 DEF Struct, EditsAreAwaited
<1>8. InOrder'
  <2> SUFFICES ASSUME serial, NEW j \in DOMAIN queue', NEW k \in DOMAIN queue',
                      j < k, queue'[j].by \in Callers
               PROVE  ~Stale(queue'[k])
    BY Zenon, <1>0 DEF InOrder, Stale
  <2>1. queue[j].by \in Callers /\ j \in DOMAIN queue /\ k \in DOMAIN queue
    BY Zenon, <1>3, <1>5
  <2>2. CASE k = i
    BY Zenon, <2>2, <1>3, <1>4 DEF Stale
  <2>3. CASE k # i
    BY Zenon, <2>1, <2>3, <1>3 DEF Struct, InOrder
  <2> QED BY Zenon, <2>2, <2>3
<1>9. Scripts' /\ TaskAnalyses' /\ OneAtATime'
  BY Zenon, <1>0 DEF Scripts, TaskAnalyses, OneAtATime
<1> QED BY Zenon, <1>0, <1>3, <1>6, <1>7, <1>8, <1>9 DEF Struct, Channel

\* A call begins with a script of some tool.
LEMMA BegunStruct ==
    ASSUME Struct, NEW c \in Callers, Begin(c)
    PROVE  Struct'
<1>0. /\ Channel /\ Scripts /\ TaskAnalyses /\ Awaited /\ OneAtATime
      /\ serial' = serial /\ queue' = queue /\ pc[c] = "idle" /\ c \in Actors
      /\ c # Task
  BY Zenon, CallsAssumption DEF Struct, Begin, Actors
<1>1. PICK tool \in Tools : \E script \in tool.scripts :
          Len(script) \in 1 .. Longest[c] /\ todo' = [todo EXCEPT ![c] = script]
  BY Zenon DEF Begin
<1>a. PICK script \in tool.scripts :
          Len(script) \in 1 .. Longest[c] /\ todo' = [todo EXCEPT ![c] = script]
  BY Zenon, <1>1
<1>2. script \in Seq(Steps) /\ WellFormed(script)
  BY Zenon, <1>a, EveryTool DEF Honest, Fine
<1>3. script # <<>>
  BY <1>a, <1>2
<1>4. /\ todo' \in [Actors -> Seq(Steps)]
      /\ todo'[c] = script /\ \A b \in Actors \ {c} : todo'[b] = todo[b]
  BY Zenon, <1>0, <1>a, <1>2 DEF Channel
<1>5. /\ pc' \in [Actors -> {"idle", "run", "wait"}]
      /\ pc'[c] = "run" /\ \A b \in Actors \ {c} : pc'[b] = pc[b]
  BY Zenon, <1>0 DEF Channel, Begin
<1>6. Scripts'
  <2> SUFFICES ASSUME NEW b \in Actors
               PROVE  WellFormed(todo'[b]) /\ (pc'[b] # "idle" => todo'[b] # <<>>)
    BY Zenon DEF Scripts, WellFormed
  <2>1. CASE b = c
    BY Zenon, <1>2, <1>3, <1>4, <2>1
  <2>2. CASE b # c
    BY Zenon, <1>0, <1>4, <1>5, <2>2 DEF Scripts
  <2> QED BY Zenon, <2>1, <2>2
<1>7. TaskAnalyses'
  BY Zenon, <1>0, <1>4 DEF TaskAnalyses, Actors
<1>8. Awaited'
  <2>1. ASSUME NEW b \in Actors, pc'[b] = "wait"
        PROVE  \E i \in DOMAIN queue : queue[i].by = b
    BY Zenon, <1>0, <1>5, <2>1 DEF Awaited
  <2>2. ASSUME NEW i \in DOMAIN queue, queue[i].by \in Actors
        PROVE  /\ pc'[queue[i].by] = "wait"
               /\ queue[i].req = Head(todo'[queue[i].by]).req
    <3>1. PICK b \in Actors : b = queue[i].by
      BY Zenon, <2>2
    <3>2. pc[b] = "wait" /\ queue[i].req = Head(todo[b]).req /\ b # c
      BY Zenon, <1>0, <3>1 DEF Awaited
    <3> QED BY Zenon, <1>4, <1>5, <3>1, <3>2
  <2> QED BY Zenon, <1>0, <2>1, <2>2 DEF Awaited
<1>9. EditsAreAwaited' /\ InOrder'
  BY Zenon, <1>0 DEF Struct, EditsAreAwaited, InOrder, Stale
<1>10. OneAtATime'
  <2>1. ASSUME serial PROVE \A d \in Callers : d # c => pc'[d] = "idle"
    BY Zenon, <1>5, <2>1 DEF Begin, Actors
  <2> QED BY Zenon, <1>0, <2>1 DEF OneAtATime
<1> QED BY Zenon, <1>0, <1>4, <1>5, <1>6, <1>7, <1>8, <1>9, <1>10 DEF Struct, Channel

\* A call hands over to the analysis task, or is refused because one runs.
LEMMA SpawnedStruct ==
    ASSUME Struct, NEW c \in Callers, SpawnAnalysis(c)
    PROVE  Struct'
<1>0. /\ Channel /\ Scripts /\ TaskAnalyses /\ Awaited /\ OneAtATime
      /\ serial' = serial /\ queue' = queue /\ pc[c] = "run" /\ c \in Actors
      /\ c # Task /\ Task \in Actors /\ Task \notin Callers
  BY Zenon, CallsAssumption DEF Struct, SpawnAnalysis, Running, Actors
<1>1. CASE pc[Task] # "idle" /\ End(c)
  BY Zenon, <1>0, <1>1, EndMoves, MovedStruct
<1> DEFINE ask == Ask("AnalyzeFuncs", "entry")
<1>2. CASE /\ pc[Task] = "idle"
           /\ todo' = [todo EXCEPT ![c] = <<>>, ![Task] = <<ask>>]
           /\ pc' = [pc EXCEPT ![c] = "idle", ![Task] = "run"]
  <2>1. /\ ask \in Steps /\ ask.do = "ask" /\ ask.skip = 0
        /\ ask.req.effect = "analyse" /\ ask.req.wait = Cancellable
    <3>1. "AnalyzeFuncs" \in CancellableNames
      BY Zenon DEF CancellableNames
    <3>2. Request("AnalyzeFuncs") \in Requests
      BY Zenon, <3>1, ChangeRequest
    <3>3. /\ Request("AnalyzeFuncs").effect = "analyse"
          /\ Request("AnalyzeFuncs").wait = Cancellable
      BY <3>1, CallsOf, ArmsOf DEF Request, Analyses
    <3> QED BY <3>2, <3>3 DEF Ask, Step, Steps
  <2> HIDE DEF ask
  <2>2. <<ask>> \in Seq(Steps) /\ <<ask>> # <<>> /\ WellFormed(<<ask>>)
    BY <2>1 DEF WellFormed, Cancellable, Timed
  <2>3. <<>> \in Seq(Steps) /\ WellFormed(<<>>)
    BY DEF WellFormed
  <2>4. /\ todo' \in [Actors -> Seq(Steps)]
        /\ todo'[c] = <<>> /\ todo'[Task] = <<ask>>
        /\ \A b \in Actors \ {c, Task} : todo'[b] = todo[b]
    BY Zenon, <1>0, <1>2, <2>2, <2>3 DEF Channel
  <2>5. /\ pc' \in [Actors -> {"idle", "run", "wait"}]
        /\ pc'[c] = "idle" /\ pc'[Task] = "run"
        /\ \A b \in Actors \ {c, Task} : pc'[b] = pc[b]
    BY Zenon, <1>0, <1>2 DEF Channel
  <2>6. Scripts'
    <3> SUFFICES ASSUME NEW b \in Actors
                 PROVE  WellFormed(todo'[b]) /\ (pc'[b] # "idle" => todo'[b] # <<>>)
      BY Zenon DEF Scripts, WellFormed
    <3>1. CASE b = c
      BY Zenon, <2>3, <2>4, <2>5, <3>1
    <3>2. CASE b = Task
      BY Zenon, <2>2, <2>4, <2>5, <3>2
    <3>3. CASE b # c /\ b # Task
      BY Zenon, <1>0, <2>4, <2>5, <3>3 DEF Scripts
    <3> QED BY Zenon, <3>1, <3>2, <3>3
  <2>7. TaskAnalyses'
    BY <2>1, <2>4 DEF TaskAnalyses
  <2>8. Awaited'
    <3>1. ASSUME NEW b \in Actors, pc'[b] = "wait"
          PROVE  \E i \in DOMAIN queue : queue[i].by = b
      BY Zenon, <1>0, <2>5, <3>1 DEF Awaited
    <3>2. ASSUME NEW i \in DOMAIN queue, queue[i].by \in Actors
          PROVE  /\ pc'[queue[i].by] = "wait"
                 /\ queue[i].req = Head(todo'[queue[i].by]).req
      <4>1. PICK b \in Actors : b = queue[i].by
        BY Zenon, <3>2
      <4>2. /\ pc[b] = "wait" /\ queue[i].req = Head(todo[b]).req
            /\ b # c /\ b # Task
        BY Zenon, <1>0, <1>2, <4>1 DEF Awaited
      <4> QED BY Zenon, <2>4, <2>5, <4>1, <4>2
    <3> QED BY Zenon, <1>0, <3>1, <3>2 DEF Awaited
  <2>9. EditsAreAwaited' /\ InOrder'
    BY Zenon, <1>0 DEF Struct, EditsAreAwaited, InOrder, Stale
  <2>10. OneAtATime'
    BY Zenon, <1>0, <2>5 DEF OneAtATime, Actors
  <2> QED BY Zenon, <1>0, <2>4, <2>5, <2>6, <2>7, <2>8, <2>9, <2>10 DEF Struct, Channel
<1> QED BY Zenon, <1>1, <1>2 DEF SpawnAnalysis

\* Who waits for the head of the channel is in an await.
LEMMA HeadWaits ==
    ASSUME Struct, queue # <<>>
    PROVE  /\ Head(queue) \in Entries
           /\ Head(queue).by \in Actors =>
                  /\ pc[Head(queue).by] = "wait"
                  /\ Head(queue).req = Head(todo[Head(queue).by]).req
<1>1. queue \in Seq(Entries) /\ Awaited
  BY Zenon DEF Struct, Channel
<1>2. 1 \in DOMAIN queue /\ Head(queue) = queue[1] /\ Head(queue) \in Entries
  BY <1>1
<1> QED BY <1>1, <1>2 DEF Awaited

\* An answer moves its actor on.
LEMMA ActorAdvances ==
    ASSUME Struct, NEW a \in Actors, pc[a] = "wait", Advance(a, 1)
    PROVE  \E t : Moves(a, t)
<1>1. Channel /\ Scripts
  BY Zenon DEF Struct
<1>2. 1 \in 1 .. Len(todo[a])
  BY <1>1, HeadStep
<1> QED BY Zenon, <1>1, <1>2, AdvanceMoves

\* An error moves its actor on.
LEMMA ActorFails ==
    ASSUME Struct, NEW a \in Actors, pc[a] # "idle", Failed(a)
    PROVE  \E t : Moves(a, t)
  BY Zenon, FailedMoves DEF Struct

\* The loop's steps, as they change the channel and the scripts.
Taken ==
    /\ queue # <<>> /\ queue' = Tail(queue) /\ serial' = serial
    /\ \/ Head(queue).by = Nobody /\ UNCHANGED <<todo, pc>>
       \/ Head(queue).by \in Actors /\ \E t : Moves(Head(queue).by, t)

\* Answer takes the head.
LEMMA AnswerTakes ==
    ASSUME Struct, Answer
    PROVE  Taken
<1>1. queue # <<>> /\ queue' = Tail(queue) /\ serial' = serial
  BY Zenon DEF Answer
<1>2. CASE Head(queue).by = Nobody /\ UNCHANGED <<todo, pc>>
  BY Zenon, <1>1, <1>2 DEF Taken
<1>3. CASE Head(queue).by \in Actors /\ Advance(Head(queue).by, 1)
  BY Zenon, <1>1, <1>3, HeadWaits, ActorAdvances DEF Taken
<1> QED BY Zenon, <1>2, <1>3 DEF Answer

\* Late takes the head.
LEMMA LateTakes ==
    ASSUME Struct, Late
    PROVE  Taken
<1>1. queue # <<>> /\ queue' = Tail(queue) /\ serial' = serial
  BY Zenon DEF Late
<1>2. Head(queue).by \in Actors /\ Failed(Head(queue).by)
  BY Zenon DEF Late, Actors
<1>3. pc[Head(queue).by] # "idle"
  BY Zenon, <1>1, <1>2, HeadWaits
<1> QED BY Zenon, <1>1, <1>2, <1>3, ActorFails DEF Taken

\* Refuse takes the head.
LEMMA RefuseTakes ==
    ASSUME Struct, Refuse
    PROVE  Taken
<1>1. queue # <<>> /\ queue' = Tail(queue) /\ serial' = serial
  BY Zenon DEF Refuse
<1>2. CASE Head(queue).by = Nobody /\ UNCHANGED <<todo, pc>>
  BY Zenon, <1>1, <1>2 DEF Taken
<1>3. CASE Head(queue).by \in Actors /\ Failed(Head(queue).by)
  <2>1. pc[Head(queue).by] # "idle"
    BY Zenon, <1>1, <1>3, HeadWaits
  <2> QED BY Zenon, <1>1, <1>3, <2>1, ActorFails DEF Taken
<1> QED BY Zenon, <1>2, <1>3 DEF Refuse

\* A crash takes the head, or the whole process.
LEMMA CrashTakes ==
    ASSUME Struct, Crash
    PROVE  Taken \/ UNCHANGED <<serial, queue, todo, pc>>
<1>1. queue # <<>> /\ serial' = serial
  BY Zenon DEF Crash
<1>2. CASE UNCHANGED <<queue, todo, pc>>
  BY Zenon, <1>1, <1>2
<1>3. CASE /\ queue' = Tail(queue)
           /\ Head(queue).by = Nobody /\ UNCHANGED <<todo, pc>>
  BY Zenon, <1>1, <1>3 DEF Taken
<1>4. CASE /\ queue' = Tail(queue)
           /\ Head(queue).by \in Actors /\ Failed(Head(queue).by)
  <2>1. pc[Head(queue).by] # "idle"
    BY Zenon, <1>1, <1>4, HeadWaits
  <2> QED BY Zenon, <1>1, <1>4, <2>1, ActorFails DEF Taken
<1> QED BY Zenon, <1>2, <1>3, <1>4 DEF Crash

\* Taking the head preserves Struct.
LEMMA TakenStruct ==
    ASSUME Struct, Taken
    PROVE  Struct'
  BY Zenon, ServedStruct DEF Taken

\* So does a step that touches neither the channel nor a script.
LEMMA SameStruct ==
    ASSUME Struct, UNCHANGED <<serial, queue, todo, pc>>
    PROVE  Struct'
<1>1. Channel' /\ Scripts' /\ TaskAnalyses'
  BY Zenon DEF Struct, Channel, Scripts, TaskAnalyses
<1>2. Awaited'
  BY Zenon DEF Struct, Awaited
<1>3. EditsAreAwaited' /\ OneAtATime'
  BY Zenon DEF Struct, EditsAreAwaited, OneAtATime
<1>4. InOrder'
  BY Zenon DEF Struct, InOrder, Stale
<1> QED BY Zenon, <1>1, <1>2, <1>3, <1>4 DEF Struct

\* A full channel fails the request at hand.
LEMMA SendCases ==
    ASSUME Struct, NEW a \in Actors, Send(a)
    PROVE  /\ serial' = serial /\ pc[a] = "run"
           /\ \/ /\ queue' = Append(queue, [by |-> a, req |-> Head(todo[a]).req,
                                            cancelled |-> FALSE])
                 /\ pc' = [pc EXCEPT ![a] = "wait"] /\ todo' = todo
                 /\ Len(queue) < Capacity
              \/ queue' = queue /\ \E t : Moves(a, t)
<1>1. serial' = serial /\ pc[a] = "run"
  BY Zenon DEF Send, Running
<1>2. CASE Len(queue) = Capacity /\ Failed(a) /\ queue' = queue
  <2>1. \E t : Moves(a, t)
    BY Zenon, <1>1, <1>2, ActorFails
  <2> QED BY Zenon, <1>1, <1>2, <2>1
<1> QED BY Zenon, <1>1, <1>2 DEF Send

\* So does sending, into a full channel too.
LEMMA SendStruct ==
    ASSUME Struct, NEW a \in Actors, Send(a)
    PROVE  Struct'
  BY Zenon, SendCases, SentStruct, MovedStruct

\* Next preserves Struct.
LEMMA StructStep ==
    ASSUME Struct, [Next]_vars
    PROVE  Struct'
<1>1. CASE \E c \in Callers : Begin(c) \/ SpawnAnalysis(c) \/ TimeOut(c)
  BY Zenon, <1>1, BegunStruct, SpawnedStruct, TimedOutStruct
<1>2. CASE \E a \in Actors : Send(a)
  BY Zenon, <1>2, SendStruct
<1>3. CASE CancelTask
  BY Zenon, <1>3, CancelledStruct
<1>4. CASE Serve
  BY Zenon, <1>4, AnswerTakes, LateTakes, RefuseTakes, CrashTakes, TakenStruct,
     SameStruct DEF Serve
<1>5. CASE Die \/ Gone \/ UNCHANGED vars
  <2>1. UNCHANGED <<serial, queue, todo, pc>>
    BY Zenon, <1>5 DEF Die, Gone, vars
  <2> QED BY Zenon, <2>1, SameStruct
<1> QED BY Zenon, <1>1, <1>2, <1>3, <1>4, <1>5 DEF Next

---------------------------------------------------------------------------
(* What the replies are worth.                                             *)

\* The types of the history.
History ==
    /\ badge \in [Callers -> Badges]
    /\ partial \in [Callers -> BOOLEAN]
    /\ view \in [Callers -> {"none", "one", "moved", "torn"}]

\* The history of one caller after request req of a ran.
LEMMA PartialAfter ==
    ASSUME NEW a, NEW req, Witness(a, req), NEW c \in Callers
    PROVE  partial'[c] => \/ partial[c]
                          \/ c = a /\ Head(todo[c]).do = "ask" /\ ~analysed /\ Badged(c)
<1>1. partial' = [d \in Callers |->
           \/ partial[d]
           \/ d = a /\ Head(todo[d]).do = "ask" /\ ~analysed /\ Badged(d)]
  BY Zenon DEF Witness
<1> QED BY <1>1, Zenon

\* What a request of a that ran does to the view of caller c.
LEMMA ViewAfter ==
    ASSUME History, NEW a, NEW req, Witness(a, req), NEW c \in Callers
    PROVE  /\ view' \in [Callers -> {"none", "one", "moved", "torn"}]
           /\ \/ view'[c] = view[c]
              \/ view'[c] = "none"
              \/ c = a /\ view'[c] = "one"
              \/ c = a /\ view[c] \in {"moved", "torn"}
              \/ c # a /\ pc[c] # "idle" /\ req.effect = "edit" /\ view[c] = "one"
<1> DEFINE V(d) ==
           IF ~serial THEN "none"
           ELSE CASE d = a /\ req.effect = "read" /\ Head(todo[d]).do = "ask" ->
                       IF view[d] \in {"moved", "torn"} THEN "torn" ELSE "one"
                  [] d # a /\ pc[d] # "idle" /\ req.effect = "edit"
                       /\ view[d] = "one" -> "moved"
                  [] OTHER -> view[d]
<1>1. view' = [d \in Callers |-> V(d)]
  BY Zenon DEF Witness
<1>2. ASSUME NEW d \in Callers
      PROVE  /\ V(d) \in {"none", "one", "moved", "torn"}
             /\ \/ V(d) = view[d]
                \/ V(d) = "none"
                \/ d = a /\ V(d) = "one"
                \/ d = a /\ view[d] \in {"moved", "torn"}
                \/ /\ d # a /\ pc[d] # "idle" /\ req.effect = "edit"
                   /\ view[d] = "one"
  <2>1. view[d] \in {"none", "one", "moved", "torn"}
    BY Zenon DEF History
  <2> QED BY Zenon, <2>1
<1> HIDE DEF V
<1> QED BY Zenon, <1>1, <1>2

\* What it does to the badge.
LEMMA BadgeAfter ==
    ASSUME NEW a, NEW req, NEW b \in [Callers -> Badges],
           badge' = Voided(a, req, b), NEW c \in Callers
    PROVE  /\ badge' \in [Callers -> Badges]
           /\ \/ badge'[c] = b[c]
              \/ c # a /\ pc[c] # "idle" /\ req.effect = "edit" /\ b[c] = "complete"
                 /\ badge'[c] = "void"
           /\ c # a /\ pc[c] # "idle" /\ req.effect = "edit" => badge'[c] # "complete"
  BY Zenon DEF Voided, Badges

\* Only an edit can give the analysis work again.
LEMMA AnalysedAfter ==
    ASSUME NEW req \in Requests, Ran(req), analysed \in BOOLEAN
    PROVE  /\ analysed' \in BOOLEAN
           /\ req.effect # "edit" /\ analysed => analysed'
<1>1. req.effect \in {"read", "edit", "analyse"}
  BY Zenon DEF Requests
<1>2. CASE req.effect = "read"
  <2>1. analysed' \in {analysed, TRUE}
    BY Zenon, <1>2 DEF Ran
  <2> QED BY <2>1, Zenon
<1>3. CASE req.effect = "edit"
  <2>1. analysed' \in BOOLEAN
    BY Zenon, <1>3 DEF Ran
  <2> QED BY Zenon, <2>1, <1>3
<1>4. CASE req.effect = "analyse"
  <2>1. analysed' \in {TRUE}
    BY Zenon, <1>4 DEF Ran
  <2> QED BY Zenon, <2>1
<1> QED BY Zenon, <1>1, <1>2, <1>3, <1>4

\* A request ran: its caller, if there still is one, sampled a complete badge
\* or not, and went on with its script or ended.
Runs(b) ==
    LET e == Head(queue)
    IN  /\ Taken /\ ~e.cancelled
        /\ Ran(e.req) /\ Witness(e.by, e.req)
        /\ badge' = Voided(e.by, e.req, b)
        /\ \A c \in Callers :
               \/ b[c] = badge[c]
               \/ /\ c = e.by /\ b[c] = "complete"
                  /\ Head(todo[c]).do = "sample" /\ analysed

\* Somebody else's edit does not come between the requests of a call that has
\* read behind the call_lock.
LEMMA NoEditBetween ==
    ASSUME Struct, Settled, serial, queue # <<>>, ~Head(queue).cancelled,
           Head(queue).req.effect = "edit",
           NEW c \in Callers, c # Head(queue).by, pc[c] # "idle",
           view[c] = "one" \/ badge[c] = "complete"
    PROVE  FALSE
<1>1. Channel /\ Scripts /\ TaskAnalyses /\ Awaited /\ OneAtATime
  BY Zenon DEF Struct
<1>2. 1 \in DOMAIN queue /\ Head(queue) = queue[1] /\ Head(queue) \in Entries
  BY <1>1 DEF Channel
<1>3. CASE Head(queue).by = Nobody
  BY Zenon, <1>2, <1>3 DEF Settled, Stale
<1>4. CASE Head(queue).by \in Callers
  <2>1. pc[Head(queue).by] = "wait"
    BY Zenon, <1>4, HeadWaits DEF Actors
  <2> QED BY Zenon, <1>1, <1>4, <2>1 DEF OneAtATime
<1>5. CASE Head(queue).by = Task
  <2>1. pc[Task] = "wait" /\ Head(queue).req = Head(todo[Task]).req /\ Task \in Actors
    BY Zenon, <1>5, HeadWaits DEF Actors
  <2>2. Head(todo[Task]) = todo[Task][1] /\ 1 \in DOMAIN todo[Task]
    BY Zenon, <1>1, <2>1, HeadStep
  <2> QED BY Zenon, <1>1, <2>1, <2>2 DEF TaskAnalyses
<1>6. Head(queue).by \in Callers \cup {Task, Nobody}
  BY Zenon, <1>2 DEF Entries, Actors
<1> QED BY Zenon, <1>3, <1>4, <1>5, <1>6

\* The scripts and the counters of the calls after a request was taken.
LEMMA TakenMoves ==
    ASSUME Struct, Taken, NEW c \in Callers, pc'[c] # "idle"
    PROVE  /\ pc[c] # "idle"
           /\ \A i \in DOMAIN todo'[c] : \E j \in DOMAIN todo[c] : todo'[c][i] = todo[c][j]
<1>0. c \in Actors /\ Channel
  BY Zenon DEF Actors, Struct
<1>1. CASE Head(queue).by = Nobody /\ UNCHANGED <<todo, pc>>
  BY Zenon, <1>1
<1>2. CASE Head(queue).by \in Actors /\ \E t : Moves(Head(queue).by, t)
  <2>1. PICK h \in Actors : h = Head(queue).by
    BY Zenon, <1>2
  <2>2. PICK t : Moves(h, t)
    BY Zenon, <1>2, <2>1
  <2>3. pc[h] = "wait"
    BY Zenon, <2>1, HeadWaits DEF Taken
  <2>4. CASE c = h
    <3>1. todo'[c] = t
      BY Zenon, <1>0, <2>2, <2>4 DEF Moves, Channel
    <3> QED BY Zenon, <2>2, <2>3, <2>4, <3>1 DEF Moves
  <2>5. CASE c # h
    <3>1. todo'[c] = todo[c] /\ pc'[c] = pc[c]
      BY Zenon, <1>0, <2>2, <2>5 DEF Moves, Channel
    <3> QED BY Zenon, <3>1
  <2> QED BY Zenon, <2>4, <2>5
<1> QED BY Zenon, <1>1, <1>2 DEF Taken

\* What the request at the head means to the caller that waits for it.
LEMMA HeadOfCaller ==
    ASSUME Struct, queue # <<>>, NEW c \in Callers, c = Head(queue).by
    PROVE  /\ pc[c] = "wait" /\ c \in Actors
           /\ 1 \in DOMAIN todo[c] /\ Head(todo[c]) = todo[c][1]
           /\ Head(queue).req = todo[c][1].req
           /\ \A i \in DOMAIN todo[c] : todo[c][i].do = "sample" =>
                  /\ Head(todo[c]).do = "sample"
                  /\ \A j \in DOMAIN todo[c] : todo[c][j].req.effect = "read"
<1>1. c \in Actors
  BY Zenon DEF Actors
<1>2. pc[c] = "wait" /\ Head(queue).req = Head(todo[c]).req
  BY Zenon, <1>1, HeadWaits
<1>3. 1 \in DOMAIN todo[c] /\ Head(todo[c]) = todo[c][1]
  BY Zenon, <1>1, <1>2, HeadStep DEF Struct
<1>4. WellFormed(todo[c])
  BY Zenon, <1>1 DEF Struct, Scripts
<1> QED BY Zenon, <1>1, <1>2, <1>3, <1>4 DEF WellFormed

\* A request that runs preserves Covering.
LEMMA RunsCovering ==
    ASSUME Struct, History, analysed \in BOOLEAN, Covering,
           NEW b \in [Callers -> Badges], Runs(b)
    PROVE  Covering'
<1> DEFINE h == Head(queue).by
           r == Head(queue).req
<1>1. /\ Taken /\ queue # <<>> /\ Ran(r) /\ Witness(h, r)
      /\ badge' = Voided(h, r, b)
  BY Zenon DEF Runs, Taken
<1>2. r \in Requests
  <2>1. Head(queue) \in Entries
    BY Zenon, <1>1, HeadWaits
  <2> QED BY Zenon, <2>1 DEF Entries
<1>3. r.effect # "edit" /\ analysed => analysed'
  BY Zenon, <1>1, <1>2, AnalysedAfter
<1>4. ASSUME NEW c \in Callers PROVE ~partial'[c]
  <2> SUFFICES ASSUME partial'[c] PROVE FALSE
    BY Zenon
  <2>1. ~partial[c]
    BY Zenon DEF Covering
  <2>2. c = h /\ Head(todo[c]).do = "ask" /\ ~analysed /\ Badged(c)
    BY Zenon, <1>1, <2>1, PartialAfter
  <2>3. pc[c] = "wait"
    BY Zenon, <1>1, <2>2, HeadOfCaller
  <2>4. badge[c] # "complete"
    BY Zenon, <2>2, <2>3 DEF Covering
  <2>5. PICK i \in DOMAIN todo[c] : todo[c][i].do = "sample"
    BY Zenon, <2>2, <2>4 DEF Badged
  <2>6. Head(todo[c]).do = "sample"
    BY Zenon, <1>1, <2>2, <2>5, HeadOfCaller
  <2> QED BY Zenon, <2>2, <2>6
<1>5. ASSUME NEW c \in Callers, badge'[c] = "complete", pc'[c] # "idle"
      PROVE  analysed' /\ \A i \in DOMAIN todo'[c] : todo'[c][i].req.effect = "read"
  <2>1. pc[c] # "idle" /\ \A i \in DOMAIN todo'[c] :
            \E j \in DOMAIN todo[c] : todo'[c][i] = todo[c][j]
    BY Zenon, <1>1, <1>5, TakenMoves
  <2>2. b[c] = "complete" /\ (c # h => r.effect # "edit")
    BY <1>1, <1>5, <2>1, BadgeAfter
  <2>3. analysed /\ \A j \in DOMAIN todo[c] : todo[c][j].req.effect = "read"
    <3>1. CASE badge[c] = "complete"
      BY Zenon, <2>1, <3>1 DEF Covering
    <3>2. CASE c = h /\ Head(todo[c]).do = "sample" /\ analysed
      <4>1. 1 \in DOMAIN todo[c] /\ todo[c][1].do = "sample"
        BY Zenon, <1>1, <3>2, HeadOfCaller
      <4> QED BY Zenon, <1>1, <3>2, <4>1, HeadOfCaller
    <3> QED BY Zenon, <2>2, <3>1, <3>2 DEF Runs
  <2>4. r.effect # "edit"
    <3>1. CASE c = h
      <4>1. 1 \in DOMAIN todo[c] /\ r = todo[c][1].req
        BY Zenon, <1>1, <3>1, HeadOfCaller
      <4> QED BY Zenon, <4>1, <2>3
    <3> QED BY Zenon, <3>1, <2>2
  <2> QED BY Zenon, <1>3, <2>1, <2>3, <2>4
<1> QED BY Zenon, <1>4, <1>5 DEF Covering

\* A request that runs preserves Settled.
LEMMA RunsSettled ==
    ASSUME Struct, History, Settled, NEW b \in [Callers -> Badges], Runs(b)
    PROVE  Settled'
<1> DEFINE h == Head(queue).by
           r == Head(queue).req
<1>1. /\ Taken /\ queue # <<>> /\ ~Head(queue).cancelled /\ Witness(h, r)
      /\ badge' = Voided(h, r, b) /\ serial' = serial /\ queue' = Tail(queue)
  BY Zenon DEF Runs, Taken
<1> SUFFICES ASSUME serial, NEW c \in Callers
             PROVE  /\ view'[c] \in {"none", "one"} /\ badge'[c] # "void"
                    /\ pc'[c] # "idle" /\ (view'[c] = "one" \/ badge'[c] = "complete") =>
                           \A i \in DOMAIN queue' : ~Stale(queue'[i])
  BY Zenon, <1>1 DEF Settled, Stale
<1>2. view[c] \in {"none", "one"} /\ badge[c] # "void"
  BY Zenon DEF Settled
<1>3. \/ view'[c] \in {view[c], "none"}
      \/ c = h /\ view'[c] = "one"
  <2>1. CASE c # h /\ pc[c] # "idle" /\ r.effect = "edit" /\ view[c] = "one"
    BY Zenon, <1>1, <2>1, NoEditBetween
  <2>2. \/ view'[c] \in {view[c], "none"}
        \/ c = h /\ view'[c] = "one"
        \/ c = h /\ view[c] \in {"moved", "torn"}
        \/ c # h /\ pc[c] # "idle" /\ r.effect = "edit" /\ view[c] = "one"
    BY Zenon, <1>1, ViewAfter
  <2>3. view[c] \notin {"moved", "torn"}
    BY Zenon, <1>2
  <2> QED BY Zenon, <2>1, <2>2, <2>3
<1>4. badge'[c] # "void" /\ badge'[c] = b[c]
  <2>1. CASE c # h /\ pc[c] # "idle" /\ r.effect = "edit" /\ b[c] = "complete"
    <3>1. badge[c] = "complete"
      BY Zenon, <2>1 DEF Runs
    <3> QED BY Zenon, <1>1, <2>1, <3>1, NoEditBetween
  <2>2. CASE badge'[c] = b[c]
    BY Zenon, <1>2, <2>2 DEF Runs
  <2> QED BY <1>1, <2>1, <2>2, BadgeAfter
<1>5. ASSUME pc'[c] # "idle", view'[c] = "one" \/ badge'[c] = "complete",
             NEW i \in DOMAIN queue'
      PROVE  ~Stale(queue'[i])
  <2>1. pc[c] # "idle"
    BY Zenon, <1>1, <1>5, TakenMoves
  <2>2. /\ i \in Nat \ {0} /\ i + 1 \in DOMAIN queue /\ queue'[i] = queue[i + 1]
        /\ 1 \in DOMAIN queue /\ Head(queue) = queue[1]
    BY Zenon, <1>1, TailOf DEF Struct
  <2>3. CASE view[c] = "one" \/ badge[c] = "complete"
    BY Zenon, <2>1, <2>2, <2>3 DEF Settled
  <2>4. CASE c = h
    <3>1. 1 < i + 1
      BY <2>2
    <3> QED BY Zenon, <2>2, <2>4, <3>1 DEF Struct, InOrder
  <2> QED BY Zenon, <1>3, <1>4, <1>5, <2>3, <2>4 DEF Runs
<1> QED BY Zenon, <1>2, <1>3, <1>4, <1>5

\* Answer is such a step.
LEMMA AnswerRuns ==
    ASSUME Struct, History, Answer
    PROVE  \E b \in [Callers -> Badges] : Runs(b)
<1>1. Taken
  BY Zenon, AnswerTakes
<1>2. badge \in [Callers -> Badges]
  BY Zenon DEF History
<1>3. CASE Head(queue).by = Nobody /\ badge' = Voided(Head(queue).by, Head(queue).req, badge)
  <2>1. Runs(badge)
    BY Zenon, <1>1, <1>3 DEF Answer, Runs
  <2> QED BY Zenon, <1>2, <2>1
<1>4. CASE Head(queue).by \in Actors
  <2> DEFINE h == Head(queue).by
             b == IF Head(todo[h]).do = "sample" /\ analysed
                  THEN [badge EXCEPT ![h] = "complete"] ELSE badge
  <2>0. h # Nobody
    BY Zenon, <1>4, CallsAssumption DEF Actors
  <2>1. badge' = Voided(h, Head(queue).req, b)
    BY Zenon, <2>0 DEF Answer
  <2>2. b \in [Callers -> Badges]
    BY Zenon, <1>2 DEF Badges
  <2>3. \A c \in Callers :
            \/ b[c] = badge[c]
            \/ /\ c = h /\ b[c] = "complete"
               /\ Head(todo[c]).do = "sample" /\ analysed
    BY Zenon, <1>2
  <2> HIDE DEF b
  <2>4. Runs(b)
    BY Zenon, <1>1, <2>1, <2>3 DEF Answer, Runs
  <2> QED BY Zenon, <2>2, <2>4
<1> QED BY Zenon, <1>3, <1>4 DEF Answer

\* Late is one, without a new badge.
LEMMA LateRuns ==
    ASSUME Struct, Late
    PROVE  Runs(badge)
  BY Zenon, LateTakes DEF Late, Runs

\* A request ran: the whole of what is said of the replies.
LEMMA RanHistory ==
    ASSUME Struct, History, analysed \in BOOLEAN, Covering, Settled, Answer \/ Late
    PROVE  History' /\ analysed' \in BOOLEAN /\ Covering' /\ Settled'
<1>1. PICK b \in [Callers -> Badges] : Runs(b)
  BY Zenon, AnswerRuns, LateRuns DEF History
<1>2. Covering' /\ Settled'
  BY Zenon, <1>1, RunsCovering, RunsSettled
<1> DEFINE h == Head(queue).by
           r == Head(queue).req
<1>3. /\ queue # <<>> /\ Ran(r) /\ Witness(h, r) /\ badge' = Voided(h, r, b)
  BY Zenon, <1>1 DEF Runs, Taken
<1>4. analysed' \in BOOLEAN
  <2>1. Head(queue) \in Entries
    BY Zenon, <1>3, HeadWaits
  <2>2. r \in Requests
    BY Zenon, <2>1 DEF Entries
  <2> QED BY Zenon, <1>3, <2>2, AnalysedAfter
<1>5. badge' \in [Callers -> Badges]
  BY Zenon, <1>3 DEF Voided, Badges
<1>6. view' \in [Callers -> {"none", "one", "moved", "torn"}]
  <2>1. CASE Callers = {}
    BY Zenon, <1>3, <2>1 DEF Witness
  <2>2. CASE Callers # {}
    BY Zenon, <1>3, <2>2, ViewAfter
  <2> QED BY Zenon, <2>1, <2>2
<1>7. partial' \in [Callers -> BOOLEAN]
  <2>1. partial' = [d \in Callers |->
             \/ partial[d]
             \/ d = h /\ Head(todo[d]).do = "ask" /\ ~analysed /\ Badged(d)]
    BY <1>3, Zenon DEF Witness
  <2> QED BY <2>1, Zenon
<1> QED BY Zenon, <1>2, <1>4, <1>5, <1>6, <1>7 DEF History

\* A step that runs nothing leaves the replies' worth as it is, as long as
\* nobody's edit is left behind while a call that has read goes on.
LEMMA QuietHistory ==
    ASSUME History, analysed \in BOOLEAN, Covering, Settled,
           UNCHANGED <<serial, analysed, badge, partial, view>>,
           \A c \in Callers : pc'[c] # "idle" =>
               /\ pc[c] # "idle"
               /\ \A i \in DOMAIN todo'[c] :
                      \E j \in DOMAIN todo[c] : todo'[c][i] = todo[c][j]
               /\ serial => \A i \in DOMAIN queue' : Stale(queue'[i]) =>
                      \E j \in DOMAIN queue : Stale(queue[j])
    PROVE  History' /\ analysed' \in BOOLEAN /\ Covering' /\ Settled'
<1>1. History' /\ analysed' \in BOOLEAN
  BY Zenon DEF History
<1>2. Covering'
  <2>1. ASSUME NEW c \in Callers PROVE ~partial'[c]
    BY Zenon DEF Covering
  <2>2. ASSUME NEW c \in Callers, badge'[c] = "complete", pc'[c] # "idle"
        PROVE  analysed' /\ \A i \in DOMAIN todo'[c] : todo'[c][i].req.effect = "read"
    <3>1. analysed /\ \A i \in DOMAIN todo[c] : todo[c][i].req.effect = "read"
      BY Zenon, <2>2 DEF Covering
    <3> QED BY Zenon, <2>2, <3>1
  <2> QED BY Zenon, <2>1, <2>2 DEF Covering
<1>3. Settled'
  <2> SUFFICES ASSUME serial, NEW c \in Callers
               PROVE  /\ view[c] \in {"none", "one"} /\ badge[c] # "void"
                      /\ pc'[c] # "idle" /\ (view[c] = "one" \/ badge[c] = "complete") =>
                             \A i \in DOMAIN queue' : ~Stale(queue'[i])
    BY Zenon DEF Settled, Stale
  <2> QED BY Zenon DEF Settled
<1> QED BY Zenon, <1>1, <1>2, <1>3

\* A request was taken off the channel and had no effect.
LEMMA TakenHistory ==
    ASSUME Struct, History, analysed \in BOOLEAN, Covering, Settled, Taken,
           UNCHANGED <<analysed, badge, partial, view>>
    PROVE  History' /\ analysed' \in BOOLEAN /\ Covering' /\ Settled'
<1>1. serial' = serial /\ queue # <<>> /\ queue' = Tail(queue)
  BY Zenon DEF Taken
<1>2. \A i \in DOMAIN queue' : Stale(queue'[i]) => \E j \in DOMAIN queue : Stale(queue[j])
  <2> SUFFICES ASSUME NEW i \in DOMAIN queue', Stale(queue'[i])
               PROVE  \E j \in DOMAIN queue : Stale(queue[j])
    BY Zenon
  <2>1. i + 1 \in DOMAIN queue /\ queue'[i] = queue[i + 1]
    BY Zenon, <1>1, TailOf DEF Struct
  <2> QED BY Zenon, <2>1
<1> QED BY Zenon, <1>1, <1>2, TakenMoves, QuietHistory

\* An actor moved on, or failed to send, without the channel changing.
LEMMA MovedHistory ==
    ASSUME Struct, History, analysed \in BOOLEAN, Covering, Settled,
           NEW a \in Actors, pc[a] # "idle", NEW t, Moves(a, t), queue' = queue,
           UNCHANGED <<serial, analysed, badge, partial, view>>
    PROVE  History' /\ analysed' \in BOOLEAN /\ Covering' /\ Settled'
<1>1. ASSUME NEW c \in Callers, pc'[c] # "idle"
      PROVE  /\ pc[c] # "idle"
             /\ \A i \in DOMAIN todo'[c] :
                    \E j \in DOMAIN todo[c] : todo'[c][i] = todo[c][j]
  <2>0. c \in Actors /\ Channel
    BY Zenon DEF Actors, Struct
  <2>1. CASE c = a
    <3>1. todo'[c] = t
      BY Zenon, <2>0, <2>1 DEF Moves, Channel
    <3> QED BY Zenon, <2>1, <3>1 DEF Moves
  <2>2. CASE c # a
    <3>1. todo'[c] = todo[c] /\ pc'[c] = pc[c]
      BY Zenon, <2>0, <2>2 DEF Moves, Channel
    <3> QED BY Zenon, <1>1, <3>1
  <2> QED BY Zenon, <2>1, <2>2
<1>2. \A i \in DOMAIN queue' : Stale(queue'[i]) => \E j \in DOMAIN queue : Stale(queue[j])
  BY Zenon
<1> QED BY Zenon, <1>1, <1>2, QuietHistory

\* Sending runs nothing.
LEMMA SendHistory ==
    ASSUME Struct, History, analysed \in BOOLEAN, Covering, Settled,
           NEW a \in Actors, Send(a)
    PROVE  History' /\ analysed' \in BOOLEAN /\ Covering' /\ Settled'
<1>1. UNCHANGED <<serial, analysed, badge, partial, view>>
  BY Zenon DEF Send
<1>2. pc[a] = "run"
  BY Zenon, SendCases
<1>3. CASE queue' = queue /\ \E t : Moves(a, t)
  BY Zenon, <1>1, <1>2, <1>3, MovedHistory
<1>4. CASE /\ queue' = Append(queue, [by |-> a, req |-> Head(todo[a]).req,
                                      cancelled |-> FALSE])
           /\ pc' = [pc EXCEPT ![a] = "wait"] /\ todo' = todo
  <2>0. Channel /\ a # Nobody
    BY Zenon, CallsAssumption DEF Struct, Actors
  <2>1. ASSUME NEW c \in Callers, pc'[c] # "idle" PROVE pc[c] # "idle"
    BY Zenon, <1>2, <1>4, <2>0, <2>1 DEF Channel, Actors
  <2>2. ASSUME NEW i \in DOMAIN queue', Stale(queue'[i])
        PROVE  \E j \in DOMAIN queue : Stale(queue[j])
    <3> DEFINE e == [by |-> a, req |-> Head(todo[a]).req, cancelled |-> FALSE]
    <3>1. ~Stale(e)
      BY Zenon, <2>0 DEF Stale
    <3>2. queue \in Seq(Entries) /\ queue' = Append(queue, e)
      BY Zenon, <2>0, <1>4 DEF Channel
    <3> HIDE DEF e
    <3>3. \/ i \in DOMAIN queue /\ queue'[i] = queue[i]
          \/ queue'[i] = e
      BY <3>2
    <3> QED BY Zenon, <2>2, <3>1, <3>3
  <2> QED BY Zenon, <1>1, <1>4, <2>1, <2>2, QuietHistory
<1> QED BY Zenon, <1>3, <1>4, SendCases

\* A caller that leaves an edit behind leaves the call with it.
LEMMA TimeOutHistory ==
    ASSUME Struct, History, analysed \in BOOLEAN, Covering, Settled,
           NEW c \in Callers, TimeOut(c)
    PROVE  History' /\ analysed' \in BOOLEAN /\ Covering' /\ Settled'
<1>0. /\ Channel /\ Scripts /\ Awaited /\ OneAtATime /\ c \in Actors
      /\ UNCHANGED <<serial, analysed, badge, partial, view>>
      /\ pc[c] = "wait" /\ Failed(c)
  BY Zenon DEF Struct, TimeOut, Actors
<1>1. PICK i \in Pending(c) : queue' = [queue EXCEPT ![i] = LeftBehind(queue[i])]
  BY Zenon DEF TimeOut
<1>2. i \in DOMAIN queue /\ queue[i].by = c
  BY Zenon, <1>1 DEF Pending
<1>3. /\ queue \in Seq(Entries) /\ DOMAIN queue' = DOMAIN queue
      /\ queue'[i] = LeftBehind(queue[i])
      /\ \A j \in DOMAIN queue : j # i => queue'[j] = queue[j]
  BY Zenon, <1>0, <1>1, <1>2 DEF Channel
<1>4. PICK t : Moves(c, t) /\ (Head(todo[c]).ends => t = <<>>)
  BY Zenon, <1>0, FailedMoves
<1>5. /\ todo'[c] = t /\ (t = <<>> => pc'[c] = "idle")
      /\ \A d \in Callers \ {c} : pc'[d] = pc[d] /\ todo'[d] = todo[d]
  BY Zenon, <1>0, <1>4 DEF Moves, Channel, Actors
<1>6. /\ Head(todo[c]) = todo[c][1] /\ 1 \in DOMAIN todo[c]
      /\ queue[i].req = Head(todo[c]).req /\ Head(todo[c]).req.wait # Waits
      /\ queue[i].req \in Requests
  <2>1. Head(todo[c]) = todo[c][1] /\ 1 \in DOMAIN todo[c]
    BY Zenon, <1>0, HeadStep
  <2>2. queue[i].req = Head(todo[c]).req
    BY Zenon, <1>0, <1>2 DEF Awaited
  <2>3. queue[i] \in Entries
    BY <1>2, <1>3
  <2> QED BY Zenon, <2>1, <2>2, <2>3 DEF TimeOut, Entries
<1>7. Stale(queue'[i]) => Head(todo[c]).ends
  <2> SUFFICES ASSUME Stale(queue'[i]) PROVE Head(todo[c]).ends
    BY Zenon
  <2>1. queue[i].req.effect = "edit" /\ queue[i].req.wait # Cancellable
    <3>1. /\ queue'[i].req = queue[i].req
          /\ queue'[i].cancelled = (queue[i].cancelled \/ queue[i].req.wait = Cancellable)
      BY <1>3 DEF LeftBehind
    <3> QED BY Zenon, <3>1 DEF Stale
  <2>2. queue[i].req.wait = Timed
    BY Zenon, <1>6, <2>1 DEF Requests
  <2>3. WellFormed(todo[c])
    BY Zenon, <1>0 DEF Scripts
  <2> QED BY Zenon, <1>6, <2>1, <2>2, <2>3 DEF WellFormed
<1>8. ASSUME NEW d \in Callers, pc'[d] # "idle"
      PROVE  /\ pc[d] # "idle"
             /\ \A k \in DOMAIN todo'[d] :
                    \E j \in DOMAIN todo[d] : todo'[d][k] = todo[d][j]
             /\ serial => \A k \in DOMAIN queue' : Stale(queue'[k]) =>
                    \E j \in DOMAIN queue : Stale(queue[j])
  <2>1. pc[d] # "idle"
    BY Zenon, <1>0, <1>5, <1>8
  <2>2. \A k \in DOMAIN todo'[d] : \E j \in DOMAIN todo[d] : todo'[d][k] = todo[d][j]
    <3>1. CASE d = c
      BY <1>4, <1>5, <3>1 DEF Moves
    <3>2. CASE d # c
      BY Zenon, <1>5, <3>2
    <3> QED BY Zenon, <3>1, <3>2
  <2>3. ASSUME serial, NEW k \in DOMAIN queue', Stale(queue'[k])
        PROVE  \E j \in DOMAIN queue : Stale(queue[j])
    <3>1. d = c
      BY Zenon, <1>0, <2>1, <2>3 DEF OneAtATime
    <3>2. k # i
      BY Zenon, <1>4, <1>5, <1>7, <1>8, <2>3, <3>1
    <3> QED BY Zenon, <1>3, <2>3, <3>2
  <2> QED BY Zenon, <2>1, <2>2, <2>3
<1> QED BY Zenon, <1>0, <1>8, QuietHistory

\* Cancelling the task's token runs nothing.
LEMMA CancelHistory ==
    ASSUME Struct, History, analysed \in BOOLEAN, Covering, Settled, CancelTask
    PROVE  History' /\ analysed' \in BOOLEAN /\ Covering' /\ Settled'
<1>0. UNCHANGED <<serial, analysed, badge, partial, view, todo, pc>>
  BY Zenon DEF CancelTask
<1>1. PICK i \in Pending(Task) :
          queue' = [queue EXCEPT ![i] = [by |-> Task, req |-> queue[i].req,
                                         cancelled |-> TRUE]]
  BY Zenon DEF CancelTask
<1>2. i \in DOMAIN queue /\ queue \in Seq(Entries)
  BY Zenon DEF Pending, Struct, Channel
<1>3. /\ DOMAIN queue' = DOMAIN queue /\ queue'[i].cancelled
      /\ \A j \in DOMAIN queue : j # i => queue'[j] = queue[j]
  BY Zenon, <1>1, <1>2
<1>4. ASSUME NEW k \in DOMAIN queue', Stale(queue'[k])
      PROVE  \E j \in DOMAIN queue : Stale(queue[j])
  <2>1. k # i
    BY Zenon, <1>3, <1>4 DEF Stale
  <2> QED BY Zenon, <1>3, <1>4, <2>1
<1> QED BY Zenon, <1>0, <1>4, QuietHistory

\* Handing the analysis to the task ends the call.
LEMMA SpawnHistory ==
    ASSUME Struct, History, analysed \in BOOLEAN, Covering, Settled,
           NEW c \in Callers, SpawnAnalysis(c)
    PROVE  History' /\ analysed' \in BOOLEAN /\ Covering' /\ Settled'
<1>0. /\ UNCHANGED <<serial, analysed, badge, partial, view, queue>>
      /\ c \in Actors /\ pc[c] = "run" /\ Channel /\ c # Task /\ Task \notin Callers
  BY Zenon, CallsAssumption DEF SpawnAnalysis, Running, Actors, Struct
<1>1. ASSUME NEW d \in Callers, pc'[d] # "idle"
      PROVE  d # c /\ pc'[d] = pc[d] /\ todo'[d] = todo[d]
  <2>0. d \in Actors /\ d # Task
    BY Zenon, <1>0 DEF Actors
  <2>1. CASE End(c)
    BY Zenon, <1>0, <1>1, <2>0, <2>1 DEF End, Channel
  <2>2. CASE /\ todo' = [todo EXCEPT ![c] = <<>>,
                                     ![Task] = <<Ask("AnalyzeFuncs", "entry")>>]
             /\ pc' = [pc EXCEPT ![c] = "idle", ![Task] = "run"]
    BY Zenon, <1>0, <1>1, <2>0, <2>2 DEF Channel
  <2> QED BY Zenon, <2>1, <2>2 DEF SpawnAnalysis
<1>2. \A i \in DOMAIN queue' : Stale(queue'[i]) => \E j \in DOMAIN queue : Stale(queue[j])
  BY Zenon, <1>0
<1> QED BY Zenon, <1>0, <1>1, <1>2, QuietHistory

\* A new call has nothing to answer for yet.
LEMMA BeginHistory ==
    ASSUME Struct, History, analysed \in BOOLEAN, Covering, Settled,
           NEW c \in Callers, Begin(c)
    PROVE  History' /\ analysed' \in BOOLEAN /\ Covering' /\ Settled'
<1>0. /\ serial' = serial /\ analysed' = analysed /\ queue' = queue
      /\ badge' = [badge EXCEPT ![c] = "none"]
      /\ partial' = [partial EXCEPT ![c] = FALSE]
      /\ view' = [view EXCEPT ![c] = "none"]
      /\ Channel
  BY Zenon DEF Begin, Struct
<1>1. ASSUME NEW d \in Callers \ {c}
      PROVE  pc'[d] = pc[d] /\ todo'[d] = todo[d]
  BY Zenon, <1>0 DEF Begin, Channel, Actors
<1>2. /\ badge' \in [Callers -> Badges] /\ badge'[c] = "none"
      /\ view' \in [Callers -> {"none", "one", "moved", "torn"}] /\ view'[c] = "none"
      /\ \A d \in Callers \ {c} : badge'[d] = badge[d] /\ view'[d] = view[d]
  BY Zenon, <1>0 DEF History, Badges
<1>3. partial \in [Callers -> BOOLEAN]
  BY Zenon DEF History
<1>4. /\ partial' \in [Callers -> BOOLEAN] /\ ~partial'[c]
      /\ \A d \in Callers \ {c} : partial'[d] = partial[d]
  BY Zenon, <1>0, <1>3
<1>5. Covering'
  <2>1. ASSUME NEW d \in Callers PROVE ~partial'[d]
    BY Zenon, <1>4 DEF Covering
  <2>2. ASSUME NEW d \in Callers, badge'[d] = "complete", pc'[d] # "idle"
        PROVE  analysed' /\ \A i \in DOMAIN todo'[d] : todo'[d][i].req.effect = "read"
    <3>1. d # c
      BY Zenon, <1>2, <2>2
    <3>2. badge[d] = "complete" /\ pc[d] # "idle" /\ todo'[d] = todo[d]
      BY Zenon, <1>1, <1>2, <2>2, <3>1
    <3>3. analysed /\ \A i \in DOMAIN todo[d] : todo[d][i].req.effect = "read"
      BY Zenon, <3>2 DEF Covering
    <3> QED BY Zenon, <1>0, <3>2, <3>3
  <2> QED BY Zenon, <2>1, <2>2 DEF Covering
<1>6. Settled'
  <2> SUFFICES ASSUME serial, NEW d \in Callers
               PROVE  /\ view'[d] \in {"none", "one"} /\ badge'[d] # "void"
                      /\ pc'[d] # "idle" /\ (view'[d] = "one" \/ badge'[d] = "complete") =>
                             \A i \in DOMAIN queue : ~Stale(queue[i])
    BY Zenon, <1>0 DEF Settled, Stale
  <2>1. CASE d = c
    BY Zenon, <1>2, <2>1
  <2>2. CASE d # c
    BY Zenon, <1>1, <1>2, <2>2 DEF Settled
  <2> QED BY Zenon, <2>1, <2>2
<1> QED BY Zenon, <1>0, <1>2, <1>4, <1>5, <1>6 DEF History

\* Next preserves what is said of the replies.
LEMMA HistoryStep ==
    ASSUME Struct, History, analysed \in BOOLEAN, Covering, Settled, [Next]_vars
    PROVE  History' /\ analysed' \in BOOLEAN /\ Covering' /\ Settled'
<1>1. CASE \E c \in Callers : Begin(c) \/ SpawnAnalysis(c) \/ TimeOut(c)
  BY Zenon, <1>1, BeginHistory, SpawnHistory, TimeOutHistory
<1>2. CASE \E a \in Actors : Send(a)
  BY Zenon, <1>2, SendHistory
<1>3. CASE CancelTask
  BY Zenon, <1>3, CancelHistory
<1>4. CASE Answer \/ Late
  BY Zenon, <1>4, RanHistory
<1>5. CASE Refuse
  <2>1. UNCHANGED <<analysed, badge, partial, view>>
    BY Zenon, <1>5 DEF Refuse
  <2> QED BY Zenon, <1>5, <2>1, RefuseTakes, TakenHistory
<1>6. CASE UNCHANGED <<serial, analysed, queue, todo, pc, badge, partial, view>>
  <2>1. \A i \in DOMAIN queue' : Stale(queue'[i]) => \E j \in DOMAIN queue : Stale(queue[j])
    BY Zenon, <1>6
  <2> QED BY Zenon, <1>6, <2>1, QuietHistory
<1>7. CASE Crash
  <2>1. UNCHANGED <<serial, analysed, badge, partial, view>>
    BY Zenon, <1>7 DEF Crash
  <2> QED BY Zenon, <1>6, <1>7, <2>1, CrashTakes, TakenHistory
<1>8. CASE Die \/ Gone \/ UNCHANGED vars
  BY Zenon, <1>6, <1>8 DEF Die, Gone, vars
<1> QED BY Zenon, <1>1, <1>2, <1>3, <1>4, <1>5, <1>7, <1>8 DEF Next, Serve

---------------------------------------------------------------------------
(* The theorems.                                                           *)

\* The channel never holds more than its capacity.
LEMMA RoomStep ==
    ASSUME Struct, Len(queue) <= Capacity, health \in {"ok", "caught", "dead"},
           serial \in BOOLEAN, [Next]_vars
    PROVE  /\ Len(queue') <= Capacity /\ health' \in {"ok", "caught", "dead"}
           /\ serial' \in BOOLEAN
<1>1. health' \in {"ok", "caught", "dead"} /\ serial' = serial
  BY Zenon DEF Next, Begin, SpawnAnalysis, TimeOut, Send, CancelTask, Serve, Answer,
         Late, Refuse, Crash, Die, Gone, vars
<1> SUFFICES Len(queue') <= Capacity
  BY Zenon, <1>1
<1>2. queue \in Seq(Entries) /\ Len(queue) \in Nat /\ Capacity \in Nat
  BY CallsAssumption DEF Struct, Channel
<1>3. CASE queue' = queue
  BY Zenon, <1>3
<1>4. CASE Taken
  <2>1. Len(queue') = Len(queue) - 1
    BY Zenon, <1>4, TailOf DEF Taken, Struct
  <2> QED BY <1>2, <2>1
<1>5. CASE \E a \in Actors : Send(a)
  <2>1. PICK a \in Actors : Send(a)
    BY Zenon, <1>5
  <2>2. CASE queue' = queue
    BY Zenon, <2>2
  <2>3. CASE /\ Len(queue) < Capacity
             /\ queue' = Append(queue, [by |-> a, req |-> Head(todo[a]).req,
                                        cancelled |-> FALSE])
    <3>1. Len(queue') = Len(queue) + 1
      BY <1>2, <2>3
    <3> QED BY <1>2, <2>3, <3>1
  <2> QED BY Zenon, <2>1, <2>2, <2>3, SendCases
<1>6. CASE \E c \in Callers : TimeOut(c)
  <2>1. Len(queue') = Len(queue)
    BY <1>2, <1>6 DEF TimeOut, Pending
  <2> QED BY Zenon, <2>1
<1>7. CASE CancelTask
  <2>1. Len(queue') = Len(queue)
    BY <1>2, <1>7 DEF CancelTask, Pending
  <2> QED BY Zenon, <2>1
<1>8. CASE Serve
  BY Zenon, <1>3, <1>4, <1>8, AnswerTakes, LateTakes, RefuseTakes, CrashTakes DEF Serve
<1>9. CASE Die \/ Gone \/ UNCHANGED vars
             \/ \E c \in Callers : Begin(c) \/ SpawnAnalysis(c)
  BY Zenon, <1>3, <1>9 DEF Die, Gone, vars, Begin, SpawnAnalysis
<1> QED BY Zenon, <1>5, <1>6, <1>7, <1>8, <1>9 DEF Next

\* The inductive invariant splits into the channel's part and the replies'.
LEMMA Parts ==
    IInv <=> /\ Struct /\ History /\ Covering /\ Settled
             /\ serial \in BOOLEAN /\ analysed \in BOOLEAN
             /\ health \in {"ok", "caught", "dead"} /\ Len(queue) <= Capacity
  BY Zenon DEF IInv, TypeOK, Struct, Channel, History

\* The same of the next state.
LEMMA PartsNext ==
    ASSUME Struct', History', Covering', Settled', serial' \in BOOLEAN,
           analysed' \in BOOLEAN, health' \in {"ok", "caught", "dead"},
           Len(queue') <= Capacity
    PROVE  IInv'
  BY Zenon DEF IInv, TypeOK, Struct, Channel, History

\* No call has begun.
LEMMA CallsInitially ==
    Init => IInv
<1> SUFFICES ASSUME Init PROVE IInv
  BY Zenon
<1>1. /\ queue = <<>> /\ queue \in Seq(Entries) /\ Len(queue) = 0
      /\ DOMAIN queue = {} /\ Capacity \in Nat
  BY CallsAssumption DEF Init
<1>2. \A a \in Actors : pc[a] = "idle" /\ todo[a] = <<>>
  BY Zenon DEF Init
<1>3. /\ todo \in [Actors -> Seq(Steps)]
      /\ pc \in [Actors -> {"idle", "run", "wait"}]
  BY DEF Init
<1>4. Scripts
  BY <1>2 DEF Scripts, WellFormed
<1>5. TaskAnalyses
  <2>1. todo[Task] = <<>>
    BY Zenon, <1>2 DEF Actors
  <2> QED BY <2>1 DEF TaskAnalyses
<1>6. Awaited /\ EditsAreAwaited /\ InOrder
  BY Zenon, <1>1, <1>2 DEF Awaited, EditsAreAwaited, InOrder
<1>7. OneAtATime
  BY Zenon, <1>2 DEF OneAtATime, Actors
<1>8. History
  BY Zenon DEF Init, History, Badges
<1>9. ASSUME NEW c \in Callers
      PROVE  ~partial[c] /\ badge[c] = "none" /\ view[c] = "none"
  BY Zenon DEF Init
<1>10. Covering /\ Settled
  BY Zenon, <1>9 DEF Covering, Settled
<1>11. /\ serial \in BOOLEAN /\ analysed \in BOOLEAN
       /\ health \in {"ok", "caught", "dead"} /\ Len(queue) <= Capacity
  BY <1>1 DEF Init
<1> QED BY Zenon, <1>1, <1>3, <1>4, <1>5, <1>6, <1>7, <1>8, <1>10, <1>11, Parts
        DEF Struct, Channel

\* Next preserves the invariant.
LEMMA CallsStep ==
    IInv /\ [Next]_vars => IInv'
<1> SUFFICES ASSUME IInv, [Next]_vars PROVE IInv'
  BY Zenon
<1>1. /\ Struct /\ History /\ Covering /\ Settled
      /\ serial \in BOOLEAN /\ analysed \in BOOLEAN
      /\ health \in {"ok", "caught", "dead"} /\ Len(queue) <= Capacity
  BY Zenon, Parts
<1>2. Struct'
  BY Zenon, <1>1, StructStep
<1>3. History' /\ analysed' \in BOOLEAN /\ Covering' /\ Settled'
  BY Zenon, <1>1, HistoryStep
<1>4. /\ Len(queue') <= Capacity /\ health' \in {"ok", "caught", "dead"}
      /\ serial' \in BOOLEAN
  BY Zenon, <1>1, RoomStep
<1> QED BY Zenon, <1>2, <1>3, <1>4, PartsNext

\* The invariant holds in every state.
LEMMA CallsInvariant ==
    Spec => []IInv
  BY CallsInitially, CallsStep, PTL DEF Spec

\* A reply's complete badge (analysis_coverage, sampled before the reads it
\* describes) is never over a read of a database still being analysed: every
\* read-only handler samples first and asks nothing but reads after it.
THEOREM BadgesAreTrue ==
    Spec => []CoverageHolds
<1>1. IInv => CoverageHolds
  BY Zenon DEF IInv, Covering, CoverageHolds
<1> QED BY <1>1, CallsInvariant, PTL

\* Behind the pool's call_lock nobody else's edit, not even one that a timed
\* out call left in the channel, comes between the reads of a call or voids
\* its badge.
THEOREM CallsAreIsolated ==
    Spec => []CallsSeeOneDatabase
<1>1. IInv => CallsSeeOneDatabase
  BY Zenon DEF IInv, Settled, CallsSeeOneDatabase
<1> QED BY <1>1, CallsInvariant, PTL

\* recv_with_timeout leaves no edit in the channel that nobody waits for,
\* but for the three that are sent with a timeout and without a token.
THEOREM NoEditIsOrphaned ==
    Spec => []EditsAreAwaited
<1>1. IInv => EditsAreAwaited
  BY Zenon DEF IInv
<1> QED BY <1>1, CallsInvariant, PTL

\* Whoever is in an await has exactly one request in the channel whose
\* responder is theirs, and nobody else has one.
THEOREM AwaitsAreAnswerable ==
    Spec => []NoLostWait
<1>1. ASSUME IInv, NEW a \in Actors
      PROVE  IF pc[a] = "wait" THEN \E i \in DOMAIN queue : Pending(a) = {i}
                               ELSE Pending(a) = {}
  <2>1. Awaited
    BY Zenon, <1>1 DEF IInv
  <2>2. CASE pc[a] = "wait"
    <3>1. PICK i \in DOMAIN queue : queue[i].by = a
      BY Zenon, <2>1, <2>2 DEF Awaited
    <3>2. \A j \in DOMAIN queue : queue[j].by = a => j = i
      BY Zenon, <2>1, <3>1 DEF Awaited
    <3> QED BY Zenon, <2>2, <3>1, <3>2 DEF Pending
  <2>3. CASE pc[a] # "wait"
    BY <2>1, <2>3 DEF Pending, Awaited
  <2> QED BY Zenon, <2>2, <2>3
<1>2. IInv => NoLostWait
  BY Zenon, <1>1 DEF NoLostWait
<1> QED BY <1>2, CallsInvariant, PTL
====
