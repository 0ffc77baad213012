--------------------------- MODULE ToolCallStream ---------------------------
(***************************************************************************)
(* How infer() puts the tool calls of a streamed response together from    *)
(* their deltas.  A call's JSON arguments arrive in Pieces fragments; a    *)
(* strict prefix of a JSON object does not parse.                          *)
(***************************************************************************)
EXTENDS Naturals, FiniteSets, Sequences

CONSTANT Pieces  \* the deltas in which a call arrives

ASSUME PiecesAssumption == Pieces \in Nat \ {0}

NoId    == <<"none">>
NoIndex == 0
NoName  == 0

\* How a provider labels the deltas of call k: the index in each and the id in
\* the first or only in the last, or the id in each and no index.
Shapes == {"indexed", "late id", "ids"}

Delta(shape, k, part) ==
  [id    |-> IF shape = "ids" \/ part = (IF shape = "indexed" THEN 1 ELSE Pieces)
               THEN <<"call", k>> ELSE NoId,
   index |-> IF shape = "ids" THEN NoIndex ELSE k,
   name  |-> IF part = 1 THEN k ELSE NoName,
   args  |-> part]

WholeArgs(args) == Len(args) = Pieces

\* accumulateToolCallDelta: by id, else by index, else a new entry; the
\* fragments after a complete argument are ignored.
Accumulate(entries, delta) ==
  LET byId    == {o \in DOMAIN entries : delta.id # NoId /\ entries[o].id = delta.id}
      byIndex == {o \in DOMAIN entries :
                    delta.index # NoIndex /\ entries[o].index = delta.index}
      found   == IF byId # {} THEN byId ELSE byIndex
      at      == IF found = {} THEN Len(entries) + 1 ELSE CHOOSE o \in found : TRUE
      entry   == IF found = {} THEN [id |-> <<"synthetic", at>>, index |-> delta.index,
                                     name |-> NoName, args |-> <<>>]
                               ELSE entries[at]
      updated == [id    |-> IF delta.id = NoId THEN entry.id ELSE delta.id,
                  index |-> IF entry.index = NoIndex THEN delta.index ELSE entry.index,
                  name  |-> IF delta.name = NoName THEN entry.name ELSE delta.name,
                  args  |-> IF WholeArgs(entry.args) THEN entry.args
                                                    ELSE Append(entry.args, delta.args)]
  IN  [o \in DOMAIN entries \union {at} |-> IF o = at THEN updated ELSE entries[o]]

AssembledCall(entry) == [call |-> entry.name, whole |-> WholeArgs(entry.args)]

\* Mutant: always in the order of arrival.
AssembledMutant(entries) ==
  LET named  == {o \in DOMAIN entries : entries[o].name # NoName}
      nth(i) == CHOOSE o \in named : Cardinality({p \in named : p <= o}) = i
  IN  [i \in 1 .. Cardinality(named) |-> AssembledCall(entries[nth(i)])]

\* assembleToolCalls: in the order of the indices, or of arrival where there
\* are none; an entry that never got a name is dropped.
Assembled(entries) ==
  LET indexed == {o \in DOMAIN entries : entries[o].index # NoIndex}
      chosen  == IF indexed = {} THEN DOMAIN entries ELSE indexed
      named   == {o \in chosen : entries[o].name # NoName}
      upTo(o) == {p \in named : IF indexed = {} THEN p <= o
                                ELSE entries[p].index <= entries[o].index}
      nth(i)  == CHOOSE o \in named : Cardinality(upTo(o)) = i
  IN  [i \in 1 .. Cardinality(named) |-> AssembledCall(entries[nth(i)])]

\* The orders in which the deltas of n calls can arrive: each call's in order.
Interleavings(n) ==
  {s \in [1 .. n * Pieces -> 1 .. n] :
     \A k \in 1 .. n : Cardinality({i \in DOMAIN s : s[i] = k}) = Pieces}

\* Without indices it is the order of arrival that says which call is first.
StartsInOrder(s) ==
  \A i \in DOMAIN s : \A k \in 1 .. (s[i] - 1) : \E j \in 1 .. i : s[j] = k

DeltasOf(shape, s) ==
  [i \in DOMAIN s |-> Delta(shape, s[i], Cardinality({j \in 1 .. i : s[j] = s[i]}))]

\* The entries after each number of deltas.
Accumulated(shape, s) ==
  LET deltas == DeltasOf(shape, s)
      after[m \in 0 .. Len(s)] ==
        IF m = 0 THEN <<>> ELSE Accumulate(after[m - 1], deltas[m])
  IN  after

\* What comes of the first m deltas.
Streamed(shape, s, m) == Assembled(Accumulated(shape, s)[m])

\* What comes of responses with n calls, complete or cut off by an abort or at
\* the token limit.
Outcomes(n, full) ==
  {Streamed(x[1], x[2], x[3]) :
     x \in {y \in Shapes \X Interleavings(n) \X (0 .. n * Pieces) :
              /\ (y[3] = n * Pieces) = full
              /\ y[1] = "ids" => StartsInOrder(y[2])}}
=============================================================================
