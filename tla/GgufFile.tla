------------------------------ MODULE GgufFile ------------------------------
(***************************************************************************)
(* GgufFile::parse and GgufFile::write of model/formats/gguf.rs: a file is *)
(* parsed, what was parsed is written, and what was written is parsed      *)
(* again, as its test of the round trip does with one file.                *)
(*                                                                         *)
(* A file is a sequence of fields: an integer of some width, or a string   *)
(* with its length.  A name of n bytes is the number n.  A field cut short *)
(* is absent, since read_exact fails for it.  The reader takes one field   *)
(* at a time; where it meets one of another kind it is "astray", and what  *)
(* it makes of the rest is not modelled.                                   *)
(***************************************************************************)
EXTENDS Integers, Sequences, FiniteSets

CONSTANTS
  Headers,   \* magic and version of the files
  Names,     \* keys of metadata
  Values,    \* values of metadata as they are in a file
  Tensors,   \* entries of tensors
  MaxPairs, MaxTensors  \* bounds of the model on the length of a file

\* How a value of each type is stored, by the number of the type; 9 is the array.
Kinds ==
  [t \in (0..12) \ {9} |->
     CASE t \in {0, 1, 7} -> "byte" [] t \in {2, 3} -> "short" [] t \in 4..6 -> "word"
       [] t = 8 -> "text" [] t \in 10..12 -> "long"]

GgmlTypes == (0..3) \cup (6..29)

Scalars == [tag : DOMAIN Kinds, data : Nat]

GgufAssumption ==
  /\ Headers \subseteq [magic : Nat, version : Nat]
  /\ Names \subseteq Nat /\ MaxPairs \in Nat /\ MaxTensors \in Nat
  /\ Values \subseteq Scalars \cup [tag : {9}, elem : Nat, items : Seq(Scalars)]
  /\ \A v \in Values : v.tag = 9 => \A i \in DOMAIN v.items : v.items[i].tag = v.elem
  /\ Tensors \subseteq [name : Nat, dims : Seq(Nat), type : Nat, offset : Nat]

VARIABLES
  original,    \* what the fetched file holds when it is whole
  complete,   \* it was not cut short
  fields,     \* the file that is read
  ggufStage,
  at, got,    \* of parse: the record being read, and the values of its fields so far
  pos, bytes, \* the fields read, and stream_position
  header, pairsRead, metadata, tensors,
  first,      \* what the first parse returned
  second      \* what the parse of the written file returned

fileVars   == <<original, complete, fields, ggufStage, first, second>>
parsedVars == <<header, pairsRead, metadata, tensors>>
ggufVars   == <<fileVars, at, got, pos, bytes, parsedVars>>

-----------------------------------------------------------------------------
FieldOf(kind, n) == [kind |-> kind, val |-> n]

Width(f) == CASE f.kind = "byte" -> 1 [] f.kind = "short" -> 2 [] f.kind = "word" -> 4
              [] f.kind = "long" -> 8 [] f.kind = "text" -> 8 + f.val

StoredHeader(h) ==
  <<FieldOf("word", h[1]), FieldOf("word", h[2]), FieldOf("long", h[3]), FieldOf("long", h[4])>>

StoredPair(p) ==
  LET v == p.value
  IN  <<FieldOf("text", p.key), FieldOf("word", v.tag)>>
        \o IF v.tag # 9 THEN <<FieldOf(Kinds[v.tag], v.data)>>
           ELSE <<FieldOf("word", v.elem), FieldOf("long", Len(v.items))>>
                  \o [i \in DOMAIN v.items |-> FieldOf(Kinds[v.items[i].tag], v.items[i].data)]

StoredTensor(t) ==
  <<FieldOf("text", t.name), FieldOf("word", Len(t.dims))>>
    \o [i \in DOMAIN t.dims |-> FieldOf("long", t.dims[i])]
    \o <<FieldOf("word", t.type), FieldOf("long", t.offset)>>

Records(c) ==
  <<StoredHeader(c.header)>> \o [i \in DOMAIN c.pairs |-> StoredPair(c.pairs[i])]
    \o [i \in DOMAIN c.tensors |-> StoredTensor(c.tensors[i])]

InARow(parts) ==
  LET upTo[i \in 0..Len(parts)] == IF i = 0 THEN <<>> ELSE upTo[i - 1] \o parts[i]
  IN  upTo[Len(parts)]

Stored(c) == InARow(Records(c))

-----------------------------------------------------------------------------
NotRead == [status |-> "none"]

UpTo(n, S) == UNION {[1..k -> S] : k \in 0..n}

\* A file that was fetched: of this format or not, whole or cut short.
GgufInit ==
  /\ \E h \in Headers, pairs \in UpTo(MaxPairs, [key : Names, value : Values]),
        entries \in UpTo(MaxTensors, Tensors) :
       original = [header |-> <<h.magic, h.version, Len(entries), Len(pairs)>>,
                  pairs |-> pairs, tensors |-> entries]
  /\ \E n \in 0..Len(Stored(original)) :
       fields = SubSeq(Stored(original), 1, n) /\ complete = (n = Len(Stored(original)))
  /\ ggufStage = "fetched"
  /\ at = "header" /\ got = <<>> /\ pos = 0 /\ bytes = 0
  /\ header = <<>> /\ pairsRead = 0 /\ metadata = [k \in {} |-> k] /\ tensors = <<>>
  /\ first = NotRead /\ second = NotRead

-----------------------------------------------------------------------------
(***************************************************************************)
(* The records, given the values g of their fields so far: the kind of the *)
(* field that comes next, what is refused, and when the record is whole.   *)
(***************************************************************************)
Magic == 71

HeaderKind(g) == IF Len(g) < 2 THEN "word" ELSE "long"
BadHeader(g)  == \/ Len(g) = 1 /\ g[1] # Magic
                 \/ Len(g) = 2 /\ g[2] \notin {2, 3}

\* read_string, read_value and read_array_element: the key, the type and the value;
\* of an array the type of its elements, its length and the elements.
PairKind(g) ==
  CASE Len(g) = 0 -> "text"
    [] Len(g) = 1 -> "word"
    [] Len(g) = 2 -> IF g[2] = 9 THEN "word" ELSE Kinds[g[2]]
    [] Len(g) = 3 -> "long"
    [] Len(g) > 3 -> Kinds[g[3]]
BadPair(g) == \/ Len(g) = 2 /\ g[2] > 12
              \/ Len(g) = 4 /\ g[4] > 0 /\ g[3] \notin DOMAIN Kinds
PairWhole(g) == Len(g) > 2 /\ IF g[2] # 9 THEN Len(g) = 3 ELSE Len(g) > 3 /\ Len(g) = 4 + g[4]

\* A bool is true for any byte but 0.
Scalar(tag, n) == [tag |-> tag, data |-> IF tag = 7 /\ n > 0 THEN 1 ELSE n]

ValueOf(g) ==
  IF g[2] # 9 THEN Scalar(g[2], g[3])
  ELSE [tag |-> 9, items |-> [i \in 1..g[4] |-> Scalar(g[3], g[4 + i])]]

TensorKind(g) ==
  CASE Len(g) = 0 -> "text"
    [] Len(g) = 1 -> "word"
    [] Len(g) > 1 -> IF Len(g) = 2 + g[2] THEN "word" ELSE "long"
BadTensor(g)   == Len(g) > 2 /\ Len(g) = 3 + g[2] /\ g[Len(g)] \notin GgmlTypes
TensorWhole(g) == Len(g) > 3 /\ Len(g) = 4 + g[2]

TensorOf(g) ==
  [name |-> g[1], dims |-> [i \in 1..g[2] |-> g[2 + i]],
   type |-> g[3 + g[2]], offset |-> g[4 + g[2]]]

-----------------------------------------------------------------------------
AtRecord == ggufStage \in {"fetched", "written"} /\ at \in {"header", "pair", "tensor"}

Wanted == CASE at = "header" -> HeaderKind(got)
            [] at = "pair"   -> PairKind(got)
            [] at = "tensor" -> TensorKind(got)

Got == Append(got, fields[pos + 1].val)

Takes(record) ==
  /\ AtRecord /\ at = record
  /\ pos < Len(fields) /\ fields[pos + 1].kind = Wanted
  /\ pos' = pos + 1 /\ bytes' = bytes + Width(fields[pos + 1])
  /\ UNCHANGED fileVars

GoesOn == got' = Got /\ UNCHANGED <<at, parsedVars>>
Refused == at' = "refused" /\ UNCHANGED <<got, parsedVars>>

\* Which of the loops of parse comes next, once a record is through.
NextRecord ==
  /\ got' = <<>>
  /\ at' = IF pairsRead' < header'[4] THEN "pair"
           ELSE IF Len(tensors') < header'[3] THEN "tensor" ELSE "parsed"

ReadHeader ==
  /\ Takes("header")
  /\ \/ BadHeader(Got) /\ Refused
     \/ ~BadHeader(Got) /\ Len(Got) < 4 /\ GoesOn
     \/ Len(Got) = 4 /\ header' = Got /\ UNCHANGED <<pairsRead, metadata, tensors>> /\ NextRecord

\* A key that comes up again replaces the value.
ReadPair ==
  /\ Takes("pair")
  /\ \/ BadPair(Got) /\ Refused
     \/ ~BadPair(Got) /\ ~PairWhole(Got) /\ GoesOn
     \/ /\ ~BadPair(Got) /\ PairWhole(Got)
        /\ metadata' = [k \in DOMAIN metadata \cup {Got[1]} |->
                          IF k = Got[1] THEN ValueOf(Got) ELSE metadata[k]]
        /\ pairsRead' = pairsRead + 1 /\ UNCHANGED <<header, tensors>> /\ NextRecord

ReadTensor ==
  /\ Takes("tensor")
  /\ \/ BadTensor(Got) /\ Refused
     \/ ~BadTensor(Got) /\ ~TensorWhole(Got) /\ GoesOn
     \/ /\ TensorWhole(Got)
        /\ tensors' = Append(tensors, TensorOf(Got))
        /\ UNCHANGED <<header, pairsRead, metadata>> /\ NextRecord

\* A field is missing, or of another kind.
EndOfFile ==
  /\ AtRecord /\ pos = Len(fields)
  /\ at' = "refused" /\ UNCHANGED <<fileVars, got, pos, bytes, parsedVars>>

GoAstray ==
  /\ AtRecord /\ pos < Len(fields) /\ fields[pos + 1].kind # Wanted
  /\ at' = "astray" /\ UNCHANGED <<fileVars, got, pos, bytes, parsedVars>>

\* The data start at the next multiple of 32.
Result ==
  IF at = "parsed"
  THEN [status |-> at, header |-> header, metadata |-> metadata, tensors |-> tensors,
        dataOffset |-> ((bytes + 31) \div 32) * 32]
  ELSE [status |-> at]

Return ==
  /\ at \in {"parsed", "refused", "astray"}
  /\ \/ /\ ggufStage = "fetched" /\ ggufStage' = "parsed"
        /\ first' = Result /\ UNCHANGED second
     \/ /\ ggufStage = "written" /\ ggufStage' = "done"
        /\ second' = Result /\ UNCHANGED first
  /\ UNCHANGED <<original, complete, fields, at, got, pos, bytes, parsedVars>>

-----------------------------------------------------------------------------
\* The tag of an array is that of its first element, and u8 when it is empty.
ElemType(v) == IF v.items = <<>> THEN 0 ELSE v.items[1].tag

WrittenValue(v) ==
  IF v.tag # 9 THEN v ELSE [tag |-> 9, elem |-> ElemType(v), items |-> v.items]

\* The keys in increasing order: before the i-th of them there are i - 1 others.
SortedKeys(K) ==
  [i \in 1..Cardinality(K) |-> CHOOSE k \in K : Cardinality({j \in K : j < k}) = i - 1]

\* The counts are those of the header, whatever the metadata hold.
Written(g) ==
  LET keys == SortedKeys(DOMAIN g.metadata)
  IN  [header |-> g.header, tensors |-> g.tensors,
       pairs  |-> [i \in DOMAIN keys |->
                     [key |-> keys[i], value |-> WrittenValue(g.metadata[keys[i]])]]]

write ==
  /\ ggufStage = "parsed" /\ ggufStage' = "written"
  /\ first.status = "parsed"
  /\ fields' = Stored(Written(first))
  /\ at' = "header" /\ got' = <<>> /\ pos' = 0 /\ bytes' = 0
  /\ header' = <<>> /\ pairsRead' = 0 /\ metadata' = [k \in {} |-> k] /\ tensors' = <<>>
  /\ UNCHANGED <<original, complete, first, second>>

GgufNext ==
  \/ ReadHeader \/ ReadPair \/ ReadTensor \/ EndOfFile \/ GoAstray \/ Return \/ write

GgufSpec == GgufInit /\ [][GgufNext]_ggufVars

-----------------------------------------------------------------------------
Unique(pairs) == \A i, j \in DOMAIN pairs : pairs[i].key = pairs[j].key => i = j

Parsed(v) ==
  IF v.tag # 9 THEN Scalar(v.tag, v.data)
  ELSE [tag |-> 9, items |-> [i \in DOMAIN v.items |-> Scalar(v.items[i].tag, v.items[i].data)]]

ParsedValues == Scalars \cup [tag : {9}, items : Seq(Scalars)]

GgufTypeOK ==
  /\ fields \in Seq([kind : {"byte", "short", "word", "long", "text"}, val : Nat])
  /\ complete \in BOOLEAN
  /\ ggufStage \in {"fetched", "parsed", "written", "done"}
  /\ at \in {"header", "pair", "tensor", "parsed", "refused", "astray"}
  /\ got \in Seq(Nat) /\ pos \in 0..Len(fields) /\ bytes \in Nat
  /\ header \in Seq(Nat) /\ pairsRead \in Nat
  /\ DOMAIN metadata \subseteq Nat
  /\ \A k \in DOMAIN metadata : metadata[k] \in ParsedValues
  /\ tensors \in Seq([name : Nat, dims : Seq(Nat), type : GgmlTypes, offset : Nat])
  /\ {first.status, second.status} \subseteq {"none", "parsed", "refused", "astray"}

\* A file that was cut short anywhere before its data is refused; no file that was
\* fetched leads the reader astray.
CutIsRefused ==
  ggufStage # "fetched" =>
    /\ first.status \in {"parsed", "refused"}
    /\ first.status = "parsed" => complete

\* What parse returns is what the file holds.
ContentIsParsed ==
  first.status = "parsed" =>
    /\ first.header = original.header /\ first.tensors = original.tensors
    /\ DOMAIN first.metadata = {original.pairs[i].key : i \in DOMAIN original.pairs}
    /\ Unique(original.pairs) =>
         \A i \in DOMAIN original.pairs :
           first.metadata[original.pairs[i].key] = Parsed(original.pairs[i].value)

\* What was written parses to what was parsed: header, metadata, tensors and the
\* place of the data.  The keys of the file have to differ, since a key that
\* came up twice is written once and still counted twice.
RoundTrip == ggufStage = "done" /\ Unique(original.pairs) => second = first

ParsedIsWhole == CutIsRefused /\ ContentIsParsed /\ RoundTrip
=============================================================================
