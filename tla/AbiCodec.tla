------------------------------ MODULE AbiCodec ------------------------------
(***************************************************************************)
(* The contract ABI codec of eth/abi: how the arguments of a method are    *)
(* packed into call data, and how call data, and the topics and data of a  *)
(* log, are unpacked into the fields of a Go struct.                       *)
(*                                                                         *)
(* Data is a sequence of bytes; positions are counted from 0, as in the    *)
(* code.  A word has WordSize bytes (32 in the code) and an address        *)
(* AddressSize (20).  Integers of one or two bytes have a Go type of their *)
(* own, wider ones are *big.Int.  Reading outside the data, which would    *)
(* panic in the code, has no value here.                                   *)
(***************************************************************************)
EXTENDS Integers, FiniteSets, SequencesExt

CONSTANTS WordSize, AddressSize

ASSUME SizeAssumption == {WordSize, AddressSize} \subseteq Nat \ {0} /\ AddressSize <= WordSize

-----------------------------------------------------------------------------
(* Bytes.                                                                  *)

Slice(data, from, to) == SubSeq(data, from + 1, to)
Zeros(n) == [i \in 1..n |-> 0]
LeftPadBytes(b, n) == Zeros(n - Len(b)) \o b
RightPadBytes(b, n) == b \o Zeros(n - Len(b))
\* The n low bytes of a number, big-endian, negative ones in two's complement.
ToBytes(x, n) == [i \in 1..n |-> (x \div 256^(n - i)) % 256]
ToNumber(b) == FoldLeft(LAMBDA x, d : 256 * x + d, 0, b)
Concat(seqs) == FoldLeft(LAMBDA a, b : a \o b, <<>>, seqs)

\* U256 and packNum.
PackNum(x) == ToBytes(x, WordSize)

-----------------------------------------------------------------------------
(* Types.  A type has its tag, its size and its element type.              *)

BaseTypes == {"int", "uint", "bool", "string", "bytes", "address"}
Leaf(T, size) == [T |-> T, size |-> size, elem |-> [T |-> "none"]]
IsList(t) == t.T \in {"slice", "array"}
requiresLengthPrefix(t) == t.T \in {"string", "bytes", "slice"}

Fail == [ok |-> FALSE]
Return(v) == [ok |-> TRUE, val |-> v]
\* The code goes on with a result that is no error, and with a list of results when
\* none is.
Then(r, Op(_)) == IF r.ok THEN Op(r.val) ELSE Fail
Every(rs) == IF \E i \in DOMAIN rs : ~rs[i].ok THEN Fail ELSE Return([i \in DOMAIN rs |-> rs[i].val])

\* NewType of base with size bytes and the brackets dims, read from the last one:
\* 0 stands for [] and n for [n].
RECURSIVE NewType(_, _, _)
NewType(base, size, dims) ==
    IF dims = <<>>
    THEN IF base \notin BaseTypes \/ (base \in {"int", "uint"} /\ size = 0) THEN Fail
         ELSE Return(CASE base = "bytes" /\ size > 0 -> Leaf("fixedbytes", size)
                       [] base = "address" -> Leaf(base, AddressSize)
                       [] OTHER -> Leaf(base, size))
    ELSE LET List(embedded) ==
                 Return([T |-> IF Last(dims) = 0 THEN "slice" ELSE "array", size |-> Last(dims), elem |-> embedded])
         IN  Then(NewType(base, size, Front(dims)), List)

\* The Go type of a type's values, its kind first (reflectIntKindAndType).
RECURSIVE GoType(_)
GoType(t) ==
    CASE t.T = "uint" -> IF t.size = 1 THEN <<"uint8">> ELSE IF t.size = 2 THEN <<"uint16">> ELSE <<"ptr">>
      [] t.T = "int" -> IF t.size = 1 THEN <<"int8">> ELSE IF t.size = 2 THEN <<"int16">> ELSE <<"ptr">>
      [] t.T \in {"bool", "string"} -> <<t.T>>
      [] t.T = "bytes" -> <<"slice", <<"uint8">>>>
      [] t.T \in {"fixedbytes", "address"} -> <<"array", <<"uint8">>, t.size>>
      [] t.T = "slice" -> <<"slice", GoType(t.elem)>>
      [] t.T = "array" -> <<"array", GoType(t.elem), t.size>>

Kind(g) == g[1]

-----------------------------------------------------------------------------
(* Packing.                                                                *)

\* sliceTypeCheck of the value v of Go type g.
RECURSIVE sliceTypeCheck(_, _, _)
sliceTypeCheck(t, g, v) ==
    /\ Kind(g) \in {"slice", "array"}
    /\ t.T = "array" => Len(v) = t.size
    /\ CASE t.elem.T = "slice" /\ v # <<>> -> sliceTypeCheck(t.elem, g[2], v[1])
         [] t.elem.T = "array" -> sliceTypeCheck(t.elem, g[2], v[1])
         [] OTHER -> Kind(g[2]) = Kind(GoType(t.elem))

typeCheck(t, g, v) ==
    IF IsList(t) THEN sliceTypeCheck(t, g, v)
    ELSE Kind(GoType(t)) = Kind(g) /\ (t.T = "fixedbytes" => t.size = Len(v))

\* Every element is checked again when it is packed.
RECURSIVE Packable(_, _, _)
Packable(t, g, v) == typeCheck(t, g, v) /\ (IsList(t) => \A i \in DOMAIN v : Packable(t.elem, g[2], v[i]))

packBytesSlice(b, l) == PackNum(l) \o RightPadBytes(b, ((l + WordSize - 1) \div WordSize) * WordSize)

packElement(t, v) ==
    CASE t.T \in {"int", "uint"} -> PackNum(v)
      [] t.T \in {"string", "bytes"} -> packBytesSlice(v, Len(v))
      [] t.T = "address" -> LeftPadBytes(v, WordSize)
      [] t.T = "bool" -> PackNum(IF v THEN 1 ELSE 0)
      [] t.T = "fixedbytes" -> RightPadBytes(v, WordSize)

RECURSIVE pack(_, _)
pack(t, v) ==
    IF ~IsList(t) THEN packElement(t, v)
    ELSE LET packed == Concat([i \in DOMAIN v |-> pack(t.elem, v[i])])
         IN  IF t.T = "slice" THEN packBytesSlice(packed, Len(v)) ELSE packed

\* The length of the head as Pack computes it: an array counts for its outer size.
HeadSize(types) ==
    FoldLeft(LAMBDA n, t : n + WordSize * (IF t.T = "array" THEN t.size ELSE 1), 0, types)

\* Arguments.Pack: values inline, lists and strings behind the head.
Pack(types, gotypes, vals) ==
    LET Add(a, i) ==
            LET packed == pack(types[i], vals[i]) IN
            IF requiresLengthPrefix(types[i])
            THEN [head |-> a.head \o PackNum(HeadSize(types) + Len(a.tail)), tail |-> a.tail \o packed]
            ELSE [a EXCEPT !.head = @ \o packed]
        all == FoldLeft(Add, [head |-> <<>>, tail |-> <<>>], [i \in DOMAIN types |-> i])
    IN  IF Len(vals) = Len(types) /\ \A i \in DOMAIN types : Packable(types[i], gotypes[i], vals[i])
        THEN Return(all.head \o all.tail) ELSE Fail

-----------------------------------------------------------------------------
(* Unpacking.                                                              *)

\* readInteger: a wide integer is read as unsigned whatever its type.
readInteger(t, word) ==
    LET n == ToNumber(Slice(word, WordSize - t.size, WordSize)) IN
    IF t.size > 2 THEN ToNumber(word)
    ELSE IF t.T = "int" /\ 2 * n >= 256^t.size THEN n - 256^t.size ELSE n

readBool(word) == IF ToNumber(word) \in {0, 1} THEN Return(ToNumber(word) = 1) ELSE Fail

\* lengthPrefixPointsTo: the word at index is the offset of a length, behind which
\* at least that many bytes follow.
lengthPrefixPointsTo(index, output) ==
    LET start == ToNumber(Slice(output, index, index + WordSize)) + WordSize
        length == ToNumber(Slice(output, start - WordSize, start))
    IN  IF start > Len(output) \/ start + length > Len(output) THEN Fail
        ELSE Return([start |-> start, length |-> length])

\* getArraySize: the words of a static array, nested ones included.
RECURSIVE getArraySize(_)
getArraySize(t) == IF t.T = "array" THEN t.size * getArraySize(t.elem) ELSE 1

\* Mutation: an element of a list always takes one word.
ElemSizeFlat(elem) == WordSize

getFullElemSize(elem) == WordSize * getArraySize(elem)

RECURSIVE toGoType(_, _, _)
\* forEachUnpack: size elements from start on.
forEachUnpack(t, output, start, size) ==
    IF start + WordSize * size > Len(output) THEN Fail
    ELSE Every([j \in 1..size |-> toGoType(start + (j - 1) * getFullElemSize(t.elem), t.elem, output)])

\* A value in the word at index.
readWord(t, word) ==
    CASE t.T \in {"int", "uint"} -> Return(readInteger(t, word))
      [] t.T = "bool" -> readBool(word)
      [] t.T = "address" -> Return(Slice(word, WordSize - AddressSize, WordSize))
      [] t.T = "fixedbytes" -> Return(Slice(word, 0, t.size))

toGoType(index, t, output) ==
    LET Elements(at) == forEachUnpack(t, output, at.start, at.length)
        Content(at) == IF t.T = "slice" THEN Elements(at) ELSE Return(Slice(output, at.start, at.start + at.length))
    IN  IF index + WordSize > Len(output) \/ index < 0 THEN Fail
        ELSE IF requiresLengthPrefix(t) THEN Then(lengthPrefixPointsTo(index, output), Content)
        ELSE IF t.T = "array" THEN Elements([start |-> index, length |-> t.size])
        ELSE readWord(t, Slice(output, index, index + WordSize))

\* An argument is [field, type, indexed]: its name without leading underscores and
\* capitalised, its type, and whether it is a topic of its event.
NonIndexed(args) == SelectSeq(args, LAMBDA a : ~a.indexed)

\* UnpackValues: a static array moves the arguments behind it.
UnpackValues(args, data) ==
    LET Add(a, arg) ==
            [vals |-> Append(a.vals, toGoType(a.index, arg.type, data)),
             index |-> a.index + WordSize * getArraySize(arg.type)]
    IN  Every(FoldLeft(Add, [vals |-> <<>>, index |-> 0], NonIndexed(args)).vals)

-----------------------------------------------------------------------------
(* Filling a struct.  Its fields are [type, id], id the fieldId tag (0 when *)
(* there is none); its contents are a sequence of values.                  *)

\* set: the field takes a value of exactly its type (a field of interface or
\* pointer type does not occur).
Settable(field, arg) == field.type = GoType(arg.type)

\* The number of topics among the arguments up to the one at j.
IndexedUpTo(args, j) == Cardinality({k \in 1..j : args[k].indexed})

\* Mutation: the topics before a field are not counted.
FieldOfPlain(fields, args, i) == CHOOSE j \in DOMAIN fields : fields[j].id = i

\* The field that takes the i-th value (from 0): the first one whose tag is i plus
\* the topics seen so far.
FieldOf(fields, args, i) ==
    LET fits == {j \in DOMAIN fields : j <= Len(args) /\ fields[j].id = i + IndexedUpTo(args, j)}
    IN  CHOOSE j \in fits : \A k \in fits : j <= k

\* unpackTuple.
unpackTuple(fields, args, contents, vals) ==
    LET own == NonIndexed(args)
        Place(i) == FieldOf(fields, args, i - 1)
        names == {args[k].field : k \in DOMAIN args}
    IN  IF \/ "" \in names \/ Cardinality(names) < Len(args)
           \/ \E i \in DOMAIN own : ~Settable(fields[Place(i)], own[i])
        THEN Fail
        ELSE Return([j \in DOMAIN contents |->
                       IF \E i \in DOMAIN own : Place(i) = j
                       THEN vals[CHOOSE i \in DOMAIN own : Place(i) = j] ELSE contents[j]])

\* unpackAtomic: one value for a struct of one field.
unpackAtomic(fields, args, vals) ==
    IF Len(vals) # 1 \/ Len(fields) # 1 THEN Fail
    ELSE IF Settable(fields[1], NonIndexed(args)[1]) THEN Return(vals) ELSE Fail

\* Arguments.Unpack.
Unpack(fields, args, contents, data) ==
    LET Fill(vals) == IF Len(args) > 1 THEN unpackTuple(fields, args, contents, vals)
                      ELSE unpackAtomic(fields, args, vals)
    IN  Then(UnpackValues(args, data), Fill)

\* unpackTopics: the first topic is the event's; the k-th argument goes to the
\* k-th field.
unpackTopics(fields, args, contents, topics) ==
    LET taken == {k \in DOMAIN args : args[k].indexed /\ IndexedUpTo(args, k) < Len(topics)}
        Fill(vals) == Return([k \in DOMAIN contents |-> IF k \in taken THEN vals[k] ELSE contents[k]])
    IN  IF Len(topics) < 2 THEN Fail
        ELSE Then(Every([k \in taken |-> toGoType(0, args[k].type, topics[1 + IndexedUpTo(args, k)])]), Fill)

Blank(fields) == [k \in DOMAIN fields |-> "zero"]

\* ABI.UnpackMethod and ABI.UnpackEvent.
UnpackMethod(fields, args, output) ==
    IF Len(output) % WordSize # 0 THEN Fail ELSE Unpack(fields, args, Blank(fields), output)

UnpackEvent(fields, args, output, topics) ==
    IF output = <<>> /\ topics = <<>> THEN Fail
    ELSE Then(unpackTopics(fields, args, Blank(fields), topics), LAMBDA v : Unpack(fields, args, v, output))
=============================================================================
