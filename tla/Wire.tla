---------------------------------- MODULE Wire ----------------------------------
(***************************************************************************)
(* How the messages of the CRX9 protocol are laid out in bytes: the reads  *)
(* and writes of include/internal/corex_protocol.h, from which both the    *)
(* generated codecs of include/generated/corex_api_schema.h and the codecs *)
(* written by hand in the client and in the server are put together.       *)
(*                                                                         *)
(* A message is a layout, a sequence of fields, and a record of values.    *)
(* All byte counts are those of the code (a u32 is four bytes, a u64 is    *)
(* eight); only what a byte can hold is scaled, to 0..Radix-1 instead of   *)
(* 0..255, so that TLC's integers hold a u64.                              *)
(***************************************************************************)
EXTENDS Integers, Sequences, FiniteSets, SequencesExt

CONSTANT
    Radix           \* the number of values of a byte; even, for two's complement

ASSUME RadixAssumption == Radix \in Nat \ {0} /\ Radix % 2 = 0

U32_MAX == Radix ^ 4 - 1
U64_MAX == Radix ^ 8 - 1

---------------------------------------------------------------------------------
(* Numbers.                                                                 *)

\* The digits of v, the most significant first: htonl, corex_protocol_to_be64.
BigEndian(v, n) == [k \in 1 .. n |-> (v \div Radix ^ (n - k)) % Radix]

\* A left fold as a recursive function; FoldLeft takes its elements out of sets.
Through(Step(_, _), start, s) ==
    LET at[k \in 0 .. Len(s)] == IF k = 0 THEN start ELSE Step(at[k - 1], s[k])
    IN  at[Len(s)]

\* corex_protocol_read_u32 and _u64.
Number(s) == Through(LAMBDA v, b : v * Radix + b, 0, s)

\* The cast of a u32 to int32_t.
Signed(v) == IF v > U32_MAX \div 2 THEN v - U32_MAX - 1 ELSE v

---------------------------------------------------------------------------------
(* Fields.                                                                  *)
(*   max   the longest value of a bounded string or byte field              *)
(*   dims  for raw data, the fields whose product is its length             *)
(*   only  the values the sender passes, or the receiver accepts; {} is all *)
(*   least the least number, or length, that is passed or accepted          *)
(*   echo  the value is the one the request had                             *)
(*   modes the values of the field "mode" with which it is there; {} is all *)

Field(type, name) ==
    [type |-> type, name |-> name, max |-> 0, dims |-> <<>>, only |-> {},
     least |-> IF type = "i32" THEN -U32_MAX ELSE 0,
     echo |-> FALSE, modes |-> {}]

U32(name) == Field("u32", name)
I32(name) == Field("i32", name)
U64(name) == Field("u64", name)
Name(name, max) == [Field("name", name) EXCEPT !.max = max]
Bytes(name, max) == [Field("bytes", name) EXCEPT !.max = max]
Words(name, max) == [Field("words", name) EXCEPT !.max = max]
Array(name, size) == [Field("array", name) EXCEPT !.max = size]
Arguments(name, max) == [Field("args", name) EXCEPT !.max = max]
Data(name, dims) == [Field("data", name) EXCEPT !.dims = dims]
Rest == Field("rest", "rest")
Only(f, values) == [f EXCEPT !.only = values]
AtLeast(f, n) == [f EXCEPT !.least = n]
Echo(f) == [f EXCEPT !.echo = TRUE]
When(f, modes) == [f EXCEPT !.modes = modes]

Present(f, vals) == f.modes = {} \/ vals["mode"] \in f.modes

\* The number of bytes of raw data: bytes, width * height, w * h * d.
DataLength(f, vals) == Through(LAMBDA n, d : n * vals[d], 1, f.dims)

---------------------------------------------------------------------------------
(* Writing.                                                                 *)

\* A counted field: corex_protocol_write_u32 of the count, then the elements.
Counted(n, s) == BigEndian(n, 4) \o s

\* One kernel argument: kind, size and the bytes of the value.
WriteArgument(a) == BigEndian(a.kind, 4) \o Counted(Len(a.value), a.value)

WriteField(f, vals) ==
    LET v == vals[f.name]
    IN  CASE f.type = "u32" -> BigEndian(v, 4)
          [] f.type = "i32" -> BigEndian(v % (U32_MAX + 1), 4)
          [] f.type = "u64" -> BigEndian(v, 8)
          [] f.type \in {"name", "bytes"} -> Counted(Len(v), v)
          [] f.type = "words" -> Counted(Len(v), FlattenSeq([i \in DOMAIN v |-> BigEndian(v[i], 4)]))
          [] f.type = "array" -> v
          [] f.type = "args" -> Counted(Len(v), FlattenSeq([i \in DOMAIN v |-> WriteArgument(v[i])]))
          [] f.type = "data" -> v

Encode(layout, vals) ==
    FlattenSeq([i \in DOMAIN layout |->
        IF Present(layout[i], vals) THEN WriteField(layout[i], vals) ELSE <<>>])

---------------------------------------------------------------------------------
(* Reading. A cursor holds the position, the values read so far, and        *)
(* whether everything fitted.                                               *)

Start(known) == [pos |-> 0, vals |-> known, ok |-> TRUE]

\* The n bytes at the cursor.
Peek(s, c, n) == SubSeq(s, c.pos + 1, c.pos + n)

Left(s, c) == Len(s) - c.pos

Failed(c) == [c EXCEPT !.ok = FALSE]

\* The value is taken when its n bytes are there and it is one that is accepted.
Take(s, c, f, n, v) ==
    IF n <= Left(s, c) /\ (f.only = {} \/ v \in f.only) /\ (f.echo => v = c.vals[f.name])
    THEN [c EXCEPT !.pos = @ + n, !.vals = (f.name :> v) @@ @]
    ELSE Failed(c)

TakeNumber(s, c, f, n, Value(_)) ==
    IF n <= Left(s, c) /\ Value(Peek(s, c, n)) >= f.least
    THEN Take(s, c, f, n, Value(Peek(s, c, n)))
    ELSE Failed(c)

\* A counted field of n elements, each `size` bytes.
TakeCounted(s, c, f, size, Accepts(_), Value(_)) ==
    LET n == Number(Peek(s, c, 4))
        body == Peek(s, [c EXCEPT !.pos = @ + 4], n * size)
    IN  IF Left(s, c) < 4 \/ n \notin f.least .. f.max \/ n * size > Left(s, c) - 4 THEN Failed(c)
        ELSE IF ~Accepts(body) THEN Failed(c)
        ELSE Take(s, c, f, 4 + n * size, Value(body))

ARG_REMOTE_PTR == 1
ARG_RAW_VALUE == 5

\* The bytes an argument of a kind takes: pointer and offset, int, u64, float.
\* A raw value takes what the kernel's signature says.
wire_arg_payload_size(kind) == IF kind \in 1 .. 4 THEN <<16, 4, 8, 4>>[kind] ELSE 0

\* One kernel argument at the cursor; the sequence read so far grows by it.
ReadArgument(s, c, name) ==
    LET head == Peek(s, c, 8)
        kind == Number(SubSeq(head, 1, 4))
        n == Number(SubSeq(head, 5, 8))
        fits == /\ n \in 1 .. Left(s, c) - 8
                /\ kind = ARG_RAW_VALUE \/ n = wire_arg_payload_size(kind)
    IN  IF Left(s, c) < 8 THEN Failed(c)
        ELSE IF ~fits THEN Failed(c)
        ELSE [c EXCEPT !.pos = @ + 8 + n,
                       !.vals[name] = Append(@, [kind |-> kind,
                                                 value |-> SubSeq(s, c.pos + 9, c.pos + 8 + n)])]

ReadArguments(s, c, f) ==
    LET n == Number(Peek(s, c, 4))
        first == [c EXCEPT !.pos = @ + 4, !.vals = (f.name :> <<>>) @@ @]
    IN  IF Left(s, c) < 4 \/ n > f.max THEN Failed(c)
        ELSE Through(LAMBDA d, i : IF d.ok THEN ReadArgument(s, d, f.name) ELSE d,
                     first, [i \in 1 .. n |-> i])

ReadWords(body) == [i \in 1 .. Len(body) \div 4 |-> Number(SubSeq(body, 4 * i - 3, 4 * i))]

\* The words of a HELLO: none is zero and none comes twice.
Distinct(body) ==
    LET words == ReadWords(body)
    IN  \A i \in DOMAIN words : words[i] # 0 /\ \A j \in 1 .. i - 1 : words[j] # words[i]

ReadField(s, c, f) ==
    CASE f.type = "u32" -> TakeNumber(s, c, f, 4, Number)
      [] f.type = "i32" -> TakeNumber(s, c, f, 4, LAMBDA b : Signed(Number(b)))
      [] f.type = "u64" -> TakeNumber(s, c, f, 8, Number)
      [] f.type = "name" -> TakeCounted(s, c, f, 1, LAMBDA b : \A i \in DOMAIN b : b[i] # 0,
                                        LAMBDA b : b)
      [] f.type = "bytes" -> TakeCounted(s, c, f, 1, LAMBDA b : TRUE, LAMBDA b : b)
      [] f.type = "words" -> TakeCounted(s, c, f, 4, Distinct, ReadWords)
      [] f.type = "array" -> Take(s, c, f, f.max, Peek(s, c, f.max))
      [] f.type = "args" -> ReadArguments(s, c, f)
      [] f.type = "rest" -> Take(s, c, f, Left(s, c), Peek(s, c, Left(s, c)))
      [] f.type = "data" -> Take(s, c, f, DataLength(f, c.vals), Peek(s, c, DataLength(f, c.vals)))

\* Every field in turn, and nothing behind the last one.
Decode(layout, s, known) ==
    LET end == Through(LAMBDA c, f : IF c.ok /\ Present(f, c.vals) THEN ReadField(s, c, f) ELSE c,
                       Start(known), layout)
    IN  [ok |-> end.ok /\ end.pos = Len(s), vals |-> end.vals]

=================================================================================
