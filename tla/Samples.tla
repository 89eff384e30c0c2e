-------------------------------- MODULE Samples ---------------------------------
(***************************************************************************)
(* The arguments calls are made with and the answers handlers give. A      *)
(* field's value depends on its position, so that two fields that change   *)
(* places are told apart, and on a seed that reaches both ends of its      *)
(* range. The regions of two- and three-dimensional copies and fills are   *)
(* taken from both sides of the limits of the checks, in a small           *)
(* allocation and in one that holds more bytes than a u32 can count, and   *)
(* those the client's checks let through are sent.                         *)
(***************************************************************************)
EXTENDS Messages, Extents

CONSTANTS
    MAX_PAYLOAD,    \* the longest request payload the server takes
    MaxData         \* the longest name or block of bytes that is tried

ASSUME WordIsU64 == Word = Radix ^ 8
ASSUME MaxDataAssumption == MaxData \in Nat \ {0}

Seeds == {0, 1}

\* A member of a set of numbers.
OneOf(set, seed) ==
    CHOOSE x \in set : Cardinality({y \in set : y < x}) = seed % Cardinality(set)

AtMost(n, m) == IF n < m THEN n ELSE m

\* A number of n bytes, all different.
Mixed(n, i) == Number([k \in 1 .. n |-> (i + k) % Radix])

Block(n, i) == [k \in 1 .. n |-> ((i + k) % (Radix - 1)) + 1]

\* Kernel arguments as serialize_kernel_launch writes them: none, or pointers
\* with their offsets and raw values of several sizes, one after the other.
ArgumentLists ==
    <<<<>>, [i \in 1 .. 4 |->
               [kind |-> <<ARG_REMOTE_PTR, ARG_RAW_VALUE, ARG_RAW_VALUE, ARG_REMOTE_PTR>>[i],
                value |-> Block(<<16, 4, 3, 16>>[i], i)]]>>

\* The value of the field at position i; known has the values of earlier fields.
Sample(f, i, seed, known) ==
    CASE f.only # {} -> OneOf(f.only, seed)
      [] f.echo -> known[f.name]
      [] f.type = "u32" -> <<U32_MAX - i, Mixed(4, i)>>[seed + 1]
      [] f.type = "u64" -> <<U64_MAX - i, Mixed(8, i)>>[seed + 1]
      [] f.type = "i32" -> LET top == U32_MAX \div 2
                           IN  <<IF f.least = 0 THEN top - i ELSE i - top - 1,
                                 Mixed(3, i)>>[seed + 1]
      [] f.type \in {"name", "bytes"} -> Block(<<AtMost(f.max, MaxData), f.least>>[seed + 1], i)
      [] f.type = "array" -> Block(f.max, seed)
      [] f.type = "args" -> ArgumentLists[seed + 1]
      [] f.type = "data" -> Block(DataLength(f, known), seed)

\* The fields of a layout one after the other.
Filled(layout, seed, known) ==
    Through(LAMBDA vals, i : IF layout[i].name \in DOMAIN known THEN vals
                             ELSE (layout[i].name :> Sample(layout[i], i, seed, vals)) @@ vals,
            known, [i \in DOMAIN layout |-> i])

---------------------------------------------------------------------------------
(* Regions.                                                                 *)

\* A copy goes from allocation 8 to 7, or from 10 to 9.
alloc_size(id) == IF id \in {7, 8} THEN 12 ELSE U32_MAX + 5

\* The rectangles a pointer into an allocation may name: resolve_remote_2d_region.
\* Only a single row may have a pitch near the end of the range.
Rectangles ==
    LET wide == U32_MAX + 1
        square == Radix * Radix
    IN  {r \in [allocation : {7}, offset : {0, 3}, pitch : {3, 5, Word \div 2},
                width : {2, 3}, height : {1, 3}]
             \union [allocation : {7}, offset : {0}, pitch : {Word - 4, Word - 3, Word - 1},
                     width : {2, 3}, height : {1}]
             \union [allocation : {9}, offset : {4}, pitch : {wide}, width : {wide - 1, wide},
                     height : {1}]
             \union [allocation : {9}, offset : {4}, pitch : {square}, width : {square},
                     height : {square - 1, square}] :
            checked_2d_extent(r.offset, r.pitch, r.width, r.height, alloc_size(r.allocation))}

\* The boxes: resolve_remote_3d_region_mode, with ysize rows to a slice.
Boxes ==
    LET Box3(c) ==
            [allocation |-> c.allocation, pitch |-> c.pitch, slice |-> c.pitch * c.ysize,
             offset |-> byte_offset(0, c.pos, c.pitch, c.pitch * c.ysize)] @@ c.extent
        Inside(c) ==
            checked_3d_region(0, c.pos, c.pitch, c.pitch * c.ysize, c.extent,
                              alloc_size(c.allocation))
        small == [allocation : {7}, pos : [x : {1}, y : {0, 1}, z : {0, 1}], pitch : {3, 4},
                  ysize : {2}, extent : [width : {2}, height : {1, 2}, depth : {1, 2}]]
        large == [allocation : {9}, pos : [x : {0}, y : {0}, z : {0}], pitch : {Radix * Radix},
                  ysize : {Radix}, extent : [width : {Radix * Radix}, height : {Radix},
                                             depth : {Radix - 1, Radix}]]
    IN  {Box3(c) : c \in {c \in small \union large : Inside(c)}}

\* Pairs of regions of the same extent in which every region is once on either side;
\* the other one has a small pitch.
Alike(regions) ==
    LET Same(r) == {q \in regions : \A x \in DOMAIN r \ {"offset", "pitch", "slice"} :
                                       q[x] = r[x]}
        Other(r) == CHOOSE q \in Same(r) : \A p \in Same(r) : q.pitch <= p.pitch
    IN  {<<r, Other(r)>> : r \in regions} \union {<<Other(r), r>> : r \in regions}

\* A fill of a box; of a single row the application's pitch is not used.
Filling(r) ==
    LET row == r.height = 1 /\ r.depth = 1
    IN  [r EXCEPT !.pitch = IF row THEN r.width ELSE @, !.slice = IF row THEN r.width ELSE @]
        @@ [value |-> Radix - 1]

\* A copy from src to dst; the side in host memory has a pitch but no allocation.
Between(mode, dst, src) ==
    [mode |-> mode, width |-> dst.width, height |-> dst.height,
     dst |-> IF mode \in {2, 5} THEN 0 ELSE dst.allocation,
     src |-> IF mode \in {1, 4} THEN 0 ELSE src.allocation + 1,
     dst_offset |-> IF mode \in {2, 5} THEN 0 ELSE dst.offset, dst_pitch |-> dst.pitch,
     src_offset |-> IF mode \in {1, 4} THEN 0 ELSE src.offset, src_pitch |-> src.pitch]

BetweenBoxes(mode, dst, src) ==
    Between(mode, dst, src)
    @@ [dst_slice |-> dst.slice, src_slice |-> src.slice, depth |-> dst.depth]

Modes(op) == (CHOOSE f \in Range(call_of[op].request) : f.name = "mode").only

---------------------------------------------------------------------------------

RegionCalls == {50, 51, 52, 55, 56, 57, 58, 65, 66}

RegionValues(op) ==
    CASE op \in {52, 57, 58} -> Rectangles
      [] op \in {65, 66} -> {Filling(r) : r \in Boxes}
      [] op \in {50, 51} -> {Between(m, p[1], p[2]) : m \in Modes(op), p \in Alike(Rectangles)}
      [] op \in {55, 56} -> {BetweenBoxes(m, p[1], p[2]) : m \in Modes(op), p \in Alike(Boxes)}

\* How many bytes the region of a call has.
RegionBytes(v) == v.width * v.height * (IF "depth" \in DOMAIN v THEN v.depth ELSE 1)

\* The limits of remote_memcpy2d, remote_memcpy2d_h2d_async and remote_memcpy3d, which
\* send nothing beyond them.
Sends(op, v) ==
    CASE op = 50 -> /\ v.height <= U32_MAX \div v.width
                    /\ v.mode = 1 => 68 + RegionBytes(v) <= U32_MAX
      [] op = 57 -> RegionBytes(v) <= U32_MAX - 48
      [] op \in {55, 56} -> /\ v.width <= U64_MAX \div v.height
                            /\ v.width * v.height <= U64_MAX \div v.depth
                            /\ v.mode \in {1, 4} =>
                                   RegionBytes(v) <= U32_MAX - (IF op = 55 THEN 92 ELSE 100)
      [] OTHER -> TRUE

\* A reply that brings the bytes of a large region is not tried.
Tried(op, v) ==
    (op \in {50, 55} /\ v.mode = 2) => RegionBytes(v) \notin MaxData .. U32_MAX

\* How many bytes of data a request or its reply has.
Lengths(op) == UNION {Range(f.dims) : f \in Range(call_of[op].request \o call_of[op].response)}

LengthsOf(op, seed) ==
    [d \in Lengths(op) |-> <<3, MAX_PAYLOAD>>[seed + 1]]

\* The arguments of a call.
ArgumentsOf ==
    [op \in DOMAIN call_of |->
        IF op \in RegionCalls
        THEN {Filled(call_of[op].request, 0, r) :
                 r \in {r \in RegionValues(op) : Sends(op, r) /\ Tried(op, r)}}
        ELSE {Filled(call_of[op].request, seed, LengthsOf(op, seed)) : seed \in Seeds}]

=================================================================================
