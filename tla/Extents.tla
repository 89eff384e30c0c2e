-------------------------------- MODULE Extents ---------------------------------
(***************************************************************************)
(* The checks that a two- or three-dimensional region lies inside an       *)
(* allocation. The client makes one before it sends a request              *)
(* (src/corex_remote_cuda.c), the server another one, written differently, *)
(* before it passes the region to the device (server/runtime_server.c).    *)
(* All numbers are of type size_t or uint64_t: sums and products are taken *)
(* modulo Word.                                                            *)
(***************************************************************************)
EXTENDS Integers

CONSTANT
    Word            \* the number of values of a size_t

ASSUME WordAssumption == Word \in Nat \ {0}

Size == 0 .. Word - 1

Wrap(n) == n % Word

---------------------------------------------------------------------------------
(* The client.                                                              *)

\* Fault: the number of rows is not compared before it is multiplied.
LastRowOnly(offset, pitch, width, height, allocation_size) ==
    LET row == Wrap(offset + (height - 1) * pitch)
    IN  /\ height # 0 /\ width # 0 /\ pitch # 0
        /\ width <= pitch
        /\ offset <= allocation_size
        /\ row <= allocation_size
        /\ width <= allocation_size - row

checked_2d_extent(offset, pitch, width, height, allocation_size) ==
    LET row == Wrap(offset + (height - 1) * pitch)
    IN  /\ height # 0 /\ width # 0 /\ pitch # 0
        /\ width <= pitch
        /\ offset <= allocation_size
        /\ height - 1 <= (allocation_size - offset) \div pitch
        /\ width <= Wrap(allocation_size - row)

\* Where a region of a pitched pointer begins.
byte_offset(base_offset, position, pitch, slice_pitch) ==
    Wrap(base_offset + position.z * slice_pitch + position.y * pitch + position.x)

checked_3d_region(base_offset, position, pitch, slice_pitch, extent, limit) ==
    LET rows == slice_pitch \div pitch
        slice == Wrap(base_offset + position.z * slice_pitch)
        row == Wrap(slice + position.y * pitch)
        offset == Wrap(row + position.x)
        last_slice == Wrap(offset + (extent.depth - 1) * slice_pitch)
    IN  /\ extent.width # 0 /\ extent.height # 0 /\ extent.depth # 0
        /\ pitch # 0 /\ slice_pitch # 0
        /\ slice_pitch % pitch = 0
        /\ position.x <= pitch /\ extent.width <= pitch - position.x
        /\ position.y <= rows /\ extent.height <= rows - position.y
        /\ base_offset <= limit
        /\ position.z <= (limit - base_offset) \div slice_pitch
        /\ position.y <= (limit - slice) \div pitch
        /\ position.x <= limit - row
        /\ extent.depth - 1 <= (limit - offset) \div slice_pitch
        /\ checked_2d_extent(last_slice, pitch, extent.width, extent.height, limit)

---------------------------------------------------------------------------------
(* The server.                                                              *)

\* decode_2d, the destination of a copy.
decode_2d_dst(size, offset, pitch, width, height) ==
    LET row == Wrap(offset + (height - 1) * pitch)
    IN  /\ offset <= size
        /\ height <= (Word - 1 - width) \div pitch
        /\ row <= size
        /\ width <= size - row

\* decode_2d, the source of a copy.
decode_2d_src(size, offset, pitch, width, height) ==
    LET row == Wrap(offset + (height - 1) * pitch)
    IN  /\ offset <= size
        /\ row <= size
        /\ width <= size - row

\* handle_memset_2d and handle_memcpy_2d_host_async.
valid_2d_rows(size, offset, pitch, width, height) ==
    /\ width # 0 /\ height # 0 /\ pitch # 0
    /\ width <= pitch
    /\ offset <= size
    /\ height - 1 <= (size - offset) \div pitch
    /\ width <= Wrap(size - offset - (height - 1) * pitch)

valid_3d_allocation(size, offset, pitch, slice, width, height, depth) ==
    LET last_slice == Wrap(offset + (depth - 1) * slice)
        last_row == Wrap(last_slice + (height - 1) * pitch)
    IN  /\ pitch # 0 /\ slice # 0
        /\ slice % pitch = 0
        /\ width <= pitch
        /\ height <= slice \div pitch
        /\ offset <= size
        /\ depth - 1 <= (size - offset) \div slice
        /\ height - 1 <= (size - last_slice) \div pitch
        /\ width <= size - last_row

=================================================================================
