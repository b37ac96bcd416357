------------------------------ MODULE BDSPTypes ------------------------------
(***************************************************************************)
(* The packet header bit field and the packet checksum of the BDSP packet  *)
(* protocol (include/BDSP/types.h, src/mixins.cpp).                        *)
(***************************************************************************)
EXTENDS Bytes, Sequences

CONSTANTS ChecksumFunctions,        \* what set_checksum_function may install
          Checksum(_, _, _)         \* Checksum(f, cells, base): function f over an array

-----------------------------------------------------------------------------
(* packet_v1_header: packet_id : 5, is_two_bytes_for_packet_size : 1,        *)
(* is_checksum_used : 1, is_unsupported_protocol_version : 1, low bits first. *)

packet_id(header) == header % IdCount

is_two_bytes_for_packet_size(header) == (header \div IdCount) % 2 = 1

is_checksum_used(header) == (header \div (2 * IdCount)) % 2 = 1

is_unsupported_protocol_version(header) == header >= 4 * IdCount

-----------------------------------------------------------------------------
\* An array of one byte, the first argument of most checksum calls.
One(byte) == [i \in {0} |-> byte]

\* BDSPV1ChecksumMixin::_calc_checksum: header, low size byte, high size byte
\* when the header announces it, then the data, chained from base 255.
calc_checksum(f, header, data, size) ==
    LET afterHeader == Checksum(f, One(header), Radix - 1)
        afterLow    == Checksum(f, One(size % Radix), afterHeader)
        afterSize   == IF is_two_bytes_for_packet_size(header)
                       THEN Checksum(f, One(size \div Radix), afterLow)
                       ELSE afterLow
    IN  IF is_checksum_used(header) THEN Checksum(f, data, afterSize) ELSE 0

-----------------------------------------------------------------------------
(* Reference: the packet format, as a predicate on the bytes of a frame.      *)

\* bytes is the wire image of the packet (id, data), header to checksum.
IsPacket(bytes, id, data) ==
    LET two == is_two_bytes_for_packet_size(bytes[1])
        off == IF two THEN 3 ELSE 2
        n   == IF two THEN bytes[2] * Radix + bytes[3] ELSE bytes[2]
        sum == IF is_checksum_used(bytes[1]) THEN 1 ELSE 0
    IN  /\ Len(bytes) >= off
        /\ ~is_unsupported_protocol_version(bytes[1])
        /\ id = packet_id(bytes[1])
        /\ n >= 1
        /\ Len(bytes) = off + n + sum
        /\ DOMAIN data = 0 .. n - 1
        /\ \A i \in 0 .. n - 1 : data[i] = bytes[off + 1 + i]
        /\ sum = 1 => \E f \in ChecksumFunctions :
                          bytes[Len(bytes)] = calc_checksum(f, bytes[1], data, n)
=============================================================================
