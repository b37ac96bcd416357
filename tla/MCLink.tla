------------------------------- MODULE MCLink ---------------------------------
(* A small instance of Link for TLC. *)
EXTENDS Link, Functions, Bitwise

MCChecksum(f, cells, base) ==
    FoldFunction(LAMBDA cell, acc : (acc + f * (cell + 1)) % Radix, base, cells)

MCxor(a, b) == a ^^ b

\* Delimiter 5 is the header of a packet with id 1, escape byte 3.
MCConfig == [delimiter_byte |-> 5, escape_byte |-> 3, escape_mask |-> 8]

MCConfigs == {MCConfig}
MCConfigsFor(config) == MCConfigs
MCDefaultFor(config) == MCConfig

Buffer(byte) == [size |-> 1, cells |-> [i \in {0} |-> byte]]

MCBuffers == {Buffer(1), Buffer(3)}

\* Packets that differ in the id, in the payload, and in one byte being escaped.
MCMessages == <<<<0, Buffer(1)>>, <<0, Buffer(3)>>, <<1, Buffer(1)>>>>
=============================================================================
