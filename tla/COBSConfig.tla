------------------------------ MODULE COBSConfig ------------------------------
(***************************************************************************)
(* Configurations of the three COBS strategies: plain, with general        *)
(* sequence elimination (GSE) and with zero pair elimination (ZPE); which  *)
(* ones set_config accepts and the default (src/strategies/cobs/mixins.cpp)*)
(* A configuration carries the class of the strategy it is given to, which *)
(* never changes in the life of a stream.                                  *)
(***************************************************************************)
EXTENDS Bytes

CONSTANT MIN_BDSP_COBS_DEPTH     \* a macro, 16 unless the build sets it

Classes == {"COBS", "GSE", "ZPE"}

\* cobs_config_t and the class; sequence_size and sequence_byte are its fields
\* size_of_ and byte_of_the_sequence_to_be_replaced.
cobs_config_t == [class : Classes, delimiter_byte : Byte, depth : Byte,
                  sequence_size : Byte, sequence_byte : Byte]

\* What set_config answers.
set_cobs_config_status ==
    {"SET_OK", "ERROR_PROCESS_NOT_FINISHED", "ERROR_MEMORY_ALLOCATION", "ERROR_COBS_DEPTH",
     "ERROR_DEFAULT_COBS_SIZE_GSE", "ERROR_SIZE_GSE", "ERROR_DEPTH_GSE", "ERROR_DEPTH_ZPE"}

\* The largest depth of a GSE configuration (127) and the only one of ZPE (224).
GseMaxDepth == 4 * IdCount - 1
ZpeDepth    == 7 * IdCount

\* The default configurations, with depths of 255, 127 and 224, are accepted.
ASSUME DepthAssumption == MIN_BDSP_COBS_DEPTH \in 1 .. GseMaxDepth

check_min_cobs_depth(config) ==
    IF config.depth < MIN_BDSP_COBS_DEPTH THEN "ERROR_COBS_DEPTH" ELSE "SET_OK"

check_config(config) ==
    IF config.class = "COBS" /\ config.sequence_size # 0 THEN "ERROR_DEFAULT_COBS_SIZE_GSE"
    ELSE IF config.class # "COBS" /\ config.sequence_size < 2 THEN "ERROR_SIZE_GSE"
    ELSE IF config.class = "GSE" /\ config.depth > GseMaxDepth THEN "ERROR_DEPTH_GSE"
    ELSE IF config.class = "ZPE" /\ config.depth # ZpeDepth THEN "ERROR_DEPTH_ZPE"
    ELSE check_min_cobs_depth(config)

Accepted(config) == check_config(config) = "SET_OK"

\* The member initialisers of cobs_config_t.
initial_config(class) ==
    [class |-> class, delimiter_byte |-> 0, depth |-> Radix - 1,
     sequence_size |-> 0, sequence_byte |-> 0]

default_config(class) ==
    [class |-> class, delimiter_byte |-> 0,
     depth |-> IF class = "COBS" THEN Radix - 1 ELSE IF class = "GSE" THEN GseMaxDepth ELSE ZpeDepth,
     sequence_size |-> IF class = "COBS" THEN 0 ELSE 2, sequence_byte |-> 0]
=============================================================================
