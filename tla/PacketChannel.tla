---------------------------- MODULE PacketChannel -----------------------------
(***************************************************************************)
(* What transmitter, line and receiver promise together: packets arrive in *)
(* the order they were sent, each at most once and unchanged, and only     *)
(* packets that a fault has damaged may be missing.  A fault of the line,  *)
(* the memory or the writer damages two packets at most.  A packet in      *)
(* which one byte was changed is never taken for another one; no such      *)
(* promise is made for bytes that are lost or added, since what is left    *)
(* can be a packet that announces no checksum.                             *)
(***************************************************************************)
EXTENDS Naturals, Sequences, FiniteSets

CONSTANT Packets       \* what a packet handler may be called with

VARIABLES sent,        \* packets send_data has reported as sent, in order
          damaged,     \* numbers of those a fault has touched
          changed,     \* of those, the ones with one changed byte and no other damage
          faults,      \* how many faults there have been
          last,        \* number of the packet of the last call of the packet handler
          got          \* and its argument

vars == <<sent, damaged, changed, faults, last, got>>

None == [id |-> 0, data |-> <<>>]

Init ==
    /\ sent = <<>> /\ damaged = {} /\ changed = {} /\ faults = 0
    /\ last = 0 /\ got = None

\* A fault damages two packets at most, now or when they are sent.
Affordable == Cardinality(damaged') <= 2 * faults'

\* A packet is sent, over a sound line, behind an earlier fault or with a new one.
Send ==
    /\ Len(sent') = Len(sent) + 1
    /\ \A i \in DOMAIN sent : sent'[i] = sent[i]
    /\ sent'[Len(sent')] \in Packets
    /\ faults' \in {faults, faults + 1}
    /\ damaged' \in {damaged, damaged \cup {Len(sent')}}
    /\ Affordable
    /\ UNCHANGED <<changed, last, got>>

\* A fault on packets under way; what has arrived stays.
Fault ==
    /\ faults' = faults + 1
    /\ \E touched \in SUBSET (last + 1 .. Len(sent)) :
          /\ damaged' = damaged \cup touched
          /\ changed' \subseteq changed \cup touched
    /\ Affordable
    /\ UNCHANGED <<sent, last, got>>

\* The packet handler is called for packet j, all packets between were damaged.
Arrive(j) ==
    /\ \A i \in last + 1 .. j - 1 : i \in damaged
    /\ last' = j
    /\ UNCHANGED <<sent, damaged, changed, faults>>

Deliver(j) ==
    /\ j > last
    /\ j \notin damaged
    /\ Arrive(j)
    /\ got' = sent[j]

\* What is left of a damaged packet is a packet, or several.
Garble(j) ==
    /\ j >= last
    /\ j \in damaged \ changed
    /\ Arrive(j)
    /\ got' \in Packets

Next ==
    \/ Send
    \/ Fault
    \/ \E j \in DOMAIN sent : Deliver(j) \/ Garble(j)

Spec == Init /\ [][Next]_vars
=============================================================================
