---------------------------- MODULE ReaderSharing -----------------------------
(***************************************************************************)
(* Several receivers and the stream readers of one application: who holds  *)
(* a pointer to which reader, and whose callback the reader has            *)
(* (set_stream_reader and the destructor in src/receiver.cpp).             *)
(***************************************************************************)
EXTENDS TLAPS

CONSTANTS Receivers, Readers, Null

VARIABLES reader,           \* _reader of each receiver
          handler,          \* the receiver each reader has as its context, or Null
          strategy_ready,   \* _states.strategy of each reader
          alive             \* the receivers that exist

vars == <<reader, handler, strategy_ready, alive>>

\* get_ready_status, which set_stream_reader takes for "already used".
Ready(r) == strategy_ready[r] /\ handler[r] # Null

\* The handlers when x has let go of its reader.
Released(x) == [r \in Readers |-> IF r = reader[x] THEN Null ELSE handler[r]]

set_stream_reader(x, r) ==
    /\ x \in alive
    /\ IF r = Null THEN reader[x] # Null ELSE ~Ready(r)
    /\ handler' = [s \in Readers |-> IF s = r THEN x ELSE Released(x)[s]]
    /\ reader' = [reader EXCEPT ![x] = r]
    /\ UNCHANGED <<strategy_ready, alive>>

\* The destructor lets go of the reader.
Destroy(x) ==
    /\ x \in alive
    /\ alive' = alive \ {x}
    /\ handler' = Released(x)
    /\ reader' = [reader EXCEPT ![x] = Null]
    /\ UNCHANGED strategy_ready

Create(x) ==
    /\ x \notin alive
    /\ alive' = alive \cup {x}
    /\ UNCHANGED <<reader, handler, strategy_ready>>

\* set_config of the strategy of a reader, accepted or refused.
SetConfig(r, accepted) ==
    /\ strategy_ready' = [strategy_ready EXCEPT ![r] = accepted]
    /\ UNCHANGED <<reader, handler, alive>>

Init ==
    /\ reader = [x \in Receivers |-> Null]
    /\ handler = [r \in Readers |-> Null]
    /\ strategy_ready = [r \in Readers |-> TRUE]
    /\ alive = {}

Next ==
    \/ \E x \in Receivers, r \in Readers \cup {Null} : set_stream_reader(x, r)
    \/ \E x \in Receivers : Destroy(x) \/ Create(x)
    \/ \E r \in Readers, accepted \in BOOLEAN : SetConfig(r, accepted)

Spec == Init /\ [][Next]_vars

-----------------------------------------------------------------------------
\* A reader calls back only a receiver that exists and still holds it: the
\* context pointer of a reader never dangles, whoever takes over whose reader.
ContextAlive == \A r \in Readers : handler[r] # Null => handler[r] \in alive /\ reader[handler[r]] = r

\* A reader that has a data handler is refused as already used: no two
\* receivers hold the same reader.
OneOwner == \A x, y \in Receivers : x # y /\ reader[x] # Null => reader[x] # reader[y]

-----------------------------------------------------------------------------
(* Proof of ContextAlive.  It is inductive with the types of the functions: *)
(* whoever changes its reader clears the handler of the old one first.      *)

Types ==
    /\ reader \in [Receivers -> Readers \cup {Null}]
    /\ handler \in [Readers -> Receivers \cup {Null}]

Inv == Types /\ ContextAlive

LEMMA AttachKeepsInv ==
    ASSUME Inv, NEW x \in Receivers, NEW r \in Readers \cup {Null}, set_stream_reader(x, r)
    PROVE  Inv'
<1>1. Types'
  BY DEF Inv, Types, set_stream_reader, Released
<1>2. SUFFICES ASSUME NEW s \in Readers, handler'[s] # Null
               PROVE  handler'[s] \in alive' /\ reader'[handler'[s]] = s
  BY <1>1 DEF Inv, ContextAlive
<1>3. CASE s = r
  BY <1>3 DEF Inv, Types, set_stream_reader
<1>4. CASE s # r
  <2>1. s # reader[x] /\ handler'[s] = handler[s]
    BY <1>2, <1>4 DEF set_stream_reader, Released
  <2>2. handler[s] \in alive /\ reader[handler[s]] = s /\ handler[s] \in Receivers
    BY <1>2, <2>1 DEF Inv, Types, ContextAlive
  <2> QED
    BY <2>1, <2>2 DEF Inv, Types, set_stream_reader
<1> QED
  BY <1>3, <1>4

LEMMA DestroyKeepsInv ==
    ASSUME Inv, NEW x \in Receivers, Destroy(x)
    PROVE  Inv'
<1>1. Types'
  BY DEF Inv, Types, Destroy, Released
<1>2. SUFFICES ASSUME NEW s \in Readers, handler'[s] # Null
               PROVE  handler'[s] \in alive' /\ reader'[handler'[s]] = s
  BY <1>1 DEF Inv, ContextAlive
<1>3. s # reader[x] /\ handler'[s] = handler[s]
  BY <1>2 DEF Destroy, Released
<1>4. handler[s] \in alive /\ reader[handler[s]] = s /\ handler[s] \in Receivers
  BY <1>2, <1>3 DEF Inv, Types, ContextAlive
<1> QED
  BY <1>3, <1>4 DEF Inv, Types, Destroy

\* The context pointer of a reader is always a receiver that exists and holds
\* the reader, for any number of receivers and readers: no read calls back into
\* a destroyed receiver (receiver.cpp, lines 22 to 27 and 117 to 136).
THEOREM ReaderContextAlive == Spec => []ContextAlive
<1>1. Init => Inv
  BY DEF Init, Inv, Types, ContextAlive
<1>2. Inv /\ [Next]_vars => Inv'
  <2> SUFFICES ASSUME Inv, [Next]_vars PROVE Inv'
    OBVIOUS
  <2>1. CASE \E x \in Receivers, r \in Readers \cup {Null} : set_stream_reader(x, r)
    BY <2>1, AttachKeepsInv
  <2>2. CASE \E x \in Receivers : Destroy(x)
    BY <2>2, DestroyKeepsInv
  <2>3. CASE \E x \in Receivers : Create(x)
    BY <2>3 DEF Create, Inv, Types, ContextAlive
  <2>4. CASE \E r \in Readers, accepted \in BOOLEAN : SetConfig(r, accepted)
    BY <2>4 DEF SetConfig, Inv, Types, ContextAlive
  <2>5. CASE UNCHANGED vars
    BY <2>5 DEF vars, Inv, Types, ContextAlive
  <2> QED
    BY <2>1, <2>2, <2>3, <2>4, <2>5 DEF Next
<1> QED
  BY <1>1, <1>2, PTL DEF Spec, Inv
=============================================================================
