------------------------------ MODULE KeyValue ------------------------------
(***************************************************************************)
(* The key/value state machine of crates/kurogane-kv: its commands, the    *)
(* byte strings they and its snapshots travel as, and what applying one    *)
(* does.                                                                   *)
(*                                                                         *)
(* A byte string is a sequence of numbers.  The u32 length that precedes   *)
(* every key and value on the wire is one of them.                         *)
(***************************************************************************)
EXTENDS Integers, SequencesExt

CONSTANTS
    KeyOrder,   \* the keys, in the order a BTreeMap iterates them
    Value

ASSUME KeyValueAssumption == KeyOrder \in Seq(Seq(Nat)) /\ Value \subseteq Seq(Nat)

Key == Range(KeyOrder)

\* Option<Vec<u8>>
None == <<>>
Some(v) == <<v>>

Operation ==
    [kind : {"Set"}, key : Key, value : Value] \cup [kind : {"Delete", "Get"}, key : Key]

-----------------------------------------------------------------------------
(* Bytes *)

\* Mutant of EncodeBytes: the length prefix is left out.
RawBytes(b) == b

EncodeBytes(b) == <<Len(b)>> \o b

\* The length-prefixed string at position pos, and the position after it.
ReadBytes(bytes, pos) ==
    LET length == bytes[pos]
    IN  IF pos > Len(bytes) \/ pos + length > Len(bytes)
        THEN [ok |-> FALSE, value |-> <<>>, next |-> pos]
        ELSE [ok |-> TRUE, value |-> SubSeq(bytes, pos + 1, pos + length),
              next |-> pos + length + 1]

Tag == [Set |-> 0, Delete |-> 1, Get |-> 2]

Encode(c) ==
    <<Tag[c.kind]>> \o EncodeBytes(c.key)
        \o (IF c.kind = "Set" THEN EncodeBytes(c.value) ELSE <<>>)

\* The command bytes stand for, or None.  Bytes after it are not looked at.
Decode(bytes) ==
    LET tags == {k \in DOMAIN Tag : bytes # <<>> /\ Tag[k] = bytes[1]}
        kind == CHOOSE k \in tags : TRUE
        key == ReadBytes(bytes, 2)
        value == ReadBytes(bytes, key.next)
    IN  IF tags = {} \/ ~ key.ok THEN None
        ELSE IF kind # "Set" THEN Some([kind |-> kind, key |-> key.value])
        ELSE IF ~ value.ok THEN None
        ELSE Some([kind |-> kind, key |-> key.value, value |-> value.value])

-----------------------------------------------------------------------------
(* The state machine: a map and the index of the last entry applied *)

EmptyMachine == [entries |-> <<>>, lastApplied |-> 0]

\* The function f with v at k.
With(f, k, v) == [x \in DOMAIN f \cup {k} |-> IF x = k THEN v ELSE f[x]]

Lookup(entries, k) == IF k \in DOMAIN entries THEN Some(entries[k]) ELSE None

\* The map after command c, and what c answers: the value its key had.
Apply(m, c) ==
    [machine |->
        [lastApplied |-> m.lastApplied + 1,
         entries |-> CASE c.kind = "Set" -> With(m.entries, c.key, c.value)
                       [] c.kind = "Delete" -> Restrict(m.entries, DOMAIN m.entries \ {c.key})
                       [] c.kind = "Get" -> m.entries],
     result |-> [kind |-> c.kind, value |-> Lookup(m.entries, c.key)]]

Skip(m) == [m EXCEPT !.lastApplied = @ + 1]

SnapshotBytes(m) ==
    LET Pair(k) == IF k \in DOMAIN m.entries
                   THEN EncodeBytes(k) \o EncodeBytes(m.entries[k]) ELSE <<>>
        UpTo[i \in 0 .. Len(KeyOrder)] ==
            IF i = 0 THEN <<>> ELSE UpTo[i - 1] \o Pair(KeyOrder[i])
    IN  UpTo[Len(KeyOrder)]

\* The map that snapshot bytes hold, as an option.  Of two pairs with one key the
\* later one counts.
DecodeEntries(bytes) ==
    LET From[p \in 1 .. Len(bytes) + 1] ==
            LET key == ReadBytes(bytes, p)
                value == ReadBytes(bytes, key.next)
                rest == From[value.next]
            IN  IF p > Len(bytes) THEN Some(<<>>)
                ELSE IF ~ key.ok \/ ~ value.ok \/ rest = None THEN None
                ELSE Some(IF key.value \in DOMAIN rest[1] THEN rest[1]
                          ELSE With(rest[1], key.value, value.value))
    IN  From[1]

=============================================================================
