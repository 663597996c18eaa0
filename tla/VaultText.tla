------------------------------ MODULE VaultText ------------------------------
(***************************************************************************)
(* Texts, spans of them and whole-word occurrences, as the vault sees them *)
(* (src/src/vault.ts): what the vault and its promise are both stated in.  *)
(* Positions count from 1; a span runs from its start to before its end.   *)
(***************************************************************************)
EXTENDS Integers, Sequences, FiniteSets

CONSTANTS
    Ids,        \* the ids randomUUID may give, each at most once
    Labels,     \* the PII labels
    Char,       \* the characters texts are made of
    WordChar,   \* the letters, digits and underscore among them
    MinKnown,   \* MIN_KNOWN_VALUE_LENGTH
    KnownScore, \* KNOWN_VALUE_SCORE, the highest score there is
    Requests    \* the texts to mask, with the spans the detector found

Span == [label : Labels, start : Int, end : Int, score : 0..KnownScore]

ASSUME VaultAssumption ==
    /\ WordChar \subseteq Char
    /\ MinKnown \in Nat \ {0}
    /\ KnownScore \in Nat
    /\ \A r \in Requests : r \in [text : Seq(Char), spans : Seq(Span)]

Slice(t, s) == SubSeq(t, s.start, s.end - 1)

Covers(s, p) == s.start <= p /\ p < s.end

\* The text has `value' at position `at'.
OccursAt(t, value, at) ==
    /\ at + Len(value) - 1 <= Len(t)
    /\ SubSeq(t, at, at + Len(value) - 1) = value

\* Two neighbouring positions that are inside one word.
Joined(t, p) == /\ {p, p + 1} \subseteq DOMAIN t
                /\ {t[p], t[p + 1]} \subseteq WordChar

WholeWord(t, start, end) == ~Joined(t, start - 1) /\ ~Joined(t, end - 1)

\* `value' stands at `at' as a whole word.
FoundAt(t, value, at) == /\ OccursAt(t, value, at)
                         /\ WholeWord(t, at, at + Len(value))
=============================================================================
