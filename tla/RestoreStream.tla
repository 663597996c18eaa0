----------------------------- MODULE RestoreStream -----------------------------
(***************************************************************************)
(* The streaming restore (src/restore-stream.ts): chunks of an answer go   *)
(* in, text with its placeholders restored comes out, and what may be the  *)
(* beginning of a placeholder is held back.  Lenient mode: strict mode     *)
(* throws at the first anomaly.                                            *)
(*                                                                         *)
(* A character is a brace, the body of a placeholder of the session, or    *)
(* that of a foreign one; a restored value is one character more.          *)
(***************************************************************************)
EXTENDS Naturals, Sequences, FiniteSets

CONSTANTS
  MaxOpenBuffer,  \* MAX_OPEN_BUFFER, 256 there
  MaxText,        \* bound: the characters of a stream
  MaxChunk        \* bound: the characters of a chunk

Own == "P"
Foreign == "F"
Value == "V"
Chars == {"{", "}", Own, Foreign}
Braced(body) == <<"{", "{", body, "}", "}">>
LongestBraced == Len(Braced(Own))

(* A real placeholder is shorter than the cap. *)
ASSUME RestoreStreamAssumption ==
  /\ MaxOpenBuffer \in Nat /\ MaxText \in Nat /\ MaxChunk \in Nat
  /\ MaxOpenBuffer + 1 >= LongestBraced

VARIABLES
  heard,      \* the stream so far
  held,       \* this.buffer
  told,       \* what was emitted
  replaced,   \* totalReplacements
  strangers,  \* foreignPlaceholders, as many
  gaveUp,     \* an unclosed run has gone out for its length
  over        \* end() was called

streamvars == <<heard, held, told, replaced, strangers, gaveUp, over>>

InitStream ==
  /\ heard = <<>> /\ held = <<>> /\ told = <<>>
  /\ replaced = 0 /\ strangers = 0
  /\ gaveUp = FALSE /\ over = FALSE

(* ---------- Placeholders in a text (restoreSafe) ---------- *)

Occurs(s, i, part) == i + Len(part) - 1 <= Len(s) /\ SubSeq(s, i, i + Len(part) - 1) = part
Occurrences(s, body) == {i \in DOMAIN s : Occurs(s, i, Braced(body))}
Count(s, body) == Cardinality(Occurrences(s, body))

(* The characters that stay, a placeholder of the session being its first. *)
Kept(s) ==
  {i \in DOMAIN s : \A o \in Occurrences(s, Own) : ~(o < i /\ i < o + LongestBraced)}
Rank(S, i) == Cardinality({k \in S : k <= i})
Nth(S, j) == CHOOSE i \in S : Rank(S, i) = j

(* Each placeholder of the session by its value; the rest as it is. *)
Restored(s) ==
  [j \in 1 .. Cardinality(Kept(s)) |->
     LET i == Nth(Kept(s), j)
     IN IF i \in Occurrences(s, Own) THEN Value ELSE s[i]]

(* ---------- The safe boundary (findSafeBoundary) ---------- *)

(* lastIndexOf("{{"), 0 when there is none. *)
LastOpen(s) ==
  LET opens == {i \in DOMAIN s : Occurs(s, i, <<"{", "{">>)}
  IN IF opens = {} THEN 0 ELSE CHOOSE i \in opens : \A j \in opens : j <= i
Closed(s, i) == \E j \in i .. Len(s) : Occurs(s, j, <<"}", "}">>)
Unclosed(s) == LastOpen(s) # 0 /\ ~Closed(s, LastOpen(s))
TooLong(s) == Unclosed(s) /\ Len(s) - LastOpen(s) + 1 > MaxOpenBuffer

(* A solo brace at the end may be completed by the next chunk. *)
\* Mutant: it is emitted.
WithoutSoloBraceKept(s) == Len(s)
WithoutSoloBrace(s) ==
  IF s # <<>> /\ s[Len(s)] = "{" THEN Len(s) - 1 ELSE Len(s)

(* How many characters may go out. *)
SafeBoundary(s) ==
  IF TooLong(s) THEN Len(s)
  ELSE IF Unclosed(s) THEN LastOpen(s) - 1
       ELSE WithoutSoloBrace(s)

(* ---------- push() and end() ---------- *)

Emit(slice) ==
  /\ told' = told \o Restored(slice)
  /\ replaced' = replaced + Count(slice, Own)
  /\ strangers' = strangers + Count(slice, Foreign)

Push ==
  /\ ~over
  /\ \E n \in 1 .. MaxChunk : \E chunk \in [1 .. n -> Chars] :
       /\ Len(heard) + n <= MaxText
       /\ heard' = heard \o chunk
       /\ LET buffered == held \o chunk
              k == SafeBoundary(buffered)
          IN /\ Emit(SubSeq(buffered, 1, k))
             /\ held' = SubSeq(buffered, k + 1, Len(buffered))
             /\ gaveUp' = (gaveUp \/ TooLong(buffered))
  /\ UNCHANGED over

End ==
  /\ ~over
  /\ Emit(held)
  /\ held' = <<>>
  /\ over' = TRUE
  /\ UNCHANGED <<heard, gaveUp>>

NextStream == Push \/ End
SpecStream == InitStream /\ [][NextStream]_streamvars

(* ---------- What it promises ---------- *)

\* However an answer is cut into chunks, the stream restores what the whole
\* text would have restored, with the same counts, unless it gave up on an
\* unclosed run; and it never holds more than the cap
\* (restore-stream.ts:25-35).
RestoresTheWhole ==
  /\ Len(held) <= MaxOpenBuffer
  /\ over /\ ~gaveUp =>
       /\ told = Restored(heard)
       /\ replaced = Count(heard, Own) /\ strangers = Count(heard, Foreign)
=============================================================================
