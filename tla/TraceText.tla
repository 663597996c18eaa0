------------------------------ MODULE TraceText ------------------------------
(***************************************************************************)
(* How the trace generators keep the offsets of what they plant.           *)
(*                                                                         *)
(* traces-v2 (r2/traces_v2_gen.py, class Doc) appends to a text and        *)
(* records a span as it appends; a section is written into a Doc of its    *)
(* own and taken over with its spans moved.  traces-v3                     *)
(* (r3/traces_v3_gen/tracegen/core.py, styles.py) builds fragments of      *)
(* tagged segments, renders them in the style of the transcript and fixes  *)
(* the offsets when the document is assembled.                             *)
(*                                                                         *)
(* A text is a sequence of characters: a letter, a line break, a blank,    *)
(* the mark of a style, the escape of a JSON string.                       *)
(***************************************************************************)
EXTENDS Naturals, Sequences, SequencesExt

CONSTANTS
  Values,     \* the texts a value may have
  Plain,      \* the texts between values
  MaxText,    \* bound: the length of a traces-v2 document
  MaxSegs     \* bound: the segments of a traces-v3 turn

Letter == "x"
NL == "n"
Blank == "s"
Mark == "m"
Escape == "e"

Chars == {Letter, NL, Blank, Mark, Escape}

(* A planted value is never empty (_pii, and Seg of core.py).              *)
ASSUME TraceTextAssumption ==
  /\ Plain \subseteq Seq(Chars)
  /\ Values \subseteq Seq(Chars) \ {<<>>}

VARIABLES
  doc,    \* traces-v2: the document
  part,   \* traces-v2: the section being written
  body,   \* traces-v3: the segments a template gave to a turn
  shown   \* traces-v3: the segments the style emitted for it

textvars == <<doc, part, body, shown>>

(* ---------- traces-v2: class Doc ---------- *)

EmptyDoc == [text |-> <<>>, spans |-> <<>>]

AppendText(d, s) == [text |-> d.text \o s, spans |-> d.spans]

AppendValue(d, v) ==
  [text |-> d.text \o v,
   spans |-> Append(d.spans, [start |-> Len(d.text), end |-> Len(d.text) + Len(v),
                              value |-> v])]

(* Doc.extend: the other's spans, moved by what this one already holds.    *)
\* Mutant: the spans are taken over where they stood.
Unmoved(spans, n) == spans
MovedSpan(s, n) == [start |-> s.start + n, end |-> s.end + n, value |-> s.value]
Moved(spans, n) == [i \in 1 .. Len(spans) |-> MovedSpan(spans[i], n)]
Extended(d, other) ==
  [text |-> d.text \o other.text, spans |-> d.spans \o Moved(other.spans, Len(d.text))]

(* ---------- traces-v3: segments (core.py) ---------- *)

Seg(s, tagged) == [text |-> s, tagged |-> tagged]
Segs == {Seg(s, FALSE) : s \in Plain} \cup {Seg(s, TRUE) : s \in Values}

IsBlank(c) == c \in {NL, Blank}

RStrip(s) == SubSeq(s, 1, Max({0} \cup {i \in DOMAIN s : ~IsBlank(s[i])}))
LStripNL(s) == SubSeq(s, Min({Len(s) + 1} \cup {i \in DOMAIN s : s[i] # NL}), Len(s))

(* rstrip_nl and lstrip_nl: the plain segments at the end, and at the      *)
(* beginning, lose their blanks; a tagged one is never touched.            *)
RStripNl(frag) ==
  LET k == Max({0} \cup {i \in DOMAIN frag : frag[i].tagged \/ RStrip(frag[i].text) # <<>>})
  IN IF k = 0 THEN <<>>
     ELSE IF frag[k].tagged THEN SubSeq(frag, 1, k)
     ELSE Append(SubSeq(frag, 1, k - 1), Seg(RStrip(frag[k].text), FALSE))

LStripNl(frag) ==
  LET k == Min({Len(frag) + 1}
                 \cup {i \in DOMAIN frag : frag[i].tagged \/ LStripNL(frag[i].text) # <<>>})
  IN IF k = Len(frag) + 1 THEN <<>>
     ELSE IF frag[k].tagged THEN SubSeq(frag, k, Len(frag))
     ELSE <<Seg(LStripNL(frag[k].text), FALSE)>> \o SubSeq(frag, k + 1, Len(frag))

Body(frag) == RStripNl(LStripNl(frag))
EnsureNl(frag) == Append(RStripNl(frag), Seg(<<NL>>, FALSE))

(* esc_json: character by character, tags kept. *)
EscText(s) ==
  LET upto[n \in 0 .. Len(s)] ==
        IF n = 0 THEN <<>>
        ELSE upto[n - 1] \o (IF s[n] = NL THEN <<Escape>> ELSE <<>>) \o <<s[n]>>
  IN upto[Len(s)]
EscJson(frag) == [i \in DOMAIN frag |-> Seg(EscText(frag[i].text), frag[i].tagged)]

(* prefix_lines.  A line begins with the first prefix or, after the first  *)
(* line, with the other one, which a blank line carries without its blanks.*)
PrefixOf(at, c, first, rest) ==
  LET p == IF at.line = 0 THEN first ELSE rest
  IN IF c = NL THEN RStrip(p) ELSE p

(* One character: [text, bol, line], bol telling that a line begins here.  *)
PrefixChar(at, c, first, rest) ==
  [text |-> at.text \o (IF at.bol THEN PrefixOf(at, c, first, rest) ELSE <<>>)
                    \o <<c>>,
   bol |-> c = NL,
   line |-> IF at.bol THEN 1 ELSE at.line]

PrefixText(from, s, first, rest) ==
  LET upto[n \in 0 .. Len(s)] ==
        IF n = 0 THEN from ELSE PrefixChar(upto[n - 1], s[n], first, rest)
  IN upto[Len(s)]

(* A plain segment is rewritten; before a tagged one a prefix is a segment *)
(* of its own, and inside one that spans lines it joins the tagged text.   *)
PrefixSeg(at, g, first, rest) ==
  LET lead == IF g.tagged /\ at.bol THEN PrefixOf(at, Letter, first, rest) ELSE <<>>
      from == [text |-> <<>>, bol |-> at.bol /\ ~g.tagged,
               line |-> IF at.bol /\ g.tagged THEN 1 ELSE at.line]
      done == PrefixText(from, g.text, first, rest)
  IN [out |-> at.out \o (IF lead = <<>> THEN <<>> ELSE <<Seg(lead, FALSE)>>)
                     \o <<Seg(done.text, g.tagged)>>,
      bol |-> done.bol, line |-> done.line]

PrefixLines(frag, first, rest) ==
  LET upto[n \in 0 .. Len(frag)] ==
        IF n = 0 THEN [out |-> <<>>, bol |-> TRUE, line |-> 0]
        ELSE PrefixSeg(upto[n - 1], frag[n], first, rest)
  IN upto[Len(frag)].out

(* assemble: each tagged segment's offsets as it is placed. *)
Assemble(frag) ==
  LET upto[n \in 0 .. Len(frag)] ==
        IF n = 0 THEN EmptyDoc
        ELSE IF frag[n].tagged THEN AppendValue(upto[n - 1], frag[n].text)
        ELSE AppendText(upto[n - 1], frag[n].text)
  IN upto[Len(frag)]

(* ---------- traces-v3: styles (styles.py) ---------- *)

(* How a style shows the body of a turn: as it stands, escaped, closed by  *)
(* a line break, or line by line under two prefixes.                       *)
AsIs == [how |-> "asis", first |-> <<>>, rest |-> <<>>]
Escaped == [how |-> "escaped", first |-> <<>>, rest |-> <<>>]
Closed == [how |-> "closed", first |-> <<>>, rest |-> <<>>]
Lines(first, rest) == [how |-> "lines", first |-> first, rest |-> rest]

Marked == <<Mark, Blank>>
Indent == <<Blank, Blank>>

CCStyle == {Lines(Marked, Indent)}
XmlStyle == {AsIs}
MdStyle == {AsIs}
ColonStyle == {Lines(Marked, Indent), Lines(Indent, Indent)}
JsonlStyle == {Escaped}
TsLogStyle == {Lines(<<>>, Indent), Closed}
BoxStyle == {Lines(Marked, Marked), Lines(Marked, Indent)}
HumanAIStyle == {AsIs}
IrcStyle == {Lines(<<>>, Indent), Lines(Marked, Marked)}
ReactStyle == {AsIs}
StepsStyle == {AsIs, Lines(Indent, Indent)}
AiderStyle == {Lines(Marked, Marked), AsIs, Lines(Indent, Indent)}
PlainChatStyle == {AsIs}

Renderings ==
  CCStyle \cup XmlStyle \cup MdStyle \cup ColonStyle \cup JsonlStyle \cup TsLogStyle
  \cup BoxStyle \cup HumanAIStyle \cup IrcStyle \cup ReactStyle \cup StepsStyle
  \cup AiderStyle \cup PlainChatStyle

Rendered(r, frag) ==
  CASE r.how = "asis" -> Body(frag)
    [] r.how = "escaped" -> EscJson(Body(frag))
    [] r.how = "closed" -> EnsureNl(Body(frag))
    [] r.how = "lines" -> PrefixLines(Body(frag), r.first, r.rest)

(* ---------- The two builders at work ---------- *)

InitText ==
  /\ doc = EmptyDoc /\ part = EmptyDoc
  /\ body = <<>> /\ shown = <<>>

Fits(n) == Len(doc.text) + Len(part.text) + n <= MaxText

(* Doc.t and Doc.v, on the document and on a section of it. *)
WriteText ==
  /\ \E s \in Plain :
       /\ Fits(Len(s))
       /\ \/ doc' = AppendText(doc, s) /\ UNCHANGED part
          \/ part' = AppendText(part, s) /\ UNCHANGED doc
  /\ UNCHANGED <<body, shown>>
WriteValue ==
  /\ \E v \in Values :
       /\ Fits(Len(v))
       /\ \/ doc' = AppendValue(doc, v) /\ UNCHANGED part
          \/ part' = AppendValue(part, v) /\ UNCHANGED doc
  /\ UNCHANGED <<body, shown>>
TakeOver ==
  /\ part # EmptyDoc
  /\ doc' = Extended(doc, part)
  /\ part' = EmptyDoc
  /\ UNCHANGED <<body, shown>>

(* A template lays segments, a style shows them. *)
Lay ==
  /\ shown = <<>> /\ Len(body) < MaxSegs
  /\ \E g \in Segs : body' = Append(body, g)
  /\ UNCHANGED <<doc, part, shown>>
Show ==
  /\ body # <<>> /\ shown = <<>>
  /\ \E r \in Renderings : shown' = Rendered(r, body)
  /\ UNCHANGED <<doc, part, body>>

NextDoc == WriteText \/ WriteValue \/ TakeOver
NextFrag == Lay \/ Show
=============================================================================
