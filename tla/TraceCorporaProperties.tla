------------------------ MODULE TraceCorporaProperties ------------------------
(***************************************************************************)
(* The two generators of agent-trace corpora and the text algebra beneath  *)
(* them, side by side: each behaviour runs one of the machines.            *)
(* What the gold of a corpus must be for a benchmark to mean anything.     *)
(***************************************************************************)
EXTENDS TracesV3, TracesV2, TraceText

VARIABLE machine   \* "v3", "v2", "doc" or "frag": the one that runs

corporavars == <<machine, v3vars, v2vars, textvars>>

Init ==
  /\ machine \in {"v3", "v2", "doc", "frag"}
  /\ InitV3 /\ InitV2 /\ InitText

RunV3 == machine = "v3" /\ NextV3 /\ UNCHANGED <<machine, v2vars, textvars>>
RunV2 == machine = "v2" /\ NextV2 /\ UNCHANGED <<machine, v3vars, textvars>>
RunDoc == machine = "doc" /\ NextDoc /\ UNCHANGED <<machine, v3vars, v2vars>>
RunFrag == machine = "frag" /\ NextFrag /\ UNCHANGED <<machine, v3vars, v2vars>>

Next == RunV3 \/ RunV2 \/ RunDoc \/ RunFrag
Spec == Init /\ [][Next]_corporavars

(* ---------- traces-v3 ---------- *)

\* Whatever way a document goes through its template, under its style's
\* header and nicks, it holds gold exactly when its mode is not clean, and
\* no secret unless its mode is full: check_corpus counts clean documents
\* as those without gold, and build_one stops on a breach (build.py).
GoldFollowsMode ==
  phase \in {"built", "broken", "gaveUp"} =>
    /\ gold = {} <=> mode = "clean"
    /\ secret \in gold => mode = "full"

\* What assign_modes and allocate plan, check_corpus accepts
\* (build.py:56-69, 83-101, 126-150), and what plan_slots plans,
\* corpus_checks, whichever kinds get one more long document
\* (traces_v2_gen.py:4278-4351): no plan is built in vain.
PlansPassTheirChecks == phase # "raised" /\ stage # "failed"

(* ---------- traces-v2 ---------- *)

\* A long document, however its sections fall, ends within its bounds: it
\* is never drawn again for its length (traces_v2_gen.py, build_long).
LongDocumentFits == stage = "check" /\ slot.long => InBounds

(* ---------- Documents ---------- *)

Exact(d) ==
  /\ \A i \in DOMAIN d.spans :
       LET s == d.spans[i] IN
       /\ s.start < s.end /\ s.end <= Len(d.text)
       /\ SubSeq(d.text, s.start + 1, s.end) = s.value
  /\ \A i, j \in DOMAIN d.spans : i < j => d.spans[i].end <= d.spans[j].start

\* Every span names the text that was planted, in order and without
\* overlap, in a document written directly and in one put together from
\* sections (traces_v2_gen.py, Doc.extend; core.py, assemble).
SpansNameTheirText == Exact(doc) /\ Exact(part) /\ Exact(Assemble(shown))

TaggedIn(frag) == {i \in DOMAIN frag : frag[i].tagged}
OneLine(s) == \A i \in DOMAIN s : s[i] # NL

Grows(f) == \A i, j \in DOMAIN f : i < j => f[i] < f[j]

(* Every character of s is in t, in order, and t has no other letters. *)
Within(s, t) ==
  \E at \in [DOMAIN s -> DOMAIN t] :
    /\ Grows(at) /\ \A i \in DOMAIN s : t[at[i]] = s[i]
    /\ \A j \in DOMAIN t : t[j] = Letter => \E i \in DOMAIN s : at[i] = j

(* The tagged segments of one fragment are those of the other, one for one *)
(* and in order; a text of one line as it was, one of several within what  *)
(* a style made of it.                                                     *)
Survive(before, after) ==
  \E to \in [TaggedIn(before) -> TaggedIn(after)] :
    /\ Grows(to) /\ \A j \in TaggedIn(after) : \E i \in TaggedIn(before) : to[i] = j
    /\ \A i \in TaggedIn(before) :
         /\ Within(before[i].text, after[to[i]].text)
         /\ OneLine(before[i].text) => after[to[i]].text = before[i].text

\* No style loses, merges, or reorders a tagged value: a value of one line
\* is shown as it was placed, one of several keeps its characters and gets
\* no letter (core.py, prefix_lines, rstrip_nl, lstrip_nl).
TagsSurvive == shown # <<>> => Survive(body, shown)

\* The outputs of a finished document name its calls one for one and in
\* order, none skipped, repeated or invented, but for a last call without
\* an output (styles.py, JsonlStyle.call and result).
CallsAreAnswered ==
  phase = "built" =>
    (\A i \in DOMAIN named : named[i] = i) /\ Len(named) \in {callId - 1, callId}

\* What a document is put together from stays in its place: spans, tagged
\* values, and the calls with their outputs.
DocumentsHoldTogether == SpansNameTheirText /\ TagsSurvive /\ CallsAreAnswered
=============================================================================
