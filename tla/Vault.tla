------------------------------- MODULE Vault -------------------------------
(***************************************************************************)
(* The reversible vault of the core library (src/src/vault.ts): sessions   *)
(* of placeholders, the masking of a text into one of them, and what a     *)
(* placeholder restores to.                                                *)
(*                                                                         *)
(* A text is a short sequence of characters; a span is a half-open range   *)
(* of its positions with a label and a score, as the detector gives it.    *)
(* The masked output is the text and its cover: the ranges that were       *)
(* replaced, each with the placeholder put there.  JavaScript runs one     *)
(* call of the vault to its end, so every call is one step.                *)
(***************************************************************************)
EXTENDS VaultText

VARIABLES
    live,     \* the sessions of the vault's map
    used,     \* every id given so far
    entries,  \* session -> placeholder -> value
    counters, \* session -> label -> next index
    byValue,  \* session -> label and value -> placeholder, and its place in
              \* the map's insertion order
    sent      \* every masked output the vault returned (history)

vars == <<live, used, entries, counters, byValue, sent>>

\* `{{PII_LABEL_idx_prefix}}': the prefix stands for its session.
Placeholder == [label : Labels, idx : Nat, session : Ids]

Key == [label : Labels, text : Seq(Char)]

(***************************************************************************)
(* Finding and merging spans                                               *)
(***************************************************************************)
\* Mutant: the minimum length off by one.
SoughtLonger(known) ==
    {k \in DOMAIN known :
        /\ Len(k.text) > MinKnown
        /\ \A o \in DOMAIN known :
               o.text = k.text => known[k].place <= known[o].place}

\* The keys the known-value pass looks for: long enough, and for a text
\* known under several labels only the key that was inserted first.
Sought(known) ==
    {k \in DOMAIN known :
        /\ Len(k.text) >= MinKnown
        /\ \A o \in DOMAIN known :
               o.text = k.text => known[k].place <= known[o].place}

KnownSpans(t, known) ==
    UNION {{[label |-> k.label, start |-> at, end |-> at + Len(k.text),
             score |-> KnownScore] : at \in {i \in DOMAIN t : FoundAt(t, k.text, i)}} :
           k \in Sought(known)}

Clamp(t, s) == [s EXCEPT !.start = IF @ < 1 THEN 1 ELSE @,
                         !.end = IF @ > Len(t) + 1 THEN Len(t) + 1 ELSE @]

\* The clamped spans of a call that are not empty, each with its place in
\* the array given to the sort: the detector's, then the known values'.
Members(t, spans, known) ==
    LET ranked == {<<Clamp(t, spans[i]), i>> : i \in DOMAIN spans} \cup
                  {<<s, Len(spans) + 1>> : s \in KnownSpans(t, known)}
    IN  {m \in ranked : m[1].start < m[1].end}

\* Whether m is the member whose label its merged span keeps: the highest
\* score, and among equals the first in the sort's order.
Before(m, o) ==
    \/ m[1].start < o[1].start
    \/ /\ m[1].start = o[1].start
       /\ \/ m[1].end > o[1].end
          \/ m[1].end = o[1].end /\ m[2] <= o[2]

Outranks(m, o) == \/ m[1].score > o[1].score
                  \/ m[1].score = o[1].score /\ Before(m, o)

\* A member covers both p and p + 1.
Linked(members, p) == \E m \in members : Covers(m[1], p) /\ Covers(m[1], p + 1)

\* Mutant: overlapping spans are kept as they are.
RunsUnmerged(t, members) ==
    {[start |-> m[1].start, end |-> m[1].end] : m \in members}

\* The ranges of the merged spans: spans that share a character become
\* their union, spans that only touch do not.
Runs(t, members) ==
    {r \in [start : 1..Len(t), end : 2..Len(t) + 1] :
        /\ r.start < r.end
        /\ \E m \in members : Covers(m[1], r.start)
        /\ ~Linked(members, r.start - 1)
        /\ ~Linked(members, r.end - 1)
        /\ \A p \in r.start..(r.end - 2) : Linked(members, p)}

MergedLabel(r, members) ==
    LET within == {m \in members : Covers(r, m[1].start)}
    IN  (CHOOSE m \in within : \A o \in within : Outranks(m, o))[1].label

\* mergeOverlappingSpans: disjoint spans of the text, each with its value.
Merged(t, members) ==
    {[start |-> r.start, end |-> r.end,
      key |-> [label |-> MergedLabel(r, members), text |-> Slice(t, r)]] :
        r \in Runs(t, members)}

(***************************************************************************)
(* Allocating placeholders, in document order                              *)
(***************************************************************************)
\* Mutant: a value known from an earlier call mints another placeholder.
MintingAgain(spans, known) ==
    {s \in spans : \A o \in spans : o.key = s.key => s.start <= o.start}

\* The merged spans that mint a placeholder: the first of their key.
Minting(spans, known) ==
    {s \in spans : /\ s.key \notin DOMAIN known
                   /\ \A o \in spans : o.key = s.key => s.start <= o.start}

\* Mutant: placeholders are allocated back to front.
EarlierFromTheEnd(s, minting) == {o \in minting : o.start > s.start}

\* What was minted before s in this call.
Earlier(s, minting) == {o \in minting : o.start < s.start}

\* Mutant: the counter moves once per call, not once per placeholder.
MintedFromOneCount(s, minting, count, id) ==
    [label |-> s.key.label, idx |-> count[s.key.label], session |-> id]

Minted(s, minting, count, id) ==
    [label |-> s.key.label,
     idx |-> count[s.key.label] +
             Cardinality({o \in Earlier(s, minting) : o.key.label = s.key.label}),
     session |-> id]

Learned(minting, known, count, id) ==
    [k \in DOMAIN known \cup {s.key : s \in minting} |->
        IF \E s \in minting : s.key = k
        THEN LET s == CHOOSE s \in minting : s.key = k
             IN  [placeholder |-> Minted(s, minting, count, id),
                  place |-> Cardinality(DOMAIN known) +
                            Cardinality(Earlier(s, minting))]
        ELSE known[k]]

Entered(minting, old, count, id) ==
    [p \in DOMAIN old \cup {Minted(s, minting, count, id) : s \in minting} |->
        IF \E s \in minting : Minted(s, minting, count, id) = p
        THEN (CHOOSE s \in minting : Minted(s, minting, count, id) = p).key.text
        ELSE old[p]]

Counted(minting, count) ==
    [l \in Labels |-> count[l] + Cardinality({s \in minting : s.key.label = l})]

(***************************************************************************)
(* The vault's operations                                                  *)
(***************************************************************************)
Init ==
    /\ live = {}
    /\ used = {}
    /\ entries = [s \in {} |-> {}]
    /\ counters = [s \in {} |-> {}]
    /\ byValue = [s \in {} |-> {}]
    /\ sent = {}

CreateSession(id) ==
    /\ id \notin used
    /\ live' = live \cup {id}
    /\ used' = used \cup {id}
    /\ entries' = [s \in live' |-> IF s = id THEN << >> ELSE entries[s]]
    /\ counters' = [s \in live' |-> IF s = id THEN [l \in Labels |-> 0]
                                              ELSE counters[s]]
    /\ byValue' = [s \in live' |-> IF s = id THEN << >> ELSE byValue[s]]
    /\ UNCHANGED sent

\* requireSession throws on a session that is not live, and changes nothing.
Sanitize(id, request) ==
    LET known   == byValue[id]
        spans   == Merged(request.text,
                          Members(request.text, request.spans, known))
        minting == Minting(spans, known)
        learned == Learned(minting, known, counters[id], id)
    IN  /\ id \in live
        /\ byValue' = [byValue EXCEPT ![id] = learned]
        /\ entries' = [entries EXCEPT
                          ![id] = Entered(minting, @, counters[id], id)]
        /\ counters' = [counters EXCEPT ![id] = Counted(minting, @)]
        /\ sent' = sent \cup
              {[session |-> id, request |-> request,
                cover |-> {[start |-> s.start, end |-> s.end,
                            placeholder |-> learned[s.key].placeholder] :
                              s \in spans}]}
        /\ UNCHANGED <<live, used>>

\* Mutant: the placeholders of a destroyed session stay in memory.
ForgetKeepingEntries(gone) ==
    /\ live' = live \ gone
    /\ counters' = [s \in live' |-> counters[s]]
    /\ byValue' = [s \in live' |-> byValue[s]]
    /\ UNCHANGED <<used, entries, sent>>

\* The sessions in `gone' leave the map, with everything they hold.
Forget(gone) ==
    /\ live' = live \ gone
    /\ entries' = [s \in live' |-> entries[s]]
    /\ counters' = [s \in live' |-> counters[s]]
    /\ byValue' = [s \in live' |-> byValue[s]]
    /\ UNCHANGED <<used, sent>>

DestroySession(id) == Forget({id})

Clear == Forget(live)

\* What restore puts in place of one placeholder: `foreign' and `unknown'
\* ones stay as they are.
RestoreOf(id, p) ==
    IF p.session # id THEN [outcome |-> "foreign", text |-> << >>]
    ELSE IF p \notin DOMAIN entries[id] THEN [outcome |-> "unknown", text |-> << >>]
    ELSE [outcome |-> "restored", text |-> entries[id][p]]

Next ==
    \/ \E id \in Ids : CreateSession(id)
    \/ \E id \in live, request \in Requests : Sanitize(id, request)
    \/ \E id \in live : DestroySession(id)
    \/ Clear

Spec == Init /\ [][Next]_vars
=============================================================================
