---------------------------- MODULE VaultPromise ----------------------------
(***************************************************************************)
(* What the vault promises its callers (README.md, "How the vault works",  *)
(* and the comment of vault.ts sanitize), without counters, indices or the *)
(* merging of spans: placeholders mean values, a meaning is never taken    *)
(* back or changed, and a masked text shows nothing the detector found and *)
(* nothing its session knew.                                               *)
(***************************************************************************)
EXTENDS VaultText

VARIABLES
    live,    \* the sessions that can be used
    meaning, \* session -> the pairs of a placeholder and its value
    sent     \* every masked output returned

vars == <<live, meaning, sent>>

Init ==
    /\ live = {}
    /\ meaning = [s \in {} |-> {}]
    /\ sent = {}

Create(id) ==
    /\ id \notin live
    /\ \A m \in sent : m.session # id
    /\ live' = live \cup {id}
    /\ meaning' = [s \in live' |-> IF s = id THEN {} ELSE meaning[s]]
    /\ UNCHANGED sent

\* The positions of t a detected span covers, and those of a whole word the
\* session knew before the call.
ShownByDetector(request, p) ==
    \E i \in DOMAIN request.spans : Covers(request.spans[i], p)

KnownBefore(id, t, p) ==
    \E x \in meaning[id], at \in DOMAIN t :
        /\ Len(x[2]) >= MinKnown
        /\ FoundAt(t, x[2], at)
        /\ at <= p /\ p < at + Len(x[2])

\* Exactly those positions are masked: a call hides what the detector found
\* and what was known, and no more.
HidesJustThat(id, request, cover) ==
    \A p \in DOMAIN request.text :
        (\E c \in cover : Covers(c, p)) <=>
            ShownByDetector(request, p) \/ KnownBefore(id, request.text, p)

Apart(cover) ==
    \A c, d \in cover : c = d \/ c.end <= d.start \/ d.end <= c.start

Meant(m) == {<<c.placeholder, Slice(m.request.text, c)>> : c \in m.cover}

Mask(id, request) ==
    \E m \in sent' :
        /\ m.session = id /\ m.request = request
        /\ sent' = sent \cup {m}
        /\ Apart(m.cover)
        /\ HidesJustThat(id, request, m.cover)
        /\ meaning' = [meaning EXCEPT ![id] = @ \cup Meant(m)]
        /\ \A x, y \in meaning'[id] : x[1] = y[1] => x[2] = y[2]
        /\ UNCHANGED live

Drop(gone) ==
    /\ live' = live \ gone
    /\ meaning' = [s \in live' |-> meaning[s]]
    /\ UNCHANGED sent

Next ==
    \/ \E id \in Ids : Create(id)
    \/ \E id \in live, request \in Requests : Mask(id, request)
    \/ \E gone \in SUBSET live : Drop(gone)

Spec == Init /\ [][Next]_vars
=============================================================================
