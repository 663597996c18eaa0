--------------------------- MODULE VaultProperties ---------------------------
(***************************************************************************)
(* What the vault promises, over everything it ever sent out.              *)
(***************************************************************************)
EXTENDS Vault

\* The types of the variables.
TypeOK ==
    /\ used \subseteq Ids
    /\ live \subseteq used
    /\ DOMAIN entries = live
    /\ DOMAIN counters = live
    /\ DOMAIN byValue = live
    /\ \A s \in live :
          /\ entries[s] = [p \in DOMAIN entries[s] |-> entries[s][p]]
          /\ DOMAIN entries[s] \subseteq Placeholder
          /\ \A p \in DOMAIN entries[s] : entries[s][p] \in Seq(Char)
          /\ counters[s] \in [Labels -> Nat]
          /\ byValue[s] = [k \in DOMAIN byValue[s] |-> byValue[s][k]]
          /\ DOMAIN byValue[s] \subseteq Key
          /\ IsFiniteSet(DOMAIN byValue[s])
          /\ \A k \in DOMAIN byValue[s] :
                byValue[s][k] \in [placeholder : Placeholder, place : Nat]
    /\ \A m \in sent :
          /\ m.session \in used
          /\ m.request \in Requests
          /\ \A c \in m.cover : c.placeholder \in Placeholder

\* Every output the vault returned goes back to the text it was made from,
\* for as long as its session lives: its ranges are disjoint, and each
\* placeholder restores to exactly what stood there (vault.ts, restore).
RoundTrip ==
    \A m \in sent : m.session \in live =>
        \A c \in m.cover :
            /\ RestoreOf(m.session, c.placeholder) =
                  [outcome |-> "restored", text |-> Slice(m.request.text, c)]
            /\ \A d \in m.cover : d = c \/ d.end <= c.start \/ c.end <= d.start

\* A placeholder never stands for two values: not in two outputs of one
\* session, not in outputs of two sessions, not after its session is gone.
Unambiguous ==
    \A m, n \in sent : \A c \in m.cover, d \in n.cover :
        c.placeholder = d.placeholder =>
            Slice(m.request.text, c) = Slice(n.request.text, d)

\* In one session a value masked under one label always gets the same
\* placeholder, in this call and every later one (vault.ts, byValue).
OneTokenPerLabel ==
    \A m, n \in sent : \A c \in m.cover, d \in n.cover :
        /\ m.session = n.session
        /\ c.placeholder.label = d.placeholder.label
        /\ Slice(m.request.text, c) = Slice(n.request.text, d)
        => c.placeholder = d.placeholder

\* The three maps of a session agree: a value's placeholder is an entry that
\* holds the value, every entry is the placeholder of a value, and every
\* index is below its label's counter.
MapsAgree(s) ==
    /\ \A k \in DOMAIN byValue[s] :
          LET p == byValue[s][k].placeholder
          IN  /\ p \in DOMAIN entries[s] /\ entries[s][p] = k.text
              /\ p.label = k.label /\ p.session = s
    /\ \A p \in DOMAIN entries[s] :
          /\ p.session = s /\ p.idx < counters[s][p.label]
          /\ \E k \in DOMAIN byValue[s] : byValue[s][k].placeholder = p

\* The ranges of an output are apart and bear the placeholder that their
\* value has in its session.
OutputAgrees(m) ==
    /\ \A c \in m.cover : c.placeholder.session = m.session
    /\ \A c, d \in m.cover : c = d \/ c.end <= d.start \/ d.end <= c.start
    /\ m.session \in live =>
          \A c \in m.cover :
              LET k == [label |-> c.placeholder.label,
                        text |-> Slice(m.request.text, c)]
              IN  /\ k \in DOMAIN byValue[m.session]
                  /\ byValue[m.session][k].placeholder = c.placeholder

\* The maps of every session and everything sent from it agree.  With TypeOK
\* it carries the proofs.
Consistent == /\ \A s \in live : MapsAgree(s)
              /\ \A m \in sent : OutputAgrees(m)

\* README.md:81, "In one session, one value always gets the same
\* placeholder", whatever label the detector gave it.
OneTokenPerValue ==
    \A m, n \in sent : \A c \in m.cover, d \in n.cover :
        /\ m.session = n.session
        /\ Slice(m.request.text, c) = Slice(n.request.text, d)
        => c.placeholder = d.placeholder

\* The indices a call mints follow reading order (the comment at
\* vault.ts:95): where a placeholder that no earlier output of its session
\* held first stands, every placeholder of its label to its left has a
\* smaller index.
ReadingOrder ==
    [][\A m \in sent' \ sent : \A c, d \in m.cover :
          /\ c.start < d.start
          /\ c.placeholder.label = d.placeholder.label
          /\ d.placeholder \notin DOMAIN entries[m.session]
          /\ \A e \in m.cover : e.placeholder = d.placeholder => d.start <= e.start
          => c.placeholder.idx < d.placeholder.idx]_vars

\* What the placeholders of each session mean: their entries.
Meanings == [s \in live |-> {<<p, entries[s][p]>> : p \in DOMAIN entries[s]}]

\* The vault implements its promise: its entries are the meanings of its
\* placeholders.
Promise == INSTANCE VaultPromise WITH meaning <- Meanings

KeepsPromise == Promise!Spec
=============================================================================
