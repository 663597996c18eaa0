-------------------------- MODULE SidecarProperties --------------------------
(***************************************************************************)
(* What the sidecar promises the callers that hold its token.              *)
(***************************************************************************)
EXTENDS Sidecar

\* The sets of leaves a request has begun, or masked.
Parts == UNION {SUBSET t : t \in Texts}

Maskings == UNION {[d -> SUBSET Values] : d \in Parts}

Answer == [version : Policies, text : Texts, masked : Maskings]

Flight ==
    [caller : Callers, key : Keys, vault : VaultIds, text : Parts, named : Version,
     version : Policies, generation : Nat,
     begun : UNION {[d -> Policies] : d \in Parts}, masked : Maskings,
     replied : BOOLEAN, seen : SUBSET Policies, knew : SUBSET Values]

\* The types of the variables.
TypeOK ==
    /\ DOMAIN table \subseteq Keys
    /\ \A k \in DOMAIN table : table[k] \in [vault : VaultIds, idle : 0..Ttl]
    /\ DOMAIN opener \subseteq VaultIds
    /\ \A v \in DOMAIN opener : opener[v] \in Callers
    /\ VaultsOf(table) \subseteq DOMAIN opener
    /\ \A v \in DOMAIN known : known[v] \in SUBSET Values
    /\ DOMAIN cache = VaultsOf(table)
    /\ \A v \in DOMAIN cache : cache[v] \in Seq(Answer)
    /\ policy \in Policies
    /\ generation \in Nat
    /\ startup \in {"downloading", "loading", "ready", "failed"}
    /\ stage \in {"up", "closing", "stopping", "down"}
    /\ flight \in [Slots -> Flight \cup {Idle}]
    /\ submitted \in [Callers -> SUBSET Values]

\* Real values are in memory for as long as a session holds them, and no
\* longer: the vaults are those of the table, one for each key
\* (sidecar-sessions.ts, drop).
VaultsFollowSessions ==
    /\ DOMAIN known = VaultsOf(table)
    /\ \A j, k \in DOMAIN table : table[j].vault = table[k].vault => j = k

\* An answer to a caller that named a policy hides everything that policy
\* finds in the text, whatever changed while it ran and whether it came
\* from the cache (routes/sidecar.ts:411-437).
NamedPolicyHolds ==
    reply.kind = "masked" /\ reply.named # NoVersion =>
        \A leaf \in reply.text :
            Detected(leaf, reply.named, reply.named) \subseteq reply.masked[leaf]

\* An answer hides at least what every policy that was in effect while it
\* ran would hide: the mix the engine reads across a change never shows
\* more than one of them (nullpii.ts, detectWithModel and finalSpans).
HiddenByAllIsHidden ==
    reply.kind = "masked" =>
        \A leaf \in reply.text : \A v \in leaf.found :
            (\A p \in reply.seen : LabelOf[v] \in p) => v \in reply.masked[leaf]

\* An answer that ran hides, in every leaf, what its session had masked
\* when it came (README.md:82), whatever the policy says now.
RunsHideTheKnown ==
    reply.kind = "masked" /\ ~reply.hit =>
        \A leaf \in reply.text : All(leaf) \cap reply.knew \subseteq reply.masked[leaf]

\* README.md:82, "Once a session has masked a value, nullpii masks it again
\* in that session's later calls", for every answer.
KnownStaysMasked ==
    reply.kind = "masked" =>
        \A leaf \in reply.text : All(leaf) \cap reply.knew \subseteq reply.masked[leaf]

\* What carries the proofs.  A request that runs belongs to the caller its
\* vault was opened by, has read only policies that were in effect, and has
\* hidden in each leaf it masked what all of them hide; one that no change
\* crossed has read one policy.  A cached answer hides what its version does.
AnswersMatchPolicy ==
    /\ \A s \in Slots : flight[s] # Idle =>
          LET f == flight[s]
          IN  /\ f.vault \in DOMAIN opener /\ opener[f.vault] = f.caller
              /\ AllOf(f.text) \subseteq submitted[f.caller]
              /\ ~f.replied => f.text \in Texts
              /\ f.named \in {NoVersion, f.version}
              /\ policy \in f.seen
              /\ f.generation <= generation
              /\ f.generation = generation => f.seen = {f.version}
              /\ DOMAIN f.masked \subseteq DOMAIN f.begun
              /\ DOMAIN f.begun \subseteq f.text
              /\ \A l \in DOMAIN f.begun : f.begun[l] \in f.seen
              /\ \A l \in DOMAIN f.masked : \A v \in l.found :
                    (\A p \in f.seen : LabelOf[v] \in p) => v \in f.masked[l]
    /\ \A v \in DOMAIN cache : \A i \in DOMAIN cache[v] :
          LET c == cache[v][i]
          IN  \A leaf \in c.text :
                  Detected(leaf, c.version, c.version) \subseteq c.masked[leaf]

\* A caller gets real values back only if it sent them itself: the token
\* alone reads nothing, and a key opened again by another caller while a
\* request runs brings nothing over.
OwnValuesOnly ==
    /\ reply.kind = "restored" => reply.values \subseteq submitted[reply.caller]
    /\ \A v \in DOMAIN known : known[v] \subseteq submitted[opener[v]]

\* A shutdown that was accepted loses no one's session: none is open then or
\* later, none was waited for.
ShutdownLosesNothing ==
    stage = "closing" =>
        /\ DOMAIN table = {}
        /\ startup \in {"ready", "failed"}
        /\ DOMAIN opener # {} \/ startup = "failed"

\* What a step may do to the session under a key.
StaysExpired(k) ==
    table[k].idle >= Ttl /\ table'[k].vault = table[k].vault => table'[k].idle >= Ttl

StaysOpen(k) ==
    /\ table[k].idle < Ttl
    /\ table[k].vault \notin VaultsOf(table')
    => \/ stage' = "down"
       \/ /\ reply'.kind = "closed" /\ reply'.key = k
          /\ reply'.caller = opener[table[k].vault]

\* A session that was idle for its TTL never comes back: no request keeps it
\* alive, whether or not the sweeper has run (sidecar-sessions.ts, use, open).
ExpiredStayExpired == [][\A k \in DOMAIN table \cap DOMAIN table' : StaysExpired(k)]_vars

\* A session in use is never taken from its owner: before its TTL it goes
\* only when the owner closes it or the process stops (sidecar-sessions.ts,
\* open and close).
NeverEvicted == [][\A k \in DOMAIN table : StaysOpen(k)]_vars

\* A request that was let in is answered, and its slot is free again.
Answered == \A s \in Slots : flight[s] # Idle ~> flight[s] = Idle

\* The values of a session that expired leave the memory, with no request
\* to help.
ExpiredAreForgotten ==
    \A v \in VaultIds :
        (\E k \in DOMAIN table : table[k].vault = v /\ table[k].idle = Ttl)
            ~> v \notin DOMAIN known

\* A shutdown that was accepted ends the process.
ClosingEnds == stage = "closing" ~> stage = "down"
=============================================================================
