------------------------------ MODULE Sidecar ------------------------------
(***************************************************************************)
(* The sidecar of the gateway: sessions a caller opens under a key of its  *)
(* choice and proves it owns with a secret, the vault and the cache behind *)
(* each, the live policy, and the requests that await the engine while     *)
(* all of these change.                                                    *)
(*                                                                         *)
(* A handler runs to its next await as one step.  Only sanitize awaits: it *)
(* walks the strings (leaves) of its value, each reads the policy as its   *)
(* detection begins and again as it ends, and the last one to end answers. *)
(* A value is a member of a set; a vault is the set of values it has       *)
(* placeholders for, and a policy is the set of labels it masks.  A secret *)
(* is named by the one vault it was made with.                             *)
(***************************************************************************)
EXTENDS Integers, Sequences, FiniteSets

CONSTANTS
    Callers,     \* the processes that hold the bearer token
    Keys,        \* the session keys callers choose
    VaultIds,    \* the ids createSession may give
    Slots,       \* the sanitize requests that may run at once
    Values,      \* the PII values
    LabelOf,     \* value -> its label
    ByModel,     \* the values only the model finds, not the recognizers
    Texts,       \* the JSON values callers send: sets of leaves
    Policies,    \* the policies: sets of masked labels
    FirstPolicy, \* the one at start
    Oversized,   \* the texts whose masked form is over the response limit
    MaxSessions, \* sidecarMaxSessions
    Ttl,         \* vaultTtlMs, in ticks of the clock
    CacheMax,    \* SANITIZE_CACHE_MAX_ENTRIES
    MaxChanges,  \* the bound on policy changes explored
    Idle,        \* no request in a slot
    NoVersion,   \* a request without x-nullpii-policy-version
    NoSecret     \* a request without x-nullpii-session-secret

Label == {LabelOf[v] : v \in Values}
Leaf == [found : SUBSET Values, missed : SUBSET Values]
Version == Policies \cup {NoVersion}

ASSUME SidecarAssumption ==
    /\ ByModel \subseteq Values
    /\ Texts \subseteq SUBSET Leaf
    /\ \A t \in Texts : t # {} /\ IsFiniteSet(t)
    /\ Policies \subseteq SUBSET Label
    /\ FirstPolicy \in Policies
    /\ Oversized \subseteq Texts
    /\ MaxSessions \in Nat \ {0}
    /\ Ttl \in Nat \ {0}
    /\ CacheMax \in Nat \ {0}
    /\ MaxChanges \in Nat
    /\ NoVersion \notin Policies
    /\ NoSecret \notin VaultIds

VARIABLES
    table,      \* key -> the vault of its session, and its idle time
    opener,     \* vault -> the caller that was given its secret
    known,      \* vault -> the values it holds
    cache,      \* vault -> its cached answers, least recently used first
    policy,     \* the policy in effect, which is also its version
    generation, \* how many times the policy was replaced
    startup,    \* the phase StartupTracker reports
    stage,      \* up, closing (after a 202), stopping, down
    flight,     \* slot -> the sanitize request running in it
    reply,      \* the last answer given (history)
    submitted   \* caller -> the values it ever sent (history)

vars == <<table, opener, known, cache, policy, generation, startup, stage,
          flight, reply, submitted>>

(***************************************************************************)
(* The session table                                                       *)
(***************************************************************************)
\* Mutant: nothing is dropped when a request arrives.
KeptUnswept == DOMAIN table

\* What a sweep leaves: the sessions idle for less than the TTL.
Kept == {k \in DOMAIN table : table[k].idle < Ttl}

Swept == [k \in Kept |-> table[k]]

Touched(key) == [Swept EXCEPT ![key].idle = 0]

VaultsOf(t) == {t[k].vault : k \in DOMAIN t}

\* Mutant: the vault of a dropped session is not destroyed.
RetainingVaults(t) ==
    /\ table' = t
    /\ cache' = [v \in VaultsOf(t) |-> cache[v]]
    /\ UNCHANGED known

\* Mutant: the answers of a dropped session stay cached.
RetainingCaches(t) ==
    /\ table' = t
    /\ known' = [v \in VaultsOf(t) |-> known[v]]
    /\ UNCHANGED cache

\* The table becomes t; the vaults and caches of the others go.
Retain(t) ==
    /\ table' = t
    /\ known' = [v \in VaultsOf(t) |-> known[v]]
    /\ cache' = [v \in VaultsOf(t) |-> cache[v]]

\* The secrets a caller can present.
Held(caller) == {v \in DOMAIN opener : opener[v] = caller} \cup {NoSecret}

\* Mutant: the bearer token is enough.
OwnsByToken(key, secret) == key \in DOMAIN table

Owns(key, secret) == key \in DOMAIN table /\ table[key].vault = secret

Usable(key, secret) == key \in Kept /\ Owns(key, secret)

(***************************************************************************)
(* Sessions: PUT and DELETE /v1/sidecar/sessions/:key, the sweeper         *)
(***************************************************************************)
\* The server still answers requests.
Serving == stage \in {"up", "closing"}

\* Mutant: a sidecar that is going away still opens sessions.
MayOpenWhileClosing == Serving

\* No session opens once a shutdown was accepted.
MayOpen == stage = "up"

\* Mutant: a full table makes room by dropping a session.
RoomByEvicting ==
    IF Cardinality(Kept) < MaxSessions THEN {Swept}
    ELSE {[k \in Kept \ {gone} |-> table[k]] : gone \in Kept}

\* The tables a new session can go into: the swept one, unless it is full.
Room == IF Cardinality(Kept) < MaxSessions THEN {Swept} ELSE {}

OpenNew(caller, key, vault) ==
    /\ MayOpen
    /\ key \notin Kept
    /\ vault \notin DOMAIN opener
    /\ \E old \in Room :
          table' = [k \in DOMAIN old \cup {key} |->
                       IF k = key THEN [vault |-> vault, idle |-> 0] ELSE old[k]]
    /\ known' = [v \in VaultsOf(table') |-> IF v = vault THEN {} ELSE known[v]]
    /\ cache' = [v \in VaultsOf(table') |-> IF v = vault THEN << >> ELSE cache[v]]
    /\ opener' = [v \in DOMAIN opener \cup {vault} |->
                     IF v = vault THEN caller ELSE opener[v]]
    /\ reply' = [kind |-> "created", caller |-> caller, key |-> key]
    /\ UNCHANGED <<policy, generation, startup, stage, flight, submitted>>

\* The owner opens its live session again, which keeps it alive.
OpenOwn(caller, key, secret) ==
    /\ MayOpen
    /\ Usable(key, secret)
    /\ Retain(Touched(key))
    /\ reply' = [kind |-> "exists", caller |-> caller, key |-> key]
    /\ UNCHANGED <<opener, policy, generation, startup, stage, flight, submitted>>

\* 503 once closing, 409 to a caller without the secret, 429 when the table
\* is full.
OpenRefused(caller, key, secret) ==
    /\ Serving
    /\ \/ ~MayOpen /\ UNCHANGED <<table, known, cache>>
       \/ MayOpen /\ key \in Kept /\ ~Owns(key, secret) /\ Retain(Swept)
       \/ MayOpen /\ key \notin Kept /\ Room = {} /\ Retain(Swept)
    /\ reply' = [kind |-> "refused", caller |-> caller, key |-> key]
    /\ UNCHANGED <<opener, policy, generation, startup, stage, flight, submitted>>

\* close looks the key up without a sweep.
Close(caller, key, secret) ==
    /\ Serving
    /\ Owns(key, secret)
    /\ Retain([k \in DOMAIN table \ {key} |-> table[k]])
    /\ reply' = [kind |-> "closed", caller |-> caller, key |-> key]
    /\ UNCHANGED <<opener, policy, generation, startup, stage, flight, submitted>>

\* The interval's sweep.
Sweep ==
    /\ stage # "down"
    /\ Kept # DOMAIN table
    /\ Retain(Swept)
    /\ UNCHANGED <<opener, policy, generation, startup, stage, flight, reply, submitted>>

\* A tick of the clock: every session is idle for one more, up to the TTL.
Tick ==
    /\ stage # "down"
    /\ Kept # {}
    /\ table' = [k \in DOMAIN table |->
                    [table[k] EXCEPT !.idle = IF @ < Ttl THEN @ + 1 ELSE @]]
    /\ UNCHANGED <<opener, known, cache, policy, generation, startup, stage,
                   flight, reply, submitted>>

(***************************************************************************)
(* POST sanitize                                                           *)
(***************************************************************************)
All(leaf) == leaf.found \cup leaf.missed

AllOf(text) == UNION {All(leaf) : leaf \in text}

\* 404 or 403 (`use' sweeps, then looks the session up), to sanitize or
\* restore.
UseRefused(caller, key, secret) ==
    /\ Serving
    /\ ~Usable(key, secret)
    /\ Retain(Swept)
    /\ reply' = [kind |-> "refused", caller |-> caller, key |-> key]
    /\ UNCHANGED <<opener, policy, generation, startup, stage, flight, submitted>>

Stale(named) == named # NoVersion /\ named # policy

\* 412 to a sanitize or restore that names another version.
UseStale(caller, key, secret, named) ==
    /\ Serving
    /\ Usable(key, secret)
    /\ Stale(named)
    /\ Retain(Touched(key))
    /\ reply' = [kind |-> "policy_changed", caller |-> caller, key |-> key]
    /\ UNCHANGED <<opener, policy, generation, startup, stage, flight, submitted>>

Without(s, i) == SubSeq(s, 1, i - 1) \o SubSeq(s, i + 1, Len(s))

\* The cached answers to text under the version now in effect, none or one.
Hits(vault, text) ==
    {i \in DOMAIN cache[vault] :
        cache[vault][i].version = policy /\ cache[vault][i].text = text}

Sent(caller, text) == [submitted EXCEPT ![caller] = @ \cup AllOf(text)]

Masked(caller, key, text, named, masked, seen, knew, hit) ==
    [kind |-> "masked", caller |-> caller, key |-> key, text |-> text,
     named |-> named, masked |-> masked, seen |-> seen, knew |-> knew, hit |-> hit]

\* A value seen before is answered from the cache, which makes the answer
\* its most recently used one.
SanitizeHit(caller, key, secret, text, named) ==
    LET vault == table[key].vault
    IN  /\ Serving
        /\ Usable(key, secret)
        /\ ~Stale(named)
        /\ \E i \in Hits(vault, text) :
              LET hit == cache[vault][i]
              IN  /\ cache' = [v \in VaultsOf(Swept) |->
                                 IF v = vault
                                 THEN Append(Without(cache[vault], i), hit)
                                 ELSE cache[v]]
                  /\ reply' = Masked(caller, key, text, named, hit.masked,
                                     {policy}, known[vault], TRUE)
        /\ table' = Touched(key)
        /\ known' = [v \in VaultsOf(Swept) |-> known[v]]
        /\ submitted' = Sent(caller, text)
        /\ UNCHANGED <<opener, policy, generation, startup, stage, flight>>

SanitizeStart(caller, key, secret, text, named, slot) ==
    LET vault == table[key].vault
    IN  /\ Serving
        /\ Usable(key, secret)
        /\ ~Stale(named)
        /\ Hits(vault, text) = {}
        /\ flight[slot] = Idle
        /\ Retain(Touched(key))
        /\ flight' = [flight EXCEPT ![slot] =
              [caller |-> caller, key |-> key, vault |-> vault, text |-> text,
               named |-> named, version |-> policy, generation |-> generation,
               begun |-> << >>, masked |-> << >>, replied |-> FALSE,
               seen |-> {policy}, knew |-> known[vault]]]
        /\ submitted' = Sent(caller, text)
        /\ UNCHANGED <<opener, policy, generation, startup, stage, reply>>

\* Mutant: an initialisation that failed is not tried again.
ModelOnlyOnceReady == startup = "ready"

\* A request waits for the initialisation under way; one that failed is
\* tried again by the next request.
ModelWithinReach == startup # "downloading"

\* The detection of one leaf begins: the model's prompt and cuts are those
\* of the policy now.
BeginLeaf(slot, leaf) ==
    LET f == flight[slot]
    IN  /\ f # Idle
        /\ stage # "down"
        /\ ModelWithinReach
        /\ leaf \in f.text \ DOMAIN f.begun
        /\ flight' = [flight EXCEPT ![slot].begun =
                         [l \in DOMAIN f.begun \cup {leaf} |->
                             IF l = leaf THEN policy ELSE f.begun[l]]]
        /\ UNCHANGED <<table, opener, known, cache, policy, generation, startup,
                       stage, reply, submitted>>

\* What the detector's last cuts let through: labels masked now, of the
\* model's values those its prompt was decoded for.
Detected(leaf, before, now) ==
    {v \in leaf.found : LabelOf[v] \in now /\ (v \in ByModel => LabelOf[v] \in before)}

\* Mutant: the vault is the one now under the key, not the one the request
\* was given when it came.
VaultNowUnder(f) == IF f.key \in DOMAIN table THEN table[f.key].vault ELSE f.vault

\* The vault a request masks into.
VaultOf(f) == f.vault

\* Mutant: the known-value pass is left out.
HiddenWithoutKnown(f, leaf) == Detected(leaf, f.begun[leaf], policy)

\* What the masked leaf hides: that, and what the vault knows already.
Hidden(f, leaf) ==
    Detected(leaf, f.begun[leaf], policy) \cup (All(leaf) \cap known[VaultOf(f)])

WithMasked(f, leaf) ==
    [f EXCEPT !.masked = [l \in DOMAIN f.masked \cup {leaf} |->
                             IF l = leaf THEN Hidden(f, leaf) ELSE f.masked[l]]]

\* A leaf that is running, and whether it is the last.
Running(f, leaf) == leaf \in DOMAIN f.begun \ DOMAIN f.masked

Learns(f, leaf) ==
    known' = [known EXCEPT ![VaultOf(f)] = @ \cup Hidden(f, leaf)]

\* A leaf ends, and others are still to end or the answer is out already.
EndLeaf(slot, leaf) ==
    LET f == flight[slot]
    IN  /\ f # Idle
        /\ stage # "down"
        /\ Running(f, leaf)
        /\ VaultOf(f) \in DOMAIN known
        /\ Learns(f, leaf)
        /\ \/ f.text # DOMAIN f.masked \cup {leaf}
              /\ flight' = [flight EXCEPT ![slot] = WithMasked(f, leaf)]
           \/ f.replied
              /\ f.text = DOMAIN f.masked \cup {leaf}
              /\ flight' = [flight EXCEPT ![slot] = Idle]
        /\ UNCHANGED <<table, opener, cache, policy, generation, startup, stage,
                       reply, submitted>>

\* Mutant: a policy that was put back counts as one that never changed.
ChangedVersion(f) == policy # f.version

\* The policy was replaced while the request ran.
Changed(f) == generation # f.generation

CacheEntry(f, masked) == [version |-> f.version, text |-> f.text, masked |-> masked]

\* set: the answer replaces one under its key, and the least recently used
\* one goes when there are too many.
Remembered(old, entry) ==
    LET same == {i \in DOMAIN old :
                    old[i].version = entry.version /\ old[i].text = entry.text}
        rest == IF same = {} THEN old ELSE Without(old, CHOOSE i \in same : TRUE)
        all  == Append(rest, entry)
    IN  IF Len(all) > CacheMax THEN Tail(all) ELSE all

\* Mutant: answers that ran across a change are kept too.
KeepsAll(f) == TRUE

\* An answer is cached when it was masked under one policy.
Keeps(f) == ~Changed(f)

\* The last leaf ends, and the request is answered in the same turn: 412 to
\* a caller that named a version the request ran across a change of, 413
\* when the response is too large, else the masked value.
AnswerSanitize(slot, leaf) ==
    LET f     == flight[slot]
        whole == WithMasked(f, leaf).masked
    IN  /\ f # Idle
        /\ stage # "down"
        /\ Running(f, leaf)
        /\ VaultOf(f) \in DOMAIN known
        /\ ~f.replied
        /\ f.text = DOMAIN f.masked \cup {leaf}
        /\ Learns(f, leaf)
        /\ flight' = [flight EXCEPT ![slot] = Idle]
        /\ \/ /\ Changed(f) /\ f.named # NoVersion
              /\ reply' = [kind |-> "policy_changed", caller |-> f.caller, key |-> f.key]
              /\ UNCHANGED cache
           \/ /\ ~(Changed(f) /\ f.named # NoVersion)
              /\ f.text \in Oversized
              /\ reply' = [kind |-> "too_large", caller |-> f.caller, key |-> f.key]
              /\ UNCHANGED cache
           \/ /\ ~(Changed(f) /\ f.named # NoVersion)
              /\ f.text \notin Oversized
              /\ reply' = Masked(f.caller, f.key, f.text, f.named, whole, f.seen,
                                 f.knew, FALSE)
              /\ cache' = IF Keeps(f)
                          THEN [cache EXCEPT ![VaultOf(f)] =
                                  Remembered(@, CacheEntry(f, whole))]
                          ELSE cache
        /\ UNCHANGED <<table, opener, policy, generation, startup, stage, submitted>>

\* A leaf throws: the vault of its session is gone, or the engine failed.
\* The request is answered 500 at the first one; the leaves of an array
\* that run beside it go on.  The leaf is taken out of the request.
FailLeaf(slot, leaf) ==
    LET f    == flight[slot]
        left == [f EXCEPT !.text = @ \ {leaf}, !.replied = TRUE,
                          !.begun = [l \in DOMAIN f.begun \ {leaf} |-> f.begun[l]]]
    IN  /\ f # Idle
        /\ stage # "down"
        /\ Running(f, leaf)
        /\ flight' = [flight EXCEPT ![slot] =
                         IF left.text = DOMAIN f.masked THEN Idle ELSE left]
        /\ reply' = IF f.replied THEN reply
                    ELSE [kind |-> "failed", caller |-> f.caller, key |-> f.key]
        /\ UNCHANGED <<table, opener, known, cache, policy, generation, startup,
                       stage, submitted>>

\* The leaves an object's walk had not come to when one threw never begin.
Abandon(slot) ==
    LET f == flight[slot]
    IN  /\ f # Idle
        /\ stage # "down"
        /\ f.replied
        /\ DOMAIN f.begun = DOMAIN f.masked
        /\ flight' = [flight EXCEPT ![slot] = Idle]
        /\ UNCHANGED <<table, opener, known, cache, policy, generation, startup,
                       stage, reply, submitted>>

(***************************************************************************)
(* POST restore, PUT policy                                                *)
(***************************************************************************)
\* The tools a restore may name: none or one of restoreTools, a shell tool
\* (every placeholder is listed back), another tool (held for it).
Tools == {"restored", "shell", "held"}

\* A caller may present any placeholder it saw anywhere, so all of them:
\* those of the session's own vault get their values.
Restore(caller, key, secret, tool, named) ==
    /\ Serving
    /\ Usable(key, secret)
    /\ ~Stale(named)
    /\ Retain(Touched(key))
    /\ reply' = [kind |-> "restored", caller |-> caller, key |-> key,
                values |-> IF tool = "restored" THEN known[table[key].vault] ELSE {}]
    /\ UNCHANGED <<opener, policy, generation, startup, stage, flight, submitted>>

\* Needs the token only: every caller may replace the policy.
PolicyStale(caller, named) ==
    /\ Serving
    /\ Stale(named)
    /\ reply' = [kind |-> "policy_changed", caller |-> caller, key |-> NoSecret]
    /\ UNCHANGED <<table, opener, known, cache, policy, generation, startup, stage,
                   flight, submitted>>

\* Written, applied to the engine, counted; then every cache is emptied.
PutPolicy(caller, named, new) ==
    /\ Serving
    /\ ~Stale(named)
    /\ generation < MaxChanges
    /\ policy' = new
    /\ generation' = generation + 1
    /\ cache' = [v \in DOMAIN cache |-> << >>]
    /\ flight' = [s \in Slots |->
                     IF flight[s] = Idle THEN Idle
                     ELSE [flight[s] EXCEPT !.seen = @ \cup {new}]]
    /\ reply' = [kind |-> "policy", caller |-> caller, key |-> NoSecret]
    /\ UNCHANGED <<table, opener, known, startup, stage, submitted>>

(***************************************************************************)
(* The start, the shutdown route, and the end of the process               *)
(***************************************************************************)
\* What the warmup reports: the files are there, the model is loaded, or the
\* step failed.
Loading ==
    /\ startup = "downloading"
    /\ startup' = "loading"

Ready ==
    /\ startup = "loading"
    /\ startup' = "ready"

WarmupFails ==
    /\ startup \in {"downloading", "loading"}
    /\ startup' = "failed"

Warmup ==
    /\ stage # "down"
    /\ Loading \/ Ready \/ WarmupFails
    /\ UNCHANGED <<table, opener, known, cache, policy, generation, stage, flight,
                   reply, submitted>>

\* Mutant: a start under way is not waited for.
NotRefusedWhileStarting == Kept = {} /\ (DOMAIN opener # {} \/ startup # "ready")

\* shutdownRefusal is undefined: no session is open, the model is not on its
\* way, and a session was opened once, unless the start failed.
NotRefused ==
    /\ Kept = {}
    /\ startup \notin {"downloading", "loading"}
    /\ DOMAIN opener # {} \/ startup = "failed"

Shutdown(caller) ==
    /\ Serving
    /\ Retain(Swept)
    /\ \/ /\ stage = "closing" \/ NotRefused
          /\ stage' = "closing"
          /\ reply' = [kind |-> "closing", caller |-> caller, key |-> NoSecret]
       \/ /\ stage = "up" /\ ~NotRefused
          /\ stage' = stage
          /\ reply' = [kind |-> "refused", caller |-> caller, key |-> NoSecret]
    /\ UNCHANGED <<opener, policy, generation, startup, flight, submitted>>

\* Mutant: an accepted shutdown is not followed by the signal.
SignalFromOutside ==
    /\ stage = "up"
    /\ stage' = "stopping"
    /\ UNCHANGED <<table, opener, known, cache, policy, generation, startup, flight,
                   reply, submitted>>

\* SIGTERM, from outside or from requestStop: the server takes no request.
Signal ==
    /\ Serving
    /\ stage' = "stopping"
    /\ UNCHANGED <<table, opener, known, cache, policy, generation, startup, flight,
                   reply, submitted>>

Unanswered == {s \in Slots : flight[s] # Idle /\ ~flight[s].replied}

\* The requests that were running are answered: closeAll, then the exit.
Stop ==
    /\ stage = "stopping"
    /\ Unanswered = {}
    /\ stage' = "down"
    /\ Retain(<< >>)
    /\ flight' = [s \in Slots |-> Idle]
    /\ UNCHANGED <<opener, policy, generation, startup, reply, submitted>>

(***************************************************************************)
(* The specification                                                       *)
(***************************************************************************)
Init ==
    /\ table = << >>
    /\ opener = << >>
    /\ known = << >>
    /\ cache = << >>
    /\ policy = FirstPolicy
    /\ generation = 0
    /\ startup = "downloading"
    /\ stage = "up"
    /\ flight = [s \in Slots |-> Idle]
    /\ reply = [kind |-> "none", caller |-> NoSecret, key |-> NoSecret]
    /\ submitted = [c \in Callers |-> {}]

SessionStep(caller, key, secret) ==
    \/ \E vault \in VaultIds : OpenNew(caller, key, vault)
    \/ OpenOwn(caller, key, secret)
    \/ OpenRefused(caller, key, secret)
    \/ Close(caller, key, secret)
    \/ UseRefused(caller, key, secret)
    \/ \E named \in Version :
          \/ UseStale(caller, key, secret, named)
          \/ \E tool \in Tools : Restore(caller, key, secret, tool, named)
          \/ \E text \in Texts :
                \/ SanitizeHit(caller, key, secret, text, named)
                \/ \E slot \in Slots :
                      SanitizeStart(caller, key, secret, text, named, slot)

\* The steps of a request that was let in.
FlightStep(slot) ==
    \/ Abandon(slot)
    \/ flight[slot] # Idle /\ \E leaf \in flight[slot].text :
          \/ BeginLeaf(slot, leaf)
          \/ EndLeaf(slot, leaf)
          \/ AnswerSanitize(slot, leaf)
          \/ FailLeaf(slot, leaf)

Next ==
    \/ \E caller \in Callers, key \in Keys : \E secret \in Held(caller) :
          SessionStep(caller, key, secret)
    \/ \E slot \in Slots : FlightStep(slot)
    \/ \E caller \in Callers :
          \/ Shutdown(caller)
          \/ \E named \in Version :
                \/ PolicyStale(caller, named)
                \/ \E new \in Policies : PutPolicy(caller, named, new)
    \/ Sweep \/ Tick \/ Warmup \/ Signal \/ Stop

Spec == Init /\ [][Next]_vars

\* What the runtime does without being asked: the engine's promises settle
\* (downloads and inference have their own time limits), the interval
\* fires, a 202 is followed by the signal and the signal by the exit.
Fairness ==
    /\ \A slot \in Slots : WF_vars(FlightStep(slot))
    /\ WF_vars(Warmup)
    /\ WF_vars(Sweep)
    /\ WF_vars(stage = "closing" /\ Signal)
    /\ WF_vars(Stop)

FairSpec == Spec /\ Fairness
=============================================================================
