------------------------------ MODULE ModPolicy ------------------------------
(***************************************************************************)
(* The masking policy between the Claude Code mod and the sidecar          *)
(* (packages/claude-code-mod/hooks/register.ts: sidecar, reviewPolicy,     *)
(* settlePolicy, accept, putPolicy, changePolicy).  The mod keeps the      *)
(* policy the user accepted and sends its version with every request; the  *)
(* sidecar refuses those of another version.  A change made elsewhere is   *)
(* put to the user: kept, or the policy from before is put back.           *)
(*                                                                         *)
(* A policy is the set of categories that stay readable; its version is a  *)
(* digest of it, so the policy stands for both.  A request and its answer  *)
(* are two steps where the mod can act in between to any effect.           *)
(***************************************************************************)
EXTENDS Naturals, FiniteSets

CONSTANTS
  NoPolicy,
  Categories,
  Requests,    \* masking calls that may be under way at once
  Commands,    \* /pii commands and "always readable" answers under way at once
  MaxOthers    \* bound: changes made elsewhere

Policies == SUBSET Categories

VARIABLES
  served,    \* the policy the sidecar runs with
  stored,    \* the policy accepted last, kept over restarts of the mod
  policy,    \* the policy this session accepted
  review,    \* the review every refused call awaits, and what it read
  request,   \* the masking calls
  command,   \* the policy changes the user asked for
  seen,      \* policies the user made, accepted, or started from
  others

policyvars == <<served, stored, policy, review, request, command, seen, others>>

NoReview == [at |-> "none", now |-> NoPolicy, before |-> NoPolicy]
IdleRequest == [at |-> "idle", with |-> NoPolicy, again |-> FALSE]
IdleCommand == [at |-> "idle", with |-> NoPolicy, to |-> NoPolicy, change |-> <<>>, again |-> FALSE]

(* applyPiiCommand: one category becomes readable, or masked again. *)
Changes == {<<c, mode>> : c \in Categories, mode \in {"off", "mask"}}
Apply(change, config) ==
  IF change[2] = "off" THEN config \cup {change[1]} ELSE config \ {change[1]}

InitPolicy ==
  /\ served \in Policies /\ stored \in Policies \cup {NoPolicy}
  /\ policy = NoPolicy /\ review = NoReview
  /\ request = [r \in Requests |-> IdleRequest]
  /\ command = [k \in Commands |-> IdleCommand]
  /\ seen = {stored} \ {NoPolicy}
  /\ others = 0

(* ---------- The review ---------- *)

Reviewing == IF review.at = "none" THEN [review EXCEPT !.at = "status"] ELSE review

(* Who awaits the review goes on under the policy it settled, or fails.    *)
\* Mutant: the change is sent again as first worked out.
ResentAsItWas(k, settled) == [command[k] EXCEPT !.at = "put", !.with = settled, !.again = TRUE]
Resent(k, settled) ==
  [command[k] EXCEPT !.at = "put", !.with = settled, !.again = TRUE,
                     !.to = Apply(command[k].change, settled)]

ReviewFails ==
  /\ review' = NoReview
  /\ request' = [r \in Requests |->
                   IF request[r].at = "settling" THEN IdleRequest ELSE request[r]]
  /\ command' = [k \in Commands |->
                   IF command[k].at = "settling" THEN IdleCommand ELSE command[k]]
  /\ UNCHANGED <<policy, stored, seen>>
Accept(accepted) == policy' = accepted /\ stored' = accepted
ReviewSettles(accepted) ==
  /\ Accept(accepted)
  /\ review' = NoReview
  /\ request' = [r \in Requests |->
                   IF request[r].at = "settling"
                   THEN [request[r] EXCEPT !.at = "sent", !.with = accepted] ELSE request[r]]
  /\ command' = [k \in Commands |->
                   IF command[k].at = "settling" THEN Resent(k, accepted) ELSE command[k]]

ofReview == others

(* /pii status, the session's opening. *)
Look ==
  /\ review.at = "none"
  /\ review' = Reviewing
  /\ UNCHANGED <<served, stored, policy, request, command, seen, ofReview>>

(* The sidecar answers its status, or is lost. *)
ReadPolicy ==
  /\ review.at = "status"
  /\ review' = [review EXCEPT !.at = "read", !.now = served]
  /\ UNCHANGED <<served, stored, policy, request, command, seen, ofReview>>
StatusLost ==
  /\ review.at = "status"
  /\ ReviewFails
  /\ UNCHANGED <<served, ofReview>>

(* settlePolicy: nothing changed since the policy accepted here or, at the *)
(* first look, last time; else the user is asked.                          *)
\* Mutant: what the sidecar runs with is taken without a question.
TakenAsItIs(before, now) == TRUE
Taken(before, now) == before \in {NoPolicy, now}

Settle ==
  LET before == IF policy # NoPolicy THEN policy ELSE stored IN
  /\ review.at = "read"
  /\ IF Taken(before, review.now)
     THEN /\ ReviewSettles(review.now)
          /\ seen' = seen \cup (IF before \in {NoPolicy, review.now} THEN {review.now} ELSE {})
     ELSE /\ review' = [review EXCEPT !.at = "asked", !.before = before]
          /\ UNCHANGED <<stored, policy, request, command, seen>>
  /\ UNCHANGED <<served, ofReview>>

AnswerKeep ==
  /\ review.at = "asked"
  /\ ReviewSettles(review.now)
  /\ seen' = seen \cup {review.now}
  /\ UNCHANGED <<served, ofReview>>
StillAt(version) == version = served

(* Another answer, or none: the policy from before is put back, unless it  *)
(* changed again.                                                          *)
PutBack ==
  /\ review.at = "asked"
  /\ IF StillAt(review.now)
     THEN /\ served' = review.before
          /\ review' = [review EXCEPT !.at = "back"]
          /\ UNCHANGED <<policy, stored, request, command, seen>>
     ELSE ReviewFails /\ UNCHANGED served
  /\ UNCHANGED <<ofReview>>
PutBackAnswered ==
  /\ review.at = "back"
  /\ ReviewSettles(review.before)
  /\ UNCHANGED <<served, seen, ofReview>>

(* ---------- Masking calls (sidecar) ---------- *)

ofRequest == <<served, stored, policy, command, seen, others>>

Send(r) ==
  /\ request[r].at = "idle"
  /\ IF policy = NoPolicy
     THEN /\ request' = [request EXCEPT ![r].at = "settling"]
          /\ review' = Reviewing
     ELSE /\ request' = [request EXCEPT ![r].at = "sent", ![r].with = policy]
          /\ UNCHANGED review
  /\ UNCHANGED ofRequest

\* Refused for its version, a call is made once more.
Answer(r) ==
  /\ request[r].at = "sent"
  /\ IF request[r].with = served
        \/ request[r].again
     THEN request' = [request EXCEPT ![r] = IdleRequest] /\ UNCHANGED review
     ELSE /\ request' = [request EXCEPT ![r].at = "settling", ![r].again = TRUE]
          /\ review' = Reviewing
  /\ UNCHANGED ofRequest

(* ---------- Policy changes (changePolicy) ---------- *)

ofCommand == <<request, others>>

Change(k, change) ==
  /\ command[k].at = "idle" /\ policy # NoPolicy
  /\ command' = [command EXCEPT ![k] =
                   [at |-> "put", with |-> policy, to |-> Apply(change, policy),
                    change |-> change, again |-> FALSE]]
  /\ UNCHANGED <<served, stored, policy, review, seen, ofCommand>>

PutChange(k) ==
  LET cmd == command[k] IN
  /\ cmd.at = "put"
  /\ IF StillAt(cmd.with)
     THEN /\ served' = cmd.to
          /\ seen' = seen \cup {cmd.to}
          /\ command' = [command EXCEPT ![k].at = "done"]
          /\ UNCHANGED review
     ELSE /\ UNCHANGED <<served, seen>>
          /\ IF cmd.again
             THEN command' = [command EXCEPT ![k] = IdleCommand] /\ UNCHANGED review
             ELSE /\ command' = [command EXCEPT ![k].at = "settling"]
                  /\ review' = Reviewing
  /\ UNCHANGED <<stored, policy, ofCommand>>
ChangeAnswered(k) ==
  /\ command[k].at = "done"
  /\ Accept(command[k].to)
  /\ command' = [command EXCEPT ![k] = IdleCommand]
  /\ UNCHANGED <<served, review, seen, ofCommand>>

(* ---------- Elsewhere ---------- *)

(* Another session's /pii, whose mod keeps what its user accepted in the   *)
(* same store, or a change no mod made.                                    *)
OthersChange ==
  /\ others < MaxOthers /\ others' = others + 1
  /\ served' \in Policies \ {served}
  /\ \/ UNCHANGED <<stored, seen>>
     \/ stored' = served' /\ seen' = seen \cup {served'}
  /\ UNCHANGED <<policy, review, request, command>>

ReviewGoesOn ==
  ReadPolicy \/ Settle \/ AnswerKeep \/ PutBack \/ PutBackAnswered
NextPolicy ==
  \/ Look \/ ReviewGoesOn \/ StatusLost
  \/ \E r \in Requests : Send(r) \/ Answer(r)
  \/ \E k \in Commands :
       (\E change \in Changes : Change(k, change)) \/ PutChange(k) \/ ChangeAnswered(k)
  \/ OthersChange

SpecPolicy == InitPolicy /\ [][NextPolicy]_policyvars

(* ---------- What the mod promises ---------- *)

\* Nothing is masked under a policy the user has not seen: it is one they
\* made, kept when asked, or found at the first look of all
\* (settlePolicy's comment).
MaskedAsAccepted ==
  \A r \in Requests : request[r].at = "sent" /\ request[r].with = served => served \in seen

\* No change made elsewhere is silently undone (changePolicy's comment):
\* what a /pii command sends replaces a policy the user has seen and
\* changes the command's own category alone; what is put back replaces the
\* policy the question told of.
NothingSilentlyUndone ==
  [][/\ \A k \in Commands :
          command[k].at = "put" /\ command'[k].at = "done" =>
            served \in seen /\ served' = Apply(command[k].change, served)
     /\ review.at = "asked" /\ review'.at = "back" => served = review.now]_policyvars
==============================================================================
