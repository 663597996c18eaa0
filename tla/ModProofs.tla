-------------------------------- MODULE ModProofs --------------------------------
(***************************************************************************)
(* What the Claude Code mod promises of the policy, of its questions and   *)
(* of what a window sends unprotected, for any number of requests,         *)
(* commands, tool calls, sessions, starts and acts of other windows.       *)
(***************************************************************************)
EXTENDS ModStart, ModPolicy, ModQuestions, TLAPS

(* ---------- The policy ---------- *)

AnyPolicy == Policies \cup {NoPolicy}

PolicyType ==
  /\ request \in [Requests -> [at : {"idle", "settling", "sent"}, with : AnyPolicy,
                               again : BOOLEAN]]
  /\ command \in [Commands -> [at : {"idle", "settling", "put", "done"},
                               with : AnyPolicy, to : AnyPolicy,
                               change : Changes \cup {<<>>}, again : BOOLEAN]]
  /\ review \in [at : {"none", "status", "read", "asked", "back"},
                 now : AnyPolicy, before : AnyPolicy]
  /\ served \in Policies /\ stored \in AnyPolicy /\ policy \in AnyPolicy
  /\ seen \subseteq Policies

RequestsSeen == \A r \in Requests : request[r].at = "sent" => request[r].with \in seen
CommandsSeen ==
  \A k \in Commands :
    /\ command[k].at # "idle" => command[k].change \in Changes
    /\ command[k].at = "put" =>
         command[k].with \in seen /\ command[k].to = Apply(command[k].change, command[k].with)
    /\ command[k].at = "done" => command[k].to \in seen
ReviewSeen ==
  /\ review.at \in {"read", "asked"} => review.now \in Policies
  /\ review.at \in {"asked", "back"} => review.before \in seen

(* What the mod holds as a policy, or is about to send, the user has seen. *)
PolicyInv ==
  /\ PolicyType
  /\ policy \in seen \cup {NoPolicy} /\ stored \in seen \cup {NoPolicy}
  /\ ReviewSeen /\ RequestsSeen /\ CommandsSeen

LEMMA ApplyType ==
  ASSUME NEW config \in Policies, NEW change \in Changes
  PROVE  Apply(change, config) \in Policies
<1>1. change[1] \in Categories  BY DEF Changes
<1> QED  BY <1>1 DEF Apply, Policies

LEMMA PolicyStarts == InitPolicy => PolicyInv
<1> SUFFICES ASSUME InitPolicy PROVE PolicyInv  OBVIOUS
<1>1. PolicyType
  BY DEF InitPolicy, PolicyType, AnyPolicy, IdleRequest, IdleCommand, NoReview
<1> QED
  BY <1>1 DEF InitPolicy, PolicyInv, RequestsSeen, CommandsSeen, ReviewSeen, IdleRequest,
              IdleCommand, NoReview

LEMMA ReviewingType ==
  ASSUME PolicyType, ReviewSeen
  PROVE  /\ Reviewing \in [at : {"none", "status", "read", "asked", "back"},
                           now : AnyPolicy, before : AnyPolicy]
         /\ Reviewing.at \in {"read", "asked"} => Reviewing.now \in Policies
         /\ Reviewing.at \in {"asked", "back"} => Reviewing.before \in seen
BY DEF PolicyType, ReviewSeen, Reviewing

\* The review is settled under a policy the user has seen.
LEMMA SettlingKeeps ==
  ASSUME PolicyInv, NEW accepted, ReviewSettles(accepted),
         served' \in Policies, seen \subseteq seen', seen' \subseteq Policies,
         accepted \in seen'
  PROVE  PolicyInv'
<1>1. /\ policy' = accepted /\ stored' = accepted /\ review' = NoReview
      /\ request' = [r \in Requests |->
                       IF request[r].at = "settling"
                       THEN [request[r] EXCEPT !.at = "sent", !.with = accepted]
                       ELSE request[r]]
      /\ command' = [k \in Commands |->
                       IF command[k].at = "settling" THEN Resent(k, accepted)
                       ELSE command[k]]
  BY DEF ReviewSettles, Accept
<1>2. accepted \in Policies /\ accepted \in AnyPolicy /\ NoPolicy \in AnyPolicy
  BY DEF AnyPolicy
<1>3. ASSUME NEW k \in Commands, command[k].at = "settling"
      PROVE  /\ Resent(k, accepted) \in [at : {"idle", "settling", "put", "done"},
                                         with : AnyPolicy, to : AnyPolicy,
                                         change : Changes \cup {<<>>}, again : BOOLEAN]
             /\ Resent(k, accepted).at = "put" /\ Resent(k, accepted).with = accepted
             /\ Resent(k, accepted).change = command[k].change
             /\ command[k].change \in Changes
             /\ Resent(k, accepted).to = Apply(command[k].change, accepted)
  <2>1. command[k].change \in Changes  BY <1>3 DEF PolicyInv, CommandsSeen
  <2>2. Apply(command[k].change, accepted) \in Policies  BY <1>2, <2>1, ApplyType
  <2>3. command[k] \in [at : {"idle", "settling", "put", "done"}, with : AnyPolicy,
                        to : AnyPolicy, change : Changes \cup {<<>>}, again : BOOLEAN]
    BY DEF PolicyInv, PolicyType
  <2>4. accepted \in AnyPolicy /\ Apply(command[k].change, accepted) \in AnyPolicy
    BY <1>2, <2>2 DEF AnyPolicy
  <2>5. Resent(k, accepted) \in [at : {"idle", "settling", "put", "done"}, with : AnyPolicy,
                                 to : AnyPolicy, change : Changes \cup {<<>>},
                                 again : BOOLEAN]
    BY <2>3, <2>4 DEF Resent
  <2>6. /\ Resent(k, accepted).at = "put" /\ Resent(k, accepted).with = accepted
        /\ Resent(k, accepted).change = command[k].change
        /\ Resent(k, accepted).to = Apply(command[k].change, accepted)
    BY <2>3 DEF Resent
  <2> QED  BY <2>1, <2>5, <2>6
<1>4. PolicyType'
  <2>1. request' \in [Requests -> [at : {"idle", "settling", "sent"}, with : AnyPolicy,
                                   again : BOOLEAN]]
    <3>1. ASSUME NEW r \in Requests
          PROVE  request'[r] \in [at : {"idle", "settling", "sent"}, with : AnyPolicy,
                                  again : BOOLEAN]
      <4>1. request[r] \in [at : {"idle", "settling", "sent"}, with : AnyPolicy,
                            again : BOOLEAN]
        BY DEF PolicyInv, PolicyType
      <4>2. [request[r] EXCEPT !.at = "sent", !.with = accepted]
              \in [at : {"idle", "settling", "sent"}, with : AnyPolicy, again : BOOLEAN]
        BY <1>2, <4>1
      <4> QED  BY <1>1, <4>1, <4>2
    <3> QED  BY <1>1, <3>1
  <2>2. command' \in [Commands -> [at : {"idle", "settling", "put", "done"},
                                   with : AnyPolicy, to : AnyPolicy,
                                   change : Changes \cup {<<>>}, again : BOOLEAN]]
    BY <1>1, <1>3 DEF PolicyInv, PolicyType
  <2>3. review' \in [at : {"none", "status", "read", "asked", "back"},
                     now : AnyPolicy, before : AnyPolicy]
    BY <1>1, <1>2 DEF NoReview
  <2> QED  BY <1>1, <1>2, <2>1, <2>2, <2>3 DEF PolicyType
<1>5. ReviewSeen'  BY <1>1 DEF ReviewSeen, NoReview
<1>6. RequestsSeen'
  <2> SUFFICES ASSUME NEW r \in Requests, request'[r].at = "sent"
               PROVE  request'[r].with \in seen'
    BY DEF RequestsSeen
  <2> QED  BY <1>1 DEF PolicyInv, PolicyType, RequestsSeen
<1>7. CommandsSeen'
  <2> SUFFICES ASSUME NEW k \in Commands
               PROVE  /\ command'[k].at # "idle" => command'[k].change \in Changes
                      /\ command'[k].at = "put" =>
                           /\ command'[k].with \in seen'
                           /\ command'[k].to = Apply(command'[k].change, command'[k].with)
                      /\ command'[k].at = "done" => command'[k].to \in seen'
    BY DEF CommandsSeen, Apply
  <2>1. CASE command[k].at = "settling"
    BY <1>1, <1>3, <2>1
  <2>2. CASE command[k].at # "settling"
    <3>1. command'[k] = command[k]  BY <1>1, <2>2
    <3> QED  BY <3>1 DEF PolicyInv, CommandsSeen
  <2> QED  BY <2>1, <2>2
<1> QED  BY <1>1, <1>4, <1>5, <1>6, <1>7 DEF PolicyInv

LEMMA FailingKeeps ==
  ASSUME PolicyInv, ReviewFails, served' = served
  PROVE  PolicyInv'
<1> USE DEF AnyPolicy
<1>1. /\ UNCHANGED <<policy, stored, seen>> /\ review' = NoReview
      /\ request' = [r \in Requests |->
                       IF request[r].at = "settling" THEN IdleRequest ELSE request[r]]
      /\ command' = [k \in Commands |->
                       IF command[k].at = "settling" THEN IdleCommand ELSE command[k]]
  BY DEF ReviewFails
<1>2. PolicyType'
  <2>1. request' \in [Requests -> [at : {"idle", "settling", "sent"}, with : AnyPolicy,
                                   again : BOOLEAN]]
    BY <1>1 DEF PolicyInv, PolicyType, IdleRequest
  <2>2. command' \in [Commands -> [at : {"idle", "settling", "put", "done"},
                                   with : AnyPolicy, to : AnyPolicy,
                                   change : Changes \cup {<<>>}, again : BOOLEAN]]
    BY <1>1 DEF PolicyInv, PolicyType, IdleCommand
  <2> QED  BY <1>1, <2>1, <2>2 DEF PolicyInv, PolicyType, NoReview
<1>3. RequestsSeen'
  BY <1>1 DEF PolicyInv, RequestsSeen, IdleRequest
<1>4. CommandsSeen'
  <2> SUFFICES ASSUME NEW k \in Commands
               PROVE  /\ command'[k].at # "idle" => command'[k].change \in Changes
                      /\ command'[k].at = "put" =>
                           /\ command'[k].with \in seen'
                           /\ command'[k].to = Apply(command'[k].change, command'[k].with)
                      /\ command'[k].at = "done" => command'[k].to \in seen'
    BY DEF CommandsSeen, Apply
  <2> QED  BY <1>1 DEF PolicyInv, CommandsSeen, IdleCommand
<1> QED  BY <1>1, <1>2, <1>3, <1>4 DEF PolicyInv, ReviewSeen, NoReview

\* What the user has seen stays seen; calls, commands and the review keep
\* what they hold where a step leaves them.
LEMMA PolicyStep ==
  ASSUME PolicyInv, [NextPolicy]_policyvars
  PROVE  PolicyInv'
<1> USE DEF PolicyInv
<1>0. NoPolicy \in AnyPolicy /\ Policies \subseteq AnyPolicy  BY DEF AnyPolicy
<1>1. CASE Look
  BY <1>1, ReviewingType DEF Look, PolicyType, ReviewSeen, RequestsSeen, CommandsSeen, Apply
<1>2. CASE ReadPolicy
  <2>1. review' = [review EXCEPT !.at = "read", !.now = served]  BY <1>2 DEF ReadPolicy
  <2>2. review' \in [at : {"none", "status", "read", "asked", "back"},
                     now : AnyPolicy, before : AnyPolicy]
    BY <1>0, <2>1 DEF PolicyType
  <2>3. ReviewSeen'  BY <1>2, <2>1 DEF ReadPolicy, PolicyType, ReviewSeen
  <2> QED  BY <1>2, <2>2, <2>3 DEF ReadPolicy, PolicyType, RequestsSeen, CommandsSeen, Apply
<1>3. CASE StatusLost
  BY <1>3, FailingKeeps DEF StatusLost
<1>4. CASE Settle
  <2> DEFINE before == IF policy # NoPolicy THEN policy ELSE stored
  <2>1. review.at = "read" /\ review.now \in Policies
    BY <1>4 DEF Settle, ReviewSeen
  <2>2. CASE Taken(before, review.now)
    <3>1. ReviewSettles(review.now) /\ served' = served
      BY <1>4, <2>2 DEF Settle
    <3>2. seen' = seen \cup (IF before \in {NoPolicy, review.now} THEN {review.now} ELSE {})
      BY <1>4, <2>2 DEF Settle
    <3>3. seen' = seen \cup {review.now}  BY <2>2, <3>2 DEF Taken
    <3>4. seen' \subseteq Policies /\ served' \in Policies  BY <2>1, <3>1, <3>3 DEF PolicyType
    <3> QED  BY <3>1, <3>3, <3>4, SettlingKeeps
  <2>3. CASE ~Taken(before, review.now)
    <3>1. /\ review' = [review EXCEPT !.at = "asked", !.before = before]
          /\ UNCHANGED <<served, stored, policy, request, command, seen>>
      BY <1>4, <2>3 DEF Settle
    <3>2. before \in seen  BY <2>3 DEF Taken
    <3>3. before \in AnyPolicy  BY <1>0, <3>2 DEF PolicyType
    <3>4. review' \in [at : {"none", "status", "read", "asked", "back"},
                       now : AnyPolicy, before : AnyPolicy]
      BY <3>1, <3>3 DEF PolicyType
    <3>5. ReviewSeen'  BY <2>1, <3>1, <3>2 DEF PolicyType, ReviewSeen
    <3> QED  BY <3>1, <3>4, <3>5 DEF PolicyType, RequestsSeen, CommandsSeen, Apply
  <2> QED  BY <2>2, <2>3
<1>5. CASE AnswerKeep
  <2>1. review.now \in Policies  BY <1>5 DEF AnswerKeep, ReviewSeen
  <2>2. ReviewSettles(review.now) /\ served' = served /\ seen' = seen \cup {review.now}
    BY <1>5 DEF AnswerKeep
  <2>3. seen' \subseteq Policies /\ served' \in Policies  BY <2>1, <2>2 DEF PolicyType
  <2> QED  BY <2>2, <2>3, SettlingKeeps
<1>6. CASE PutBack
  <2>1. CASE StillAt(review.now)
    <3>1. /\ served' = review.before /\ review' = [review EXCEPT !.at = "back"]
          /\ UNCHANGED <<policy, stored, request, command, seen>>
      BY <1>6, <2>1 DEF PutBack
    <3>2. review.before \in seen  BY <1>6 DEF PutBack, ReviewSeen
    <3>3. served' \in Policies  BY <3>1, <3>2 DEF PolicyType
    <3>4. review' \in [at : {"none", "status", "read", "asked", "back"},
                       now : AnyPolicy, before : AnyPolicy]
      BY <3>1 DEF PolicyType
    <3>5. ReviewSeen'  BY <3>1, <3>2 DEF PolicyType, ReviewSeen
    <3> QED  BY <3>1, <3>3, <3>4, <3>5 DEF PolicyType, RequestsSeen, CommandsSeen, Apply
  <2>2. CASE ~StillAt(review.now)
    BY <1>6, <2>2, FailingKeeps DEF PutBack
  <2> QED  BY <2>1, <2>2
<1>7. CASE PutBackAnswered
  <2>1. ReviewSettles(review.before) /\ served' = served /\ seen' = seen
    BY <1>7 DEF PutBackAnswered
  <2>2. review.before \in seen'  BY <1>7, <2>1 DEF PutBackAnswered, ReviewSeen
  <2>3. seen' \subseteq Policies /\ served' \in Policies  BY <2>1 DEF PolicyType
  <2> QED  BY <2>1, <2>2, <2>3, SettlingKeeps
<1>8. ASSUME NEW r \in Requests, Send(r) \/ Answer(r)
      PROVE  PolicyInv'
  <2>1. UNCHANGED <<served, stored, policy, command, seen>>
    BY <1>8 DEF Send, Answer, ofRequest
  <2>2. review' = review \/ review' = Reviewing  BY <1>8 DEF Send, Answer
  <2>3. ReviewSeen' /\ review' \in [at : {"none", "status", "read", "asked", "back"},
                                   now : AnyPolicy, before : AnyPolicy]
    BY <2>1, <2>2, ReviewingType DEF ReviewSeen, PolicyType
  <2>4. request' \in [Requests -> [at : {"idle", "settling", "sent"}, with : AnyPolicy,
                                   again : BOOLEAN]]
    <3>1. request[r] \in [at : {"idle", "settling", "sent"}, with : AnyPolicy,
                          again : BOOLEAN]
      BY DEF PolicyType
    <3>2. policy \in AnyPolicy  BY DEF PolicyType
    <3>3. \/ request' = [request EXCEPT ![r].at = "settling"]
          \/ request' = [request EXCEPT ![r].at = "sent", ![r].with = policy]
          \/ request' = [request EXCEPT ![r] = IdleRequest]
          \/ request' = [request EXCEPT ![r].at = "settling", ![r].again = TRUE]
      BY <1>8 DEF Send, Answer
    <3>4. IdleRequest \in [at : {"idle", "settling", "sent"}, with : AnyPolicy,
                           again : BOOLEAN]
      BY <1>0 DEF IdleRequest
    <3>5. CASE request' = [request EXCEPT ![r].at = "settling"]
      BY <3>1, <3>5 DEF PolicyType
    <3>6. CASE request' = [request EXCEPT ![r].at = "sent", ![r].with = policy]
      BY <3>1, <3>2, <3>6 DEF PolicyType
    <3>7. CASE request' = [request EXCEPT ![r] = IdleRequest]
      BY <3>4, <3>7 DEF PolicyType
    <3>8. CASE request' = [request EXCEPT ![r].at = "settling", ![r].again = TRUE]
      BY <3>1, <3>8 DEF PolicyType
    <3> QED  BY <3>3, <3>5, <3>6, <3>7, <3>8
  <2>5. ASSUME NEW q \in Requests, request'[q].at = "sent" PROVE request'[q].with \in seen
    BY <1>8, <2>5 DEF Send, Answer, PolicyType, RequestsSeen, IdleRequest
  <2> QED  BY <2>1, <2>3, <2>4, <2>5 DEF PolicyType, RequestsSeen, CommandsSeen, Apply
<1>9. ASSUME NEW k \in Commands, NEW change \in Changes, Change(k, change)
      PROVE  PolicyInv'
  <2>1. /\ UNCHANGED <<served, stored, policy, review, seen, request>>
        /\ policy \in seen
        /\ command' = [command EXCEPT ![k] =
                         [at |-> "put", with |-> policy, to |-> Apply(change, policy),
                          change |-> change, again |-> FALSE]]
    BY <1>9 DEF Change, ofCommand
  <2>2. Apply(change, policy) \in Policies  BY <2>1, ApplyType DEF PolicyType
  <2>3. command' \in [Commands -> [at : {"idle", "settling", "put", "done"},
                                   with : AnyPolicy, to : AnyPolicy,
                                   change : Changes \cup {<<>>}, again : BOOLEAN]]
    BY <1>0, <2>1, <2>2 DEF PolicyType
  <2>4. CommandsSeen'  BY <2>1 DEF PolicyType, CommandsSeen, Apply
  <2> QED  BY <2>1, <2>3, <2>4 DEF PolicyType, ReviewSeen, RequestsSeen
<1>10. ASSUME NEW k \in Commands, PutChange(k)
       PROVE  PolicyInv'
  <2>1. UNCHANGED <<stored, policy, request>> /\ command[k].at = "put"
    BY <1>10 DEF PutChange, ofCommand
  <2>2. CASE StillAt(command[k].with)
    <3>1. /\ served' = command[k].to /\ seen' = seen \cup {command[k].to}
          /\ command' = [command EXCEPT ![k].at = "done"] /\ review' = review
      BY <1>10, <2>2 DEF PutChange
    <3>2. command[k].to \in Policies
      BY <2>1, ApplyType DEF CommandsSeen, PolicyType
    <3>3. command' \in [Commands -> [at : {"idle", "settling", "put", "done"},
                                     with : AnyPolicy, to : AnyPolicy,
                                     change : Changes \cup {<<>>}, again : BOOLEAN]]
      BY <3>1 DEF PolicyType
    <3>4. CommandsSeen'  BY <2>1, <3>1 DEF PolicyType, CommandsSeen, Apply
    <3> QED  BY <2>1, <3>1, <3>2, <3>3, <3>4 DEF PolicyType, ReviewSeen, RequestsSeen
  <2>3. CASE ~StillAt(command[k].with)
    <3>1. UNCHANGED <<served, seen>> /\ (review' = review \/ review' = Reviewing)
      BY <1>10, <2>3 DEF PutChange
    <3>2. \/ command' = [command EXCEPT ![k] = IdleCommand]
          \/ command' = [command EXCEPT ![k].at = "settling"]
      BY <1>10, <2>3 DEF PutChange
    <3>3. command' \in [Commands -> [at : {"idle", "settling", "put", "done"},
                                     with : AnyPolicy, to : AnyPolicy,
                                     change : Changes \cup {<<>>}, again : BOOLEAN]]
      <4>1. IdleCommand \in [at : {"idle", "settling", "put", "done"}, with : AnyPolicy,
                             to : AnyPolicy, change : Changes \cup {<<>>}, again : BOOLEAN]
        BY <1>0 DEF IdleCommand
      <4>2. CASE command' = [command EXCEPT ![k] = IdleCommand]
        BY <4>1, <4>2 DEF PolicyType
      <4>3. CASE command' = [command EXCEPT ![k].at = "settling"]
        BY <4>3 DEF PolicyType
      <4> QED  BY <3>2, <4>2, <4>3
    <3>4. CommandsSeen'
      <4> SUFFICES ASSUME NEW j \in Commands
                   PROVE  /\ command'[j].at # "idle" => command'[j].change \in Changes
                          /\ command'[j].at = "put" =>
                               /\ command'[j].with \in seen'
                               /\ command'[j].to = Apply(command'[j].change, command'[j].with)
                          /\ command'[j].at = "done" => command'[j].to \in seen'
        BY DEF CommandsSeen, Apply
      <4>1. command[j] \in [at : {"idle", "settling", "put", "done"}, with : AnyPolicy,
                            to : AnyPolicy, change : Changes \cup {<<>>}, again : BOOLEAN]
        BY DEF PolicyType
      <4>2. CASE j # k
        <5>1. command'[j] = command[j]  BY <3>2, <4>2 DEF PolicyType
        <5> QED  BY <3>1, <5>1 DEF CommandsSeen
      <4>3. CASE j = k
        <5>1. \/ command'[j] = IdleCommand
              \/ command'[j] = [command[j] EXCEPT !.at = "settling"]
          BY <3>2, <4>3 DEF PolicyType
        <5>2. \/ command'[j].at = "idle"
              \/ command'[j].at = "settling" /\ command'[j].change = command[j].change
          BY <4>1, <5>1 DEF IdleCommand
        <5> QED  BY <2>1, <4>3, <5>2 DEF CommandsSeen
      <4> QED  BY <4>2, <4>3
    <3>5. ReviewSeen' /\ review' \in [at : {"none", "status", "read", "asked", "back"},
                                     now : AnyPolicy, before : AnyPolicy]
      BY <3>1, ReviewingType DEF ReviewSeen, PolicyType
    <3> QED  BY <2>1, <3>1, <3>3, <3>4, <3>5 DEF PolicyType, RequestsSeen
  <2> QED  BY <2>2, <2>3
<1>11. ASSUME NEW k \in Commands, ChangeAnswered(k)
       PROVE  PolicyInv'
  <2>1. /\ policy' = command[k].to /\ stored' = command[k].to
        /\ command' = [command EXCEPT ![k] = IdleCommand]
        /\ UNCHANGED <<served, review, seen, request>>
        /\ command[k].to \in seen
    BY <1>11 DEF ChangeAnswered, Accept, ofCommand, CommandsSeen
  <2>2. command' \in [Commands -> [at : {"idle", "settling", "put", "done"},
                                   with : AnyPolicy, to : AnyPolicy,
                                   change : Changes \cup {<<>>}, again : BOOLEAN]]
    BY <1>0, <2>1 DEF PolicyType, IdleCommand
  <2>3. CommandsSeen'  BY <2>1 DEF PolicyType, CommandsSeen, Apply, IdleCommand
  <2> QED  BY <1>0, <2>1, <2>2, <2>3 DEF PolicyType, ReviewSeen, RequestsSeen
<1>12. CASE OthersChange
  <2>1. /\ UNCHANGED <<policy, review, request, command>> /\ served' \in Policies
        /\ \/ UNCHANGED <<stored, seen>>
           \/ stored' = served' /\ seen' = seen \cup {served'}
    BY <1>12 DEF OthersChange
  <2>2. PolicyType'  BY <1>0, <2>1 DEF PolicyType
  <2>3. CommandsSeen'  BY <2>1 DEF CommandsSeen, Apply
  <2> QED  BY <2>1, <2>2, <2>3 DEF ReviewSeen, RequestsSeen
<1>13. CASE UNCHANGED policyvars
  BY <1>13 DEF policyvars, PolicyType, ReviewSeen, RequestsSeen, CommandsSeen, Apply
<1> QED
  BY <1>1, <1>2, <1>3, <1>4, <1>5, <1>6, <1>7, <1>8, <1>9, <1>10, <1>11, <1>12, <1>13
  DEF NextPolicy, ReviewGoesOn

THEOREM PolicyAlways == SpecPolicy => []PolicyInv
<1>1. InitPolicy => PolicyInv  BY PolicyStarts
<1>2. PolicyInv /\ [NextPolicy]_policyvars => PolicyInv'  BY PolicyStep
<1> QED  BY <1>1, <1>2, PTL DEF SpecPolicy

(* Nothing is masked under a policy the user has not seen, whatever        *)
(* happens between a look at the policy, the question and the answer       *)
(* (settlePolicy).                                                         *)
THEOREM MaskedUnderTheSeen == SpecPolicy => []MaskedAsAccepted
<1>1. PolicyInv => MaskedAsAccepted
  BY DEF PolicyInv, RequestsSeen, MaskedAsAccepted
<1> QED  BY <1>1, PolicyAlways, PTL

(* A command replaces a policy the user has seen, and changes its own      *)
(* category alone; what is put back replaces what the question told of     *)
(* (changePolicy).                                                         *)
UndoesNothing ==
  /\ \A k \in Commands :
       command[k].at = "put" /\ command'[k].at = "done" =>
         served \in seen /\ served' = Apply(command[k].change, served)
  /\ review.at = "asked" /\ review'.at = "back" => served = review.now

\* A command in the answer of the review is sent again, never done.
LEMMA SettlingDoesNoCommand ==
  ASSUME PolicyInv, NEW accepted, ReviewSettles(accepted)
  PROVE  review'.at = "none"
         /\ \A k \in Commands : command[k].at = "put" => command'[k].at = "put"
BY DEF ReviewSettles, NoReview

LEMMA FailingDoesNoCommand ==
  ASSUME PolicyInv, ReviewFails
  PROVE  review'.at = "none"
         /\ \A k \in Commands : command[k].at = "put" => command'[k].at = "put"
BY DEF ReviewFails, NoReview

LEMMA PolicyUndoes ==
  ASSUME PolicyInv, [NextPolicy]_policyvars
  PROVE  UndoesNothing
<1>1. CASE Settle \/ AnswerKeep \/ PutBackAnswered
  <2>1. CASE \E accepted : ReviewSettles(accepted)
    BY <2>1, SettlingDoesNoCommand DEF UndoesNothing
  <2>2. CASE Settle /\ review' = [review EXCEPT !.at = "asked",
                                     !.before = IF policy # NoPolicy THEN policy ELSE stored]
                    /\ command' = command
    <3>1. review'.at = "asked"  BY <2>2 DEF PolicyInv, PolicyType
    <3> QED  BY <2>2, <3>1 DEF UndoesNothing
  <2> QED  BY <1>1, <2>1, <2>2 DEF Settle, AnswerKeep, PutBackAnswered
<1>2. CASE PutBack
  <2>1. CASE StillAt(review.now)
    BY <1>2, <2>1 DEF PutBack, StillAt, UndoesNothing
  <2>2. CASE ReviewFails
    BY <2>2, FailingDoesNoCommand DEF UndoesNothing
  <2> QED  BY <1>2, <2>1, <2>2 DEF PutBack
<1>3. CASE StatusLost
  BY <1>3, FailingDoesNoCommand DEF StatusLost, UndoesNothing
<1>4. CASE Look \/ ReadPolicy
  <2>1. command' = command /\ (review.at = "none" \/ review.at = "status")
    BY <1>4 DEF Look, ReadPolicy
  <2> QED  BY <2>1 DEF UndoesNothing
\* What the calls and the commands make of the review is no answer to it.
<1>5. ASSUME review' = review \/ review' = Reviewing
      PROVE  ~(review.at = "asked" /\ review'.at = "back")
  BY <1>5 DEF Reviewing
<1>6. CASE \E r \in Requests : Send(r) \/ Answer(r)
  <2>1. command' = command /\ (review' = review \/ review' = Reviewing)
    BY <1>6 DEF Send, Answer, ofRequest
  <2> QED  BY <1>5, <2>1 DEF UndoesNothing
<1>7. ASSUME NEW k \in Commands, NEW change \in Changes, Change(k, change)
      PROVE  UndoesNothing
  <2>1. /\ review' = review /\ command[k].at = "idle"
        /\ \A j \in Commands \ {k} : command'[j] = command[j]
    BY <1>7 DEF Change, PolicyInv, PolicyType
  <2> QED  BY <2>1 DEF UndoesNothing
<1>8. ASSUME NEW k \in Commands, PutChange(k)
      PROVE  UndoesNothing
  <2>1. /\ review' = review \/ review' = Reviewing
        /\ \A j \in Commands \ {k} : command'[j] = command[j]
        /\ command[k].at = "put"
    BY <1>8 DEF PutChange, PolicyInv, PolicyType
  <2>2. CASE StillAt(command[k].with)
    <3>1. served' = command[k].to  BY <1>8, <2>2 DEF PutChange
    <3>2. served \in seen /\ served' = Apply(command[k].change, served)
      BY <2>1, <2>2, <3>1 DEF StillAt, PolicyInv, CommandsSeen
    <3> QED  BY <1>5, <2>1, <3>2 DEF UndoesNothing
  <2>3. CASE ~StillAt(command[k].with)
    <3>1. \/ command' = [command EXCEPT ![k] = IdleCommand]
          \/ command' = [command EXCEPT ![k].at = "settling"]
      BY <1>8, <2>3 DEF PutChange
    <3>2. command'[k].at # "done"
      BY <3>1 DEF IdleCommand, PolicyInv, PolicyType
    <3> QED  BY <1>5, <2>1, <3>2 DEF UndoesNothing
  <2> QED  BY <2>2, <2>3
<1>9. ASSUME NEW k \in Commands, ChangeAnswered(k)
      PROVE  UndoesNothing
  <2>1. /\ review' = review /\ command[k].at = "done"
        /\ \A j \in Commands \ {k} : command'[j] = command[j]
    BY <1>9 DEF ChangeAnswered, PolicyInv, PolicyType
  <2> QED  BY <2>1 DEF UndoesNothing
<1>10. CASE OthersChange \/ UNCHANGED policyvars
  <2>1. review' = review /\ command' = command  BY <1>10 DEF OthersChange, policyvars
  <2> QED  BY <2>1 DEF UndoesNothing
<1> QED
  BY <1>1, <1>2, <1>3, <1>4, <1>6, <1>7, <1>8, <1>9, <1>10 DEF NextPolicy, ReviewGoesOn

THEOREM UndoesNothingSilently == SpecPolicy => NothingSilentlyUndone
<1>1. PolicyInv /\ [NextPolicy]_policyvars => [UndoesNothing]_policyvars
  BY PolicyUndoes
<1> QED  BY <1>1, PolicyAlways, PTL DEF SpecPolicy, NothingSilentlyUndone, UndoesNothing

(* ---------- The questions ---------- *)

ACall == [at : {"idle", "lookup", "clear", "run", "values", "keys", "text", "sent"},
          held : BOOLEAN, shows : SUBSET Names, out : SUBSET Names]

(* Allow all, what is written as text and the pause are the session's own  *)
(* word.                                                                   *)
QuestionsInv ==
  /\ calls \in [Calls -> ACall] /\ known \subseteq Names
  /\ allowAll => "clear" \in said
  /\ staleAsText => "text" \in said
  /\ paused => "pause" \in said

\* What a step may do to the calls.
Word ==
  /\ \A c \in Calls :
       /\ calls[c].at = "values" /\ calls'[c].at = "run" =>
            OnTheirWord("clear") /\ calls'[c].out = calls[c].shows
       /\ calls[c].at = "keys" /\ calls'[c].at = "sent" => OnTheirWord("clear")
       /\ calls[c].at = "text" /\ calls'[c].at = "clear" => OnTheirWord("text")
  /\ paused' => "pause" \in said'

LEMMA QuestionsStart == InitQuestions => QuestionsInv
BY DEF InitQuestions, QuestionsInv, IdleCall, ACall

LEMMA AsksType ==
  ASSUME QuestionsInv, NEW c \in Calls, NEW about \in {"values", "keys", "text"},
         NEW shows \in SUBSET Names, Asks(c, about, shows)
  PROVE  /\ calls' \in [Calls -> ACall] /\ calls'[c].at = about
         /\ \A d \in Calls \ {c} : calls'[d] = calls[d]
<1>1. calls' = [calls EXCEPT ![c] = [@ EXCEPT !.at = about, !.shows = shows, !.out = {}]]
  BY DEF Asks
<1>2. calls[c] \in ACall  BY DEF QuestionsInv
<1>3. [calls[c] EXCEPT !.at = about, !.shows = shows, !.out = {}] \in ACall
  BY <1>2 DEF ACall
<1>4. [calls[c] EXCEPT !.at = about, !.shows = shows, !.out = {}].at = about
  BY <1>2 DEF ACall
<1> QED  BY <1>1, <1>3, <1>4 DEF QuestionsInv

LEMMA AtRunType ==
  ASSUME QuestionsInv, NEW c \in Calls, NEW names \in SUBSET Names
  PROVE  AtRun(c, names) \in ACall /\ AtRun(c, names).at = "run" /\ AtRun(c, names).out = names
<1>1. calls[c] \in ACall  BY DEF QuestionsInv
<1>2. calls[c].held \in BOOLEAN  BY <1>1 DEF ACall
<1>3. IdleCall \in ACall  BY DEF IdleCall, ACall
<1>4. AtRun(c, names) = [IdleCall EXCEPT !.at = "run", !.held = calls[c].held, !.out = names]
  BY DEF AtRun
<1>5. AtRun(c, names) \in ACall  BY <1>2, <1>3, <1>4 DEF ACall
<1>6. AtRun(c, names).at = "run" /\ AtRun(c, names).out = names
  BY <1>3, <1>4 DEF ACall
<1> QED  BY <1>5, <1>6

\* A call that goes on takes out what its question showed.
LEMMA GoesOnType ==
  ASSUME QuestionsInv, NEW c, GoesOn(c)
  PROVE  /\ calls' \in [Calls -> ACall]
         /\ \A d \in Calls : calls'[d] # calls[d] => d = c
         /\ c \in Calls /\ calls[c].at = "values" => calls'[c].out = calls[c].shows
         /\ c \in Calls /\ calls[c].at = "values" => calls'[c].at = "run"
         /\ c \in Calls /\ calls[c].at = "text" => calls'[c].at = "clear"
         /\ c \in Calls /\ calls[c].at = "keys" => calls'[c].at = "sent"
<1>1. CASE c \in Calls
  <2>1. calls[c] \in ACall  BY <1>1 DEF QuestionsInv
  <2>2. AtRun(c, PutsBack(c)) \in ACall /\ AtRun(c, PutsBack(c)).at = "run"
        /\ AtRun(c, PutsBack(c)).out = calls[c].shows
    <3>1. PutsBack(c) \in SUBSET Names /\ PutsBack(c) = calls[c].shows
      BY <2>1 DEF ACall, PutsBack
    <3> QED  BY <1>1, <3>1, AtRunType
  <2>3. [calls[c] EXCEPT !.at = "clear"] \in ACall
        /\ [calls[c] EXCEPT !.at = "clear"].at = "clear"
    BY <2>1 DEF ACall
  <2>4. [IdleCall EXCEPT !.at = "sent"] \in ACall
        /\ [IdleCall EXCEPT !.at = "sent"].at = "sent"
    BY DEF IdleCall, ACall
  <2>5. calls' = [calls EXCEPT ![c] = IF calls[c].at = "text"
                                       THEN [calls[c] EXCEPT !.at = "clear"]
                                       ELSE IF calls[c].at = "values" THEN AtRun(c, PutsBack(c))
                                       ELSE [IdleCall EXCEPT !.at = "sent"]]
    BY DEF GoesOn
  <2>6. /\ \A d \in Calls \ {c} : calls'[d] = calls[d]
        /\ calls'[c] = IF calls[c].at = "text" THEN [calls[c] EXCEPT !.at = "clear"]
                       ELSE IF calls[c].at = "values" THEN AtRun(c, PutsBack(c))
                       ELSE [IdleCall EXCEPT !.at = "sent"]
    BY <1>1, <2>5 DEF QuestionsInv
  <2>7. calls' \in [Calls -> ACall]
    BY <1>1, <2>2, <2>3, <2>4, <2>5 DEF QuestionsInv
  <2> QED  BY <2>2, <2>3, <2>4, <2>6, <2>7
<1>2. CASE c \notin Calls
  BY <1>2 DEF GoesOn, QuestionsInv
<1> QED  BY <1>1, <1>2

LEMMA DeniedType ==
  ASSUME QuestionsInv, NEW c, Denied(c)
  PROVE  /\ calls' \in [Calls -> ACall]
         /\ \A d \in Calls : calls'[d] = calls[d] \/ calls'[d].at = "idle"
<1>1. IdleCall \in ACall /\ IdleCall.at = "idle"  BY DEF IdleCall, ACall
<1> QED  BY <1>1 DEF Denied, QuestionsInv

\* A call's own steps answer no question.
LEMMA CallsAsk ==
  ASSUME QuestionsInv, NEW c \in Calls, ToolCall(c) \/ ToolGoesOn(c)
  PROVE  /\ calls' \in [Calls -> ACall] /\ known' \subseteq Names
         /\ \A d \in Calls \ {c} : calls'[d] = calls[d]
         /\ calls[c].at \notin {"values", "keys", "text"}
<1>1. calls[c] \in ACall  BY DEF QuestionsInv
<1>2. CASE ToolCall(c)
  <2>1. PICK held \in BOOLEAN :
          calls' = [calls EXCEPT ![c] = [IdleCall EXCEPT !.at = "lookup", !.held = held]]
    BY <1>2 DEF ToolCall
  <2>2. [IdleCall EXCEPT !.at = "lookup", !.held = held] \in ACall  BY DEF IdleCall, ACall
  <2> QED  BY <1>2, <2>1, <2>2 DEF ToolCall, QuestionsInv
<1>3. CASE LookUp(c)
  <2>1. CASE calls' = [calls EXCEPT ![c].at = "clear", ![c].shows = known]
    <3>1. [calls[c] EXCEPT !.at = "clear", !.shows = known] \in ACall
      BY <1>1 DEF ACall, QuestionsInv
    <3>2. calls' = [calls EXCEPT ![c] = [calls[c] EXCEPT !.at = "clear", !.shows = known]]
      BY <2>1 DEF QuestionsInv
    <3> QED  BY <1>3, <3>1, <3>2 DEF LookUp, QuestionsInv
  <2>2. CASE Asks(c, "text", known)
    BY <1>3, <2>2, AsksType DEF LookUp, QuestionsInv
  <2> QED  BY <1>3, <2>1, <2>2 DEF LookUp
<1>4. CASE AskInClear(c)
  <2>1. CASE Asks(c, "values", calls[c].shows)
    <3>1. calls[c].shows \in SUBSET Names  BY <1>1 DEF ACall
    <3> QED  BY <1>4, <2>1, <3>1, AsksType DEF AskInClear, QuestionsInv
  <2>2. CASE calls' = [calls EXCEPT ![c] = AtRun(c, {})]
    <3>1. AtRun(c, {}) \in ACall  BY AtRunType
    <3> QED  BY <1>4, <2>2, <3>1 DEF AskInClear, QuestionsInv
  <2> QED  BY <1>4, <2>1, <2>2 DEF AskInClear
<1>5. CASE MaskResult(c)
  <2>1. CASE calls' = [calls EXCEPT ![c] = IdleCall] /\ UNCHANGED <<known, line>>
    <3>1. IdleCall \in ACall  BY DEF IdleCall, ACall
    <3> QED  BY <1>5, <2>1, <3>1 DEF MaskResult, QuestionsInv
  <2>2. CASE known' = Names /\ Asks(c, "keys", {})
    BY <1>5, <2>2, AsksType DEF MaskResult, QuestionsInv
  <2> QED  BY <1>5, <2>1, <2>2 DEF MaskResult
<1>6. CASE ResultSent(c)
  BY <1>6, DeniedType DEF ResultSent, Denied, QuestionsInv
<1> QED  BY <1>2, <1>3, <1>4, <1>5, <1>6 DEF ToolGoesOn

LEMMA QuestionsStep ==
  ASSUME QuestionsInv, [NextQuestions]_questionvars
  PROVE  QuestionsInv' /\ Word
<1>1. ASSUME NEW c \in Calls, ToolCall(c) \/ ToolGoesOn(c)
      PROVE  QuestionsInv' /\ Word
  <2>1. UNCHANGED <<allowAll, staleAsText, paused, said>>
    BY <1>1 DEF ToolCall, ToolGoesOn, LookUp, AskInClear, MaskResult, ResultSent, ofCall, ofPause
  <2>2. QuestionsInv'  BY <1>1, <2>1, CallsAsk DEF QuestionsInv
  <2>3. Word
    <3> SUFFICES ASSUME NEW d \in Calls, calls'[d] # calls[d]
                 PROVE  calls[d].at \notin {"values", "keys", "text"}
      BY <2>1 DEF Word, QuestionsInv
    <3> QED  BY <1>1, CallsAsk
  <2> QED  BY <2>2, <2>3
<1>2. CASE Put
  <2>1. CASE (AboutText /\ staleAsText) \/ (~AboutText /\ allowAll)
    <3>1. GoesOn(First) /\ UNCHANGED <<allowAll, staleAsText, known, said, paused>>
      BY <1>2, <2>1 DEF Put, ofPause
    <3>2. QuestionsInv'  BY <3>1, GoesOnType DEF QuestionsInv
    <3>3. (AboutText /\ "text" \in said) \/ (~AboutText /\ "clear" \in said)
      BY <2>1 DEF QuestionsInv
    <3>4. ASSUME NEW c \in Calls
          PROVE  /\ calls[c].at = "values" /\ calls'[c].at = "run" =>
                      OnTheirWord("clear") /\ calls'[c].out = calls[c].shows
                 /\ calls[c].at = "keys" /\ calls'[c].at = "sent" => OnTheirWord("clear")
                 /\ calls[c].at = "text" /\ calls'[c].at = "clear" => OnTheirWord("text")
      <4>1. CASE c = First
        BY <3>1, <3>3, <4>1, GoesOnType DEF AboutText, OnTheirWord
      <4>2. CASE c # First
        <5>1. calls'[c] = calls[c]  BY <3>1, <4>2, GoesOnType
        <5> QED  BY <5>1
      <4> QED  BY <4>1, <4>2
    <3> QED  BY <3>1, <3>2, <3>4 DEF Word, QuestionsInv
  <2>2. CASE ~((AboutText /\ staleAsText) \/ (~AboutText /\ allowAll))
    BY <1>2, <2>2 DEF Put, Word, QuestionsInv, ofPause
  <2> QED  BY <2>1, <2>2
<1>3. CASE Refuse
  <2>1. Denied(First) /\ UNCHANGED <<allowAll, staleAsText, known, said, paused>>
    BY <1>3 DEF Refuse, ofPause
  <2>2. QuestionsInv'  BY <2>1, DeniedType DEF QuestionsInv
  <2> QED  BY <2>1, <2>2, DeniedType DEF Word, QuestionsInv
<1>4. CASE Allow
  <2>1. UNCHANGED <<known, session, paused>>  BY <1>4 DEF Allow, ofPause
  <2>2. IF put = session THEN GoesOn(First) ELSE Denied(First)
    BY <1>4 DEF Allow, Counts
  <2>3. calls' \in [Calls -> ACall]  BY <2>2, GoesOnType, DeniedType
  <2>4. /\ said \subseteq said'
        /\ allowAll' => "clear" \in said'
        /\ staleAsText' => "text" \in said'
    BY <1>4 DEF Allow, Counts, QuestionsInv
  <2>5. QuestionsInv'  BY <2>1, <2>3, <2>4 DEF QuestionsInv
  <2>6. ASSUME NEW c \in Calls
        PROVE  /\ calls[c].at = "values" /\ calls'[c].at = "run" =>
                    OnTheirWord("clear") /\ calls'[c].out = calls[c].shows
               /\ calls[c].at = "keys" /\ calls'[c].at = "sent" => OnTheirWord("clear")
               /\ calls[c].at = "text" /\ calls'[c].at = "clear" => OnTheirWord("text")
    <3>1. CASE put = session
      <4>1. GoesOn(First)  BY <2>2, <3>1
      <4>2. CASE c = First
        BY <3>1, <4>1, <4>2, GoesOnType DEF OnTheirWord
      <4>3. CASE c # First
        BY <4>1, <4>3, GoesOnType
      <4> QED  BY <4>2, <4>3
    <3>2. CASE put # session
      BY <2>2, <3>2, DeniedType
    <3> QED  BY <3>1, <3>2
  <2> QED  BY <2>1, <2>4, <2>5, <2>6 DEF Word, QuestionsInv
<1>5. CASE NextSession
  BY <1>5 DEF NextSession, QuestionsInv, Word
<1>6. CASE SidecarDoes
  BY <1>6 DEF SidecarDoes, Mints, Loses, QuestionsInv, Word, ofPause
<1>7. CASE AskPause
  BY <1>7 DEF AskPause, QuestionsInv, Word
<1>8. CASE AnswerPause
  <2>1. PICK agrees \in BOOLEAN :
          /\ paused' = (paused \/ (agrees /\ pausing = session))
          /\ said' = said \cup (IF agrees /\ pausing = session THEN {"pause"} ELSE {})
    BY <1>8 DEF AnswerPause
  <2>2. calls' = calls /\ known' = known /\ allowAll' = allowAll /\ staleAsText' = staleAsText
    BY <1>8 DEF AnswerPause
  <2>3. said \subseteq said'  BY <2>1
  <2>4. paused' => "pause" \in said'
    <3>1. CASE agrees /\ pausing = session
      BY <2>1, <3>1
    <3>2. CASE ~(agrees /\ pausing = session)
      BY <2>1, <2>3, <3>2 DEF QuestionsInv
    <3> QED  BY <3>1, <3>2
  <2>5. QuestionsInv'  BY <2>2, <2>3, <2>4 DEF QuestionsInv
  <2>6. Word  BY <2>2, <2>4 DEF Word
  <2> QED  BY <2>5, <2>6
<1>9. CASE Resume
  BY <1>9 DEF Resume, QuestionsInv, Word
<1>10. CASE UNCHANGED questionvars
  BY <1>10 DEF questionvars, QuestionsInv, Word
<1> QED
  BY <1>1, <1>2, <1>3, <1>4, <1>5, <1>6, <1>7, <1>8, <1>9, <1>10
  DEF NextQuestions, QuestionGoesOn

(* Real values leave, and placeholders are written as text, on the         *)
(* person's word alone, and the pause stands on it: no answer that comes   *)
(* after its session counts, no Allow all outlives its session             *)
(* (allowedInClear, allowedAsText, pauseMasking).                          *)
THEOREM LeavesOnTheirWord == SpecQuestions => ReleasedOnTheirWord
<1>1. InitQuestions => QuestionsInv  BY QuestionsStart
<1>2. QuestionsInv /\ [NextQuestions]_questionvars => QuestionsInv'  BY QuestionsStep
<1>3. QuestionsInv /\ [NextQuestions]_questionvars => [Word]_questionvars  BY QuestionsStep
<1> QED  BY <1>1, <1>2, <1>3, PTL DEF SpecQuestions, ReleasedOnTheirWord, Word

(* ---------- What is sent unprotected ---------- *)

AMod == [gen : Nat, startPass : BOOLEAN, restartable : BOOLEAN,
         problem : {"other", "starting", "none"},
         started : {"none", "running", "opening", "exited"}, phase : BOOLEAN,
         mid : BOOLEAN, startCount : 0 .. MaxStarts, replaced : BOOLEAN]
AWait == [at : {"none", "poll", "open", "got"},
          kind : {"none", "first", "again", "replacing"}, held : BOOLEAN,
          again : BOOLEAN, phase : BOOLEAN,
          res : {"none", "ok", "refused", "unreachable", "closing"}]
\* What a call brings along: nothing, an outcome, or the start it was asked in.
Withs == {"none", "ok", "refused", "unreachable", "closing"} \cup (Nat \X Nat)
APlace == [at : {"idle", "post", "open", "got", "restarting", "held", "asked", "run"},
           for : {"none", "mask", "restore", "entry"}, again : BOOLEAN,
           reopened : BOOLEAN, with : Withs]

StartType ==
  /\ mod \in AMod
  /\ waiter \in [Starts -> AWait]
  /\ call \in [Slots -> APlace]

\* A start of this window, this one or an earlier one.
Of(m, start) == \E g \in 0 .. m.gen, n \in 0 .. m.startCount : start = <<g, n>>

(* A start under way is the last one begun, and "mid" tells that it is one *)
(* after a loss: then nothing passes, and no dialog of this start is open. *)
Started == mod.started # "none" => mod.startCount > 0
MidTells ==
  mod.started # "none" => (waiter[mod.startCount].kind = "again" => mod.mid)
MidHolds == mod.mid => ~mod.startPass
PassChosen == mod.startPass => chosen \/ option.starting = "pass"
AskedHere ==
  \A c \in Slots : call[c].at = "asked" =>
    /\ Of(mod, call[c].with)
    /\ call[c].with = <<mod.gen, mod.startCount>> => ~mod.mid

StartInv ==
  /\ StartType
  /\ Started /\ MidTells /\ MidHolds /\ PassChosen /\ AskedHere
  /\ OnlyOnTheirWord

LEMMA StartStarts == InitStart => StartInv
<1> SUFFICES ASSUME InitStart PROVE StartInv  OBVIOUS
<1>1. mod \in AMod /\ mod.started = "none" /\ ~mod.mid /\ ~mod.startPass
  BY ModStartAssumption DEF InitStart, Fresh, AMod
<1>2. waiter \in [Starts -> AWait]  BY DEF InitStart, Gone, Waiting, AWait
<1>3. "none" \in Withs  BY DEF Withs
<1>4. Idle \in APlace /\ Idle.at = "idle"  BY <1>3 DEF Idle, Place, APlace
<1>5. call \in [Slots -> APlace] /\ \A c \in Slots : call[c].at = "idle"
  BY <1>4 DEF InitStart
<1>6. ~out.any  BY DEF InitStart, Silent
<1> QED
  BY <1>1, <1>2, <1>5, <1>6
  DEF StartInv, StartType, Started, MidTells, MidHolds, PassChosen, AskedHere, OnlyOnTheirWord

(* ---------- What a step may leave ---------- *)

\* The mod's variables: no start begins, none passes that did not.
Calm ==
  /\ mod' \in AMod /\ mod'.gen = mod.gen /\ mod'.startCount = mod.startCount
  /\ mod'.startPass => mod.startPass
  /\ mod'.mid => mod.mid
  /\ mod'.started # "none" => mod.started # "none" /\ (mod.mid => mod'.mid)
KindsKept ==
  /\ waiter' \in [Starts -> AWait]
  /\ \A n \in Starts : waiter'[n].kind = waiter[n].kind
AsksNow(p) == p.at = "asked" => p.with = <<mod.gen, mod.startCount>> /\ ~mod.mid
CallsKept ==
  /\ call' \in [Slots -> APlace]
  /\ \A c \in Slots : call'[c] = call[c] \/ AsksNow(call'[c])

LEMMA CalmKeeps ==
  ASSUME StartInv, Calm, KindsKept, CallsKept, option' = option, chosen => chosen',
         OnlyOnTheirWord'
  PROVE  StartInv'
<1>1. mod \in AMod /\ mod' \in AMod /\ mod'.gen = mod.gen /\ mod'.startCount = mod.startCount
  BY DEF StartInv, StartType, Calm
<1>2. StartType'  BY DEF StartType, Calm, KindsKept, CallsKept
<1>3. Started'  BY <1>1 DEF StartInv, Started, Calm
<1>4. MidTells'
  <2> SUFFICES ASSUME mod'.started # "none", waiter'[mod'.startCount].kind = "again"
               PROVE  mod'.mid
    BY DEF MidTells
  <2>1. mod.started # "none" /\ (mod.mid => mod'.mid)  BY DEF Calm
  <2>2. mod.startCount \in 0 .. MaxStarts  BY <1>1 DEF AMod
  <2>3. mod.startCount > 0  BY <2>1 DEF StartInv, Started
  <2>4. mod.startCount \in Starts  BY <2>2, <2>3, ModStartAssumption DEF Starts
  <2>5. waiter'[mod'.startCount].kind = waiter[mod.startCount].kind
    BY <1>1, <2>4 DEF KindsKept
  <2> QED  BY <2>1, <2>5 DEF StartInv, MidTells
<1>5. MidHolds'  BY DEF StartInv, MidHolds, Calm
<1>6. PassChosen'  BY DEF StartInv, PassChosen, Calm
<1>7. AskedHere'
  <2> SUFFICES ASSUME NEW c \in Slots, call'[c].at = "asked"
               PROVE  /\ Of(mod', call'[c].with)
                      /\ call'[c].with = <<mod'.gen, mod'.startCount>> => ~mod'.mid
    BY DEF AskedHere, Of
  <2>1. CASE call'[c] = call[c]
    BY <1>1, <2>1 DEF StartInv, AskedHere, Of, Calm
  <2>2. CASE AsksNow(call'[c])
    <3>1. call'[c].with = <<mod.gen, mod.startCount>> /\ ~mod.mid
      BY <2>2 DEF AsksNow
    <3>2. mod.gen \in 0 .. mod'.gen /\ mod.startCount \in 0 .. mod'.startCount
      BY <1>1, ModStartAssumption DEF AMod
    <3>3. Of(mod', call'[c].with)  BY <3>1, <3>2 DEF Of
    <3> QED  BY <3>1, <3>3 DEF Calm
  <2> QED  BY <2>1, <2>2 DEF CallsKept
<1> QED  BY <1>2, <1>3, <1>4, <1>5, <1>6, <1>7 DEF StartInv

LEMMA SilentKeeps == ASSUME out' = Silent PROVE OnlyOnTheirWord'
BY DEF Silent, OnlyOnTheirWord

LEMMA CalmMods ==
  ASSUME StartInv
  PROVE  /\ mod' = mod => Calm
         /\ \A why : mod' = Blocked(mod, why) => Calm
         /\ mod' = Ended(mod) => Calm
         /\ mod' = GaveUp(mod) => Calm
         /\ mod' = Up(mod) => Calm
         /\ \A why : mod' = Blocked(Ended(mod), why) => Calm
<1> USE DEF StartInv, StartType
<1>1. ASSUME mod' = mod PROVE Calm
  BY <1>1 DEF Calm
<1>2. ASSUME NEW why, mod' = Blocked(mod, why) PROVE Calm
  <2>1. PICK p \in {"starting", "other"} : mod' = [mod EXCEPT !.problem = p]
    BY <1>2 DEF Blocked
  <2> QED  BY <2>1 DEF Calm, AMod
<1>3. Ended(mod) \in AMod  BY DEF Ended, AMod
<1>4. /\ Ended(mod).gen = mod.gen /\ Ended(mod).startCount = mod.startCount
      /\ Ended(mod).startPass = mod.startPass /\ Ended(mod).mid = FALSE
      /\ Ended(mod).started = "none"
  BY DEF Ended, AMod
<1>5. ASSUME mod' = Ended(mod) PROVE Calm
  BY <1>3, <1>4, <1>5 DEF Calm
<1>6. ASSUME NEW p \in {"starting", "other"}, mod' = [Ended(mod) EXCEPT !.problem = p]
      PROVE  Calm
  <2> DEFINE e == Ended(mod)
  <2>1. e \in AMod /\ mod' = [e EXCEPT !.problem = p]  BY <1>3, <1>6
  <2>2. /\ e.gen = mod.gen /\ e.startCount = mod.startCount /\ e.startPass = mod.startPass
        /\ e.mid = FALSE /\ e.started = "none"
    BY <1>4
  <2> HIDE DEF e
  <2>3. mod' \in AMod  BY <2>1 DEF AMod
  <2>4. /\ mod'.gen = e.gen /\ mod'.startCount = e.startCount /\ mod'.startPass = e.startPass
        /\ mod'.mid = e.mid /\ mod'.started = e.started
    BY <2>1 DEF AMod
  <2> QED  BY <2>2, <2>3, <2>4 DEF Calm
<1>7. ASSUME mod' = Up(mod) PROVE Calm
  <2> DEFINE e == Ended(mod)
  <2>1. e \in AMod /\ mod' = [e EXCEPT !.problem = "none", !.startPass = FALSE]
    BY <1>3, <1>7 DEF Up
  <2>2. /\ e.gen = mod.gen /\ e.startCount = mod.startCount
        /\ e.mid = FALSE /\ e.started = "none"
    BY <1>4
  <2> HIDE DEF e
  <2>3. mod' \in AMod  BY <2>1 DEF AMod
  <2>4. /\ mod'.gen = e.gen /\ mod'.startCount = e.startCount /\ mod'.startPass = FALSE
        /\ mod'.mid = e.mid /\ mod'.started = e.started
    BY <2>1 DEF AMod
  <2> QED  BY <2>2, <2>3, <2>4 DEF Calm
<1>8. ASSUME mod' = GaveUp(mod) PROVE Calm
  BY <1>6, <1>8 DEF GaveUp
<1>9. ASSUME NEW why, mod' = Blocked(Ended(mod), why) PROVE Calm
  <2>1. PICK p \in {"starting", "other"} : mod' = [Ended(mod) EXCEPT !.problem = p]
    BY <1>9 DEF Blocked
  <2> QED  BY <1>6, <2>1
<1> QED  BY <1>1, <1>2, <1>5, <1>7, <1>8, <1>9

(* ---------- A start begins ---------- *)

CallsBegun ==
  /\ call' \in [Slots -> APlace]
  /\ \A c \in Slots : call'[c] = call[c] \/ call'[c].at # "asked"

LEMMA BeginKeeps ==
  ASSUME StartInv, NEW kind \in {"first", "again", "replacing"}, NEW closing \in BOOLEAN,
         BeginStart(kind, closing), CallsBegun, option' = option, chosen' = chosen,
         out' = Silent
  PROVE  StartInv'
<1>1. /\ mod \in AMod /\ mod.startCount < MaxStarts
      /\ mod' = Begun(mod, kind = "again")
      /\ waiter' = [waiter EXCEPT ![mod.startCount + 1] =
                      Waiting("poll", kind, closing, FALSE, FALSE)]
  BY DEF BeginStart, StartInv, StartType
<1>2. mod.startCount \in 0 .. MaxStarts /\ mod.gen \in Nat  BY <1>1 DEF AMod
<1>3. mod.startCount + 1 \in Starts /\ mod.startCount + 1 \in 0 .. MaxStarts
  BY <1>1, <1>2, ModStartAssumption DEF Starts
<1>4. mod' \in AMod  BY <1>1, <1>3 DEF Begun, AMod
<1>5. /\ mod'.gen = mod.gen /\ mod'.startCount = mod.startCount + 1
      /\ mod'.started = "running"
      /\ mod'.mid <=> mod.mid \/ kind = "again"
      /\ mod'.startPass <=> mod.startPass /\ ~(kind = "again")
  BY <1>1 DEF Begun, AMod
<1>6. Waiting("poll", kind, closing, FALSE, FALSE) \in AWait
      /\ Waiting("poll", kind, closing, FALSE, FALSE).kind = kind
  BY DEF Waiting, AWait
<1>7. waiter' \in [Starts -> AWait] /\ waiter'[mod'.startCount].kind = kind
  BY <1>1, <1>3, <1>5, <1>6 DEF StartInv, StartType
<1>8. StartType'  BY <1>4, <1>7 DEF StartType, CallsBegun
<1>9. Started'  BY <1>2, <1>5 DEF Started
<1>10. MidTells'  BY <1>5, <1>7 DEF MidTells
<1>11. MidHolds'  BY <1>5 DEF MidHolds, StartInv
<1>12. PassChosen'  BY <1>5 DEF PassChosen, StartInv
<1>13. AskedHere'
  <2> SUFFICES ASSUME NEW c \in Slots, call'[c].at = "asked"
               PROVE  /\ Of(mod', call'[c].with)
                      /\ call'[c].with # <<mod'.gen, mod'.startCount>>
    BY DEF AskedHere
  <2>1. call'[c] = call[c]  BY DEF CallsBegun
  <2>2. PICK g \in 0 .. mod.gen, n \in 0 .. mod.startCount : call[c].with = <<g, n>>
    BY <2>1 DEF StartInv, AskedHere, Of
  <2>3. g \in 0 .. mod'.gen /\ n \in 0 .. mod'.startCount /\ n # mod'.startCount
    BY <1>2, <1>5
  <2> QED  BY <2>1, <2>2, <2>3 DEF Of
<1> QED
  BY <1>8, <1>9, <1>10, <1>11, <1>12, <1>13, SilentKeeps DEF StartInv

(* ---------- The calls ---------- *)

\* A call goes on and nothing is sent unprotected.
Quietly ==
  Calm /\ CallsKept /\ waiter' = waiter /\ chosen' = chosen /\ out' = Silent
\* Or a lost sidecar is started again.
Restarts ==
  /\ \E closing \in BOOLEAN : BeginStart("again", closing)
  /\ CallsBegun /\ chosen' = chosen /\ out' = Silent

LEMMA SameKinds == ASSUME StartInv, waiter' = waiter PROVE KindsKept
BY DEF StartInv, StartType, KindsKept

LEMMA QuietlyKeeps ==
  ASSUME StartInv, Quietly \/ Restarts, option' = option
  PROVE  StartInv'
<1>1. CASE Quietly
  BY <1>1, CalmKeeps, SilentKeeps, SameKinds DEF Quietly
<1>2. CASE Restarts
  BY <1>2, BeginKeeps DEF Restarts
<1> QED  BY <1>1, <1>2

LEMMA PlaceType ==
  ASSUME NEW at \in {"idle", "post", "open", "got", "restarting", "held", "asked", "run"},
         NEW for \in {"none", "mask", "restore", "entry"}, NEW again \in BOOLEAN,
         NEW reopened \in BOOLEAN, NEW with \in Withs
  PROVE  /\ Place(at, for, again, reopened, with) \in APlace
         /\ Place(at, for, again, reopened, with).at = at
         /\ Place(at, for, again, reopened, with).with = with
BY DEF Place, APlace

LEMMA NoneInWiths == "none" \in Withs
BY DEF Withs

LEMMA IdleType == Idle \in APlace /\ Idle.at = "idle"
BY NoneInWiths DEF Idle, Place, APlace

LEMMA GoesKept ==
  ASSUME StartInv, NEW c \in Slots, NEW to \in APlace, Goes(c, to), AsksNow(to)
  PROVE  CallsKept
BY DEF StartInv, StartType, Goes, CallsKept

LEMMA MovesQuietly ==
  ASSUME StartInv, NEW c \in Slots, NEW to \in APlace, Moves(c, to), AsksNow(to)
  PROVE  Quietly
BY GoesKept, CalmMods DEF Moves, Quietly

LEMMA MovesOn ==
  ASSUME StartInv, NEW c \in Slots,
         NEW at \in {"idle", "post", "open", "restarting", "held", "run"},
         NEW for \in {"none", "mask", "restore", "entry"}, NEW again \in BOOLEAN,
         NEW reopened \in BOOLEAN,
         Moves(c, Place(at, for, again, reopened, "none"))
           \/ Joins(c, Place(at, for, again, reopened, "none"))
  PROVE  Quietly
<1> DEFINE to == Place(at, for, again, reopened, "none")
<1>1. to \in APlace /\ to.at = at  BY PlaceType, NoneInWiths
<1>2. AsksNow(to)  BY <1>1 DEF AsksNow
<1>3. Moves(c, to) \/ Joins(c, to)  OBVIOUS
<1> HIDE DEF to
<1>4. Goes(c, to) /\ mod' = mod /\ waiter' = waiter /\ chosen' = chosen /\ out' = Silent
  BY <1>3 DEF Moves, Joins
<1> QED  BY <1>1, <1>2, <1>4, GoesKept, CalmMods DEF Quietly

LEMMA FailsQuietly ==
  ASSUME StartInv, NEW c \in Slots, NEW why, Fails(c, why)
  PROVE  Quietly
<1>1. Idle \in APlace /\ Idle.at = "idle"  BY IdleType
<1>2. AsksNow(Idle)  BY <1>1 DEF AsksNow
<1> QED  BY <1>1, <1>2, GoesKept, CalmMods DEF Fails, Quietly

LEMMA SanitizeQuietly ==
  ASSUME StartInv, NEW c \in Slots, Sanitize(c) \/ Masks(c)
  PROVE  Quietly
<1>1. CASE Masks(c)
  <2>1. Fails(c, "starting") \/ Moves(c, Place("post", "mask", FALSE, FALSE, "none"))
    BY <1>1 DEF Masks, Request
  <2> QED  BY <2>1, FailsQuietly, MovesOn
<1>2. CASE Moves(c, Place("restarting", "mask", FALSE, FALSE, "none"))
  BY <1>2, MovesOn
<1> QED  BY <1>1, <1>2 DEF Sanitize

LEMMA ToolQuietly ==
  ASSUME StartInv, NEW c \in Slots, ToolEnters(c) \/ ToolGoes(c)
  PROVE  Quietly
<1>1. CASE ToolGoes(c)
  BY <1>1, MovesOn DEF ToolGoes, Request
<1>2. CASE Moves(c, Idle)
  BY <1>2, MovesOn DEF Idle
<1>3. CASE Joins(c, Place("open", "entry", FALSE, FALSE, "none"))
  BY <1>3, MovesOn
<1> QED  BY <1>1, <1>2, <1>3 DEF ToolEnters

LEMMA ErrsQuietly ==
  ASSUME StartInv, NEW c \in Slots, NEW why, Errs(c, why)
  PROVE  Quietly \/ Restarts
<1> DEFINE for == call[c].for
           waits == Place("restarting", for, TRUE, FALSE, "none")
<1>1. for \in {"none", "mask", "restore", "entry"}  BY DEF StartInv, StartType, APlace
<1>2. \/ BeginStart("again", why = "closing") /\ Goes(c, waits) /\ out' = Silent
           /\ chosen' = chosen
      \/ Moves(c, waits)
      \/ Fails(c, why)
  BY DEF Errs
<1> HIDE DEF for
<1>3. CASE BeginStart("again", why = "closing") /\ Goes(c, waits) /\ out' = Silent
           /\ chosen' = chosen
  <2>1. waits \in APlace /\ waits.at = "restarting"
    BY <1>1, NoneInWiths DEF Place, APlace
  <2> HIDE DEF waits
  <2>2. CallsBegun  BY <1>3, <2>1 DEF Goes, CallsBegun, StartInv, StartType
  <2>3. (why = "closing") \in BOOLEAN  OBVIOUS
  <2> QED  BY <1>3, <2>2, <2>3 DEF Restarts
<1>4. CASE Moves(c, waits)
  BY <1>1, <1>4, MovesOn
<1>5. CASE Fails(c, why)
  BY <1>5, FailsQuietly
<1> QED  BY <1>2, <1>3, <1>4, <1>5

(* ---------- What goes out unprotected ---------- *)

\* In a start that is no restart, on the person's word.
Unprotected ==
  /\ out'.any /\ out'.start = mod.startCount
  /\ mod.started # "none" /\ ~mod.mid
  /\ out'.asked \/ chosen' \/ option.starting = "pass"

LEMMA UnprotectedKeeps ==
  ASSUME StartInv, Unprotected, waiter' = waiter, option' = option
  PROVE  OnlyOnTheirWord'
<1>1. mod.startCount > 0 /\ waiter[mod.startCount].kind # "again"
  BY DEF StartInv, Started, MidTells, Unprotected
<1> QED  BY <1>1 DEF Unprotected, OnlyOnTheirWord

LEMMA PlainKeeps ==
  ASSUME StartInv, NEW c \in Slots, NEW asked \in BOOLEAN, Plain(c, asked),
         mod.started # "none", ~mod.mid,
         asked \/ chosen \/ option.starting = "pass", option' = option
  PROVE  StartInv'
<1>1. out' = [start |-> mod.startCount, asked |-> asked, any |-> TRUE]
      /\ UNCHANGED <<mod, waiter, chosen>> /\ Goes(c, Idle)
  BY DEF Plain
<1>2. Idle \in APlace /\ AsksNow(Idle)
  <2>1. Idle \in APlace /\ Idle.at = "idle"  BY IdleType
  <2> QED  BY <2>1 DEF AsksNow
<1>3. Unprotected  BY <1>1 DEF Unprotected
<1> QED
  BY <1>1, <1>2, <1>3, UnprotectedKeeps, CalmKeeps, CalmMods, SameKinds, GoesKept

LEMMA BypassKeeps ==
  ASSUME StartInv, NEW c \in Slots, Bypassing, Plain(c, FALSE), option' = option
  PROVE  StartInv'
BY PlainKeeps DEF Bypassing, Starting, StartInv, MidHolds, PassChosen

\* The rest of a start is let pass.
LEMMA PassKeeps ==
  ASSUME StartInv, NEW c \in Slots, Goes(c, Idle), mod' = [mod EXCEPT !.startPass = TRUE],
         waiter' = waiter, Unprotected, ~mod.mid, chosen => chosen',
         chosen' \/ option.starting = "pass", option' = option
  PROVE  StartInv'
<1>1. mod \in AMod /\ mod' \in AMod
  <2>1. mod \in AMod  BY DEF StartInv, StartType
  <2> QED  BY <2>1 DEF AMod
<1>2. /\ mod'.gen = mod.gen /\ mod'.startCount = mod.startCount /\ mod'.mid = mod.mid
      /\ mod'.started = mod.started
  BY <1>1 DEF AMod
<1>3. Idle \in APlace /\ Idle.at = "idle"  BY IdleType
<1>4. call' \in [Slots -> APlace]
      /\ \A d \in Slots : call'[d] = call[d] \/ call'[d].at = "idle"
  BY <1>3 DEF Goes, StartInv, StartType
<1>5. StartType'  BY <1>1, <1>4 DEF StartType, StartInv
<1>6. Started' /\ MidTells'  BY <1>2 DEF StartInv, Started, MidTells
<1>7. MidHolds'  BY <1>2 DEF MidHolds
<1>8. PassChosen'  BY DEF PassChosen
<1>9. AskedHere'
  BY <1>2, <1>4 DEF StartInv, AskedHere, Of
<1> QED  BY <1>5, <1>6, <1>7, <1>8, <1>9, UnprotectedKeeps DEF StartInv

(* ---------- The steps ---------- *)

LEMMA OpeningKeeps ==
  ASSUME StartInv, NEW m, NEW res \in {"ok", "refused", "unreachable", "closing"},
         OpeningEnds(m, res), Calm, chosen' = chosen, option' = option, out' = Silent
  PROVE  StartInv'
<1>1. KindsKept
  <2>1. waiter' = [n \in Starts |-> IF waiter[n].at = "open"
                                    THEN [waiter[n] EXCEPT !.at = "got", !.res = res]
                                    ELSE waiter[n]]
    BY DEF OpeningEnds
  <2>2. ASSUME NEW n \in Starts
        PROVE  waiter'[n] \in AWait /\ waiter'[n].kind = waiter[n].kind
    <3>1. waiter[n] \in AWait  BY DEF StartInv, StartType
    <3>2. [waiter[n] EXCEPT !.at = "got", !.res = res] \in AWait
          /\ [waiter[n] EXCEPT !.at = "got", !.res = res].kind = waiter[n].kind
      BY <3>1 DEF AWait
    <3> QED  BY <2>1, <3>1, <3>2
  <2> QED  BY <2>1, <2>2 DEF KindsKept
<1>2. CallsKept
  <2>1. call' = [c \in Slots |-> IF call[c].at = "open"
                                 THEN [call[c] EXCEPT !.at = "got", !.with = res]
                                 ELSE call[c]]
    BY DEF OpeningEnds
  <2>2. res \in Withs  BY DEF Withs
  <2>3. ASSUME NEW c \in Slots
        PROVE  call'[c] \in APlace /\ (call'[c] = call[c] \/ AsksNow(call'[c]))
    <3>1. call[c] \in APlace  BY DEF StartInv, StartType
    <3>2. [call[c] EXCEPT !.at = "got", !.with = res] \in APlace
          /\ [call[c] EXCEPT !.at = "got", !.with = res].at = "got"
      BY <2>2, <3>1 DEF APlace
    <3> QED  BY <2>1, <3>1, <3>2 DEF AsksNow
  <2> QED  BY <2>1, <2>3 DEF CallsKept
<1> QED  BY <1>1, <1>2, CalmKeeps, SilentKeeps

\* The session, its review, and the calls they let go on.
LEMMA OpeningStep ==
  ASSUME StartInv, PutSession \/ ReviewPolicy
  PROVE  StartInv'
<1>1. option' = option /\ chosen' = chosen /\ out' = Silent
  BY DEF PutSession, ReviewPolicy
<1>2. mod \in AMod  BY DEF StartInv, StartType
<1>3. ASSUME mod' = [mod EXCEPT !.restartable = TRUE] PROVE Calm
  BY <1>2, <1>3 DEF Calm, AMod
<1>4. ASSUME mod' = [mod EXCEPT !.problem = "none"] PROVE Calm
  BY <1>2, <1>4 DEF Calm, AMod
<1>5. CASE PutSession
  <2>1. CASE side.at = "up"
    <3>1. mod' = [mod EXCEPT !.restartable = TRUE] /\ call' = call /\ waiter' = waiter
      BY <1>5, <2>1 DEF PutSession
    <3>2. CallsKept  BY <3>1 DEF CallsKept, StartInv, StartType
    <3> QED  BY <1>1, <1>3, <3>1, <3>2, CalmKeeps, SilentKeeps, SameKinds
  <2>2. CASE side.at # "up"
    <3>1. \/ OpeningEnds(mod, "unreachable") \/ OpeningEnds(mod, "closing")
      BY <1>5, <2>2 DEF PutSession
    <3>2. Calm  BY <3>1, CalmMods DEF OpeningEnds
    <3> QED  BY <1>1, <3>1, <3>2, OpeningKeeps
  <2> QED  BY <2>1, <2>2
<1>6. CASE ReviewPolicy
  <2>1. \/ OpeningEnds([mod EXCEPT !.problem = "none"], "ok")
        \/ OpeningEnds(mod, "refused") \/ OpeningEnds(mod, "unreachable")
    BY <1>6 DEF ReviewPolicy
  <2>2. Calm  BY <1>4, <2>1, CalmMods DEF OpeningEnds
  <2> QED  BY <1>1, <2>1, <2>2, OpeningKeeps
<1> QED  BY <1>5, <1>6

\* The dialog of a start: its answer speaks for that start alone.
LEMMA AnswerStartingKeeps ==
  ASSUME StartInv, NEW c \in Slots, AnswerStarting(c), option' = option
  PROVE  StartInv'
<1>1. CASE Moves(c, Place("held", "mask", FALSE, FALSE, "none"))
  BY <1>1, MovesOn, QuietlyKeeps
<1>2. CASE Sanitize(c)
  BY <1>2, SanitizeQuietly, QuietlyKeeps
<1>3. CASE SpeaksForThis(call[c].with) /\ call[c].at = "asked"
  <2>1. mod.started # "none" /\ ~mod.mid /\ call[c].with = <<mod.gen, mod.startCount>>
    BY <1>3 DEF SpeaksForThis, Starting, StartInv, AskedHere
  <2>2. CASE Plain(c, call[c].with = <<mod.gen, mod.startCount>>)
    <3> DEFINE asked == (call[c].with = <<mod.gen, mod.startCount>>)
    <3>1. Plain(c, asked) /\ asked \in BOOLEAN /\ asked  BY <2>1, <2>2
    <3> HIDE DEF asked
    <3> QED  BY <2>1, <3>1, PlainKeeps
  <2>3. CASE /\ Goes(c, Idle) /\ mod' = [mod EXCEPT !.startPass = TRUE] /\ chosen' = TRUE
             /\ out' = [start |-> mod.startCount, asked |-> TRUE, any |-> TRUE]
             /\ waiter' = waiter
    <3>1. Unprotected  BY <2>1, <2>3 DEF Unprotected
    <3>2. chosen'  BY <2>3
    <3> QED  BY <2>1, <2>3, <3>1, <3>2, PassKeeps
  <2>4. CASE Moves(c, Place("held", "mask", FALSE, FALSE, "none")) \/ Sanitize(c)
    BY <1>1, <1>2, <2>4
  <2> QED  BY <1>3, <2>2, <2>3, <2>4 DEF AnswerStarting
<1> QED  BY <1>1, <1>2, <1>3 DEF AnswerStarting

LEMMA TypedKeeps ==
  ASSUME StartInv, NEW c \in Slots, Starting, TypedWhileStarting(c), option' = option
  PROVE  StartInv'
<1>1. CASE Waits
  BY <1>1, MovesOn, QuietlyKeeps DEF TypedWhileStarting
<1>2. CASE ~Waits /\ option.starting = "pass"
  <2>1. /\ Goes(c, Idle) /\ mod' = [mod EXCEPT !.startPass = TRUE]
        /\ out' = [start |-> mod.startCount, asked |-> FALSE, any |-> TRUE]
        /\ waiter' = waiter /\ chosen' = chosen
    BY <1>2 DEF TypedWhileStarting
  <2>2. mod.started # "none" /\ ~mod.mid  BY <1>2 DEF Starting, Waits
  <2>3. Unprotected  BY <1>2, <2>1, <2>2 DEF Unprotected
  <2> QED  BY <1>2, <2>1, <2>2, <2>3, PassKeeps
<1>3. CASE ~Waits /\ option.starting # "pass"
  <2> DEFINE to == Place("asked", "mask", FALSE, FALSE, <<mod.gen, mod.startCount>>)
  <2>1. Moves(c, to)  BY <1>3 DEF TypedWhileStarting
  <2>2. mod.gen \in Nat /\ mod.startCount \in Nat
    BY ModStartAssumption DEF StartInv, StartType, AMod
  <2>3. <<mod.gen, mod.startCount>> \in Withs  BY <2>2 DEF Withs
  <2>4. to \in APlace /\ to.with = <<mod.gen, mod.startCount>>  BY <2>3 DEF Place, APlace
  <2>5. AsksNow(to)  BY <1>3, <2>4 DEF AsksNow, Waits
  <2> HIDE DEF to
  <2> QED  BY <2>1, <2>4, <2>5, MovesQuietly, QuietlyKeeps
<1> QED  BY <1>1, <1>2, <1>3

LEMMA CallStep ==
  ASSUME StartInv, NEW c \in Slots, CallGoesOn(c) \/ CallOther(c) \/ CallWakes(c)
  PROVE  StartInv'
<1>0. option' = option
  BY DEF CallGoesOn, CallOther, CallWakes, ofCalls
<1>1. call[c].again \in BOOLEAN /\ call[c].for \in {"none", "mask", "restore", "entry"}
  BY DEF StartInv, StartType, APlace
<1>2. ASSUME Quietly \/ Restarts PROVE StartInv'
  BY <1>0, <1>2, QuietlyKeeps
<1>3. CASE Sanitize(c) \/ Masks(c)
  BY <1>2, <1>3, SanitizeQuietly
<1>4. CASE ToolEnters(c) \/ ToolGoes(c)
  BY <1>2, <1>4, ToolQuietly
<1>5. ASSUME NEW why, Fails(c, why) PROVE StartInv'
  BY <1>2, <1>5, FailsQuietly
<1>6. ASSUME NEW why, Errs(c, why) PROVE StartInv'
  BY <1>2, <1>6, ErrsQuietly
<1>7. CASE Bypassing /\ Plain(c, FALSE)
  BY <1>0, <1>7, BypassKeeps
<1>8. CASE Submit(c)
  BY <1>0, <1>3, <1>7, <1>8, TypedKeeps DEF Submit
<1>9. CASE CallTool(c)
  BY <1>2, <1>4, <1>9, MovesOn DEF CallTool
<1>10. CASE AnswerStarting(c)
  BY <1>0, <1>10, AnswerStartingKeeps
<1>11. CASE HoldEnds(c) \/ HoldTimesOut(c)
  BY <1>3, <1>11 DEF HoldEnds, HoldTimesOut
<1>12. CASE RestartTimesOut(c)
  BY <1>5, <1>12 DEF RestartTimesOut
<1>13. CASE RestartEnds(c)
  <2>1. CASE Moves(c, Request(call[c].for, TRUE, FALSE))
    BY <1>1, <1>2, <2>1, MovesOn DEF Request
  <2> QED  BY <1>3, <1>4, <1>5, <1>13, <2>1 DEF RestartEnds
<1>14. CASE Answered(c)
  <2>1. CASE Moves(c, IF call[c].for = "mask" THEN Idle
                     ELSE Place("run", "restore", FALSE, FALSE, "none"))
    BY <1>2, <2>1, MovesOn DEF Idle
  <2>2. CASE Joins(c, Place("open", "mask", call[c].again, TRUE, "none"))
    BY <1>1, <1>2, <2>2, MovesOn
  <2> QED  BY <1>6, <1>14, <2>1, <2>2 DEF Answered
<1>15. CASE ToolRan(c)
  BY <1>3, <1>7, <1>15 DEF ToolRan
<1>16. CASE GotSession(c)
  <2>1. CASE Moves(c, Request("mask", call[c].again, TRUE))
    BY <1>1, <1>2, <2>1, MovesOn DEF Request
  <2> QED  BY <1>4, <1>5, <1>6, <1>16, <2>1 DEF GotSession
<1> QED
  BY <1>8, <1>9, <1>10, <1>11, <1>12, <1>13, <1>14, <1>15, <1>16
  DEF CallGoesOn, CallOther, CallWakes

LEMMA CallsUnchanged == ASSUME StartInv, call' = call PROVE CallsKept
BY DEF StartInv, StartType, CallsKept

\* waitForSidecar: it goes on, or ends the start.
LEMMA WaiterStep ==
  ASSUME StartInv, NEW n \in Starts, Poll(n) \/ PollTimesOut(n) \/ WaiterWakes(n)
  PROVE  StartInv'
<1> DEFINE Ends == \E m : WaiterEnds(n, m) /\ (m = GaveUp(mod) \/ m = Up(mod)
                          \/ m = Blocked(Ended(mod), waiter[n].res))
<1>0. option' = option /\ chosen' = chosen /\ out' = Silent /\ call' = call
  BY DEF Poll, PollTimesOut, WaiterWakes, ofWaiters
<1>1. mod \in AMod /\ waiter[n] \in AWait  BY DEF StartInv, StartType
<1>2. ASSUME Calm, NEW w \in AWait, w.kind = waiter[n].kind,
             waiter' = [waiter EXCEPT ![n] = w]
      PROVE  StartInv'
  <2>1. KindsKept  BY <1>2 DEF KindsKept, StartInv, StartType
  <2> QED  BY <1>0, <1>2, <2>1, CalmKeeps, SilentKeeps, CallsUnchanged
<1>3. CASE Ends
  <2>1. Calm  BY <1>3, CalmMods DEF WaiterEnds
  <2> DEFINE kind == waiter[n].kind
             over == Waiting("none", kind, FALSE, FALSE, FALSE)
  <2>2. kind \in {"none", "first", "again", "replacing"}  BY <1>1 DEF AWait
  <2>3. waiter' = [waiter EXCEPT ![n] = over]
    BY <1>3 DEF WaiterEnds, StartInv, StartType
  <2> HIDE DEF kind
  <2>4. over \in AWait /\ over.kind = kind
    BY <2>2 DEF Waiting, AWait
  <2> HIDE DEF over
  <2> QED  BY <1>2, <2>1, <2>3, <2>4 DEF kind
<1>4. CASE PollsNothing(n) /\ ~Ends
  <2>1. /\ mod.started = "exited"
        /\ waiter' = [waiter EXCEPT ![n].again = TRUE]
        /\ mod' = [mod EXCEPT !.started = "running"]
    BY <1>4 DEF PollsNothing
  <2>2. Calm  BY <1>1, <2>1 DEF Calm, AMod
  <2>3. [waiter[n] EXCEPT !.again = TRUE] \in AWait
        /\ [waiter[n] EXCEPT !.again = TRUE].kind = waiter[n].kind
    BY <1>1 DEF AWait
  <2>4. waiter' = [waiter EXCEPT ![n] = [waiter[n] EXCEPT !.again = TRUE]]
    BY <2>1 DEF StartInv, StartType
  <2> QED  BY <1>2, <2>2, <2>3, <2>4
<1>5. CASE PollsReady(n)
  <2>1. /\ waiter' = [waiter EXCEPT ![n].at = "open", ![n].phase = mod.phase]
        /\ mod' = [mod EXCEPT !.started = IF @ = "running" THEN "opening" ELSE @,
                              !.phase = FALSE]
    BY <1>5 DEF PollsReady
  <2>2. Calm
    <3>1. PICK st \in {"none", "running", "opening", "exited"} :
            /\ mod' = [mod EXCEPT !.started = st, !.phase = FALSE]
            /\ st # "none" => mod.started # "none"
      BY <1>1, <2>1 DEF AMod
    <3> QED  BY <1>1, <3>1 DEF Calm, AMod
  <2>3. [waiter[n] EXCEPT !.at = "open", !.phase = mod.phase] \in AWait
        /\ [waiter[n] EXCEPT !.at = "open", !.phase = mod.phase].kind = waiter[n].kind
    <3>1. mod.phase \in BOOLEAN  BY <1>1 DEF AMod
    <3> QED  BY <1>1, <3>1 DEF AWait
  <2>4. waiter' = [waiter EXCEPT ![n] = [waiter[n] EXCEPT !.at = "open", !.phase = mod.phase]]
    BY <2>1 DEF StartInv, StartType
  <2> QED  BY <1>2, <2>2, <2>3, <2>4
<1>6. CASE PollsComing(n)
  <2>1. mod' = [mod EXCEPT !.phase = TRUE, !.problem = "starting"] /\ waiter' = waiter
    BY <1>6 DEF PollsComing
  <2>2. Calm  BY <1>1, <2>1 DEF Calm, AMod
  <2> QED  BY <1>0, <2>1, <2>2, CalmKeeps, SilentKeeps, CallsUnchanged, SameKinds
<1>7. CASE WaiterWakes(n) /\ ~Ends
  <2> DEFINE phase == waiter[n].phase
  <2>1. /\ waiter' = [waiter EXCEPT ![n].at = "poll", ![n].held = TRUE, ![n].res = "none"]
        /\ mod' = [mod EXCEPT !.started = IF @ = "opening" THEN "running" ELSE @,
                              !.phase = phase, !.problem = "starting"]
    BY <1>7 DEF WaiterWakes
  <2>2. phase \in BOOLEAN  BY <1>1 DEF AWait
  <2> HIDE DEF phase
  <2>3. Calm
    <3>1. PICK st \in {"none", "running", "opening", "exited"} :
            /\ mod' = [mod EXCEPT !.started = st, !.phase = phase, !.problem = "starting"]
            /\ st # "none" => mod.started # "none"
      BY <1>1, <2>1 DEF AMod
    <3> QED  BY <1>1, <2>2, <3>1 DEF Calm, AMod
  <2>4. [waiter[n] EXCEPT !.at = "poll", !.held = TRUE, !.res = "none"] \in AWait
        /\ [waiter[n] EXCEPT !.at = "poll", !.held = TRUE, !.res = "none"].kind
             = waiter[n].kind
    BY <1>1 DEF AWait
  <2>5. waiter' = [waiter EXCEPT ![n] =
                     [waiter[n] EXCEPT !.at = "poll", !.held = TRUE, !.res = "none"]]
    BY <2>1 DEF StartInv, StartType
  <2> QED  BY <1>2, <2>3, <2>4, <2>5
<1> QED
  BY <1>3, <1>4, <1>5, <1>6, <1>7 DEF Poll, PollTimesOut, WaiterWakes

\* session.start forgets what passed in the session before.
LEMMA SessionStartKeeps ==
  ASSUME StartInv, SessionStart
  PROVE  StartInv'
<1>1. /\ mod' = [mod EXCEPT !.gen = @ + 1, !.startPass = FALSE, !.replaced = FALSE]
      /\ UNCHANGED <<option, call, waiter>> /\ out' = Silent
  BY DEF SessionStart, ofStarter
<1>2. mod \in AMod  BY DEF StartInv, StartType
<1>3. mod.gen \in Nat /\ mod.startCount \in 0 .. MaxStarts  BY <1>2 DEF AMod
<1>4. PICK next \in Nat : next = mod.gen + 1  BY <1>3
<1>5. /\ mod' \in AMod
      /\ mod'.gen = mod.gen + 1 /\ mod'.startCount = mod.startCount
      /\ mod'.started = mod.started /\ mod'.mid = mod.mid /\ ~mod'.startPass
  <2>1. mod' = [mod EXCEPT !.gen = next, !.startPass = FALSE, !.replaced = FALSE]
    BY <1>1, <1>4
  <2>2. mod' \in AMod  BY <1>2, <2>1 DEF AMod
  <2>3. /\ mod'.gen = next /\ mod'.startCount = mod.startCount
        /\ mod'.started = mod.started /\ mod'.mid = mod.mid /\ ~mod'.startPass
    BY <1>2, <2>1 DEF AMod
  <2> QED  BY <1>4, <2>2, <2>3
<1>6. AskedHere'
  <2> SUFFICES ASSUME NEW c \in Slots, call[c].at = "asked"
               PROVE  /\ Of(mod', call[c].with)
                      /\ call[c].with # <<mod'.gen, mod'.startCount>>
    BY <1>1 DEF AskedHere
  <2>1. PICK g \in 0 .. mod.gen, n \in 0 .. mod.startCount : call[c].with = <<g, n>>
    BY DEF StartInv, AskedHere, Of
  <2>2. g \in 0 .. mod'.gen /\ n \in 0 .. mod'.startCount /\ g # mod'.gen
    BY <1>3, <1>5, ModStartAssumption
  <2> QED  BY <2>1, <2>2 DEF Of
<1>7. StartType'  BY <1>1, <1>5 DEF StartInv, StartType
<1> QED
  BY <1>1, <1>5, <1>6, <1>7, SilentKeeps
  DEF StartInv, Started, MidTells, MidHolds, PassChosen

LEMMA StarterStep ==
  ASSUME StartInv, ReadStatus \/ Shutdown \/ AddressFree \/ StarterWakes
  PROVE  StartInv'
<1>0. option' = option /\ chosen' = chosen /\ out' = Silent /\ call' = call
  BY DEF ReadStatus, Shutdown, AddressFree, StarterWakes, ofStarter
<1>1. mod \in AMod  BY DEF StartInv, StartType
<1>2. ASSUME Calm, waiter' = waiter PROVE StartInv'
  BY <1>0, <1>2, CalmKeeps, SilentKeeps, CallsUnchanged, SameKinds
<1>3. CASE ReadStatus \/ AddressFree
  <2>1. mod' = mod /\ waiter' = waiter  BY <1>3 DEF ReadStatus, AddressFree
  <2> QED  BY <1>2, <2>1, CalmMods
<1>4. CASE Shutdown
  <2>1. (mod' = mod \/ mod' = [mod EXCEPT !.replaced = TRUE]) /\ waiter' = waiter
    BY <1>4 DEF Shutdown
  <2>2. CASE mod' = [mod EXCEPT !.replaced = TRUE]
    <3>1. Calm  BY <1>1, <2>2 DEF Calm, AMod
    <3> QED  BY <1>2, <2>1, <3>1
  <2> QED  BY <1>2, <2>1, <2>2, CalmMods
<1>5. CASE StarterWakes
  <2>1. CASE Lost(starter.res) /\ option.autostart
    <3>1. PICK kind \in {"first", "again", "replacing"}, closing \in BOOLEAN :
            BeginStart(kind, closing)
      BY <1>5, <2>1 DEF StarterWakes
    <3>2. CallsBegun  BY <1>0 DEF CallsBegun, StartInv, StartType
    <3>3. option' = option /\ chosen' = chosen /\ out' = Silent  BY <1>0
    <3> QED  BY <3>1, <3>2, <3>3, BeginKeeps
  <2>2. CASE ~(Lost(starter.res) /\ option.autostart)
    <3>1. (mod' = mod \/ mod' = Blocked(mod, starter.res)) /\ waiter' = waiter
      BY <1>5, <2>2 DEF StarterWakes
    <3> QED  BY <1>2, <3>1, CalmMods
  <2> QED  BY <2>1, <2>2
<1> QED  BY <1>3, <1>4, <1>5

\* Processes, the sidecar and other windows.
LEMMA WorldStep ==
  ASSUME StartInv, ChildComes \/ HearExit \/ Warms \/ ClosingEnds \/ Loss \/ OthersDo
  PROVE  StartInv'
<1>0. option' = option /\ chosen' = chosen /\ out' = Silent /\ call' = call
      /\ waiter' = waiter
  BY DEF ChildComes, HearExit, Warms, ClosingEnds, Loss, OthersDo, ofWorld
<1>1. mod \in AMod  BY DEF StartInv, StartType
<1>2. mod' = mod
      \/ mod' = [mod EXCEPT !.started = IF @ \in {"running", "opening"} THEN "exited" ELSE @]
  BY DEF ChildComes, HearExit, Warms, ClosingEnds, Loss, OthersDo
<1>3. Calm
  <2>1. CASE mod' = mod  BY <2>1, CalmMods
  <2>2. CASE mod' = [mod EXCEPT !.started =
                       IF @ \in {"running", "opening"} THEN "exited" ELSE @]
    <3>1. PICK st \in {"none", "running", "opening", "exited"} :
            mod' = [mod EXCEPT !.started = st] /\ (st # "none" => mod.started # "none")
      BY <1>1, <2>2 DEF AMod
    <3> QED  BY <1>1, <3>1 DEF Calm, AMod
  <2> QED  BY <1>2, <2>1, <2>2
<1> QED  BY <1>0, <1>3, CalmKeeps, SilentKeeps, CallsUnchanged, SameKinds

LEMMA StartStep ==
  ASSUME StartInv, [NextStart]_startvars
  PROVE  StartInv'
<1>1. CASE UNCHANGED startvars
  <2>1. /\ mod' = mod /\ waiter' = waiter /\ call' = call /\ option' = option
        /\ chosen' = chosen /\ out' = out
    BY <1>1 DEF startvars
  <2>2. OnlyOnTheirWord'  BY <2>1 DEF StartInv, OnlyOnTheirWord
  <2> QED  BY <2>1, <2>2, CalmMods, SameKinds, CallsUnchanged, CalmKeeps
<1> QED
  BY <1>1, CallStep, OpeningStep, WaiterStep, SessionStartKeeps, StarterStep, WorldStep
  DEF NextStart, Wakes, Happens

(* Nothing goes out unprotected but on the person's word for this start    *)
(* or this session, or the option's, and nothing while a lost sidecar is   *)
(* started again: whichever sessions, starts and losses come between the   *)
(* dialog and its answer (sendUnprotectedWhileStarting, bypassing).        *)
THEOREM UnprotectedOnTheirWord == SpecStart => []OnlyOnTheirWord
<1>1. InitStart => StartInv  BY StartStarts
<1>2. StartInv /\ [NextStart]_startvars => StartInv'  BY StartStep
<1>3. StartInv => OnlyOnTheirWord  BY DEF StartInv
<1> QED  BY <1>1, <1>2, <1>3, PTL DEF SpecStart
=============================================================================
