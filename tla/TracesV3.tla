------------------------------- MODULE TracesV3 -------------------------------
(***************************************************************************)
(* The traces-v3 generator                                                 *)
(* (packages/eval/scripts/r3/traces_v3_gen/tracegen): how a corpus is      *)
(* allocated to templates and modes (build.py), and how one document of it *)
(* is drawn through the gold provider (doc.py) and its style (styles.py).  *)
(*                                                                         *)
(* A document is what its checks tell apart: the gold categories in it,    *)
(* the calls made and the calls its outputs name, and whether its length   *)
(* is within bounds.                                                       *)
(***************************************************************************)
EXTENDS TraceTemplates, FiniteSets

CONSTANTS
  CorpusSizes,   \* the numbers of documents a corpus may be asked for
  MaxAttempts,   \* bound: MAX_ATTEMPTS of build.py, 40 there
  Templates      \* the templates drawn from, a subset of the registry

(* check_corpus asks for MIN_TEMPLATES templates in use, 60: a smaller     *)
(* corpus is refused, and left out.                                        *)
ASSUME TracesV3Assumption ==
  /\ \A n \in CorpusSizes : n \in Nat /\ n >= 60
  /\ MaxAttempts \in Nat \ {0}
  /\ Templates \subseteq DOMAIN Registry

VARIABLES
  phase,   \* where the generator stands
  size,    \* the number of documents of the corpus being planned
  tid,     \* the document's template
  mode,    \* the document's mode
  tries,   \* attempts begun on the document
  place,    \* the next step of the template
  todo,   \* the turns left of the step under way
  gold,    \* the gold categories placed so far
  callId,  \* d.state["call_id"]: the last call, 0 before any
  named    \* the call each output has named, in order

v3vars == <<phase, size, tid, mode, tries, place, todo, gold, callId, named>>
docvars == <<place, todo, gold, callId, named>>

NoTemplate == "none"

(* ---------- The plan of a corpus (build.py) ---------- *)

MinTemplates == 60

(* The registry of the repository is large enough. *)
ASSUME RegistryAssumption ==
  Cardinality(DOMAIN Registry) \in Nat /\ Cardinality(DOMAIN Registry) >= MinTemplates

(* ---------- What every template of the repository keeps to ---------- *)

(* In every mode with gold, some step places a category the mode allows    *)
(* whichever way it goes; else the style does.                             *)
TurnPlants(script, turn, m) ==
  \/ \E label \in turn.sure : label # secret \/ m = "full"
  \/ script.style = "irc" /\ turn.who = "user"
StepPlants(script, i, m) ==
  \A way \in script.steps[i] :
    m \in way.in => \E j \in DOMAIN way.turns : TurnPlants(script, way.turns[j], m)
SurelyPlants(script, m) ==
  script.style \in {"cc", "jsonl"} \/ \E i \in DOMAIN script.steps : StepPlants(script, i, m)

(* A call is followed by its result, within a way or from one step to the  *)
(* next, and a result follows a call.                                      *)
IsCall(turn) == turn.who = "call"
IsResult(turn) == turn.who = "result"
Answers(way) == way.turns # <<>> /\ IsResult(way.turns[1])
EndsInCall(way) == way.turns # <<>> /\ IsCall(way.turns[Len(way.turns)])
CallsInPairs(steps) ==
  /\ \A i \in DOMAIN steps : \A way \in steps[i] : \A j \in 2 .. Len(way.turns) :
       IsResult(way.turns[j]) <=> IsCall(way.turns[j - 1])
  /\ \A i \in 2 .. Len(steps) : \A before \in steps[i - 1], way \in steps[i] :
       Answers(way) <=> EndsInCall(before)
  /\ \A way \in steps[1] : ~Answers(way)

Turns == [who : {"user", "agent", "call", "result"},
          sure : SUBSET GoldLabels, other : SUBSET GoldLabels]
Ways == [in : SUBSET Modes, turns : Seq(Turns)]

ASSUME TemplatesAssumption ==
  \A t \in DOMAIN Registry :
    /\ Registry[t].steps \in Seq(SUBSET Ways) \ {<<>>}
    /\ \A m \in Modes \ {"clean"} : SurelyPlants(Registry[t], m)
    /\ CallsInPairs(Registry[t].steps)

(* round(n * share), the share in percent: a half goes to the even side. *)
Share(n, percent) ==
  LET whole == (n * percent) \div 100
      part100 == (n * percent) % 100
  IN IF part100 > 50 \/ (part100 = 50 /\ whole % 2 = 1) THEN whole + 1 ELSE whole

(* assign_modes: exact counts of clean and of no-secret documents. *)
CleanCount(n) == Share(n, 20)
NoSecretCount(n) == Share(n, 31)

(* allocate: every template n \div t documents, one more for the n % t     *)
(* drawn; what check_corpus then counts of it.                             *)
\* Mutant: one template takes the whole remainder.
LargestShareUneven(n, t) == (n \div t) + (n % t)
LargestShare(n, t) == n \div t + (IF n % t = 0 THEN 0 ELSE 1)
TemplatesUsed(n, t) == IF n < t THEN n ELSE t

(* check_corpus of n documents over t templates, where the documents       *)
(* without gold are the clean ones and those without a secret are at least *)
(* the clean and the no-secret ones.                                       *)
CheckCorpus(n, t) ==
  /\ TemplatesUsed(n, t) >= MinTemplates
  /\ 100 * LargestShare(n, t) <= 4 * n
  /\ 100 * (CleanCount(n) + NoSecretCount(n)) >= 40 * n
  /\ 100 * CleanCount(n) >= 15 * n

(* ---------- The gold provider (doc.py) ---------- *)

GoldOk(m) == m # "clean"
SecretOk(m) == m = "full"

(* Gold._v, pem, name, ...: a category the mode does not allow comes out   *)
(* as a stand-in, tagged as a distractor.                                  *)
\* Mutant: a document without secrets has no gold at all.
AllowedInFull(m, label) == SecretOk(m)
Allowed(m, label) == IF label = secret THEN SecretOk(m) ELSE GoldOk(m)
Placed(m, labels) == {label \in labels : Allowed(m, label)}

(* dev_user, home and cwd: the developer's login name, and in a clean      *)
(* document a neutral directory.                                           *)
DevUser(m) == Placed(m, {person})
Cwd(m) == IF m = "clean" THEN {} ELSE DevUser(m)

(* ---------- Styles (styles.py) ---------- *)

(* CCStyle and JsonlStyle print the working directory in their header. *)
HeaderGold(style, m) == IF style \in {"cc", "jsonl"} THEN Cwd(m) ELSE {}

(* IrcStyle prints the developer's nick before every user turn. *)
TurnGold(style, who, m) ==
  IF style = "irc" /\ who = "user" THEN DevUser(m) ELSE {}

(* JsonlStyle.call draws the id that its result names; an output with no   *)
(* call before it names "call_0".                                          *)
CallStyle(id) == id + 1
ResultStyle(id) == id

(* ---------- Planning ---------- *)

InitV3 ==
  /\ phase = "start"
  /\ size = 0
  /\ tid = NoTemplate
  /\ mode = "full"
  /\ tries = 0
  /\ place = 1 /\ todo = <<>> /\ gold = {} /\ callId = 0 /\ named = <<>>

(* build_corpus: allocate refuses too few templates. *)
Allocate ==
  /\ phase = "start"
  /\ \E n \in CorpusSizes : size' = n
  /\ phase' = IF Cardinality(DOMAIN Registry) < MinTemplates THEN "raised"
              ELSE "planned"
  /\ UNCHANGED <<tid, mode, tries, docvars>>

(* check_corpus once every document is built, each as its mode promises. *)
Check ==
  /\ phase = "planned"
  /\ phase' = IF CheckCorpus(size, Cardinality(DOMAIN Registry)) THEN "written"
              ELSE "raised"
  /\ UNCHANGED <<size, tid, mode, tries, docvars>>

(* ---------- One document (build_one) ---------- *)

(* A slot of the plan: its template and its mode.  The plan's size has no  *)
(* part in the document and is dropped.                                    *)
Draw ==
  /\ phase = "planned"
  /\ size' = 0
  /\ tid' \in Templates
  /\ mode' \in Modes
  /\ phase' = "begin"
  /\ UNCHANGED <<tries, docvars>>

(* A new Doc and its header. *)
Begin ==
  /\ phase = "begin"
  /\ phase' = "body"
  /\ tries' = tries + 1
  /\ place' = 1 /\ todo' = <<>> /\ callId' = 0 /\ named' = <<>>
  /\ gold' = HeaderGold(Registry[tid].style, mode)
  /\ UNCHANGED <<size, tid, mode>>

(* The template goes one way at its next step. *)
Choose ==
  /\ phase = "body" /\ todo = <<>>
  /\ place <= Len(Registry[tid].steps)
  /\ \E way \in Registry[tid].steps[place] :
       /\ mode \in way.in
       /\ todo' = way.turns
  /\ place' = place + 1
  /\ UNCHANGED <<phase, size, tid, mode, tries, gold, callId, named>>

(* The turn places the gold it asks for, as far as the mode allows. *)
Emit(who) ==
  /\ phase = "body" /\ todo # <<>>
  /\ todo[1].who = who
  /\ todo' = Tail(todo)
  /\ \E some \in SUBSET todo[1].other :
       gold' = gold \cup Placed(mode, todo[1].sure \cup some)
                    \cup TurnGold(Registry[tid].style, who, mode)
  /\ UNCHANGED <<phase, size, tid, mode, tries, place>>

UserTurn == Emit("user") /\ UNCHANGED <<callId, named>>
AgentTurn == Emit("agent") /\ UNCHANGED <<callId, named>>
CallTurn == Emit("call") /\ callId' = CallStyle(callId) /\ UNCHANGED named
ResultTurn ==
  Emit("result") /\ named' = Append(named, ResultStyle(callId)) /\ UNCHANGED callId

(* The footer, then the checks of build_one: a document that breaks its    *)
(* mode is an error; one out of length bounds is drawn again, and after    *)
(* the last attempt an error.                                              *)
BreaksMode ==
  \/ mode = "clean" /\ gold # {}
  \/ mode # "full" /\ secret \in gold

End ==
  /\ phase = "body" /\ todo = <<>>
  /\ place > Len(Registry[tid].steps)
  /\ \E fits \in BOOLEAN :
       phase' = CASE BreaksMode -> "broken"
                  [] ~BreaksMode /\ fits -> "built"
                  [] ~BreaksMode /\ ~fits /\ tries < MaxAttempts -> "begin"
                  [] OTHER -> "gaveUp"
  /\ UNCHANGED <<size, tid, mode, tries, docvars>>

NextV3 ==
  \/ Allocate \/ Check \/ Draw
  \/ Begin \/ Choose \/ UserTurn \/ AgentTurn \/ CallTurn \/ ResultTurn \/ End
=============================================================================
