--------------------------------- MODULE MCMod ---------------------------------
(***************************************************************************)
(* A behaviour is of one part of the mod: a window and its sidecar, with   *)
(* one prompt or call at a time; the policy, of two categories, changed    *)
(* elsewhere twice; or two tool calls that ask, over two sessions.         *)
(***************************************************************************)
EXTENDS ModStart, ModPolicy, ModQuestions, TLC

CONSTANTS prompt, name, mail, masking, typed, one, two

VARIABLE part   \* "start", "policy" or "questions"

modvars == <<part, startvars, policyvars, questionvars>>

\* The parts that do not run start in one state; a policy's categories are
\* named so that it starts with none readable.
InitMod ==
  /\ part \in {"start", "policy", "questions"}
  /\ InitStart /\ (part # "start" => option = Offline /\ side = Free)
  /\ InitPolicy /\ served = {} /\ (part # "policy" => stored = NoPolicy)
  /\ InitQuestions /\ (part # "questions" => known = {})
\* Neither the categories and placeholders nor the tool calls are told apart.
Alike == Permutations({name, mail}) \cup Permutations({one, two})

StartPart == part = "start" /\ NextStart /\ UNCHANGED <<part, policyvars, questionvars>>
PolicyPart == part = "policy" /\ NextPolicy /\ UNCHANGED <<part, startvars, questionvars>>
QuestionsPart == part = "questions" /\ NextQuestions /\ UNCHANGED <<part, startvars, policyvars>>
SpecMod == InitMod /\ [][StartPart \/ PolicyPart \/ QuestionsPart]_modvars
=============================================================================
