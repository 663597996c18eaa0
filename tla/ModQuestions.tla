----------------------------- MODULE ModQuestions -----------------------------
(***************************************************************************)
(* What the Claude Code mod asks before a tool call takes real values out  *)
(* of the session, or writes placeholders no one can put back into a file  *)
(* (packages/claude-code-mod/hooks/register.ts: tool.call, sentHeld,       *)
(* sentMaskedKeys, allowedInClear, allowedAsText).  The questions are put  *)
(* one at a time, over tool calls that run side by side, and an answer may *)
(* stand for the rest of its session; the sidecar meanwhile learns values, *)
(* and loses them all when it is started again.  A dialog of its own asks  *)
(* before masking is paused (pauseMasking).                                *)
(*                                                                         *)
(* Placeholders stand for their values.  The tools are of two kinds, one   *)
(* values are held from (it may write them, too) and one they are restored *)
(* for; shell tools, which get none, are left out.                         *)
(***************************************************************************)
EXTENDS Naturals, Sequences

CONSTANTS
  Calls,        \* tool calls of the window
  Names,        \* the placeholders in them and in their results
  MaxSessions   \* bound: sessions of the window

VARIABLES
  session,      \* sessionGeneration
  allowAll,
  staleAsText,
  known,        \* the placeholders the sidecar can put back
  line,         \* the calls with a question, which is put when those before it are over
  put,          \* the session in which the first question was put, 0 before
  calls,
  paused,
  pausing,      \* the session in which the pause dialog was put, 0 when none is
  said          \* what the person said in this session for the rest of it

questionvars ==
  <<session, allowAll, staleAsText, known, line, put, calls, paused, pausing, said>>

(* A call: where it is, whether values are held from its tool, the         *)
(* placeholders a question of it shows, and those it takes out.            *)
IdleCall == [at |-> "idle", held |-> FALSE, shows |-> {}, out |-> {}]

InitQuestions ==
  /\ session = 1 /\ allowAll = FALSE /\ staleAsText = FALSE
  /\ known \in SUBSET Names
  /\ line = <<>> /\ put = 0
  /\ calls = [c \in Calls |-> IdleCall]
  /\ paused = FALSE /\ pausing = 0 /\ said = {}

(* ---------- A call ---------- *)

ofPause == <<paused, pausing>>
ofCall == <<session, allowAll, staleAsText, put, said, ofPause>>

ToolCall(c) ==
  /\ calls[c].at = "idle"
  /\ \E held \in BOOLEAN :
       calls' = [calls EXCEPT ![c] = [IdleCall EXCEPT !.at = "lookup", !.held = held]]
  /\ UNCHANGED <<known, line, ofCall>>

Asks(c, about, shows) ==
  /\ calls' = [calls EXCEPT ![c] = [@ EXCEPT !.at = about, !.shows = shows, !.out = {}]]
  /\ line' = Append(line, c)

(* lookUpCall: what the sidecar knows, once; the rest is asked about when  *)
(* the call would write it (staleWriteAllowed).                            *)
LookUp(c) ==
  /\ calls[c].at = "lookup"
  /\ \/ /\ calls' = [calls EXCEPT ![c].at = "clear", ![c].shows = known]
        /\ UNCHANGED line
     \/ known # Names /\ Asks(c, "text", known)
  /\ UNCHANGED <<known, ofCall>>

(* sentHeld: a tool values are held from takes those known on the person's *)
(* word; one that restores needs none, nor does a call with none.          *)
AtRun(c, out) == [IdleCall EXCEPT !.at = "run", !.held = calls[c].held, !.out = out]
HoldsValues(c) == calls[c].held /\ calls[c].shows # {}
AskInClear(c) ==
  /\ calls[c].at = "clear"
  /\ IF HoldsValues(c) THEN Asks(c, "values", calls[c].shows)
     ELSE calls' = [calls EXCEPT ![c] = AtRun(c, {})] /\ UNCHANGED line
  /\ UNCHANGED <<known, ofCall>>

(* The tool runs, and its result is masked (maskedResult): the object keys *)
(* of one values are held from go out as masked, or are asked about.       *)
MaskResult(c) ==
  /\ calls[c].at = "run"
  /\ \/ calls' = [calls EXCEPT ![c] = IdleCall] /\ UNCHANGED <<known, line>>
     \/ calls[c].held /\ known' = Names /\ Asks(c, "keys", {})
  /\ UNCHANGED ofCall

(* ---------- The questions (afterOtherClearQuestions) ---------- *)

First == Head(line)
Over == line' = Tail(line) /\ put' = 0
AboutText == calls[First].at = "text"

PutsBack(c) == calls[c].shows

(* The call goes on; a refused one is denied, or its result withheld.      *)
GoesOn(c) ==
  calls' = [calls EXCEPT
             ![c] = IF @.at = "text" THEN [@ EXCEPT !.at = "clear"]
                    ELSE IF @.at = "values" THEN AtRun(c, PutsBack(c))
                    ELSE [IdleCall EXCEPT !.at = "sent"]]
Denied(c) == calls' = [calls EXCEPT ![c] = IdleCall]

ResultSent(c) ==
  /\ calls[c].at = "sent"
  /\ Denied(c)
  /\ UNCHANGED <<known, line, ofCall>>

Put ==
  /\ line # <<>> /\ put = 0
  /\ IF (AboutText /\ staleAsText) \/ (~AboutText /\ allowAll)
     THEN GoesOn(First) /\ Over
     ELSE put' = session /\ UNCHANGED <<calls, line>>
  /\ UNCHANGED <<session, allowAll, staleAsText, known, said, ofPause>>

\* Mutant: an answer counts in whichever session it comes.
CountsAnyway == TRUE
Counts == put = session

(* Block, and no answer at all, refuse the call.                           *)
Refuse ==
  /\ put > 0
  /\ Denied(First) /\ Over
  /\ UNCHANGED <<session, allowAll, staleAsText, known, said, ofPause>>
Allow ==
  /\ put > 0
  /\ \E answer \in {"once", "all"} :
       LET all == answer = "all" IN
       /\ IF Counts THEN GoesOn(First) ELSE Denied(First)
       /\ allowAll' = (allowAll \/ (Counts /\ all /\ ~AboutText))
       /\ staleAsText' = (staleAsText \/ (Counts /\ all /\ AboutText))
       /\ said' = said \cup (IF all /\ put = session
                              THEN {IF AboutText THEN "text" ELSE "clear"} ELSE {})
  /\ Over
  /\ UNCHANGED <<session, known, ofPause>>

(* ---------- Sessions and the sidecar ---------- *)

NextSession ==
  /\ session < MaxSessions /\ session' = session + 1
  /\ allowAll' = FALSE /\ staleAsText' = FALSE /\ paused' = FALSE
  /\ said' = {}
  /\ UNCHANGED <<known, line, put, calls, pausing>>

(* Another call's text is masked; the sidecar is started again.            *)
Mints == \E n \in Names \ known : known' = known \cup {n}
Loses == known' = {}
SidecarDoes ==
  /\ Mints \/ Loses
  /\ UNCHANGED <<session, allowAll, staleAsText, line, put, calls, said, ofPause>>

(* ---------- /pii pause and resume ---------- *)

AskPause ==
  /\ pausing = 0
  /\ pausing' = session
  /\ UNCHANGED <<session, allowAll, staleAsText, known, line, put, calls, paused, said>>
AnswerPause ==
  /\ pausing > 0
  /\ pausing' = 0
  /\ \E agrees \in BOOLEAN :
       /\ paused' = (paused \/ (agrees /\ pausing = session))
       /\ said' = said \cup (IF agrees /\ pausing = session THEN {"pause"} ELSE {})
  /\ UNCHANGED <<session, allowAll, staleAsText, known, line, put, calls>>
Resume ==
  /\ paused /\ paused' = FALSE
  /\ UNCHANGED <<session, allowAll, staleAsText, known, line, put, calls, pausing, said>>

ToolGoesOn(c) == LookUp(c) \/ AskInClear(c) \/ MaskResult(c) \/ ResultSent(c)
QuestionGoesOn == Put \/ Refuse \/ Allow
NextQuestions ==
  \/ \E c \in Calls : ToolCall(c) \/ ToolGoesOn(c)
  \/ QuestionGoesOn \/ NextSession \/ SidecarDoes
  \/ AskPause \/ AnswerPause \/ Resume

SpecQuestions == InitQuestions /\ [][NextQuestions]_questionvars

(* ---------- What the mod promises ---------- *)

\* Real values leave by a held call or by the keys of its result on the
\* person's word alone: their answer to the question that lists exactly
\* these values, given in the session it was asked in, or an Allow all of
\* the session they leave in; and placeholders are written as text on such
\* a word of their own (allowedInClear, allowedAsText).
OnTheirWord(about) == put = session \/ about \in said
ReleasedOnTheirWord ==
  [][/\ \A c \in Calls :
          /\ calls[c].at = "values" /\ calls'[c].at = "run" =>
               OnTheirWord("clear") /\ calls'[c].out = calls[c].shows
          /\ calls[c].at = "keys" /\ calls'[c].at = "sent" => OnTheirWord("clear")
          /\ calls[c].at = "text" /\ calls'[c].at = "clear" => OnTheirWord("text")
     /\ paused' => "pause" \in said']_questionvars
=============================================================================
