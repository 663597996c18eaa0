------------------------------- MODULE ModStart -------------------------------
(***************************************************************************)
(* One window of the Claude Code mod and the sidecar at its address        *)
(* (packages/claude-code-mod/hooks/register.ts): sessions that open, an    *)
(* older sidecar that is replaced, a sidecar started at a session's start  *)
(* or again when it is lost, and what the window sends meanwhile, masked,  *)
(* unprotected or not at all.                                              *)
(*                                                                         *)
(* Everything between two awaits is one step; who waits for a promise goes *)
(* on before anything else happens (Quiet).  How a changed policy is       *)
(* settled is ModPolicy's; here a review ends well or not.                 *)
(***************************************************************************)
EXTENDS Naturals, FiniteSets

CONSTANTS
  Slots,       \* prompts, attachments and tool calls that may be under way at once
  PromptsWait, \* whether Claude Code holds prompts back while session.start runs
  MaxStarts,   \* bound: starts of a sidecar by this window
  MaxEvents    \* bound: new sessions, losses of the sidecar and acts of other windows

ASSUME ModStartAssumption ==
  PromptsWait \in BOOLEAN /\ MaxStarts \in Nat /\ MaxEvents \in Nat

VARIABLES
  option,   \* while_starting and autostart
  side,     \* what is at the sidecar's address
  children, \* processes spawned that do not listen yet, and exits not heard of
  events,
  mod,      \* the variables of the module
  opening,  \* the session being opened: "none", "put", "review"
  starter,  \* the session.start hook
  waiter,   \* waitForSidecar, by start
  call,     \* the hooks under way
  chosen,   \* "until ready" was said in this session
  out       \* what has just been sent unprotected

startvars == <<option, side, children, events, mod, opening, starter, waiter, call,
               chosen, out>>

Starts == 1 .. MaxStarts

(* ---------- The sidecar at the address ---------- *)

(* Nothing, a sidecar, or one that accepted a shutdown; how its warmup     *)
(* stands; of an older release; a process of this window; who has opened   *)
(* a session on it.                                                        *)
Sidecar(at, warm, older, ours, use) ==
  [at |-> at, warm |-> warm, older |-> older, ours |-> ours, use |-> use]
Free == Sidecar("free", "coming", FALSE, FALSE, "never")
Answers == side.at # "free"
Holds == side.use = "ours"

(* shutdownRefusal: a session is open, the model still coming up, or no    *)
(* session opened yet on one that warmed up.                               *)
MayStop ==
  /\ side.at = "up" /\ side.warm # "coming"
  /\ side.use = "empty" \/ (side.use = "never" /\ side.warm = "failed")

(* ---------- The mod ---------- *)

Fresh ==
  [gen |-> 0, startPass |-> FALSE, restartable |-> FALSE,
   problem |-> "other", started |-> "none", phase |-> FALSE, mid |-> FALSE,
   startCount |-> 0, replaced |-> FALSE]

Place(at, for, again, reopened, with) ==
  [at |-> at, for |-> for, again |-> again, reopened |-> reopened, with |-> with]
Idle == Place("idle", "none", FALSE, FALSE, "none")
Waiting(at, kind, held, again, phase) ==
  [at |-> at, kind |-> kind, held |-> held, again |-> again, phase |-> phase, res |-> "none"]
Gone == Waiting("none", "none", FALSE, FALSE, FALSE)
Silent == [start |-> 0, asked |-> FALSE, any |-> FALSE]

Offline == [starting |-> "ask", autostart |-> FALSE]   \* starts none itself
Options ==
  {[starting |-> w, autostart |-> TRUE] : w \in {"ask", "block", "pass"}}
  \cup {Offline}

InitStart ==
  /\ option \in Options
  /\ side \in {Free, Sidecar("up", "ready", TRUE, FALSE, "empty"),
               Sidecar("up", "coming", FALSE, FALSE, "others")}
  /\ children = [coming |-> 0, exited |-> 0]
  /\ events = 0
  /\ mod = Fresh
  /\ opening = "none" /\ starter = [at |-> "none", res |-> "none"]
  /\ waiter = [n \in Starts |-> Gone]
  /\ call = [c \in Slots |-> Idle]
  /\ chosen = FALSE /\ out = Silent

\* Those whose promise is settled go on first.
Quiet ==
  /\ starter.at # "got"
  /\ \A n \in Starts : waiter[n].at # "got"
  /\ \A c \in Slots : call[c].at # "got"

(* starting(), bypassing() *)
Starting == mod.started = "running" /\ mod.problem = "starting"
Bypassing == mod.startPass /\ Starting

Lost(why) == why \in {"unreachable", "closing"}

(* blocked(): the band's line is a start's or another. *)
Blocked(m, why) ==
  [m EXCEPT !.problem =
     IF why = "starting" \/ (why = "unreachable" /\ m.started = "running")
     THEN "starting" ELSE "other"]

(* beginStart, endStart, gaveUp. *)
Begun(m, mid) ==
  [m EXCEPT !.startCount = @ + 1, !.restartable = FALSE, !.started = "running",
            !.phase = TRUE, !.problem = "starting", !.mid = @ \/ mid,
            !.startPass = @ /\ ~mid]
Ended(m) ==
  [m EXCEPT !.mid = FALSE, !.started = "none", !.phase = FALSE, !.replaced = FALSE]
GaveUp(m) == [Ended(m) EXCEPT !.problem = "other"]

BeginStart(kind, closing) ==
  /\ mod.startCount < MaxStarts
  /\ mod' = Begun(mod, kind = "again")
  /\ children' = [children EXCEPT !.coming = @ + 1]
  /\ waiter' = [waiter EXCEPT ![mod.startCount + 1] =
                  Waiting("poll", kind, closing, FALSE, FALSE)]

(* ---------- Opening the session (openSession) ---------- *)

\* Everyone shares the one under way.
Opened == IF opening = "none" THEN "put" ELSE opening

OpeningEnds(m, res) ==
  /\ opening' = "none"
  /\ mod' = m
  /\ call' = [c \in Slots |-> IF call[c].at = "open"
                              THEN [call[c] EXCEPT !.at = "got", !.with = res] ELSE call[c]]
  /\ waiter' = [n \in Starts |-> IF waiter[n].at = "open"
                                 THEN [waiter[n] EXCEPT !.at = "got", !.res = res]
                                 ELSE waiter[n]]
  /\ starter' = IF starter.at = "open" THEN [at |-> "got", res |-> res] ELSE starter

PutSession ==
  /\ opening = "put"
  /\ IF side.at = "up"
     THEN /\ side' = [side EXCEPT !.use = "ours"]
          /\ opening' = "review"
          /\ mod' = [mod EXCEPT !.restartable = TRUE]
          /\ UNCHANGED <<call, waiter, starter>>
     ELSE /\ OpeningEnds(mod, IF side.at = "free" THEN "unreachable" ELSE "closing")
          /\ UNCHANGED side
  /\ out' = Silent
  /\ UNCHANGED <<option, children, events, chosen>>

(* The policy's review: settled, or not (an answer no one gave in time, a  *)
(* policy that changed again), or lost with the sidecar.                   *)
ReviewPolicy ==
  /\ opening = "review"
  /\ \/ Answers /\ OpeningEnds([mod EXCEPT !.problem = "none"], "ok")
     \/ Answers /\ OpeningEnds(mod, "refused")
     \/ ~Answers /\ OpeningEnds(mod, "unreachable")
  /\ out' = Silent
  /\ UNCHANGED <<option, side, children, events, chosen>>

(* ---------- Calls: what a hook does next ---------- *)

Goes(c, to) == call' = [call EXCEPT ![c] = to]
Moves(c, to) ==
  /\ Goes(c, to)
  /\ out' = Silent
  /\ UNCHANGED <<children, mod, opening, waiter, chosen>>
Fails(c, why) ==
  /\ Goes(c, Idle)
  /\ mod' = Blocked(mod, why)
  /\ out' = Silent
  /\ UNCHANGED <<children, opening, waiter, chosen>>
Joins(c, to) ==
  /\ Goes(c, to)
  /\ opening' = Opened
  /\ out' = Silent
  /\ UNCHANGED <<children, mod, waiter, chosen>>
Plain(c, asked) ==
  /\ Goes(c, Idle)
  /\ out' = [start |-> mod.startCount, asked |-> asked, any |-> TRUE]
  /\ UNCHANGED <<children, mod, opening, waiter, chosen>>

Request(for, again, reopened) == Place("post", for, again, reopened, "none")

(* sanitize(), once no restart is waited for. *)
Masks(c) ==
  IF mod.phase THEN Fails(c, "starting") ELSE Moves(c, Request("mask", FALSE, FALSE))
Sanitize(c) ==
  IF mod.mid THEN Moves(c, Place("restarting", "mask", FALSE, FALSE, "none")) ELSE Masks(c)

(* tool.call: placeholders are put back first, if there are any. *)
ToolGoes(c) ==
  \/ Moves(c, Request("restore", FALSE, FALSE))
  \/ Moves(c, Place("run", "restore", FALSE, FALSE, "none"))
ToolEnters(c) ==
  IF mod.phase THEN Moves(c, Idle)
  ELSE IF mod.problem # "none" THEN Joins(c, Place("open", "entry", FALSE, FALSE, "none"))
  ELSE ToolGoes(c)

(* withRestart: the sidecar was lost, and is started again or was already. *)
MayRestart(why) ==
  Lost(why) /\ mod.restartable /\ mod.started = "none" /\ option.autostart

Errs(c, why) ==
  LET waits == Place("restarting", call[c].for, TRUE, FALSE, "none") IN
  IF ~call[c].again /\ MayRestart(why)
  THEN BeginStart("again", why = "closing") /\ Goes(c, waits)
       /\ out' = Silent /\ UNCHANGED <<opening, chosen>>
  ELSE IF ~call[c].again /\ mod.mid /\ Lost(why) THEN Moves(c, waits)
  ELSE Fails(c, why)

(* ---------- Calls: steps ---------- *)

(* A prompt the person typed while nullpii starts                          *)
(* (sendUnprotectedWhileStarting): waits in a start after a loss, asks, or *)
(* follows the option.                                                     *)
Waits ==
  mod.mid \/ option.starting = "block" \/ (option.starting = "pass" /\ mod.replaced)

TypedWhileStarting(c) ==
  IF Waits THEN Moves(c, Place("held", "mask", FALSE, FALSE, "none"))
  ELSE IF option.starting = "pass"
  THEN /\ Goes(c, Idle)
       /\ mod' = [mod EXCEPT !.startPass = TRUE]
       /\ out' = [start |-> mod.startCount, asked |-> FALSE, any |-> TRUE]
       /\ UNCHANGED <<children, opening, waiter, chosen>>
  ELSE Moves(c, Place("asked", "mask", FALSE, FALSE, <<mod.gen, mod.startCount>>))

MayBegin(c) ==
  call[c] = Idle /\ mod.gen > 0 /\ (PromptsWait => starter.at = "none")
Submit(c) ==
  /\ MayBegin(c)
  /\ \/ Bypassing /\ Plain(c, FALSE)
     \/ ~Bypassing /\ Sanitize(c)                 \* text the engine adds
     \/ ~Bypassing /\ Starting /\ TypedWhileStarting(c)
CallTool(c) ==
  /\ MayBegin(c)
  /\ IF mod.mid THEN Moves(c, Place("restarting", "entry", FALSE, FALSE, "none"))
     ELSE ToolEnters(c)

(* Their answer to the dialog of a start, or none. *)
\* Mutant: the answer is taken whichever start it was asked in.
SpeaksAnyhow(asked) == Starting
SpeaksForThis(asked) == asked = <<mod.gen, mod.startCount>> /\ Starting

AnswerStarting(c) ==
  /\ call[c].at = "asked"
  /\ \/ IF Starting THEN Moves(c, Place("held", "mask", FALSE, FALSE, "none")) ELSE Sanitize(c)
     \/ IF SpeaksForThis(call[c].with) THEN Plain(c, call[c].with = <<mod.gen, mod.startCount>>)
        ELSE IF Starting THEN Moves(c, Place("held", "mask", FALSE, FALSE, "none"))
        ELSE Sanitize(c)
     \/ /\ SpeaksForThis(call[c].with)
        /\ Goes(c, Idle)
        /\ mod' = [mod EXCEPT !.startPass = TRUE]
        /\ chosen' = TRUE
        /\ out' = [start |-> mod.startCount, asked |-> TRUE, any |-> TRUE]
        /\ UNCHANGED <<children, opening, waiter>>

(* holdUntilReady: then it goes on, masked or refused. *)
HoldEnds(c) == call[c].at = "held" /\ ~Starting /\ Sanitize(c)
HoldTimesOut(c) == call[c].at = "held" /\ Starting /\ Sanitize(c)

(* untilRestarted. *)
Restarting == mod.mid /\ mod.started # "none"
NotUp == IF mod.problem = "starting" THEN "starting" ELSE "other"
RestartEnds(c) ==
  /\ call[c].at = "restarting" /\ ~Restarting
  /\ IF mod.started # "none" \/ mod.problem # "none" THEN Fails(c, NotUp)
     ELSE IF call[c].again THEN Moves(c, Request(call[c].for, TRUE, FALSE))
     ELSE IF call[c].for = "entry" THEN ToolEnters(c)
     ELSE Masks(c)
RestartTimesOut(c) == call[c].at = "restarting" /\ Restarting /\ Fails(c, NotUp)

(* The answer to /sanitize or /restore: a session that is gone is opened   *)
(* again, once, to mask; nothing restores into it.                         *)
Answered(c) ==
  /\ call[c].at = "post"
  /\ IF ~Answers THEN Errs(c, "unreachable")
     ELSE IF Holds
     THEN Moves(c, IF call[c].for = "mask" THEN Idle
                   ELSE Place("run", "restore", FALSE, FALSE, "none"))
     ELSE IF call[c].for = "mask" /\ ~call[c].reopened
     THEN Joins(c, Place("open", "mask", call[c].again, TRUE, "none"))
     ELSE Errs(c, "gone")

GotSession(c) ==
  /\ call[c].at = "got"
  /\ IF call[c].for = "entry"
     THEN IF call[c].with = "ok" THEN ToolGoes(c) ELSE Fails(c, call[c].with)
     ELSE IF call[c].with = "ok" THEN Moves(c, Request("mask", call[c].again, TRUE))
     ELSE Errs(c, call[c].with)

(* The tool has run: its result goes as it is, or masked. *)
ToolRan(c) ==
  /\ call[c].at = "run"
  /\ IF Bypassing THEN Plain(c, FALSE) ELSE Sanitize(c)

ofCalls == <<option, side, events, starter>>
CallGoesOn(c) ==
  /\ AnswerStarting(c) \/ HoldEnds(c) \/ RestartEnds(c) \/ Answered(c) \/ ToolRan(c)
  /\ UNCHANGED ofCalls
CallOther(c) ==
  /\ Submit(c) \/ CallTool(c) \/ HoldTimesOut(c) \/ RestartTimesOut(c)
  /\ UNCHANGED ofCalls
CallWakes(c) == GotSession(c) /\ UNCHANGED ofCalls

(* ---------- A start (waitForSidecar) ---------- *)

ofWaiters == <<option, side, events, starter, call, chosen>>

WaiterEnds(n, m) ==
  /\ waiter' = [waiter EXCEPT ![n] = Waiting("none", @.kind, FALSE, FALSE, FALSE)]
  /\ mod' = m
  /\ UNCHANGED <<children, opening>>

(* Nothing answers: the process may have ended for want of the address,    *)
(* and is started once more, when one that was closing held it.            *)
PollsNothing(n) ==
  /\ mod.started = "exited"
  /\ IF waiter[n].held /\ ~waiter[n].again
     THEN /\ waiter' = [waiter EXCEPT ![n].again = TRUE]
          /\ mod' = [mod EXCEPT !.started = "running"]
          /\ children' = [children EXCEPT !.coming = @ + 1]
          /\ UNCHANGED opening
     ELSE WaiterEnds(n, GaveUp(mod))
PollsReady(n) ==
  /\ side.warm = "ready"
  /\ waiter' = [waiter EXCEPT ![n].at = "open", ![n].phase = mod.phase]
  /\ mod' = [mod EXCEPT !.started = IF @ = "running" THEN "opening" ELSE @, !.phase = FALSE]
  /\ opening' = Opened
  /\ UNCHANGED children
PollsComing(n) ==
  /\ side.warm = "coming"
  /\ mod' = [mod EXCEPT !.phase = TRUE, !.problem = "starting"]
  /\ UNCHANGED <<waiter, children, opening>>

Poll(n) ==
  /\ waiter[n].at = "poll"
  /\ \/ ~Answers /\ PollsNothing(n)
     \/ Answers /\ (PollsReady(n) \/ PollsComing(n))
     \/ Answers /\ side.warm = "failed" /\ WaiterEnds(n, GaveUp(mod))
  /\ out' = Silent
  /\ UNCHANGED ofWaiters

(* The deadline, or an address another program has taken. *)
PollTimesOut(n) ==
  /\ waiter[n].at = "poll"
  /\ WaiterEnds(n, GaveUp(mod))
  /\ out' = Silent
  /\ UNCHANGED ofWaiters

(* The session is open; or the sidecar that answered is on its way out,    *)
(* and the wait goes on; or the start is over.                             *)
Up(m) == [Ended(m) EXCEPT !.problem = "none", !.startPass = FALSE]
WaiterWakes(n) ==
  /\ waiter[n].at = "got"
  /\ IF waiter[n].res = "ok" THEN WaiterEnds(n, Up(mod))
     ELSE IF waiter[n].res = "closing"
     THEN /\ waiter' = [waiter EXCEPT ![n].at = "poll", ![n].held = TRUE, ![n].res = "none"]
          /\ mod' = [mod EXCEPT !.started = IF @ = "opening" THEN "running" ELSE @,
                                !.phase = waiter[n].phase, !.problem = "starting"]
          /\ UNCHANGED <<children, opening>>
     ELSE WaiterEnds(n, Blocked(Ended(mod), waiter[n].res))
  /\ out' = Silent
  /\ UNCHANGED ofWaiters

(* ---------- session.start ---------- *)

ofStarter == <<option, call>>

SessionStart ==
  /\ starter.at = "none" /\ (mod.gen = 0 \/ events < MaxEvents)
  /\ events' = IF mod.gen = 0 THEN events ELSE events + 1
  /\ mod' = [mod EXCEPT !.gen = @ + 1, !.startPass = FALSE, !.replaced = FALSE]
  /\ IF option.autostart
     THEN starter' = [at |-> "status", res |-> "none"] /\ UNCHANGED opening
     ELSE starter' = [at |-> "open", res |-> "none"] /\ opening' = Opened
  /\ chosen' = FALSE /\ out' = Silent
  /\ UNCHANGED <<side, children, waiter, ofStarter>>

(* replaceOlderSidecar: one of an older release that holds no session and  *)
(* is not coming up is asked to stop, and may refuse.                      *)
MayReplace ==
  Answers /\ side.older /\ side.use \in {"never", "empty"} /\ side.warm # "coming"
OpensNow == starter' = [at |-> "open", res |-> "none"] /\ opening' = Opened

ReadStatus ==
  /\ starter.at = "status"
  /\ IF MayReplace
     THEN starter' = [at |-> "shutdown", res |-> "none"] /\ UNCHANGED opening
     ELSE OpensNow
  /\ out' = Silent
  /\ UNCHANGED <<side, children, mod, waiter, chosen, events, ofStarter>>
Shutdown ==
  /\ starter.at = "shutdown"
  /\ IF MayStop \/ side.at = "closing"
     THEN /\ side' = [side EXCEPT !.at = "closing"]
          /\ mod' = [mod EXCEPT !.replaced = TRUE]
          /\ starter' = [at |-> "free", res |-> "none"]
          /\ UNCHANGED opening
     ELSE OpensNow /\ UNCHANGED <<side, mod>>
  /\ out' = Silent
  /\ UNCHANGED <<children, waiter, chosen, events, ofStarter>>
AddressFree ==
  /\ starter.at = "free" /\ OpensNow
  /\ out' = Silent
  /\ UNCHANGED <<side, children, mod, waiter, chosen, events, ofStarter>>

StarterWakes ==
  /\ starter.at = "got"
  /\ starter' = [at |-> "none", res |-> "none"]
  /\ IF Lost(starter.res) /\ option.autostart
     THEN BeginStart(IF mod.replaced THEN "replacing" ELSE "first", starter.res = "closing")
     ELSE /\ mod' = IF starter.res = "ok" THEN mod ELSE Blocked(mod, starter.res)
          /\ UNCHANGED <<children, waiter>>
  /\ out' = Silent
  /\ UNCHANGED <<side, opening, chosen, events, ofStarter>>

(* ---------- Processes and other windows ---------- *)

ofWorld == <<option, opening, starter, waiter, call, chosen>>

(* A process listens, unless the address is taken or npx fails. *)
ChildComes ==
  /\ children.coming > 0
  /\ \/ /\ side.at = "free"
        /\ side' = Sidecar("up", "coming", FALSE, TRUE, "never")
        /\ children' = [children EXCEPT !.coming = @ - 1]
     \/ /\ children' = [coming |-> children.coming - 1, exited |-> children.exited + 1]
        /\ UNCHANGED side
  /\ out' = Silent
  /\ UNCHANGED <<events, mod, ofWorld>>
(* The end of a process is heard of, and ends the start it is taken for.   *)
HearExit ==
  /\ children.exited > 0
  /\ children' = [children EXCEPT !.exited = @ - 1]
  /\ mod' = [mod EXCEPT !.started = IF @ \in {"running", "opening"} THEN "exited" ELSE @]
  /\ out' = Silent
  /\ UNCHANGED <<side, events, ofWorld>>
Warms ==
  /\ Answers /\ side.warm = "coming"
  /\ \E warm \in {"ready", "failed"} : side' = [side EXCEPT !.warm = warm]
  /\ out' = Silent
  /\ UNCHANGED <<children, events, mod, ofWorld>>
Leaves ==
  /\ side' = Free
  /\ children' = IF side.ours THEN [children EXCEPT !.exited = @ + 1] ELSE children
ClosingEnds ==
  /\ side.at = "closing"
  /\ Leaves
  /\ out' = Silent
  /\ UNCHANGED <<events, mod, ofWorld>>
(* It dies, or another window has it stopped. *)
Loss ==
  /\ events < MaxEvents /\ events' = events + 1
  /\ \/ side.at = "up" /\ Leaves
     \/ MayStop /\ side' = [side EXCEPT !.at = "closing"] /\ UNCHANGED children
  /\ out' = Silent
  /\ UNCHANGED <<mod, ofWorld>>
(* Another window starts one, opens or ends its session; this window's     *)
(* session ends or has been idle for too long.                             *)
OthersDo ==
  /\ events < MaxEvents /\ events' = events + 1
  /\ \/ side.at = "free" /\ side' \in {Sidecar("up", "coming", older, FALSE, "others") :
                                        older \in BOOLEAN}
     \/ /\ side.at = "up"
        /\ \/ side.use \in {"never", "empty"} /\ side' = [side EXCEPT !.use = "others"]
           \/ side.use = "others" /\ side' = [side EXCEPT !.use = "empty"]
           \/ side.use = "ours" /\ side' = [side EXCEPT !.use = "empty"]
  /\ out' = Silent
  /\ UNCHANGED <<children, mod, ofWorld>>

(* ---------- The window ---------- *)

Wakes ==
  \/ StarterWakes
  \/ \E n \in Starts : WaiterWakes(n)
  \/ \E c \in Slots : CallWakes(c)
Happens ==
  \/ \E c \in Slots : CallGoesOn(c) \/ CallOther(c)
  \/ PutSession \/ ReviewPolicy
  \/ \E n \in Starts : Poll(n) \/ PollTimesOut(n)
  \/ SessionStart \/ ReadStatus \/ Shutdown \/ AddressFree
  \/ ChildComes \/ HearExit \/ Warms \/ ClosingEnds \/ Loss \/ OthersDo

NextStart == Wakes \/ (Quiet /\ Happens)

SpecStart == InitStart /\ [][NextStart]_startvars

(* ---------- What the window promises ---------- *)

\* Something goes out unprotected, before nullpii is ready, only on the
\* person's word: their answer to the dialog of this very start, "until
\* ready" said in this session, or the option; and never while a lost
\* sidecar is started again.
OnlyOnTheirWord ==
  out.any =>
    /\ out.start > 0 /\ waiter[out.start].kind # "again"
    /\ out.asked \/ chosen \/ option.starting = "pass"

\* A start that follows this window's own replacement of an older sidecar
\* waits under `pass` too (README.md:134 of the mod, startReplacedOne).
ReplacementsWait ==
  out.any /\ option.starting = "pass" => waiter[out.start].kind # "replacing"
=============================================================================
