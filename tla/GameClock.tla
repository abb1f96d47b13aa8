----------------------------- MODULE GameClock -----------------------------
(***************************************************************************)
(* The time of the game: the loop of Game::run, how often it draws, the     *)
(* toast GameUI shows and a job of a UnitProductionManager.  The clock is   *)
(* gettimeofday, which may be set back.  Times are ticks; each is kept as   *)
(* its distance to start_time, the clock's reading when the iteration       *)
(* began, which is also the cached time its handlers are given.             *)
(***************************************************************************)
EXTENDS Integers

CONSTANTS
  Second,       \* ticks in a second
  Period,       \* for each interface, 1 / getFPS() in ticks
  Work,         \* how long handlers and draw may take together
  Sleep,        \* how long usleep may take
  Longest,      \* no iteration takes longer
  SetBack,      \* how far the clock is set back at a time
  Duration,     \* of a toast, in seconds
  BuildTime,    \* m_time of a job, in seconds
  PlayTime,     \* GameUI_dummy plays that long, in seconds
  MaxAge,       \* bound: an age stays there, beyond all durations
  MaxSetBacks,  \* bound: how often the clock is set back
  MaxToasts,    \* bound: toasts
  MaxJobs       \* bound: jobs

UIs == {"SDL", "ncurses", "dummy"}

ASSUME TicksAssumption ==
  /\ Second \in Nat \ {0} /\ Period \in [UIs -> Nat]
  /\ Work \subseteq Nat /\ Sleep \subseteq Nat \ {0} /\ SetBack \in Nat
  /\ Sleep # {} /\ Longest \in Nat
  /\ \A w \in Work, s \in Sleep : w + s <= Longest
ASSUME DurationsAssumption ==
  Duration \in Nat \ {0} /\ BuildTime \in Nat /\ PlayTime \in Nat
ASSUME ClockBoundsAssumption ==
  /\ MaxSetBacks \in Nat /\ MaxToasts \in Nat /\ MaxJobs \in Nat
  /\ MaxAge \in Nat

VARIABLES
  ui,        \* the interface that main created
  pc,        \* the part of the loop that runs next
  ended,     \* m_is_game_ended
  phase,     \* start_time modulo a second
  spent,     \* the clock's reading minus start_time
  drawn,     \* start_time minus m_last_draw
  toast,     \* the toast: shown, and start_time minus its m_toast.started
  job,       \* the job, and start_time minus its started_time
  played,    \* start_time, for GameUI_dummy only
  real,      \* time that really passed: since the toast, since the job began
  setBacks,  \* for MaxSetBacks
  backToZero,\* the clock was set back and may read 0.0 once more
  toasts, nJobs \* for MaxToasts and MaxJobs

counters == <<setBacks, backToZero, toasts, nJobs>>
vars == <<ui, pc, ended, phase, spent, drawn, toast, job, played, real,
          counters>>

NoToast == [shown |-> FALSE, age |-> 0]
NoJob == [state |-> "none", age |-> 0]

(* Elapsed time starts with the fraction of the second startTimer cut off.   *)
(* In the first iteration processObjects finds no job and nothing to toast.  *)
Init ==
  /\ ui \in UIs /\ pc = "ui" /\ ended = FALSE
  /\ phase \in 0 .. Second - 1 /\ spent = 0
  /\ drawn = phase /\ played = phase
  /\ toast = NoToast /\ job = NoJob
  /\ real = [toast |-> 0, job |-> 0]
  /\ setBacks = 0 /\ backToZero = FALSE /\ toasts = 0 /\ nJobs = 0

-----------------------------------------------------------------------------
(* Game::processObjects.                                                    *)

(* GameUI::toast stores a double as time_t: the fraction is lost.           *)
ToastAge == phase

(* Some order fails.  GameUI_dummy ignores it.                              *)
Toast ==
  /\ pc = "objects" /\ toasts < MaxToasts /\ ui # "dummy"
  /\ toast' = [shown |-> TRUE, age |-> ToastAge]
  /\ real' = [real EXCEPT !.toast = 0]
  /\ toasts' = toasts + 1
  /\ UNCHANGED <<ui, pc, ended, phase, spent, drawn, job, played, setBacks,
                 backToZero, nJobs>>

(* Mutant: a job is done when its time has almost come.                     *)
Hurried(age) == age + Second >= BuildTime * Second

BuildTimeOver(age) == age >= BuildTime * Second

(* Mutant: isStarted is never true.                                         *)
NeverStarted(age, zero) ==
  IF BuildTimeOver(age) THEN NoJob ELSE [state |-> "waiting", age |-> 0]

(* UnitProductionManager::process; done when its time has come.  A          *)
(* started_time of 0.0 counts as not started.                               *)
AfterProcess(age, zero) ==
  IF BuildTimeOver(age) THEN NoJob
  ELSE [state |-> IF zero THEN "waiting" ELSE "started", age |-> age]

ProcessJob ==
  /\ pc = "objects"
  /\ \/ job = NoJob /\ UNCHANGED <<job, real, backToZero>>
     \/ /\ job.state = "waiting"
        /\ \E zero \in {FALSE, backToZero} :
             /\ job' = AfterProcess(0, zero)
             /\ backToZero' = (backToZero /\ ~zero)
        /\ UNCHANGED real
     \/ /\ job.state = "started"
        /\ job' = AfterProcess(job.age, FALSE)
        /\ UNCHANGED <<real, backToZero>>
  /\ pc' = "ui"
  /\ UNCHANGED <<ui, ended, phase, spent, drawn, toast, played, setBacks,
                 toasts, nJobs>>

-----------------------------------------------------------------------------
(* The interface's processFrame, and draw.                                  *)

(* Key 'd'.                                                                 *)
NewJob ==
  /\ pc = "ui" /\ ui # "dummy" /\ job = NoJob /\ nJobs < MaxJobs
  /\ job' = [state |-> "waiting", age |-> 0]
  /\ real' = [real EXCEPT !.job = 0]
  /\ nJobs' = nJobs + 1
  /\ UNCHANGED <<ui, pc, ended, phase, spent, drawn, toast, played, setBacks,
                 backToZero, toasts>>

(* SDL_QUIT, or the end of GameUI_dummy's play; ncurses never ends the game. *)
ProcessUI ==
  /\ pc = "ui" /\ pc' = "draw"
  /\ spent' \in Work
  /\ \/ ui = "SDL" /\ ended' \in {ended, TRUE}
     \/ ui = "ncurses" /\ ended' = ended
     \/ ui = "dummy" /\ ended' = (ended \/ played + spent' > PlayTime * Second)
  /\ UNCHANGED <<ui, phase, drawn, toast, job, played, real, counters>>

(* Mutant: the duration is over a second too early.                         *)
OffByOne ==
  IF toast.shown /\ toast.age < (Duration - 1) * Second THEN toast ELSE NoToast

(* Mutant: clearToast is not called.                                        *)
KeepsToast == toast

(* GameUI::checkToast.                                                      *)
CheckedToast ==
  IF toast.shown /\ toast.age < Duration * Second THEN toast ELSE NoToast

(* Mutant: a draw comes too late by one period.                             *)
EveryOtherPeriod == drawn > 2 * Period[ui]

(* process_finished_time is start_time.                                     *)
TimeToDraw == drawn > Period[ui]

(* draw, which checks the toast; m_last_draw is the time it is finished.    *)
Draw ==
  /\ pc = "draw" /\ TimeToDraw
  /\ drawn' = -spent
  /\ toast' = IF ui = "dummy" THEN toast ELSE CheckedToast
  /\ pc' = "sleep"
  /\ UNCHANGED <<ui, ended, phase, spent, job, played, real, counters>>

SkipDraw ==
  /\ pc = "draw" /\ ~TimeToDraw
  /\ pc' = "sleep"
  /\ UNCHANGED <<ui, ended, phase, spent, drawn, toast, job, played, real,
                 counters>>

-----------------------------------------------------------------------------
(* The end of an iteration.                                                 *)

Capped(age) == IF age > MaxAge THEN MaxAge ELSE age
Older(r, d) == [r EXCEPT !.age = Capped(@ + d)]

(* Mutant: a full second is not cut off.                                    *)
Uncut(d) == phase + d

PhaseAfter(d) == (phase + d) % Second

(* Mutant: the loop never looks at m_is_game_ended.                         *)
Endless == "objects"

NextPart == IF ended THEN "ended" ELSE "objects"

(* usleep and end_time, the next start_time: the clock reads d more, while   *)
(* e has passed.                                                            *)
Advance(d, e) ==
  /\ pc = "sleep" /\ pc' = NextPart
  /\ spent' = 0
  /\ phase' = PhaseAfter(d)
  /\ drawn' = drawn + d
  /\ toast' = IF toast.shown THEN Older(toast, d) ELSE toast
  /\ job' = IF job.state = "started" THEN Older(job, d) ELSE job
  /\ played' = IF ui = "dummy" /\ ~ended THEN played + d ELSE played
  /\ real' = [toast |-> IF toast.shown THEN Capped(real.toast + e) ELSE 0,
              job |-> IF job = NoJob THEN 0 ELSE Capped(real.job + e)]
  /\ UNCHANGED <<ui, ended, toasts, nJobs>>

Wait ==
  /\ \E s \in Sleep : Advance(spent + s, spent + s)
  /\ UNCHANGED <<setBacks, backToZero>>

(* Someone sets the clock back meanwhile.                                   *)
WaitSetBack ==
  /\ setBacks < MaxSetBacks
  /\ \E s \in Sleep : Advance(spent + s - SetBack, spent + s)
  /\ setBacks' = setBacks + 1 /\ backToZero' = TRUE

Loop == ProcessJob \/ ProcessUI \/ Draw \/ SkipDraw \/ Wait
Next == Loop \/ Toast \/ NewJob \/ WaitSetBack

(* main's thread goes on; keys, failures and the clock are not its affair.   *)
Spec == Init /\ [][Next]_vars /\ WF_vars(Loop)

-----------------------------------------------------------------------------
(* Correctness.                                                             *)

BackInAll == setBacks * SetBack

(* The values the variables can take.                                       *)
TypeOK ==
  /\ ui \in UIs /\ pc \in {"objects", "ui", "draw", "sleep", "ended"}
  /\ ended \in BOOLEAN /\ backToZero \in BOOLEAN
  /\ phase \in 0 .. Second - 1 /\ spent \in Nat /\ drawn \in Int
  /\ toast \in [shown: BOOLEAN, age: Int]
  /\ job \in [state: {"none", "waiting", "started"}, age: Int]
  /\ played \in Int /\ real \in [toast: Nat, job: Nat]
  /\ setBacks \in Nat /\ toasts \in Nat /\ nJobs \in Nat

(* The screen is never older than a period and an iteration; a clock that    *)
(* was set back stops it from being drawn, but for no longer than that.      *)
ScreenIsFresh ==
  pc = "objects" =>
    /\ drawn <= Period[ui] + Longest
    /\ drawn >= -BackInAll

(* A toast that is taken off the screen was there for its duration, or up to *)
(* one second less (its start is cut to a full second), and for no longer    *)
(* than that, but for one period and two iterations until it was drawn and   *)
(* the time by which the clock was set back.                                 *)
ToastStays ==
  [][toast.shown /\ ~toast'.shown =>
       /\ real.toast > (Duration - 1) * Second
       /\ real.toast <= Duration * Second + Period[ui]
                          + 2 * Longest + BackInAll]_vars

(* A job is never done before its time has really passed, and after it       *)
(* within two iterations more, apart from what the clock was set back and    *)
(* one iteration each time: a started_time that happens to be 0.0 costs no   *)
(* more than that.                                                           *)
JobOnTime ==
  [][job # NoJob /\ job' = NoJob =>
       /\ real.job >= BuildTime * Second
       /\ real.job <= BuildTime * Second + (2 + setBacks) * Longest
                        + BackInAll]_vars

(* While the game goes on, a set-back clock notwithstanding, toasts vanish   *)
(* and jobs are done.                                                        *)
ToastsVanish == toast.shown ~> ~toast.shown \/ ended
JobsGetDone == job # NoJob ~> job = NoJob \/ ended

(* A game without an interface comes to its end by itself.                   *)
DummyEnds == ui = "dummy" ~> pc = "ended"

=============================================================================
