-------------------------- MODULE GameClockProofs --------------------------
(***************************************************************************)
(* Theorems about GameClock: for every frame rate, every duration and every *)
(* length of an iteration, and however often and far the clock is set back. *)
(***************************************************************************)
EXTENDS GameClock, TLAPS

-----------------------------------------------------------------------------
(* Ages that stay at MaxAge.                                                *)

LEMMA CappedNat == \A n \in Int : Capped(n) \in Int /\ (n >= 0 => Capped(n) \in Nat)
BY ClockBoundsAssumption DEF Capped

LEMMA CappedLess == \A n \in Int : Capped(n) <= n
BY ClockBoundsAssumption DEF Capped

(* Two ages that stay at the same bound do not drift apart.                 *)
LEMMA CappedTogether ==
  ASSUME NEW m \in Int, NEW n \in Int, NEW k \in Nat, m <= n + k
  PROVE  Capped(m) <= Capped(n) + k
BY ClockBoundsAssumption DEF Capped

LEMMA MoreIsEnough == \A m, n \in Int, k \in Nat : m >= n => m + k >= n
OBVIOUS

LEMMA WithinSum ==
  ASSUME NEW a \in Int, NEW e \in Int, NEW w \in Int, NEW x \in Int,
         NEW y \in Int, NEW b \in Int, NEW l \in Int,
         a <= w - x, w - x <= b - y, e <= l
  PROVE  a + e <= b + l - y
OBVIOUS

(* What the set-backs so far may have cost.                                 *)
Waits == setBacks * Longest

LEMMA Costs ==
  ASSUME setBacks \in Nat
  PROVE  /\ BackInAll \in Nat /\ Waits \in Nat
         /\ (setBacks + 1) * SetBack = BackInAll + SetBack
         /\ (setBacks + 1) * Longest = Waits + Longest
         /\ (2 + setBacks) * Longest = Waits + Longest + Longest
         /\ setBacks > 0 => Waits >= Longest
<1>1. SetBack \in Nat /\ Longest \in Nat
  BY TicksAssumption
<1>2. /\ (setBacks + 1) * SetBack = setBacks * SetBack + SetBack
      /\ (setBacks + 1) * Longest = setBacks * Longest + Longest
      /\ (2 + setBacks) * Longest = setBacks * Longest + Longest + Longest
      /\ setBacks * SetBack \in Nat /\ setBacks * Longest \in Nat
  BY <1>1
<1>3. setBacks > 0 => setBacks * Longest >= Longest
  BY <1>1
<1>. QED
  BY <1>2, <1>3 DEF BackInAll, Waits

-----------------------------------------------------------------------------
(* Types.                                                                   *)

LEMMA Seconds ==
  /\ Duration * Second \in Nat /\ BuildTime * Second \in Nat
  /\ PlayTime * Second \in Nat /\ Duration * Second >= Second
  /\ (Duration - 1) * Second = Duration * Second - Second
  /\ Second \in Nat \ {0}
<1>1. Second \in Nat \ {0} /\ Duration \in Nat \ {0} /\ BuildTime \in Nat
        /\ PlayTime \in Nat
  BY TicksAssumption, DurationsAssumption
<1>. QED
  BY <1>1

LEMMA PeriodNat == ASSUME TypeOK PROVE Period[ui] \in Nat
BY TicksAssumption DEF TypeOK

LEMMA ClockTypeInit == Init => TypeOK
<1>. SUFFICES ASSUME Init PROVE TypeOK
  OBVIOUS
<1>1. phase \in 0 .. Second - 1 /\ drawn \in Int /\ played \in Int /\ spent \in Nat
  BY TicksAssumption DEF Init
<1>2. toast \in [shown: BOOLEAN, age: Int]
  BY DEF Init, NoToast
<1>3. job \in [state: {"none", "waiting", "started"}, age: Int]
  BY DEF Init, NoJob
<1>4. real \in [toast: Nat, job: Nat]
  BY DEF Init
<1>5. /\ ui \in UIs /\ pc = "ui" /\ ended \in BOOLEAN /\ backToZero \in BOOLEAN
      /\ setBacks \in Nat /\ toasts \in Nat /\ nJobs \in Nat
  BY DEF Init
<1>. QED
  BY <1>1, <1>2, <1>3, <1>4, <1>5 DEF TypeOK

LEMMA AdvanceType ==
  ASSUME TypeOK, NEW d \in Int, NEW e \in Nat, Advance(d, e),
         setBacks' \in Nat, backToZero' \in BOOLEAN
  PROVE  TypeOK'
<1>1. phase' \in 0 .. Second - 1
  <2>1. phase + d \in Int /\ Second \in Nat \ {0}
    BY TicksAssumption DEF TypeOK
  <2>2. (phase + d) % Second \in 0 .. Second - 1
    BY <2>1
  <2>. QED
    BY <2>2 DEF Advance, PhaseAfter
<1>2. toast' \in [shown: BOOLEAN, age: Int] /\ real'.toast \in Nat
  <2>1. /\ toast' = IF toast.shown THEN [toast EXCEPT !.age = Capped(@ + d)]
                    ELSE toast
        /\ real'.toast = IF toast.shown THEN Capped(real.toast + e) ELSE 0
    BY DEF Advance, Older
  <2>2. toast \in [shown: BOOLEAN, age: Int] /\ real.toast \in Nat
    BY DEF TypeOK
  <2>3. Capped(toast.age + d) \in Int /\ Capped(real.toast + e) \in Nat
    BY <2>2, CappedNat
  <2>. QED
    BY <2>1, <2>2, <2>3
<1>3. job' \in [state: {"none", "waiting", "started"}, age: Int]
      /\ real'.job \in Nat
  <2>1. /\ job' = IF job.state = "started" THEN [job EXCEPT !.age = Capped(@ + d)]
                  ELSE job
        /\ real'.job = IF job = NoJob THEN 0 ELSE Capped(real.job + e)
    BY DEF Advance, Older
  <2>2. job \in [state: {"none", "waiting", "started"}, age: Int]
        /\ real.job \in Nat
    BY DEF TypeOK
  <2>3. Capped(job.age + d) \in Int /\ Capped(real.job + e) \in Nat
    BY <2>2, CappedNat
  <2>. QED
    BY <2>1, <2>2, <2>3
<1>4. real' \in [toast: Nat, job: Nat]
  BY <1>2, <1>3 DEF Advance
<1>5. pc' \in {"objects", "ended"}
  BY DEF Advance, NextPart
<1>6. /\ drawn' \in Int /\ played' \in Int /\ spent' = 0
      /\ UNCHANGED <<ui, ended, toasts, nJobs>>
  BY DEF Advance, TypeOK
<1>. QED
  BY <1>1, <1>2, <1>3, <1>4, <1>5, <1>6 DEF TypeOK

LEMMA ProcessJobType == ASSUME TypeOK, ProcessJob PROVE TypeOK'
<1>1. job' \in [state: {"none", "waiting", "started"}, age: Int]
  <2>. DEFINE Jobs == [state: {"none", "waiting", "started"}, age: Int]
  <2>1. job \in Jobs /\ job.age \in Int
    BY DEF TypeOK
  <2>2. ASSUME NEW age \in Int, NEW zero PROVE AfterProcess(age, zero) \in Jobs
    BY DEF AfterProcess, NoJob
  <2>. HIDE DEF Jobs
  <2>3. job' = job \/ \E age \in {0, job.age} : \E zero : job' = AfterProcess(age, zero)
    BY DEF ProcessJob
  <2>4. job' \in Jobs
    BY <2>1, <2>2, <2>3
  <2>. QED
    BY <2>4 DEF Jobs
<1>2. real' = real /\ backToZero' \in BOOLEAN
  BY DEF ProcessJob, TypeOK
<1>. QED
  BY <1>1, <1>2 DEF ProcessJob, TypeOK

LEMMA ClockTypeStep == TypeOK /\ [Next]_vars => TypeOK'
<1>1. CASE TypeOK /\ ProcessJob
  BY <1>1, ProcessJobType
<1>2. CASE TypeOK /\ ProcessUI
  BY <1>2, TicksAssumption DEF TypeOK, ProcessUI, counters
<1>3. CASE TypeOK /\ (Draw \/ SkipDraw)
  <2>1. toast' \in [shown: BOOLEAN, age: Int]
    <3>1. toast' = toast \/ toast' = NoToast
      BY <1>3 DEF Draw, SkipDraw, CheckedToast
    <3>2. NoToast \in [shown: BOOLEAN, age: Int]
      BY DEF NoToast
    <3>. QED
      BY <1>3, <3>1, <3>2 DEF TypeOK
  <2>2. drawn' \in Int
    BY <1>3 DEF TypeOK, Draw, SkipDraw
  <2>. QED
    BY <1>3, <2>1, <2>2 DEF TypeOK, Draw, SkipDraw, counters
<1>4. CASE TypeOK /\ Wait
  <2>1. PICK s \in Sleep : Advance(spent + s, spent + s)
    BY <1>4 DEF Wait
  <2>2. spent + s \in Nat /\ setBacks' \in Nat /\ backToZero' \in BOOLEAN
    BY <1>4, TicksAssumption DEF Wait, TypeOK
  <2>. QED
    BY <1>4, <2>1, <2>2, AdvanceType
<1>5. CASE TypeOK /\ WaitSetBack
  <2>1. PICK s \in Sleep : Advance(spent + s - SetBack, spent + s)
    BY <1>5 DEF WaitSetBack
  <2>2. /\ spent + s \in Nat /\ spent + s - SetBack \in Int
        /\ setBacks' \in Nat /\ backToZero' \in BOOLEAN
    BY <1>5, TicksAssumption DEF WaitSetBack, TypeOK
  <2>. QED
    BY <1>5, <2>1, <2>2, AdvanceType
<1>6. CASE TypeOK /\ (Toast \/ NewJob)
  <2>1. /\ toast' \in [shown: BOOLEAN, age: Int]
        /\ job' \in [state: {"none", "waiting", "started"}, age: Int]
    <3>1. phase \in Int
      BY <1>6, TicksAssumption DEF TypeOK
    <3>2. CASE Toast
      BY <1>6, <3>1, <3>2 DEF TypeOK, Toast, ToastAge
    <3>3. CASE NewJob
      BY <1>6, <3>3 DEF TypeOK, NewJob
    <3>. QED
      BY <1>6, <3>2, <3>3
  <2>2. real' \in [toast: Nat, job: Nat] /\ toasts' \in Nat /\ nJobs' \in Nat
    BY <1>6 DEF TypeOK, Toast, NewJob
  <2>. QED
    BY <1>6, <2>1, <2>2 DEF TypeOK, Toast, NewJob
<1>7. CASE TypeOK /\ UNCHANGED vars
  BY <1>7 DEF TypeOK, vars, counters
<1>. QED
  BY <1>1, <1>2, <1>3, <1>4, <1>5, <1>6, <1>7 DEF Next, Loop

-----------------------------------------------------------------------------
(* The invariant.                                                           *)

(* How long ago the last draw was, at every part of the loop.               *)
DrawnInTime ==
  /\ pc \in {"objects", "ui", "ended"} => spent = 0
  /\ pc \in {"draw", "sleep"} => spent \in Work
  /\ pc = "objects" => drawn <= Period[ui] + Longest
  /\ pc = "sleep" => drawn <= Period[ui]
  /\ drawn + spent >= -BackInAll

(* A toast's age, the time it is really there and the time since the last    *)
(* draw, which is the one that kept it.                                      *)
ToastInTime ==
  toast.shown =>
    /\ ui # "dummy"
    /\ pc \in {"ui", "draw"} => drawn <= Period[ui] + Longest
    /\ real.toast <= toast.age + BackInAll
    /\ toast.age <= real.toast + Second - 1
    /\ real.toast <= Duration * Second + Longest + drawn + BackInAll

(* Waiting costs one iteration and one more for every reading of 0.0, of     *)
(* which there is at most one to each set-back.                              *)
WaitedSoFar ==
  real.job <= Waits + (IF pc \in {"objects", "ended"} THEN Longest ELSE 0)
                    - (IF backToZero THEN Longest ELSE 0)

JobInTime ==
  /\ backToZero => setBacks > 0
  /\ job.state = "none" => job = NoJob
  /\ job.state = "waiting" => WaitedSoFar
  /\ job.state = "started" =>
       /\ job.age <= real.job
       /\ real.job <= job.age + Waits + Longest + BackInAll
       /\ job.age < BuildTime * Second
                      + (IF pc \in {"objects", "ended"} THEN Longest ELSE 0)

ClockInv == TypeOK /\ DrawnInTime /\ ToastInTime /\ JobInTime

LEMMA NoJobInTime ==
  ASSUME backToZero' => setBacks' > 0, job' = NoJob PROVE JobInTime'
<1>1. job'.state = "none"
  BY DEF NoJob
<1>2. job'.state # "waiting" /\ job'.state # "started"
  BY <1>1
<1>. QED
  BY <1>2 DEF JobInTime

LEMMA ClockInit == Init => ClockInv
<1>. SUFFICES ASSUME Init PROVE ClockInv
  OBVIOUS
<1>1. TypeOK
  BY ClockTypeInit
<1>2. setBacks \in Nat
  BY <1>1 DEF TypeOK
<1>3. BackInAll \in Nat
  BY <1>2, Costs
<1>4. DrawnInTime
  BY <1>1, <1>3 DEF Init, DrawnInTime, TypeOK
<1>5. ToastInTime
  BY DEF Init, ToastInTime, NoToast
<1>6. JobInTime
  BY DEF Init, JobInTime, NoJob
<1>. QED
  BY <1>1, <1>4, <1>5, <1>6 DEF ClockInv

LEMMA ObjectsStep == ASSUME ClockInv, ProcessJob \/ Toast PROVE ClockInv'
<1>1. TypeOK /\ TypeOK'
  BY ClockTypeStep DEF ClockInv, Next, Loop
<1>2. /\ pc = "objects" /\ pc' \in {"objects", "ui"}
      /\ UNCHANGED <<ui, spent, drawn, setBacks>>
      /\ BackInAll' = BackInAll /\ Waits' = Waits
  BY DEF ProcessJob, Toast, BackInAll, Waits
<1>3. /\ BackInAll \in Nat /\ Waits \in Nat /\ (setBacks > 0 => Waits >= Longest)
      /\ Longest \in Nat
  BY <1>1, Costs, TicksAssumption DEF TypeOK
<1>4. /\ drawn \in Int /\ Period[ui] \in Nat /\ spent = 0
      /\ drawn <= Period[ui] + Longest /\ drawn >= -BackInAll
  BY <1>1, <1>2, <1>3, PeriodNat DEF ClockInv, DrawnInTime, TypeOK
<1>5. DrawnInTime'
  BY <1>2, <1>4 DEF DrawnInTime
<1>6. CASE ProcessJob
  <2>1. ToastInTime'
    <3>1. toast' = toast /\ real' = real
      BY <1>6 DEF ProcessJob
    <3>. QED
      BY <1>2, <1>4, <3>1 DEF ClockInv, ToastInTime
  <2>2. JobInTime'
    <3>1. BuildTime * Second \in Nat /\ real.job \in Nat
      BY <1>1, Seconds DEF TypeOK
    <3>2. real' = real /\ pc' = "ui"
      BY <1>6 DEF ProcessJob
    <3>3. CASE job = NoJob /\ UNCHANGED <<job, backToZero>>
      BY <1>2, <3>2, <3>3 DEF ClockInv, JobInTime, NoJob
    <3>4. ASSUME job.state = "waiting", NEW zero \in {FALSE, backToZero},
                 job' = AfterProcess(0, zero),
                 backToZero' = (backToZero /\ ~zero)
          PROVE  JobInTime'
      <4>1. backToZero => setBacks > 0
        BY DEF ClockInv, JobInTime
      <4>2. real.job <= Waits + Longest - (IF backToZero THEN Longest ELSE 0)
        BY <1>2, <3>4 DEF ClockInv, JobInTime, WaitedSoFar
      <4>3. CASE BuildTimeOver(0)
        <5>1. job' = NoJob
          BY <3>4, <4>3 DEF AfterProcess
        <5>2. backToZero' => setBacks' > 0
          BY <1>2, <3>4, <4>1
        <5>. QED
          BY <5>1, <5>2, NoJobInTime
      <4>4. CASE ~BuildTimeOver(0) /\ zero
        <5>1. /\ job'.state = "waiting" /\ ~backToZero' /\ backToZero
          BY <3>4, <4>4 DEF AfterProcess
        <5>2. WaitedSoFar'
          BY <1>2, <1>3, <3>1, <3>2, <4>2, <5>1 DEF WaitedSoFar
        <5>. QED
          BY <5>1, <5>2 DEF JobInTime
      <4>5. CASE ~BuildTimeOver(0) /\ ~zero
        <5>1. job'.state = "started" /\ job'.age = 0 /\ (backToZero' => backToZero)
          BY <3>4, <4>5 DEF AfterProcess
        <5>2. 0 < BuildTime * Second
          BY <3>1, <4>5 DEF BuildTimeOver
        <5>3. real.job <= 0 + Waits + Longest + BackInAll
          BY <1>3, <3>1, <4>2
        <5>. QED
          BY <1>2, <3>1, <3>2, <4>1, <5>1, <5>2, <5>3 DEF JobInTime
      <4>. QED
        BY <4>3, <4>4, <4>5
    <3>5. ASSUME job.state = "started", job' = AfterProcess(job.age, FALSE),
                 backToZero' = backToZero
          PROVE  JobInTime'
      <4>1. CASE BuildTimeOver(job.age)
        <5>1. job' = NoJob
          BY <3>5, <4>1 DEF AfterProcess
        <5>2. backToZero' => setBacks' > 0
          BY <1>2, <3>5 DEF ClockInv, JobInTime
        <5>. QED
          BY <5>1, <5>2, NoJobInTime
      <4>2. CASE ~BuildTimeOver(job.age)
        <5>1. job'.state = "started" /\ job'.age = job.age
          BY <3>5, <4>2 DEF AfterProcess
        <5>2. job.age < BuildTime * Second /\ job.age \in Int
          BY <1>1, <3>1, <4>2 DEF BuildTimeOver, TypeOK
        <5>3. backToZero' => setBacks' > 0
          BY <1>2, <3>5 DEF ClockInv, JobInTime
        <5>4. /\ job.age <= real.job
              /\ real.job <= job.age + Waits + Longest + BackInAll
          BY <3>5 DEF ClockInv, JobInTime
        <5>5. pc' \notin {"objects", "ended"}
          BY <3>2
        <5>6. job.age < BuildTime * Second + 0
          BY <3>1, <5>2
        <5>. QED
          BY <1>2, <3>2, <5>1, <5>3, <5>4, <5>5, <5>6 DEF JobInTime
      <4>. QED
        BY <4>1, <4>2
    <3>. QED
      BY <1>6, <3>3, <3>4, <3>5 DEF ProcessJob
  <2>. QED
    BY <1>1, <1>5, <2>1, <2>2 DEF ClockInv
<1>7. CASE Toast
  <2>1. /\ toast' = [shown |-> TRUE, age |-> phase] /\ real'.toast = 0
        /\ real'.job = real.job /\ job' = job /\ backToZero' = backToZero
        /\ ui # "dummy" /\ pc' = pc
    BY <1>1, <1>7 DEF Toast, ToastAge, TypeOK
  <2>2. phase \in 0 .. Second - 1 /\ Duration * Second \in Nat
    BY <1>1, Seconds DEF TypeOK
  <2>3. ToastInTime'
    <3>1. toast'.age = phase
      BY <2>1
    <3>2. 0 <= phase + BackInAll /\ phase <= 0 + Second - 1
          /\ 0 <= Duration * Second + Longest + drawn + BackInAll
      BY <1>3, <1>4, <2>2, Seconds
    <3>. QED
      BY <1>2, <1>4, <2>1, <3>1, <3>2 DEF ToastInTime
  <2>4. JobInTime'
    BY <1>2, <2>1 DEF ClockInv, JobInTime, WaitedSoFar
  <2>. QED
    BY <1>1, <1>5, <2>3, <2>4 DEF ClockInv
<1>. QED
  BY <1>6, <1>7

LEMMA UIStep == ASSUME ClockInv, NewJob \/ ProcessUI PROVE ClockInv'
<1>1. TypeOK /\ TypeOK'
  BY ClockTypeStep DEF ClockInv, Next, Loop
<1>2. /\ pc = "ui" /\ pc' \in {"ui", "draw"} /\ backToZero' = backToZero
      /\ UNCHANGED <<ui, drawn, toast, setBacks>>
      /\ BackInAll' = BackInAll /\ Waits' = Waits /\ real'.toast = real.toast
  BY <1>1 DEF NewJob, ProcessUI, counters, BackInAll, Waits, TypeOK
<1>3. /\ BackInAll \in Nat /\ Waits \in Nat /\ (setBacks > 0 => Waits >= Longest)
      /\ Longest \in Nat
  BY <1>1, Costs, TicksAssumption DEF TypeOK
<1>4. spent = 0 /\ drawn \in Int /\ drawn >= -BackInAll
  BY <1>1, <1>2, <1>3 DEF ClockInv, DrawnInTime, TypeOK
<1>5. spent' \in Nat /\ (pc' = "ui" => spent' = 0) /\ (pc' = "draw" => spent' \in Work)
  BY <1>1, <1>2, <1>4 DEF NewJob, ProcessUI, TypeOK
<1>6. DrawnInTime'
  <2>1. drawn + spent' >= -BackInAll
    <3>1. /\ drawn \in Int /\ spent' \in Nat /\ BackInAll \in Nat
          /\ drawn >= -BackInAll /\ -BackInAll \in Int
      BY <1>3, <1>4, <1>5
    <3>. QED
      BY <3>1, MoreIsEnough
  <2>. QED
    BY <1>2, <1>5, <2>1 DEF DrawnInTime
<1>7. ToastInTime'
  BY <1>2 DEF ClockInv, ToastInTime
<1>8. JobInTime'
  <2>1. backToZero => setBacks > 0
    BY DEF ClockInv, JobInTime
  <2>2. CASE NewJob
    <3>1. job'.state = "waiting" /\ real'.job = 0
      BY <1>1, <2>2 DEF NewJob, TypeOK
    <3>2. WaitedSoFar'
      BY <1>2, <1>3, <2>1, <3>1 DEF WaitedSoFar
    <3>. QED
      BY <1>2, <2>1, <3>1, <3>2 DEF JobInTime
  <2>3. CASE ProcessUI
    <3>1. job' = job /\ real' = real
      BY <2>3 DEF ProcessUI
    <3>2. pc \notin {"objects", "ended"} /\ pc' \notin {"objects", "ended"}
      BY <1>2
    <3>. QED
      BY <1>2, <3>1, <3>2 DEF ClockInv, JobInTime, WaitedSoFar
  <2>. QED
    BY <2>2, <2>3
<1>. QED
  BY <1>1, <1>6, <1>7, <1>8 DEF ClockInv

LEMMA DrawStep == ASSUME ClockInv, Draw \/ SkipDraw PROVE ClockInv'
<1>1. TypeOK /\ TypeOK'
  BY ClockTypeStep DEF ClockInv, Next, Loop
<1>2. /\ pc = "draw" /\ pc' = "sleep" /\ backToZero' = backToZero
      /\ UNCHANGED <<ui, spent, job, real, setBacks>>
      /\ BackInAll' = BackInAll /\ Waits' = Waits
  BY DEF Draw, SkipDraw, counters, BackInAll, Waits
<1>3. /\ BackInAll \in Nat /\ Longest \in Nat /\ Period[ui] \in Nat
  BY <1>1, Costs, TicksAssumption, PeriodNat DEF TypeOK
<1>4. /\ spent \in Work /\ spent \in Nat /\ spent <= Longest
      /\ drawn \in Int /\ drawn + spent >= -BackInAll
  <2>1. spent \in Work
    BY <1>2 DEF ClockInv, DrawnInTime
  <2>2. PICK s \in Sleep : s \in Nat
    BY TicksAssumption
  <2>3. spent \in Nat /\ spent + s <= Longest
    BY <2>1, TicksAssumption
  <2>4. drawn \in Int /\ drawn + spent >= -BackInAll
    BY <1>1 DEF ClockInv, DrawnInTime, TypeOK
  <2>. QED
    BY <1>3, <2>1, <2>2, <2>3, <2>4
<1>5. JobInTime'
  <2>1. pc \notin {"objects", "ended"} /\ pc' \notin {"objects", "ended"}
    BY <1>2
  <2>. QED
    BY <1>2, <2>1 DEF ClockInv, JobInTime, WaitedSoFar
<1>6. CASE Draw
  <2>1. drawn' = -spent /\ drawn' \in Int /\ drawn > Period[ui]
    BY <1>4, <1>6 DEF Draw, TimeToDraw
  <2>2. DrawnInTime'
    <3>1. drawn' <= Period[ui] /\ drawn' + spent >= -BackInAll
      BY <1>3, <1>4, <2>1
    <3>. QED
      BY <1>2, <1>4, <3>1 DEF DrawnInTime
  <2>3. ToastInTime'
    <3>. SUFFICES ASSUME toast'.shown PROVE ToastInTime'
      BY DEF ToastInTime
    <3>1. toast.shown => ui # "dummy"
      BY DEF ClockInv, ToastInTime
    <3>2. CASE ui = "dummy"
      <4>1. toast' = toast
        BY <1>6, <3>2 DEF Draw
      <4>. QED
        BY <3>1, <3>2, <4>1
    <3>3. CASE ui # "dummy"
      <4>1. toast' = CheckedToast
        BY <1>6, <3>3 DEF Draw
      <4>2. toast.shown /\ toast.age < Duration * Second /\ toast' = toast
        BY <4>1 DEF CheckedToast, NoToast
      <4>3. /\ real.toast <= toast.age + BackInAll
            /\ toast.age <= real.toast + Second - 1
        BY <4>2 DEF ClockInv, ToastInTime
      <4>4. toast.age \in Int /\ real.toast \in Nat
        BY <1>1 DEF TypeOK
      <4>5. real.toast <= Duration * Second + Longest + drawn' + BackInAll
        BY <1>3, <1>4, <2>1, <4>2, <4>3, <4>4, Seconds
      <4>6. pc' \notin {"ui", "draw"}
        BY <1>2
      <4>. QED
        BY <1>2, <3>3, <4>2, <4>3, <4>5, <4>6 DEF ToastInTime
    <3>. QED
      BY <3>2, <3>3
  <2>. QED
    BY <1>1, <1>5, <2>2, <2>3 DEF ClockInv
<1>7. CASE SkipDraw
  <2>1. drawn' = drawn /\ toast' = toast /\ drawn <= Period[ui]
    BY <1>3, <1>4, <1>7 DEF SkipDraw, TimeToDraw
  <2>2. DrawnInTime'
    BY <1>2, <1>4, <2>1 DEF DrawnInTime
  <2>3. ToastInTime'
    BY <1>2, <2>1 DEF ClockInv, ToastInTime
  <2>. QED
    BY <1>1, <1>5, <2>2, <2>3 DEF ClockInv
<1>. QED
  BY <1>6, <1>7

(* The end of an iteration: the clock goes on by d while e passes; by as     *)
(* much as they differ the clock was set back.                              *)
LEMMA AdvanceStep ==
  ASSUME ClockInv, TypeOK', NEW d \in Int, NEW e \in 0 .. Longest, NEW back \in Nat,
         d = e - back, spent <= e, Advance(d, e), BackInAll' = BackInAll + back,
         \/ setBacks' = setBacks /\ backToZero' = backToZero
         \/ setBacks' = setBacks + 1 /\ backToZero' = TRUE
  PROVE  ClockInv'
<1>1. TypeOK
  BY DEF ClockInv
<1>2. /\ pc = "sleep" /\ pc' \in {"objects", "ended"} /\ spent' = 0
      /\ drawn' = drawn + d /\ ui' = ui
      /\ toast' = IF toast.shown THEN [toast EXCEPT !.age = Capped(@ + d)]
                  ELSE toast
      /\ job' = IF job.state = "started" THEN [job EXCEPT !.age = Capped(@ + d)]
                ELSE job
      /\ real' = [toast |-> IF toast.shown THEN Capped(real.toast + e) ELSE 0,
                  job |-> IF job = NoJob THEN 0 ELSE Capped(real.job + e)]
  BY DEF Advance, NextPart, Older
<1>3. /\ BackInAll \in Nat /\ Waits \in Nat /\ Longest \in Nat
      /\ Period[ui] \in Nat /\ drawn \in Int /\ spent \in Nat
      /\ setBacks \in Nat
  BY <1>1, Costs, TicksAssumption, PeriodNat DEF TypeOK
<1>4. /\ drawn <= Period[ui] /\ drawn + spent >= -BackInAll
  BY <1>2 DEF ClockInv, DrawnInTime
<1>5. DrawnInTime'
  <2>1. drawn + d <= Period[ui] + Longest
    BY <1>3, <1>4
  <2>2. drawn + d + 0 >= -(BackInAll + back)
    BY <1>3, <1>4
  <2>. QED
    BY <1>2, <2>1, <2>2 DEF DrawnInTime
<1>6. ToastInTime'
  <2>1. CASE ~toast.shown
    BY <1>2, <2>1 DEF ToastInTime
  <2>2. CASE toast.shown
    <3>1. /\ toast.age \in Int /\ real.toast \in Nat /\ Second \in Nat \ {0}
          /\ Duration * Second \in Nat
      BY <1>1, Seconds DEF TypeOK
    <3>2. /\ ui # "dummy"
          /\ real.toast <= toast.age + BackInAll
          /\ toast.age <= real.toast + Second - 1
          /\ real.toast <= Duration * Second + Longest + drawn + BackInAll
      BY <2>2 DEF ClockInv, ToastInTime
    <3>3. toast'.age = Capped(toast.age + d) /\ real'.toast = Capped(real.toast + e)
      BY <1>1, <1>2, <2>2 DEF TypeOK
    <3>4. Capped(real.toast + e) <= Capped(toast.age + d) + (BackInAll + back)
      <4>1. real.toast + e <= (toast.age + d) + (BackInAll + back)
        BY <1>3, <3>1, <3>2
      <4>. QED
        BY <1>3, <3>1, <4>1, CappedTogether
    <3>5. Capped(toast.age + d) <= Capped(real.toast + e) + (Second - 1)
      <4>1. toast.age + d <= (real.toast + e) + (Second - 1)
        BY <1>3, <3>1, <3>2
      <4>. QED
        BY <1>3, <3>1, <4>1, CappedTogether
    <3>6. Capped(real.toast + e)
            <= Duration * Second + Longest + (drawn + d) + (BackInAll + back)
      <4>1. Capped(real.toast + e) <= real.toast + e /\ Capped(real.toast + e) \in Int
        BY <3>1, CappedLess, CappedNat
      <4>. QED
        BY <1>3, <3>1, <3>2, <4>1
    <3>7. /\ Capped(toast.age + d) \in Int /\ Capped(real.toast + e) \in Int
      BY <3>1, CappedNat
    <3>8. Capped(toast.age + d) <= Capped(real.toast + e) + Second - 1
      BY <3>1, <3>5, <3>7
    <3>9. pc' \notin {"ui", "draw"}
      BY <1>2
    <3>. QED
      BY <1>2, <3>2, <3>3, <3>4, <3>6, <3>8, <3>9 DEF ToastInTime
  <2>. QED
    BY <2>1, <2>2
<1>7. JobInTime'
  <2>1. /\ real.job \in Nat /\ job.age \in Int /\ BuildTime * Second \in Nat
        /\ job.state \in {"none", "waiting", "started"}
        /\ backToZero \in BOOLEAN
    BY <1>1, Seconds DEF TypeOK
  <2>2. backToZero' => setBacks' > 0
    <3>1. backToZero => setBacks > 0
      BY DEF ClockInv, JobInTime
    <3>2. CASE setBacks' = setBacks /\ backToZero' = backToZero
      BY <3>1, <3>2
    <3>3. CASE setBacks' = setBacks + 1
      BY <1>3, <3>3
    <3>. QED
      BY <3>2, <3>3
  <2>3. /\ Waits' - (IF backToZero' THEN Longest ELSE 0)
             >= Waits - (IF backToZero THEN Longest ELSE 0)
        /\ Waits' \in Nat /\ Waits' >= Waits
    <3>1. CASE setBacks' = setBacks /\ backToZero' = backToZero
      BY <1>3, <3>1 DEF Waits
    <3>2. CASE setBacks' = setBacks + 1 /\ backToZero' = TRUE
      <4>1. Waits' = Waits + Longest
        BY <1>3, <3>2, Costs DEF Waits
      <4>. QED
        BY <1>3, <3>2, <4>1
    <3>. QED
      BY <3>1, <3>2
  <2>4. CASE job.state = "none"
    <3>1. job = NoJob
      BY <2>4 DEF ClockInv, JobInTime
    <3>2. job' = NoJob
      BY <1>2, <2>4, <3>1
    <3>. QED
      BY <2>2, <3>2, NoJobInTime
  <2>5. CASE job.state = "waiting"
    <3>1. job' = job /\ job # NoJob
      BY <1>2, <2>5 DEF NoJob
    <3>2. real'.job = Capped(real.job + e)
      BY <1>2, <3>1
    <3>3. Capped(real.job + e) <= real.job + e /\ Capped(real.job + e) \in Int
      BY <2>1, CappedLess, CappedNat
    <3>4. real.job <= Waits - (IF backToZero THEN Longest ELSE 0)
      <4>1. pc \notin {"objects", "ended"}
        BY <1>2
      <4>2. WaitedSoFar
        BY <2>5 DEF ClockInv, JobInTime
      <4>3. real.job <= Waits + 0 - (IF backToZero THEN Longest ELSE 0)
        BY <4>1, <4>2 DEF WaitedSoFar
      <4>. QED
        BY <1>3, <4>3
    <3>5. real'.job <= Waits' + Longest - (IF backToZero' THEN Longest ELSE 0)
      <4>. DEFINE lost == IF backToZero THEN Longest ELSE 0
                  lost2 == IF backToZero' THEN Longest ELSE 0
      <4>1. lost \in Nat /\ lost2 \in Nat
        BY <1>3
      <4>2. Waits' - lost2 >= Waits - lost /\ real.job <= Waits - lost
        BY <2>3, <3>4
      <4>. HIDE DEF lost, lost2
      <4>3. real.job + e <= Waits' + Longest - lost2
        <5>1. /\ real.job \in Int /\ e \in Int /\ Waits \in Int
              /\ Waits' \in Int /\ lost \in Int /\ lost2 \in Int
              /\ Longest \in Int /\ e <= Longest
              /\ Waits - lost <= Waits' - lost2
          <6>1. e \in Int /\ e <= Longest /\ Longest \in Int
            BY <1>3
          <6>2. real.job \in Int /\ lost \in Int /\ lost2 \in Int
            BY <2>1, <4>1
          <6>3. Waits \in Int /\ Waits' \in Int
            BY <1>3, <2>3
          <6>4. Waits - lost <= Waits' - lost2
            BY <4>2, <6>2, <6>3
          <6>. QED
            BY <6>1, <6>2, <6>3, <6>4
        <5>. QED
          BY <4>2, <5>1, WithinSum
      <4>4. Waits' + Longest - lost2 \in Int
        BY <1>3, <2>3, <4>1
      <4>5. real'.job <= Waits' + Longest - lost2
        BY <2>1, <3>2, <3>3, <4>3, <4>4
      <4>. QED
        BY <4>5 DEF lost2
    <3>6. WaitedSoFar'
      BY <1>2, <3>5 DEF WaitedSoFar
    <3>. QED
      BY <2>2, <2>5, <3>1, <3>6 DEF JobInTime
  <2>6. CASE job.state = "started"
    <3>1. job'.state = "started" /\ job'.age = Capped(job.age + d) /\ job # NoJob
      BY <1>1, <1>2, <2>6 DEF NoJob, TypeOK
    <3>2. real'.job = Capped(real.job + e)
      BY <1>2, <3>1
    <3>3. /\ job.age <= real.job
          /\ real.job <= job.age + Waits + Longest + BackInAll
          /\ job.age < BuildTime * Second
      <4>1. pc \notin {"objects", "ended"}
        BY <1>2
      <4>2. job.age < BuildTime * Second + 0
        BY <2>6, <4>1 DEF ClockInv, JobInTime
      <4>. QED
        BY <2>1, <2>6, <4>2 DEF ClockInv, JobInTime
    <3>4. Capped(job.age + d) <= Capped(real.job + e)
      <4>1. job.age + d <= (real.job + e) + 0
        BY <2>1, <3>3
      <4>2. Capped(job.age + d) <= Capped(real.job + e) + 0
        BY <2>1, <4>1, CappedTogether
      <4>3. Capped(real.job + e) \in Int
        BY <2>1, CappedNat
      <4>. QED
        BY <4>2, <4>3
    <3>5. Capped(real.job + e)
            <= Capped(job.age + d) + (Waits' + Longest + (BackInAll + back))
      <4>1. real.job + e
              <= (job.age + d) + (Waits' + Longest + (BackInAll + back))
        BY <1>3, <2>1, <2>3, <3>3
      <4>. QED
        BY <1>3, <2>1, <2>3, <4>1, CappedTogether
    <3>6. Capped(job.age + d) < BuildTime * Second + Longest
      <4>1. Capped(job.age + d) <= job.age + d /\ Capped(job.age + d) \in Int
        BY <2>1, CappedLess, CappedNat
      <4>. QED
        BY <1>3, <2>1, <3>3, <4>1
    <3>7. real'.job <= job'.age + Waits' + Longest + BackInAll'
      <4>1. Capped(job.age + d) \in Int
        BY <2>1, CappedNat
      <4>. QED
        BY <1>3, <2>3, <3>1, <3>2, <3>5, <4>1
    <3>. QED
      BY <1>2, <2>2, <3>1, <3>2, <3>4, <3>6, <3>7 DEF JobInTime
  <2>. QED
    BY <2>1, <2>4, <2>5, <2>6
<1>. QED
  BY <1>5, <1>6, <1>7 DEF ClockInv

LEMMA ClockStep == ClockInv /\ [Next]_vars => ClockInv'
<1>1. CASE ClockInv /\ (ProcessJob \/ Toast)
  BY <1>1, ObjectsStep
<1>2. CASE ClockInv /\ (NewJob \/ ProcessUI)
  BY <1>2, UIStep
<1>3. CASE ClockInv /\ (Draw \/ SkipDraw)
  BY <1>3, DrawStep
<1>4. CASE ClockInv /\ Wait
  <2>1. PICK s \in Sleep : Advance(spent + s, spent + s)
    BY <1>4 DEF Wait
  <2>2. TypeOK' /\ TypeOK
    BY <1>4, ClockTypeStep DEF ClockInv, Next, Loop
  <2>3. spent \in Work
    BY <1>4, <2>1 DEF ClockInv, DrawnInTime, Advance
  <2>4. spent + s \in 0 .. Longest /\ spent <= spent + s /\ spent + s \in Int
    BY <2>3, TicksAssumption
  <2>5. /\ setBacks' = setBacks /\ backToZero' = backToZero
        /\ BackInAll' = BackInAll + 0
    BY <1>4, <2>2, Costs DEF Wait, BackInAll, TypeOK
  <2>6. spent + s = (spent + s) - 0
    BY <2>4
  <2>. QED
    BY <1>4, <2>1, <2>2, <2>4, <2>5, <2>6, AdvanceStep
<1>5. CASE ClockInv /\ WaitSetBack
  <2>1. PICK s \in Sleep : Advance(spent + s - SetBack, spent + s)
    BY <1>5 DEF WaitSetBack
  <2>2. TypeOK' /\ TypeOK
    BY <1>5, ClockTypeStep DEF ClockInv, Next
  <2>3. spent \in Work
    BY <1>5, <2>1 DEF ClockInv, DrawnInTime, Advance
  <2>4. /\ spent + s \in 0 .. Longest /\ spent <= spent + s
        /\ spent + s - SetBack \in Int /\ SetBack \in Nat
        /\ spent + s - SetBack = (spent + s) - SetBack
    BY <2>3, TicksAssumption
  <2>5. /\ setBacks' = setBacks + 1 /\ backToZero' = TRUE
    BY <1>5 DEF WaitSetBack
  <2>6. BackInAll' = BackInAll + SetBack
    BY <2>2, <2>5, Costs DEF BackInAll, TypeOK
  <2>. QED
    BY <1>5, <2>1, <2>2, <2>4, <2>5, <2>6, AdvanceStep
<1>6. CASE ClockInv /\ UNCHANGED vars
  <2>1. TypeOK'
    BY <1>6, ClockTypeStep DEF ClockInv
  <2>. QED
    BY <1>6, <2>1 DEF vars, counters, ClockInv, DrawnInTime, ToastInTime,
       JobInTime, WaitedSoFar, BackInAll, Waits
<1>. QED
  BY <1>1, <1>2, <1>3, <1>4, <1>5, <1>6 DEF Next, Loop

LEMMA ClockInvariant == Spec => []ClockInv
BY ClockInit, ClockStep, PTL DEF Spec

-----------------------------------------------------------------------------
(* The values the variables take.                                           *)
THEOREM ClockTypeCorrect == Spec => []TypeOK
BY ClockInvariant, PTL DEF ClockInv

(* Game::run, m_last_draw: the screen is never older than a period and one   *)
(* iteration, and a set-back clock stops it for no longer than it was set    *)
(* back by.                                                                  *)
THEOREM ScreenStaysFresh == Spec => []ScreenIsFresh
<1>1. ClockInv => ScreenIsFresh
  <2>. SUFFICES ASSUME ClockInv, pc = "objects"
                PROVE  drawn <= Period[ui] + Longest /\ drawn >= -BackInAll
    BY DEF ScreenIsFresh
  <2>1. drawn \in Int /\ setBacks \in Nat
    BY DEF ClockInv, TypeOK
  <2>2. /\ spent = 0 /\ drawn <= Period[ui] + Longest
        /\ drawn + spent >= -BackInAll
    BY DEF ClockInv, DrawnInTime
  <2>. QED
    BY <2>1, <2>2, Costs
<1>. QED
  BY <1>1, ClockInvariant, PTL

LEMMA JobDoneInTime ==
  ASSUME ClockInv, Next, job # NoJob, job' = NoJob
  PROVE  /\ real.job >= BuildTime * Second
         /\ real.job <= BuildTime * Second + (2 + setBacks) * Longest + BackInAll
<1>1. /\ real.job \in Nat /\ job.age \in Int /\ BuildTime * Second \in Nat
      /\ job.state \in {"none", "waiting", "started"} /\ setBacks \in Nat
  BY Seconds DEF ClockInv, TypeOK
<1>2. /\ BackInAll \in Nat /\ Waits \in Nat /\ Longest \in Nat
      /\ (2 + setBacks) * Longest = Waits + Longest + Longest
  BY <1>1, Costs, TicksAssumption
<1>3. job.state # "none"
  BY DEF ClockInv, JobInTime
<1>4. ProcessJob
  <2>1. job' # job
    OBVIOUS
  <2>2. ~NewJob /\ ~Toast /\ ~ProcessUI /\ ~Draw /\ ~SkipDraw
    BY <2>1 DEF NewJob, Toast, ProcessUI, Draw, SkipDraw
  <2>3. ASSUME NEW d, NEW e, Advance(d, e) PROVE FALSE
    <3>1. job' = IF job.state = "started" THEN [job EXCEPT !.age = Capped(@ + d)]
                 ELSE job
      BY <2>3 DEF Advance, Older
    <3>2. job'.state = job.state
      BY <3>1 DEF ClockInv, TypeOK
    <3>. QED
      BY <1>3, <3>2 DEF NoJob
  <2>4. ~Wait /\ ~WaitSetBack
    BY <2>3 DEF Wait, WaitSetBack
  <2>. QED
    BY <2>2, <2>4 DEF Next, Loop
<1>5. pc = "objects"
  BY <1>4 DEF ProcessJob
<1>6. CASE job.state = "waiting"
  <2>1. PICK zero \in {FALSE, backToZero} : job' = AfterProcess(0, zero)
    BY <1>4, <1>6 DEF ProcessJob, NoJob
  <2>2. BuildTimeOver(0)
    BY <2>1 DEF AfterProcess, NoJob
  <2>3. BuildTime * Second <= 0
    BY <1>1, <2>2 DEF BuildTimeOver
  <2>4. real.job <= Waits + Longest - (IF backToZero THEN Longest ELSE 0)
    BY <1>5, <1>6 DEF ClockInv, JobInTime, WaitedSoFar
  <2>. QED
    BY <1>1, <1>2, <2>3, <2>4
<1>7. CASE job.state = "started"
  <2>1. job' = AfterProcess(job.age, FALSE)
    BY <1>4, <1>7 DEF ProcessJob, NoJob
  <2>2. BuildTimeOver(job.age)
    BY <2>1 DEF AfterProcess, NoJob
  <2>3. /\ job.age <= real.job
        /\ real.job <= job.age + Waits + Longest + BackInAll
        /\ job.age < BuildTime * Second + Longest
    BY <1>5, <1>7 DEF ClockInv, JobInTime
  <2>. QED
    BY <1>1, <1>2, <2>2, <2>3 DEF BuildTimeOver
<1>. QED
  BY <1>1, <1>3, <1>6, <1>7

(* UnitProductionManager::process: a job takes its time and hardly more,     *)
(* whatever the clock does meanwhile.                                        *)
THEOREM JobsTakeTheirTime == Spec => JobOnTime
<1>1. ClockInv /\ [Next]_vars
        => [job # NoJob /\ job' = NoJob =>
              /\ real.job >= BuildTime * Second
              /\ real.job <= BuildTime * Second + (2 + setBacks) * Longest
                               + BackInAll]_vars
  BY JobDoneInTime
<1>. QED
  BY <1>1, ClockInvariant, PTL DEF Spec, JobOnTime

LEMMA ToastGoneInTime ==
  ASSUME ClockInv, Next, toast.shown, ~toast'.shown
  PROVE  /\ real.toast > (Duration - 1) * Second
         /\ real.toast <= Duration * Second + Period[ui] + 2 * Longest + BackInAll
<1>1. TypeOK
  BY DEF ClockInv
<1>2. Draw
  <2>1. toast' # toast
    OBVIOUS
  <2>2. ~NewJob /\ ~ProcessJob /\ ~ProcessUI /\ ~SkipDraw
    BY <2>1 DEF NewJob, ProcessJob, ProcessUI, SkipDraw
  <2>3. ~Toast
    BY DEF Toast
  <2>4. ASSUME NEW d, NEW e, Advance(d, e) PROVE FALSE
    <3>1. toast' = [toast EXCEPT !.age = Capped(@ + d)]
      BY <2>4 DEF Advance, Older
    <3>2. toast'.shown = toast.shown
      BY <1>1, <3>1 DEF TypeOK
    <3>. QED
      BY <3>2
  <2>5. ~Wait /\ ~WaitSetBack
    BY <2>4 DEF Wait, WaitSetBack
  <2>. QED
    BY <2>2, <2>3, <2>5 DEF Next, Loop
<1>3. toast' = CheckedToast /\ pc = "draw"
  BY <1>2 DEF Draw
<1>4. toast.age \in Int /\ real.toast \in Nat /\ drawn \in Int /\ setBacks \in Nat
  BY <1>1 DEF TypeOK
<1>5. toast.age >= Duration * Second
  BY <1>3, <1>4, Seconds DEF CheckedToast
<1>6. /\ drawn <= Period[ui] + Longest
      /\ real.toast <= toast.age + BackInAll
      /\ toast.age <= real.toast + Second - 1
      /\ real.toast <= Duration * Second + Longest + drawn + BackInAll
  BY <1>3 DEF ClockInv, ToastInTime
<1>7. BackInAll \in Nat /\ Longest \in Nat /\ Period[ui] \in Nat
  BY <1>1, <1>4, Costs, TicksAssumption, PeriodNat
<1>. QED
  BY <1>4, <1>5, <1>6, <1>7, Seconds

(* GameUI::checkToast and Game::run: a toast stays its time on the screen,   *)
(* less than a second less, and no longer than until the next draw but one.  *)
THEOREM ToastsStayTheirTime == Spec => ToastStays
<1>1. ClockInv /\ [Next]_vars
        => [toast.shown /\ ~toast'.shown =>
              /\ real.toast > (Duration - 1) * Second
              /\ real.toast <= Duration * Second + Period[ui]
                                 + 2 * Longest + BackInAll]_vars
  BY ToastGoneInTime
<1>. QED
  BY <1>1, ClockInvariant, PTL DEF Spec, ToastStays

=============================================================================
