------------------------- MODULE PlayerInputProofs -------------------------
(***************************************************************************)
(* Theorems about PlayerInput: for any number of objects, whoever owns     *)
(* them, any interface and any gestures, orders and jobs are kept apart    *)
(* and the player is the Commander.                                        *)
(***************************************************************************)
EXTENDS PlayerInput, SequenceTheorems, TLAPS

USE ObjectsAssumption, UIsAssumption, LimitsAssumption

-----------------------------------------------------------------------------
(* The heap grows at its end.                                               *)

LEMMA PlusProperties ==
  ASSUME NEW f, NEW g
  PROVE  /\ DOMAIN Plus(f, g) = DOMAIN f \cup DOMAIN g
         /\ \A i \in DOMAIN g : Plus(f, g)[i] = g[i]
         /\ \A i \in DOMAIN f : i \notin DOMAIN g => Plus(f, g)[i] = f[i]
BY DEF Plus

(* The places of new instances are free, and each object has its own.       *)
LEMMA NewPlaces ==
  ASSUME fresh \in Nat \ {0}, NEW o \in Objects
  PROVE  /\ For(o) \in fresh + 1 .. For(NObjects)
         /\ For(NObjects) \in Nat /\ fresh <= For(NObjects)
         /\ \A p \in Objects : For(o) = For(p) => o = p
BY DEF For, Objects

LEMMA NextFresh ==
  ASSUME fresh \in Nat \ {0}
  PROVE  /\ For(NObjects) + 1 \in Nat \ {0}
         /\ 1 .. fresh - 1 \subseteq 1 .. For(NObjects)
         /\ (For(NObjects) + 1) - 1 = For(NObjects)
BY DEF For

(* What the heap of instances f becomes when every selected object gets     *)
(* one: new[o] for o; nothing there already is touched.                     *)
LEMMA Delivery ==
  ASSUME fresh \in Nat \ {0}, selected \subseteq Objects,
         NEW f, DOMAIN f \subseteq 1 .. fresh - 1,
         NEW g, DOMAIN g = {For(o) : o \in selected}
  PROVE  /\ DOMAIN Plus(f, g) = DOMAIN f \cup DOMAIN g
         /\ DOMAIN Plus(f, g) \subseteq 1 .. For(NObjects)
         /\ \A i \in DOMAIN f : i \notin DOMAIN g /\ Plus(f, g)[i] = f[i]
         /\ \A o \in selected :
              /\ For(o) \in DOMAIN Plus(f, g) /\ For(o) \notin DOMAIN f
              /\ Plus(f, g)[For(o)] = g[For(o)]
<1>1. \A o \in selected : For(o) \in fresh + 1 .. For(NObjects)
  BY NewPlaces
<1>2. \A i \in DOMAIN f : i \notin DOMAIN g
  BY <1>1
<1>3. DOMAIN g \subseteq 1 .. For(NObjects)
  BY <1>1
<1>4. DOMAIN f \subseteq 1 .. For(NObjects)
  BY NextFresh
<1>6. \A o \in selected : For(o) \in DOMAIN g
  OBVIOUS
<1>7. /\ DOMAIN Plus(f, g) = DOMAIN f \cup DOMAIN g
      /\ \A i \in DOMAIN g : Plus(f, g)[i] = g[i]
      /\ \A i \in DOMAIN f : i \notin DOMAIN g => Plus(f, g)[i] = f[i]
  BY PlusProperties
<1>. QED
  BY <1>2, <1>3, <1>4, <1>6, <1>7

LEMMA Addressee ==
  ASSUME fresh \in Nat \ {0}, selected \subseteq Objects
  PROVE  \A o \in selected : (CHOOSE p \in selected : For(p) = For(o)) = o
BY NewPlaces

LEMMA OrderTypes ==
  /\ \A kind \in Kinds \cup {"Produce"}, t \in Target : Made(kind, t) \in Order
  /\ \A order \in Order, o \in Objects :
       /\ Started(order, o) \in Order
       /\ Started(order, o).obj = o /\ Started(order, o).started
       /\ Started(order, o).kind = order.kind
       /\ Started(order, o).target = order.target
       /\ Started(order, o).job = order.job
BY DEF Made, Order, Started, Nobody

LEMMA JobTypes ==
  \A p \in Objects \cup {Launcher} : [what |-> p, started |-> FALSE] \in Job
BY DEF Job

LEMMA MultiDoHeap ==
  ASSUME TypeOK, NEW order \in Order, MultiDo(order)
  PROVE  /\ fresh' \in Nat \ {0} /\ 1 .. fresh' - 1 = 1 .. For(NObjects)
         /\ DOMAIN orders' \subseteq 1 .. fresh' - 1
         /\ DOMAIN jobs' \subseteq 1 .. fresh' - 1
         /\ \A i \in DOMAIN orders' : orders'[i] \in Order
         /\ \A i \in DOMAIN orders : i \in DOMAIN orders' /\ orders'[i] = orders[i]
         /\ \A o \in selected : /\ Clone(o) \in DOMAIN orders'
                                /\ orders'[Clone(o)] = Started(order, o)
<1>. DEFINE g == [i \in {Clone(o) : o \in selected} |->
                    Started(order, CHOOSE o \in selected : Clone(o) = i)]
<1>1. DOMAIN g = {For(o) : o \in selected}
  BY DEF Clone
<1>2. \A o \in selected :
        g[For(o)] = Started(order, CHOOSE p \in selected : For(p) = For(o))
  BY DEF Clone
<1>3. orders' = Plus(orders, g)
  BY DEF MultiDo, WithClones
<1>4. /\ fresh \in Nat \ {0} /\ selected \subseteq Objects
      /\ DOMAIN orders \subseteq 1 .. fresh - 1
      /\ DOMAIN jobs \subseteq 1 .. fresh - 1
      /\ \A i \in DOMAIN orders : orders[i] \in Order
  BY DEF TypeOK
<1>. HIDE DEF g
<1>5. /\ DOMAIN orders' = DOMAIN orders \cup DOMAIN g
      /\ DOMAIN orders' \subseteq 1 .. For(NObjects)
      /\ \A i \in DOMAIN orders : i \notin DOMAIN g /\ orders'[i] = orders[i]
      /\ \A o \in selected :
           /\ For(o) \in DOMAIN orders' /\ For(o) \notin DOMAIN orders
           /\ orders'[For(o)] = g[For(o)]
  BY <1>1, <1>3, <1>4, Delivery
<1>6. \A o \in selected : orders'[For(o)] = Started(order, o)
  BY <1>2, <1>4, <1>5, Addressee
<1>7. \A i \in DOMAIN orders' : orders'[i] \in Order
  <2>1. SUFFICES ASSUME NEW i \in DOMAIN g PROVE orders'[i] \in Order
    BY <1>4, <1>5
  <2>2. PICK o \in selected : i = For(o)
    BY <1>1
  <2>. QED
    BY <1>4, <1>6, <2>2, OrderTypes
<1>8. fresh' \in Nat \ {0} /\ 1 .. fresh' - 1 = 1 .. For(NObjects)
  BY <1>4, NextFresh DEF MultiDo
<1>9. jobs' = jobs
  BY DEF MultiDo
<1>10. DOMAIN jobs' \subseteq 1 .. fresh' - 1
  BY <1>4, <1>8, <1>9, NextFresh
<1>. QED
  BY <1>5, <1>6, <1>7, <1>8, <1>10 DEF Clone

LEMMA MultiProduceHeap ==
  ASSUME TypeOK, NEW product \in [Objects -> Objects \cup {Launcher}],
         MultiProduce(product)
  PROVE  /\ fresh' \in Nat \ {0} /\ 1 .. fresh' - 1 = 1 .. For(NObjects)
         /\ DOMAIN orders' \subseteq 1 .. fresh' - 1
         /\ DOMAIN jobs' \subseteq 1 .. fresh' - 1
         /\ \A i \in DOMAIN orders' : orders'[i] \in Order
         /\ \A i \in DOMAIN jobs' : jobs'[i] \in Job
         /\ \A i \in DOMAIN orders : i \in DOMAIN orders' /\ orders'[i] = orders[i]
         /\ \A i \in DOMAIN jobs : i \in DOMAIN jobs' /\ jobs'[i] = jobs[i]
         /\ \A o \in selected :
              /\ Clone(o) \in DOMAIN orders'
              /\ orders'[Clone(o)].obj = o
              /\ orders'[Clone(o)].kind = "Produce"
              /\ CloneJob(o) \in DOMAIN jobs' /\ CloneJob(o) \notin DOMAIN jobs
              /\ jobs'[CloneJob(o)] = [what |-> product[o], started |-> FALSE]
<1>. DEFINE g == [i \in {Clone(o) : o \in selected} |->
                    LET o == CHOOSE p \in selected : Clone(p) = i
                    IN  [Started(Made("Produce", Ground), o)
                           EXCEPT !.job = CloneJob(o)]]
            h == [i \in {CloneJob(o) : o \in selected} |->
                    [what |-> product[CHOOSE o \in selected : CloneJob(o) = i],
                     started |-> FALSE]]
            made(o) == [Started(Made("Produce", Ground), o)
                          EXCEPT !.job = CloneJob(o)]
<1>1. DOMAIN g = {For(o) : o \in selected} /\ DOMAIN h = {For(o) : o \in selected}
  BY DEF Clone, CloneJob
<1>2. \A o \in selected :
        g[For(o)] = made(CHOOSE p \in selected : For(p) = For(o))
  BY DEF Clone
<1>3. \A o \in selected :
        h[For(o)] = [what |-> product[CHOOSE p \in selected : For(p) = For(o)],
                     started |-> FALSE]
  BY DEF CloneJob
<1>4. orders' = Plus(orders, g) /\ jobs' = Plus(jobs, h)
  BY DEF MultiProduce
<1>5. /\ fresh \in Nat \ {0} /\ selected \subseteq Objects
      /\ DOMAIN orders \subseteq 1 .. fresh - 1
      /\ DOMAIN jobs \subseteq 1 .. fresh - 1
      /\ \A i \in DOMAIN orders : orders[i] \in Order
      /\ \A i \in DOMAIN jobs : jobs[i] \in Job
  BY DEF TypeOK
<1>6. \A o \in selected :
        made(o) \in Order /\ made(o).obj = o /\ made(o).kind = "Produce"
  <2>1. SUFFICES ASSUME NEW o \in selected
                 PROVE  made(o) \in Order /\ made(o).obj = o
                          /\ made(o).kind = "Produce"
    OBVIOUS
  <2>2. Started(Made("Produce", Ground), o) \in Order
        /\ Started(Made("Produce", Ground), o).obj = o
        /\ Started(Made("Produce", Ground), o).kind = "Produce"
    <3>1. Made("Produce", Ground) \in Order
      BY OrderTypes DEF Target
    <3>. QED
      BY <1>5, <3>1, OrderTypes DEF Made
  <2>3. CloneJob(o) \in Nat
    BY <1>5, NewPlaces DEF CloneJob
  <2>. QED
    BY <2>2, <2>3 DEF Order
<1>. HIDE DEF g, h, made
<1>7. /\ DOMAIN orders' = DOMAIN orders \cup DOMAIN g
      /\ DOMAIN orders' \subseteq 1 .. For(NObjects)
      /\ \A i \in DOMAIN orders : i \notin DOMAIN g /\ orders'[i] = orders[i]
      /\ \A o \in selected :
           /\ For(o) \in DOMAIN orders' /\ For(o) \notin DOMAIN orders
           /\ orders'[For(o)] = g[For(o)]
  <2>1. orders' = Plus(orders, g)
    BY <1>4
  <2>2. DOMAIN g = {For(o) : o \in selected}
    BY <1>1
  <2>3. /\ DOMAIN Plus(orders, g) = DOMAIN orders \cup DOMAIN g
        /\ DOMAIN Plus(orders, g) \subseteq 1 .. For(NObjects)
        /\ \A i \in DOMAIN orders : i \notin DOMAIN g /\ Plus(orders, g)[i] = orders[i]
        /\ \A o \in selected :
             /\ For(o) \in DOMAIN Plus(orders, g) /\ For(o) \notin DOMAIN orders
             /\ Plus(orders, g)[For(o)] = g[For(o)]
    BY <1>5, <2>2, Delivery
  <2>. QED
    BY <2>1, <2>3
<1>8. /\ DOMAIN jobs' = DOMAIN jobs \cup DOMAIN h
      /\ DOMAIN jobs' \subseteq 1 .. For(NObjects)
      /\ \A i \in DOMAIN jobs : i \notin DOMAIN h /\ jobs'[i] = jobs[i]
      /\ \A o \in selected :
           /\ For(o) \in DOMAIN jobs' /\ For(o) \notin DOMAIN jobs
           /\ jobs'[For(o)] = h[For(o)]
  <2>1. jobs' = Plus(jobs, h)
    BY <1>4
  <2>2. DOMAIN h = {For(o) : o \in selected}
    BY <1>1
  <2>3. /\ DOMAIN Plus(jobs, h) = DOMAIN jobs \cup DOMAIN h
        /\ DOMAIN Plus(jobs, h) \subseteq 1 .. For(NObjects)
        /\ \A i \in DOMAIN jobs : i \notin DOMAIN h /\ Plus(jobs, h)[i] = jobs[i]
        /\ \A o \in selected :
             /\ For(o) \in DOMAIN Plus(jobs, h) /\ For(o) \notin DOMAIN jobs
             /\ Plus(jobs, h)[For(o)] = h[For(o)]
    BY <1>5, <2>2, Delivery
  <2>. QED
    BY <2>1, <2>3
<1>9. \A o \in selected : orders'[For(o)] = made(o)
  BY <1>2, <1>5, <1>7, Addressee
<1>10. \A o \in selected : jobs'[For(o)] = [what |-> product[o], started |-> FALSE]
  BY <1>3, <1>5, <1>8, Addressee
<1>11. \A i \in DOMAIN orders' : orders'[i] \in Order
  BY <1>1, <1>5, <1>6, <1>7, <1>9
<1>12. \A i \in DOMAIN jobs' : jobs'[i] \in Job
  <2>1. \A o \in selected : product[o] \in Objects \cup {Launcher}
    BY <1>5
  <2>2. \A o \in selected : jobs'[For(o)] \in Job
    BY <1>10, <2>1, JobTypes
  <2>. QED
    BY <1>1, <1>5, <1>8, <2>2
<1>13. fresh' \in Nat \ {0} /\ 1 .. fresh' - 1 = 1 .. For(NObjects)
  BY <1>5, NextFresh DEF MultiProduce
<1>14. \A o \in selected :
         /\ Clone(o) \in DOMAIN orders'
         /\ orders'[Clone(o)].obj = o /\ orders'[Clone(o)].kind = "Produce"
  BY <1>6, <1>7, <1>9 DEF Clone
<1>15. \A o \in selected :
         /\ CloneJob(o) \in DOMAIN jobs' /\ CloneJob(o) \notin DOMAIN jobs
         /\ jobs'[CloneJob(o)] = [what |-> product[o], started |-> FALSE]
  BY <1>8, <1>10 DEF CloneJob
<1>16. /\ DOMAIN orders' \subseteq 1 .. fresh' - 1
       /\ DOMAIN jobs' \subseteq 1 .. fresh' - 1
  BY <1>7, <1>8, <1>13
<1>17. /\ \A i \in DOMAIN orders : i \in DOMAIN orders' /\ orders'[i] = orders[i]
       /\ \A i \in DOMAIN jobs : i \in DOMAIN jobs' /\ jobs'[i] = jobs[i]
  BY <1>7, <1>8
<1>. QED
  BY <1>11, <1>12, <1>13, <1>14, <1>15, <1>16, <1>17

-----------------------------------------------------------------------------
(* Types.                                                                   *)

LEMMA PickIsSome ==
  ASSUME NEW S, NEW onePixel PROVE Pick(S, onePixel) \subseteq S
BY DEF Pick, FirstOf, Filtered

LEMMA SeqInLarger ==
  ASSUME NEW S, NEW T, S \subseteq T, NEW q \in Seq(S)
  PROVE  q \in Seq(T)
BY LenProperties

LEMMA MultiDoType ==
  ASSUME TypeOK, NEW order \in Order, MultiDo(order),
         ui' = ui, inGame' = inGame, selected' = selected,
         dragging' = dragging, toasted' = toasted, gestures' \in Nat
  PROVE  TypeOK'
<1>1. /\ fresh' \in Nat \ {0} /\ DOMAIN orders' \subseteq 1 .. fresh' - 1
      /\ DOMAIN jobs' \subseteq 1 .. fresh' - 1
      /\ \A i \in DOMAIN orders' : orders'[i] \in Order
      /\ DOMAIN orders \subseteq DOMAIN orders'
      /\ \A o \in selected : Clone(o) \in DOMAIN orders'
  BY MultiDoHeap
<1>2. jobs' = jobs /\ secondary' = secondary /\ queue' = queue
      /\ pending' = NoOrder
  BY DEF MultiDo
<1>3. current' \in [Objects -> DOMAIN orders' \cup {NoOrder}]
  BY <1>1 DEF MultiDo, TypeOK
<1>4. secondary' \in [Objects -> DOMAIN orders' \cup {NoOrder}]
  BY <1>1, <1>2 DEF TypeOK
<1>. QED
  BY <1>1, <1>2, <1>3, <1>4 DEF TypeOK

LEMMA MultiProduceType ==
  ASSUME TypeOK, NEW product \in [Objects -> Objects \cup {Launcher}],
         MultiProduce(product),
         ui' = ui, inGame' = inGame, selected' = selected,
         dragging' = dragging, pending' \in {pending, NoOrder},
         toasted' = toasted, gestures' \in Nat
  PROVE  TypeOK'
<1>1. /\ fresh' \in Nat \ {0} /\ DOMAIN orders' \subseteq 1 .. fresh' - 1
      /\ DOMAIN jobs' \subseteq 1 .. fresh' - 1
      /\ \A i \in DOMAIN orders' : orders'[i] \in Order
      /\ \A i \in DOMAIN jobs' : jobs'[i] \in Job
      /\ DOMAIN orders \subseteq DOMAIN orders'
      /\ DOMAIN jobs \subseteq DOMAIN jobs'
      /\ \A o \in selected : Clone(o) \in DOMAIN orders'
                               /\ CloneJob(o) \in DOMAIN jobs'
  BY MultiProduceHeap
<1>2. current' = current
  BY DEF MultiProduce
<1>3. current' \in [Objects -> DOMAIN orders' \cup {NoOrder}]
  BY <1>1, <1>2 DEF TypeOK
<1>4. secondary' \in [Objects -> DOMAIN orders' \cup {NoOrder}]
  BY <1>1 DEF MultiProduce, TypeOK
<1>5. queue' \in [Objects -> Seq(DOMAIN jobs')]
  <2>1. queue' = [o \in Objects |-> IF o \in selected
                                    THEN Append(queue[o], CloneJob(o))
                                    ELSE queue[o]]
    BY DEF MultiProduce
  <2>2. ASSUME NEW o \in Objects PROVE queue[o] \in Seq(DOMAIN jobs')
    BY <1>1, SeqInLarger DEF TypeOK
  <2>3. ASSUME NEW o \in selected
        PROVE  Append(queue[o], CloneJob(o)) \in Seq(DOMAIN jobs')
    BY <1>1, <2>2, AppendProperties DEF TypeOK
  <2>. QED
    BY <2>1, <2>2, <2>3
<1>. QED
  BY <1>1, <1>3, <1>4, <1>5 DEF TypeOK

LEMMA ChooseType ==
  ASSUME TypeOK, NEW kind \in Kinds, Choose(kind)
  PROVE  TypeOK' /\ (\A i \in DOMAIN orders : orders'[i] = orders[i])
                 /\ orders'[pending'] = Made(kind, Ground)
<1>. DEFINE g == [i \in {fresh} |-> Made(kind, Ground)]
<1>1. /\ orders' = Plus(orders, g) /\ pending' = fresh /\ fresh' = fresh + 1
      /\ jobs' = jobs /\ gestures' \in Nat
      /\ UNCHANGED <<ui, inGame, selected, dragging, current, secondary,
                     queue, toasted>>
  BY DEF Choose, Gesture, TypeOK, held
<1>2. /\ fresh \in Nat \ {0} /\ DOMAIN orders \subseteq 1 .. fresh - 1
      /\ DOMAIN jobs \subseteq 1 .. fresh - 1
      /\ \A i \in DOMAIN orders : orders[i] \in Order
  BY DEF TypeOK
<1>3. DOMAIN g = {fresh} /\ g[fresh] = Made(kind, Ground)
  OBVIOUS
<1>4. Made(kind, Ground) \in Order
  BY OrderTypes DEF Target
<1>. HIDE DEF g
<1>5. /\ DOMAIN Plus(orders, g) = DOMAIN orders \cup DOMAIN g
      /\ \A i \in DOMAIN g : Plus(orders, g)[i] = g[i]
      /\ \A i \in DOMAIN orders :
           i \notin DOMAIN g => Plus(orders, g)[i] = orders[i]
  BY PlusProperties
<1>6. fresh \notin DOMAIN orders
  BY <1>2
<1>7. /\ DOMAIN orders' = DOMAIN orders \cup {fresh}
      /\ orders'[fresh] = Made(kind, Ground)
      /\ \A i \in DOMAIN orders : orders'[i] = orders[i]
  BY <1>1, <1>3, <1>5, <1>6
<1>8. /\ fresh' \in Nat \ {0} /\ DOMAIN orders' \subseteq 1 .. fresh' - 1
      /\ DOMAIN jobs' \subseteq 1 .. fresh' - 1
  BY <1>1, <1>2, <1>7
<1>9. \A i \in DOMAIN orders' : orders'[i] \in Order
  BY <1>2, <1>4, <1>7
<1>10. /\ current' \in [Objects -> DOMAIN orders' \cup {NoOrder}]
       /\ secondary' \in [Objects -> DOMAIN orders' \cup {NoOrder}]
       /\ pending' \in DOMAIN orders'
  BY <1>1, <1>7 DEF TypeOK
<1>. QED
  BY <1>1, <1>7, <1>8, <1>9, <1>10 DEF TypeOK

LEMMA TypeInit == Init => TypeOK
<1>. SUFFICES ASSUME Init PROVE TypeOK
  OBVIOUS
<1>1. \A i \in Scenario : Made("Move", Ground) \in Order /\ i \in Objects
  BY OrderTypes DEF Kinds, Target
<1>2. \A i \in Scenario :
        [Made("Move", Ground) EXCEPT !.obj = i, !.started = TRUE] \in Order
  BY <1>1, OrderTypes DEF Started
<1>3. DOMAIN orders = Scenario /\ \A i \in DOMAIN orders : orders[i] \in Order
  BY <1>2 DEF Init
<1>4. fresh \in Nat \ {0} /\ Scenario \subseteq 1 .. fresh - 1
  <2>1. fresh = NObjects + 1 /\ NObjects \in Nat
    BY DEF Init
  <2>2. fresh - 1 = NObjects /\ fresh \in Nat \ {0}
    BY <2>1
  <2>. QED
    BY <2>2 DEF Objects
<1>5. DOMAIN jobs = {}
  BY DEF Init
<1>6. queue \in [Objects -> Seq(DOMAIN jobs)]
  BY EmptySeq DEF Init
<1>7. current \in [Objects -> DOMAIN orders \cup {NoOrder}]
      /\ secondary \in [Objects -> DOMAIN orders \cup {NoOrder}]
  BY <1>3 DEF Init
<1>. QED
  BY <1>3, <1>4, <1>5, <1>6, <1>7 DEF Init, TypeOK

LEMMA GestureType == ASSUME TypeOK, Gesture PROVE gestures' \in Nat
BY DEF TypeOK, Gesture

LEMMA GivenType ==
  ASSUME TypeOK, NEW t \in Target, NEW i \in DOMAIN orders
  PROVE  /\ [orders[i] EXCEPT !.target = t] \in Order
         /\ [orders[i] EXCEPT !.target = t].kind = orders[i].kind
BY DEF TypeOK, Order

LEMMA UserType == ASSUME TypeOK, User PROVE TypeOK'
<1>1. ASSUME NEW kind \in Kinds, Choose(kind) PROVE TypeOK'
  BY <1>1, ChooseType
<1>2. CASE ProduceOwn
  <2>. DEFINE product == [o \in Objects |-> o]
  <2>1. product \in [Objects -> Objects \cup {Launcher}] /\ MultiProduce(product)
    BY <1>2 DEF ProduceOwn
  <2>. HIDE DEF product
  <2>. QED
    BY <1>2, <2>1, MultiProduceType, GestureType DEF ProduceOwn
<1>3. CASE ProduceLauncher
  <2>. DEFINE product == [o \in Objects |-> Launcher]
  <2>1. product \in [Objects -> Objects \cup {Launcher}] /\ MultiProduce(product)
    BY <1>3 DEF ProduceLauncher
  <2>. HIDE DEF product
  <2>. QED
    BY <1>3, <2>1, MultiProduceType, GestureType DEF ProduceLauncher
<1>4. CASE RightClick
  <2>1. Made("Move", Ground) \in Order
    BY OrderTypes DEF Kinds, Target
  <2>. QED
    BY <1>4, <2>1, MultiDoType, GestureType DEF RightClick
<1>5. CASE Click
  <2>1. PICK t \in inGame \cup {Ground} :
          MultiDo([orders[pending] EXCEPT !.target = t])
    BY <1>5 DEF Click, PlaceOrder
  <2>2. t \in Target /\ pending \in DOMAIN orders
    BY <1>5 DEF Click, PlaceOrder, AwaitsTarget, TypeOK, Target
  <2>3. [orders[pending] EXCEPT !.target = t] \in Order
    BY <2>2, GivenType
  <2>. QED
    BY <1>5, <2>1, <2>3, MultiDoType, GestureType DEF Click, PlaceOrder
<1>6. CASE Press
  BY <1>6, GestureType DEF Press, TypeOK, heap, held
<1>7. CASE Release
  <2>1. PICK S \in SUBSET inGame, onePixel \in BOOLEAN :
          selected' = Pick(S, onePixel)
    BY <1>7 DEF Release
  <2>2. selected' \subseteq Objects
    BY <2>1, PickIsSome DEF TypeOK
  <2>. QED
    BY <1>7, <2>2 DEF Release, TypeOK, heap, held
<1>8. CASE Enter
  <2>1. PICK S \in SUBSET inGame : selected' = Pick(S, FALSE)
    BY <1>8 DEF Enter
  <2>2. selected' \subseteq Objects
    BY <2>1, PickIsSome DEF TypeOK
  <2>. QED
    BY <1>8, <2>2, GestureType DEF Enter, TypeOK, heap, held
<1>. QED
  BY <1>1, <1>2, <1>3, <1>4, <1>5, <1>6, <1>7, <1>8 DEF User

LEMMA EngineType == ASSUME TypeOK, Engine PROVE TypeOK'
<1>. PICK o \in Objects :
       EndOrder(o) \/ EndSecondary(o) \/ StartJob(o) \/ FinishJob(o) \/ Remove(o)
  BY DEF Engine
<1>1. CASE EndOrder(o)
  <2>1. current' \in [Objects -> DOMAIN orders \cup {NoOrder}]
    BY <1>1 DEF EndOrder, TypeOK
  <2>2. toasted' \in Objects \cup {Nobody}
    BY <1>1 DEF EndOrder, TypeOK
  <2>. QED
    BY <1>1, <2>1, <2>2 DEF EndOrder, TypeOK, heap
<1>2. CASE EndSecondary(o)
  BY <1>2 DEF EndSecondary, TypeOK, heap
<1>3. CASE StartJob(o)
  <2>1. Head(queue[o]) \in DOMAIN jobs
    BY <1>3, HeadTailProperties DEF StartJob, TypeOK
  <2>2. DOMAIN jobs' = DOMAIN jobs
    BY <1>3 DEF StartJob
  <2>3. \A i \in DOMAIN jobs : jobs'[i] \in Job
    BY <1>3, <2>1 DEF StartJob, TypeOK, Job
  <2>. QED
    BY <1>3, <2>2, <2>3 DEF StartJob, TypeOK, held
<1>4. CASE FinishJob(o)
  <2>1. Tail(queue[o]) \in Seq(DOMAIN jobs)
    BY <1>4, HeadTailProperties DEF FinishJob, TypeOK
  <2>. QED
    BY <1>4, <2>1 DEF FinishJob, TypeOK, heap
<1>5. CASE Remove(o)
  BY <1>5 DEF Remove, TypeOK, heap, held
<1>. QED
  BY <1>1, <1>2, <1>3, <1>4, <1>5

LEMMA TypeStep == TypeOK /\ [Next]_vars => TypeOK'
<1>1. CASE UNCHANGED vars
  BY <1>1 DEF vars, heap, held, TypeOK
<1>. QED
  BY <1>1, UserType, EngineType DEF Next

(* Every place in the heap that an object, a queue or the player refers to  *)
(* holds an order or a job.                                                 *)
THEOREM InputTypeCorrect == Spec => []TypeOK
BY TypeInit, TypeStep, PTL DEF Spec

-----------------------------------------------------------------------------
(* Instances are kept apart.                                                *)

(* As long as nobody touches an instance that is there, what holds of the   *)
(* orders goes on to hold.                                                  *)
LEMMA OrdersKept ==
  ASSUME TypeOK, OrdersApart, \A i \in DOMAIN orders : orders'[i] = orders[i],
         UNCHANGED <<current, secondary>>, pending' \in {pending, NoOrder}
  PROVE  OrdersApart'
BY DEF TypeOK, OrdersApart

LEMMA MultiDoApart ==
  ASSUME TypeOK, OrdersApart, NEW order \in Order, order.kind \in Kinds,
         MultiDo(order)
  PROVE  OrdersApart'
<1>1. /\ selected \subseteq Objects
      /\ \A o \in Objects : current[o] \in DOMAIN orders \cup {NoOrder}
      /\ \A o \in Objects : secondary[o] \in DOMAIN orders \cup {NoOrder}
  BY DEF TypeOK
<1>2. /\ \A i \in DOMAIN orders : orders'[i] = orders[i]
      /\ \A o \in selected : orders'[Clone(o)] = Started(order, o)
  BY MultiDoHeap
<1>3. \A o \in selected :
        /\ orders'[Clone(o)].obj = o /\ orders'[Clone(o)].started
        /\ orders'[Clone(o)].kind \in Kinds
  BY <1>1, <1>2, OrderTypes
<1>4. /\ pending' = NoOrder /\ secondary' = secondary
      /\ \A o \in Objects :
           current'[o] = IF o \in selected THEN Clone(o) ELSE current[o]
  BY DEF MultiDo
<1>. QED
  BY <1>1, <1>2, <1>3, <1>4 DEF OrdersApart

LEMMA MultiProduceApart ==
  ASSUME TypeOK, OrdersApart,
         NEW product \in [Objects -> Objects \cup {Launcher}],
         MultiProduce(product), pending' \in {pending, NoOrder}
  PROVE  OrdersApart'
<1>1. /\ \A o \in Objects : current[o] \in DOMAIN orders \cup {NoOrder}
      /\ \A o \in Objects : secondary[o] \in DOMAIN orders \cup {NoOrder}
      /\ pending \in DOMAIN orders \cup {NoOrder}
  BY DEF TypeOK
<1>2. /\ \A i \in DOMAIN orders : orders'[i] = orders[i]
      /\ \A o \in selected : /\ orders'[Clone(o)].obj = o
                             /\ orders'[Clone(o)].kind = "Produce"
  BY MultiProduceHeap
<1>3. /\ current' = current
      /\ \A o \in Objects :
           secondary'[o] = IF o \in selected THEN Clone(o) ELSE secondary[o]
  BY DEF MultiProduce
<1>. QED
  BY <1>1, <1>2, <1>3 DEF OrdersApart

LEMMA ApartInit == Init => OrdersApart /\ JobsApart
<1>. SUFFICES ASSUME Init PROVE OrdersApart /\ JobsApart
  OBVIOUS
<1>1. OrdersApart
  BY DEF Init, OrdersApart, Made, Kinds, NoOrder
<1>2. \A o \in Objects : queue[o] = <<>>
  BY DEF Init
<1>. QED
  BY <1>1, <1>2 DEF JobsApart

LEMMA OrdersStep == TypeOK /\ OrdersApart /\ [Next]_vars => OrdersApart'
<1>. SUFFICES ASSUME TypeOK, OrdersApart, [Next]_vars PROVE OrdersApart'
  OBVIOUS
<1>1. ASSUME NEW kind \in Kinds, Choose(kind) PROVE OrdersApart'
  <2>1. /\ \A i \in DOMAIN orders : orders'[i] = orders[i]
        /\ orders'[pending'] = Made(kind, Ground)
    BY <1>1, ChooseType
  <2>2. ~Made(kind, Ground).started /\ Made(kind, Ground).kind \in Kinds
    BY DEF Made
  <2>3. current' = current /\ secondary' = secondary
    BY <1>1 DEF Choose, held
  <2>. QED
    BY <2>1, <2>2, <2>3 DEF OrdersApart, TypeOK
<1>2. CASE ProduceOwn
  <2>. DEFINE product == [o \in Objects |-> o]
  <2>1. product \in [Objects -> Objects \cup {Launcher}] /\ MultiProduce(product)
    BY <1>2 DEF ProduceOwn
  <2>. HIDE DEF product
  <2>. QED
    BY <1>2, <2>1, MultiProduceApart DEF ProduceOwn
<1>3. CASE ProduceLauncher
  <2>. DEFINE product == [o \in Objects |-> Launcher]
  <2>1. product \in [Objects -> Objects \cup {Launcher}] /\ MultiProduce(product)
    BY <1>3 DEF ProduceLauncher
  <2>. HIDE DEF product
  <2>. QED
    BY <1>3, <2>1, MultiProduceApart DEF ProduceLauncher
<1>4. CASE RightClick
  <2>1. Made("Move", Ground) \in Order /\ Made("Move", Ground).kind \in Kinds
    BY OrderTypes DEF Kinds, Target, Made
  <2>. QED
    BY <1>4, <2>1, MultiDoApart DEF RightClick
<1>5. CASE Click
  <2>1. PICK t \in inGame \cup {Ground} :
          MultiDo([orders[pending] EXCEPT !.target = t])
    BY <1>5 DEF Click, PlaceOrder
  <2>2. t \in Target /\ pending \in DOMAIN orders
         /\ orders[pending].kind \in Kinds
    BY <1>5 DEF Click, PlaceOrder, AwaitsTarget, TypeOK, Target
  <2>3. /\ [orders[pending] EXCEPT !.target = t] \in Order
        /\ [orders[pending] EXCEPT !.target = t].kind \in Kinds
    BY <2>2, GivenType
  <2>. QED
    BY <2>1, <2>3, MultiDoApart
<1>6. CASE Press \/ Release \/ Enter
  <2>1. orders' = orders /\ current' = current /\ secondary' = secondary
         /\ pending' \in {pending, NoOrder}
    BY <1>6 DEF Press, Release, Enter, heap, held
  <2>. QED
    BY <2>1, OrdersKept
<1>7. ASSUME NEW o \in Objects, EndOrder(o) \/ EndSecondary(o)
      PROVE  OrdersApart'
  <2>1. /\ orders' = orders /\ pending' = pending
        /\ \A p \in Objects : current'[p] \in {current[p], NoOrder}
        /\ \A p \in Objects : secondary'[p] \in {secondary[p], NoOrder}
    BY <1>7 DEF EndOrder, EndSecondary, heap, TypeOK
  <2>. QED
    BY <2>1 DEF OrdersApart
<1>8. ASSUME NEW o \in Objects, StartJob(o) \/ FinishJob(o) \/ Remove(o)
      PROVE  OrdersApart'
  <2>1. orders' = orders /\ current' = current /\ secondary' = secondary
         /\ pending' = pending
    BY <1>8 DEF StartJob, FinishJob, Remove, heap, held
  <2>. QED
    BY <2>1, OrdersKept
<1>9. CASE UNCHANGED vars
  <2>1. orders' = orders /\ current' = current /\ secondary' = secondary
         /\ pending' = pending
    BY <1>9 DEF vars, heap, held
  <2>. QED
    BY <2>1, OrdersKept
<1>. QED
  BY <1>1, <1>2, <1>3, <1>4, <1>5, <1>6, <1>7, <1>8, <1>9
     DEF Next, User, Engine

(* The queues stay and nothing in them is touched.                          *)
LEMMA JobsKept ==
  ASSUME TypeOK, JobsApart, queue' = queue,
         \A i \in DOMAIN jobs : jobs'[i] = jobs[i]
  PROVE  JobsApart'
<1>1. \A o \in Objects : \A i \in DOMAIN queue[o] : queue[o][i] \in DOMAIN jobs
  BY ElementOfSeq, LenProperties DEF TypeOK
<1>. QED
  BY <1>1 DEF JobsApart

(* A job as it is made.                                                      *)
LEMMA NotStartedYet == \A p : [what |-> p, started |-> FALSE].started = FALSE
OBVIOUS

LEMMA MultiProduceJobs ==
  ASSUME TypeOK, JobsApart,
         NEW product \in [Objects -> Objects \cup {Launcher}],
         MultiProduce(product)
  PROVE  JobsApart'
<1>1. /\ selected \subseteq Objects
      /\ \A o \in Objects : queue[o] \in Seq(DOMAIN jobs)
  BY DEF TypeOK
<1>2. /\ \A i \in DOMAIN jobs : jobs'[i] = jobs[i]
      /\ \A o \in selected : CloneJob(o) \notin DOMAIN jobs
                               /\ ~jobs'[CloneJob(o)].started
  <2>1. /\ \A i \in DOMAIN jobs : jobs'[i] = jobs[i]
        /\ \A o \in selected :
             /\ CloneJob(o) \notin DOMAIN jobs
             /\ jobs'[CloneJob(o)] = [what |-> product[o], started |-> FALSE]
    BY MultiProduceHeap
  <2>2. ASSUME NEW o \in selected
        PROVE  ~jobs'[CloneJob(o)].started
    <3>1. jobs'[CloneJob(o)].started
            = [what |-> product[o], started |-> FALSE].started
      BY <2>1, Zenon
    <3>2. [what |-> product[o], started |-> FALSE].started = FALSE
      BY NotStartedYet, Zenon
    <3>. QED
      BY <3>1, <3>2, Zenon
  <2>. QED
    BY <2>1, <2>2, Zenon
<1>3. \A o, p \in selected : CloneJob(o) = CloneJob(p) => o = p
  BY <1>1, NewPlaces DEF CloneJob, TypeOK
<1>4. ASSUME NEW o \in Objects, NEW i \in DOMAIN queue'[o]
      PROVE  \/ /\ i \in DOMAIN queue[o] /\ queue'[o][i] = queue[o][i]
                /\ queue'[o][i] \in DOMAIN jobs
             \/ /\ o \in selected /\ i = Len(queue[o]) + 1
                /\ queue'[o][i] = CloneJob(o)
  <2>1. queue'[o] = IF o \in selected THEN Append(queue[o], CloneJob(o))
                    ELSE queue[o]
    BY DEF MultiProduce
  <2>2. CASE o \notin selected
    BY <1>1, <1>4, <2>1, <2>2, ElementOfSeq, LenProperties
  <2>3. CASE o \in selected
    <3>1. queue[o] \in Seq(DOMAIN jobs \cup {CloneJob(o)})
      BY <1>1, SeqInLarger
    <3>2. /\ queue'[o] = Append(queue[o], CloneJob(o))
          /\ queue'[o] \in Seq(DOMAIN jobs \cup {CloneJob(o)})
          /\ Len(queue'[o]) = Len(queue[o]) + 1
          /\ \A j \in 1 .. Len(queue[o]) : queue'[o][j] = queue[o][j]
          /\ queue'[o][Len(queue[o]) + 1] = CloneJob(o)
      BY <2>1, <2>3, <3>1, AppendProperties
    <3>3. /\ DOMAIN queue[o] = 1 .. Len(queue[o]) /\ Len(queue[o]) \in Nat
          /\ DOMAIN queue'[o] = 1 .. (Len(queue[o]) + 1)
      BY <1>1, <3>2, LenProperties
    <3>4. i \in 1 .. Len(queue[o]) \/ i = Len(queue[o]) + 1
      BY <1>4, <3>3
    <3>5. \A j \in 1 .. Len(queue[o]) : queue[o][j] \in DOMAIN jobs
      BY <1>1, ElementOfSeq
    <3>. QED
      BY <2>3, <3>2, <3>3, <3>4, <3>5
  <2>. QED
    BY <2>2, <2>3
<1>5. SUFFICES ASSUME NEW o \in Objects, NEW p \in Objects,
                      NEW i \in DOMAIN queue'[o], NEW j \in DOMAIN queue'[p]
               PROVE  /\ queue'[o][i] = queue'[p][j] => o = p /\ i = j
                      /\ i > 1 => ~jobs'[queue'[o][i]].started
  BY DEF JobsApart
<1>6. queue'[o][i] = queue'[p][j] => o = p /\ i = j
  BY <1>2, <1>3, <1>4 DEF JobsApart
<1>7. i > 1 => ~jobs'[queue'[o][i]].started
  <2>1. CASE i \in DOMAIN queue[o] /\ queue'[o][i] = queue[o][i]
              /\ queue'[o][i] \in DOMAIN jobs
    BY <1>2, <2>1 DEF JobsApart
  <2>. QED
    BY <1>2, <1>4, <2>1
<1>. QED
  BY <1>6, <1>7

LEMMA JobsStep == TypeOK /\ JobsApart /\ [Next]_vars => JobsApart'
<1>. SUFFICES ASSUME TypeOK, JobsApart, [Next]_vars PROVE JobsApart'
  OBVIOUS
<1>1. CASE ProduceOwn
  <2>. DEFINE product == [o \in Objects |-> o]
  <2>1. product \in [Objects -> Objects \cup {Launcher}] /\ MultiProduce(product)
    BY <1>1 DEF ProduceOwn
  <2>. HIDE DEF product
  <2>. QED
    BY <2>1, MultiProduceJobs
<1>2. CASE ProduceLauncher
  <2>. DEFINE product == [o \in Objects |-> Launcher]
  <2>1. product \in [Objects -> Objects \cup {Launcher}] /\ MultiProduce(product)
    BY <1>2 DEF ProduceLauncher
  <2>. HIDE DEF product
  <2>. QED
    BY <2>1, MultiProduceJobs
<1>3. ASSUME NEW order, MultiDo(order) PROVE jobs' = jobs /\ queue' = queue
  BY <1>3 DEF MultiDo
<1>4. CASE RightClick \/ Click \/ Press \/ Release \/ Enter
            \/ \E kind \in Kinds : Choose(kind)
  <2>1. jobs' = jobs /\ queue' = queue
    BY <1>3, <1>4 DEF RightClick, Click, PlaceOrder, Press, Release, Enter,
                      Choose, heap, held
  <2>. QED
    BY <2>1, JobsKept
<1>5. ASSUME NEW o \in Objects, EndOrder(o) \/ EndSecondary(o) \/ Remove(o)
      PROVE  JobsApart'
  <2>1. jobs' = jobs /\ queue' = queue
    BY <1>5 DEF EndOrder, EndSecondary, Remove, heap, held
  <2>. QED
    BY <2>1, JobsKept
<1>6. ASSUME NEW o \in Objects, StartJob(o) PROVE JobsApart'
  <2>1. /\ queue[o] \in Seq(DOMAIN jobs) /\ queue[o] # <<>>
        /\ queue' = queue
        /\ jobs' = [jobs EXCEPT ![Head(queue[o])].started = TRUE]
    BY <1>6 DEF StartJob, TypeOK, held
  <2>2. 1 \in DOMAIN queue[o] /\ Head(queue[o]) = queue[o][1]
    BY <2>1, HeadTailProperties, EmptySeq, LenProperties
  <2>3. \A p \in Objects : \A i \in DOMAIN queue[p] : queue[p][i] \in DOMAIN jobs
    BY ElementOfSeq, LenProperties DEF TypeOK
  <2>4. \A k \in DOMAIN jobs : k # queue[o][1] => jobs'[k] = jobs[k]
    BY <2>1, <2>2
  <2>5. \A p \in Objects : \A i \in DOMAIN queue[p] :
          i > 1 => queue[p][i] # queue[o][1]
    BY <2>2 DEF JobsApart
  <2>. QED
    BY <2>1, <2>3, <2>4, <2>5 DEF JobsApart
<1>7. ASSUME NEW o \in Objects, FinishJob(o) PROVE JobsApart'
  <2>1. /\ queue[o] \in Seq(DOMAIN jobs) /\ queue[o] # <<>> /\ jobs' = jobs
        /\ queue' = [queue EXCEPT ![o] = Tail(queue[o])]
    BY <1>7 DEF FinishJob, TypeOK, heap
  <2>2. /\ \A p \in Objects : p # o => queue'[p] = queue[p]
        /\ queue'[o] = Tail(queue[o])
    BY <2>1 DEF TypeOK
  <2>3. /\ Len(queue[o]) \in Nat \ {0} /\ DOMAIN queue[o] = 1 .. Len(queue[o])
        /\ Tail(queue[o]) \in Seq(DOMAIN jobs)
        /\ Len(Tail(queue[o])) = Len(queue[o]) - 1
        /\ \A i \in 1 .. Len(queue[o]) - 1 : Tail(queue[o])[i] = queue[o][i + 1]
    BY <2>1, HeadTailProperties, EmptySeq, LenProperties
  <2>4. DOMAIN Tail(queue[o]) = 1 .. (Len(queue[o]) - 1)
    BY <2>3, LenProperties
  <2>5. \A i \in DOMAIN queue'[o] :
          i \in Nat /\ i >= 1 /\ i + 1 \in DOMAIN queue[o]
          /\ queue'[o][i] = queue[o][i + 1]
    BY <2>2, <2>3, <2>4
  <2>6. SUFFICES ASSUME NEW p \in Objects, NEW q \in Objects,
                        NEW i \in DOMAIN queue'[p], NEW j \in DOMAIN queue'[q]
                 PROVE  /\ queue'[p][i] = queue'[q][j] => p = q /\ i = j
                        /\ i > 1 => ~jobs'[queue'[p][i]].started
    BY DEF JobsApart
  <2>7. CASE p # o /\ q # o
    BY <2>1, <2>2, <2>7 DEF JobsApart
  <2>8. CASE p = o /\ q # o
    <3>1. i + 1 \in DOMAIN queue[o] /\ queue'[p][i] = queue[o][i + 1]
           /\ i \in Nat /\ i >= 1
      BY <2>5, <2>8
    <3>2. j \in DOMAIN queue[q] /\ queue'[q][j] = queue[q][j]
      BY <2>2, <2>8
    <3>3. queue[o][i + 1] # queue[q][j] /\ ~jobs[queue[o][i + 1]].started
      BY <2>8, <3>1, <3>2 DEF JobsApart
    <3>. QED
      BY <2>1, <3>1, <3>2, <3>3
  <2>9. CASE p # o /\ q = o
    <3>1. j + 1 \in DOMAIN queue[o] /\ queue'[q][j] = queue[o][j + 1]
           /\ j \in Nat
      BY <2>5, <2>9
    <3>2. i \in DOMAIN queue[p] /\ queue'[p][i] = queue[p][i]
      BY <2>2, <2>9
    <3>3. /\ queue[p][i] # queue[o][j + 1]
          /\ i > 1 => ~jobs[queue[p][i]].started
      BY <2>9, <3>1, <3>2 DEF JobsApart
    <3>. QED
      BY <2>1, <3>1, <3>2, <3>3
  <2>10. CASE p = o /\ q = o
    <3>1. /\ i + 1 \in DOMAIN queue[o] /\ queue'[o][i] = queue[o][i + 1]
          /\ j + 1 \in DOMAIN queue[o] /\ queue'[o][j] = queue[o][j + 1]
          /\ i \in Nat /\ j \in Nat /\ i >= 1
      BY <2>5, <2>10
    <3>2. queue[o][i + 1] = queue[o][j + 1] => i + 1 = j + 1
      BY <3>1 DEF JobsApart
    <3>3. i + 1 > 1 => ~jobs[queue[o][i + 1]].started
      BY <3>1 DEF JobsApart
    <3>. QED
      BY <2>1, <2>10, <3>1, <3>2, <3>3
  <2>. QED
    BY <2>7, <2>8, <2>9, <2>10
<1>8. CASE UNCHANGED vars
  <2>1. jobs' = jobs /\ queue' = queue
    BY <1>8 DEF vars, heap, held
  <2>. QED
    BY <2>1, JobsKept
<1>. QED
  BY <1>1, <1>2, <1>4, <1>5, <1>6, <1>7, <1>8 DEF Next, User, Engine

LEMMA InputInvariant == Spec => [](TypeOK /\ OrdersApart /\ JobsApart)
<1>1. Init => TypeOK /\ OrdersApart /\ JobsApart
  BY TypeInit, ApartInit
<1>2. TypeOK /\ OrdersApart /\ JobsApart /\ [Next]_vars
        => (TypeOK /\ OrdersApart /\ JobsApart)'
  BY TypeStep, OrdersStep, JobsStep
<1>. QED
  BY <1>1, <1>2, PTL DEF Spec

(* Order::clone and Order::initOrder: every object has an order instance of *)
(* its own, made for it, and the pending order is nobody's.                 *)
THEOREM EverybodysOwnOrder == Spec => []OrdersApart
BY InputInvariant, PTL

(* ProductionInfo::clone: no two places in the queues share a job, and the  *)
(* time of one that waits does not run.                                     *)
THEOREM EverybodysOwnJob == Spec => []JobsApart
BY InputInvariant, PTL

-----------------------------------------------------------------------------
(* PlayerInput implements Commander.  What the user sees of it:             *)

WishSeen == IF pending = NoOrder THEN "None" ELSE orders[pending].kind
DoingSeen == [o \in Objects |-> CommandOf(o)]
MakingSeen == [o \in Objects |->
                 [i \in DOMAIN queue[o] |-> jobs[queue[o][i]].what]]

Products == Objects \cup {Launcher}

IInv == TypeOK /\ OrdersApart /\ JobsApart

-----------------------------------------------------------------------------
(* Commander's definitions, with what the user sees for its variables.      *)

LEMMA SeenVars ==
  Promise!cvars = <<selected, WishSeen, DoingSeen, MakingSeen>>
BY DEF Promise!cvars, WishSeen, DoingSeen, MakingSeen

LEMMA SeenSelect ==
  ASSUME selected' \subseteq Objects, Promise!Selectable(selected'),
         WishSeen' = WishSeen, DoingSeen' = DoingSeen,
         MakingSeen' = MakingSeen
  PROVE  Promise!CNext
BY DEF Promise!CNext, Promise!Select, WishSeen, DoingSeen, MakingSeen

LEMMA SeenWish ==
  ASSUME WishSeen' \in Kinds, selected' = selected,
         DoingSeen' = DoingSeen, MakingSeen' = MakingSeen
  PROVE  Promise!CNext
BY DEF Promise!CNext, Promise!Wish, WishSeen, DoingSeen, MakingSeen

LEMMA SeenGive ==
  ASSUME NEW k \in {WishSeen, "Move"} \ {"None"}, NEW t \in Target,
         DoingSeen' = [o \in Objects |->
                         IF o \in selected THEN [kind |-> k, target |-> t]
                         ELSE DoingSeen[o]],
         WishSeen' = "None", selected' = selected, MakingSeen' = MakingSeen
  PROVE  Promise!CNext
<1>1. Promise!Give([kind |-> k, target |-> t])
  BY DEF Promise!Give, WishSeen, DoingSeen, MakingSeen
<1>2. Promise!GiveSome
  BY <1>1 DEF Promise!GiveSome, WishSeen
<1>. QED
  BY <1>2 DEF Promise!CNext

LEMMA SeenMake ==
  ASSUME NEW f \in [Objects -> Products],
         MakingSeen' = [o \in Objects |->
                          IF o \in selected THEN Append(MakingSeen[o], f[o])
                          ELSE MakingSeen[o]],
         WishSeen' \in {WishSeen, "None"}, selected' = selected,
         DoingSeen' = DoingSeen
  PROVE  Promise!CNext
<1>1. Promise!Make
  BY DEF Promise!Make, WishSeen, DoingSeen, MakingSeen, Products
<1>. QED
  BY <1>1 DEF Promise!CNext

LEMMA SeenDone ==
  ASSUME NEW o \in Objects,
         DoingSeen' = [DoingSeen EXCEPT ![o] = [kind |-> "None",
                                               target |-> Ground]],
         selected' = selected, WishSeen' = WishSeen, MakingSeen' = MakingSeen
  PROVE  Promise!CNext
<1>1. Promise!Done(o)
  BY DEF Promise!Done, Promise!Nothing, WishSeen, DoingSeen, MakingSeen, Ground
<1>. QED
  BY <1>1 DEF Promise!CNext

LEMMA SeenMade ==
  ASSUME NEW o \in Objects, MakingSeen[o] # <<>>,
         MakingSeen' = [MakingSeen EXCEPT ![o] = Tail(@)],
         selected' = selected, WishSeen' = WishSeen, DoingSeen' = DoingSeen
  PROVE  Promise!CNext
<1>1. Promise!Made(o)
  BY DEF Promise!Made, WishSeen, DoingSeen, MakingSeen
<1>. QED
  BY <1>1 DEF Promise!CNext

-----------------------------------------------------------------------------
(* What does not change what the user sees.                                 *)

LEMMA WishKept ==
  ASSUME TypeOK, pending' = pending,
         \A i \in DOMAIN orders : orders'[i] = orders[i]
  PROVE  WishSeen' = WishSeen
BY DEF TypeOK, WishSeen

LEMMA DoingKept ==
  ASSUME TypeOK, current' = current,
         \A i \in DOMAIN orders : orders'[i] = orders[i]
  PROVE  DoingSeen' = DoingSeen
<1>1. ASSUME NEW o \in Objects PROVE CommandOf(o)' = CommandOf(o)
  BY DEF TypeOK, CommandOf
<1>. QED
  BY <1>1 DEF DoingSeen

LEMMA MakingKept ==
  ASSUME TypeOK, queue' = queue,
         \A i \in DOMAIN jobs : jobs'[i].what = jobs[i].what
  PROVE  MakingSeen' = MakingSeen
<1>1. ASSUME NEW o \in Objects, NEW i \in DOMAIN queue[o]
      PROVE  jobs'[queue[o][i]].what = jobs[queue[o][i]].what
  BY ElementOfSeq, LenProperties DEF TypeOK
<1>. QED
  BY <1>1 DEF MakingSeen

LEMMA PickIsSelectable ==
  ASSUME NEW S, NEW onePixel PROVE Promise!Selectable(Pick(S, onePixel))
<1>1. Pick(S, onePixel) \subseteq Filtered(S)
  BY DEF Pick, FirstOf
<1>2. \/ Filtered(S) \subseteq Units
      \/ /\ Filtered(S) \cap Units = {}
         /\ Filtered(S) \subseteq Mine \/ Filtered(S) \cap Mine = {}
  BY DEF Filtered
<1>. QED
  BY <1>1, <1>2 DEF Promise!Selectable

(* The names of the products of a queue of jobs, seen one by one.           *)
LEMMA SeenSeq ==
  ASSUME NEW D, NEW q \in Seq(D), NEW n, \A i \in D : n[i] \in Products
  PROVE  [i \in DOMAIN q |-> n[q[i]]] \in Seq(Products)
           /\ Len([i \in DOMAIN q |-> n[q[i]]]) = Len(q)
<1>1. DOMAIN q = 1 .. Len(q) /\ Len(q) \in Nat
  BY LenProperties
<1>2. [i \in DOMAIN q |-> n[q[i]]] \in [1 .. Len(q) -> Products]
  BY <1>1, ElementOfSeq
<1>3. [i \in DOMAIN q |-> n[q[i]]] \in Seq(Products)
  BY <1>1, <1>2, SeqDef
<1>. QED
  BY <1>1, <1>2, <1>3, LenProperties

LEMMA SeenAppend ==
  ASSUME NEW D, NEW q \in Seq(D), NEW x \in D,
         NEW n, \A i \in D : n[i] \in Products
  PROVE  [i \in DOMAIN Append(q, x) |-> n[Append(q, x)[i]]]
           = Append([i \in DOMAIN q |-> n[q[i]]], n[x])
<1>. DEFINE s == [i \in DOMAIN q |-> n[q[i]]]
            a == Append(q, x)
            t == [i \in DOMAIN a |-> n[a[i]]]
<1>1. /\ a \in Seq(D) /\ Len(a) = Len(q) + 1
      /\ \A i \in 1 .. Len(q) : a[i] = q[i]
      /\ a[Len(q) + 1] = x
  BY AppendProperties
<1>2. /\ DOMAIN q = 1 .. Len(q) /\ Len(q) \in Nat
      /\ DOMAIN a = 1 .. Len(q) + 1
  BY <1>1, LenProperties
<1>3. s \in Seq(Products) /\ Len(s) = Len(q)
  BY SeenSeq
<1>4. \A i \in 1 .. Len(q) : s[i] = n[q[i]]
  BY <1>2
<1>. HIDE DEF a
<1>5. t \in Seq(Products) /\ Len(t) = Len(q) + 1
  BY <1>1, SeenSeq
<1>6. \A i \in 1 .. Len(q) + 1 : t[i] = n[a[i]]
  BY <1>2
<1>. HIDE DEF s, t
<1>7. /\ Append(s, n[x]) \in Seq(Products)
      /\ Len(Append(s, n[x])) = Len(s) + 1
      /\ \A i \in 1 .. Len(s) : Append(s, n[x])[i] = s[i]
      /\ Append(s, n[x])[Len(s) + 1] = n[x]
  BY <1>3, AppendProperties
<1>8. ASSUME NEW i \in 1 .. Len(t) PROVE t[i] = Append(s, n[x])[i]
  <2>1. CASE i \in 1 .. Len(q)
    BY <1>1, <1>3, <1>4, <1>5, <1>6, <1>7, <2>1
  <2>2. CASE i = Len(q) + 1
    BY <1>1, <1>3, <1>5, <1>6, <1>7, <2>2
  <2>3. i \in 1 .. Len(q) + 1 /\ Len(q) \in Nat
    BY <1>2, <1>5
  <2>4. i \in 1 .. Len(q) \/ i = Len(q) + 1
    BY <2>3
  <2>. QED
    BY <2>1, <2>2, <2>4
<1>9. t = Append(s, n[x])
  BY <1>3, <1>5, <1>7, <1>8, SeqEqual
<1>. QED
  BY <1>9 DEF s, t, a

LEMMA SeenTail ==
  ASSUME NEW D, NEW q \in Seq(D), q # <<>>,
         NEW n, \A i \in D : n[i] \in Products
  PROVE  /\ [i \in DOMAIN q |-> n[q[i]]] # <<>>
         /\ [i \in DOMAIN Tail(q) |-> n[Tail(q)[i]]]
              = Tail([i \in DOMAIN q |-> n[q[i]]])
<1>. DEFINE s == [i \in DOMAIN q |-> n[q[i]]]
            a == Tail(q)
            t == [i \in DOMAIN a |-> n[a[i]]]
<1>1. /\ a \in Seq(D) /\ Len(a) = Len(q) - 1
      /\ \A i \in 1 .. Len(a) : a[i] = q[i + 1]
  BY HeadTailProperties
<1>2. /\ DOMAIN q = 1 .. Len(q) /\ Len(q) \in Nat \ {0}
      /\ DOMAIN a = 1 .. Len(q) - 1
  BY <1>1, LenProperties, EmptySeq
<1>3. s \in Seq(Products) /\ Len(s) = Len(q)
  BY SeenSeq
<1>4. \A i \in 1 .. Len(q) : s[i] = n[q[i]]
  BY <1>2
<1>. HIDE DEF a
<1>5. t \in Seq(Products) /\ Len(t) = Len(q) - 1
  BY <1>1, SeenSeq
<1>6. \A i \in 1 .. Len(q) - 1 : t[i] = n[a[i]]
  BY <1>2
<1>. HIDE DEF s, t
<1>7. s # <<>>
  BY <1>2, <1>3, EmptySeq
<1>8. /\ Tail(s) \in Seq(Products) /\ Len(Tail(s)) = Len(s) - 1
      /\ \A i \in 1 .. Len(Tail(s)) : Tail(s)[i] = s[i + 1]
  BY <1>3, <1>7, HeadTailProperties
<1>9. ASSUME NEW i \in 1 .. Len(t) PROVE t[i] = Tail(s)[i]
  <2>1. i \in 1 .. Len(q) - 1 /\ i + 1 \in 1 .. Len(q)
    BY <1>2, <1>5
  <2>2. t[i] = n[a[i]] /\ a[i] = q[i + 1]
    BY <1>1, <1>6, <2>1
  <2>3. s[i + 1] = n[q[i + 1]]
    BY <1>4, <2>1
  <2>4. i \in 1 .. Len(Tail(s))
    BY <1>3, <1>8, <2>1
  <2>5. Tail(s)[i] = s[i + 1]
    BY <1>8, <2>4
  <2>. QED
    BY <2>2, <2>3, <2>5
<1>10. t = Tail(s)
  BY <1>3, <1>5, <1>8, <1>9, SeqEqual
<1>. QED
  BY <1>7, <1>10 DEF s, t, a

-----------------------------------------------------------------------------
(* The beginning and every step.                                            *)

LEMMA BeginsAsPromised == Init => Promise!CInit
<1>. SUFFICES ASSUME Init PROVE Promise!CInit
  OBVIOUS
<1>1. \A o \in Objects : CommandOf(o) \in Promise!Command \cup {Promise!Nothing}
  <2>1. SUFFICES ASSUME NEW o \in Scenario
                 PROVE  CommandOf(o) \in Promise!Command
    BY DEF Init, CommandOf, Promise!Nothing, Ground, NoOrder
  <2>2. orders[o].kind = "Move" /\ orders[o].target = Ground
    <3>1. orders[o] = [Made("Move", Ground) EXCEPT !.obj = o, !.started = TRUE]
      BY DEF Init
    <3>. QED
      BY <3>1 DEF Made
  <2>3. current[o] = o /\ o # NoOrder
    <3>1. o \in Objects
      BY ObjectsAssumption
    <3>2. o # NoOrder
      BY <3>1 DEF Objects, NoOrder
    <3>. QED
      BY <3>1, <3>2 DEF Init
  <2>. QED
    BY <2>2, <2>3 DEF CommandOf, Promise!Command, Kinds, Target
<1>2. selected = {} /\ pending = NoOrder
  BY DEF Init
<1>3. MakingSeen = [o \in Objects |-> <<>>]
  <2>1. \A o \in Objects : queue[o] = <<>>
    BY DEF Init
  <2>2. DOMAIN <<>> = {}
    OBVIOUS
  <2>3. ASSUME NEW o \in Objects
        PROVE  [i \in DOMAIN queue[o] |-> jobs[queue[o][i]].what] = <<>>
    BY <2>1, <2>2
  <2>. QED
    BY <2>3 DEF MakingSeen
<1>. QED
  BY <1>1, <1>2, <1>3 DEF Promise!CInit, MakingSeen

LEMMA GivesAsPromised ==
  ASSUME IInv, NEW order \in Order, MultiDo(order),
         order.kind \in {WishSeen, "Move"} \ {"None"}, selected' = selected
  PROVE  Promise!CNext
<1>1. /\ \A i \in DOMAIN orders : orders'[i] = orders[i]
      /\ \A o \in selected : orders'[Clone(o)] = Started(order, o)
  BY MultiDoHeap DEF IInv
<1>2. /\ selected \subseteq Objects /\ fresh \in Nat \ {0}
      /\ current \in [Objects -> DOMAIN orders \cup {NoOrder}]
  BY DEF IInv, TypeOK
<1>3. /\ current' = [o \in Objects |-> IF o \in selected THEN Clone(o)
                                       ELSE current[o]]
      /\ pending' = NoOrder /\ jobs' = jobs /\ queue' = queue
  BY DEF MultiDo
<1>4. ASSUME NEW o \in selected
      PROVE  CommandOf(o)' = [kind |-> order.kind, target |-> order.target]
  <2>1. Clone(o) # NoOrder
    BY <1>2, NewPlaces DEF Clone, NoOrder
  <2>2. current'[o] = Clone(o) /\ orders'[Clone(o)] = Started(order, o)
    BY <1>1, <1>2, <1>3
  <2>3. Started(order, o).kind = order.kind
        /\ Started(order, o).target = order.target
    BY <1>2, OrderTypes
  <2>. QED
    BY <2>1, <2>2, <2>3 DEF CommandOf
<1>5. ASSUME NEW o \in Objects \ selected PROVE CommandOf(o)' = CommandOf(o)
  <2>1. current'[o] = current[o]
    BY <1>3
  <2>. QED
    BY <1>1, <1>2, <2>1 DEF CommandOf
<1>6. DoingSeen' = [o \in Objects |->
                      IF o \in selected
                      THEN [kind |-> order.kind, target |-> order.target]
                      ELSE DoingSeen[o]]
  BY <1>4, <1>5 DEF DoingSeen
<1>7. WishSeen' = "None"
  BY <1>3 DEF WishSeen
<1>8. MakingSeen' = MakingSeen
  BY <1>3, MakingKept DEF IInv
<1>9. order.target \in Target
  BY DEF Order
<1>. QED
  BY <1>6, <1>7, <1>8, <1>9, SeenGive

LEMMA MakesAsPromised ==
  ASSUME IInv, NEW product \in [Objects -> Products],
         MultiProduce(product), pending' \in {pending, NoOrder},
         selected' = selected
  PROVE  Promise!CNext
<1>1. /\ \A i \in DOMAIN orders : orders'[i] = orders[i]
      /\ \A i \in DOMAIN jobs : i \in DOMAIN jobs' /\ jobs'[i] = jobs[i]
      /\ \A i \in DOMAIN jobs' : jobs'[i] \in Job
      /\ \A o \in selected :
           /\ CloneJob(o) \in DOMAIN jobs'
           /\ jobs'[CloneJob(o)] = [what |-> product[o], started |-> FALSE]
  BY MultiProduceHeap DEF IInv, Products
<1>2. selected \subseteq Objects /\ \A o \in Objects : queue[o] \in Seq(DOMAIN jobs)
  BY DEF IInv, TypeOK
<1>3. /\ queue' = [o \in Objects |-> IF o \in selected
                                     THEN Append(queue[o], CloneJob(o))
                                     ELSE queue[o]]
      /\ current' = current
  BY DEF MultiProduce
<1>. DEFINE n == [i \in DOMAIN jobs' |-> jobs'[i].what]
<1>4. \A i \in DOMAIN jobs' : n[i] = jobs'[i].what /\ n[i] \in Products
  BY <1>1 DEF Job, Products
<1>. HIDE DEF n
<1>5. ASSUME NEW o \in Objects
      PROVE  /\ queue[o] \in Seq(DOMAIN jobs')
             /\ MakingSeen[o] = [i \in DOMAIN queue[o] |-> n[queue[o][i]]]
  <2>1. queue[o] \in Seq(DOMAIN jobs')
    BY <1>1, <1>2, SeqInLarger
  <2>2. ASSUME NEW i \in DOMAIN queue[o]
        PROVE  jobs[queue[o][i]].what = n[queue[o][i]]
    <3>1. queue[o][i] \in DOMAIN jobs
      BY <1>2, ElementOfSeq, LenProperties
    <3>. QED
      BY <1>1, <1>4, <3>1
  <2>. QED
    BY <2>1, <2>2 DEF MakingSeen
<1>6. ASSUME NEW o \in Objects
      PROVE  MakingSeen'[o] = [i \in DOMAIN queue'[o] |-> n[queue'[o][i]]]
  <2>1. queue'[o] \in Seq(DOMAIN jobs')
    <3>1. CASE o \in selected
      <4>1. queue'[o] = Append(queue[o], CloneJob(o))
        BY <1>3, <3>1
      <4>2. queue[o] \in Seq(DOMAIN jobs') /\ CloneJob(o) \in DOMAIN jobs'
        BY <1>1, <1>5, <3>1
      <4>3. Append(queue[o], CloneJob(o)) \in Seq(DOMAIN jobs')
        BY <4>2, AppendProperties
      <4>. QED
        BY <4>1, <4>3
    <3>2. CASE o \notin selected
      BY <1>3, <1>5, <3>2
    <3>. QED
      BY <3>1, <3>2
  <2>2. ASSUME NEW i \in DOMAIN queue'[o]
        PROVE  jobs'[queue'[o][i]].what = n[queue'[o][i]]
    <3>1. queue'[o][i] \in DOMAIN jobs'
      BY <2>1, ElementOfSeq, LenProperties
    <3>. QED
      BY <1>4, <3>1
  <2>. QED
    BY <2>2 DEF MakingSeen
<1>7. ASSUME NEW o \in selected
      PROVE  MakingSeen'[o] = Append(MakingSeen[o], product[o])
  <2>1. queue'[o] = Append(queue[o], CloneJob(o)) /\ o \in Objects
    BY <1>2, <1>3
  <2>2. n[CloneJob(o)] = product[o]
    <3>1. [what |-> product[o], started |-> FALSE].what = product[o]
      OBVIOUS
    <3>2. n[CloneJob(o)] = jobs'[CloneJob(o)].what
      BY <1>1, <1>4
    <3>. QED
      BY <1>1, <3>1, <3>2
  <2>3. CloneJob(o) \in DOMAIN jobs'
    BY <1>1
  <2>4. [i \in DOMAIN Append(queue[o], CloneJob(o)) |->
           n[Append(queue[o], CloneJob(o))[i]]]
          = Append([i \in DOMAIN queue[o] |-> n[queue[o][i]]], n[CloneJob(o)])
    BY <1>4, <1>5, <2>1, <2>3, SeenAppend
  <2>. QED
    BY <1>5, <1>6, <2>1, <2>2, <2>4
<1>8. ASSUME NEW o \in Objects \ selected PROVE MakingSeen'[o] = MakingSeen[o]
  <2>1. queue'[o] = queue[o]
    BY <1>3
  <2>2. MakingSeen'[o] = [i \in DOMAIN queue'[o] |-> n[queue'[o][i]]]
    BY <1>6
  <2>3. MakingSeen[o] = [i \in DOMAIN queue[o] |-> n[queue[o][i]]]
    BY <1>5
  <2>. QED
    BY <2>1, <2>2, <2>3, Zenon
<1>9. MakingSeen' = [o \in Objects |->
                       IF o \in selected THEN Append(MakingSeen[o], product[o])
                       ELSE MakingSeen[o]]
  <2>1. MakingSeen' = [o \in Objects |-> MakingSeen'[o]]
    BY DEF MakingSeen
  <2>. QED
    BY <1>7, <1>8, <2>1
<1>10. WishSeen' \in {WishSeen, "None"}
  <2>1. CASE pending' = pending
    BY <1>1, <2>1, WishKept DEF IInv
  <2>2. CASE pending' = NoOrder
    BY <2>2 DEF WishSeen
  <2>. QED
    BY <2>1, <2>2
<1>11. DoingSeen' = DoingSeen
  BY <1>1, <1>3, DoingKept DEF IInv
<1>. QED
  BY <1>9, <1>10, <1>11, SeenMake

LEMMA UserAsPromised ==
  ASSUME IInv, User PROVE Promise!CNext \/ UNCHANGED Promise!cvars
<1>1. ASSUME NEW kind \in Kinds, Choose(kind) PROVE Promise!CNext
  <2>1. /\ \A i \in DOMAIN orders : orders'[i] = orders[i]
        /\ orders'[pending'] = Made(kind, Ground)
    BY <1>1, ChooseType DEF IInv
  <2>2. /\ pending' # NoOrder /\ selected' = selected /\ current' = current
        /\ queue' = queue /\ jobs' = jobs
    BY <1>1 DEF Choose, IInv, TypeOK, NoOrder, held
  <2>3. WishSeen' = kind
    BY <2>1, <2>2 DEF WishSeen, Made
  <2>4. DoingSeen' = DoingSeen /\ MakingSeen' = MakingSeen
    BY <2>1, <2>2, DoingKept, MakingKept DEF IInv
  <2>. QED
    BY <2>2, <2>3, <2>4, SeenWish
<1>2. CASE ProduceOwn
  <2>. DEFINE product == [o \in Objects |-> o]
  <2>1. product \in [Objects -> Products] /\ MultiProduce(product)
    BY <1>2 DEF ProduceOwn, Products
  <2>. HIDE DEF product
  <2>. QED
    BY <1>2, <2>1, MakesAsPromised DEF ProduceOwn
<1>3. CASE ProduceLauncher
  <2>. DEFINE product == [o \in Objects |-> Launcher]
  <2>1. product \in [Objects -> Products] /\ MultiProduce(product)
    BY <1>3 DEF ProduceLauncher, Products
  <2>. HIDE DEF product
  <2>. QED
    BY <1>3, <2>1, MakesAsPromised DEF ProduceLauncher
<1>4. CASE RightClick
  <2>1. Made("Move", Ground) \in Order /\ Made("Move", Ground).kind = "Move"
    BY OrderTypes DEF Kinds, Target, Made
  <2>. QED
    BY <1>4, <2>1, GivesAsPromised DEF RightClick
<1>5. CASE Click
  <2>1. PICK t \in inGame \cup {Ground} :
          MultiDo([orders[pending] EXCEPT !.target = t])
    BY <1>5 DEF Click, PlaceOrder
  <2>2. /\ t \in Target /\ pending \in DOMAIN orders
        /\ orders[pending].kind \in Kinds /\ WishSeen = orders[pending].kind
    BY <1>5 DEF Click, PlaceOrder, AwaitsTarget, IInv, TypeOK, Target, WishSeen
  <2>3. /\ [orders[pending] EXCEPT !.target = t] \in Order
        /\ [orders[pending] EXCEPT !.target = t].kind = orders[pending].kind
    BY <2>2, GivenType DEF IInv
  <2>4. orders[pending].kind \in {WishSeen, "Move"} \ {"None"}
    BY <2>2 DEF Kinds
  <2>5. selected' = selected
    BY <1>5 DEF Click, PlaceOrder
  <2>. QED
    BY <2>1, <2>3, <2>4, <2>5, GivesAsPromised
<1>6. CASE Press
  <2>1. pending = NoOrder
    BY <1>6 DEF Press, AwaitsTarget, IInv, OrdersApart
  <2>2. /\ pending' = pending /\ selected' = selected /\ current' = current
        /\ queue' = queue /\ jobs' = jobs /\ orders' = orders
    BY <1>6, <2>1 DEF Press, heap, held
  <2>3. WishSeen' = WishSeen /\ DoingSeen' = DoingSeen /\ MakingSeen' = MakingSeen
    BY <2>2, WishKept, DoingKept, MakingKept DEF IInv
  <2>. QED
    BY <2>2, <2>3, SeenVars DEF WishSeen, DoingSeen, MakingSeen, Promise!cvars
<1>7. CASE Release
  <2>1. PICK S \in SUBSET inGame, onePixel \in BOOLEAN :
          selected' = Pick(S, onePixel)
    BY <1>7 DEF Release
  <2>2. selected' \subseteq Objects /\ Promise!Selectable(selected')
    BY <2>1, PickIsSome, PickIsSelectable DEF IInv, TypeOK
  <2>3. /\ pending' = pending /\ current' = current
        /\ queue' = queue /\ jobs' = jobs /\ orders' = orders
    BY <1>7 DEF Release, heap, held
  <2>4. WishSeen' = WishSeen /\ DoingSeen' = DoingSeen /\ MakingSeen' = MakingSeen
    BY <2>3, WishKept, DoingKept, MakingKept DEF IInv
  <2>. QED
    BY <2>2, <2>4, SeenSelect
<1>8. CASE Enter
  <2>1. PICK S \in SUBSET inGame : selected' = Pick(S, FALSE)
    BY <1>8 DEF Enter
  <2>2. selected' \subseteq Objects /\ Promise!Selectable(selected')
    BY <2>1, PickIsSome, PickIsSelectable DEF IInv, TypeOK
  <2>3. pending = NoOrder
    BY <1>8 DEF Enter, AwaitsTarget, IInv, OrdersApart
  <2>4. /\ pending' = pending /\ current' = current
        /\ queue' = queue /\ jobs' = jobs /\ orders' = orders
    BY <1>8, <2>3 DEF Enter, heap, held
  <2>5. WishSeen' = WishSeen /\ DoingSeen' = DoingSeen /\ MakingSeen' = MakingSeen
    BY <2>4, WishKept, DoingKept, MakingKept DEF IInv
  <2>. QED
    BY <2>2, <2>5, SeenSelect
<1>. QED
  BY <1>1, <1>2, <1>3, <1>4, <1>5, <1>6, <1>7, <1>8 DEF User

LEMMA EngineAsPromised ==
  ASSUME IInv, Engine PROVE Promise!CNext \/ UNCHANGED Promise!cvars
<1>. PICK o \in Objects :
       EndOrder(o) \/ EndSecondary(o) \/ StartJob(o) \/ FinishJob(o) \/ Remove(o)
  BY DEF Engine
<1>1. CASE EndOrder(o)
  <2>1. /\ current' = [current EXCEPT ![o] = NoOrder]
        /\ pending' = pending /\ selected' = selected
        /\ queue' = queue /\ jobs' = jobs /\ orders' = orders
    BY <1>1 DEF EndOrder, heap
  <2>2. current \in [Objects -> DOMAIN orders \cup {NoOrder}]
    BY DEF IInv, TypeOK
  <2>3. CommandOf(o)' = [kind |-> "None", target |-> Ground]
    BY <2>1, <2>2 DEF CommandOf
  <2>4. ASSUME NEW p \in Objects \ {o} PROVE CommandOf(p)' = CommandOf(p)
    <3>1. current'[p] = current[p]
      BY <2>1, <2>2
    <3>. QED
      BY <2>1, <3>1 DEF CommandOf
  <2>5. DoingSeen' = [DoingSeen EXCEPT ![o] = [kind |-> "None",
                                              target |-> Ground]]
    BY <2>3, <2>4 DEF DoingSeen
  <2>6. WishSeen' = WishSeen /\ MakingSeen' = MakingSeen
    BY <2>1, WishKept, MakingKept DEF IInv
  <2>. QED
    BY <2>1, <2>5, <2>6, SeenDone
<1>2. CASE FinishJob(o)
  <2>1. /\ queue' = [queue EXCEPT ![o] = Tail(@)] /\ queue[o] # <<>>
        /\ current' = current /\ pending' = pending /\ selected' = selected
        /\ jobs' = jobs /\ orders' = orders
    BY <1>2 DEF FinishJob, heap
  <2>2. /\ queue \in [Objects -> Seq(DOMAIN jobs)]
        /\ \A i \in DOMAIN jobs : jobs[i] \in Job
    BY DEF IInv, TypeOK
  <2>. DEFINE n == [i \in DOMAIN jobs |-> jobs[i].what]
  <2>3. \A i \in DOMAIN jobs : n[i] = jobs[i].what /\ n[i] \in Products
    BY <2>2 DEF Job, Products
  <2>. HIDE DEF n
  <2>4. ASSUME NEW q \in Seq(DOMAIN jobs)
        PROVE  [i \in DOMAIN q |-> jobs[q[i]].what] = [i \in DOMAIN q |-> n[q[i]]]
    BY <2>3, ElementOfSeq, LenProperties
  <2>5. queue[o] \in Seq(DOMAIN jobs) /\ Tail(queue[o]) \in Seq(DOMAIN jobs)
    BY <2>1, <2>2, HeadTailProperties
  <2>6. /\ MakingSeen[o] = [i \in DOMAIN queue[o] |-> n[queue[o][i]]]
        /\ MakingSeen'[o] = [i \in DOMAIN Tail(queue[o]) |-> n[Tail(queue[o])[i]]]
    <3>1. queue'[o] = Tail(queue[o])
      BY <2>1, <2>2
    <3>2. MakingSeen'[o] = [i \in DOMAIN queue'[o] |-> jobs'[queue'[o][i]].what]
      BY DEF MakingSeen
    <3>3. MakingSeen[o] = [i \in DOMAIN queue[o] |-> jobs[queue[o][i]].what]
      BY DEF MakingSeen
    <3>. QED
      BY <2>1, <2>4, <2>5, <3>1, <3>2, <3>3
  <2>7. /\ [i \in DOMAIN queue[o] |-> n[queue[o][i]]] # <<>>
        /\ [i \in DOMAIN Tail(queue[o]) |-> n[Tail(queue[o])[i]]]
             = Tail([i \in DOMAIN queue[o] |-> n[queue[o][i]]])
    BY <2>1, <2>3, <2>5, SeenTail
  <2>8. MakingSeen[o] # <<>> /\ MakingSeen'[o] = Tail(MakingSeen[o])
    BY <2>6, <2>7
  <2>9. ASSUME NEW p \in Objects \ {o} PROVE MakingSeen'[p] = MakingSeen[p]
    <3>1. queue'[p] = queue[p]
      BY <2>1, <2>2
    <3>. QED
      BY <2>1, <3>1 DEF MakingSeen
  <2>10. MakingSeen' = [MakingSeen EXCEPT ![o] = Tail(@)]
    <3>1. /\ MakingSeen' = [p \in Objects |-> MakingSeen'[p]]
          /\ MakingSeen = [p \in Objects |-> MakingSeen[p]]
      BY DEF MakingSeen
    <3>. QED
      BY <2>8, <2>9, <3>1
  <2>11. WishSeen' = WishSeen /\ DoingSeen' = DoingSeen
    BY <2>1, WishKept, DoingKept DEF IInv
  <2>. QED
    BY <2>1, <2>8, <2>10, <2>11, SeenMade
<1>3. CASE StartJob(o)
  <2>1. /\ queue' = queue /\ current' = current /\ pending' = pending
        /\ selected' = selected /\ orders' = orders
        /\ jobs' = [jobs EXCEPT ![Head(queue[o])].started = TRUE]
    BY <1>3 DEF StartJob, held
  <2>2. \A i \in DOMAIN jobs : jobs'[i].what = jobs[i].what
    BY <2>1 DEF IInv, TypeOK, Job
  <2>3. WishSeen' = WishSeen /\ DoingSeen' = DoingSeen /\ MakingSeen' = MakingSeen
    BY <2>1, <2>2, WishKept, DoingKept, MakingKept DEF IInv
  <2>. QED
    BY <2>1, <2>3 DEF WishSeen, DoingSeen, MakingSeen, Promise!cvars
<1>4. CASE EndSecondary(o) \/ Remove(o)
  <2>1. /\ queue' = queue /\ current' = current /\ pending' = pending
        /\ selected' = selected /\ orders' = orders /\ jobs' = jobs
    BY <1>4 DEF EndSecondary, Remove, heap, held
  <2>2. WishSeen' = WishSeen /\ DoingSeen' = DoingSeen /\ MakingSeen' = MakingSeen
    BY <2>1, WishKept, DoingKept, MakingKept DEF IInv
  <2>. QED
    BY <2>1, <2>2 DEF WishSeen, DoingSeen, MakingSeen, Promise!cvars
<1>. QED
  BY <1>1, <1>2, <1>3, <1>4

LEMMA StepsAsPromised ==
  IInv /\ [Next]_vars => [Promise!CNext]_Promise!cvars
<1>1. ASSUME IInv, Next PROVE Promise!CNext \/ UNCHANGED Promise!cvars
  BY <1>1, UserAsPromised, EngineAsPromised DEF Next
<1>2. ASSUME UNCHANGED vars PROVE UNCHANGED Promise!cvars
  BY <1>2 DEF vars, heap, held, Promise!cvars, CommandOf
<1>. QED
  BY <1>1, <1>2

(* What the SDL, ncurses and dummy interfaces, Player and Object::doOrder    *)
(* do together is what Commander promises: commands reach the selected       *)
(* objects and no others, and keep until they are done.                      *)
THEOREM KeepsThePromise == Spec => ImplementsCommander
<1>1. IInv /\ [Next]_vars => [Promise!CNext]_Promise!cvars
  BY StepsAsPromised
<1>2. Spec => []IInv
  BY InputInvariant DEF IInv
<1>. QED
  BY <1>1, <1>2, BeginsAsPromised, PTL DEF Spec, ImplementsCommander, Promise!CSpec

=============================================================================
