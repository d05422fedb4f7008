----------------------------- MODULE KickTest_proofs -----------------------------
(***************************************************************************)
(* Proofs about KickTest for any settings and any bounds on them: its types, *)
(* how long a kick stays on the wire, that pulses do not follow too closely, *)
(* and in what frame the program ends.                                      *)
(***************************************************************************)
EXTENDS KickTest, TLAPS

USE DefaultsAssumption, BoundsAssumption

-----------------------------------------------------------------------------
(***************************************************************************)
(* Types                                                                    *)
(***************************************************************************)

\* Where each goroutine may be.
MainSteps == {"begin", "charge", "menu", "arm", "arming", "hold", "show", "showing",
              "dribble", "once", "record", "quit"}
LoopSteps == {"off", "build", "send", "record", "sleep"}
CloserSteps == {"off", "stopped", "build", "send", "record", "sleep", "done"}

LEMMA ThreadSteps ==
    /\ (\A t \in Threads : pc[t] \in PcOf[t]) <=>
          pc["main"] \in MainSteps /\ pc["loop"] \in LoopSteps /\ pc["closer"] \in CloserSteps
BY DEF Threads, PcOf, MainSteps, LoopSteps, CloserSteps

\* The closer has safe frames left until its last one is sent.
FinalsLeft == pc["closer"] \in {"off", "stopped", "build", "send"} => finals > 0

TypeInv ==
    /\ hold \in 1..MaxHold /\ cooldown \in 0..MaxCooldown /\ period \in 1..MaxPeriod
    /\ charge \in BOOLEAN /\ dribble \in BOOLEAN /\ velocity \in BOOLEAN
    /\ kickAge \in 0..MaxCooldown
    /\ running \in BOOLEAN /\ armed \in BOOLEAN /\ left \in 0..(MaxHold + 1)
    /\ owner \in [Locks -> Threads \cup {"free"}]
    /\ DOMAIN pc = Threads /\ pc["main"] \in MainSteps
    /\ pc["loop"] \in LoopSteps /\ pc["closer"] \in CloserSteps
    /\ nap \in [Threads -> 0..(MaxHold + MaxDribble + MaxPeriod)]
    /\ built \in [Threads -> Frame]
    /\ typed \in BOOLEAN /\ signalled \in BOOLEAN
    /\ closePeriod \in 1..MaxPeriod
    /\ deadline \in 0..Discharge /\ finals \in 0..FinalFrames
    /\ sent \in Frame /\ sentBy \in Threads
    /\ askedAge \in 0..(KickBound + 1)
    /\ meddled \subseteq {"start", "charge", "dribble", "velocity"}
    /\ FinalsLeft
\* The durations the actions assign, and the frames.
LEMMA Durations ==
    /\ \A n \in 1..MaxHold : n + 1 \in 0..(MaxHold + 1)
                             /\ n + 1 \in 0..(MaxHold + MaxDribble + MaxPeriod)
    /\ \A n \in 1..MaxPeriod : n \in 0..(MaxHold + MaxDribble + MaxPeriod)
    /\ \A n \in 1..MaxDribble : n \in 0..(MaxHold + MaxDribble + MaxPeriod)
    /\ 0 \in 0..(MaxHold + 1) /\ 0 \in 0..MaxCooldown
    /\ KickBound \in Nat /\ 0 \in 0..(KickBound + 1) /\ 0 \in 0..(MaxHold + MaxDribble + MaxPeriod)
BY DEF KickBound

LEMMA AgesInRange ==
    ASSUME NEW limit \in Nat
    PROVE  \A n \in 0..limit : Less(n) \in 0..limit /\ Older(n, limit) \in 0..limit
BY DEF Less, Older

LEMMA FramesTyped ==
    ASSUME charge \in BOOLEAN, dribble \in BOOLEAN, velocity \in BOOLEAN, NEW kick \in BOOLEAN
    PROVE  /\ NoFrame \in Frame /\ SafeFrame \in Frame
           /\ [SafeFrame EXCEPT !.kick = kick] \in Frame
BY DEF NoFrame, SafeFrame, Frame

LEMMA TypeStep == TypeInv /\ [Next]_vars => TypeInv'
<1> SUFFICES ASSUME TypeInv, [Next]_vars
             PROVE  TypeInv'
  OBVIOUS
<1> USE Durations DEF TypeInv, FinalsLeft, MainSteps, LoopSteps, CloserSteps, Threads, Locks,
                      settings, pulse, closing, wire, Goto, Free
<1>1. CASE Start
  BY <1>1 DEF Start
<1>2. CASE ChargePhase
  BY <1>2 DEF ChargePhase, Charge
<1>3. CASE Arm
  BY <1>3 DEF Arm
<1>4. CASE SetPulse
  BY <1>4 DEF SetPulse
<1>5. CASE HoldOver
  BY <1>5 DEF HoldOver
<1>6. CASE Show
  BY <1>6 DEF Show
<1>7. CASE Shown
  BY <1>7 DEF Shown
<1>8. CASE StopDribble
  BY <1>8 DEF StopDribble
<1>9. CASE SendOnce
  BY <1>9, FramesTyped DEF SendOnce, Tx
<1>10. CASE OnceRecorded
  BY <1>10 DEF OnceRecorded
<1>11. CASE AskKick \/ AskStatus \/ Quit
  <2>1. ASSUME NEW step \in {"arm", "show", "quit"}, Asks(step)
        PROVE  TypeInv'
    BY <2>1 DEF Asks, Command
  <2>2. QED
    BY <1>11, <2>1 DEF AskKick, AskStatus, Quit
<1>12. CASE Configure
  <2>1. /\ hold' \in 1..MaxHold /\ cooldown' \in 0..MaxCooldown /\ period' \in 1..MaxPeriod
        /\ charge' \in BOOLEAN /\ dribble' \in BOOLEAN /\ velocity' \in BOOLEAN
        /\ meddled' \subseteq {"start", "charge", "dribble", "velocity"} /\ typed' = TRUE
    BY <1>12 DEF Configure, Command, Charge
  <2>2. UNCHANGED <<pulse, running, owner, pc, nap, built, signalled, closing, wire>>
    BY <1>12 DEF Configure
  <2>3. QED
    BY <2>1, <2>2
<1>13. CASE StartDribble
  BY <1>13 DEF StartDribble, Command
<1>14. CASE AskOnce
  BY <1>14 DEF AskOnce, Command
<1>15. CASE Build
  BY <1>15, FramesTyped DEF Build
<1>16. CASE LoopEnds
  BY <1>16 DEF LoopEnds
<1>17. CASE Send
  BY <1>17, FramesTyped DEF Send, Tx
<1>18. CASE Record("loop") \/ Record("closer")
  <2>1. CASE Record("loop")
    BY <2>1 DEF Record
  <2>2. CASE Record("closer")
    BY <2>2 DEF Record
  <2>3. QED
    BY <1>18, <2>1, <2>2
<1>19. CASE LoopWakes
  BY <1>19 DEF LoopWakes
<1>20. CASE SignalArrives
  BY <1>20 DEF SignalArrives
<1>21. CASE StopLoop
  BY <1>21 DEF StopLoop
<1>22. CASE StopCharging
  BY <1>22 DEF StopCharging
<1>23. CASE BuildSafe
  BY <1>23, FramesTyped DEF BuildSafe
<1>24. CASE SendSafe
  <2>1. pc["closer"] = "send" /\ finals - 1 \in 0..FinalFrames
    BY <1>24 DEF SendSafe
  <2>2. CASE deadline > 0
    BY <1>24, <2>2, FramesTyped DEF SendSafe, Tx
  <2>3. CASE ~(deadline > 0)
    BY <1>24, <2>1, <2>3, FramesTyped DEF SendSafe, Tx
  <2>4. QED
    BY <2>2, <2>3
<1>25. CASE CloserWakes
  BY <1>25 DEF CloserWakes
<1>26. CASE Tick
  <2>1. nap' \in [Threads -> 0..(MaxHold + MaxDribble + MaxPeriod)]
    BY <1>26, AgesInRange DEF Tick
  <2>2. left' \in 0..(MaxHold + 1) /\ kickAge' \in 0..MaxCooldown
    BY <1>26, AgesInRange DEF Tick
  <2>3. deadline' \in 0..Discharge /\ askedAge' \in 0..(KickBound + 1)
    BY <1>26, AgesInRange DEF Tick
  <2>4. /\ typed' = FALSE
        /\ UNCHANGED <<settings, armed, running, owner, pc, built, signalled, closePeriod,
                       finals, sent, sentBy, meddled>>
    BY <1>26 DEF Tick
  <2>5. hold' \in 1..MaxHold /\ cooldown' \in 0..MaxCooldown /\ period' \in 1..MaxPeriod
        /\ charge' \in BOOLEAN /\ dribble' \in BOOLEAN /\ velocity' \in BOOLEAN
        /\ closePeriod' \in 1..MaxPeriod
    BY <2>4
  <2>6. /\ DOMAIN pc' = Threads /\ pc'["main"] \in MainSteps
        /\ pc'["loop"] \in LoopSteps /\ pc'["closer"] \in CloserSteps
        /\ owner' \in [Locks -> Threads \cup {"free"}]
    BY <2>4
  <2>7. /\ running' \in BOOLEAN /\ armed' \in BOOLEAN /\ typed' \in BOOLEAN
        /\ signalled' \in BOOLEAN /\ built' \in [Threads -> Frame] /\ sent' \in Frame
        /\ sentBy' \in Threads /\ meddled' \subseteq {"start", "charge", "dribble", "velocity"}
    BY <2>4
  <2>8. finals' \in 0..FinalFrames /\ FinalsLeft'
    BY <2>4
  <2> HIDE Durations DEF FinalsLeft, MainSteps, LoopSteps, CloserSteps, Threads, Locks
  <2>9. QED
    BY <2>1, <2>2, <2>3, <2>5, <2>6, <2>7, <2>8
<1>27. CASE UNCHANGED vars
  BY <1>27 DEF vars
<1>28. QED
  BY <1>1, <1>2, <1>3, <1>4, <1>5, <1>6, <1>7, <1>8, <1>9, <1>10, <1>11, <1>12, <1>13,
     <1>14, <1>15, <1>16, <1>17, <1>18, <1>19, <1>20, <1>21, <1>22, <1>23, <1>24, <1>25,
     <1>26, <1>27 DEF Next, Types, Main, Loop, Closer

LEMMA TypeInvariant == Spec => []TypeInv
<1>1. Init => TypeInv
  <2> SUFFICES ASSUME Init
               PROVE  TypeInv
    OBVIOUS
  <2>1. /\ kickAge \in 0..MaxCooldown /\ left \in 0..(MaxHold + 1)
        /\ askedAge \in 0..(KickBound + 1)
        /\ deadline \in 0..Discharge /\ finals \in 0..FinalFrames /\ FinalsLeft
    BY Durations DEF Init, FinalsLeft
  <2>2. /\ nap \in [Threads -> 0..(MaxHold + MaxDribble + MaxPeriod)]
        /\ owner \in [Locks -> Threads \cup {"free"}]
    BY Durations DEF Init
  <2>3. built \in [Threads -> Frame] /\ sent \in Frame
    BY DEF Init, NoFrame, Frame
  <2>4. DOMAIN pc = Threads /\ pc["main"] \in MainSteps /\ pc["loop"] \in LoopSteps
        /\ pc["closer"] \in CloserSteps
    BY DEF Init, Threads, MainSteps, LoopSteps, CloserSteps
  <2>5. /\ hold \in 1..MaxHold /\ cooldown \in 0..MaxCooldown /\ period \in 1..MaxPeriod
        /\ closePeriod \in 1..MaxPeriod /\ charge \in BOOLEAN /\ dribble \in BOOLEAN
        /\ velocity \in BOOLEAN
        /\ running \in BOOLEAN /\ armed \in BOOLEAN /\ typed \in BOOLEAN
        /\ signalled \in BOOLEAN /\ sentBy \in Threads
        /\ meddled \subseteq {"start", "charge", "dribble", "velocity"}
    BY DEF Init, Threads
  <2>6. QED
    BY <2>1, <2>2, <2>3, <2>4, <2>5 DEF TypeInv
<1>2. QED
  BY <1>1, TypeStep, PTL DEF Spec

\* Every variable of the bench tool keeps its type: no sleep is longer than a hold,
\* a dribble test and a period.
THEOREM TypeCorrect == Spec => []TypeOK
<1>1. TypeInv => TypeOK
  BY ThreadSteps DEF TypeInv, TypeOK
<1>2. QED
  BY <1>1, TypeInvariant, PTL

-----------------------------------------------------------------------------
(***************************************************************************)
(* What a person does at the menu leaves the kick alone: it is one step of  *)
(* main, from a place where no pulse is in force to another.                *)
(***************************************************************************)
AtMenu ==
    \/ ChargePhase \/ HoldOver \/ Show \/ Shown \/ StopDribble \/ OnceRecorded
    \/ AskKick \/ AskStatus \/ Quit \/ Configure \/ StartDribble \/ AskOnce

LEMMA AtMenuLeavesKick ==
    ASSUME TypeInv, AtMenu
    PROVE  /\ pc["main"] \notin {"begin", "arming"}
           /\ pc["main"] = "hold" => nap["main"] = 0
           /\ pc'["main"] \notin {"begin", "arming", "hold"}
           /\ pc'["loop"] = pc["loop"] /\ pc'["closer"] = pc["closer"]
           /\ nap'["loop"] = nap["loop"] /\ nap'["closer"] = nap["closer"]
           /\ built'["loop"] = built["loop"] /\ built'["closer"] = built["closer"]
           /\ UNCHANGED <<pulse, running, closing, wire>>
<1> USE DEF TypeInv, Threads, Goto, closing, settings
<1>1. CASE ChargePhase
  BY <1>1 DEF ChargePhase
<1>2. CASE HoldOver
  BY <1>2 DEF HoldOver
<1>3. CASE Show
  BY <1>3 DEF Show
<1>4. CASE Shown
  BY <1>4 DEF Shown
<1>5. CASE StopDribble
  BY <1>5 DEF StopDribble
<1>6. CASE OnceRecorded
  BY <1>6 DEF OnceRecorded
<1>7. CASE AskKick \/ AskStatus \/ Quit
  <2>1. ASSUME NEW step \in {"arm", "show", "quit"}, Asks(step)
        PROVE  /\ pc["main"] = "menu" /\ pc'["main"] = step
               /\ pc'["loop"] = pc["loop"] /\ pc'["closer"] = pc["closer"]
               /\ UNCHANGED <<pulse, running, nap, built, closing, wire>>
    BY <2>1 DEF Asks, Command
  <2>2. QED
    BY <1>7, <2>1 DEF AskKick, AskStatus, Quit
<1>8. CASE Configure
  BY <1>8 DEF Configure, Command
<1>9. CASE StartDribble
  BY <1>9 DEF StartDribble, Command
<1>10. CASE AskOnce
  BY <1>10 DEF AskOnce, Command
<1>11. QED
  BY <1>1, <1>2, <1>3, <1>4, <1>5, <1>6, <1>7, <1>8, <1>9, <1>10 DEF AtMenu

-----------------------------------------------------------------------------
(***************************************************************************)
(* The goroutines: the loop runs from Start to StopLoop, and the closer     *)
(* never kicks.                                                             *)
(***************************************************************************)
Closing == pc["closer"] # "off"

RunInv ==
    /\ nap["loop"] <= MaxPeriod /\ nap["closer"] <= MaxPeriod
    /\ pc["main"] = "begin" => ~running /\ pc["loop"] = "off" /\ ~sent.kick
    /\ running => pc["loop"] # "off"
    /\ ~running => pc["main"] = "begin" \/ Closing
    /\ ~built["closer"].kick
    /\ sentBy = "closer" => ~sent.kick

\* A safe frame has no kick, whatever the settings.
LEMMA SafeFrameKick == ~SafeFrame.kick /\ \A kick : [SafeFrame EXCEPT !.kick = kick].kick = kick
BY DEF SafeFrame

LEMMA NoFrameKick ==
    ~NoFrame.kick /\ ~NoFrame.charge /\ ~NoFrame.dribble /\ ~NoFrame.motion
BY DEF NoFrame

LEMMA RunStep == TypeInv /\ RunInv /\ [Next]_vars => RunInv'
<1> SUFFICES ASSUME TypeInv, RunInv, [Next]_vars
             PROVE  RunInv'
  OBVIOUS
<1> USE DEF RunInv, Closing, Threads, Goto, pulse, closing, wire
<1>1. CASE Start
  BY <1>1 DEF Start, TypeInv
<1>2. CASE Arm \/ SetPulse
  <2>1. CASE Arm
    BY <2>1 DEF Arm, TypeInv
  <2>2. CASE SetPulse
    BY <2>2 DEF SetPulse, TypeInv
  <2>3. QED
    BY <1>2, <2>1, <2>2
<1>3. CASE AtMenu
  BY <1>3, AtMenuLeavesKick
<1>4. CASE SendOnce
  BY <1>4 DEF SendOnce, Tx, TypeInv
<1>5. CASE Build
  BY <1>5 DEF Build, TypeInv
<1>6. CASE LoopEnds
  BY <1>6 DEF LoopEnds, TypeInv
<1>7. CASE Send
  BY <1>7 DEF Send, Tx, TypeInv
<1>8. CASE Record("loop")
  BY <1>8 DEF Record, TypeInv
<1>9. CASE Record("closer")
  BY <1>9 DEF Record, TypeInv
<1>10. CASE LoopWakes
  BY <1>10 DEF LoopWakes, TypeInv
<1>11. CASE SignalArrives
  BY <1>11 DEF SignalArrives
<1>12. CASE StopLoop
  BY <1>12 DEF StopLoop, TypeInv
<1>13. CASE StopCharging
  BY <1>13 DEF StopCharging, TypeInv
<1>14. CASE BuildSafe
  BY <1>14, SafeFrameKick DEF BuildSafe, TypeInv
<1>15. CASE SendSafe
  BY <1>15, NoFrameKick DEF SendSafe, Tx, TypeInv
<1>16. CASE CloserWakes
  BY <1>16 DEF CloserWakes, TypeInv
<1>17. CASE Tick
  BY <1>17 DEF Tick, Less, TypeInv
<1>18. CASE UNCHANGED vars
  BY <1>18 DEF vars
<1>19. QED
  BY <1>1, <1>2, <1>3, <1>4, <1>5, <1>6, <1>7, <1>8, <1>9, <1>10, <1>11, <1>12, <1>13,
     <1>14, <1>15, <1>16, <1>17, <1>18
     DEF Next, Types, Main, Loop, Closer, AtMenu

-----------------------------------------------------------------------------
(***************************************************************************)
(* How long a kick stays on the wire.  A pulse is in force for a hold; the  *)
(* last frame with it is replaced within a period, by the loop while that   *)
(* runs and by the closer when it does not.                                 *)
(***************************************************************************)

\* A kick that is on the wire at that age is replaced in time.
Covered(age) ==
    IF running
    THEN \/ pc["loop"] \in {"record", "sleep"} /\ age + nap["loop"] <= KickBound
         \/ pc["loop"] \in {"build", "send"} /\ age <= KickBound
    ELSE \/ pc["closer"] \in {"record", "sleep"} /\ age + nap["closer"] <= KickBound
         \/ pc["closer"] \in {"stopped", "build", "send"} /\ age <= KickBound

\* askedAge counts from the last time a kick was asked for, kickAge from the last
\* pulse, which the single frames do not touch.
AgeInv ==
    /\ armed /\ left > 0 => askedAge + left <= MaxHold + 1 /\ kickAge + left <= MaxHold + 1
    /\ pc["loop"] = "send" /\ built["loop"].kick => askedAge <= MaxHold /\ kickAge <= MaxHold
    /\ sent.kick /\ ~Ended => Covered(askedAge)
    /\ sent.kick /\ sentBy = "loop" /\ ~Ended => Covered(kickAge)
    /\ pc["main"] = "arming" => kickAge = 0

\* A kick that was asked for no longer than a hold ago is replaced in time.
LEMMA FreshIsCovered ==
    ASSUME TypeInv, RunInv, ~Ended, NEW age \in Nat, age <= MaxHold, pc["main"] # "begin"
    PROVE  Covered(age) /\ age + nap["loop"] <= KickBound
<1>1. /\ MaxHold \in Nat /\ MaxPeriod \in Nat /\ KickBound = MaxHold + MaxPeriod
      /\ nap["loop"] \in Nat /\ nap["closer"] \in Nat
  BY DEF KickBound, TypeInv, Threads
<1>2. age + nap["loop"] <= KickBound /\ age + nap["closer"] <= KickBound /\ age <= KickBound
  BY <1>1 DEF RunInv
<1>3. ~running => pc["closer"] \in {"stopped", "build", "send", "record", "sleep"}
  BY DEF RunInv, Closing, Ended, TypeInv, CloserSteps
<1>4. running => pc["loop"] \in {"record", "sleep", "build", "send"}
  BY DEF RunInv, TypeInv, LoopSteps
<1>5. QED
  BY <1>2, <1>3, <1>4 DEF Covered

LEMMA AgeStep == TypeInv /\ RunInv /\ AgeInv /\ [Next]_vars => AgeInv'
<1> SUFFICES ASSUME TypeInv, RunInv, AgeInv, [Next]_vars
             PROVE  AgeInv'
  OBVIOUS
<1> USE DEF AgeInv, Covered, Ended, Threads, Goto, pulse, closing, wire, KickBound
<1>1. CASE Start
  BY <1>1 DEF Start, TypeInv, RunInv
<1>2. CASE Arm
  BY <1>2 DEF Arm, TypeInv
<1>3. CASE SetPulse
  BY <1>3 DEF SetPulse, TypeInv
<1>4. CASE AtMenu
  BY <1>4, AtMenuLeavesKick
<1>5. CASE SendOnce
  <2>1. /\ pc["main"] = "once" /\ pc'["main"] = "record" /\ pc'["loop"] = pc["loop"]
        /\ pc'["closer"] = pc["closer"] /\ UNCHANGED <<armed, left, kickAge, running, nap>>
        /\ sentBy' = "main" /\ built'["loop"] = built["loop"]
        /\ askedAge' = IF sent'.kick THEN 0 ELSE askedAge
    BY <1>5 DEF SendOnce, Tx, TypeInv
  <2>2. askedAge \in Nat /\ kickAge \in Nat /\ left \in Nat /\ left <= MaxHold + 1
    BY DEF TypeInv
  <2>3. ~Ended => Covered(0)
    BY <2>1, FreshIsCovered
  <2>4. QED
    BY <2>1, <2>2, <2>3
<1>6. CASE Build
  <2>1. built'["loop"].kick = armed'
    BY <1>6, SafeFrameKick DEF Build, TypeInv
  <2>2. armed' => armed /\ left > 0
    BY <1>6, Zenon DEF Build
  <2>3. /\ pc["loop"] = "build" /\ pc'["loop"] = "send" /\ pc'["main"] = pc["main"]
        /\ pc'["closer"] = pc["closer"] /\ nap'["closer"] = nap["closer"] /\ running
        /\ UNCHANGED <<left, kickAge, running, wire>>
    BY <1>6 DEF Build, TypeInv
  <2>4. askedAge \in Nat /\ kickAge \in Nat /\ left \in Nat
    BY DEF TypeInv
  <2>5. armed' => askedAge <= MaxHold /\ kickAge <= MaxHold
    BY <2>2, <2>4
  <2>6. QED
    BY <2>1, <2>2, <2>3, <2>5
<1>7. CASE LoopEnds
  BY <1>7 DEF LoopEnds, TypeInv
<1>8. CASE Send
  <2>1. /\ pc["loop"] = "send" /\ pc'["loop"] = "record" /\ pc'["main"] = pc["main"]
        /\ pc'["closer"] = pc["closer"] /\ sent' = built["loop"]
        /\ UNCHANGED <<pulse, running, nap, askedAge>>
    BY <1>8 DEF Send, Tx, TypeInv
  <2>2. askedAge \in Nat /\ kickAge \in Nat /\ pc["main"] # "begin"
    BY <2>1 DEF TypeInv, RunInv
  <2>3. sent'.kick /\ ~Ended =>
           /\ Covered(askedAge) /\ askedAge + nap["loop"] <= KickBound
           /\ Covered(kickAge) /\ kickAge + nap["loop"] <= KickBound
    <3> HIDE DEF Covered, Ended, KickBound
    <3>1. QED
      BY <2>1, <2>2, FreshIsCovered
  <2>4. QED
    BY <2>1, <2>3
<1>9. CASE Record("loop")
  BY <1>9 DEF Record, TypeInv
<1>10. CASE Record("closer")
  BY <1>10 DEF Record, TypeInv
<1>11. CASE LoopWakes
  BY <1>11 DEF LoopWakes, TypeInv
<1>12. CASE SignalArrives
  BY <1>12 DEF SignalArrives
<1>13. CASE StopLoop
  BY <1>13 DEF StopLoop, TypeInv, RunInv, Closing
<1>14. CASE StopCharging
  BY <1>14 DEF StopCharging, TypeInv
<1>15. CASE BuildSafe
  BY <1>15 DEF BuildSafe, TypeInv
<1>16. CASE SendSafe
  BY <1>16 DEF SendSafe, Tx, TypeInv, RunInv
<1>17. CASE CloserWakes
  BY <1>17 DEF CloserWakes, TypeInv
<1>18. CASE Tick
  BY <1>18 DEF Tick, Less, Older, Rests, TypeInv, RunInv
<1>19. CASE UNCHANGED vars
  BY <1>19 DEF vars
<1>20. QED
  BY <1>1, <1>2, <1>3, <1>4, <1>5, <1>6, <1>7, <1>8, <1>9, <1>10, <1>11, <1>12, <1>13,
     <1>14, <1>15, <1>16, <1>17, <1>18, <1>19
     DEF Next, Types, Main, Loop, Closer, AtMenu

LEMMA KickInvariant == Spec => [](TypeInv /\ RunInv /\ AgeInv)
<1>1. Init => RunInv
  <2> SUFFICES ASSUME Init
               PROVE  RunInv
    OBVIOUS
  <2>1. ~built["closer"].kick /\ ~sent.kick
    BY NoFrameKick DEF Init, Threads
  <2>2. nap["loop"] = 0 /\ nap["closer"] = 0
    BY DEF Init, Threads
  <2>3. pc["main"] = "begin" /\ pc["loop"] = "off" /\ ~running
    BY DEF Init
  <2>4. QED
    BY <2>1, <2>2, <2>3 DEF RunInv
<1>2. Init => AgeInv
  BY NoFrameKick DEF Init, AgeInv
<1>3. QED
  BY <1>1, <1>2, TypeInvariant, RunStep, AgeStep, PTL DEF Spec

\* A kick is off the wire one hold and one period after it was last asked for.
THEOREM KicksEnd == Spec => []KickEnds
<1>1. AgeInv /\ TypeInv => KickEnds
  <2> SUFFICES ASSUME AgeInv, TypeInv, ~Ended, sent.kick
               PROVE  askedAge <= KickBound
    BY DEF KickEnds
  <2>1. Covered(askedAge)
    BY DEF AgeInv
  <2>2. askedAge \in Nat /\ nap["loop"] \in Nat /\ nap["closer"] \in Nat /\ KickBound \in Nat
    BY Durations DEF TypeInv, Threads
  <2>3. QED
    BY <2>1, <2>2 DEF Covered
<1>2. QED
  BY <1>1, KickInvariant, PTL

-----------------------------------------------------------------------------
(***************************************************************************)
(* Pulses.  main sleeps while one is in force; and when the cooldown lets   *)
(* the next one through, the last kick of the one before is off the wire.   *)
(***************************************************************************)
PulseInv ==
    /\ left <= IF pc["main"] = "hold" THEN nap["main"] ELSE 0
    /\ pc["main"] = "arming" /\ cooldown > KickBound =>
          /\ ~(sent.kick /\ sentBy = "loop")
          /\ ~(pc["loop"] = "send" /\ built["loop"].kick)

\* When the cooldown is over, nothing of the last pulse is on its way.
LEMMA CooldownOver ==
    ASSUME TypeInv, RunInv, AgeInv, ~Ended, kickAge > KickBound
    PROVE  /\ ~(sent.kick /\ sentBy = "loop")
           /\ ~(pc["loop"] = "send" /\ built["loop"].kick)
<1>1. /\ kickAge \in Nat /\ KickBound \in Nat /\ MaxHold \in Nat /\ MaxHold <= KickBound
      /\ nap["loop"] \in Nat /\ nap["closer"] \in Nat
  BY Durations DEF TypeInv, Threads, KickBound
<1>2. ~Covered(kickAge)
  BY <1>1 DEF Covered
<1>3. QED
  BY <1>1, <1>2 DEF AgeInv

LEMMA PulseStep == TypeInv /\ RunInv /\ AgeInv /\ PulseInv /\ [Next]_vars => PulseInv'
<1> SUFFICES ASSUME TypeInv, RunInv, AgeInv, PulseInv, [Next]_vars
             PROVE  PulseInv'
  OBVIOUS
<1> USE DEF PulseInv, Threads, Goto, pulse, closing, wire, settings
<1>1. CASE Start
  BY <1>1 DEF Start, TypeInv
<1>2. CASE Arm /\ ~Ended
  <2>1. CASE kickAge < cooldown
    BY <1>2, <2>1 DEF Arm, TypeInv
  <2>2. CASE ~(kickAge < cooldown)
    <3>1. /\ pc["main"] = "arm" /\ pc'["main"] = "arming" /\ pc'["loop"] = pc["loop"]
          /\ UNCHANGED <<left, cooldown, wire, built>>
      BY <1>2, <2>2 DEF Arm, TypeInv
    <3>2. cooldown > KickBound => kickAge > KickBound
      BY <2>2, Durations DEF TypeInv
    <3>3. QED
      BY <1>2, <3>1, <3>2, CooldownOver
  <2>3. QED
    BY <2>1, <2>2
<1>3. CASE SetPulse
  BY <1>3 DEF SetPulse, TypeInv
<1>4. CASE AtMenu
  BY <1>4, AtMenuLeavesKick DEF TypeInv
<1>5. CASE SendOnce
  BY <1>5 DEF SendOnce, Tx, TypeInv
<1>6. CASE Build
  <2>1. built'["loop"].kick = armed'
    BY <1>6, SafeFrameKick DEF Build, TypeInv
  <2>2. armed' => left > 0
    BY <1>6, Zenon DEF Build
  <2>3. pc["main"] = "arming" => ~(left > 0)
    BY DEF TypeInv
  <2>4. /\ pc'["main"] = pc["main"] /\ nap'["main"] = nap["main"]
        /\ UNCHANGED <<left, cooldown, wire>>
    BY <1>6 DEF Build, TypeInv
  <2>5. QED
    BY <2>1, <2>2, <2>3, <2>4
<1>7. CASE LoopEnds
  BY <1>7 DEF LoopEnds, TypeInv
<1>8. CASE Send
  BY <1>8 DEF Send, Tx, TypeInv
<1>9. CASE Record("loop")
  BY <1>9 DEF Record, TypeInv
<1>10. CASE Record("closer")
  BY <1>10 DEF Record, TypeInv
<1>11. CASE LoopWakes
  BY <1>11 DEF LoopWakes, TypeInv
<1>12. CASE SignalArrives
  BY <1>12 DEF SignalArrives
<1>13. CASE StopLoop
  BY <1>13 DEF StopLoop, TypeInv
<1>14. CASE StopCharging
  BY <1>14 DEF StopCharging, TypeInv
<1>15. CASE BuildSafe
  BY <1>15 DEF BuildSafe, TypeInv
<1>16. CASE SendSafe
  BY <1>16 DEF SendSafe, Tx, TypeInv
<1>17. CASE CloserWakes
  BY <1>17 DEF CloserWakes, TypeInv
<1>18. CASE Tick
  BY <1>18 DEF Tick, Less, Rests, TypeInv
<1>19. CASE UNCHANGED vars
  BY <1>19 DEF vars
<1>20. QED
  BY <1>1, <1>2, <1>3, <1>4, <1>5, <1>6, <1>7, <1>8, <1>9, <1>10, <1>11, <1>12, <1>13,
     <1>14, <1>15, <1>16, <1>17, <1>18, <1>19
     DEF Next, Types, Main, Loop, Closer, AtMenu

\* Only SetPulse puts a pulse in force.
LEMMA OnlySetPulse ==
    ASSUME TypeInv, Next, left' > left
    PROVE  SetPulse
<1>1. left \in Nat /\ Less(left) \in Nat /\ Less(left) <= left
  BY DEF TypeInv, Less
<1>2. CASE AtMenu
  BY <1>1, <1>2, AtMenuLeavesKick DEF pulse
<1>3. CASE Tick \/ StopLoop
  <2>1. left' = Less(left) \/ left' = 0
    BY <1>3 DEF Tick, StopLoop
  <2>2. QED
    BY <1>1, <2>1
<1>4. CASE UNCHANGED left
  BY <1>1, <1>4
<1>5. QED
  BY <1>2, <1>3, <1>4
     DEF Next, Types, Main, Loop, Closer, AtMenu, pulse, Start, Arm, SendOnce, Build,
         LoopEnds, Send, Record, LoopWakes, SignalArrives, StopCharging, BuildSafe,
         SendSafe, CloserWakes

\* main.go:6: no pulse while another is in force, and a frame without a kick between
\* two, if the cooldown is longer than a hold and a period.
THEOREM PulsesKeepApart == Spec => PulsesApart
<1>1. TypeInv /\ RunInv /\ PulseInv /\ [Next]_vars =>
         [left' > left =>
            /\ left = 0
            /\ cooldown > KickBound /\ sent.kick => sentBy = "main"]_vars
  <2> SUFFICES ASSUME TypeInv, RunInv, PulseInv, Next, left' > left
               PROVE  left = 0 /\ (cooldown > KickBound /\ sent.kick => sentBy = "main")
    OBVIOUS
  <2>1. pc["main"] = "arming"
    BY OnlySetPulse DEF SetPulse
  <2>2. left = 0
    BY <2>1 DEF PulseInv, TypeInv
  <2>3. sentBy \in {"main", "loop", "closer"} /\ (sentBy = "closer" => ~sent.kick)
    BY DEF TypeInv, RunInv, Threads
  <2>4. QED
    BY <2>1, <2>2, <2>3 DEF PulseInv
<1>2. Spec => []PulseInv
  <2>1. Init => PulseInv
    BY DEF Init, PulseInv
  <2>2. QED
    BY <2>1, PulseStep, KickInvariant, PTL DEF Spec
<1>3. QED
  BY <1>1, <1>2, KickInvariant, PTL DEF Spec, PulsesApart

-----------------------------------------------------------------------------
(***************************************************************************)
(* The end.  Once the deadline has begun to run the loop has nothing left   *)
(* to send, so the last safe frame, which comes after the deadline, is not  *)
(* followed by one of the loop's; unless the loop was started after it was  *)
(* stopped.  What a safe frame charges or dribbles was switched on since,   *)
(* and it moves as the base velocity tells it to, unless that was changed   *)
(* since.                                                                   *)
(***************************************************************************)
EndInv ==
    /\ ~Closing =>
          /\ meddled = {} /\ deadline = Discharge /\ finals = FinalFrames
          /\ built["closer"] = NoFrame /\ sentBy # "closer"
    /\ Closing /\ "start" \notin meddled =>
          /\ ~running
          /\ deadline < Discharge => pc["loop"] # "send"
          /\ finals < FinalFrames => sentBy # "loop"
    /\ finals < FinalFrames => deadline = 0
    /\ Ended => finals = 0

MeddledInv ==
    /\ charge /\ pc["closer"] \notin {"off", "stopped"} => "charge" \in meddled
    /\ dribble /\ Closing => "dribble" \in meddled
    /\ built["closer"].charge \/ (sentBy = "closer" /\ sent.charge) => "charge" \in meddled
    /\ built["closer"].dribble \/ (sentBy = "closer" /\ sent.dribble) => "dribble" \in meddled
    /\ "velocity" \notin meddled =>
          /\ pc["closer"] = "send" => built["closer"].motion = velocity
          /\ sentBy = "closer" => sent.motion = velocity

LEMMA EndStep == TypeInv /\ RunInv /\ EndInv /\ [Next]_vars => EndInv'
<1> SUFFICES ASSUME TypeInv, RunInv, EndInv, [Next]_vars
             PROVE  EndInv'
  OBVIOUS
<1> USE DEF EndInv, Closing, Ended, Threads, Goto, pulse, closing, wire
<1>1. CASE Start
  BY <1>1 DEF Start, TypeInv
<1>2. CASE Arm
  BY <1>2 DEF Arm, TypeInv
<1>3. CASE SetPulse
  BY <1>3 DEF SetPulse, TypeInv
<1>4. CASE AtMenu
  <2>1. meddled \subseteq meddled' /\ (~Closing => meddled' = meddled)
    BY <1>4 DEF AtMenu, ChargePhase, HoldOver, Show, Shown, StopDribble, OnceRecorded,
                AskKick, AskStatus, Quit, Asks, Configure, Charge, StartDribble, AskOnce
  <2>2. QED
    BY <1>4, <2>1, AtMenuLeavesKick
<1>5. CASE SendOnce
  BY <1>5 DEF SendOnce, Tx, TypeInv
<1>6. CASE Build
  BY <1>6 DEF Build, TypeInv
<1>7. CASE LoopEnds
  BY <1>7 DEF LoopEnds, TypeInv
<1>8. CASE Send
  BY <1>8 DEF Send, Tx, TypeInv
<1>9. CASE Record("loop")
  BY <1>9 DEF Record, TypeInv
<1>10. CASE Record("closer")
  BY <1>10 DEF Record, TypeInv
<1>11. CASE LoopWakes
  BY <1>11 DEF LoopWakes, TypeInv
<1>12. CASE SignalArrives
  BY <1>12 DEF SignalArrives
<1>13. CASE StopLoop
  BY <1>13 DEF StopLoop, TypeInv
<1>14. CASE StopCharging
  BY <1>14 DEF StopCharging, TypeInv
<1>15. CASE BuildSafe
  BY <1>15 DEF BuildSafe, TypeInv
<1>16. CASE SendSafe
  BY <1>16 DEF SendSafe, Tx, TypeInv
<1>17. CASE CloserWakes
  BY <1>17 DEF CloserWakes, TypeInv
<1>18. CASE Tick
  BY <1>18 DEF Tick, Less, Rests, TypeInv
<1>19. CASE UNCHANGED vars
  BY <1>19 DEF vars
<1>20. QED
  BY <1>1, <1>2, <1>3, <1>4, <1>5, <1>6, <1>7, <1>8, <1>9, <1>10, <1>11, <1>12, <1>13,
     <1>14, <1>15, <1>16, <1>17, <1>18, <1>19
     DEF Next, Types, Main, Loop, Closer, AtMenu

\* Whatever is switched on while the closer is at work is noted, and only that.
LEMMA AtMenuMeddles ==
    ASSUME TypeInv, AtMenu
    PROVE  /\ meddled \subseteq meddled'
           /\ charge' /\ pc["closer"] \notin {"off", "stopped"} =>
                 charge \/ "charge" \in meddled'
           /\ dribble' /\ Closing => dribble \/ "dribble" \in meddled'
           /\ Closing /\ "velocity" \notin meddled' => velocity' = velocity
<1>1. CASE ChargePhase
  BY <1>1 DEF ChargePhase, Charge
<1>2. CASE Configure
  BY <1>2 DEF Configure, Charge, Closing
<1>3. CASE StartDribble
  BY <1>3 DEF StartDribble, Closing
<1>4. CASE StopDribble
  BY <1>4 DEF StopDribble
<1>5. CASE UNCHANGED <<charge, dribble, velocity, meddled>>
  BY <1>5
<1>6. QED
  BY <1>1, <1>2, <1>3, <1>4, <1>5
     DEF AtMenu, HoldOver, Show, Shown, OnceRecorded, AskKick, AskStatus, Quit, Asks, AskOnce,
         settings

LEMMA MeddledStep == TypeInv /\ EndInv /\ MeddledInv /\ [Next]_vars => MeddledInv'
<1> SUFFICES ASSUME TypeInv, EndInv, MeddledInv, [Next]_vars
             PROVE  MeddledInv'
  OBVIOUS
<1> USE DEF MeddledInv, Closing, Threads, Goto, settings, wire
<1>1. CASE Start
  BY <1>1 DEF Start, TypeInv
<1>2. CASE Arm
  BY <1>2 DEF Arm, TypeInv
<1>3. CASE SetPulse
  BY <1>3 DEF SetPulse, TypeInv
<1>4. CASE AtMenu
  BY <1>4, AtMenuLeavesKick, AtMenuMeddles DEF EndInv
<1>5. CASE SendOnce
  BY <1>5 DEF SendOnce, Tx, TypeInv
<1>6. CASE Build
  BY <1>6 DEF Build, TypeInv
<1>7. CASE LoopEnds
  BY <1>7 DEF LoopEnds, TypeInv
<1>8. CASE Send
  BY <1>8 DEF Send, Tx, TypeInv
<1>9. CASE Record("loop")
  BY <1>9 DEF Record, TypeInv
<1>10. CASE Record("closer")
  BY <1>10 DEF Record, TypeInv
<1>11. CASE LoopWakes
  BY <1>11 DEF LoopWakes, TypeInv
<1>12. CASE SignalArrives
  BY <1>12 DEF SignalArrives
<1>13. CASE StopLoop
  BY <1>13, NoFrameKick DEF StopLoop, TypeInv, EndInv
<1>14. CASE StopCharging
  BY <1>14 DEF StopCharging, TypeInv
<1>15. CASE BuildSafe
  BY <1>15 DEF BuildSafe, TypeInv, SafeFrame
<1>16. CASE SendSafe
  BY <1>16, NoFrameKick DEF SendSafe, Tx, TypeInv
<1>17. CASE CloserWakes
  BY <1>17 DEF CloserWakes, TypeInv
<1>18. CASE Tick
  BY <1>18 DEF Tick
<1>19. CASE UNCHANGED vars
  BY <1>19 DEF vars
<1>20. QED
  BY <1>1, <1>2, <1>3, <1>4, <1>5, <1>6, <1>7, <1>8, <1>9, <1>10, <1>11, <1>12, <1>13,
     <1>14, <1>15, <1>16, <1>17, <1>18, <1>19
     DEF Next, Types, Main, Loop, Closer, AtMenu

\* The program ends on a safe frame without a kick, which charges or dribbles only if
\* that was switched on meanwhile, and moves the robot as the base velocity says; a
\* single frame of the person's, or a loop that was only being started, excepted.
THEOREM EndsWithoutKick == Spec => []EndsUnarmed
<1>1. TypeInv /\ RunInv /\ EndInv /\ MeddledInv => EndsUnarmed
  <2> SUFFICES ASSUME TypeInv, RunInv, EndInv, MeddledInv, Ended
               PROVE  \/ /\ sentBy = "closer" /\ ~sent.kick
                         /\ sent.charge => "charge" \in meddled
                         /\ sent.dribble => "dribble" \in meddled
                         /\ sent.motion # velocity => "velocity" \in meddled
                      \/ sentBy = "main"
                      \/ sentBy = "loop" /\ "start" \in meddled
    BY DEF EndsUnarmed
  <2>1. Closing /\ finals < FinalFrames
    BY DEF EndInv, Closing, Ended
  <2>2. sentBy \in {"main", "loop", "closer"}
    BY DEF TypeInv, Threads
  <2>3. CASE sentBy = "loop"
    BY <2>1, <2>3 DEF EndInv
  <2>4. CASE sentBy = "closer"
    BY <2>4 DEF RunInv, MeddledInv
  <2>5. QED
    BY <2>2, <2>3, <2>4
<1>2. Init => EndInv /\ MeddledInv
  BY NoFrameKick DEF Init, EndInv, MeddledInv, Closing, Ended, Threads
<1>3. QED
  BY <1>1, <1>2, EndStep, MeddledStep, KickInvariant, PTL DEF Spec

================================================================================
