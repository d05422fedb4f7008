-------------------------------- MODULE KickTest --------------------------------
(***************************************************************************)
(* cmd/kick_test: the interactive program with which a person at a bench    *)
(* kicks, chips and dribbles over SPI.  Kicking hardware breaks and hurts:  *)
(* the program puts a kick into the frames only while its hold lasts, makes *)
(* the next one wait for a cooldown, and discharges the capacitor before it *)
(* ends.  Three goroutines work on one spiRunner:                           *)
(*                                                                         *)
(*   main    the menu; it arms pulses and changes the settings;             *)
(*   loop    spiRunner.loop: one frame per SPI period;                      *)
(*   closer  the body of shutdown's sync.Once, run by the signal goroutine  *)
(*           or by main's deferred call, whichever comes first.             *)
(*                                                                         *)
(* r.mu guards the pulse and the display's copies, tx.mu the settings, but  *)
(* every frame is built from the settings under r.mu alone.  A setting is a *)
(* word or less, so such a read finds the old value or the new one; the     *)
(* base velocity is three, of which the model tells zero from the rest.     *)
(*                                                                         *)
(* A critical section that takes one lock is one step.  armPulse takes r.mu *)
(* inside tx.mu and printStatus tx.mu inside r.mu: these are step by step.  *)
(* Kick and chip are one power, on or off, and so are the dribbler's power  *)
(* and the velocity.  The direct flags and what is printed are left out,    *)
(* and so is an SPI transfer that fails, which is logged and no more.       *)
(***************************************************************************)
EXTENDS Naturals

CONSTANTS
    DefaultHold, DefaultCooldown, DefaultPeriod, \* the settings at the start
    MaxHold, MaxCooldown, MaxPeriod, \* bounds: the settings a person may enter
    MaxDribble,    \* bound: how long a dribble test may last
    Discharge,     \* defaultDischargeDuration
    FinalFrames    \* the safe frames after the discharge

ASSUME DefaultsAssumption ==
    /\ DefaultHold \in 1..MaxHold
    /\ DefaultCooldown \in 0..MaxCooldown
    /\ DefaultPeriod \in 1..MaxPeriod
ASSUME BoundsAssumption ==
    /\ MaxHold \in Nat /\ MaxCooldown \in Nat /\ MaxPeriod \in Nat
    /\ MaxDribble \in Nat \ {0}
    /\ Discharge \in Nat \ {0}
    /\ FinalFrames \in Nat \ {0}

Threads == {"main", "loop", "closer"}
Locks == {"r", "tx"}

VARIABLES
    hold, cooldown, period,  \* txSettings
    charge, dribble,
    velocity,  \* the base velocity, velX, velY and velAng, is not zero
    kickAge,   \* now - lastKickAt; zero time is older than any cooldown
    running,   \* spiRunner
    armed,     \* r.pulse # nil
    left,      \* the time until the pulse is past its expiresAt, 0 when it is
    owner,     \* who holds r.mu and tx.mu between two steps
    pc,        \* where each goroutine is
    nap,       \* how much longer it sleeps
    built,     \* the frame it is about to send
    typed,     \* a command was typed in this unit of time
    signalled, \* SIGINT or SIGTERM has come
    closePeriod, \* shutdown's local period
    deadline,  \* the time until shutdown's deadline
    finals,    \* the safe frames still to be sent after it
    sent,      \* the last frame on the wire
    \* History variables: no action reads them.
    sentBy,    \* who sent it
    askedAge,  \* the time since a pulse was armed, or a single frame kicked
    meddled    \* what was done after the shutdown had begun to undo it

settings == <<hold, cooldown, period, charge, dribble, velocity>>
pulse == <<armed, left, kickAge>>
closing == <<closePeriod, deadline, finals>>
wire == <<sent, sentBy, askedAge>>
vars == <<settings, pulse, running, owner, pc, nap, built, typed, signalled,
          closing, wire, meddled>>

Frame == [charge: BOOLEAN, kick: BOOLEAN, dribble: BOOLEAN, motion: BOOLEAN]
NoFrame == [charge |-> FALSE, kick |-> FALSE, dribble |-> FALSE, motion |-> FALSE]

\* How long a kick can be on the wire after it was asked for.
KickBound == MaxHold + MaxPeriod

PcOf ==
    [main   |-> {"begin", "charge", "menu", "arm", "arming", "hold", "show", "showing",
                 "dribble", "once", "record", "quit"},
     loop   |-> {"off", "build", "send", "record", "sleep"},
     closer |-> {"off", "stopped", "build", "send", "record", "sleep", "done"}]

TypeOK ==
    /\ hold \in 1..MaxHold /\ cooldown \in 0..MaxCooldown /\ period \in 1..MaxPeriod
    /\ charge \in BOOLEAN /\ dribble \in BOOLEAN /\ velocity \in BOOLEAN
    /\ kickAge \in 0..MaxCooldown
    /\ running \in BOOLEAN /\ armed \in BOOLEAN /\ left \in 0..(MaxHold + 1)
    /\ owner \in [Locks -> Threads \cup {"free"}]
    /\ \A t \in Threads : pc[t] \in PcOf[t]
    /\ DOMAIN pc = Threads
    /\ nap \in [Threads -> 0..(MaxHold + MaxDribble + MaxPeriod)]
    /\ built \in [Threads -> Frame]
    /\ typed \in BOOLEAN /\ signalled \in BOOLEAN
    /\ closePeriod \in 1..MaxPeriod
    /\ deadline \in 0..Discharge /\ finals \in 0..FinalFrames
    /\ sent \in Frame /\ sentBy \in Threads
    /\ askedAge \in 0..(KickBound + 1)
    /\ meddled \subseteq {"start", "charge", "dribble", "velocity"}

Init ==
    /\ hold = DefaultHold /\ cooldown = DefaultCooldown /\ period = DefaultPeriod
    /\ charge = TRUE /\ dribble = FALSE /\ velocity = FALSE
    /\ kickAge = MaxCooldown
    /\ running = FALSE /\ armed = FALSE /\ left = 0
    /\ owner = [m \in Locks |-> "free"]
    /\ pc = [main |-> "begin", loop |-> "off", closer |-> "off"]
    /\ nap = [t \in Threads |-> 0]
    /\ built = [t \in Threads |-> NoFrame]
    /\ typed = FALSE /\ signalled = FALSE
    /\ closePeriod = DefaultPeriod /\ deadline = Discharge /\ finals = FinalFrames
    /\ sent = NoFrame /\ sentBy = "loop" /\ askedAge = 0
    /\ meddled = {}

-----------------------------------------------------------------------------
Free(m) == owner[m] = "free"
Goto(t, step) == pc' = [pc EXCEPT ![t] = step]

\* buildFrameLocked(nil): the settings, and no kick.
SafeFrame ==
    [charge |-> charge, kick |-> FALSE, dribble |-> dribble, motion |-> velocity]

\* conn.Tx; the driver takes one transfer at a time.
Tx(t) ==
    /\ sent' = built[t] /\ sentBy' = t
    /\ built' = [built EXCEPT ![t] = NoFrame]

\* After the transfer loop and closer store the display's copies under r.mu.
Record(t) ==
    /\ pc[t] = "record" /\ Free("r")
    /\ Goto(t, "sleep")
    /\ UNCHANGED <<settings, pulse, running, owner, nap, built, typed, signalled,
                   closing, wire, meddled>>

(***************************************************************************)
(* main                                                                     *)
(***************************************************************************)

\* spiRunner.start.
Start ==
    /\ pc["main"] = "begin" /\ Free("r")
    /\ running' = TRUE
    /\ pc' = [pc EXCEPT !["main"] = "charge", !["loop"] = "build"]
    /\ meddled' = IF pc["closer"] = "off" THEN meddled ELSE meddled \cup {"start"}
    /\ UNCHANGED <<settings, pulse, owner, nap, built, typed, signalled, closing, wire>>

\* Charging is switched on: it counts as meddling once shutdown has switched it off.
Charge ==
    /\ Free("tx") /\ charge' = TRUE
    /\ meddled' = IF pc["closer"] \in {"off", "stopped"} THEN meddled
                  ELSE meddled \cup {"charge"}
    /\ UNCHANGED <<hold, cooldown, period, dribble, velocity>>

\* runChargePhase, whose wait for Enter is a wait for the first command.
ChargePhase ==
    /\ pc["main"] = "charge"
    /\ Charge
    /\ Goto("main", "menu")
    /\ UNCHANGED <<pulse, running, owner, nap, built, typed, signalled, closing, wire>>

\* A person types a command, the power and the yes: at most one in a unit of time.
Command == pc["main"] = "menu" /\ ~typed /\ typed' = TRUE

Asks(step) ==
    /\ Command
    /\ Goto("main", step)
    /\ UNCHANGED <<settings, pulse, running, owner, nap, built, signalled, closing,
                   wire, meddled>>

\* The prompts of doKickPulse, answered.
AskKick == Asks("arm")
\* The status, or one more line of the monitor.
AskStatus == Asks("show")
\* The end, or no more input: main returns to its deferred shutdown.
Quit == Asks("quit")

\* Mutant: a hold of nothing is let through.
ConfigureNoHold ==
    /\ Command
    /\ Free("tx") /\ hold' \in 0..MaxHold
    /\ UNCHANGED <<cooldown, period, charge, dribble, velocity, pulse, running, owner, pc,
                   nap, built, signalled, closing, wire, meddled>>

\* applyConfig, one line.  A velocity that is entered while shutdown is at work is noted.
Configure ==
    /\ Command
    /\ Free("tx")
    /\ \/ Charge
       \/ /\ velocity' \in BOOLEAN
          /\ meddled' = IF pc["closer"] = "off" THEN meddled
                        ELSE meddled \cup {"velocity"}
          /\ UNCHANGED <<hold, cooldown, period, charge, dribble>>
       \/ /\ \/ hold' \in 1..MaxHold /\ UNCHANGED <<cooldown, period, charge>>
             \/ cooldown' \in 0..MaxCooldown /\ UNCHANGED <<hold, period, charge>>
             \/ period' \in 1..MaxPeriod /\ UNCHANGED <<hold, cooldown, charge>>
             \/ charge' = FALSE /\ UNCHANGED <<hold, cooldown, period>>
          /\ UNCHANGED <<dribble, velocity, meddled>>
    /\ UNCHANGED <<pulse, running, owner, pc, nap, built, signalled, closing, wire>>

\* armPulse, first half: the cooldown is checked and begun under tx.mu.
Arm ==
    /\ pc["main"] = "arm" /\ Free("tx")
    /\ IF kickAge < cooldown
       THEN Goto("main", "menu") /\ UNCHANGED <<kickAge, owner>>
       ELSE /\ kickAge' = 0
            /\ owner' = [owner EXCEPT !["tx"] = "main"]
            /\ Goto("main", "arming")
    /\ UNCHANGED <<settings, armed, left, running, nap, built, typed, signalled,
                   closing, wire, meddled>>

\* Mutant: back to the menu at once.
SetPulseOnly ==
    /\ pc["main"] = "arming" /\ Free("r")
    /\ armed' = TRUE /\ left' = hold + 1 /\ askedAge' = 0
    /\ owner' = [owner EXCEPT !["tx"] = "free"]
    /\ Goto("main", "menu")
    /\ UNCHANGED <<settings, kickAge, running, nap, built, typed, signalled, closing,
                   sent, sentBy, meddled>>

\* armPulse, second half; doKickPulse then sleeps until the pulse is surely over.
SetPulse ==
    /\ pc["main"] = "arming" /\ Free("r")
    /\ armed' = TRUE /\ left' = hold + 1 /\ askedAge' = 0
    /\ owner' = [owner EXCEPT !["tx"] = "free"]
    /\ nap' = [nap EXCEPT !["main"] = hold + 1]
    /\ Goto("main", "hold")
    /\ UNCHANGED <<settings, kickAge, running, built, typed, signalled, closing,
                   sent, sentBy, meddled>>

HoldOver ==
    /\ pc["main"] = "hold" /\ nap["main"] = 0
    /\ Goto("main", "show")
    /\ UNCHANGED <<settings, pulse, running, owner, nap, built, typed, signalled,
                   closing, wire, meddled>>

\* printStatus, which returns at once when nothing was received yet.
Show ==
    /\ pc["main"] = "show" /\ Free("r")
    /\ \/ Goto("main", "menu") /\ UNCHANGED owner
       \/ Goto("main", "showing") /\ owner' = [owner EXCEPT !["r"] = "main"]
    /\ UNCHANGED <<settings, pulse, running, nap, built, typed, signalled, closing,
                   wire, meddled>>

Shown ==
    /\ pc["main"] = "showing" /\ Free("tx")
    /\ owner' = [owner EXCEPT !["r"] = "free"]
    /\ Goto("main", "menu")
    /\ UNCHANGED <<settings, pulse, running, nap, built, typed, signalled, closing,
                   wire, meddled>>

\* doDribbleTest.
StartDribble ==
    /\ Command
    /\ Free("tx") /\ dribble' = TRUE
    /\ \E duration \in 1..MaxDribble : nap' = [nap EXCEPT !["main"] = duration]
    /\ Goto("main", "dribble")
    /\ meddled' = IF pc["closer"] = "off" THEN meddled ELSE meddled \cup {"dribble"}
    /\ UNCHANGED <<hold, cooldown, period, charge, velocity, pulse, running, owner, built,
                   signalled, closing, wire>>

StopDribble ==
    /\ pc["main"] = "dribble" /\ nap["main"] = 0
    /\ Free("tx") /\ dribble' = FALSE
    /\ Goto("main", "show")
    /\ UNCHANGED <<hold, cooldown, period, charge, velocity, pulse, running, owner, nap,
                   built, typed, signalled, closing, wire, meddled>>

\* doOnce: a frame of its own, which neither the loop nor the cooldown knows of.
AskOnce ==
    /\ Command
    /\ Free("tx")
    /\ \E f \in Frame : f.charge = charge /\ built' = [built EXCEPT !["main"] = f]
    /\ Goto("main", "once")
    /\ UNCHANGED <<settings, pulse, running, owner, nap, signalled, closing, wire,
                   meddled>>

SendOnce ==
    /\ pc["main"] = "once"
    /\ Tx("main")
    /\ askedAge' = IF sent'.kick THEN 0 ELSE askedAge
    /\ Goto("main", "record")
    /\ UNCHANGED <<settings, pulse, running, owner, nap, typed, signalled, closing,
                   meddled>>

OnceRecorded ==
    /\ pc["main"] = "record" /\ Free("r")
    /\ Goto("main", "show")
    /\ UNCHANGED <<settings, pulse, running, owner, nap, built, typed, signalled,
                   closing, wire, meddled>>

Types == AskKick \/ AskStatus \/ Quit \/ Configure \/ StartDribble \/ AskOnce

Main ==
    \/ Start \/ ChargePhase \/ Arm \/ SetPulse \/ HoldOver \/ Show \/ Shown
    \/ StopDribble \/ SendOnce \/ OnceRecorded

-----------------------------------------------------------------------------
(***************************************************************************)
(* loop                                                                     *)
(***************************************************************************)

\* Mutant: a pulse that is over stays.
BuildKeepsPulse ==
    /\ pc["loop"] = "build" /\ Free("r") /\ running
    /\ built' = [built EXCEPT !["loop"] = [SafeFrame EXCEPT !.kick = armed]]
    /\ nap' = [nap EXCEPT !["loop"] = period]
    /\ Goto("loop", "send")
    /\ UNCHANGED <<settings, pulse, running, owner, typed, signalled, closing, wire,
                   meddled>>

\* The top of a cycle: a pulse that is over is dropped, and the frame is built.
Build ==
    /\ pc["loop"] = "build" /\ Free("r") /\ running
    /\ armed' = (armed /\ left > 0)
    /\ built' = [built EXCEPT !["loop"] = [SafeFrame EXCEPT !.kick = armed']]
    /\ nap' = [nap EXCEPT !["loop"] = period]
    /\ Goto("loop", "send")
    /\ UNCHANGED <<settings, kickAge, left, running, owner, typed, signalled, closing,
                   wire, meddled>>

LoopEnds ==
    /\ pc["loop"] = "build" /\ Free("r") /\ ~running
    /\ Goto("loop", "off")
    /\ UNCHANGED <<settings, pulse, running, owner, nap, built, typed, signalled,
                   closing, wire, meddled>>

Send ==
    /\ pc["loop"] = "send"
    /\ Tx("loop")
    /\ Goto("loop", "record")
    /\ UNCHANGED <<settings, pulse, running, owner, nap, typed, signalled, closing,
                   askedAge, meddled>>

LoopWakes ==
    /\ pc["loop"] = "sleep" /\ nap["loop"] = 0
    /\ Goto("loop", "build")
    /\ UNCHANGED <<settings, pulse, running, owner, nap, built, typed, signalled,
                   closing, wire, meddled>>

Loop == Build \/ LoopEnds \/ Send \/ Record("loop") \/ LoopWakes

-----------------------------------------------------------------------------
(***************************************************************************)
(* shutdown                                                                 *)
(***************************************************************************)

SignalArrives ==
    /\ ~signalled /\ signalled' = TRUE
    /\ UNCHANGED <<settings, pulse, running, owner, pc, nap, built, typed, closing,
                   wire, meddled>>

Called == signalled \/ pc["main"] = "quit"

\* Mutants: r.mu is held to the end of the function; the loop is not stopped.
StopLoopDefersUnlock ==
    /\ pc["closer"] = "off" /\ Called /\ Free("r")
    /\ running' = FALSE /\ armed' = FALSE /\ left' = 0
    /\ owner' = [owner EXCEPT !["r"] = "closer"]
    /\ meddled' = IF dribble THEN {"dribble"} ELSE {}
    /\ Goto("closer", "stopped")
    /\ UNCHANGED <<settings, kickAge, nap, built, typed, signalled, closing, wire>>

StopLoopPulseOnly ==
    /\ pc["closer"] = "off" /\ Called /\ Free("r")
    /\ armed' = FALSE /\ left' = 0
    /\ meddled' = IF dribble THEN {"dribble"} ELSE {}
    /\ Goto("closer", "stopped")
    /\ UNCHANGED <<settings, kickAge, running, owner, nap, built, typed, signalled,
                   closing, wire>>

StopLoop ==
    /\ pc["closer"] = "off" /\ Called /\ Free("r")
    /\ running' = FALSE /\ armed' = FALSE /\ left' = 0
    /\ meddled' = IF dribble THEN {"dribble"} ELSE {}
    /\ Goto("closer", "stopped")
    /\ UNCHANGED <<settings, kickAge, owner, nap, built, typed, signalled,
                   closing, wire>>

StopCharging ==
    /\ pc["closer"] = "stopped" /\ Free("tx")
    /\ charge' = FALSE
    /\ closePeriod' = period
    /\ Goto("closer", "build")
    /\ UNCHANGED <<hold, cooldown, period, dribble, velocity, pulse, running, owner, nap,
                   built, typed, signalled, deadline, finals, wire, meddled>>

BuildSafe ==
    /\ pc["closer"] = "build" /\ Free("r")
    /\ built' = [built EXCEPT !["closer"] = SafeFrame]
    /\ Goto("closer", "send")
    /\ UNCHANGED <<settings, pulse, running, owner, nap, typed, signalled, closing,
                   wire, meddled>>

\* A frame of the discharge is recorded, the final ones are not.
SendSafe ==
    /\ pc["closer"] = "send"
    /\ Tx("closer")
    /\ Goto("closer", IF deadline > 0 THEN "record" ELSE "sleep")
    /\ finals' = IF deadline > 0 THEN finals ELSE finals - 1
    /\ nap' = [nap EXCEPT !["closer"] = closePeriod]
    /\ UNCHANGED <<settings, pulse, running, owner, typed, signalled, closePeriod,
                   deadline, askedAge, meddled>>

\* "done": the process ends.
CloserWakes ==
    /\ pc["closer"] = "sleep" /\ nap["closer"] = 0
    /\ Goto("closer", IF finals > 0 THEN "build" ELSE "done")
    /\ UNCHANGED <<settings, pulse, running, owner, nap, built, typed, signalled,
                   closing, wire, meddled>>

Closer ==
    StopLoop \/ StopCharging \/ BuildSafe \/ SendSafe \/ Record("closer") \/ CloserWakes

-----------------------------------------------------------------------------
\* Time: code that does not sleep takes none, and a person takes as long as wanted.
Rests(t) ==
    \/ t = "main" /\ pc[t] \in {"menu", "quit"}
    \/ t = "main" /\ pc[t] \in {"hold", "dribble"} /\ nap[t] > 0
    \/ t = "closer" /\ pc[t] = "off" /\ ~Called
    \/ t = "loop" /\ pc[t] = "off"
    \/ t # "main" /\ pc[t] = "sleep" /\ nap[t] > 0

Less(n) == IF n = 0 THEN 0 ELSE n - 1
Older(age, limit) == IF age < limit THEN age + 1 ELSE age

Tick ==
    /\ \A t \in Threads : Rests(t)
    /\ nap' = [t \in Threads |-> Less(nap[t])]
    /\ left' = Less(left)
    /\ kickAge' = Older(kickAge, MaxCooldown)
    /\ typed' = FALSE
    /\ deadline' = IF pc["closer"] = "off" THEN deadline ELSE Less(deadline)
    /\ askedAge' = Older(askedAge, KickBound + 1)
    /\ UNCHANGED <<settings, armed, running, owner, pc, built, signalled, closePeriod,
                   finals, sent, sentBy, meddled>>

Ended == pc["closer"] = "done"

Next == ~Ended /\ (Types \/ Main \/ Loop \/ SignalArrives \/ Closer \/ Tick)

(***************************************************************************)
(* The goroutines are scheduled and time passes; the person types at will.  *)
(***************************************************************************)
Spec ==
    /\ Init /\ [][Next]_vars
    /\ WF_vars(~Ended /\ Main) /\ WF_vars(~Ended /\ Loop)
    /\ WF_vars(~Ended /\ Closer) /\ WF_vars(~Ended /\ Tick)

-----------------------------------------------------------------------------
(***************************************************************************)
(* Properties                                                               *)
(***************************************************************************)

\* "キック/チップ値はホールド時間だけ載せ、以降は 0 を送信" (main.go:288): whatever is typed
\* and set, a kick is off the wire one hold and one period after the last time
\* it was asked for.
KickEnds == ~Ended /\ sent.kick => askedAge <= KickBound

\* "連続してキック値を送り続けないよう" (main.go:6): no pulse is armed while another is in
\* force, however short the cooldown: doKickPulse sleeps longer than the hold.
\* And a cooldown of more than a hold and a period puts a frame without a kick
\* between two pulses (a shorter one does not, when the period is longer than
\* the 20 ms that doKickPulse adds to the hold).
PulsesApart ==
    [][left' > left =>
         /\ left = 0
         /\ cooldown > KickBound /\ sent.kick => sentBy = "main"]_vars

\* "終了時はチャージ OFF でディスチャージ後、キック=0 で停止" (main.go:290): the last frame
\* before the program ends does not charge and has no kick.
EndsDischarged == Ended => ~sent.charge /\ ~sent.kick

\* What does hold: it is shutdown's own frame, without a kick; it charges or dribbles
\* only if that was switched on, or left on by a dribble test, while shutdown was at
\* work; and it moves the robot just as the base velocity tells it to.  shutdown
\* clears the charge and the pulse and never the velocity, so one that was entered
\* long before is still in the last frame.  Excepted are the person's single frame
\* coming after it, and a program that was only just starting, whose loop was never
\* stopped.
EndsUnarmed ==
    Ended =>
       \/ /\ sentBy = "closer" /\ ~sent.kick
          /\ sent.charge => "charge" \in meddled
          /\ sent.dribble => "dribble" \in meddled
          /\ sent.motion # velocity => "velocity" \in meddled
       \/ sentBy = "main"
       \/ sentBy = "loop" /\ "start" \in meddled

\* A signal, or the end of the input, ends the program in spite of the command at
\* work and of later ones.  The locks are taken in both orders, but only by main,
\* one command after the other, so that loop and closer, which take one at a time,
\* never wait in a circle.
Terminates == Called ~> Ended

================================================================================
