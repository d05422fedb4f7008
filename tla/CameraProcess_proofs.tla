---------------------------- MODULE CameraProcess_proofs ----------------------------
(***************************************************************************)
(* CameraProcess for any number of API connections and of restarts:         *)
(* TypeOK, CameraRunsWhenQuiet, PanicNeedsOverlap and StartsAlone.           *)
(***************************************************************************)
EXTENDS CameraProcess, FiniteSetTheorems, TLAPS

\* The types these proofs need; MaxCmds, a bound of TLC's, is not one of them.
Types ==
    /\ created \in Nat
    /\ pythonCmd \in (1..created) \cup {NoCmd}
    /\ started \subseteq 1..created
    /\ device \in cameras \cup {NoCmd}
    /\ go \in [Goroutines -> [step: Steps, on: Nat \cup {NoCmd}]]

\* One goroutine moves, the others stay where they are.
LEMMA GoesMoves ==
    ASSUME Types, NEW g \in Goroutines, NEW from, NEW to \in Steps, Goes(g, from, to)
    PROVE  /\ program = "up" /\ go[g].step = from
           /\ go' \in [Goroutines -> [step: Steps, on: Nat \cup {NoCmd}]]
           /\ go'[g].step = to
           /\ \A h \in Goroutines : h # g => go'[h] = go[h]
BY DEF Types, Goes, At

\* The goroutines begin with api.Run in its restart, the others idle.
LEMMA InitTypes == Init => Types
<1> SUFFICES ASSUME Init
             PROVE  Types
  OBVIOUS
<1>1. go \in [Goroutines -> [step: Steps, on: Nat \cup {NoCmd}]]
  BY DEF Init, At, Steps
<1>2. created \in Nat /\ pythonCmd \in (1..created) \cup {NoCmd} /\ started \subseteq 1..created
  BY DEF Init
<1>3. device \in cameras \cup {NoCmd}
  BY DEF Init
<1>4. QED
  BY <1>1, <1>2, <1>3 DEF Types

\* Every statement of a restart, and every step of a camera, keeps the types.
LEMMA StepTypes == Types /\ [Next]_vars => Types'
<1> SUFFICES ASSUME Types, [Next]_vars
             PROVE  Types'
  OBVIOUS
<1>1. ASSUME NEW h \in Handlers, Request(h)
      PROVE  Types'
  BY <1>1, GoesMoves DEF Request, Types, Goroutines, Steps
<1>2. CASE Interrupt
  BY <1>2, GoesMoves DEF Interrupt, Types, Goroutines, Steps
<1>3. ASSUME NEW g \in Goroutines, Restart(g)
      PROVE  Types'
  <2>1. ASSUME NEW from, Panics(g, from)
        PROVE  Types'
    <3>1. "idle" \in Steps
      BY DEF Steps
    <3>2. QED
      BY <2>1, <3>1, GoesMoves DEF Panics, Types
  <2>2. CASE IsNil(g)
    BY <2>2, GoesMoves DEF IsNil, Types, Steps
  <2>3. CASE IsStarted(g)
    BY <2>1, <2>3, GoesMoves DEF IsStarted, Types, Steps
  <2>4. CASE Kill(g)
    BY <2>1, <2>4, GoesMoves DEF Kill, Dies, Types, Steps
  <2>5. CASE Wait(g)
    <3>1. ASSUME pythonCmd \in started, go' = [go EXCEPT ![g] = [step |-> "waiting", on |-> pythonCmd]]
          PROVE  go' \in [Goroutines -> [step: Steps, on: Nat \cup {NoCmd}]]
      <4>1. pythonCmd \in Nat
        BY <3>1 DEF Types
      <4>2. "waiting" \in Steps
        BY DEF Steps
      <4>3. QED
        BY <3>1, <4>1, <4>2 DEF Types
    <3>2. CASE pythonCmd \notin started /\ Panics(g, "wait")
      BY <2>1, <3>2
    <3>3. QED
      BY <2>5, <3>1, <3>2 DEF Wait, Types
  <2>6. CASE Reaped(g)
    BY <2>6, GoesMoves DEF Reaped, Types, Steps
  <2>7. CASE Forget(g)
    BY <2>7, GoesMoves DEF Forget, Types, Steps
  <2>8. CASE PkillTerm(g)
    BY <2>8, GoesMoves DEF PkillTerm, Dies, Types, Steps
  <2>9. CASE PkillKill(g)
    BY <2>9, GoesMoves DEF PkillKill, Dies, Types, Steps
  <2>10. CASE Assign(g)
    <3>1. "start" \in Steps
      BY DEF Steps
    <3>2. go' \in [Goroutines -> [step: Steps, on: Nat \cup {NoCmd}]]
      BY <2>10, <3>1, GoesMoves DEF Assign
    <3>3. QED
      BY <2>10, <3>2 DEF Assign, Types
  <2>11. CASE Start(g)
    <3>1. CASE pythonCmd = NoCmd /\ Panics(g, "start")
      BY <2>1, <3>1
    <3>2. CASE Goes(g, "start", "idle")
      <4>1. "idle" \in Steps
        BY DEF Steps
      <4>2. go' \in [Goroutines -> [step: Steps, on: Nat \cup {NoCmd}]]
        BY <3>2, <4>1, GoesMoves
      <4>3. CASE pythonCmd \in started
        BY <2>1, <2>11, <4>2, <4>3 DEF Start, Types
      <4>4. CASE pythonCmd \in Cmds \ started
        <5>1. pythonCmd # NoCmd
          BY <4>4, NoCmdAssumption DEF Cmds
        <5>2. /\ started' \in {started, started \cup {pythonCmd}}
              /\ cameras' \in {cameras, cameras \cup {pythonCmd}}
              /\ UNCHANGED <<created, pythonCmd, device>>
          BY <2>11, <4>4, <5>1 DEF Start
        <5>3. QED
          BY <4>2, <5>1, <5>2 DEF Types
      <4>5. QED
        BY <2>1, <2>11, <4>3, <4>4 DEF Start
    <3>3. QED
      BY <2>11, <3>1, <3>2 DEF Start
  <2>12. QED
    BY <1>3, <2>2, <2>3, <2>4, <2>5, <2>6, <2>7, <2>8, <2>9, <2>10, <2>11 DEF Restart
<1>4. ASSUME NEW c \in cameras, OpenCamera(c) \/ DeviceTaken(c) \/ Fails(c)
      PROVE  Types'
  BY <1>4 DEF OpenCamera, DeviceTaken, Fails, Dies, Types
<1>5. CASE UNCHANGED vars
  BY <1>5 DEF vars, Types
<1>6. QED
  BY <1>1, <1>2, <1>3, <1>4, <1>5 DEF Next

\* The types hold in every state.
LEMMA TypesInvariant == Spec => []Types
BY InitTypes, StepTypes, PTL DEF Spec

-----------------------------------------------------------------------------
(***************************************************************************)
(* While nothing has overlapped, one goroutine at a time is at work, and    *)
(* what it reads of pythonCmd in one statement is still there in the next.  *)
(* From its second pkill on, no camera is alive.                            *)
(***************************************************************************)
Alone == \A g, h \in Goroutines : go[g].step # "idle" /\ go[h].step # "idle" => g = h

KnowsCmd(g) ==
    /\ go[g].step \in {"is started", "start"} => pythonCmd # NoCmd
    /\ go[g].step \in {"kill", "wait"} => pythonCmd \in started
    /\ go[g].step \in {"assign", "start"} => cameras = {}

SeqInv ==
    ~overlap => program # "panicked" /\ Alone /\ \A g \in Goroutines : KnowsCmd(g)

\* At boot only api.Run is at work, and it has read nothing yet.
LEMMA SeqInit == Init => SeqInv
<1> SUFFICES ASSUME Init
             PROVE  SeqInv
  OBVIOUS
<1>1. \A g \in Goroutines : go[g].step = IF g = "api" THEN "is nil" ELSE "idle"
  BY DEF Init, At
<1>2. Alone
  BY <1>1 DEF Alone
<1>3. \A g \in Goroutines : KnowsCmd(g)
  BY <1>1 DEF KnowsCmd
<1>4. QED
  BY <1>2, <1>3 DEF Init, SeqInv

\* What a lone restart has read of pythonCmd holds until its next statement.
LEMMA SeqStep == Types /\ SeqInv /\ [Next]_vars => SeqInv'
<1> SUFFICES ASSUME Types, SeqInv, [Next]_vars, ~overlap'
             PROVE  /\ program' # "panicked" /\ Alone'
                    /\ \A g \in Goroutines : KnowsCmd(g)'
  BY DEF SeqInv
<1> DEFINE Goal == program' # "panicked" /\ Alone' /\ \A g \in Goroutines : KnowsCmd(g)'
<1>1. ~overlap /\ program # "panicked" /\ Alone /\ \A g \in Goroutines : KnowsCmd(g)
  <2>1. overlap => overlap'
    BY DEF Next, Request, Interrupt, Restart, IsNil, IsStarted, Kill, Wait, Reaped, Forget,
           PkillTerm, PkillKill, Assign, Start, Panics, OpenCamera, DeviceTaken, Fails,
           history, vars
  <2>2. QED
    BY <2>1 DEF SeqInv
<1>2. ASSUME NEW g \in Goroutines, Goes(g, "idle", "is nil"), program' = program,
             overlap' = (overlap \/ Busy # {})
      PROVE  Goal
  <2>1. \A h \in Goroutines : go[h].step = "idle"
    BY <1>2 DEF Busy
  <2>2. go'[g].step = "is nil" /\ \A h \in Goroutines : h # g => go'[h].step = "idle"
    BY <1>2, <2>1, GoesMoves DEF Steps
  <2>3. QED
    BY <1>1, <1>2, <2>2 DEF Alone, KnowsCmd
<1>3. ASSUME NEW g \in Goroutines, Restart(g)
      PROVE  Goal
  <2>1. go[g].step # "idle" /\ KnowsCmd(g)
        /\ \A h \in Goroutines : h # g => go[h].step = "idle"
    BY <1>1, <1>3 DEF Alone, Restart, IsNil, IsStarted, Kill, Wait, Reaped, Forget,
                      PkillTerm, PkillKill, Assign, Start, Goes, Panics
  <2>2. \A h \in Goroutines : h # g => go'[h] = go[h]
    BY <1>3 DEF Types, Restart, IsNil, IsStarted, Kill, Wait, Reaped, Forget,
                PkillTerm, PkillKill, Assign, Start, Goes, Panics
  <2>3. \A h \in Goroutines : h # g => go'[h].step = "idle"
    BY <2>1, <2>2
  <2>4. ASSUME program' # "panicked", KnowsCmd(g)'
        PROVE  Goal
    BY <2>3, <2>4 DEF Alone, KnowsCmd
  <2>5. CASE IsNil(g)
    BY <1>1, <2>4, <2>5, GoesMoves DEF IsNil, KnowsCmd, Steps
  <2>6. CASE IsStarted(g)
    <3>1. pythonCmd # NoCmd
      BY <2>1, <2>6 DEF IsStarted, KnowsCmd, Panics, Goes
    <3>2. QED
      BY <1>1, <2>4, <2>6, <3>1, GoesMoves DEF IsStarted, KnowsCmd, Steps
  <2>7. CASE Kill(g)
    <3>1. pythonCmd \in started
      BY <2>1, <2>7 DEF Kill, KnowsCmd, Panics, Goes
    <3>2. UNCHANGED <<program, started, pythonCmd>> /\ Goes(g, "kill", "wait")
      BY <2>7, <3>1 DEF Kill
    <3>3. go'[g].step = "wait"
      BY <3>2, GoesMoves DEF Steps
    <3>4. QED
      BY <1>1, <2>4, <3>1, <3>2, <3>3 DEF KnowsCmd
  <2>8. CASE Wait(g)
    <3>1. pythonCmd \in started
      BY <2>1, <2>8 DEF Wait, KnowsCmd, Panics, Goes
    <3>2. go'[g].step = "waiting" /\ program' = program
      BY <2>8, <3>1 DEF Wait, Types
    <3>3. QED
      BY <1>1, <2>4, <3>2 DEF KnowsCmd
  <2>9. CASE Reaped(g)
    BY <1>1, <2>4, <2>9, GoesMoves DEF Reaped, KnowsCmd, Steps
  <2>10. CASE Forget(g)
    BY <1>1, <2>4, <2>10, GoesMoves DEF Forget, KnowsCmd, Steps
  <2>11. CASE PkillTerm(g)
    BY <1>1, <2>4, <2>11, GoesMoves DEF PkillTerm, KnowsCmd, Steps
  <2>12. CASE PkillKill(g)
    <3>1. go'[g].step \in {"idle", "assign"} /\ cameras' = {} /\ program' # "panicked"
      BY <1>1, <2>12, GoesMoves DEF PkillKill, Dies, Steps
    <3>2. QED
      BY <2>4, <3>1 DEF KnowsCmd
  <2>13. CASE Assign(g)
    <3>1. go'[g].step = "start" /\ cameras' = {} /\ program' = program
      BY <2>1, <2>13, GoesMoves DEF Assign, KnowsCmd, Goes, Steps
    <3>2. pythonCmd' # NoCmd
      BY <2>13, NoCmdAssumption DEF Assign, Types
    <3>3. QED
      BY <1>1, <2>4, <3>1, <3>2 DEF KnowsCmd
  <2>14. CASE Start(g)
    <3>1. pythonCmd # NoCmd
      BY <2>1, <2>14 DEF Start, KnowsCmd, Panics, Goes
    <3>2. go'[g].step = "idle" /\ program' = program
      BY <2>14, <3>1, GoesMoves DEF Start, Steps
    <3>3. QED
      BY <1>1, <2>4, <3>2 DEF KnowsCmd
  <2>15. QED
    BY <1>3, <2>5, <2>6, <2>7, <2>8, <2>9, <2>10, <2>11, <2>12, <2>13, <2>14 DEF Restart
<1>4. ASSUME NEW c \in cameras, OpenCamera(c) \/ DeviceTaken(c) \/ Fails(c)
      PROVE  Goal
  <2>1. cameras' \subseteq cameras /\ UNCHANGED <<pythonCmd, started, go, program>>
    BY <1>4 DEF OpenCamera, DeviceTaken, Fails, Dies
  <2>2. QED
    BY <1>1, <2>1 DEF Alone, KnowsCmd
<1>5. CASE UNCHANGED vars
  BY <1>1, <1>5 DEF vars, Alone, KnowsCmd
<1>6. QED
  BY <1>2, <1>3, <1>4, <1>5 DEF Next, Request, Interrupt, Goroutines

\* Without an overlap a restart is alone in every state.
LEMMA SeqInvariant == Spec => []SeqInv
BY SeqInit, SeqStep, TypesInvariant, PTL DEF Spec

\* The unlocked reads of pythonCmd can only go wrong when two restarts overlap.
THEOREM PanicOnlyByOverlap == Spec => []PanicNeedsOverlap
<1>1. SeqInv => PanicNeedsOverlap
  BY DEF SeqInv, PanicNeedsOverlap
<1>2. QED
  BY <1>1, SeqInvariant, PTL

\* A restart that overlaps no other starts its camera when no other is alive.
THEOREM StartedAlone == Spec => StartsAlone
<1>1. SeqInv /\ [Next]_vars =>
        [\A c \in Cmds : c \in cameras' \ cameras => overlap \/ cameras = {}]_vars
  <2> SUFFICES ASSUME SeqInv, Next, NEW c \in Cmds, c \in cameras' \ cameras, ~overlap
               PROVE  cameras = {}
    OBVIOUS
  <2>1. \E g \in Goroutines : Start(g)
    BY DEF Next, Request, Interrupt, Restart, IsNil, IsStarted, Kill, Wait, Reaped, Forget,
           PkillTerm, PkillKill, Assign, Panics, Dies, OpenCamera, DeviceTaken, Fails
  <2>2. PICK g \in Goroutines : Start(g)
    BY <2>1
  <2>3. go[g].step = "start"
    BY <2>2 DEF Start, Goes, Panics
  <2>4. QED
    BY <2>3 DEF SeqInv, KnowsCmd
<1>2. QED
  BY <1>1, SeqInvariant, PTL DEF Spec, StartsAlone

-----------------------------------------------------------------------------
(***************************************************************************)
(* However restarts overlap: when no camera is alive, somebody will still   *)
(* assign a command, or start the one that is assigned.                     *)
(***************************************************************************)
Restarting == Steps \ {"idle", "start"}

QuietInv ==
    program = "up" /\ ~failed /\ cameras = {} =>
        \E g \in Goroutines :
            \/ go[g].step \in Restarting
            \/ go[g].step = "start" /\ pythonCmd \notin started

\* At boot api.Run is about to start a camera.
LEMMA QuietInit == Init => QuietInv
<1> SUFFICES ASSUME Init
             PROVE  QuietInv
  OBVIOUS
<1>1. go["api"].step = "is nil" /\ "api" \in Goroutines
  BY DEF Init, At, Goroutines
<1>2. QED
  BY <1>1 DEF QuietInv, Restarting, Steps

\* No statement of any restart leaves nobody to start a camera when none is alive.
LEMMA QuietStep == Types /\ QuietInv /\ [Next]_vars => QuietInv'
<1> SUFFICES ASSUME Types, QuietInv, [Next]_vars,
                    program' = "up", ~failed', cameras' = {}
             PROVE  \E g \in Goroutines :
                        \/ go'[g].step \in Restarting
                        \/ go'[g].step = "start" /\ pythonCmd' \notin started'
  BY DEF QuietInv
<1> DEFINE Goal == \E g \in Goroutines :
                        \/ go'[g].step \in Restarting
                        \/ go'[g].step = "start" /\ pythonCmd' \notin started'
<1>1. ASSUME NEW h \in Goroutines, Goes(h, "idle", "is nil")
      PROVE  Goal
  BY <1>1, GoesMoves DEF Restarting, Steps
<1>2. ASSUME NEW g \in Goroutines, Restart(g)
      PROVE  Goal
  <2>1. ASSUME NEW from, NEW to \in Restarting, Goes(g, from, to)
        PROVE  Goal
    BY <2>1, GoesMoves DEF Restarting
  <2>2. ASSUME NEW from, Panics(g, from)
        PROVE  FALSE
    BY <2>2 DEF Panics
  <2>3. CASE IsNil(g)
    BY <2>1, <2>3 DEF IsNil, Restarting, Steps
  <2>4. CASE IsStarted(g)
    BY <2>1, <2>2, <2>4 DEF IsStarted, Restarting, Steps
  <2>5. CASE Kill(g)
    BY <2>1, <2>2, <2>5 DEF Kill, Restarting, Steps
  <2>6. CASE Wait(g)
    <3>1. go'[g].step = "waiting"
      BY <2>2, <2>6 DEF Wait, Types
    <3>2. QED
      BY <3>1 DEF Restarting, Steps
  <2>7. CASE Reaped(g)
    BY <2>1, <2>7 DEF Reaped, Restarting, Steps
  <2>8. CASE Forget(g)
    BY <2>1, <2>8 DEF Forget, Restarting, Steps
  <2>9. CASE PkillTerm(g)
    BY <2>1, <2>9 DEF PkillTerm, Restarting, Steps
  <2>10. CASE PkillKill(g)
    BY <2>1, <2>10 DEF PkillKill, Restarting, Steps
  \* A new command has never been started.
  <2>11. CASE Assign(g)
    <3>1. go'[g].step = "start"
      BY <2>11, GoesMoves DEF Assign, Steps
    <3>2. pythonCmd' \notin started'
      BY <2>11 DEF Assign, Types
    <3>3. QED
      BY <3>1, <3>2
  \* A Start that starts nothing leaves somebody else to do it: the command
  \* it found was started already, and no camera is alive.
  <2>12. CASE Start(g)
    <3>1. go[g].step = "start" /\ Goes(g, "start", "idle")
      BY <2>2, <2>12 DEF Start, Goes
    <3>2. pythonCmd \in started /\ UNCHANGED <<pythonCmd, started, cameras, program, failed>>
      BY <2>2, <2>12 DEF Start, history
    <3>3. PICK h \in Goroutines : go[h].step \in Restarting
      BY <3>2 DEF QuietInv
    <3>4. h # g
      BY <3>1, <3>3 DEF Restarting
    <3>5. go'[h] = go[h]
      BY <3>1, <3>4, GoesMoves DEF Steps
    <3>6. QED
      BY <3>3, <3>5
  <2>13. QED
    BY <1>2, <2>3, <2>4, <2>5, <2>6, <2>7, <2>8, <2>9, <2>10, <2>11, <2>12 DEF Restart
\* A process that cannot have the device leaves the one that has it.
<1>3. ASSUME NEW c \in cameras, OpenCamera(c) \/ DeviceTaken(c) \/ Fails(c)
      PROVE  FALSE
  <2>1. CASE DeviceTaken(c)
    BY <2>1 DEF DeviceTaken, Dies, Types
  <2>2. QED
    BY <1>3, <2>1 DEF OpenCamera, Fails
<1>4. CASE UNCHANGED vars
  BY <1>4 DEF vars, QuietInv
<1>5. QED
  BY <1>1, <1>2, <1>3, <1>4 DEF Next, Request, Interrupt, Goroutines

\* Once every restart is over a camera process runs, unless one failed.
THEOREM NeverLeftBlind == Spec => []CameraRunsWhenQuiet
<1>1. QuietInv => CameraRunsWhenQuiet
  BY DEF QuietInv, CameraRunsWhenQuiet, Busy, Restarting
<1>2. QED
  BY <1>1, QuietInit, QuietStep, TypesInvariant, PTL DEF Spec

-----------------------------------------------------------------------------
(***************************************************************************)
(* All of TypeOK.  What Types leaves out is who is alive and what is waited  *)
(* for, and the count of commands: a request is admitted only when every     *)
(* restart under way, and it, still have one to create, and each creates     *)
(* one.  The signal handler creates none.                                    *)
(***************************************************************************)
Started ==
    /\ cameras \subseteq started \cup {0}
    /\ \A g \in Goroutines : go[g].on \in started \cup {NoCmd}
    /\ program \in {"up", "panicked", "exited"}
    /\ overlap \in BOOLEAN /\ failed \in BOOLEAN

\* The goroutines that will still create a command.
ToCreate == {g \in Goroutines \ {"signal"} : go[g].step \notin {"idle", "start"}}

Counted ==
    /\ created + Cardinality(ToCreate) <= MaxCmds
    /\ go["signal"].step \notin {"assign", "start"}

FullInv == Types /\ Started /\ Counted

\* Finitely many goroutines are at work.
LEMMA GoroutinesFinite ==
    ASSUME NEW S \in SUBSET Goroutines
    PROVE  IsFiniteSet(S) /\ Cardinality(S) \in Nat
<1>1. Goroutines = (Handlers \cup {"api"}) \cup {"signal"}
  BY DEF Goroutines
<1>2. IsFiniteSet(Goroutines)
  BY <1>1, HandlersAssumption, FS_AddElement
<1>3. IsFiniteSet(S)
  BY <1>2, FS_Subset
<1>4. QED
  BY <1>3, FS_CardinalityType

\* A step after which no more goroutines will create a command keeps the count.
LEMMA CountShrinks ==
    ASSUME Counted, ToCreate' \subseteq ToCreate, created' = created, created \in Nat
    PROVE  created' + Cardinality(ToCreate)' <= MaxCmds
<1>1. ToCreate \in SUBSET Goroutines
  BY DEF ToCreate
<1>2. IsFiniteSet(ToCreate) /\ Cardinality(ToCreate) \in Nat
  BY <1>1, GoroutinesFinite
<1>3. Cardinality(ToCreate') <= Cardinality(ToCreate) /\ Cardinality(ToCreate') \in Nat
  BY <1>2, FS_Subset, FS_CardinalityType
<1>4. QED
  BY <1>2, <1>3, MaxCmdsAssumption DEF Counted

\* A goroutine that goes on with a restart, other than by creating its command,
\* keeps the count.
LEMMA GoesCounted ==
    ASSUME Types, Counted, NEW g \in Goroutines, NEW from, NEW to \in Steps,
           Goes(g, from, to), created' = created,
           from \notin {"idle", "start"} \/ to \in {"idle", "start"},
           g = "signal" => to \notin {"assign", "start"}
    PROVE  Counted'
<1>1. /\ go[g].step = from /\ go'[g].step = to
      /\ \A h \in Goroutines : h # g => go'[h] = go[h]
  BY GoesMoves
<1>2. ToCreate' \subseteq ToCreate
  BY <1>1 DEF ToCreate
<1>3. go'["signal"].step \notin {"assign", "start"}
  BY <1>1 DEF Counted, Goroutines
<1>4. created' + Cardinality(ToCreate)' <= MaxCmds
  BY <1>2, CountShrinks DEF Types
<1>5. QED
  BY <1>3, <1>4 DEF Counted

\* What a goroutine waits for was started: Goes waits for nothing.
LEMMA GoesStarted ==
    ASSUME Types, Started, NEW g \in Goroutines, NEW from, NEW to, Goes(g, from, to),
           started \subseteq started'
    PROVE  \A h \in Goroutines : go'[h].on \in started' \cup {NoCmd}
BY DEF Types, Started, Goes, At

\* A request is admitted with a command to create.
LEMMA RequestCounted ==
    ASSUME Types, Counted, NEW h \in Handlers, Request(h)
    PROVE  Counted'
<1>1. h \in Goroutines /\ "is nil" \in Steps /\ "signal" \in Goroutines
  BY DEF Goroutines, Steps
<1>2. /\ go'[h].step = "is nil" /\ \A g \in Goroutines : g # h => go'[g] = go[g]
      /\ created' = created /\ created + Cardinality(Busy) < MaxCmds
  BY <1>1, GoesMoves DEF Request
<1>3. ToCreate' \subseteq Busy \cup {h}
  BY <1>2 DEF ToCreate, Busy
<1>4. Busy \in SUBSET Goroutines
  BY DEF Busy
<1>5. IsFiniteSet(Busy) /\ Cardinality(Busy) \in Nat
  BY <1>4, GoroutinesFinite
<1>6. IsFiniteSet(Busy \cup {h}) /\ Cardinality(Busy \cup {h}) <= Cardinality(Busy) + 1
  <2>1. IsFiniteSet(Busy \cup {h})
    BY <1>5, FS_AddElement
  <2>2. Cardinality(Busy \cup {h}) = IF h \in Busy THEN Cardinality(Busy)
                                                  ELSE Cardinality(Busy) + 1
    BY <1>5, FS_AddElement
  <2>3. QED
    BY <1>5, <2>1, <2>2
<1>7. Cardinality(ToCreate') <= Cardinality(Busy \cup {h})
  BY <1>3, <1>6, FS_Subset
<1>8. Cardinality(ToCreate') \in Nat /\ Cardinality(Busy \cup {h}) \in Nat
  BY <1>3, <1>6, FS_Subset, FS_CardinalityType
<1>9. created' + Cardinality(ToCreate') <= MaxCmds
  <2> DEFINE n == Cardinality(ToCreate')
             m == Cardinality(Busy \cup {h})
             k == Cardinality(Busy)
  <2>1. /\ created \in Nat /\ MaxCmds \in Nat /\ n \in Nat /\ m \in Nat /\ k \in Nat
        /\ n <= m /\ m <= k + 1 /\ created + k < MaxCmds
    BY <1>2, <1>5, <1>6, <1>7, <1>8, MaxCmdsAssumption DEF Types
  <2> HIDE DEF n, m, k
  <2>2. created + n <= MaxCmds
    BY <2>1
  <2>3. QED
    BY <1>2, <2>2 DEF n
<1>10. go'["signal"].step \notin {"assign", "start"}
  BY <1>1, <1>2 DEF Counted
<1>11. QED
  BY <1>9, <1>10 DEF Counted

\* A restart that creates its command has one less to create.
LEMMA AssignCounted ==
    ASSUME Types, Counted, NEW g \in Goroutines, Assign(g)
    PROVE  Counted'
<1>1. /\ go[g].step = "assign" /\ go'[g].step = "start" /\ created' = created + 1
      /\ \A h \in Goroutines : h # g => go'[h] = go[h]
  <2>1. "start" \in Steps
    BY DEF Steps
  <2>2. QED
    BY <2>1, GoesMoves DEF Assign
<1>2. g # "signal" /\ "signal" \in Goroutines
  BY <1>1 DEF Counted, Goroutines
<1>3. g \in ToCreate /\ ToCreate' = ToCreate \ {g}
  BY <1>1, <1>2 DEF ToCreate
<1>4. ToCreate \in SUBSET Goroutines
  BY DEF ToCreate
<1>5. IsFiniteSet(ToCreate) /\ Cardinality(ToCreate) \in Nat
  BY <1>4, GoroutinesFinite
<1>6. Cardinality(ToCreate') = Cardinality(ToCreate) - 1
  BY <1>3, <1>5, FS_RemoveElement
<1>7. created' + Cardinality(ToCreate') <= MaxCmds
  BY <1>1, <1>5, <1>6, MaxCmdsAssumption DEF Counted, Types
<1>8. go'["signal"].step \notin {"assign", "start"}
  BY <1>1, <1>2 DEF Counted
<1>9. QED
  BY <1>7, <1>8 DEF Counted

\* The types and the count hold at boot.
LEMMA FullInit == Init => FullInv
<1> SUFFICES ASSUME Init
             PROVE  Started /\ Counted
  BY InitTypes DEF FullInv
<1>1. Started
  BY DEF Init, Started, At
<1>2. ToCreate = {"api"} /\ go["signal"].step = "idle"
  BY DEF Init, ToCreate, At, Goroutines
<1>3. Cardinality(ToCreate) = 1
  BY <1>2, FS_Singleton
<1>4. created = 0
  BY DEF Init
<1>5. 0 + 1 <= MaxCmds
  BY MaxCmdsAssumption
<1>6. QED
  BY <1>1, <1>2, <1>3, <1>4, <1>5 DEF Counted

\* A restart, or a stop, keeps what is started and the count.
LEMMA RestartFull ==
    ASSUME FullInv, NEW g \in Goroutines, Restart(g)
    PROVE  Started' /\ Counted'
<1> USE DEF FullInv
<1>a. Steps = {"idle", "is nil", "is started", "kill", "wait", "waiting", "forget",
               "pkill term", "pkill kill", "assign", "start"}
  BY DEF Steps
<1>b. ASSUME NEW from, NEW to \in Steps, Goes(g, from, to),
             UNCHANGED <<created, started>>, program' \in {"up", "panicked", "exited"},
             cameras' \subseteq cameras, UNCHANGED overlap, failed' \in BOOLEAN,
             from \notin {"idle", "start"} \/ to \in {"idle", "start"},
             g = "signal" => to \notin {"assign", "start"}
      PROVE  Started' /\ Counted'
  <2>1. Counted'
    BY <1>b, GoesCounted
  <2>2. \A h \in Goroutines : go'[h].on \in started' \cup {NoCmd}
    BY <1>b, GoesStarted
  <2>3. QED
    BY <1>b, <2>1, <2>2 DEF Started
<1>c. ASSUME NEW from, Panics(g, from)
      PROVE  Started' /\ Counted'
  BY <1>a, <1>b, <1>c DEF Panics, history, Started
<1>1. CASE IsNil(g)
  <2> DEFINE to == IF pythonCmd = NoCmd THEN "pkill term" ELSE "is started"
  <2>1. to \in Steps /\ to \notin {"assign", "start"} /\ Goes(g, "is nil", to)
    BY <1>1, <1>a DEF IsNil
  <2> HIDE DEF to
  <2>2. QED
    BY <1>1, <1>b, <2>1 DEF IsNil, history, Started
<1>2. CASE IsStarted(g)
  <2> DEFINE to == IF pythonCmd \in started THEN "kill" ELSE "pkill term"
  <2>1. CASE Panics(g, "is started")
    BY <1>c, <2>1
  <2>2. CASE ~Panics(g, "is started")
    <3>1. to \in Steps /\ to \notin {"assign", "start"} /\ Goes(g, "is started", to)
      BY <1>2, <1>a, <2>2 DEF IsStarted
    <3>2. UNCHANGED <<created, started, cameras, program, history>>
      BY <1>2, <2>2 DEF IsStarted
    <3> HIDE DEF to
    <3>3. QED
      BY <1>b, <3>1, <3>2 DEF history, Started
  <2>3. QED
    BY <2>1, <2>2
<1>3. CASE Kill(g)
  <2>1. CASE Panics(g, "kill")
    BY <1>c, <2>1
  <2>2. CASE ~Panics(g, "kill")
    BY <1>3, <1>a, <1>b, <2>2 DEF Kill, Dies, history, Started
  <2>3. QED
    BY <2>1, <2>2
<1>4. CASE Wait(g)
  <2>1. CASE Panics(g, "wait")
    BY <1>c, <2>1
  <2>2. CASE ~Panics(g, "wait")
    <3>1. /\ go[g].step = "wait" /\ pythonCmd \in started
          /\ go' = [go EXCEPT ![g] = [step |-> "waiting", on |-> pythonCmd]]
          /\ UNCHANGED <<created, started, cameras, program, overlap, failed>>
      BY <1>4, <2>2 DEF Wait, history
    <3>2. go \in [Goroutines -> [step: Steps, on: Nat \cup {NoCmd}]]
      BY DEF Types
    <3>3. /\ go'[g].step = "waiting" /\ go'[g].on = pythonCmd
          /\ \A h \in Goroutines : h # g => go'[h] = go[h]
      BY <3>1, <3>2
    <3>4. Started'
      BY <3>1, <3>3 DEF Started
    <3>5. ToCreate' \subseteq ToCreate
      BY <3>1, <3>3 DEF ToCreate
    <3>6. go'["signal"].step \notin {"assign", "start"}
      BY <3>3 DEF Counted, Goroutines
    <3>7. created' + Cardinality(ToCreate)' <= MaxCmds
      BY <3>1, <3>5, CountShrinks DEF Types
    <3>8. QED
      BY <3>4, <3>6, <3>7 DEF Counted
  <2>3. QED
    BY <2>1, <2>2
<1>5. CASE Reaped(g)
  BY <1>5, <1>a, <1>b DEF Reaped, history, Started
<1>6. CASE Forget(g)
  BY <1>6, <1>a, <1>b DEF Forget, history, Started
<1>7. CASE PkillTerm(g)
  BY <1>7, <1>a, <1>b DEF PkillTerm, Dies, history, Started
<1>8. CASE PkillKill(g)
  <2>1. CASE g = "signal"
    BY <1>8, <1>a, <1>b, <2>1 DEF PkillKill, Dies, history, Started
  <2>2. CASE g # "signal"
    BY <1>8, <1>a, <1>b, <2>2 DEF PkillKill, Dies, history, Started
  <2>3. QED
    BY <2>1, <2>2
<1>9. CASE Assign(g)
  <2>1. Counted'
    BY <1>9, AssignCounted
  <2>2. \A h \in Goroutines : go'[h].on \in started' \cup {NoCmd}
    BY <1>9, GoesStarted DEF Assign
  <2>3. QED
    BY <1>9, <2>1, <2>2 DEF Assign, history, Started
<1>10. CASE Start(g)
  <2>1. CASE Panics(g, "start")
    BY <1>c, <2>1
  <2>2. CASE ~Panics(g, "start")
    <3>1. /\ Goes(g, "start", "idle") /\ UNCHANGED <<created, program, overlap>>
          /\ started \subseteq started'
      BY <1>10, <2>2 DEF Start, history
    <3>2. /\ failed' \in {TRUE, failed}
          /\ \/ cameras' = cameras
             \/ cameras' = cameras \cup {pythonCmd} /\ started' = started \cup {pythonCmd}
      BY <1>10, <2>2 DEF Start, history
    <3>3. Counted'
      BY <1>a, <3>1, GoesCounted
    <3>4. \A h \in Goroutines : go'[h].on \in started' \cup {NoCmd}
      BY <3>1, GoesStarted
    <3>5. QED
      BY <3>1, <3>2, <3>3, <3>4 DEF Started
  <2>3. QED
    BY <2>1, <2>2
<1>11. QED
  BY <1>1, <1>2, <1>3, <1>4, <1>5, <1>6, <1>7, <1>8, <1>9, <1>10 DEF Restart

\* Every step keeps them.
LEMMA FullStep == FullInv /\ [Next]_vars => FullInv'
<1> SUFFICES ASSUME FullInv, [Next]_vars
             PROVE  Started' /\ Counted'
  BY StepTypes DEF FullInv
<1> USE DEF FullInv
<1>1. ASSUME NEW h \in Handlers, Request(h)
      PROVE  Started' /\ Counted'
  <2>1. Counted'
    BY <1>1, RequestCounted
  <2>2. h \in Goroutines /\ UNCHANGED <<started, cameras, program, failed>>
        /\ Goes(h, "idle", "is nil")
    BY <1>1 DEF Request, Goroutines
  <2>3. \A g \in Goroutines : go'[g].on \in started' \cup {NoCmd}
    BY <2>2, GoesStarted
  <2>4. overlap' \in BOOLEAN
    BY <1>1 DEF Request
  <2>5. QED
    BY <2>1, <2>2, <2>3, <2>4 DEF Started
<1>2. CASE Interrupt
  <2>1. "signal" \in Goroutines /\ "is nil" \in Steps
    BY DEF Goroutines, Steps
  <2>2. /\ UNCHANGED <<created, started, cameras, program, failed>>
        /\ Goes("signal", "idle", "is nil") /\ overlap' \in BOOLEAN
    BY <1>2 DEF Interrupt
  <2>3. \A g \in Goroutines : go'[g].on \in started' \cup {NoCmd}
    BY <2>1, <2>2, GoesStarted
  <2>4. /\ go'["signal"].step = "is nil"
        /\ \A g \in Goroutines : g # "signal" => go'[g] = go[g]
    BY <2>1, <2>2, GoesMoves
  <2>5. ToCreate' \subseteq ToCreate
    BY <2>4 DEF ToCreate
  <2>6. created' + Cardinality(ToCreate)' <= MaxCmds
    BY <2>2, <2>5, CountShrinks DEF Types
  <2>7. QED
    BY <2>2, <2>3, <2>4, <2>6 DEF Started, Counted
<1>3. ASSUME NEW g \in Goroutines, Restart(g)
      PROVE  Started' /\ Counted'
  BY <1>3, RestartFull
<1>4. ASSUME NEW c \in cameras, OpenCamera(c) \/ DeviceTaken(c) \/ Fails(c)
      PROVE  Started' /\ Counted'
  <2>1. /\ UNCHANGED <<created, started, go, program, overlap>>
        /\ cameras' \subseteq cameras /\ failed' \in {TRUE, failed}
    BY <1>4 DEF OpenCamera, DeviceTaken, Fails, Dies, history
  <2>2. QED
    BY <2>1 DEF Started, Counted, ToCreate
<1>5. CASE UNCHANGED vars
  BY <1>5 DEF vars, Started, Counted, ToCreate
<1>6. QED
  BY <1>1, <1>2, <1>3, <1>4, <1>5 DEF Next

\* The command of the global, the processes alive and the goroutines keep their
\* types; and no more commands are created than the bound on requests allows.
THEOREM TypeCorrect == Spec => []TypeOK
<1>1. FullInv => TypeOK
  <2> SUFFICES ASSUME FullInv
               PROVE  TypeOK
    OBVIOUS
  <2>1. ToCreate \in SUBSET Goroutines
    BY DEF ToCreate
  <2>2. Cardinality(ToCreate) \in Nat
    BY <2>1, GoroutinesFinite
  <2>3. created \in 0..MaxCmds
    BY <2>2, MaxCmdsAssumption DEF FullInv, Types, Counted
  <2>4. 1..created \subseteq Cmds
    BY <2>3, MaxCmdsAssumption DEF Cmds
  <2>5. started \subseteq Cmds
    BY <2>4 DEF FullInv, Types
  <2>6. go \in [Goroutines -> [step: Steps, on: Cmds \cup {NoCmd}]]
    <3>1. go \in [Goroutines -> [step: Steps, on: Nat \cup {NoCmd}]]
      BY DEF FullInv, Types
    <3>2. \A g \in Goroutines : go[g].on \in Cmds \cup {NoCmd}
      BY <2>5 DEF FullInv, Started
    <3>3. QED
      BY <3>1, <3>2
  <2>7. QED
    BY <2>3, <2>4, <2>6 DEF TypeOK, FullInv, Types, Started
<1>2. QED
  BY <1>1, FullInit, FullStep, PTL DEF Spec

================================================================================
