----------------------------- MODULE Battery_proofs -----------------------------
(***************************************************************************)
(* Proofs about Battery for any reports, phases, sizes of a frame and        *)
(* thresholds: a dismissed alarm stays quiet, the error flag has a cause,    *)
(* and the newest report is taken.  The last two are about bytes: what is    *)
(* known of the window, byte by byte, and of a serial line's packets.        *)
(***************************************************************************)
EXTENDS Battery, SequenceTheorems, WellFoundedInduction, TLAPS

USE ThresholdAssumption

\* After a dismissal, a critical voltage is remembered, and whatever part of the
\* alarm RunGPIO is in was entered because of one.
DismissedInv ==
    alarmVoltage = Critical =>
       /\ volt <= Critical => dipped
       /\ gpio \in {"alarm", "critical", "beep"} => dipped

\* A link cycle remembers the critical voltage it takes.
LEMMA ReceivedDips ==
    ASSUME Received
    PROVE  \/ dipped' = dipped /\ volt' = volt
           \/ dipped' = (dipped \/ volt' <= Critical)
BY DEF Received, Taken

\* A link cycle keeps DismissedInv.
LEMMA LinkKeepsDismissed ==
    ASSUME DismissedInv, UNCHANGED <<gpio, alarmVoltage>>,
           \/ dipped' = dipped /\ volt' = volt
           \/ dipped' = (dipped \/ volt' <= Critical)
    PROVE  DismissedInv'
BY DEF DismissedInv

\* RunGPIO keeps DismissedInv.
LEMMA GpioKeepsDismissed ==
    ASSUME DismissedInv, RunGPIO
    PROVE  DismissedInv'
<1> USE DEF DismissedInv, Goes, GpioOnly, linkVars
<1>1. CASE BackToLook
  BY <1>1 DEF BackToLook
<1>2. CASE Look
  BY <1>2 DEF Look
<1>3. CASE AlarmRound
  BY <1>3 DEF AlarmRound
<1>4. CASE CriticalOver
  BY <1>4 DEF CriticalOver
<1>5. CASE KeepBeeping
  BY <1>5 DEF KeepBeeping
<1>6. CASE Dismiss
  BY <1>6 DEF Dismiss
<1>7. QED
  BY <1>1, <1>2, <1>3, <1>4, <1>5, <1>6 DEF RunGPIO

\* An alarm that was dismissed comes back for a critical voltage only, for any
\* reports of the board, any phase of its frames and any two thresholds.
THEOREM DismissedAlarmStaysQuiet == Spec => []DismissedStaysQuiet
<1>1. Init => DismissedInv
  BY DEF Init, DismissedInv
<1>2. DismissedInv /\ [Next]_vars => DismissedInv'
  <2> SUFFICES ASSUME DismissedInv, [Next]_vars
               PROVE  DismissedInv'
    OBVIOUS
  <2>1. ASSUME NEW report \in Reports, SpiCycle(report)
        PROVE  DismissedInv'
    BY <2>1, ReceivedDips, LinkKeepsDismissed DEF SpiCycle
  <2>2. ASSUME NEW report \in Reports, SerialCycle(report)
        PROVE  DismissedInv'
    <3>1. dipped' = (dipped \/ volt' <= Critical)
      BY <2>2 DEF SerialCycle, Taken
    <3>2. QED
      BY <2>2, <3>1, LinkKeepsDismissed DEF SerialCycle
  <2>3. CASE SpiSilence
    BY <2>3, ReceivedDips, LinkKeepsDismissed DEF SpiSilence
  <2>4. CASE RunGPIO
    BY <2>4, GpioKeepsDismissed
  <2>5. CASE HandleIgnoreBatteryLow
    BY <2>5 DEF HandleIgnoreBatteryLow, DismissedInv, linkVars
  <2>6. CASE UNCHANGED vars
    BY <2>6 DEF vars, linkVars, DismissedInv
  <2>7. QED
    BY <2>1, <2>2, <2>3, <2>4, <2>5, <2>6 DEF Next
<1>3. DismissedInv => DismissedStaysQuiet
  BY DEF DismissedInv, DismissedStaysQuiet
<1>4. QED
  BY <1>1, <1>2, <1>3, PTL DEF Spec

-----------------------------------------------------------------------------
(***************************************************************************)
(* Frames, chunks and packets, byte by byte.                                *)
(***************************************************************************)
\* The sizes and marks of a frame, as numbers.
LEMMA Sizes ==
    /\ FrameSize \in Nat /\ RecvSize \in Nat /\ RecvSize >= 1 /\ FrameSize > RecvSize + 2
    /\ Header \in Nat /\ Footer \in Nat /\ Header # 0 /\ Footer # 0 /\ Header # Footer
    /\ Phases \subseteq Nat /\ \A p \in Phases : p < FrameSize
BY FramingAssumption, ReportsAssumption

\* A report is RecvSize bytes.
LEMMA ReportIs ==
    ASSUME NEW report \in Reports
    PROVE  /\ report \in Seq(Nat) /\ Len(report) = RecvSize
           /\ \A i \in 1..RecvSize : report[i] \in Nat
           /\ HasHeader(report) \in BOOLEAN
<1>1. report \in Seq(Nat) /\ Len(report) = RecvSize
  BY ReportsAssumption
<1>2. \A i \in 1..RecvSize : report[i] \in Nat
  BY <1>1
<1>3. QED
  BY <1>1, <1>2 DEF HasHeader

\* A non-empty set of naturals that has a bound has a greatest member.
LEMMA GreatestExists ==
    ASSUME NEW n \in Nat, NEW T \in SUBSET (0..n), T # {}
    PROVE  \E x \in T : \A y \in T : y <= x
<1> DEFINE R == OpToRel(<, Nat)
           below == {k \in 0..n : n - k \in T}
<1>1. \A x, y \in Nat : <<x, y>> \in R <=> x < y
  BY DEF OpToRel
<1>2. below \subseteq Nat /\ below # {}
  <2>1. PICK x \in T : TRUE
    OBVIOUS
  <2>2. x \in 0..n
    BY <2>1
  <2>3. n - x \in 0..n /\ n - (n - x) = x
    BY <2>2
  <2>4. n - x \in below
    BY <2>1, <2>3
  <2>5. below \subseteq Nat
    OBVIOUS
  <2>6. QED
    BY <2>4, <2>5
<1>3. IsWellFoundedOn(R, Nat)
  BY NatLessThanWellFounded
<1> HIDE DEF R
<1>4. PICK k \in below : \A j \in below : ~ (<<j, k>> \in R)
  BY <1>2, <1>3, WFMin
<1>5. ASSUME NEW j \in below
      PROVE  k <= j
  <2>1. j \in Nat /\ k \in Nat
    BY <1>2
  <2>2. ~ (j < k)
    BY <1>1, <1>4, <2>1
  <2>3. QED
    BY <2>1, <2>2
<1>6. ASSUME NEW y \in T
      PROVE  y <= n - k
  <2>1. n - y \in 0..n /\ n - (n - y) = y
    BY <1>6
  <2>2. k <= n - y
    BY <1>5, <2>1
  <2>3. k \in 0..n
    BY <1>4
  <2>4. QED
    BY <2>1, <2>2, <2>3
<1>7. n - k \in T
  BY <1>4
<1>8. QED
  BY <1>6, <1>7

\* findSPIFrame finds the last valid frame of the window, if there is one.
LEMMA FoundFrame ==
    ASSUME NEW buf, Len(buf) = 2 * FrameSize, ValidOffsets(buf) # {}
    PROVE  /\ FindFrame(buf) \in ValidOffsets(buf)
           /\ \A o \in ValidOffsets(buf) : o <= FindFrame(buf)
<1>1. ValidOffsets(buf) \in SUBSET (0..FrameSize)
  BY Sizes DEF ValidOffsets
<1>2. \E x \in ValidOffsets(buf) : \A o \in ValidOffsets(buf) : o <= x
  BY <1>1, Sizes, GreatestExists
<1>3. QED
  BY <1>2 DEF FindFrame

\* The frame of a report.
LEMMA WrappedIs ==
    ASSUME NEW report \in Reports
    PROVE  /\ Wrapped(report) \in Seq(Nat) /\ Len(Wrapped(report)) = FrameSize
           /\ \A i \in 1..FrameSize : Wrapped(report)[i] \in Nat
           /\ Wrapped(report)[1] = Header /\ Wrapped(report)[FrameSize] = Footer
           /\ Wrapped(report)[2] = report[1]
           /\ \A i \in (RecvSize + 2)..(FrameSize - 1) : Wrapped(report)[i] = 0
           /\ \A i \in 2..FrameSize : Wrapped(report)[i] = Header => HasHeader(report)
<1> USE Sizes, ReportIs
<1>1. \A i \in 2..(RecvSize + 1) : i - 1 \in 1..RecvSize
  OBVIOUS
<1>2. \A i \in 1..FrameSize : Wrapped(report)[i] = CASE i = 1 -> Header
          [] i = FrameSize -> Footer
          [] i \in 2..(RecvSize + 1) -> report[i - 1]
          [] OTHER -> 0
  BY DEF Wrapped
<1>3. \A i \in 1..FrameSize : Wrapped(report)[i] \in Nat
  BY <1>1, <1>2
<1>4. Wrapped(report) \in Seq(Nat) /\ Len(Wrapped(report)) = FrameSize
  <2>1. Wrapped(report) \in [1..FrameSize -> Nat]
    BY <1>3 DEF Wrapped
  <2>2. QED
    BY <2>1
<1>5. /\ Wrapped(report)[1] = Header /\ Wrapped(report)[FrameSize] = Footer
      /\ Wrapped(report)[2] = report[1]
  <2>1. 1 \in 1..FrameSize /\ FrameSize \in 1..FrameSize /\ 2 \in 1..FrameSize
        /\ 2 # FrameSize /\ FrameSize # 1 /\ 2 \in 2..(RecvSize + 1) /\ 2 - 1 = 1 /\ 2 # 1
    OBVIOUS
  <2>2. Wrapped(report)[1] = Header
    BY <1>2, <2>1
  <2>3. Wrapped(report)[FrameSize] = Footer
    BY <1>2, <2>1
  <2>4. Wrapped(report)[2] = report[2 - 1]
    BY <1>2, <2>1
  <2>5. QED
    BY <2>1, <2>2, <2>3, <2>4
<1>6. ASSUME NEW i \in (RecvSize + 2)..(FrameSize - 1)
      PROVE  Wrapped(report)[i] = 0
  <2>1. i \in 1..FrameSize /\ i # 1 /\ i # FrameSize /\ i \notin 2..(RecvSize + 1)
    OBVIOUS
  <2>2. QED
    BY <1>2, <2>1
<1>7. ASSUME NEW i \in 2..FrameSize, Wrapped(report)[i] = Header
      PROVE  HasHeader(report)
  <2>1. i \in 1..FrameSize /\ i # 1
    OBVIOUS
  <2>2. i \in 2..(RecvSize + 1) /\ report[i - 1] = Header
    BY <1>2, <1>7, <2>1
  <2>3. QED
    BY <1>1, <2>2 DEF HasHeader
<1>8. QED
  BY <1>3, <1>4, <1>5, <1>6, <1>7

\* The bytes of an exchange.
LEMMA ChunkIs ==
    ASSUME sending \in Reports, NEW report \in Reports, phase \in Phases
    PROVE  /\ Chunk(report) \in Seq(Nat) /\ Len(Chunk(report)) = FrameSize
           /\ \A i \in 1..phase : Chunk(report)[i] = Wrapped(sending)[FrameSize - phase + i]
           /\ \A i \in (phase + 1)..FrameSize : Chunk(report)[i] = Wrapped(report)[i - phase]
<1> DEFINE m == FrameSize - phase
           rest == SubSeq(Wrapped(sending), m + 1, FrameSize)
           start == SubSeq(Wrapped(report), 1, m)
<1>1. phase \in Nat /\ phase < FrameSize /\ FrameSize \in Nat /\ m \in Nat /\ m >= 1
      /\ m + phase = FrameSize
  BY Sizes
<1>2. /\ rest \in Seq(Nat) /\ Len(rest) = phase
      /\ \A i \in 1..phase : rest[i] = Wrapped(sending)[m + i]
  <2>1. \A i \in (m + 1)..FrameSize : Wrapped(sending)[i] \in Nat
    BY <1>1, WrappedIs
  <2>2. /\ rest \in Seq(Nat) /\ Len(rest) = IF m + 1 <= FrameSize THEN FrameSize - (m + 1) + 1 ELSE 0
        /\ \A i \in 1..(FrameSize - (m + 1) + 1) : rest[i] = Wrapped(sending)[(m + 1) + i - 1]
    <3> HIDE DEF m
    <3>1. m + 1 \in Int /\ FrameSize \in Int
      BY <1>1
    <3>2. QED
      BY <2>1, <3>1, SubSeqProperties
  <2> HIDE DEF m, rest
  <2>3. FrameSize - (m + 1) + 1 = phase /\ (m + 1 <= FrameSize <=> phase # 0)
    BY <1>1
  <2>4. \A i \in 1..phase : (m + 1) + i - 1 = m + i
    BY <1>1
  <2>5. Len(rest) = phase
    BY <1>1, <2>2, <2>3
  <2>6. QED
    BY <2>2, <2>3, <2>4, <2>5
<1>3. /\ start \in Seq(Nat) /\ Len(start) = m
      /\ \A i \in 1..m : start[i] = Wrapped(report)[i]
  <2>1. \A i \in 1..m : Wrapped(report)[i] \in Nat
    BY <1>1, WrappedIs
  <2> HIDE DEF m
  <2>2. /\ start \in Seq(Nat) /\ Len(start) = IF 1 <= m THEN m - 1 + 1 ELSE 0
        /\ \A i \in 1..(m - 1 + 1) : start[i] = Wrapped(report)[1 + i - 1]
    <3>1. 1 \in Int /\ m \in Int
      BY <1>1
    <3>2. QED
      BY <2>1, <3>1, SubSeqProperties
  <2> HIDE DEF start
  <2>3. m - 1 + 1 = m /\ \A i \in 1..m : 1 + i - 1 = i
    BY <1>1
  <2>4. QED
    BY <1>1, <2>2, <2>3
<1>4. Chunk(report) = rest \o start
  BY DEF Chunk
<1> HIDE DEF m, rest, start
<1>5. /\ rest \o start \in Seq(Nat) /\ Len(rest \o start) = Len(rest) + Len(start)
      /\ \A i \in 1 .. Len(rest) + Len(start) : (rest \o start)[i] =
                     IF i <= Len(rest) THEN rest[i] ELSE start[i - Len(rest)]
  BY <1>2, <1>3, ConcatProperties
<1>6. Len(rest) + Len(start) = FrameSize
  BY <1>1, <1>2, <1>3
<1>7. ASSUME NEW i \in 1..phase
      PROVE  Chunk(report)[i] = Wrapped(sending)[m + i]
  <2>1. i \in 1..FrameSize /\ i <= Len(rest)
    BY <1>1, <1>2
  <2>2. QED
    BY <1>2, <1>4, <1>5, <1>6, <2>1
<1>8. ASSUME NEW i \in (phase + 1)..FrameSize
      PROVE  Chunk(report)[i] = Wrapped(report)[i - phase]
  <2>1. i \in 1..FrameSize /\ ~(i <= Len(rest)) /\ i - phase \in 1..m
    BY <1>1, <1>2
  <2>2. QED
    BY <1>2, <1>3, <1>4, <1>5, <1>6, <2>1
<1>9. QED
  BY <1>4, <1>5, <1>6, <1>7, <1>8 DEF m

\* pushSPIRxWindow keeps the last chunk and appends the new one.
LEMMA PushedIs ==
    ASSUME NEW w \in Seq(Nat), Len(w) = 2 * FrameSize,
           NEW chunk \in Seq(Nat), Len(chunk) = FrameSize
    PROVE  /\ Pushed(w, chunk) \in Seq(Nat) /\ Len(Pushed(w, chunk)) = 2 * FrameSize
           /\ \A i \in 1..FrameSize : /\ Pushed(w, chunk)[i] = w[FrameSize + i]
                                      /\ Pushed(w, chunk)[FrameSize + i] = chunk[i]
<1> DEFINE last == SubSeq(w, FrameSize + 1, 2 * FrameSize)
<1>1. FrameSize \in Nat /\ FrameSize >= 1
  BY Sizes
<1>2. /\ last \in Seq(Nat) /\ Len(last) = FrameSize
      /\ \A i \in 1..FrameSize : last[i] = w[FrameSize + i]
  <2>1. \A i \in (FrameSize + 1)..(2 * FrameSize) : w[i] \in Nat
    BY <1>1
  <2>2. /\ last \in Seq(Nat)
        /\ Len(last) = IF FrameSize + 1 <= 2 * FrameSize THEN 2 * FrameSize - (FrameSize + 1) + 1 ELSE 0
        /\ \A i \in 1..(2 * FrameSize - (FrameSize + 1) + 1) : last[i] = w[(FrameSize + 1) + i - 1]
    <3> DEFINE a == FrameSize + 1
               b == 2 * FrameSize
    <3>1. a \in Int /\ b \in Int /\ \A i \in a..b : w[i] \in Nat
      BY <1>1, <2>1
    <3> HIDE DEF a, b
    <3>2. /\ SubSeq(w, a, b) \in Seq(Nat)
          /\ Len(SubSeq(w, a, b)) = IF a <= b THEN b - a + 1 ELSE 0
          /\ \A i \in 1..(b - a + 1) : SubSeq(w, a, b)[i] = w[a + i - 1]
      BY <3>1, SubSeqProperties
    <3>3. QED
      BY <3>2 DEF a, b
  <2> HIDE DEF last
  <2>3. /\ FrameSize + 1 <= 2 * FrameSize /\ 2 * FrameSize - (FrameSize + 1) + 1 = FrameSize
        /\ \A i \in 1..FrameSize : (FrameSize + 1) + i - 1 = FrameSize + i
    BY <1>1
  <2>4. QED
    BY <2>2, <2>3
<1>3. Pushed(w, chunk) = last \o chunk
  BY DEF Pushed
<1> HIDE DEF last
<1>4. /\ last \o chunk \in Seq(Nat) /\ Len(last \o chunk) = Len(last) + Len(chunk)
      /\ \A i \in 1 .. Len(last) + Len(chunk) : (last \o chunk)[i] =
                     IF i <= Len(last) THEN last[i] ELSE chunk[i - Len(last)]
  BY <1>2, ConcatProperties
<1>5. Len(last) + Len(chunk) = 2 * FrameSize
  BY <1>1, <1>2
<1>6. ASSUME NEW i \in 1..FrameSize
      PROVE  (last \o chunk)[i] = last[i] /\ (last \o chunk)[FrameSize + i] = chunk[i]
  <2>1. /\ i \in 1..(2 * FrameSize) /\ i <= Len(last) /\ FrameSize + i \in 1..(2 * FrameSize)
        /\ ~(FrameSize + i <= Len(last)) /\ FrameSize + i - Len(last) = i
    BY <1>1, <1>2
  <2>2. (last \o chunk)[i] = last[i]
    BY <1>4, <1>5, <2>1
  <2>3. \A j \in 1..(2 * FrameSize) :
           ~(j <= Len(last)) => (last \o chunk)[j] = chunk[j - Len(last)]
    BY <1>4, <1>5
  <2>4. PICK j \in 1..(2 * FrameSize) : j = FrameSize + i
    BY <2>1
  <2>5. ~(j <= Len(last)) /\ j - Len(last) = i
    BY <2>1, <2>4
  <2>6. (last \o chunk)[j] = chunk[i]
    BY <2>3, <2>5
  <2>7. QED
    BY <2>2, <2>4, <2>6
<1>7. QED
  BY <1>2, <1>3, <1>4, <1>5, <1>6

\* A packet of the serial line.
LEMMA PacketIs ==
    ASSUME NEW report \in Reports
    PROVE  /\ Packet(report) \in Seq(Nat) /\ Len(Packet(report)) = RecvSize + 2
           /\ Packet(report)[1] = Header /\ Packet(report)[2] = report[1]
           /\ \A i \in 2..(RecvSize + 2) : Packet(report)[i] = Header => HasHeader(report)
<1> DEFINE front == <<Header>> \o report
<1> USE Sizes
<1>1. report \in Seq(Nat) /\ Len(report) = RecvSize
  BY ReportIs
<1>2. <<Header>> \in Seq(Nat) /\ Len(<<Header>>) = 1 /\ <<Header>>[1] = Header
  OBVIOUS
<1>3. <<Footer>> \in Seq(Nat) /\ Len(<<Footer>>) = 1 /\ <<Footer>>[1] = Footer
  OBVIOUS
<1>4. /\ front \in Seq(Nat) /\ Len(front) = 1 + RecvSize
      /\ \A i \in 1..(1 + RecvSize) : front[i] = IF i <= 1 THEN <<Header>>[i] ELSE report[i - 1]
  BY <1>1, <1>2, ConcatProperties
<1>5. Packet(report) = front \o <<Footer>>
  BY DEF Packet
<1> HIDE DEF front
<1>6. /\ Packet(report) \in Seq(Nat) /\ Len(Packet(report)) = RecvSize + 2
      /\ \A i \in 1..(RecvSize + 2) :
            Packet(report)[i] = IF i <= 1 + RecvSize THEN front[i] ELSE <<Footer>>[i - (1 + RecvSize)]
  <2>1. /\ front \o <<Footer>> \in Seq(Nat)
        /\ Len(front \o <<Footer>>) = Len(front) + Len(<<Footer>>)
        /\ \A i \in 1..(Len(front) + Len(<<Footer>>)) :
              (front \o <<Footer>>)[i] = IF i <= Len(front) THEN front[i]
                                         ELSE <<Footer>>[i - Len(front)]
    BY <1>3, <1>4, ConcatProperties
  <2>2. Len(front) + Len(<<Footer>>) = RecvSize + 2 /\ Len(front) = 1 + RecvSize
    BY <1>3, <1>4
  <2>3. QED
    BY <1>5, <2>1, <2>2
<1>7. Packet(report)[1] = Header
  <2>1. 1 \in 1..(RecvSize + 2) /\ 1 <= 1 + RecvSize /\ 1 \in 1..(1 + RecvSize) /\ 1 <= 1
    OBVIOUS
  <2>2. Packet(report)[1] = front[1]
    BY <1>6, <2>1
  <2>3. QED
    BY <1>2, <1>4, <2>1, <2>2
<1>8. \A i \in 2..(RecvSize + 1) : Packet(report)[i] = report[i - 1]
  <2> TAKE i \in 2..(RecvSize + 1)
  <2>1. i \in 1..(RecvSize + 2) /\ i <= 1 + RecvSize /\ i \in 1..(1 + RecvSize) /\ ~(i <= 1)
    OBVIOUS
  <2>2. Packet(report)[i] = front[i]
    BY <1>6, <2>1
  <2>3. QED
    BY <1>4, <2>1, <2>2
<1>9. Packet(report)[RecvSize + 2] = Footer
  <2>1. /\ RecvSize + 2 \in 1..(RecvSize + 2) /\ ~(RecvSize + 2 <= 1 + RecvSize)
        /\ RecvSize + 2 - (1 + RecvSize) = 1
    OBVIOUS
  <2>2. \A i \in 1..(RecvSize + 2) : ~(i <= 1 + RecvSize) =>
           Packet(report)[i] = <<Footer>>[i - (1 + RecvSize)]
    BY <1>6
  <2>3. QED
    BY <1>3, <2>1, <2>2
<1>10. Packet(report)[2] = report[1]
  <2>1. 2 \in 2..(RecvSize + 1) /\ 2 - 1 = 1
    OBVIOUS
  <2>2. Packet(report)[2] = report[2 - 1]
    BY <1>8, <2>1
  <2>3. QED
    BY <2>1, <2>2
<1>11. ASSUME NEW i \in 2..(RecvSize + 2), Packet(report)[i] = Header
       PROVE  HasHeader(report)
  <2>1. i # RecvSize + 2
    BY <1>9, <1>11
  <2>2. i \in 2..(RecvSize + 1) /\ i - 1 \in 1..RecvSize
    BY <2>1
  <2>3. report[i - 1] = Header
    BY <1>8, <1>11, <2>2
  <2>4. QED
    BY <2>2, <2>3 DEF HasHeader
<1>12. QED
  BY <1>6, <1>7, <1>10, <1>11

\* The serial line: two packets and more.
Stream(r1, r2) == Packet(r1) \o Packet(r2) \o Packet(r2)

LEMMA StreamIs ==
    ASSUME NEW r1 \in Reports, NEW r2 \in Reports, NEW stream, stream = Stream(r1, r2)
    PROVE  /\ Len(stream) = 3 * (RecvSize + 2)
           /\ \A i \in 1..(RecvSize + 2) : /\ stream[i] = Packet(r1)[i]
                                           /\ stream[RecvSize + 2 + i] = Packet(r2)[i]
<1> DEFINE P == RecvSize + 2
           two == Packet(r1) \o Packet(r2)
<1>1. P \in Nat /\ P >= 3
  BY Sizes
<1>2. /\ Packet(r1) \in Seq(Nat) /\ Len(Packet(r1)) = P
      /\ Packet(r2) \in Seq(Nat) /\ Len(Packet(r2)) = P
  BY PacketIs
<1> HIDE DEF P
<1>3. /\ two \in Seq(Nat) /\ Len(two) = P + P
      /\ \A i \in 1..(P + P) : two[i] = IF i <= P THEN Packet(r1)[i] ELSE Packet(r2)[i - P]
  <2>1. /\ two \in Seq(Nat) /\ Len(two) = Len(Packet(r1)) + Len(Packet(r2))
        /\ \A i \in 1..(Len(Packet(r1)) + Len(Packet(r2))) :
              two[i] = IF i <= Len(Packet(r1)) THEN Packet(r1)[i]
                       ELSE Packet(r2)[i - Len(Packet(r1))]
    BY <1>2, ConcatProperties
  <2> HIDE DEF two
  <2>2. QED
    BY <1>2, <2>1
<1> HIDE DEF two
<1>4. /\ Len(two \o Packet(r2)) = P + P + P
      /\ \A i \in 1..(P + P + P) :
            (two \o Packet(r2))[i] = IF i <= P + P THEN two[i] ELSE Packet(r2)[i - (P + P)]
  <2>1. /\ Len(two \o Packet(r2)) = Len(two) + Len(Packet(r2))
        /\ \A i \in 1..(Len(two) + Len(Packet(r2))) :
              (two \o Packet(r2))[i] = IF i <= Len(two) THEN two[i]
                                       ELSE Packet(r2)[i - Len(two)]
    BY <1>2, <1>3, ConcatProperties
  <2>2. QED
    BY <1>2, <1>3, <2>1
<1>5. stream = two \o Packet(r2)
  BY DEF two, Stream
<1>6. \A i \in 1..(P + P) : stream[i] = two[i]
  <2> TAKE i \in 1..(P + P)
  <2>1. i \in 1..(P + P + P) /\ i <= P + P
    BY <1>1
  <2>2. QED
    BY <1>4, <1>5, <2>1
<1>7. ASSUME NEW i \in 1..P
      PROVE  stream[i] = Packet(r1)[i] /\ stream[P + i] = Packet(r2)[i]
  <2>1. i \in 1..(P + P) /\ i <= P /\ P + i \in 1..(P + P) /\ ~(P + i <= P) /\ P + i - P = i
    BY <1>1
  <2>2. stream[i] = Packet(r1)[i]
    BY <1>3, <1>6, <2>1
  <2>3. \A j \in 1..(P + P) : ~(j <= P) => stream[j] = Packet(r2)[j - P]
    BY <1>3, <1>6
  <2>4. PICK j \in 1..(P + P) : j = P + i
    BY <2>1
  <2>5. ~(j <= P) /\ j - P = i
    BY <1>1, <2>4
  <2>6. stream[j] = Packet(r2)[i]
    BY <2>3, <2>5
  <2>7. QED
    BY <2>2, <2>4, <2>6
<1>8. P + P + P = 3 * (RecvSize + 2)
  BY Sizes DEF P
<1>9. QED
  BY <1>4, <1>5, <1>7, <1>8 DEF P

\* Without a header byte in the reports, the serial line takes a whole report.
LEMMA CleanSerial ==
    ASSUME NEW r1 \in Reports, NEW r2 \in Reports, ~HasHeader(r1), ~HasHeader(r2),
           NEW start \in 0..(RecvSize + 2),
           NEW stream, stream = Stream(r1, r2)
    PROVE  At(stream, Preamble(stream, start) + 1) \in {r1[1], r2[1]}
<1> DEFINE P == RecvSize + 2
           Found(i) == At(stream, i) = Header /\ \A j \in start..(i - 1) : At(stream, j) # Header
<1>1. P \in Nat /\ P >= 3 /\ start \in 0..P
  BY Sizes
<1>2. Preamble(stream, start) = CHOOSE i \in start..(Len(stream) - 1) : Found(i)
  BY DEF Preamble
<1>3. /\ Len(stream) = 3 * P
      /\ \A i \in 1..P : stream[i] = Packet(r1)[i] /\ stream[P + i] = Packet(r2)[i]
  <2>1. /\ Len(stream) = 3 * (RecvSize + 2)
        /\ \A i \in 1..(RecvSize + 2) : /\ stream[i] = Packet(r1)[i]
                                        /\ stream[RecvSize + 2 + i] = Packet(r2)[i]
    <3> HIDE DEF P
    <3>1. QED
      BY StreamIs
  <2>2. QED
    BY <2>1, Zenon
<1>4. /\ Packet(r1)[1] = Header /\ Packet(r1)[2] = r1[1]
      /\ Packet(r2)[1] = Header /\ Packet(r2)[2] = r2[1]
      /\ \A i \in 2..P : Packet(r1)[i] # Header
  BY PacketIs
<1> HIDE DEF P
<1>5. \A i \in Nat : At(stream, i) = stream[i + 1]
  BY DEF At
<1>6. At(stream, 0) = Header /\ At(stream, 1) = r1[1]
  <2>1. 1 \in 1..P /\ 2 \in 1..P /\ 0 + 1 = 1 /\ 1 + 1 = 2
    BY <1>1
  <2>2. At(stream, 0) = stream[1] /\ At(stream, 1) = stream[2]
    BY <2>1 DEF At
  <2>3. QED
    BY <1>3, <1>4, <2>1, <2>2, Zenon
<1>7. At(stream, P) = Header /\ At(stream, P + 1) = r2[1]
  <2>1. 1 \in 1..P /\ 2 \in 1..P /\ P \in Nat /\ P + 1 \in Nat /\ (P + 1) + 1 = P + 2
    BY <1>1
  <2>2. At(stream, P) = stream[P + 1] /\ At(stream, P + 1) = stream[P + 2]
    BY <2>1 DEF At
  <2>3. QED
    BY <1>3, <1>4, <2>1, <2>2, Zenon
<1>8. ASSUME NEW i \in 1..(P - 1)
      PROVE  At(stream, i) # Header
  <2>1. i + 1 \in 2..P /\ i + 1 \in 1..P /\ i \in Nat
    BY <1>1
  <2>2. QED
    BY <1>3, <1>4, <1>5, <2>1
<1>9. CASE start = 0
  <2>1. 0 \in start..(Len(stream) - 1) /\ Found(0)
    BY <1>1, <1>3, <1>6, <1>9
  <2>2. ASSUME NEW i \in start..(Len(stream) - 1), Found(i)
        PROVE  i = 0
    BY <1>6, <1>9, <2>2
  <2>3. Preamble(stream, start) = 0
    <3> HIDE DEF Found
    <3>1. QED
      BY <1>2, <2>1, <2>2
  <2>4. QED
    BY <1>6, <2>3
<1>10. CASE start # 0
  <2>1. P \in start..(Len(stream) - 1) /\ \A j \in start..(P - 1) : j \in 1..(P - 1)
    BY <1>1, <1>3, <1>10
  <2>2. Found(P)
    BY <1>7, <1>8, <2>1
  <2>3. ASSUME NEW i \in start..(Len(stream) - 1), Found(i)
        PROVE  i = P
    <3>1. i \in Nat
      BY <1>1, <2>3
    <3>2. ~(i < P)
      <4> SUFFICES ASSUME i < P
                   PROVE  FALSE
        OBVIOUS
      <4>1. i \in 1..(P - 1)
        BY <1>1, <1>10, <2>3
      <4>2. QED
        BY <1>8, <2>3, <4>1
    <3>3. ~(i > P)
      <4> SUFFICES ASSUME i > P
                   PROVE  FALSE
        OBVIOUS
      <4>1. P \in start..(i - 1)
        BY <1>1, <3>1
      <4>2. QED
        BY <1>7, <2>3, <4>1
    <3>4. QED
      BY <1>1, <3>1, <3>2, <3>3
  <2>4. Preamble(stream, start) = P
    <3> HIDE DEF Found
    <3>1. QED
      BY <1>2, <2>1, <2>2, <2>3
  <2>5. QED
    BY <1>7, <2>4
<1>11. QED
  BY <1>9, <1>10

-----------------------------------------------------------------------------
\* What the link knows of the window's last chunk: it is silent, or it is in
\* step with the board, so that a frame of the report the board is sending
\* starts at its phase, and a header before that is a byte of a report.
LastChunk(i) == window[FrameSize + i]

Silent == \A i \in 1..FrameSize : LastChunk(i) = 0

InStep ==
    /\ \A i \in 1..phase : LastChunk(i) = Header => headerSent
    /\ \A i \in (phase + 1)..FrameSize : LastChunk(i) = Wrapped(sending)[i - phase]

LinkTypes ==
    /\ sending \in Reports /\ phase \in Phases
    /\ window \in Seq(Nat) /\ Len(window) = 2 * FrameSize

\* The history of the board's reports is complete.
Remembered ==
    /\ sending[1] < Low => lowSent
    /\ HasHeader(sending) => headerSent

LinkInv ==
    /\ LinkTypes
    /\ Remembered
    /\ Silent \/ (board = "rock5a" /\ InStep)

\* Chunks are sequences of numbers.
LEMMA SilenceIs ==
    /\ Silence \in Seq(Nat) /\ Len(Silence) = FrameSize
    /\ \A i \in 1..FrameSize : Silence[i] = 0
<1>1. FrameSize \in Nat
  BY Sizes
<1>2. Silence \in [1..FrameSize -> Nat]
  BY DEF Silence
<1>3. Silence \in Seq(Nat) /\ Len(Silence) = FrameSize
  BY <1>1, <1>2
<1>4. QED
  BY <1>3 DEF Silence

\* The window after an exchange, byte by byte.
LEMMA WindowAfter ==
    ASSUME LinkTypes, NEW chunk \in Seq(Nat), Len(chunk) = FrameSize,
           window' = Pushed(window, chunk)
    PROVE  /\ window' \in Seq(Nat) /\ Len(window') = 2 * FrameSize
           /\ \A i \in 1..FrameSize : /\ window'[i] = LastChunk(i)
                                      /\ window'[FrameSize + i] = chunk[i]
BY PushedIs DEF LinkTypes, LastChunk

\* A report that is sent is remembered.
LEMMA SendsRemembers ==
    ASSUME Remembered, NEW report \in Reports, Sends(report)
    PROVE  /\ Remembered'
           /\ (lowSent => lowSent') /\ (headerSent => headerSent')
           /\ ~lowSent' => ~(sending[1] < Low) /\ ~(report[1] < Low)
           /\ ~headerSent' => ~headerSent /\ ~HasHeader(sending) /\ ~HasHeader(report)
BY DEF Remembered, Sends

\* The last chunk of an exchange is in step.
LEMMA SpiInStep ==
    ASSUME LinkInv, NEW report \in Reports, SpiCycle(report)
    PROVE  LinkInv'
<1>1. /\ board = "rock5a" /\ board' = board /\ window' = Pushed(window, Chunk(report))
      /\ Sends(report) /\ phase' = phase /\ sending' = report
  BY DEF SpiCycle, Sends
<1>2. LinkTypes /\ Remembered /\ phase \in Phases /\ sending \in Reports
  BY DEF LinkInv, LinkTypes
<1>3. Remembered' /\ (HasHeader(sending) => headerSent')
  BY <1>1, <1>2, SendsRemembers
<1>4. /\ Chunk(report) \in Seq(Nat) /\ Len(Chunk(report)) = FrameSize
      /\ \A i \in 1..phase : Chunk(report)[i] = Wrapped(sending)[FrameSize - phase + i]
      /\ \A i \in (phase + 1)..FrameSize : Chunk(report)[i] = Wrapped(report)[i - phase]
  BY <1>2, ChunkIs
<1>5. /\ window' \in Seq(Nat) /\ Len(window') = 2 * FrameSize
      /\ \A i \in 1..FrameSize : LastChunk(i)' = Chunk(report)[i]
  BY <1>1, <1>2, <1>4, WindowAfter DEF LastChunk
<1>6. phase \in Nat /\ FrameSize \in Nat /\ phase < FrameSize
  BY <1>2, Sizes
<1>7. LinkTypes'
  BY <1>1, <1>2, <1>5 DEF LinkTypes
<1>8. ASSUME NEW i \in 1..phase, LastChunk(i)' = Header
      PROVE  headerSent'
  <2>1. i \in 1..FrameSize /\ FrameSize - phase + i \in 2..FrameSize
    BY <1>6
  <2>2. Wrapped(sending)[FrameSize - phase + i] = Header
    BY <1>4, <1>5, <1>8, <2>1
  <2>3. HasHeader(sending)
    BY <1>2, <2>1, <2>2, WrappedIs
  <2>4. QED
    BY <1>3, <2>3
<1>9. ASSUME NEW i \in (phase + 1)..FrameSize
      PROVE  LastChunk(i)' = Wrapped(report)[i - phase]
  <2>1. i \in 1..FrameSize
    BY <1>6
  <2>2. QED
    BY <1>4, <1>5, <2>1
<1>10. InStep'
  BY <1>1, <1>8, <1>9 DEF InStep
<1>11. QED
  BY <1>1, <1>3, <1>7, <1>10 DEF LinkInv

\* After an exchange the board did not answer the last chunk is silent.
LEMMA SilenceStays ==
    ASSUME LinkInv, SpiSilence
    PROVE  LinkInv'
<1>1. /\ window' = Pushed(window, Silence) /\ phase' \in Phases
      /\ UNCHANGED <<sending, lowSent, headerSent>>
  BY DEF SpiSilence
<1>2. LinkTypes /\ Remembered
  BY DEF LinkInv
<1>3. /\ window' \in Seq(Nat) /\ Len(window') = 2 * FrameSize
      /\ \A i \in 1..FrameSize : LastChunk(i)' = 0
  BY <1>1, <1>2, SilenceIs, WindowAfter DEF LastChunk
<1>4. LinkTypes' /\ Remembered'
  BY <1>1, <1>2, <1>3 DEF LinkTypes, Remembered
<1>5. Silent'
  BY <1>3 DEF Silent
<1>6. QED
  BY <1>4, <1>5 DEF LinkInv

\* A header in the last chunk is where the board's frame begins, unless a report
\* has one.
LEMMA HeaderAtPhase ==
    ASSUME LinkInv, NEW i \in 1..FrameSize, LastChunk(i) = Header
    PROVE  /\ InStep
           /\ ~headerSent => i = phase + 1
           /\ i > phase + 1 => HasHeader(sending)
<1>1. /\ phase \in Nat /\ FrameSize \in Nat /\ phase < FrameSize /\ Header # 0
      /\ sending \in Reports
  BY Sizes DEF LinkInv, LinkTypes
<1>2. InStep
  BY <1>1 DEF LinkInv, Silent
<1>3. ASSUME i > phase + 1
      PROVE  HasHeader(sending)
  <2>1. i \in (phase + 1)..FrameSize /\ i - phase \in 2..FrameSize
    BY <1>1, <1>3
  <2>2. Wrapped(sending)[i - phase] = Header
    BY <1>2, <2>1 DEF InStep
  <2>3. QED
    BY <1>1, <2>1, <2>2, WrappedIs
<1>4. ASSUME i < phase + 1
      PROVE  headerSent
  <2>1. i \in 1..phase
    BY <1>1, <1>4
  <2>2. QED
    BY <1>2, <2>1 DEF InStep
<1>5. ASSUME ~headerSent
      PROVE  i = phase + 1
  <2>1. ~HasHeader(sending)
    BY <1>5 DEF LinkInv, Remembered
  <2>2. ~(i > phase + 1) /\ ~(i < phase + 1)
    BY <1>3, <1>4, <1>5, <2>1
  <2>3. QED
    BY <1>1, <2>2
<1>6. QED
  BY <1>2, <1>3, <1>5

\* Without a header byte in the reports, the SPI takes whole reports only.
LEMMA CleanSpi ==
    ASSUME LinkInv, NEW report \in Reports, SpiCycle(report), ~headerSent',
           NEW o \in ValidOffsets(window')
    PROVE  VoltAt(window', o) \in {sending[1], report[1]}
<1>1. LinkTypes /\ Remembered /\ phase \in Phases /\ sending \in Reports
  BY DEF LinkInv, LinkTypes
<1>2. window' = Pushed(window, Chunk(report)) /\ Sends(report)
  BY DEF SpiCycle
<1>3. ~headerSent /\ ~HasHeader(sending)
  BY <1>1, <1>2, SendsRemembers
<1>4. /\ Chunk(report) \in Seq(Nat) /\ Len(Chunk(report)) = FrameSize
      /\ \A i \in 1..phase : Chunk(report)[i] = Wrapped(sending)[FrameSize - phase + i]
      /\ \A i \in (phase + 1)..FrameSize : Chunk(report)[i] = Wrapped(report)[i - phase]
  BY <1>1, ChunkIs
<1>5. /\ Len(window') = 2 * FrameSize
      /\ \A i \in 1..FrameSize : /\ window'[i] = LastChunk(i)
                                 /\ window'[FrameSize + i] = Chunk(report)[i]
  BY <1>1, <1>2, <1>4, WindowAfter
<1>6. phase \in Nat /\ FrameSize \in Nat /\ phase < FrameSize /\ FrameSize > 3
  BY <1>1, Sizes
<1>7. o \in 0..FrameSize /\ window'[o + 1] = Header
  BY <1>5, <1>6 DEF ValidOffsets, ValidAt, At
<1>8. VoltAt(window', o) = window'[o + 2]
  <2>1. (o + 1) + 1 = o + 2
    BY <1>6, <1>7
  <2>2. VoltAt(window', o) = window'[(o + 1) + 1]
    BY DEF VoltAt, At
  <2>3. QED
    BY <2>1, <2>2
<1>9. /\ Wrapped(sending)[2] = sending[1] /\ Wrapped(report)[2] = report[1]
      /\ \A i \in 2..FrameSize : Wrapped(sending)[i] # Header
  BY <1>1, <1>3, WrappedIs
<1>10. CASE o < FrameSize
  <2>1. o + 1 \in 1..FrameSize
    BY <1>6, <1>7, <1>10
  <2>2. LastChunk(o + 1) = Header
    BY <1>5, <1>7, <2>1
  <2>3. InStep /\ o + 1 = phase + 1
    BY <1>3, <2>1, <2>2, HeaderAtPhase
  <2>4. o = phase
    BY <1>6, <1>7, <2>3
  <2>5. CASE phase + 2 <= FrameSize
    <3>1. PICK j \in (phase + 1)..FrameSize : j = o + 2
      BY <1>6, <2>4, <2>5
    <3>2. j \in 1..FrameSize /\ j - phase = 2
      BY <1>6, <2>4, <3>1
    <3>3. LastChunk(j) = Wrapped(sending)[2]
      BY <2>3, <3>1, <3>2 DEF InStep
    <3>4. window'[j] = LastChunk(j)
      BY <1>5, <3>2
    <3>5. QED
      BY <1>8, <1>9, <3>1, <3>3, <3>4
  <2>6. CASE ~(phase + 2 <= FrameSize)
    <3>1. /\ phase + 2 = FrameSize + 1 /\ 1 \in 1..phase /\ 1 \in 1..FrameSize
          /\ FrameSize - phase + 1 = 2
      BY <1>6, <2>6
    <3>2. window'[FrameSize + 1] = Chunk(report)[1]
      BY <1>5, <3>1
    <3>3. Chunk(report)[1] = Wrapped(sending)[FrameSize - phase + 1]
      BY <1>4, <3>1
    <3>4. QED
      BY <1>8, <1>9, <2>4, <3>1, <3>2, <3>3
  <2>7. QED
    BY <2>5, <2>6
<1>11. CASE ~(o < FrameSize)
  <2>1. o = FrameSize /\ 1 \in 1..FrameSize /\ 2 \in 1..FrameSize
    BY <1>6, <1>7, <1>11
  <2>2. Chunk(report)[1] = Header
    BY <1>5, <1>7, <2>1
  <2>3. phase = 0
    <3> SUFFICES ASSUME phase # 0
                 PROVE  FALSE
      OBVIOUS
    <3>1. 1 \in 1..phase /\ FrameSize - phase + 1 \in 2..FrameSize
      BY <1>6
    <3>2. Wrapped(sending)[FrameSize - phase + 1] = Header
      BY <1>4, <2>2, <3>1
    <3>3. QED
      BY <1>9, <3>1, <3>2
  <2>4. 2 \in (phase + 1)..FrameSize /\ 2 - phase = 2
    BY <1>6, <2>3
  <2>5. Chunk(report)[2] = Wrapped(report)[2 - phase]
    BY <1>4, <2>4
  <2>6. window'[FrameSize + 2] = Chunk(report)[2]
    BY <1>5, <2>1
  <2>7. QED
    BY <1>8, <1>9, <2>1, <2>4, <2>5, <2>6
<1>12. QED
  BY <1>10, <1>11

\* ... also when the board falls silent: what it left begins a frame only if it
\* is one.
LEMMA CleanSilence ==
    ASSUME LinkInv, SpiSilence, ~headerSent', NEW o \in ValidOffsets(window')
    PROVE  VoltAt(window', o) = sending[1]
<1>1. LinkTypes /\ phase \in Phases /\ sending \in Reports
  BY DEF LinkInv, LinkTypes
<1>2. window' = Pushed(window, Silence) /\ ~headerSent
  BY DEF SpiSilence
<1>3. /\ Len(window') = 2 * FrameSize
      /\ \A i \in 1..FrameSize : window'[i] = LastChunk(i) /\ window'[FrameSize + i] = 0
  BY <1>1, <1>2, SilenceIs, WindowAfter
<1>4. /\ phase \in Nat /\ FrameSize \in Nat /\ phase < FrameSize /\ FrameSize > 3
      /\ Header # 0 /\ Footer # 0
  BY <1>1, Sizes
<1>5. o \in 0..FrameSize /\ window'[o + 1] = Header /\ window'[o + FrameSize - 1 + 1] = Footer
  BY <1>3, <1>4 DEF ValidOffsets, ValidAt, At
<1>6. o = 0
  <2> SUFFICES ASSUME o # 0
               PROVE  FALSE
    OBVIOUS
  <2>1. o \in 1..FrameSize /\ o + FrameSize - 1 + 1 = FrameSize + o
    BY <1>4, <1>5
  <2>2. window'[FrameSize + o] = 0
    BY <1>3, <2>1
  <2>3. QED
    BY <1>4, <1>5, <2>1, <2>2
<1>7. 1 \in 1..FrameSize /\ 2 \in 1..FrameSize /\ o + 1 = 1 /\ (o + 1) + 1 = 2
  BY <1>4, <1>6
<1>8. LastChunk(1) = Header
  BY <1>3, <1>5, <1>7
<1>9. InStep /\ 1 = phase + 1
  BY <1>2, <1>7, <1>8, HeaderAtPhase
<1>10. 2 \in (phase + 1)..FrameSize /\ 2 - phase = 2
  BY <1>4, <1>9
<1>11. LastChunk(2) = Wrapped(sending)[2 - phase]
  BY <1>9, <1>10 DEF InStep
<1>12. VoltAt(window', o) = window'[(o + 1) + 1]
  BY DEF VoltAt, At
<1>13. window'[2] = LastChunk(2) /\ Wrapped(sending)[2] = sending[1]
  BY <1>1, <1>3, <1>7, WrappedIs
<1>14. QED
  BY <1>7, <1>10, <1>11, <1>12, <1>13

-----------------------------------------------------------------------------
(***************************************************************************)
(* The error flag has a cause.  Without one, the voltage taken from a frame *)
(* is one that the board reported.                                          *)
(***************************************************************************)
Cause == lowSent \/ blind \/ headerSent

Sound(v) == v \in Nat /\ v >= Low

CauseInv ==
    /\ ErrorHasCause
    /\ heard /\ ~Cause => Sound(volt)

\* The battery check of a voltage that is not low raises no error.
LEMMA SoundRaisesNothing ==
    ASSUME NEW v, Sound(v)
    PROVE  CheckBatteryStatus(v) = error
<1>1. ~(v < Critical) /\ ~(v >= Critical /\ v < Low)
  BY DEF Sound
<1>2. QED
  BY <1>1 DEF CheckBatteryStatus

\* A report is remembered when it is low, so without a cause it is sound.
LEMMA ReportsAreSound ==
    ASSUME Remembered, sending \in Reports, NEW report \in Reports, Sends(report), ~lowSent'
    PROVE  Sound(sending[1]) /\ Sound(report[1])
<1>1. 1 \in 1..RecvSize
  BY Sizes
<1>2. sending[1] \in Nat /\ report[1] \in Nat
  BY <1>1, ReportIs
<1>3. ~(sending[1] < Low) /\ ~(report[1] < Low)
  BY SendsRemembers
<1>4. QED
  BY <1>2, <1>3 DEF Sound

\* A voltage that is taken keeps CauseInv when it is sound or has a cause.
LEMMA TakenCause ==
    ASSUME CauseInv, NEW v, Taken(v), ~Cause' => Sound(v) /\ ~Cause
    PROVE  CauseInv'
<1>1. volt' = v /\ error' = CheckBatteryStatus(v)
  BY DEF Taken
<1>2. ASSUME ~Cause'
      PROVE  error' = "none" /\ Sound(volt')
  <2>1. error = "none"
    BY <1>2 DEF CauseInv, ErrorHasCause, Cause
  <2>2. QED
    BY <1>1, <1>2, <2>1, SoundRaisesNothing
<1>3. QED
  BY <1>2 DEF CauseInv, ErrorHasCause, Cause

\* A link cycle keeps CauseInv.
LEMMA ReceivedCause ==
    ASSUME CauseInv, Received, Len(window') = 2 * FrameSize,
           (lowSent => lowSent') /\ (headerSent => headerSent'),
           ~lowSent' /\ ~headerSent' =>
              \A o \in ValidOffsets(window') : Sound(VoltAt(window', o))
    PROVE  CauseInv'
<1>1. CASE ValidOffsets(window') # {}
  <2> DEFINE v == VoltAt(window', FindFrame(window'))
  <2>1. Taken(v)
    BY <1>1 DEF Received
  <2>2. FindFrame(window') \in ValidOffsets(window')
    BY <1>1, FoundFrame
  <2>3. ~lowSent' /\ ~headerSent' => Sound(v)
    BY <2>2
  <2>4. blind' = blind
    BY <2>1 DEF Taken
  <2>5. ~Cause' => Sound(v) /\ ~Cause
    <3> HIDE DEF v
    <3>1. QED
      BY <2>3, <2>4 DEF Cause
  <2> HIDE DEF v
  <2>6. QED
    BY <2>1, <2>5, TakenCause
<1>2. CASE ValidOffsets(window') = {}
  <2>1. /\ error' = CheckBatteryStatus(volt) /\ blind' = (blind \/ ~heard)
        /\ UNCHANGED <<volt, heard>>
    BY <1>2 DEF Received
  <2>2. ASSUME ~Cause'
        PROVE  heard /\ ~Cause
    BY <2>1, <2>2 DEF Cause
  <2>3. ASSUME ~Cause'
        PROVE  error' = "none" /\ Sound(volt')
    <3>1. error = "none" /\ Sound(volt)
      BY <2>2, <2>3 DEF CauseInv, ErrorHasCause, Cause
    <3>2. QED
      BY <2>1, <3>1, SoundRaisesNothing
  <2>4. QED
    BY <2>3 DEF CauseInv, ErrorHasCause, Cause
<1>3. QED
  BY <1>1, <1>2

\* Cycles of either link keep CauseInv.
LEMMA LinkCause ==
    ASSUME LinkInv, CauseInv,
           \/ \E report \in Reports : SpiCycle(report) \/ SerialCycle(report)
           \/ SpiSilence
    PROVE  CauseInv'
<1>a. Remembered /\ sending \in Reports
  BY DEF LinkInv, LinkTypes
<1>1. ASSUME NEW report \in Reports, SpiCycle(report)
      PROVE  CauseInv'
  <2>1. Received /\ Sends(report)
    BY <1>1 DEF SpiCycle
  <2>2. (lowSent => lowSent') /\ (headerSent => headerSent')
    BY <1>a, <2>1, SendsRemembers
  <2>3. ASSUME ~lowSent', ~headerSent', NEW o \in ValidOffsets(window')
        PROVE  Sound(VoltAt(window', o))
    <3>1. VoltAt(window', o) \in {sending[1], report[1]}
      BY <1>1, <2>3, CleanSpi
    <3>2. Sound(sending[1]) /\ Sound(report[1])
      BY <1>a, <2>1, <2>3, ReportsAreSound
    <3>3. QED
      BY <3>1, <3>2
  <2>4. Len(window') = 2 * FrameSize
    BY <1>1, SpiInStep DEF LinkInv, LinkTypes
  <2>5. QED
    BY <2>1, <2>2, <2>3, <2>4, ReceivedCause
<1>2. ASSUME NEW report \in Reports, SerialCycle(report)
      PROVE  CauseInv'
  <2>1. Sends(report)
    BY <1>2 DEF SerialCycle
  <2>2. PICK start \in 0..(RecvSize + 2) :
           Taken(At(Stream(sending, report), Preamble(Stream(sending, report), start) + 1))
    BY <1>2 DEF SerialCycle, Stream
  <2> DEFINE v == At(Stream(sending, report), Preamble(Stream(sending, report), start) + 1)
  <2>3. /\ (lowSent => lowSent') /\ (headerSent => headerSent')
        /\ ~headerSent' => ~HasHeader(sending) /\ ~HasHeader(report)
    BY <1>a, <2>1, SendsRemembers
  <2>4. ASSUME ~Cause'
        PROVE  Sound(v)
    <3>1. ~HasHeader(sending) /\ ~HasHeader(report) /\ ~lowSent'
      BY <2>3, <2>4 DEF Cause
    <3>2. v \in {sending[1], report[1]}
      BY <1>a, <3>1, CleanSerial
    <3>3. Sound(sending[1]) /\ Sound(report[1])
      BY <1>a, <2>1, <3>1, ReportsAreSound
    <3>4. QED
      BY <3>2, <3>3
  <2> HIDE DEF v
  <2>5. Taken(v)
    BY <2>2 DEF v
  <2>6. blind' = blind
    BY <2>5 DEF Taken
  <2>7. ~Cause' => Sound(v) /\ ~Cause
    BY <2>3, <2>4, <2>6 DEF Cause
  <2>8. QED
    BY <2>5, <2>7, TakenCause
<1>3. CASE SpiSilence
  <2>1. Received /\ UNCHANGED <<lowSent, headerSent>>
    BY <1>3 DEF SpiSilence
  <2>2. ASSUME ~lowSent', ~headerSent', NEW o \in ValidOffsets(window')
        PROVE  Sound(VoltAt(window', o))
    <3>1. VoltAt(window', o) = sending[1]
      BY <1>3, <2>2, CleanSilence
    <3>2. sending[1] \in Nat
      <4>1. 1 \in 1..RecvSize
        BY Sizes
      <4>2. QED
        BY <1>a, <4>1, ReportIs
    <3>3. ~(sending[1] < Low)
      BY <1>a, <2>1, <2>2 DEF Remembered
    <3>4. QED
      BY <3>1, <3>2, <3>3 DEF Sound
  <2>3. Len(window') = 2 * FrameSize
    BY <1>3, SilenceStays DEF LinkInv, LinkTypes
  <2>4. QED
    BY <2>1, <2>2, <2>3, ReceivedCause
<1>4. QED
  BY <1>1, <1>2, <1>3

\* RunGPIO and the API leave the link alone.
LEMMA GpioLeavesLink ==
    ASSUME RunGPIO \/ HandleIgnoreBatteryLow
    PROVE  UNCHANGED <<board, linkVars>>
BY DEF RunGPIO, BackToLook, Look, AlarmRound, CriticalOver, KeepBeeping, Dismiss, GpioOnly,
   HandleIgnoreBatteryLow

\* What the link knows is an invariant.
LEMMA LinkInvariant == Spec => []LinkInv
<1>1. Init => LinkInv
  <2> SUFFICES ASSUME Init
               PROVE  LinkInv
    OBVIOUS
  <2>1. window = Silence \o Silence /\ sending \in Reports /\ phase \in Phases
    BY DEF Init
  <2>2. /\ Silence \o Silence \in Seq(Nat)
        /\ Len(Silence \o Silence) = Len(Silence) + Len(Silence)
        /\ \A i \in 1..(Len(Silence) + Len(Silence)) :
              (Silence \o Silence)[i] = IF i <= Len(Silence) THEN Silence[i]
                                        ELSE Silence[i - Len(Silence)]
    BY SilenceIs, ConcatProperties
  <2>3. FrameSize \in Nat /\ Len(Silence) = FrameSize /\ FrameSize + FrameSize = 2 * FrameSize
    BY Sizes, SilenceIs
  <2>4. window \in Seq(Nat) /\ Len(window) = 2 * FrameSize
    BY <2>1, <2>2, <2>3
  <2>5. ASSUME NEW i \in 1..FrameSize
        PROVE  LastChunk(i) = 0
    <3>1. PICK j \in 1..(FrameSize + FrameSize) : j = FrameSize + i
      BY <2>3
    <3>2. ~(j <= FrameSize) /\ j - FrameSize = i
      BY <2>3, <3>1
    <3>3. window[j] = Silence[i]
      BY <2>1, <2>2, <2>3, <3>2
    <3>4. QED
      BY <3>1, <3>3, SilenceIs DEF LastChunk
  <2>6. Remembered
    BY DEF Init, Remembered
  <2>7. QED
    BY <2>1, <2>4, <2>5, <2>6 DEF LinkInv, LinkTypes, Silent
<1>2. LinkInv /\ [Next]_vars => LinkInv'
  <2> SUFFICES ASSUME LinkInv, [Next]_vars
               PROVE  LinkInv'
    OBVIOUS
  <2>1. ASSUME NEW report \in Reports, SpiCycle(report)
        PROVE  LinkInv'
    BY <2>1, SpiInStep
  <2>2. ASSUME NEW report \in Reports, SerialCycle(report)
        PROVE  LinkInv'
    <3>1. /\ board = "pi4" /\ Sends(report) /\ sending' = report
          /\ UNCHANGED <<board, phase, window>>
      BY <2>2 DEF SerialCycle, Sends
    <3>2. Silent'
      BY <3>1 DEF LinkInv, Silent, LastChunk
    <3>3. Remembered'
      BY <3>1, SendsRemembers DEF LinkInv
    <3>4. QED
      BY <3>1, <3>2, <3>3 DEF LinkInv, LinkTypes
  <2>3. CASE SpiSilence
    BY <2>3, SilenceStays
  <2>4. CASE UNCHANGED <<board, linkVars>>
    BY <2>4 DEF linkVars, LinkInv, LinkTypes, Remembered, Silent, InStep, LastChunk
  <2>5. CASE UNCHANGED vars
    BY <2>4, <2>5 DEF vars
  <2>6. QED
    BY <2>1, <2>2, <2>3, <2>4, <2>5, GpioLeavesLink DEF Next
<1>3. QED
  BY <1>1, <1>2, PTL DEF Spec

\* The error flag, which nothing clears, is raised by a low voltage the board
\* reported, by the initial 0 before the first frame, or by a byte that looks
\* like a header: for any reports, phases, sizes of a frame and thresholds.
THEOREM ErrorsHaveCauses == Spec => []ErrorHasCause
<1>1. Init => CauseInv
  BY DEF Init, CauseInv, ErrorHasCause
<1>2. LinkInv /\ CauseInv /\ [Next]_vars => CauseInv'
  <2> SUFFICES ASSUME LinkInv, CauseInv, [Next]_vars
               PROVE  CauseInv'
    OBVIOUS
  <2>1. CASE UNCHANGED linkVars
    BY <2>1 DEF linkVars, CauseInv, ErrorHasCause, Cause
  <2>2. CASE UNCHANGED vars
    BY <2>1, <2>2 DEF vars
  <2>3. QED
    BY <2>1, <2>2, LinkCause, GpioLeavesLink DEF Next
<1>3. CauseInv => ErrorHasCause
  BY DEF CauseInv
<1>4. QED
  BY <1>1, <1>2, <1>3, LinkInvariant, PTL DEF Spec

-----------------------------------------------------------------------------
(***************************************************************************)
(* The newest report is taken.                                              *)
(***************************************************************************)
\* A frame that lies in the window is found there.
LEMMA WholeFrameIsValid ==
    ASSUME NEW buf, Len(buf) = 2 * FrameSize, NEW report \in Reports,
           NEW o \in 0..FrameSize,
           \A k \in 1..FrameSize : buf[o + k] = Wrapped(report)[k]
    PROVE  o \in ValidOffsets(buf) /\ VoltAt(buf, o) = report[1]
<1>1. /\ FrameSize \in Nat /\ FrameSize > RecvSize + 2 /\ RecvSize \in Nat /\ RecvSize >= 1
  BY Sizes
<1>2. 1 \in 1..FrameSize /\ 2 \in 1..FrameSize /\ FrameSize \in 1..FrameSize
  BY <1>1
<1>3. buf[o + 1] = Header /\ buf[o + FrameSize] = Footer /\ buf[o + 2] = report[1]
  BY <1>2, WrappedIs
<1>4. At(buf, o) = Header
  BY <1>3 DEF At
<1>5. At(buf, o + FrameSize - 1) = Footer
  <2>1. (o + FrameSize - 1) + 1 = o + FrameSize
    BY <1>1
  <2>2. QED
    BY <1>3, <2>1 DEF At
<1>6. VoltAt(buf, o) = report[1]
  <2>1. (o + 1) + 1 = o + 2
    BY <1>1
  <2>2. QED
    BY <1>3, <2>1 DEF VoltAt, At
<1>7. ASSUME NEW i \in (o + 1 + RecvSize)..(o + FrameSize - 2)
      PROVE  At(buf, i) = 0
  <2>1. PICK k \in (RecvSize + 2)..(FrameSize - 1) : o + k = i + 1
    <3>1. i + 1 - o \in (RecvSize + 2)..(FrameSize - 1) /\ o + (i + 1 - o) = i + 1
      BY <1>1
    <3>2. QED
      BY <3>1
  <2>2. k \in 1..FrameSize
    BY <1>1
  <2>3. buf[o + k] = Wrapped(report)[k]
    BY <2>2
  <2>4. Wrapped(report)[k] = 0
    BY WrappedIs
  <2>5. QED
    BY <2>1, <2>3, <2>4 DEF At
<1>8. o \in 0..(Len(buf) - FrameSize) /\ o + FrameSize <= Len(buf)
  BY <1>1
<1>9. ValidAt(buf, o)
  BY <1>4, <1>5, <1>7, <1>8 DEF ValidAt
<1>10. QED
  BY <1>6, <1>8, <1>9 DEF ValidOffsets

\* The last valid frame is the one whose voltage is taken.
LEMMA LastFrameIsTaken ==
    ASSUME Received, Len(window') = 2 * FrameSize, NEW o \in ValidOffsets(window'),
           \A later \in ValidOffsets(window') : later <= o
    PROVE  volt' = VoltAt(window', o)
<1>1. ValidOffsets(window') # {} /\ ValidOffsets(window') \subseteq Int
  BY DEF ValidOffsets
<1>2. /\ FindFrame(window') \in ValidOffsets(window')
      /\ o <= FindFrame(window')
  BY <1>1, FoundFrame
<1>3. FindFrame(window') = o
  BY <1>1, <1>2
<1>4. QED
  BY <1>1, <1>3 DEF Received, Taken

\* In step with the board's frames an SPI cycle takes the report it has received,
\* out of step the one before, when its frame is whole and has no header byte:
\* for any reports, phases and sizes of a frame.
THEOREM NewestIsTaken == Spec => NewestTaken
<1> DEFINE Newest ==
      \A report \in Reports :
         SpiCycle(report) =>
            \/ volt' = (IF phase = 0 THEN report[1] ELSE sending[1])
            \/ phase > 0 /\ (window'[phase + 1] # Header \/ HasHeader(sending))
<1>1. LinkInv => Newest
  <2> SUFFICES ASSUME LinkInv, NEW report \in Reports, SpiCycle(report),
                      ~(phase > 0 /\ (window'[phase + 1] # Header \/ HasHeader(sending)))
               PROVE  volt' = (IF phase = 0 THEN report[1] ELSE sending[1])
    OBVIOUS
  <2>1. /\ LinkTypes /\ phase \in Phases /\ sending \in Reports
        /\ window' = Pushed(window, Chunk(report)) /\ Received
    BY DEF LinkInv, LinkTypes, SpiCycle
  <2>2. /\ phase \in Nat /\ FrameSize \in Nat /\ phase < FrameSize /\ FrameSize > 3
    BY <2>1, Sizes
  <2>3. /\ Chunk(report) \in Seq(Nat) /\ Len(Chunk(report)) = FrameSize
        /\ \A i \in 1..phase : Chunk(report)[i] = Wrapped(sending)[FrameSize - phase + i]
        /\ \A i \in (phase + 1)..FrameSize : Chunk(report)[i] = Wrapped(report)[i - phase]
    BY <2>1, ChunkIs
  <2>4. /\ Len(window') = 2 * FrameSize
        /\ \A i \in 1..FrameSize : /\ window'[i] = LastChunk(i)
                                   /\ window'[FrameSize + i] = Chunk(report)[i]
    BY <2>1, <2>3, WindowAfter
  <2>5. ValidOffsets(window') \subseteq 0..FrameSize
    BY <2>2, <2>4 DEF ValidOffsets
  <2>6. CASE phase = 0
    <3>1. ASSUME NEW k \in 1..FrameSize
          PROVE  window'[FrameSize + k] = Wrapped(report)[k]
      <4>1. k \in (phase + 1)..FrameSize /\ k - phase = k
        BY <2>2, <2>6
      <4>2. Chunk(report)[k] = Wrapped(report)[k - phase]
        BY <2>3, <4>1
      <4>3. QED
        BY <2>4, <4>1, <4>2
    <3>2. FrameSize \in 0..FrameSize
      BY <2>2
    <3>3. FrameSize \in ValidOffsets(window') /\ VoltAt(window', FrameSize) = report[1]
      BY <2>4, <3>1, <3>2, WholeFrameIsValid
    <3>4. \A later \in ValidOffsets(window') : later <= FrameSize
      BY <2>2, <2>5
    <3>5. volt' = report[1]
      BY <2>1, <2>4, <3>3, <3>4, LastFrameIsTaken
    <3>6. QED
      BY <2>6, <3>5
  <2>7. CASE phase # 0
    <3>1. phase > 0 /\ phase + 1 \in 1..FrameSize /\ phase \in 0..FrameSize
      BY <2>2, <2>7
    <3>2. window'[phase + 1] = Header /\ ~HasHeader(sending)
      BY <3>1
    <3>3. InStep
      BY <2>4, <3>1, <3>2, HeaderAtPhase
    <3>4. ASSUME NEW k \in 1..FrameSize
          PROVE  window'[phase + k] = Wrapped(sending)[k]
      <4>1. CASE phase + k <= FrameSize
        <5>1. PICK j \in (phase + 1)..FrameSize : j = phase + k
          BY <2>2, <4>1
        <5>2. j \in 1..FrameSize /\ j - phase = k
          BY <2>2, <5>1
        <5>3. LastChunk(j) = Wrapped(sending)[k]
          BY <3>3, <5>1, <5>2 DEF InStep
        <5>4. QED
          BY <2>4, <5>1, <5>2, <5>3
      <4>2. CASE ~(phase + k <= FrameSize)
        <5>1. PICK j \in 1..phase : FrameSize + j = phase + k
          <6>1. phase + k - FrameSize \in 1..phase
                /\ FrameSize + (phase + k - FrameSize) = phase + k
            BY <2>2, <4>2
          <6>2. QED
            BY <6>1
        <5>2. j \in 1..FrameSize /\ FrameSize - phase + j = k
          BY <2>2, <5>1
        <5>3. Chunk(report)[j] = Wrapped(sending)[k]
          BY <2>3, <5>1, <5>2
        <5>4. window'[FrameSize + j] = Chunk(report)[j]
          BY <2>4, <5>2
        <5>5. QED
          BY <5>1, <5>3, <5>4
      <4>3. QED
        BY <4>1, <4>2
    <3>5. phase \in ValidOffsets(window') /\ VoltAt(window', phase) = sending[1]
      BY <2>1, <2>4, <3>1, <3>4, WholeFrameIsValid
    <3>6. ASSUME NEW later \in ValidOffsets(window')
          PROVE  later <= phase
      <4> SUFFICES ASSUME ~(later <= phase)
                   PROVE  FALSE
        OBVIOUS
      <4>1. later \in 0..FrameSize /\ window'[later + 1] = Header
        BY <2>5 DEF ValidOffsets, ValidAt, At
      <4>2. PICK k \in 2..FrameSize : phase + k = later + 1
        <5>1. later + 1 - phase \in 2..FrameSize /\ phase + (later + 1 - phase) = later + 1
          BY <2>2, <3>1, <4>1
        <5>2. QED
          BY <5>1
      <4>3. k \in 1..FrameSize
        BY <2>2
      <4>4. Wrapped(sending)[k] = Header
        BY <3>4, <4>1, <4>2, <4>3
      <4>5. QED
        BY <2>1, <3>2, <4>4, WrappedIs
    <3>7. volt' = sending[1]
      BY <2>1, <2>4, <3>5, <3>6, LastFrameIsTaken
    <3>8. QED
      BY <2>7, <3>7
  <2>8. QED
    BY <2>6, <2>7
<1>2. LinkInv => [Newest]_vars
  BY <1>1
<1>3. NewestTaken <=> [][Newest]_vars
  BY PTL DEF NewestTaken
<1> HIDE DEF Newest
<1>4. QED
  BY <1>2, <1>3, LinkInvariant, PTL

=================================================================================
