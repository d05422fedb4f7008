--------------------------------- MODULE Framing ---------------------------------
(***************************************************************************)
(* How the robot finds the motor board's report in the bytes it receives:   *)
(*                                                                         *)
(*   rock5a   full duplex SPI: each cycle brings FrameSize bytes, cut from   *)
(*            the board's frames at any phase; a frame is looked for in the  *)
(*            last two chunks by its header, its padding and its footer;     *)
(*   pi4      a serial line: input is dropped, then a preamble is awaited    *)
(*            and the packet after it taken as it comes.                     *)
(*                                                                         *)
(* Header and preamble are the same byte, 0xFF, and a wheel that turns       *)
(* slowly backwards sends it too.  A buffer is a sequence, its offsets count *)
(* from 0.  A report is its RecvSize bytes, the voltage first.               *)
(***************************************************************************)
EXTENDS Integers, Sequences

CONSTANTS
    Header,    \* SPIFrameHeader, serialPreamble
    Footer,    \* SPIFrameFooter
    RecvSize,  \* SPIRecvSize: 11
    FrameSize  \* SPIFrameSize: 20

ASSUME FramingAssumption ==
    /\ Header \in Nat \ {0} /\ Footer \in Nat \ {0} /\ Header # Footer
    /\ RecvSize \in Nat \ {0} /\ FrameSize \in Nat /\ FrameSize > RecvSize + 2

At(buf, offset) == buf[offset + 1]

-----------------------------------------------------------------------------
\* The frame the board sends for a report.
Wrapped(report) ==
    [i \in 1..FrameSize |->
        CASE i = 1 -> Header
          [] i = FrameSize -> Footer
          [] i \in 2..(RecvSize + 1) -> report[i - 1]
          [] OTHER -> 0]

\* validateSPIFrameAt.
ValidAt(buf, offset) ==
    /\ offset + FrameSize <= Len(buf)
    /\ At(buf, offset) = Header
    /\ At(buf, offset + FrameSize - 1) = Footer
    /\ \A i \in (offset + 1 + RecvSize)..(offset + FrameSize - 2) : At(buf, i) = 0

ValidOffsets(buf) == {offset \in 0..(Len(buf) - FrameSize) : ValidAt(buf, offset)}

\* Mutant: the first valid frame.
FirstFrame(buf) ==
    CHOOSE offset \in ValidOffsets(buf) : \A o \in ValidOffsets(buf) : o >= offset

\* findSPIFrame: the last valid frame, where there is one.
FindFrame(buf) ==
    CHOOSE offset \in ValidOffsets(buf) : \A o \in ValidOffsets(buf) : o <= offset

\* pushSPIRxWindow.
Pushed(window, chunk) == SubSeq(window, FrameSize + 1, 2 * FrameSize) \o chunk

\* parseRecvBufAt.
VoltAt(buf, offset) == At(buf, offset + 1)

-----------------------------------------------------------------------------
\* A packet of the serial line: no padding, and a footer nobody checks.
Packet(report) == <<Header>> \o report \o <<Footer>>

\* waitForPreambleAndReceive: the first byte from start on that looks like the
\* preamble, wherever in a packet start falls.
Preamble(stream, start) ==
    CHOOSE i \in start..(Len(stream) - 1) :
       At(stream, i) = Header /\ \A j \in start..(i - 1) : At(stream, j) # Header

=============================================================================
