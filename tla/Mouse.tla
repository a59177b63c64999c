-------------------------------- MODULE Mouse --------------------------------
(***************************************************************************)
(* drivers/mouse.c: packets of three bytes, reassembled by the interrupt   *)
(* handler.  The 8042 holds one byte and takes the next one when that has  *)
(* been read, also while the handler is in its loop; then the handler      *)
(* reads it too, or comes again for it.                                    *)
(***************************************************************************)
EXTENDS Integers, Sequences

CONSTANTS
    Moves,          \* what a good packet says
    Overflows       \* packets with an overflow bit
ASSUME MouseAssumption == Moves \cap Overflows = {} /\ "none" \notin Moves

VARIABLES
    wire,           \* the bytes the mouse is still to send, and what its last
                    \* good packet said
    port,           \* the 8042: its byte, or none; whether IRQ 12 is pending
    mouse           \* mouse_cycle, mouse_byte, mouse_state, and whether the
                    \* handler is in its loop
mouse_vars == <<wire, port, mouse>>

Packet == Moves \cup Overflows
\* The bytes of a packet; the first of them has the bit the driver checks.
Bytes(packet) == [i \in 1 .. 3 |-> [of |-> packet, first |-> i = 1]]
Nothing == <<>>

MouseInit ==
    /\ wire = [bytes |-> <<>>, last |-> "none"]
    /\ port = [byte |-> Nothing, irq |-> FALSE]
    /\ mouse = [cycle |-> 0, byte |-> [i \in 0 .. 2 |-> Nothing], state |-> "none",
                handling |-> FALSE]

-----------------------------------------------------------------------------

\* The hand or a finger.
Move(packet) ==
    /\ wire.bytes = <<>>
    /\ wire' = [bytes |-> Bytes(packet),
                last |-> IF packet \in Moves THEN packet ELSE wire.last]
    /\ UNCHANGED <<port, mouse>>

\* The next byte gets into the 8042.
Arrive ==
    /\ wire.bytes # <<>> /\ port.byte = Nothing
    /\ port' = [byte |-> <<Head(wire.bytes)>>, irq |-> TRUE]
    /\ wire' = [wire EXCEPT !.bytes = Tail(@)]
    /\ UNCHANGED mouse

\* The interrupt: set_IRQ_EOI, then the loop.
MouseInterrupt ==
    /\ port.irq /\ ~mouse.handling
    /\ port' = [port EXCEPT !.irq = FALSE]
    /\ mouse' = [mouse EXCEPT !.handling = TRUE]
    /\ UNCHANGED wire

\* What the driver makes of a byte.  A first byte without its bit leaves the
\* handler; a packet that overflowed leaves mouse_cycle where it is.
Taken(m, byte) ==
    CASE m.cycle = 0 /\ ~byte.first -> [m EXCEPT !.byte[0] = byte, !.handling = FALSE]
      [] (m.cycle = 0 /\ byte.first) \/ m.cycle = 1 ->
             [m EXCEPT !.byte[m.cycle] = byte, !.cycle = @ + 1]
      [] m.cycle = 2 /\ m.byte[0].of \in Overflows -> [m EXCEPT !.byte[2] = byte]
      [] OTHER -> [m EXCEPT !.byte[2] = byte, !.state = m.byte[0].of, !.cycle = 0]

ReadByte ==
    /\ mouse.handling /\ port.byte # Nothing
    /\ mouse' = Taken(mouse, port.byte[1])
    /\ port' = [port EXCEPT !.byte = Nothing]
    /\ UNCHANGED wire

\* Nothing to read: the registered events are executed, and the handler returns.
Return ==
    /\ mouse.handling /\ port.byte = Nothing
    /\ mouse' = [mouse EXCEPT !.handling = FALSE]
    /\ UNCHANGED <<wire, port>>

MouseNext ==
    \/ \E packet \in Packet : Move(packet)
    \/ Arrive \/ MouseInterrupt \/ ReadByte \/ Return

MouseSpec == MouseInit /\ [][MouseNext]_mouse_vars

-----------------------------------------------------------------------------

MouseTypeOK ==
    /\ mouse.cycle \in 0 .. 2 /\ mouse.state \in Moves \cup {"none"}
    /\ mouse.handling \in BOOLEAN /\ port.irq \in BOOLEAN

\* When no byte is on its way, the state that get_mouse_state copies is that of
\* the last good packet, also when packets to be discarded came before it.
StateIsLastPacket ==
    wire.bytes = <<>> /\ port.byte = Nothing => mouse.state = wire.last
=============================================================================
