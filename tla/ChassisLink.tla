------------------------------ MODULE ChassisLink ------------------------------
(***************************************************************************)
(* The chassis driver and the chassis at the other end of the line.        *)
(*                                                                         *)
(* The driver's timer writes commands and heartbeats, reads what has       *)
(* arrived, works out a fault code and reports it on /chassis/state.  A    *)
(* line may arrive in two pieces, a write may not get through; velocities  *)
(* are reduced to standing (0) and driving (1), stamps to their ages.      *)
(***************************************************************************)
EXTENDS Integers, Sequences

CONSTANTS
    CommandTimeout,      \* command_timeout_ms, in steps
    HeartbeatTimeout,    \* heartbeat_timeout_ms
    MaxBuffer,           \* max_buffer_bytes, in pieces of a line
    MaxWire,             \* bound: the pieces under way to the driver
    Kinds,               \* the packets the chassis sends
    ChassisFaults,       \* the fault codes it reports in its state packets
    Commands,            \* the speeds that are commanded
    WriteOutcomes        \* "sent", "dropped" (EAGAIN, or on the way), "failed" (errno)

Codes == {"NONE", "CMD_TIMEOUT", "HEARTBEAT_TIMEOUT", "BACKEND_DISCONNECTED",
          "MALFORMED_PACKET", "ESTOP_ACTIVE"}

ASSUME ChassisAssumption ==
    /\ CommandTimeout \in Nat /\ HeartbeatTimeout \in Nat
    /\ MaxBuffer \in Nat \ {0} /\ MaxWire \in Nat \ {0}
    /\ Commands \subseteq {0, 1}
    /\ Kinds \subseteq {"odometry", "heartbeat", "state"}
    /\ WriteOutcomes \subseteq {"sent", "dropped", "failed"}
    /\ ChassisFaults \subseteq Codes

VARIABLES
    received_command, command_age, command_timeout_active,
    local_fault_code,
    backend_open, connected,
    packet_age,              \* now - last_packet_stamp_
    adapter,                 \* ChassisSystemAdapter::state_
    text_stream,             \* pieces of an unfinished line
    rx,                      \* what is under way to the driver
    chassis,                 \* the chassis itself
    chassis_report           \* the last message on /chassis/state

driverVars == <<received_command, command_age, command_timeout_active,
                local_fault_code, backend_open, connected, packet_age>>
linkVars == <<driverVars, adapter, text_stream, rx, chassis, chassis_report>>

Speeds == {0, 1}
\* What a packet says of the chassis; only a state packet says it.
Packet == [kind : {"odometry", "heartbeat", "state"}, fault : Codes, estop : BOOLEAN]
NoPacket == [kind |-> "odometry", fault |-> "NONE", estop |-> FALSE]
Piece == [packet : Packet, part : {"whole", "head", "tail"}]

(***************************************************************************)
(* The variables hold values of their types; no buffer outgrows its bound. *)
(***************************************************************************)
ChassisTypeOK ==
    /\ received_command \in BOOLEAN
    /\ command_age \in 0..(CommandTimeout + 1)
    /\ command_timeout_active \in BOOLEAN
    /\ local_fault_code \in Codes
    /\ backend_open \in BOOLEAN /\ connected \in BOOLEAN
    /\ packet_age \in 0..(HeartbeatTimeout + 1)
    /\ adapter \in [fault : Codes, estop : BOOLEAN]
    /\ text_stream \in Seq(Piece) /\ Len(text_stream) <= MaxBuffer
    /\ rx \in Seq(Piece) /\ Len(rx) <= MaxWire
    /\ chassis \in [speed : Speeds, in_line : BOOLEAN]
    /\ chassis_report \in [connected : BOOLEAN, estop : BOOLEAN, fault : Codes]

\* OpenBackend in the constructor may fail; it is not tried again.
ChassisInit ==
    /\ backend_open \in BOOLEAN
    /\ received_command = FALSE /\ command_age = 0 /\ command_timeout_active = FALSE
    /\ local_fault_code = "NONE"
    /\ connected = FALSE
    /\ packet_age = 0
    /\ adapter = [fault |-> "NONE", estop |-> FALSE]
    /\ text_stream = <<>>
    /\ rx = <<>>
    /\ chassis = [speed |-> 0, in_line |-> FALSE]
    /\ chassis_report = [connected |-> FALSE, estop |-> FALSE, fault |-> "NONE"]

-----------------------------------------------------------------------------
(* Writing, and what the chassis makes of it (ReadCommands): the last      *)
(* command counts, a heartbeat changes nothing.                            *)

SendBytes(speed, outcome) ==
    chassis' = IF outcome = "sent" THEN [chassis EXCEPT !.speed = speed] ELSE chassis

\* What WriteBytes answers: EAGAIN counts as written.
Written(outcome) == outcome # "failed"

\* Fault: a command does not end the time out.
FaultyHandleCommand(speed, outcome) ==
    /\ command_age' = 0
    /\ received_command' = TRUE
    /\ IF backend_open THEN SendBytes(speed, outcome) ELSE UNCHANGED chassis
    /\ UNCHANGED <<command_timeout_active, local_fault_code, backend_open,
                   connected, packet_age, adapter, text_stream, rx, chassis_report>>

HandleCommand(speed, outcome) ==
    /\ command_age' = 0
    /\ received_command' = TRUE
    /\ command_timeout_active' = FALSE
    /\ IF backend_open
       THEN /\ SendBytes(speed, outcome)
            /\ local_fault_code' = IF Written(outcome) THEN "NONE" ELSE "BACKEND_DISCONNECTED"
       ELSE /\ local_fault_code' = "BACKEND_DISCONNECTED"
            /\ UNCHANGED chassis
    /\ UNCHANGED <<backend_open, connected, packet_age, adapter, text_stream, rx,
                   chassis_report>>

-----------------------------------------------------------------------------
(* Reading: the stream of lines and the packets in it. *)

\* A line is the pieces up to one that ends it.  It is a packet if it is whole.
ParsePacketLine(line) ==
    CASE Len(line) = 1 -> line[1].part = "whole"
      [] Len(line) = 2 -> line[1].part = "head" /\ line[2].part = "tail"
      [] OTHER -> FALSE

EmptyDrain == [buffer |-> <<>>, packets |-> <<>>, invalid |-> 0]

DrainPiece(drain, piece) ==
    LET line == Append(drain.buffer, piece)
    IN  CASE piece.part = "head" ->
                [drain EXCEPT !.buffer = line]
          [] piece.part # "head" /\ ParsePacketLine(line) ->
                [drain EXCEPT !.buffer = <<>>, !.packets = Append(@, line[1].packet)]
          [] piece.part # "head" /\ ~ParsePacketLine(line) ->
                [drain EXCEPT !.buffer = <<>>, !.invalid = @ + 1]

Drained(bytes) ==
    LET drain[i \in 0..Len(bytes)] ==
            IF i = 0 THEN EmptyDrain ELSE DrainPiece(drain[i - 1], bytes[i])
    IN  drain[Len(bytes)]

\* Append and DrainPackets: too much for the buffer empties it.
DrainPackets(buffer, pieces) ==
    LET bytes == buffer \o pieces
    IN  IF Len(bytes) > MaxBuffer
        THEN [EmptyDrain EXCEPT !.invalid = 1]
        ELSE Drained(bytes)

\* Fault: odometry ends an emergency stop.
FaultyApplyPacket(state, packet) ==
    IF packet.kind = "state"
    THEN [state EXCEPT !.fault = packet.fault, !.estop = packet.estop]
    ELSE [state EXCEPT !.fault = "NONE", !.estop = FALSE]

\* Odometry and heartbeats end the fault that a state packet reported.
ApplyPacket(state, packet) ==
    IF packet.kind = "state"
    THEN [state EXCEPT !.fault = packet.fault, !.estop = packet.estop]
    ELSE [state EXCEPT !.fault = "NONE"]

\* ReadBackendPackets: an invalid line counts after the packets it came with.
ReadBackendPackets(state, drain) ==
    LET applied[i \in 0..Len(drain.packets)] ==
            IF i = 0 THEN state ELSE ApplyPacket(applied[i - 1], drain.packets[i])
        last == applied[Len(drain.packets)]
    IN  IF drain.invalid > 0 THEN [last EXCEPT !.fault = "MALFORMED_PACKET"] ELSE last

-----------------------------------------------------------------------------
(* The timer of the driver. *)

CommandTimesOut ==
    received_command /\ ~command_timeout_active /\ command_age > CommandTimeout

\* Fault: a stop frame that fails is forgotten.
FaultyTimeoutCode(outcome) ==
    IF CommandTimesOut /\ Written(outcome) THEN "CMD_TIMEOUT" ELSE local_fault_code

\* The code after EnforceCommandTimeout.
TimeoutCode(outcome) ==
    IF ~CommandTimesOut THEN local_fault_code
    ELSE IF backend_open /\ ~Written(outcome) THEN "BACKEND_DISCONNECTED"
    ELSE "CMD_TIMEOUT"

EnforceCommandTimeout(outcome) ==
    /\ command_timeout_active' = (command_timeout_active \/ CommandTimesOut)
    /\ IF CommandTimesOut /\ backend_open THEN SendBytes(0, outcome) ELSE UNCHANGED chassis

\* Fault: a command time out is forgotten when nothing else is wrong.
FaultyFaultCode(before, state, alive, timed_out) ==
    CASE ~backend_open -> "BACKEND_DISCONNECTED"
      [] backend_open /\ ~alive -> "HEARTBEAT_TIMEOUT"
      [] backend_open /\ alive /\ state.estop -> "ESTOP_ACTIVE"
      [] backend_open /\ alive /\ ~state.estop -> state.fault

\* The end of ReadChassisSystem: while a command time out is active the code
\* before stays unless there is something worse.
FaultCode(before, state, alive, timed_out) ==
    CASE ~backend_open -> "BACKEND_DISCONNECTED"
      [] backend_open /\ ~alive -> "HEARTBEAT_TIMEOUT"
      [] backend_open /\ alive /\ state.estop -> "ESTOP_ACTIVE"
      [] backend_open /\ alive /\ ~state.estop /\ state.fault # "NONE" -> state.fault
      [] backend_open /\ alive /\ ~state.estop /\ state.fault = "NONE" ->
            IF timed_out THEN before ELSE "NONE"

\* The code after SendHeartbeatIfDue.
HeartbeatCode(due, outcome) ==
    IF due /\ backend_open /\ ~Written(outcome) THEN "BACKEND_DISCONNECTED"
                                                ELSE TimeoutCode(outcome)

\* Tick, which has read the first n pieces on the wire.
DriverTick(n, due, outcome) ==
    LET drain == IF backend_open THEN DrainPackets(text_stream, SubSeq(rx, 1, n))
                                 ELSE [EmptyDrain EXCEPT !.buffer = text_stream]
        state == ReadBackendPackets(adapter, drain)
        age == IF drain.packets # <<>> THEN 0 ELSE packet_age
        alive == backend_open /\ age <= HeartbeatTimeout
        code == FaultCode(HeartbeatCode(due, outcome), state, alive,
                          command_timeout_active \/ CommandTimesOut)
    IN  /\ n \in 0..Len(rx) /\ (n > 0 => backend_open)
        /\ EnforceCommandTimeout(outcome)
        /\ rx' = SubSeq(rx, n + 1, Len(rx))
        /\ text_stream' = drain.buffer
        /\ adapter' = state
        /\ packet_age' = age
        /\ connected' = alive
        /\ local_fault_code' = code
        /\ chassis_report' = [connected |-> alive, estop |-> state.estop,
                              fault |-> IF code # "NONE" THEN code ELSE state.fault]
        /\ UNCHANGED <<received_command, command_age, backend_open>>

\* One step of time passes for the driver.
LinkElapse ==
    /\ command_age' = IF command_age > CommandTimeout THEN command_age ELSE command_age + 1
    /\ packet_age' = IF packet_age > HeartbeatTimeout THEN packet_age ELSE packet_age + 1
    /\ UNCHANGED <<received_command, command_timeout_active, local_fault_code, backend_open,
                   connected, adapter, text_stream, rx, chassis, chassis_report>>

-----------------------------------------------------------------------------
(* The chassis, which sends as the simulator's timer does.  The simulator  *)
(* reports no fault; the fault and the emergency stop of a real chassis    *)
(* may change at any time, so a state packet reports any of them.          *)

StatePackets ==
    {packet \in Packet : packet.kind = "state" /\ packet.fault \in ChassisFaults}
\* What the chassis may say.
Packets == {[NoPacket EXCEPT !.kind = kind] : kind \in Kinds \ {"state"}}
               \cup IF "state" \in Kinds THEN StatePackets ELSE {}

Send(piece) ==
    /\ Len(rx) < MaxWire
    /\ rx' = Append(rx, piece)
    /\ UNCHANGED <<driverVars, adapter, text_stream, chassis_report>>

\* PublishPackets.  A line may arrive in two pieces.
PublishPackets(packet, part) ==
    /\ ~chassis.in_line
    /\ Send([packet |-> packet, part |-> part])
    /\ chassis' = [chassis EXCEPT !.in_line = (part = "head")]

RestOfLine ==
    /\ chassis.in_line
    /\ Send([packet |-> NoPacket, part |-> "tail"])
    /\ chassis' = [chassis EXCEPT !.in_line = FALSE]

\* Noise on the line takes the rest.
Noise ==
    /\ chassis.in_line
    /\ chassis' = [chassis EXCEPT !.in_line = FALSE]
    /\ UNCHANGED <<driverVars, adapter, text_stream, rx, chassis_report>>

CommandStep == \E speed \in Commands, outcome \in WriteOutcomes : HandleCommand(speed, outcome)
DriverStep ==
    \E n \in {0, Len(rx)}, due \in BOOLEAN, outcome \in WriteOutcomes :
        DriverTick(n, due, outcome)
\* Everything that has arrived is read.
ReadAll ==
    \E due \in BOOLEAN, outcome \in WriteOutcomes :
        DriverTick(IF backend_open THEN Len(rx) ELSE 0, due, outcome)
ChassisStep ==
    \/ \E packet \in Packets, part \in {"whole", "head"} : PublishPackets(packet, part)
    \/ RestOfLine
    \/ Noise

ChassisNext == CommandStep \/ DriverStep \/ LinkElapse \/ ChassisStep

ChassisSpec ==
    /\ ChassisInit
    /\ [][ChassisNext]_linkVars
    /\ WF_linkVars(ReadAll)
    /\ WF_linkVars(LinkElapse)

-----------------------------------------------------------------------------
(***************************************************************************)
(* An emergency stop that was reported ends only after the chassis has     *)
(* sent a state that says so: no odometry, heartbeat, cut line or reset of *)
(* the receive buffer ends it.                                             *)
(***************************************************************************)
Released(pieces) ==
    \E i \in DOMAIN pieces :
        pieces[i].packet.kind = "state" /\ ~pieces[i].packet.estop
EstopEndsByStatePacket ==
    [][ (chassis_report.estop /\ ~chassis_report'.estop)
            => Released(text_stream \o rx) ]_linkVars

(***************************************************************************)
(* The stop frame of a command time out is written once: when the write    *)
(* fails, or the frame is lost, the chassis drives on.  It never does so   *)
(* under a report without a fault, whatever is received meanwhile (the     *)
(* code is kept by the end of ReadChassisSystem while the time out lasts). *)
(***************************************************************************)
DrivingOnIsReported ==
    command_timeout_active /\ chassis.speed # 0 => chassis_report.fault # "NONE"

(***************************************************************************)
(* A gate that has fallen silent is seen in every report from then on,     *)
(* although the time out is detected only once and other faults, of the    *)
(* line and of the chassis, come and go over it (EnforceCommandTimeout and *)
(* the end of ReadChassisSystem).                                          *)
(***************************************************************************)
SilenceIsReported ==
    <>[](received_command /\ command_age > CommandTimeout)
        => <>[](chassis_report.fault # "NONE")

(***************************************************************************)
(* With a live link, commands that arrive in time and an adapter that      *)
(* holds no fault the report becomes healthy: no code of the past stays,   *)
(* neither one of the driver's own (a failed write, a time out) nor one    *)
(* that the chassis had reported.                                          *)
(***************************************************************************)
LinkIsGood ==
    /\ backend_open
    /\ packet_age <= HeartbeatTimeout
    /\ command_age <= CommandTimeout
    /\ adapter.fault = "NONE" /\ ~adapter.estop
GoodLinkReportsHealthy ==
    <>[]LinkIsGood
        => <>[](chassis_report = [connected |-> TRUE, estop |-> FALSE, fault |-> "NONE"])

=============================================================================
