--------------------------- MODULE SafetyChain_proofs ---------------------------
(***************************************************************************)
(* Proofs about the two ends of the safety chain: what the localization    *)
(* monitor publishes to the gate, and what the chassis driver makes of the *)
(* line to the wheels.                                                     *)
(***************************************************************************)
EXTENDS SafetyChain, ChassisLink, WellFoundedInduction, SequenceTheorems, TLAPS

-----------------------------------------------------------------------------
(* The localization monitor. *)

(***************************************************************************)
(* A relocalization that is published has been requested, and is left by   *)
(* that request alone: the monitor has had a pose, and poses do not go.    *)
(***************************************************************************)
RelocalizationIsRequested ==
    published_health = "RECOVERING" => recovering_requested /\ has_amcl_pose

LEMMA TickRelocalizes ==
    ASSUME RelocalizationIsRequested, LocalizationTick
    PROVE  /\ RelocalizationIsRequested'
           /\ published_health = "RECOVERING" => published_health' \in {"RECOVERING", "RECOVERED"}
<1>1. CASE ~has_amcl_pose
  BY <1>1 DEF LocalizationTick, EvaluateHealth, RelocalizationIsRequested, Stable
<1>2. CASE has_amcl_pose /\ recovering_requested /\ ~Stable
  BY <1>2 DEF LocalizationTick, EvaluateHealth, RelocalizationIsRequested, signals
<1>3. CASE Stable
  BY <1>3 DEF LocalizationTick, EvaluateHealth, HandleStable, RelocalizationIsRequested, Stable
<1>4. CASE has_amcl_pose /\ ~recovering_requested /\ ~Stable
  <2>1. published_health' \in {"LOST", "UNSTABLE"}
    BY <1>4 DEF LocalizationTick, EvaluateHealth
  <2> QED BY <1>4, <2>1 DEF RelocalizationIsRequested
<1> QED BY <1>1, <1>2, <1>3, <1>4

LEMMA ChainRelocalizes ==
    ASSUME RelocalizationIsRequested, [ChainNext]_chainVars
    PROVE  /\ RelocalizationIsRequested'
           /\ published_health = "RECOVERING" => published_health' \in {"RECOVERING", "RECOVERED"}
<1>1. CASE LocalizationTick
  BY <1>1, TickRelocalizes
<1>2. CASE (\E level \in Levels : HandleAmclPose(level)) \/ HandleInitialPose \/ TfChanges
           \/ LocalizationElapse
  BY <1>2 DEF HandleAmclPose, HandleInitialPose, TfChanges, LocalizationElapse, signals,
              RelocalizationIsRequested
<1>3. CASE UNCHANGED monitorVars
  BY <1>3 DEF monitorVars, signals, RelocalizationIsRequested
<1> QED BY <1>1, <1>2, <1>3
        DEF ChainNext, MonitorStep, LocalizationNext, Deliver, GateStep, chainVars

(***************************************************************************)
(* A relocalization ends in RECOVERED, for every time limit of the monitor *)
(* (EvaluateHealth's cases in the order of the code's returns).            *)
(***************************************************************************)
THEOREM RelocalizationsEndRecovered == ChainSpec => RelocalizationEndsRecovered
<1>1. ChainInit => RelocalizationIsRequested
  BY DEF ChainInit, LocalizationInit, RelocalizationIsRequested
<1>2. RelocalizationIsRequested /\ [ChainNext]_chainVars => RelocalizationIsRequested'
  BY ChainRelocalizes
<1>3. RelocalizationIsRequested /\ [ChainNext]_chainVars
        => [published_health = "RECOVERING"
              => published_health' \in {"RECOVERING", "RECOVERED"}]_chainVars
  BY ChainRelocalizes
<1> QED BY <1>1, <1>2, <1>3, PTL DEF ChainSpec, RelocalizationEndsRecovered

-----------------------------------------------------------------------------
(* Steps along a sequence. *)

\* A set of numbers has a least one.
LEMMA LeastNumber ==
    ASSUME NEW S \in SUBSET Nat, S # {}
    PROVE  \E k \in S : \A j \in S : k <= j
<1>1. PICK k \in S : \A j \in S : ~(<<j, k>> \in OpToRel(<, Nat))
  BY NatLessThanWellFounded, WFMin, Zenon
<1>2. ASSUME NEW j \in S PROVE k <= j
  <2>1. j \in Nat /\ k \in Nat
    BY <1>1
  <2>2. ~(j < k)
    <3>1. j < k => <<j, k>> \in OpToRel(<, Nat)
      BY <2>1 DEF OpToRel
    <3> QED
      BY <3>1, <1>1
  <2> QED
    BY <2>1, <2>2
<1> QED
  BY <1>2

\* What a first value and one step per position lead to: the function that a
\* definition by recursion over the positions asks for exists.
Keeps(X, n, step) == \A i \in 1..n : \A x \in X : step[i][x] \in X
Follows(g, X, n, first, step) ==
    /\ g \in [0..n -> X]
    /\ g[0] = first
    /\ \A i \in 1..n : g[i] = step[i][g[i - 1]]

LEMMA StepsLeadOn ==
    ASSUME NEW X, NEW first, first \in X, NEW n, n \in Nat,
           NEW step, Keeps(X, n, step)
    PROVE  \E g : Follows(g, X, n, first, step)
<1> DEFINE Leads(k, g) == g[0] = first /\ \A i \in 1..k : g[i] = step[i][g[i - 1]]
           Bad == {k \in 0..n : ~\E g \in [0..k -> X] : Leads(k, g)}
<1> SUFFICES Bad = {}
  <2>1. n \in 0..n
    OBVIOUS
  <2>2. \E g \in [0..n -> X] : Leads(n, g)
    BY <2>1
  <2> QED
    BY <2>2 DEF Follows
<1> SUFFICES ASSUME Bad # {} PROVE FALSE
  OBVIOUS
<1>1. Bad \in SUBSET Nat
  OBVIOUS
<1>2. PICK k \in Bad : \A j \in Bad : k <= j
  BY <1>1, LeastNumber
<1>3. CASE k = 0
  <2> DEFINE g == [i \in 0..0 |-> first]
  <2>1. g \in [0..k -> X] /\ Leads(k, g)
    BY <1>3
  <2> QED
    BY <2>1, <1>2
<1>4. CASE k # 0
  <2>1. k - 1 \in 0..n /\ k - 1 \notin Bad
    <3>1. k \in 0..n
      BY <1>2
    <3>2. k - 1 \in 0..n /\ ~(k <= k - 1)
      BY <3>1, <1>4
    <3> HIDE DEF Bad
    <3> QED
      BY <3>2, <1>2
  <2>2. PICK h \in [0..(k - 1) -> X] : Leads(k - 1, h)
    BY <2>1
  <2> DEFINE g == [i \in 0..k |-> IF i = k THEN step[k][h[k - 1]] ELSE h[i]]
  <2>3. step[k][h[k - 1]] \in X
    BY <1>2, <1>4 DEF Keeps
  <2>4. g \in [0..k -> X]
    BY <2>3, <1>2
  <2>5. g[0] = first
    BY <2>2, <1>4, <1>2
  <2>6. ASSUME NEW i \in 1..k PROVE g[i] = step[i][g[i - 1]]
    BY <2>2, <1>2
  <2> QED
    BY <2>4, <2>5, <2>6, <1>2
<1> QED
  BY <1>3, <1>4

-----------------------------------------------------------------------------
(* Reading the line. *)

\* What a drain of the pieces S holds: pieces and packets of S.
Drains(S) == [buffer : Seq(S), packets : Seq({piece.packet : piece \in S}), invalid : Nat]

LEMMA DrainPieceOfLine ==
    ASSUME NEW S, NEW drain \in Drains(S), NEW piece \in S
    PROVE  /\ DrainPiece(drain, piece) \in Drains(S)
           /\ Len(DrainPiece(drain, piece).buffer) <= Len(drain.buffer) + 1
<1> DEFINE line == Append(drain.buffer, piece)
<1>1. /\ line \in Seq(S) /\ Len(line) = Len(drain.buffer) + 1 /\ line[1] \in S
      /\ <<>> \in Seq(S) /\ Len(drain.buffer) \in Nat
  BY DEF Drains
<1>2. CASE piece.part = "head"
  <2>1. DrainPiece(drain, piece) = [drain EXCEPT !.buffer = line]
    BY <1>2 DEF DrainPiece
  <2> HIDE DEF line
  <2>2. DrainPiece(drain, piece).buffer = line
    BY <2>1 DEF Drains
  <2>3. DrainPiece(drain, piece) \in Drains(S)
    BY <1>1, <2>1 DEF Drains
  <2> QED
    BY <1>1, <2>2, <2>3
<1>3. CASE piece.part # "head" /\ ParsePacketLine(line)
  <2>1. DrainPiece(drain, piece)
          = [drain EXCEPT !.buffer = <<>>, !.packets = Append(@, line[1].packet)]
    BY <1>3 DEF DrainPiece
  <2>2. Append(drain.packets, line[1].packet) \in Seq({p.packet : p \in S})
    BY <1>1 DEF Drains
  <2>3. DrainPiece(drain, piece).buffer = <<>>
    BY <2>1 DEF Drains
  <2> HIDE DEF line
  <2>4. DrainPiece(drain, piece) \in Drains(S)
    BY <1>1, <2>1, <2>2 DEF Drains
  <2> QED
    BY <1>1, <2>3, <2>4
<1>4. CASE piece.part # "head" /\ ~ParsePacketLine(line)
  <2>1. DrainPiece(drain, piece)
          = [buffer |-> <<>>, packets |-> drain.packets, invalid |-> drain.invalid + 1]
    BY <1>4 DEF DrainPiece, Drains
  <2> HIDE DEF line
  <2>2. DrainPiece(drain, piece).buffer = <<>>
    BY <2>1 DEF Drains
  <2>3. DrainPiece(drain, piece) \in Drains(S)
    BY <1>1, <2>1 DEF Drains
  <2> QED
    BY <1>1, <2>2, <2>3
<1> QED
  BY <1>2, <1>3, <1>4

\* Reading a line loses and invents no piece: what is kept and what was parsed
\* comes from the line, and no more is kept than has come.
LEMMA DrainedFromLine ==
    ASSUME NEW S, NEW bytes \in Seq(S)
    PROVE  /\ Drained(bytes) \in Drains(S)
           /\ Len(Drained(bytes).buffer) <= Len(bytes)
<1> DEFINE n == Len(bytes)
           IsDrain(f) == f = [i \in 0..n |-> IF i = 0 THEN EmptyDrain
                                             ELSE DrainPiece(f[i - 1], bytes[i])]
           drain == CHOOSE f : IsDrain(f)
<1>1. n \in Nat /\ \A i \in 1..n : bytes[i] \in S
  OBVIOUS
<1>2. Drained(bytes) = drain[n]
  BY DEF Drained
<1>3. EmptyDrain \in Drains(S) /\ Len(EmptyDrain.buffer) = 0
  BY DEF EmptyDrain, Drains
<1> HIDE DEF n
<1>4. \E f : IsDrain(f)
  <2> DEFINE step == [i \in 1..n |-> [d \in Drains(S) |-> DrainPiece(d, bytes[i])]]
  <2>1. Keeps(Drains(S), n, step)
    BY <1>1, DrainPieceOfLine DEF Keeps
  <2>steps. PICK g : Follows(g, Drains(S), n, EmptyDrain, step)
    <3> HIDE DEF step
    <3> QED BY <1>1, <1>3, <2>1, StepsLeadOn, Zenon
  <2>2. /\ g \in [0..n -> Drains(S)] /\ g[0] = EmptyDrain
        /\ \A i \in 1..n : g[i] = step[i][g[i - 1]]
    BY <2>steps DEF Follows
  <2>3. ASSUME NEW i \in 1..n PROVE g[i] = DrainPiece(g[i - 1], bytes[i])
    <3>1. g[i - 1] \in Drains(S)
      BY <2>2, <1>1
    <3>2. step[i][g[i - 1]] = DrainPiece(g[i - 1], bytes[i])
      BY <3>1
    <3> QED
      BY <2>2, <3>2
  <2>4. g = [i \in 0..n |-> g[i]]
    BY <2>2
  <2>5. IsDrain(g)
    BY <2>2, <2>3, <2>4, <1>1
  <2> QED
    BY <2>5
<1>5. IsDrain(drain)
  BY <1>4
<1> HIDE DEF drain
<1>6. drain[0] = EmptyDrain /\ \A i \in 1..n : drain[i] = DrainPiece(drain[i - 1], bytes[i])
  BY <1>5, <1>1
<1> DEFINE Fine(i) == drain[i] \in Drains(S) /\ Len(drain[i].buffer) <= i
           Bad == {i \in 0..n : ~Fine(i)}
<1>7. Bad = {}
  <2> SUFFICES ASSUME Bad # {} PROVE FALSE
    OBVIOUS
  <2>0. Bad \in SUBSET Nat
    BY <1>1
  <2>1. PICK k \in Bad : \A j \in Bad : k <= j
    <3> HIDE DEF Bad
    <3> QED BY <2>0, LeastNumber, Zenon
  <2>2. k # 0
    BY <2>1, <1>3, <1>6
  <2>3. Fine(k - 1) /\ k \in 1..n
    BY <2>1, <2>2, <1>1
  <2>4. Len(drain[k - 1].buffer) \in Nat
    BY <2>3 DEF Drains
  <2>5. drain[k] \in Drains(S) /\ Len(drain[k].buffer) <= Len(drain[k - 1].buffer) + 1
    BY <2>3, <1>6, <1>1, DrainPieceOfLine
  <2>6. Len(drain[k].buffer) \in Nat
    BY <2>5 DEF Drains
  <2>7. Fine(k)
    BY <2>3, <2>4, <2>5, <2>6
  <2> QED
    BY <2>1, <2>7
<1>8. Fine(n)
  BY <1>7, <1>1
<1> QED
  BY <1>2, <1>8 DEF n

\* Packets applied one after the other do not leave a set that no packet leaves.
LEMMA PacketsApplied ==
    ASSUME NEW X, NEW state \in X, NEW packets, Len(packets) \in Nat,
           \A x \in X, i \in 1..Len(packets) : ApplyPacket(x, packets[i]) \in X,
           NEW drain, drain.packets = packets
    PROVE  \E last \in X :
              ReadBackendPackets(state, drain)
                = IF drain.invalid > 0 THEN [last EXCEPT !.fault = "MALFORMED_PACKET"] ELSE last
<1> DEFINE n == Len(packets)
           Applies(f) == f = [i \in 0..n |-> IF i = 0 THEN state
                                             ELSE ApplyPacket(f[i - 1], packets[i])]
           applied == CHOOSE f : Applies(f)
<1>1. ReadBackendPackets(state, drain)
        = IF drain.invalid > 0 THEN [applied[n] EXCEPT !.fault = "MALFORMED_PACKET"]
                               ELSE applied[n]
  BY DEF ReadBackendPackets
<1> HIDE DEF n
<1>2. n \in Nat
  BY DEF n
<1>3. \A x \in X, i \in 1..n : ApplyPacket(x, packets[i]) \in X
  BY DEF n
<1>4. \E f : Applies(f)
  <2> DEFINE step == [i \in 1..n |-> [x \in X |-> ApplyPacket(x, packets[i])]]
  <2>1. Keeps(X, n, step)
    BY <1>3 DEF Keeps
  <2>steps. PICK g : Follows(g, X, n, state, step)
    <3> HIDE DEF step
    <3> QED BY <1>2, <2>1, StepsLeadOn, Zenon
  <2>2. g \in [0..n -> X] /\ g[0] = state /\ \A i \in 1..n : g[i] = step[i][g[i - 1]]
    BY <2>steps DEF Follows
  <2>3. ASSUME NEW i \in 1..n PROVE g[i] = ApplyPacket(g[i - 1], packets[i])
    <3>1. g[i - 1] \in X
      BY <2>2, <1>2
    <3>2. step[i][g[i - 1]] = ApplyPacket(g[i - 1], packets[i])
      BY <3>1
    <3> QED
      BY <2>2, <3>2
  <2>4. g = [i \in 0..n |-> g[i]]
    BY <2>2
  <2>5. \A i \in 0..n : g[i] = IF i = 0 THEN state ELSE ApplyPacket(g[i - 1], packets[i])
    BY <2>2, <2>3, <1>2
  <2>6. Applies(g)
    BY <2>4, <2>5, Zenon
  <2> QED
    BY <2>6
<1>5. Applies(applied)
  BY <1>4
<1> HIDE DEF applied
<1>6. applied[0] = state /\ \A i \in 1..n : applied[i] = ApplyPacket(applied[i - 1], packets[i])
  BY <1>5, <1>2
<1> DEFINE Bad == {i \in 0..n : applied[i] \notin X}
<1>7. Bad = {}
  <2> SUFFICES ASSUME Bad # {} PROVE FALSE
    OBVIOUS
  <2>0. Bad \in SUBSET Nat
    BY <1>2
  <2>1. PICK k \in Bad : \A j \in Bad : k <= j
    <3> HIDE DEF Bad
    <3> QED BY <2>0, LeastNumber, Zenon
  <2>2. k # 0
    BY <2>1, <1>6
  <2>3. applied[k - 1] \in X /\ k \in 1..n
    BY <2>1, <2>2, <1>2
  <2>4. applied[k] \in X
    BY <2>3, <1>6, <1>3
  <2> QED
    BY <2>1, <2>4
<1>8. applied[n] \in X
  BY <1>7, <1>2
<1> QED
  BY <1>1, <1>8

-----------------------------------------------------------------------------
(* The timer of the driver. *)

\* The pieces of the line the driver has or may get.
Arrived == {(text_stream \o rx)[i] : i \in 1..Len(text_stream \o rx)}

\* What DriverTick drains.
TickDrain(n) == IF backend_open THEN DrainPackets(text_stream, SubSeq(rx, 1, n))
                                ELSE [EmptyDrain EXCEPT !.buffer = text_stream]

LEMMA TickDrains ==
    ASSUME ChassisAssumption, ChassisTypeOK, NEW n \in 0..Len(rx)
    PROVE  /\ Arrived \subseteq Piece
           /\ TickDrain(n) \in Drains(Arrived)
           /\ Len(TickDrain(n).buffer) <= MaxBuffer
<1> DEFINE bytes == text_stream \o SubSeq(rx, 1, n)
           all == text_stream \o rx
<1>1. text_stream \in Seq(Piece) /\ rx \in Seq(Piece) /\ Len(text_stream) <= MaxBuffer
  BY DEF ChassisTypeOK
<1>2. /\ all \in Seq(Piece) /\ Len(all) = Len(text_stream) + Len(rx)
      /\ \A i \in 1..Len(text_stream) : all[i] = text_stream[i]
      /\ \A i \in 1..Len(rx) : all[Len(text_stream) + i] = rx[i]
  BY <1>1
<1>3. /\ bytes \in Seq(Piece) /\ Len(bytes) = Len(text_stream) + n
      /\ \A i \in 1..Len(text_stream) : bytes[i] = text_stream[i]
      /\ \A i \in 1..n : bytes[Len(text_stream) + i] = rx[i]
  BY <1>1
<1>4. Arrived \subseteq Piece
  BY <1>2 DEF Arrived
<1>5. \A i \in 1..Len(bytes) : bytes[i] \in Arrived
  <2> SUFFICES ASSUME NEW i \in 1..Len(bytes) PROVE \E j \in 1..Len(all) : bytes[i] = all[j]
    BY DEF Arrived
  <2>1. CASE i <= Len(text_stream)
    BY <2>1, <1>1, <1>2, <1>3
  <2>2. CASE i > Len(text_stream)
    <3>1. i - Len(text_stream) \in 1..n
      BY <2>2, <1>1, <1>3
    <3>2. bytes[Len(text_stream) + (i - Len(text_stream))]
            = all[Len(text_stream) + (i - Len(text_stream))]
      BY <3>1, <1>1, <1>2, <1>3
    <3> QED
      BY <3>1, <3>2, <1>1, <1>2, <1>3
  <2> QED
    BY <2>1, <2>2, <1>1
<1>6. bytes \in Seq(Arrived)
  <2> HIDE DEF bytes
  <2> QED
    BY <1>3, <1>5, IsASeq
<1>7. text_stream \in Seq(Arrived)
  <2>1. \A i \in 1..Len(text_stream) : text_stream[i] \in Arrived
    BY <1>1, <1>2 DEF Arrived
  <2> QED
    BY <1>1, <2>1, IsASeq
<1>8. <<>> \in Seq({piece.packet : piece \in Arrived}) /\ <<>> \in Seq(Arrived)
  OBVIOUS
<1>9. CASE ~backend_open
  <2>1. TickDrain(n) = [buffer |-> text_stream, packets |-> <<>>, invalid |-> 0]
    BY <1>9 DEF TickDrain, EmptyDrain
  <2> QED
    BY <2>1, <1>1, <1>4, <1>7, <1>8 DEF Drains
<1>10. CASE backend_open /\ Len(bytes) > MaxBuffer
  <2>1. TickDrain(n) = [buffer |-> <<>>, packets |-> <<>>, invalid |-> 1]
    BY <1>10 DEF TickDrain, DrainPackets, EmptyDrain
  <2> QED
    BY <2>1, <1>4, <1>8 DEF Drains, ChassisAssumption
<1>11. CASE backend_open /\ ~(Len(bytes) > MaxBuffer)
  <2>1. TickDrain(n) = Drained(bytes)
    BY <1>11 DEF TickDrain, DrainPackets
  <2> HIDE DEF bytes
  <2>2. Drained(bytes) \in Drains(Arrived) /\ Len(Drained(bytes).buffer) <= Len(bytes)
    BY <1>6, DrainedFromLine
  <2>3. Len(Drained(bytes).buffer) \in Nat /\ Len(bytes) \in Nat
    BY <1>6, <2>2 DEF Drains
  <2> QED
    BY <2>1, <2>2, <2>3, <1>4, <1>11 DEF ChassisAssumption
<1> QED
  BY <1>9, <1>10, <1>11

Adapters == [fault : Codes, estop : BOOLEAN]

\* Reading packets keeps the adapter's type, and its emergency stop unless one
\* of them is a state without a stop.
LEMMA PacketsKeepStop ==
    ASSUME NEW S, S \subseteq Piece, NEW drain \in Drains(S), NEW state \in Adapters
    PROVE  /\ ReadBackendPackets(state, drain) \in Adapters
           /\ (state.estop /\ \A piece \in S : ~(piece.packet.kind = "state" /\ ~piece.packet.estop))
                => ReadBackendPackets(state, drain).estop
<1>1. /\ Len(drain.packets) \in Nat
      /\ \A i \in 1..Len(drain.packets) : drain.packets[i] \in {piece.packet : piece \in S}
  BY DEF Drains
<1>2. \A i \in 1..Len(drain.packets) :
         \E piece \in S : /\ drain.packets[i] = piece.packet
                          /\ drain.packets[i].estop \in BOOLEAN
                          /\ drain.packets[i].fault \in Codes
  BY <1>1 DEF Piece, Packet
<1>3. ASSUME NEW x \in Adapters, NEW i \in 1..Len(drain.packets)
      PROVE  ApplyPacket(x, drain.packets[i]) \in Adapters
  BY <1>2 DEF ApplyPacket, Adapters, Codes
<1>4. PICK last \in Adapters :
           ReadBackendPackets(state, drain)
             = IF drain.invalid > 0 THEN [last EXCEPT !.fault = "MALFORMED_PACKET"] ELSE last
  <2> HIDE DEF Adapters
  <2> QED BY <1>1, <1>3, PacketsApplied
<1>5. ReadBackendPackets(state, drain) \in Adapters
  BY <1>4 DEF Adapters, Codes
<1>6. ASSUME state.estop,
             \A piece \in S : ~(piece.packet.kind = "state" /\ ~piece.packet.estop)
      PROVE  ReadBackendPackets(state, drain).estop
  <2> DEFINE X == {x \in Adapters : x.estop}
  <2>1. ASSUME NEW x \in X, NEW i \in 1..Len(drain.packets)
        PROVE  ApplyPacket(x, drain.packets[i]) \in X
    <3>1. ~(drain.packets[i].kind = "state" /\ ~drain.packets[i].estop)
      BY <1>2, <1>6
    <3> QED
      BY <3>1, <1>2 DEF ApplyPacket, Adapters, Codes
  <2>2. state \in X
    BY <1>6
  <2>3. PICK on \in X :
             ReadBackendPackets(state, drain)
               = IF drain.invalid > 0 THEN [on EXCEPT !.fault = "MALFORMED_PACKET"] ELSE on
    <3> HIDE DEF X
    <3> QED BY <1>1, <2>1, <2>2, PacketsApplied
  <2> QED
    BY <2>3 DEF Adapters
<1> QED
  BY <1>5, <1>6

(***************************************************************************)
(* The driver's invariant: the types, the bounds of the buffers, that the  *)
(* report shows the emergency stop the adapter knows of, and that a        *)
(* command time out in force has a fault code, which is reported.          *)
(***************************************************************************)
ChassisInv ==
    /\ ChassisTypeOK
    /\ chassis_report.estop = adapter.estop
    /\ command_timeout_active => local_fault_code # "NONE" /\ chassis_report.fault # "NONE"

LEMMA ChassisInitInv ==
    ASSUME ChassisAssumption, ChassisInit
    PROVE  ChassisInv
<1>1. text_stream \in Seq(Piece) /\ rx \in Seq(Piece) /\ Len(text_stream) = 0 /\ Len(rx) = 0
  BY DEF ChassisInit
<1>2. command_age \in 0..(CommandTimeout + 1) /\ packet_age \in 0..(HeartbeatTimeout + 1)
  BY DEF ChassisAssumption, ChassisInit
<1>3. Len(text_stream) <= MaxBuffer /\ Len(rx) <= MaxWire
  BY <1>1 DEF ChassisAssumption
<1>4. /\ adapter \in [fault : Codes, estop : BOOLEAN]
      /\ chassis \in [speed : Speeds, in_line : BOOLEAN]
      /\ chassis_report \in [connected : BOOLEAN, estop : BOOLEAN, fault : Codes]
      /\ chassis_report.estop = adapter.estop
      /\ local_fault_code \in Codes
  BY DEF ChassisInit, Codes, Speeds
<1>5. /\ received_command \in BOOLEAN /\ command_timeout_active \in BOOLEAN
      /\ backend_open \in BOOLEAN /\ connected \in BOOLEAN
  BY DEF ChassisInit
<1>6. ~command_timeout_active
  BY DEF ChassisInit
<1> QED
  BY <1>1, <1>2, <1>3, <1>4, <1>5, <1>6 DEF ChassisInv, ChassisTypeOK

LEMMA DriverTickInv ==
    ASSUME ChassisAssumption, ChassisInv, NEW n, NEW due \in BOOLEAN,
           NEW outcome \in WriteOutcomes, DriverTick(n, due, outcome)
    PROVE  /\ ChassisInv'
           /\ (chassis_report.estop /\ ~chassis_report'.estop) => Released(text_stream \o rx)
<1> DEFINE drain == TickDrain(n)
           state == ReadBackendPackets(adapter, drain)
           age == IF drain.packets # <<>> THEN 0 ELSE packet_age
           alive == backend_open /\ age <= HeartbeatTimeout
           code == FaultCode(HeartbeatCode(due, outcome), state, alive,
                             command_timeout_active \/ CommandTimesOut)
<1>1. /\ n \in 0..Len(rx)
      /\ EnforceCommandTimeout(outcome)
      /\ rx' = SubSeq(rx, n + 1, Len(rx))
      /\ text_stream' = drain.buffer
      /\ adapter' = state
      /\ packet_age' = age
      /\ connected' = alive
      /\ local_fault_code' = code
      /\ chassis_report' = [connected |-> alive, estop |-> state.estop,
                            fault |-> IF code # "NONE" THEN code ELSE state.fault]
      /\ UNCHANGED <<received_command, command_age, backend_open>>
  BY DEF DriverTick, TickDrain
<1> HIDE DEF drain
<1>2. Arrived \subseteq Piece /\ drain \in Drains(Arrived) /\ Len(drain.buffer) <= MaxBuffer
  BY <1>1, TickDrains DEF drain, ChassisInv
<1>3. adapter \in Adapters
  BY DEF ChassisInv, ChassisTypeOK, Adapters
<1>4. /\ state \in Adapters
      /\ (adapter.estop /\ \A piece \in Arrived :
                              ~(piece.packet.kind = "state" /\ ~piece.packet.estop))
           => state.estop
  BY <1>2, <1>3, PacketsKeepStop
<1> HIDE DEF state
<1>5. drain.buffer \in Seq(Piece)
  <2>1. drain.buffer \in Seq(Arrived)
    BY <1>2 DEF Drains
  <2> QED
    BY <2>1, <1>2, SeqMonotonic
<1>6. rx' \in Seq(Piece) /\ Len(rx') <= MaxWire
  BY <1>1 DEF ChassisInv, ChassisTypeOK, ChassisAssumption
<1>7. age \in 0..(HeartbeatTimeout + 1) /\ alive \in BOOLEAN
  <2>1. packet_age \in 0..(HeartbeatTimeout + 1) /\ 0 \in 0..(HeartbeatTimeout + 1)
    BY DEF ChassisInv, ChassisTypeOK, ChassisAssumption
  <2>2. age \in 0..(HeartbeatTimeout + 1)
    BY <2>1
  <2>3. backend_open \in BOOLEAN
    BY DEF ChassisInv, ChassisTypeOK
  <2> HIDE DEF age
  <2>4. alive \in BOOLEAN
    BY <2>3
  <2> QED
    BY <2>2, <2>4
<1> HIDE DEF age
<1>8. HeartbeatCode(due, outcome) \in Codes
  BY DEF HeartbeatCode, TimeoutCode, Codes, ChassisInv, ChassisTypeOK
<1>9. code \in Codes
  <2>1. state.fault \in Codes /\ state.estop \in BOOLEAN
    BY <1>4 DEF Adapters
  <2> QED
    BY <1>7, <1>8, <2>1 DEF FaultCode, Codes, ChassisInv, ChassisTypeOK
<1>16. command_timeout_active' => code # "NONE"
  <2>1. command_timeout_active' = (command_timeout_active \/ CommandTimesOut)
    BY <1>1 DEF EnforceCommandTimeout
  <2>2. command_timeout_active \/ CommandTimesOut => HeartbeatCode(due, outcome) # "NONE"
    BY DEF HeartbeatCode, TimeoutCode, ChassisInv
  <2>3. state.estop \in BOOLEAN /\ alive \in BOOLEAN /\ backend_open \in BOOLEAN
    BY <1>4, <1>7 DEF Adapters, ChassisInv, ChassisTypeOK
  <2> HIDE DEF alive
  <2> QED
    BY <2>1, <2>2, <2>3 DEF FaultCode
<1> HIDE DEF code, alive
<1>10. chassis' \in [speed : Speeds, in_line : BOOLEAN]
  BY <1>1 DEF EnforceCommandTimeout, SendBytes, Speeds, ChassisInv, ChassisTypeOK
<1>11. command_timeout_active' \in BOOLEAN
  BY <1>1 DEF EnforceCommandTimeout, CommandTimesOut, ChassisInv, ChassisTypeOK
<1>12. chassis_report' \in [connected : BOOLEAN, estop : BOOLEAN, fault : Codes]
  BY <1>1, <1>4, <1>7, <1>9 DEF Adapters
<1>13. ChassisTypeOK'
  BY <1>1, <1>2, <1>4, <1>5, <1>6, <1>7, <1>9, <1>10, <1>11, <1>12
     DEF ChassisInv, ChassisTypeOK, Adapters
<1>14. chassis_report'.estop = adapter'.estop
  BY <1>1
<1>15. ASSUME chassis_report.estop, ~chassis_report'.estop
       PROVE  Released(text_stream \o rx)
  <2>1. adapter.estop /\ ~state.estop
    BY <1>15, <1>1 DEF ChassisInv
  <2>2. PICK piece \in Arrived : piece.packet.kind = "state" /\ ~piece.packet.estop
    BY <2>1, <1>4
  <2>3. text_stream \o rx \in Seq(Piece)
    BY DEF ChassisInv, ChassisTypeOK
  <2> QED
    BY <2>2, <2>3 DEF Arrived, Released
<1>17. command_timeout_active' => chassis_report'.fault # "NONE"
  BY <1>1, <1>16
<1> QED
  BY <1>1, <1>13, <1>14, <1>15, <1>16, <1>17 DEF ChassisInv

-----------------------------------------------------------------------------
(* The other steps leave the report and the adapter alone. *)

LEMMA SendKeepsLine ==
    ASSUME ChassisAssumption, ChassisTypeOK, NEW piece \in Piece, Send(piece)
    PROVE  rx' \in Seq(Piece) /\ Len(rx') <= MaxWire
BY AppendProperties DEF Send, ChassisTypeOK, ChassisAssumption

LEMMA ChassisStepInv ==
    ASSUME ChassisAssumption, ChassisInv, ChassisStep
    PROVE  ChassisInv' /\ chassis_report' = chassis_report
<1>1. ASSUME NEW packet \in Packets, NEW part \in {"whole", "head"},
             PublishPackets(packet, part)
      PROVE  ChassisInv' /\ chassis_report' = chassis_report
  <2> DEFINE piece == [packet |-> packet, part |-> part]
  <2>1. piece \in Piece
    <3>1. \A kind \in Kinds : [NoPacket EXCEPT !.kind = kind] \in Packet
      BY DEF NoPacket, Packet, Codes, ChassisAssumption
    <3>2. packet \in Packet
      BY <3>1 DEF Packets, StatePackets
    <3> QED
      BY <3>2 DEF Piece
  <2>2. Send(piece) /\ chassis' = [chassis EXCEPT !.in_line = (part = "head")]
    BY <1>1 DEF PublishPackets
  <2> HIDE DEF piece
  <2>3. rx' \in Seq(Piece) /\ Len(rx') <= MaxWire
    BY <2>1, <2>2, SendKeepsLine DEF ChassisInv
  <2> QED
    BY <2>2, <2>3 DEF Send, driverVars, ChassisInv, ChassisTypeOK
<1>2. CASE RestOfLine
  <2> DEFINE piece == [packet |-> NoPacket, part |-> "tail"]
  <2>1. piece \in Piece
    BY DEF Piece, Packet, NoPacket, Codes
  <2>2. Send(piece) /\ chassis' = [chassis EXCEPT !.in_line = FALSE]
    BY <1>2 DEF RestOfLine
  <2> HIDE DEF piece
  <2>3. rx' \in Seq(Piece) /\ Len(rx') <= MaxWire
    BY <2>1, <2>2, SendKeepsLine DEF ChassisInv
  <2> QED
    BY <2>2, <2>3 DEF Send, driverVars, ChassisInv, ChassisTypeOK
<1>3. CASE Noise
  <2>1. chassis' \in [speed : Speeds, in_line : BOOLEAN]
    BY <1>3 DEF Noise, ChassisInv, ChassisTypeOK
  <2>2. UNCHANGED <<driverVars, adapter, text_stream, rx, chassis_report>>
    BY <1>3 DEF Noise
  <2> QED
    BY <2>1, <2>2 DEF driverVars, ChassisInv, ChassisTypeOK
<1> QED
  BY <1>1, <1>2, <1>3 DEF ChassisStep

LEMMA ChassisNextInv ==
    ASSUME ChassisAssumption, ChassisInv, [ChassisNext]_linkVars
    PROVE  /\ ChassisInv'
           /\ (chassis_report.estop /\ ~chassis_report'.estop) => Released(text_stream \o rx)
<1>1. ASSUME NEW speed \in Commands, NEW outcome \in WriteOutcomes,
             HandleCommand(speed, outcome)
      PROVE  ChassisInv' /\ chassis_report' = chassis_report
  <2>1. chassis' \in [speed : Speeds, in_line : BOOLEAN]
    BY <1>1 DEF HandleCommand, SendBytes, Speeds, ChassisInv, ChassisTypeOK, ChassisAssumption
  <2>2. local_fault_code' \in Codes
    BY <1>1 DEF HandleCommand, Codes
  <2>3. command_age' \in 0..(CommandTimeout + 1)
    BY <1>1 DEF HandleCommand, ChassisAssumption
  <2>4. /\ received_command' \in BOOLEAN /\ command_timeout_active' = FALSE
        /\ UNCHANGED <<backend_open, connected, packet_age, adapter, text_stream, rx,
                       chassis_report>>
    BY <1>1 DEF HandleCommand
  <2> QED
    BY <2>1, <2>2, <2>3, <2>4 DEF ChassisInv, ChassisTypeOK
<1>2. CASE DriverStep
  BY <1>2, DriverTickInv DEF DriverStep
<1>3. CASE LinkElapse
  BY <1>3 DEF LinkElapse, ChassisInv, ChassisTypeOK, ChassisAssumption
<1>4. CASE ChassisStep
  BY <1>4, ChassisStepInv
<1>5. CASE UNCHANGED linkVars
  BY <1>5 DEF linkVars, driverVars, ChassisInv, ChassisTypeOK
<1> QED
  BY <1>1, <1>2, <1>3, <1>4, <1>5 DEF ChassisNext, CommandStep

(***************************************************************************)
(* The chassis driver keeps its types: the receive buffer never holds more *)
(* than max_buffer_bytes, a report shows the adapter's emergency stop, and *)
(* a command time out in force is reported as a fault.                     *)
(***************************************************************************)
THEOREM ChassisInvariance == ChassisSpec => []ChassisInv
<1>1. ChassisAssumption
  BY ChassisAssumption
<1>2. ChassisInit => ChassisInv
  BY <1>1, ChassisInitInv
<1>3. ChassisInv /\ [ChassisNext]_linkVars => ChassisInv'
  BY <1>1, ChassisNextInv
<1> QED
  BY <1>2, <1>3, PTL DEF ChassisSpec

(***************************************************************************)
(* A chassis that drives on because the one stop frame of a time out was   *)
(* lost is reported with a fault for as long as no command comes, for all  *)
(* faults that writes, the line and the chassis can show meanwhile         *)
(* (EnforceCommandTimeout, SendHeartbeatIfDue, ReadChassisSystem).         *)
(***************************************************************************)
THEOREM DrivingOnIsNotHidden == ChassisSpec => []DrivingOnIsReported
<1>1. ChassisInv => DrivingOnIsReported
  BY DEF ChassisInv, DrivingOnIsReported
<1> QED
  BY <1>1, ChassisInvariance, PTL

(***************************************************************************)
(* Only a state packet that says so ends a reported emergency stop, for    *)
(* every length of the buffer and of what the line cuts a packet into      *)
(* (DrainPackets, ApplyPacket).                                            *)
(***************************************************************************)
THEOREM EstopsEndByStatePacket == ChassisSpec => EstopEndsByStatePacket
<1>1. ChassisAssumption
  BY ChassisAssumption
<1>2. ChassisInv /\ [ChassisNext]_linkVars
        => [(chassis_report.estop /\ ~chassis_report'.estop)
               => Released(text_stream \o rx)]_linkVars
  BY <1>1, ChassisNextInv
<1>3. ChassisSpec => []ChassisInv
  BY ChassisInvariance
<1> QED
  BY <1>2, <1>3, PTL DEF ChassisSpec, EstopEndsByStatePacket

=============================================================================
