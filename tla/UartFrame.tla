------------------------------ MODULE UartFrame ------------------------------
(***************************************************************************)
(* How packets of a display are found in the bytes of the serial line       *)
(* (my_uart.c): the high half of a byte is its number in the packet, and a  *)
(* byte numbered 1 starts a packet wherever it comes.  What a receive       *)
(* interrupt brings is handled byte by byte, so a step is a byte.           *)
(*                                                                          *)
(* The module is small enough to be proved as it stands, with the packet's  *)
(* real length.                                                             *)
(***************************************************************************)
EXTENDS Integers, TLAPS

LCD_PACKET_LEN == 14
Bytes   == 0 .. 255
Nothing == -1

VARIABLES
  data,    \* lcd_packet
  pos,     \* lcd_packet_pos
  printed, \* the packets the last byte made be printed, none or one
  heard    \* the last LCD_PACKET_LEN bytes received, the latest first

vars == <<data, pos, printed, heard>>

Places == 0 .. LCD_PACKET_LEN - 1
Recent == 1 .. LCD_PACKET_LEN

Number(b) == b \div 16

Init ==
  /\ data = [i \in Places |-> 0]
  /\ pos = 0
  /\ printed = 0
  /\ heard = [i \in Recent |-> Nothing]

TypeOK ==
  /\ data \in [Places -> Bytes]
  /\ pos \in Places
  /\ printed \in {0, 1}
  /\ heard \in [Recent -> Bytes \cup {Nothing}]

StartsPacket(b) ==
  /\ Number(b) = 1
  /\ data' = [data EXCEPT ![0] = b]
  /\ pos' = 1
  /\ printed' = 0

OutOfSequence(b) ==
  /\ Number(b) # 1
  /\ pos = 0 \/ Number(b) # pos + 1
  /\ pos' = 0
  /\ printed' = 0
  /\ UNCHANGED data

Continues(b) ==
  /\ pos # 0 /\ Number(b) = pos + 1
  /\ data' = [data EXCEPT ![pos] = b]
  /\ pos' = IF pos + 1 = LCD_PACKET_LEN THEN 0 ELSE pos + 1
  /\ printed' = IF pos + 1 = LCD_PACKET_LEN THEN 1 ELSE 0

\* process_uart_byte()
Receive(b) ==
  /\ StartsPacket(b) \/ OutOfSequence(b) \/ Continues(b)
  /\ heard' = [i \in Recent |-> IF i = 1 THEN b ELSE heard[i - 1]]

Next == \E b \in Bytes : Receive(b)

Spec == Init /\ [][Next]_vars
-----------------------------------------------------------------------------
\* The last k bytes are numbered 1 to k.
Numbered(k) == \A i \in 1 .. k : Number(heard[i]) = k + 1 - i

\* A packet is printed exactly when the last 14 bytes are numbered 1 to 14, and
\* it holds them: no frame is lost because of what came before it, a part of
\* one or noise, and none is put together of two.
PrintedIsFrame ==
  /\ printed = 1 <=> Numbered(LCD_PACKET_LEN)
  /\ printed = 1 => \A i \in Places : data[i] = heard[LCD_PACKET_LEN - i]

\* The place is the number of the last bytes that may be the start of a packet,
\* and they are in the packet.
PosIsPrefix ==
  /\ \A k \in 1 .. LCD_PACKET_LEN - 1 : Numbered(k) <=> pos = k
  /\ \A i \in Places : i < pos => data[i] = heard[pos - i]

FrameInv == TypeOK /\ PosIsPrefix /\ PrintedIsFrame
-----------------------------------------------------------------------------
\* The first byte heard is none and has no number.
LEMMA FrameInit == Init => FrameInv
<1> SUFFICES ASSUME Init PROVE FrameInv
  OBVIOUS
<1>1. \A k \in Recent : ~Numbered(k)
  BY DEF Init, Numbered, Number, Recent, LCD_PACKET_LEN, Nothing
<1>2. TypeOK
  BY DEF TypeOK, Init, Places, Recent, LCD_PACKET_LEN, Bytes
<1>3. PosIsPrefix
  BY <1>1 DEF PosIsPrefix, Init, Places, Recent, LCD_PACKET_LEN
<1>4. PrintedIsFrame
  BY <1>1 DEF PrintedIsFrame, Init, Recent, LCD_PACKET_LEN
<1> QED BY <1>2, <1>3, <1>4 DEF FrameInv

\* One more byte is numbered when it and those before it are.
LEMMA NumberedNext ==
  ASSUME FrameInv, NEW b \in Bytes, Receive(b), NEW k \in Recent
  PROVE  Numbered(k)' <=> Number(b) = k /\ (k = 1 \/ Numbered(k - 1))
<1>1. heard' = [i \in Recent |-> IF i = 1 THEN b ELSE heard[i - 1]]
  BY DEF Receive
<1>2. ASSUME Numbered(k)'
      PROVE  Number(b) = k /\ (k = 1 \/ Numbered(k - 1))
  <2>1. Number(b) = k
    <3>1. 1 \in 1 .. k /\ 1 \in Recent
      BY DEF Recent, LCD_PACKET_LEN
    <3>2. Number(heard'[1]) = k + 1 - 1
      BY <1>2, <3>1 DEF Numbered, Number
    <3>3. heard'[1] = b
      BY <1>1, <3>1
    <3> QED BY <3>2, <3>3 DEF Recent, LCD_PACKET_LEN
  <2>2. ASSUME NEW i \in 1 .. k - 1 PROVE Number(heard[i]) = (k - 1) + 1 - i
    <3>1. i + 1 \in 1 .. k /\ i + 1 \in Recent /\ i + 1 # 1
      BY DEF Recent, LCD_PACKET_LEN
    <3>2. Number(heard'[i + 1]) = k + 1 - (i + 1)
      BY <1>2, <3>1 DEF Numbered, Number
    <3>3. heard'[i + 1] = heard[i]
      BY <1>1, <3>1
    <3> QED BY <3>2, <3>3, <3>1 DEF Recent, LCD_PACKET_LEN
  <2> QED BY <2>1, <2>2 DEF Numbered
<1>3. ASSUME Number(b) = k, k = 1 \/ Numbered(k - 1)
      PROVE  Numbered(k)'
  <2> SUFFICES ASSUME NEW i \in 1 .. k PROVE Number(heard'[i]) = k + 1 - i
    BY DEF Numbered, Number
  <2>1. CASE i = 1
    BY <1>1, <1>3, <2>1 DEF Recent, LCD_PACKET_LEN
  <2>2. CASE i # 1
    <3>1. i - 1 \in 1 .. k - 1 /\ i \in Recent /\ k # 1
      BY <2>2 DEF Recent, LCD_PACKET_LEN
    <3>2. Number(heard[i - 1]) = (k - 1) + 1 - (i - 1)
      BY <1>3, <3>1 DEF Numbered
    <3> QED BY <1>1, <2>2, <3>1, <3>2 DEF Recent, LCD_PACKET_LEN
  <2> QED BY <2>1, <2>2
<1> QED BY <1>2, <1>3

\* A byte keeps the invariant.
LEMMA FrameNext ==
  ASSUME FrameInv, NEW b \in Bytes, Receive(b)
  PROVE  FrameInv'
<1> USE DEF FrameInv
<1>1. heard' = [i \in Recent |-> IF i = 1 THEN b ELSE heard[i - 1]]
  BY DEF Receive
<1>2. \A k \in Recent : Numbered(k)' <=> Number(b) = k /\ (k = 1 \/ Numbered(k - 1))
  BY NumberedNext
<1>3. \A k \in Recent : Numbered(k)' <=> Number(b) = k /\ (k = 1 \/ pos = k - 1)
  BY <1>2 DEF PosIsPrefix, Recent, LCD_PACKET_LEN
<1>4. heard' \in [Recent -> Bytes \cup {Nothing}] /\ Number(b) \in 0 .. 15
  BY <1>1 DEF TypeOK, Recent, LCD_PACKET_LEN, Number, Bytes
<1>5. CASE StartsPacket(b)
  <2>1. /\ data' \in [Places -> Bytes] /\ data'[0] = b
        /\ pos' = 1 /\ printed' = 0 /\ Number(b) = 1
    BY <1>5 DEF StartsPacket, TypeOK, Places, LCD_PACKET_LEN
  <2>2. heard'[1] = b
    BY <1>1 DEF Recent, LCD_PACKET_LEN
  <2>3. PosIsPrefix'
    BY <1>3, <2>1, <2>2 DEF PosIsPrefix, Places, Recent, LCD_PACKET_LEN
  <2>4. PrintedIsFrame'
    BY <1>3, <2>1 DEF PrintedIsFrame, Recent, LCD_PACKET_LEN
  <2> QED BY <1>4, <2>1, <2>3, <2>4 DEF TypeOK, Places, LCD_PACKET_LEN
<1>6. CASE OutOfSequence(b)
  <2>1. /\ data' = data /\ pos' = 0 /\ printed' = 0
        /\ Number(b) # 1 /\ (pos = 0 \/ Number(b) # pos + 1)
    BY <1>6 DEF OutOfSequence
  <2>2. \A k \in Recent : ~Numbered(k)'
    BY <1>3, <2>1 DEF Recent, LCD_PACKET_LEN, TypeOK, Places
  <2>3. PosIsPrefix'
    BY <2>1, <2>2 DEF PosIsPrefix, Places, Recent, LCD_PACKET_LEN
  <2>4. PrintedIsFrame'
    BY <2>1, <2>2 DEF PrintedIsFrame, Recent, LCD_PACKET_LEN
  <2> QED BY <1>4, <2>1, <2>3, <2>4 DEF TypeOK, Places, LCD_PACKET_LEN
<1>7. CASE Continues(b)
  <2> DEFINE last == pos + 1 = LCD_PACKET_LEN
  <2>1. /\ pos # 0 /\ pos \in Places /\ Number(b) = pos + 1
        /\ data' = [data EXCEPT ![pos] = b] /\ data \in [Places -> Bytes]
        /\ pos' = (IF last THEN 0 ELSE pos + 1) /\ printed' = (IF last THEN 1 ELSE 0)
    BY <1>7 DEF Continues, TypeOK
  <2>2. data' \in [Places -> Bytes]
    BY <2>1
  <2>3. pos' \in Places /\ printed' \in {0, 1}
    BY <2>1 DEF Places, LCD_PACKET_LEN
  <2>4. ASSUME NEW i \in 0 .. pos PROVE data'[i] = heard'[pos + 1 - i]
    <3>1. CASE i = pos
      BY <1>1, <2>1, <3>1 DEF Places, Recent, LCD_PACKET_LEN
    <3>2. CASE i < pos
      <4>1. data'[i] = data[i] /\ data[i] = heard[pos - i]
        BY <2>1, <3>2 DEF PosIsPrefix, Places, LCD_PACKET_LEN
      <4>2. pos + 1 - i \in Recent /\ pos + 1 - i # 1 /\ (pos + 1 - i) - 1 = pos - i
        BY <2>1, <3>2 DEF Places, Recent, LCD_PACKET_LEN
      <4> QED BY <1>1, <4>1, <4>2
    <3> QED BY <2>1, <3>1, <3>2 DEF Places, LCD_PACKET_LEN
  <2>5. \A k \in Recent : Numbered(k)' <=> k = pos + 1
    BY <1>3, <2>1 DEF Places, Recent, LCD_PACKET_LEN
  <2>6. PosIsPrefix'
    <3>1. CASE last
      BY <2>1, <2>5, <3>1 DEF PosIsPrefix, Places, Recent, LCD_PACKET_LEN
    <3>2. CASE ~last
      BY <2>1, <2>4, <2>5, <3>2 DEF PosIsPrefix, Places, Recent, LCD_PACKET_LEN
    <3> QED BY <3>1, <3>2
  <2>7. PrintedIsFrame'
    <3>1. CASE last
      <4>1. printed' = 1 /\ pos + 1 = LCD_PACKET_LEN /\ Places = 0 .. pos
        BY <2>1, <3>1 DEF Places, LCD_PACKET_LEN
      <4>2. Numbered(LCD_PACKET_LEN)'
        BY <2>5, <4>1 DEF Recent, LCD_PACKET_LEN
      <4>3. \A i \in Places : data'[i] = heard'[LCD_PACKET_LEN - i]
        <5> SUFFICES ASSUME NEW i \in 0 .. pos PROVE data'[i] = heard'[LCD_PACKET_LEN - i]
          BY <4>1
        <5>1. data'[i] = heard'[pos + 1 - i]
          BY <2>4
        <5>2. pos + 1 = LCD_PACKET_LEN
          BY <4>1
        <5> QED BY <5>1, <5>2, <2>1 DEF Places, LCD_PACKET_LEN
      <4> QED BY <4>1, <4>2, <4>3 DEF PrintedIsFrame
    <3>2. CASE ~last
      BY <2>1, <2>5, <3>2 DEF PrintedIsFrame, Recent, LCD_PACKET_LEN
    <3> QED BY <3>1, <3>2
  <2> QED BY <1>4, <2>2, <2>3, <2>6, <2>7 DEF TypeOK
<1> QED BY <1>5, <1>6, <1>7 DEF Receive

\* Every frame is found, and nothing else is printed (my_uart.c:31-65).
THEOREM FramesAreFound == Spec => []PrintedIsFrame
<1>1. FrameInv /\ [Next]_vars => FrameInv'
  <2> SUFFICES ASSUME FrameInv, [Next]_vars PROVE FrameInv'
    OBVIOUS
  <2>1. CASE Next
    BY <2>1, FrameNext DEF Next
  <2>2. CASE UNCHANGED vars
    BY <2>2 DEF vars, FrameInv, TypeOK, PosIsPrefix, PrintedIsFrame, Numbered, Number
  <2> QED BY <2>1, <2>2
<1>2. FrameInv => PrintedIsFrame
  BY DEF FrameInv
<1> QED BY FrameInit, <1>1, <1>2, PTL DEF Spec
=============================================================================
