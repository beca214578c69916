---------------------------- MODULE SerialCommand ----------------------------
(***************************************************************************)
(* The commands of the console, serial_cmd_interpreter.c and app_bsp.c: the *)
(* characters of a line are gathered in a buffer, which a carriage return  *)
(* hands over as a string to be compared with the names of the buttons.    *)
(* The buffer is longer than every name by two characters at least; the    *)
(* 256 of the code have the same cases as the few here.                    *)
(***************************************************************************)
EXTENDS Naturals, Sequences

CONSTANT RX_BUFF_SIZE

ASSUME SerialCommandAssumption == RX_BUFF_SIZE \in Nat /\ RX_BUFF_SIZE > 4

VARIABLES
  RxBuffer,       \* [0 .. RX_BUFF_SIZE - 1 -> a character, or 0 after the line]
  indexRxBuffer,  \* characters gathered
  longByCommand,  \* the buttons whose longPressed a command has set
  launched,       \* the button whose task the last character launched, or none
  line            \* history: the characters since the last return or overflow

serialVars == <<RxBuffer, indexRxBuffer, longByCommand, launched, line>>

NUL == "NUL"
NoButton == "none"
Letter == {"B", "SW", "1", "2", "L"}
SerialButton == [B1 |-> "1", B2 |-> "2"]

(* "B1", "SW1", and "B1L", "SW1L" of a long press; "SW" stands for its two  *)
(* letters, and the third button is like the others.                        *)
ShortName(b) == {<<"B", SerialButton[b]>>, <<"SW", SerialButton[b]>>}
LongName(b) == {Append(name, "L") : name \in ShortName(b)}

Cleared == [i \in 0 .. RX_BUFF_SIZE - 1 |-> NUL]

(* The string that strcmp reads.                                            *)
StringIn(buffer) ==
  LET end == CHOOSE n \in 0 .. RX_BUFF_SIZE :
               /\ \A i \in 0 .. n - 1 : buffer[i] # NUL
               /\ n = RX_BUFF_SIZE \/ buffer[n] = NUL
  IN  [i \in 1 .. end |-> buffer[i - 1]]

SerialInit ==
  /\ RxBuffer = Cleared /\ indexRxBuffer = 0
  /\ longByCommand = {} /\ launched = NoButton /\ line = <<>>

ClearBuffer == indexRxBuffer' = 0 /\ RxBuffer' = Cleared

RestartBuffer == ClearBuffer

APP_BSP_SerialCmdExecute(string) ==
  \/ \E b \in DOMAIN SerialButton :
       /\ string \in ShortName(b) \cup LongName(b) /\ launched' = b
       /\ longByCommand' = IF string \in LongName(b) THEN longByCommand \cup {b} ELSE longByCommand
  \/ /\ \A b \in DOMAIN SerialButton : string \notin ShortName(b) \cup LongName(b)
     /\ launched' = NoButton /\ UNCHANGED longByCommand

UART_Rx_Callback(c) ==
  \/ /\ indexRxBuffer < RX_BUFF_SIZE /\ c = "return"
     /\ APP_BSP_SerialCmdExecute(StringIn(RxBuffer)) /\ RestartBuffer
  \/ /\ indexRxBuffer < RX_BUFF_SIZE /\ c # "return"
     /\ IF c = "newline" /\ indexRxBuffer = 0 THEN UNCHANGED <<RxBuffer, indexRxBuffer>>
        ELSE /\ RxBuffer' = [RxBuffer EXCEPT ![indexRxBuffer] = c]
             /\ indexRxBuffer' = indexRxBuffer + 1
     /\ launched' = NoButton /\ UNCHANGED longByCommand
  \/ /\ indexRxBuffer = RX_BUFF_SIZE /\ ClearBuffer
     /\ launched' = NoButton /\ UNCHANGED longByCommand

(* The reference: what was received since the last return, or since the     *)
(* character that found the buffer full.                                    *)
SerialReceives(c) ==
  /\ UART_Rx_Callback(c)
  /\ line' = IF c = "return" \/ Len(line) = RX_BUFF_SIZE THEN <<>>
             ELSE IF c = "newline" /\ line = <<>> THEN line ELSE Append(line, c)

SerialNext == \E c \in Letter \cup {"newline", "return"} : SerialReceives(c)

-----------------------------------------------------------------------------
(* The string the next return hands over is the line that was received: it  *)
(* ends within the buffer, and nothing of an earlier line is left in it.    *)
SerialLinesAreWhole ==
  indexRxBuffer = Len(line) /\ StringIn(RxBuffer) = line
=============================================================================
