---------------------------- MODULE LabelCommand ----------------------------
(***************************************************************************)
(* How the label's cluster takes a received command apart: the handler of  *)
(* esl_cluster.c, and the strings that APP_ZIGBEE_EslServerDisplayMessage- *)
(* Callback of app_zigbee_endpoint.c keeps of it.  The payload of a        *)
(* display command is a series of fields, each a length and that many      *)
(* characters; a field has a buffer of fixed size.                         *)
(***************************************************************************)
EXTENDS Naturals, Sequences, FiniteSets, SequencesExt

CONSTANTS
  FieldNbr,     (* number of fields, four                                  *)
  Size,         (* sizes of their buffers in ZbZclEslDisplayMessageReqT    *)
  Byte,         (* values of a byte; 0 ends a string                       *)
  Payload,      (* payloads that are received                              *)
  Header        (* headers that are received                               *)

Field == 1 .. FieldNbr

ASSUME LabelAssumption ==
  /\ FieldNbr \in Nat \ {0}
  /\ Size \in [Field -> Nat \ {0}]
  /\ Byte \subseteq Nat
  /\ Payload \subseteq Seq(Byte)
  /\ Header \subseteq {"other manufacturer", "no manufacturer", "other command",
                       "display message"}

VARIABLES
  header, payload,  \* the command
  at,               \* what the handler does next
  field,            \* the field it parses
  parsed,           \* bytes of the payload it has passed
  furthest,         \* history: furthest byte of the payload it has accessed
  text,             \* the characters it has stored, by field
  answer,           \* the status it returns
  shown             \* strings of currentEslData after the callback

vars == <<header, payload, at, field, parsed, furthest, text, answer, shown>>

Untouched == [f \in Field |-> <<>>]

Return(s) == at' = "returned" /\ answer' = s

-----------------------------------------------------------------------------
(***************************************************************************)
(* Faulty variants, see the module Sequencer.                              *)
(***************************************************************************)

NotConsumed ==
  /\ at = "consumed" /\ at' = "deliver"
  /\ UNCHANGED <<header, payload, field, parsed, furthest, text, answer, shown>>

-----------------------------------------------------------------------------
Init ==
  /\ header \in Header /\ payload \in Payload
  /\ at = "dispatch" /\ field = 1 /\ parsed = 0 /\ furthest = 0
  /\ text = Untouched /\ shown = Untouched /\ answer = "none"

(* The manufacturer, the command, and a length that lets each field have at *)
(* least its length byte.                                                   *)
Dispatch ==
  /\ at = "dispatch"
  /\ \/ /\ header \in {"other manufacturer", "no manufacturer"}
        /\ Return("UNSUPP_COMMAND")
     \/ /\ header = "other command"
        /\ Return("UNSUPP_CLUSTER")
     \/ /\ header = "display message" /\ Len(payload) < FieldNbr
        /\ Return("MALFORMED")
     \/ /\ header = "display message" /\ Len(payload) >= FieldNbr
        /\ at' = "length" /\ UNCHANGED answer
  /\ UNCHANGED <<header, payload, field, parsed, furthest, text, shown>>

(* The length of a field; that the first one has any was checked above.     *)
ParseLength ==
  LET length == payload[parsed + 1]
  IN  /\ at = "length"
      /\ IF field > 1 /\ parsed >= Len(payload)
         THEN Return("MALFORMED") /\ UNCHANGED <<parsed, furthest>>
         ELSE /\ parsed' = parsed + 1 /\ furthest' = parsed + 1
              /\ IF length > Size[field] \/ parsed + 1 + length > Len(payload)
                 THEN Return("MALFORMED")
                 ELSE at' = "copy" /\ UNCHANGED answer
      /\ UNCHANGED <<header, payload, field, text, shown>>

CopyText ==
  LET length == payload[parsed]
  IN  /\ at = "copy"
      /\ text' = [text EXCEPT ![field] = SubSeq(payload, parsed + 1, parsed + length)]
      /\ parsed' = parsed + length /\ furthest' = parsed + length
      /\ IF field < FieldNbr
         THEN field' = field + 1 /\ at' = "length"
         ELSE at' = "consumed" /\ UNCHANGED field
      /\ UNCHANGED <<header, payload, answer, shown>>

CheckConsumed ==
  /\ at = "consumed"
  /\ IF parsed # Len(payload) THEN Return("MALFORMED")
                           ELSE at' = "deliver" /\ UNCHANGED answer
  /\ UNCHANGED <<header, payload, field, parsed, furthest, text, shown>>

(* The string in a buffer of a given size once a terminator is stored after *)
(* its text, or in its last byte when the text leaves no room for it.       *)
Terminated(t, size) ==
  LET kept == SubSeq(t, 1, IF Len(t) < size THEN Len(t) ELSE size - 1)
      string == {i \in 1 .. Len(kept) : \A j \in 1 .. i : kept[j] # 0}
  IN  SubSeq(kept, 1, Cardinality(string))

(* The callback copies each string into a buffer of one byte more.          *)
Deliver ==
  /\ at = "deliver"
  /\ shown' = [f \in Field |-> Terminated(text[f], Size[f])]
  /\ Return("SUCCESS")
  /\ UNCHANGED <<header, payload, field, parsed, furthest, text>>

Handle ==
  Dispatch \/ ParseLength \/ CopyText \/ CheckConsumed \/ Deliver

Spec == Init /\ [][Handle]_vars

-----------------------------------------------------------------------------
(* Type invariant: what is stored of a field fits its buffer.               *)
TypeOK ==
  /\ header \in Header /\ payload \in Payload
  /\ at \in {"dispatch", "length", "copy", "consumed", "deliver", "returned"}
  /\ field \in Field /\ parsed \in Nat /\ furthest \in Nat
  /\ text \in [Field -> Seq(Byte)] /\ shown \in [Field -> Seq(Byte)]
  /\ \A f \in Field : Len(text[f]) <= Size[f] /\ Len(shown[f]) <= Size[f]
  /\ answer \in {"none", "SUCCESS", "MALFORMED", "UNSUPP_COMMAND", "UNSUPP_CLUSTER"}

(* The handler accesses bytes of the payload only, whatever its lengths say. *)
StaysInPayload == furthest <= Len(payload)

(* A command is accepted exactly if some texts that fit the buffers encode  *)
(* to it, and then those are the texts that the handler has stored.         *)
Encode(t) == FlattenSeq([f \in Field |-> <<Len(t[f])>> \o t[f]])

Texts == {t \in [Field -> UNION {[1 .. n -> Byte] : n \in 0 .. Max({Size[f] : f \in Field})}] :
            \A f \in Field : Len(t[f]) <= Size[f]}

Encodings == {Encode(t) : t \in Texts}

(* What becomes of an accepted text: its longest beginning that has no zero *)
(* and leaves a byte of the buffer free.  A text as long as its buffer loses *)
(* its last character, which the comments "Max 32 chars" (esl_cluster.h:36) *)
(* do not say: the handler ends it there (esl_cluster.c:234), although the  *)
(* callback's buffers have one byte more.                                   *)
KeepsBeginnings ==
  \A f \in Field :
    LET n == Len(shown[f]) IN
    /\ IsPrefix(shown[f], text[f]) /\ 0 \notin Range(shown[f]) /\ n < Size[f]
    /\ n < Len(text[f]) => n = Size[f] - 1 \/ text[f][n + 1] = 0

(* Commands are told apart by their encoding, and what is accepted of one   *)
(* is shown, but for the last character of a text of the full length.       *)
AcceptsEncodings ==
  at = "returned" /\ header = "display message" =>
    /\ answer = "SUCCESS" <=> payload \in Encodings
    /\ answer = "SUCCESS" => payload = Encode(text) /\ KeepsBeginnings
=============================================================================
