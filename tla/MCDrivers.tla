------------------------------ MODULE MCDrivers ------------------------------
(***************************************************************************)
(* Drivers that share no state: a behaviour is one of a DMA channel, of    *)
(* the queues on four nodes, one of another region and one of another      *)
(* type, of the clock tree and what is clocked from it, or of a UART.      *)
(***************************************************************************)
EXTENDS DmaChannel, DmaQueue, PeriphClock, UartPort

(* Node 3 is in SRAM2, the others in SRAM1, at 0x2001 and 0x2000.            *)
MCRegion == [n \in Node |-> IF n = 3 THEN {29, 16} ELSE {29}]
MCKind == [n \in Node |-> IF n = 4 THEN 2 ELSE 1]

VARIABLE driver

MCInit ==
  /\ DmaInit /\ QueueInit /\ PeriphInit /\ PortInit
  /\ driver \in {"channel", "queues", "clocks", "uart"}
  /\ rccUse \in IF driver = "clocks" THEN {"buses", "pll", "slow"} ELSE {"slow"}
  /\ driver # "uart" => uart = "console"

MCNext ==
  /\ \/ driver = "channel" /\ DmaNext /\ UNCHANGED <<queueVars, periphVars, portVars>>
     \/ driver = "queues" /\ QueueNext /\ UNCHANGED <<dmaVars, periphVars, portVars>>
     \/ driver = "clocks" /\ PeriphNext /\ UNCHANGED <<dmaVars, queueVars, portVars>>
     \/ driver = "uart" /\ PortNext /\ UNCHANGED <<dmaVars, queueVars, periphVars>>
  /\ UNCHANGED driver

MCSpec == MCInit /\ [][MCNext]_<<dmaVars, queueVars, periphVars, portVars, driver>>
=============================================================================
