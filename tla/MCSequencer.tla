----------------------------- MODULE MCSequencer -----------------------------
(***************************************************************************)
(* The instance of Sequencer for TLC's liveness run; the other one is in   *)
(* MCKernel.                                                               *)
(***************************************************************************)
EXTENDS Sequencer

CONSTANTS e1, e2

(* Two tasks compete at priority 0, one of them waits.                      *)
MCRequests == {<<0, 0>>, <<1, 0>>, <<2, 1>>}
MCWaits == {<<0, e1>>}

(* Every task has a callback here, and so the search always ends: what runs *)
(* past the last priority is left to MCKernel.                              *)
SignalledNext == ~At("overrun") /\ Next

(* Every event waited for is signalled again and again.                     *)
SignalledSpec ==
  Init /\ [][SignalledNext]_vars /\ Fairness /\ \A e \in Event : SF_vars(SetEvt(e))

=============================================================================
