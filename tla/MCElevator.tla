----------------------------- MODULE MCElevator -----------------------------
EXTENDS Elevator

CONSTANTS ui, worker, none

MCThreads == {ui, worker}
=============================================================================
