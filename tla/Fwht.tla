-------------------------------- MODULE Fwht --------------------------------
(***************************************************************************)
(* fwht_512 as a machine: a stage per step, each on the whole column.      *)
(***************************************************************************)
EXTENDS WalshHadamard

CONSTANT Inputs    \* the columns that are transformed

VARIABLES
  input,   \* the column that was passed
  x,       \* the column as the stages leave it
  h        \* half the size of the groups of the next stage

fwhtVars == <<input, x, h>>

FwhtInit ==
  /\ input \in Inputs
  /\ x = input
  /\ h = 1

NextStage ==
  /\ h < N
  /\ x' = Stage(x, h)
  /\ h' = 2 * h
  /\ UNCHANGED input

FwhtSpec == FwhtInit /\ [][NextStage]_fwhtVars /\ WF_fwhtVars(NextStage)
=============================================================================
