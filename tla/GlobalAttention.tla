--------------------------- MODULE GlobalAttention ---------------------------
(***************************************************************************)
(* What the distributed attention protocols promise.  Every call comes     *)
(* with a set of active blocks, spread over the devices.  Each device      *)
(* returns, call after call, a softmax over exactly the active blocks of   *)
(* that call: every active block weighed in once, its keys paired with its *)
(* own values, nothing else weighed in at all.                             *)
(***************************************************************************)
EXTENDS Naturals

CONSTANTS Devices, Blocks, Calls, Absent

VARIABLES
  active,   \* call -> set of blocks retained by the eviction gate
  call,     \* device -> the call it is running
  output    \* call -> device -> the bag of (key, value) blocks it attended

vars == <<active, call, output>>

\* Every block of S once, keys with their own values.
OnceEach(S) == [pair \in {<<b, b>> : b \in S} |-> 1]

Init ==
  /\ active \in [1 .. Calls -> SUBSET Blocks]
  /\ call = [d \in Devices |-> 1]
  /\ output = [c \in 1 .. Calls |-> [d \in Devices |-> Absent]]

Return(d) ==
  /\ call[d] \in 1 .. Calls
  /\ output' = [output EXCEPT ![call[d]][d] = OnceEach(active[call[d]])]
  /\ call' = [call EXCEPT ![d] = @ + 1]
  /\ UNCHANGED active

Next == \E d \in Devices : Return(d)

Spec == Init /\ [][Next]_vars

=============================================================================
