-------------------------- MODULE DeviceSelection --------------------------
(***************************************************************************)
(* What a discovery promises to its user, whatever the protocol: a search  *)
(* numbers the devices it finds, each once, and offers the numbers, each   *)
(* with the search's generation. A selection that was offered by the       *)
(* current search stands for the device it was offered for until the next  *)
(* search begins; selections of earlier searches stand for nothing.        *)
(***************************************************************************)
EXTENDS Naturals, Sequences, Functions

CONSTANTS
  Device,         \* the devices there are
  MaxGeneration   \* the largest generation number

VARIABLES
  generation,     \* of the latest search
  targets,        \* the device that each number of this generation stands for
  offered         \* the selections users hold: <<generation, number, device>>

vars == <<generation, targets, offered>>

Unoffered == \A selection \in offered : selection[1] # generation

Init == generation = 0 /\ targets = <<>> /\ offered = {}

\* Every number that may be selected once the search has found these devices.
Offer(found, of) == {<<of, number, found[number]>> : number \in DOMAIN found}

\* The devices found so far, each once, and whether they are offered now.
Settle ==
  /\ targets' \in Seq(Device) /\ IsInjective(targets')
  /\ offered' \in {offered, offered \cup Offer(targets', generation')}

Search ==
  /\ generation < MaxGeneration
  /\ generation' = generation + 1
  /\ Settle

\* The search goes on, finds more or gives up, until it offers what it has found.
Continue ==
  /\ Unoffered
  /\ UNCHANGED generation
  /\ Settle

\* The discovery is closed, and nobody keeps a selection.
Restart == generation' = 0 /\ targets' = <<>> /\ offered' = {}

Next == Search \/ Continue \/ Restart

Spec == Init /\ [][Next]_vars

\* A selection of the current generation stands for the device it was offered for.
Honoured ==
  \A selection \in offered :
    selection[1] = generation =>
      selection[2] \in DOMAIN targets /\ targets[selection[2]] = selection[3]
=============================================================================
