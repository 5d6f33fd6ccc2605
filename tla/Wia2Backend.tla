---------------------------- MODULE Wia2Backend ----------------------------
(***************************************************************************)
(* WindowsWia2Backend of src/src/wia2_backend.cpp with its                 *)
(* WiaDiscoveryModel of src/src/wia_discovery_model.cpp. A refresh         *)
(* enumerates the devices that WIA knows, one call of the device manager   *)
(* each, in which another thread may set the cancel flag of the request;   *)
(* the action ends where WIA is called. Then the discovery numbers the     *)
(* devices; an opaque id is its ordinal number.                            *)
(***************************************************************************)
EXTENDS Naturals, Subsequences

CONSTANTS
  Device,          \* the raw ids of devices
  MaxDiscovered,   \* kMaxDiscoveredDevices, which is also the bound of the enumeration
  MaxGeneration    \* numeric_limits<uint64_t>::max()

\* What the backend makes of a device whose properties cannot be read.
NoId == "no id"

ASSUME BackendAssumption ==
  /\ {MaxDiscovered, MaxGeneration} \subseteq Nat \ {0}
  /\ NoId \notin Device

VARIABLES
  manager,       \* the device manager is open
  enumerating,   \* execute() is enumerating devices
  discovered,    \* the devices enumerated so far: [id, public], public if both texts are valid
  cancelled,     \* cancel_requested of the running request
  reply,         \* what the last request came to
  generation,    \* generation_
  rawIds,        \* raw_ids_
  offered        \* the selections handed out since open(): <<generation, number, device>>

backendVars == <<manager, enumerating, discovered, cancelled, reply, generation, rawIds, offered>>

Entry == [id : Device \cup {NoId}, public : BOOLEAN]

BackendInit ==
  /\ manager = FALSE /\ enumerating = FALSE /\ discovered = <<>>
  /\ cancelled = FALSE /\ reply = "none"
  /\ generation = 0 /\ rawIds = <<>> /\ offered = {}

Open ==
  /\ ~manager
  /\ manager' = TRUE
  /\ UNCHANGED <<enumerating, discovered, cancelled, reply, generation, rawIds, offered>>

\* The caller of execute() receives a reply or an exception.
Reply(outcome) ==
  /\ enumerating' = FALSE /\ discovered' = <<>>
  /\ reply' = outcome

\* execute() up to the first call of the enumerator.
Execute(operation) ==
  /\ manager /\ ~enumerating
  /\ IF operation # "refresh"
     THEN Reply("unsupported_request")
     ELSE IF cancelled
          THEN Reply("cancelled")
          ELSE enumerating' = TRUE /\ reply' = "none" /\ UNCHANGED discovered
  /\ UNCHANGED <<manager, cancelled, generation, rawIds, offered>>

\* The loop of WiaDiscoveryModel::refresh(): each id counts where it comes first.
Listed(entries) ==
  LET First(i) == \A j \in 1 .. i - 1 : entries[j].id # entries[i].id
  IN Subsequence([i \in DOMAIN entries |-> entries[i].id],
       {i \in DOMAIN entries : entries[i].id # NoId /\ entries[i].public /\ First(i)})

\* A mutant: the new ids are added to those of the earlier refresh.
DiscoverMore(entries) ==
  IF generation = MaxGeneration
  THEN Reply("thrown") /\ UNCHANGED <<generation, rawIds, offered>>
  ELSE LET listed == IF Len(entries) > MaxDiscovered THEN <<>> ELSE Listed(entries)
       IN /\ generation' = generation + 1
          /\ rawIds' = rawIds \o SubSeq(listed, Len(rawIds) + 1, Len(listed))
          /\ offered' = offered \cup {<<generation', i, listed[i]>> : i \in DOMAIN listed}
          /\ Reply("success")

\* WiaDiscoveryModel::refresh() and the reply with its result.
Discover(entries) ==
  IF generation = MaxGeneration
  THEN Reply("thrown") /\ UNCHANGED <<generation, rawIds, offered>>
  ELSE LET listed == IF Len(entries) > MaxDiscovered THEN <<>> ELSE Listed(entries)
       IN /\ generation' = generation + 1
          /\ rawIds' = listed
          /\ offered' = offered \cup {<<generation', i, listed[i]>> : i \in DOMAIN listed}
          /\ Reply("success")

\* The loop of execute() ends: the flag is read once more.
EndEnumeration(entries) ==
  IF cancelled
  THEN Reply("cancelled") /\ UNCHANGED <<generation, rawIds, offered>>
  ELSE Discover(entries)

\* The enumerator yields a device; the loop goes on unless it is cancelled or has
\* seen one device more than the discovery takes.
Enumerate(entry) ==
  /\ enumerating
  /\ IF cancelled \/ Len(discovered) = MaxDiscovered
     THEN EndEnumeration(Append(discovered, entry))
     ELSE /\ discovered' = Append(discovered, entry)
          /\ UNCHANGED <<enumerating, reply, generation, rawIds, offered>>
  /\ UNCHANGED <<manager, cancelled>>

\* The enumerator has no more devices.
EnumerateEnd ==
  /\ enumerating
  /\ EndEnumeration(discovered)
  /\ UNCHANGED <<manager, cancelled>>

\* The enumerator fails: execute() throws.
EnumerateFails ==
  /\ enumerating
  /\ Reply("thrown")
  /\ UNCHANGED <<manager, cancelled, generation, rawIds, offered>>

\* close(), after the last request: the discovery starts over.
Close ==
  /\ ~enumerating
  /\ manager' = FALSE
  /\ generation' = 0 /\ rawIds' = <<>> /\ offered' = {}
  /\ UNCHANGED <<enumerating, discovered, cancelled, reply>>

\* The worker cancels the running request, or passes a new flag for the next one.
SetFlag ==
  /\ cancelled => ~enumerating
  /\ cancelled' = ~cancelled
  /\ UNCHANGED <<manager, enumerating, discovered, reply, generation, rawIds, offered>>

\* WiaDiscoveryModel::resolve_for_connection(): the device, or the error.
Resolve(number, of) ==
  IF of = 0 \/ of # generation
  THEN "stale"
  ELSE IF number \in DOMAIN rawIds THEN rawIds[number] ELSE "unavailable"

-----------------------------------------------------------------------------
BackendNext ==
  \/ Open
  \/ \E operation \in {"refresh", "scan"} : Execute(operation)
  \/ \E entry \in Entry : Enumerate(entry)
  \/ EnumerateEnd
  \/ EnumerateFails
  \/ Close
  \/ SetFlag

BackendSpec == BackendInit /\ [][BackendNext]_backendVars

-----------------------------------------------------------------------------
BackendTypeOK ==
  /\ {manager, enumerating, cancelled} \subseteq BOOLEAN
  /\ discovered \in Seq(Entry) /\ Len(discovered) <= MaxDiscovered
  /\ reply \in {"none", "success", "cancelled", "unsupported_request", "thrown"}
  /\ generation \in 0 .. MaxGeneration
  /\ rawIds \in Seq(Device) /\ Len(rawIds) <= MaxDiscovered
  /\ offered \subseteq (Nat \X Nat \X Device)

\* A selection that was handed out resolves to the device it named if its refresh
\* is the latest that succeeded, and else to the error that says it is stale;
\* never to another device and never to an unknown one.
SelectionsResolve ==
  \A selection \in offered :
    Resolve(selection[2], selection[1]) =
      IF selection[1] = generation THEN selection[3] ELSE "stale"

Selection == INSTANCE DeviceSelection WITH targets <- rawIds

\* While the backend is open, its refreshes keep the promise of a discovery: a
\* refresh that fails or is cancelled leaves the selections of the one before it
\* as they were, and a later one invalidates them. The list names a device once, under
\* the first entry that WIA gave for it. close() forgets them all, and nobody may
\* keep a selection over it: the generations start over.
ImplementsSelection == Selection!Spec
=============================================================================
