------------------------------- MODULE MCWia -------------------------------
(***************************************************************************)
(* The instance of the WIA modules that TLC checks. The backend with its   *)
(* discovery, the negotiation of settings and the transfer are separate    *)
(* objects of the program that share no state and that nothing in src/     *)
(* joins yet; each behaviour exercises one of them.                        *)
(***************************************************************************)
EXTENDS WiaTransferModel, Wia2Backend, WiaCapabilityModel

VARIABLE activity   \* the object that this behaviour exercises

wiaVars == <<vars, backendVars, capabilityVars, activity>>

List(values) ==
  <<[readable |-> TRUE, shape |-> "list", current |-> 0, values |-> values,
     minimum |-> 0, maximum |-> 0, step |-> 0]>>

Steps(minimum, maximum, step) ==
  <<[readable |-> TRUE, shape |-> "range", current |-> 0, values |-> {},
     minimum |-> minimum, maximum |-> maximum, step |-> step]>>

Scalar(value, readable) ==
  <<[readable |-> readable, shape |-> "scalar", current |-> value, values |-> {},
     minimum |-> 0, maximum |-> 0, step |-> 0]>>

Flags(flags) ==
  <<[readable |-> TRUE, shape |-> "flags", current |-> 0, values |-> flags,
     minimum |-> 0, maximum |-> 0, step |-> 0]>>

\* Resolutions of all shapes, too few and too many, inside and outside 3 .. 9.
XResolutions ==
  {<<>>, List({2, 4, 6}), Steps(1, 8, 3), Steps(-2, 10, 4), Steps(4, 3, 1), Steps(0, 9, 1),
   Scalar(4, TRUE), Scalar(4, FALSE)}

FlatbedItems ==
  [category : {"flatbed"}, transfer : BOOLEAN, x : XResolutions,
   y : {List({4, 6}), Steps(2, 10, 2)},
   type : {List({1, 2}), List({3})}, depth : {List({1, 8, 12})}, pages : {<<>>}, handling : {<<>>}]

FeederItems ==
  [category : {"feeder"}, transfer : {TRUE}, x : {List({4, 7}), Steps(3, 9, 2)}, y : {Steps(1, 9, 3)},
   type : {List({2, 3})}, depth : {Scalar(8, TRUE), Scalar(5, TRUE)},
   pages : {<<>>, Steps(1, 2, 1), Steps(0, 5, 1), Steps(2, 4, 2), Scalar(2, TRUE)},
   handling : {<<>>, Flags({"duplex"}), Flags({"feeder"}), Scalar(1, TRUE)}]

MCItem ==
  FlatbedItems \cup FeederItems \cup {[feeder EXCEPT !.category = "unknown"] : feeder \in FeederItems}

\* Devices with a flatbed, with two of them, or with a feeder behind an unknown item.
MCDeviceItems ==
  {<<>>} \cup {<<item>> : item \in FlatbedItems} \cup
  {<<first, second>> : first \in {i \in FlatbedItems : i.x = List({2, 4, 6})},
                       second \in {i \in FlatbedItems : i.x = Scalar(4, TRUE)}} \cup
  {<<[feeder EXCEPT !.category = "unknown"], feeder>> : feeder \in FeederItems}

MCRequest ==
  [source : {"flatbed", "adf_simplex", "adf_duplex"}, dpi : {2, 4, 7}, color : Colors,
   depth : {8, 12}, pages : 0 .. 4]

MCReadback ==
  [x : {4, 6, 7}, y : {4, 7}, color : Colors, depth : {1, 8}, pages : {0, 1, 3}]

WiaInit ==
  /\ Init /\ BackendInit
  /\ \/ activity \in {"transfer", "discovery"} /\ CapabilityInit /\ items = <<>>
     \/ activity = "negotiation" /\ CapabilityInit

WiaNext ==
  /\ UNCHANGED activity
  /\ \/ activity = "transfer" /\ Next /\ UNCHANGED <<backendVars, capabilityVars>>
     \/ activity = "discovery" /\ BackendNext /\ UNCHANGED <<vars, capabilityVars>>
     \/ activity = "negotiation" /\ CapabilityNext /\ UNCHANGED <<vars, backendVars>>

WiaSpec == WiaInit /\ [][WiaNext]_wiaVars
=============================================================================
