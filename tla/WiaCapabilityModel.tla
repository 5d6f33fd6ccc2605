------------------------- MODULE WiaCapabilityModel -------------------------
(***************************************************************************)
(* src/src/wia_capability_model.cpp: what a driver says of a device's      *)
(* items becomes a profile for each source, a request is checked against   *)
(* its profile and becomes the values to write, and what the driver reads  *)
(* back is checked again. A property is a record [readable, shape, current, *)
(* values, minimum, maximum, step]; one that an item lacks is <<>> and one *)
(* that it has <<property>>. Where the code throws, a set or a sequence is   *)
(* empty or an action has no step.                                         *)
(***************************************************************************)
EXTENDS Integers, SequencesExt, Subsequences

CONSTANTS
  MinDpi, MaxDpi,   \* kMinDpi, kMaxDpi
  MaxValues,        \* kMaxPropertyValues
  MaxPageCount,     \* the 10000 of max_pages()
  Item,             \* the items that devices may have
  DeviceItems,      \* the lists of items that devices may have
  Request,          \* scan requests: [source, dpi, color, depth, pages]
  Readback          \* what a driver may read back: [x, y, color, depth, pages]

ASSUME CapabilityAssumption ==
  /\ MinDpi \in Nat /\ MaxDpi \in Nat
  /\ MaxValues \in Nat \ {0} /\ MaxPageCount \in Nat \ {0}
  /\ DeviceItems \subseteq Seq(Item)
  /\ \A item \in Item : \A optional \in {item.x, item.y, item.type, item.depth, item.pages} :
       optional # <<>> =>
         {optional[1].minimum, optional[1].maximum, optional[1].step} \subseteq Int

VARIABLES
  items,      \* the items of the device
  stage,      \* how far the negotiation is: "device", "profiles", "written", "accepted"
  profiles,   \* WiaCapabilityResult::profiles
  wanted,     \* the user's request
  writes,     \* WiaPropertyWriteSet
  accepted    \* AcceptedWiaSettings

capabilityVars == <<items, stage, profiles, wanted, writes, accepted>>

Nothing == "nothing"

Depths == {1, 8, 16, 24, 48}
Colors == {"gray8", "rgb24"}
DataType(color) == IF color = "gray8" THEN 2 ELSE 3

\* A mutant: a range is counted from zero and not from its minimum.
RangeFromZero(property) ==
  {property.step * k : k \in 0 .. property.maximum \div property.step}

\* The loop over a range.
RangeValues(property) ==
  {property.minimum + property.step * k :
     k \in 0 .. (property.maximum - property.minimum) \div property.step}

\* allowed_values() of an optional property: the values, none where it throws.
AllowedValues(optional) ==
  IF optional = <<>> \/ ~optional[1].readable
  THEN {}
  ELSE LET property == optional[1]
       IN IF property.shape = "list"
          THEN IF Cardinality(property.values) <= MaxValues THEN property.values ELSE {}
          ELSE IF property.shape = "range"
               THEN IF \/ property.step <= 0 \/ property.minimum > property.maximum
                       \/ (property.maximum - property.minimum) \div property.step + 1 > MaxValues
                    THEN {}
                    ELSE RangeValues(property)
               ELSE IF property.shape = "scalar" THEN {property.current} ELSE {}

\* resolution_intersection().
Resolutions(item) == AllowedValues(item.x) \cap AllowedValues(item.y) \cap (MinDpi .. MaxDpi)

\* color_modes().
ColorModes(item) == {color \in Colors : DataType(color) \in AllowedValues(item.type)}

\* bit_depths().
BitDepths(item) == AllowedValues(item.depth) \cap Depths

\* max_pages() of a feeder: zero where it throws.
PageLimit(item) ==
  IF item.pages = <<>>
  THEN 0
  ELSE LET pages == item.pages[1]
       IN IF \/ ~pages.readable \/ pages.shape # "range"
             \/ pages.minimum < 0 \/ pages.maximum <= 0 \/ pages.step <= 0
          THEN 0
          ELSE IF pages.maximum < MaxPageCount THEN pages.maximum ELSE MaxPageCount

\* profile_for(), as a sequence with the profile, or without one where it throws.
ProfileFor(item, source) ==
  LET profile == [source |-> source, dpi |-> Resolutions(item), colors |-> ColorModes(item),
                  depths |-> BitDepths(item),
                  pages |-> IF source = "flatbed" THEN 1 ELSE PageLimit(item)]
  IN IF \/ ~item.transfer \/ {} \in {profile.dpi, profile.colors, profile.depths}
        \/ profile.pages = 0
     THEN <<>>
     ELSE <<profile>>

\* handling_flags() has the duplex flag; the flags are a set here.
SaysDuplex(item) ==
  /\ item.handling # <<>>
  /\ item.handling[1].readable /\ item.handling[1].shape = "flags"
  /\ "duplex" \in item.handling[1].values

\* map_wia_capabilities(): the first flatbed and the first feeder have profiles.
Profiles(list) ==
  LET First(i) == \A j \in 1 .. i - 1 : list[j].category # list[i].category
      Of(i) ==
        IF ~First(i)
        THEN <<>>
        ELSE CASE list[i].category = "flatbed" -> ProfileFor(list[i], "flatbed")
               [] list[i].category = "feeder" ->
                    ProfileFor(list[i], "adf_simplex") \o
                    (IF SaysDuplex(list[i]) THEN ProfileFor(list[i], "adf_duplex") ELSE <<>>)
               [] OTHER -> <<>>
  IN FlattenSeq([i \in DOMAIN list |-> Of(i)])

\* validate_request().
Supports(profile, of) ==
  /\ profile.source = of.source
  /\ of.dpi \in profile.dpi /\ of.color \in profile.colors /\ of.depth \in profile.depths
  /\ of.pages \in 1 .. profile.pages

\* The profile for the source wanted, in a sequence.
ProfilesOf(of) == Subsequence(profiles, {i \in DOMAIN profiles : profiles[i].source = of.source})

-----------------------------------------------------------------------------
CapabilityInit ==
  /\ items \in DeviceItems
  /\ stage = "device"
  /\ profiles = <<>>
  /\ wanted = Nothing /\ writes = Nothing /\ accepted = Nothing

MapCapabilities ==
  /\ stage' = "profiles"
  /\ profiles' = Profiles(items)
  /\ wanted' = Nothing /\ writes' = Nothing /\ accepted' = Nothing
  /\ UNCHANGED items

\* prepare_wia_property_writes(); where it throws, nothing changes.
PrepareWrites(of) ==
  /\ stage # "device"
  /\ ProfilesOf(of) # <<>> /\ Supports(ProfilesOf(of)[1], of)
  /\ stage' = "written"
  /\ wanted' = of
  /\ writes' = [x |-> of.dpi, y |-> of.dpi, type |-> DataType(of.color),
                depth |-> of.depth, pages |-> of.pages]
  /\ accepted' = Nothing
  /\ UNCHANGED <<items, profiles>>

\* validate_wia_readback().
ReadBack(values) ==
  /\ stage = "written"
  /\ LET profile == ProfilesOf(wanted)[1]
         settings == [source |-> wanted.source, dpi |-> values.x, color |-> values.color,
                      depth |-> values.depth, pages |-> values.pages]
     IN /\ values.x = values.y /\ Supports(profile, settings)
        /\ accepted' = [dpi |-> values.x, color |-> values.color, depth |-> values.depth,
                        pages |-> values.pages, coerced |-> settings # wanted]
  /\ stage' = "accepted"
  /\ UNCHANGED <<items, profiles, wanted, writes>>

CapabilityNext ==
  \/ MapCapabilities
  \/ \E of \in Request : PrepareWrites(of)
  \/ \E values \in Readback : ReadBack(values)

CapabilitySpec == CapabilityInit /\ [][CapabilityNext]_capabilityVars

-----------------------------------------------------------------------------
\* The driver says that the property may have the value.
DriverAllows(optional, value) ==
  /\ optional # <<>> /\ optional[1].readable
  /\ CASE optional[1].shape = "list" -> value \in optional[1].values
       [] optional[1].shape = "range" ->
            /\ value \in optional[1].minimum .. optional[1].maximum
            /\ (value - optional[1].minimum) % optional[1].step = 0
       [] optional[1].shape = "scalar" -> value = optional[1].current
       [] OTHER -> FALSE

\* An item of the device can transfer with these settings from the source.
Offers(item, source, dpi, color, depth) ==
  /\ item.category = (IF source = "flatbed" THEN "flatbed" ELSE "feeder")
  /\ item.transfer
  /\ DriverAllows(item.x, dpi) /\ DriverAllows(item.y, dpi)
  /\ DriverAllows(item.type, DataType(color))
  /\ DriverAllows(item.depth, depth)
  /\ source = "adf_duplex" => SaysDuplex(item)

\* One item of the device offers the settings, and its driver counts as many pages.
DeviceOffers(source, dpi, color, depth, pages) ==
  \E i \in DOMAIN items :
    /\ Offers(items[i], source, dpi, color, depth)
    /\ pages >= 1
    /\ IF source = "flatbed" THEN pages = 1 ELSE pages <= items[i].pages[1].maximum

\* What is written to the driver, and what is accepted of the values it reads
\* back, is a source, a resolution, a colour and a depth that one item of the
\* device itself reports together, whatever shapes its properties have. Of the page
\* count this says only that it is not zero and not above that item's maximum: that
\* the driver has the count is more than max_pages() looks for (see PagesReported).
\* And settings that differ from the request are accepted only as coerced.
NegotiationHolds ==
  /\ stage \in {"written", "accepted"} =>
       /\ DeviceOffers(wanted.source, wanted.dpi, wanted.color, wanted.depth, wanted.pages)
       /\ writes.x = writes.y
  /\ stage = "accepted" =>
       /\ DeviceOffers(wanted.source, accepted.dpi, accepted.color, accepted.depth, accepted.pages)
       /\ \/ accepted.coerced
          \/ accepted = [dpi |-> wanted.dpi, color |-> wanted.color, depth |-> wanted.depth,
                         pages |-> wanted.pages, coerced |-> FALSE]

\* "A request is rejected unless every requested value is in the driver's
\* list/range/flags" (docs/WINDOWS_WIA_ADAPTER_CONTRACT.md:57-58), the page count of a
\* feeder among them.
PagesReported ==
  stage = "written" =>
    \E i \in DOMAIN items :
      /\ Offers(items[i], wanted.source, wanted.dpi, wanted.color, wanted.depth)
      /\ wanted.source # "flatbed" => DriverAllows(items[i].pages, wanted.pages)
=============================================================================
