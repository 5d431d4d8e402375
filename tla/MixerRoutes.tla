---------------------------- MODULE MixerRoutes ----------------------------
(***************************************************************************)
(* The mixer of the audio HAL (tinyalsa_audio/mixer.c): its configuration, *)
(* read element by element (configs/tinyalsa-audio.xml), and the routes of *)
(* the three directions that are set with it.  All of them write the       *)
(* controls of one codec.                                                  *)
(*                                                                         *)
(* Every call is made under the device lock, so that one action is a whole *)
(* call.  The card may fail to open and a control may be refused.          *)
(***************************************************************************)
EXTENDS Integers, Sequences, SequencesExt

CONSTANTS
  Configs,          \* by name, the configurations: the start and end tags; a value is
                    \* <<number>>, or <<least, most>> where a volume sets it
  RoutedDevices,    \* the devices that may be asked for
  Refusable,        \* the controls that the codec may refuse
  MaxMixerFaults    \* bound

AllDirections == {"output", "input", "modem"}
NoType == <<"none", "none">>
NoDevice == [type |-> NoType, enable |-> << >>, disable |-> << >>]
NoProps == "none"
On == <<1>>

VARIABLES
  config,      \* the configuration, and what its parser has between two tags
  mixer,       \* of each direction: its io_props, devices, state, device_current
  controls,    \* of the codec: the value of each control
  mixerFaults  \* [budget, refused]: the controls whose last value was refused (ghost)

mixerVars == <<config, mixer, controls, mixerFaults>>

(* Outside the directions the parser is at the output, whose number is 0.    *)
ParserBegins(file) ==
  [file |-> file, read |-> 0, direction |-> "output", io_props |-> NoProps, type |-> NoType,
   device |-> NoDevice, list_start |-> "none"]
NoDirection == [props |-> NoProps, devices |-> << >>, state |-> FALSE, device_current |-> NoDevice]
NoMixer == [d \in AllDirections |-> NoDirection]
FileNames(file) == { tag.name : tag \in ToSet(Configs[file]) } \ {"none"}

MixerInit ==
  /\ config \in { ParserBegins(file) : file \in DOMAIN Configs }
  /\ mixer = NoMixer
  /\ controls = [c \in FileNames(config.file) |-> <<-1>>]
  /\ mixerFaults = [budget |-> MaxMixerFaults, refused |-> {}]

-----------------------------------------------------------------------------
(* Reading the configuration                                               *)

(* The types that a device of a direction may have.                         *)
OutputTypes == {"default", "earpiece", "speaker", "wired-headset", "wired-headphone",
  "bt-sco", "bt-sco-headset", "bt-sco-carkit", "bt-a2dp", "bt-a2dp-headphones",
  "bt-a2dp-speaker", "aux-digital", "analog-dock-headset", "digital-dock-headset"}
InputTypes == {"default", "communication", "ambient", "builtin-mic", "bt-sco-headset",
  "wired-headset", "aux-digital", "voice-call", "back-mic"}
Knows(direction, name) ==
  \/ direction \in {"output", "modem"} /\ name \in OutputTypes
  \/ direction = "input" /\ name \in InputTypes
SideOf(direction) == IF direction = "input" THEN "in" ELSE "out"

(* A device of an unknown type takes the type of the last one.              *)
DeviceStarts(p, tag) ==
  LET type == IF Knows(p.direction, tag.type) THEN <<SideOf(p.direction), tag.type>> ELSE p.type
  IN IF type = NoType THEN p
     ELSE [p EXCEPT !.type = type, !.device = [NoDevice EXCEPT !.type = type]]

PathStarts(p, tag) ==
  IF tag.type \in {"enable", "disable"} THEN [p EXCEPT !.list_start = tag.type] ELSE p

(* <ctrl> and <write>: one without a name or a value is dropped.            *)
ControlStarts(p, tag) ==
  IF p.device # NoDevice /\ p.list_start # "none" /\ tag.name # "none" /\ tag.value # << >>
  THEN [p EXCEPT !.device[p.list_start] =
          Append(@, [type |-> tag.elem, name |-> tag.name, value |-> tag.value, attr |-> tag.attr])]
  ELSE p

(* The parser and the directions, r, after one more tag.                    *)
ReadStart(r, tag) ==
  [r EXCEPT !.config =
     CASE tag.elem \in AllDirections -> [@ EXCEPT !.direction = tag.elem, !.io_props = tag.props]
       [] tag.elem = "device" -> DeviceStarts(@, tag)
       [] tag.elem = "path" -> PathStarts(@, tag)
       [] tag.elem \in {"ctrl", "write"} -> ControlStarts(@, tag)
       [] OTHER -> @]

ReadEnd(r, tag) ==
  CASE tag.elem \in AllDirections ->
         [r EXCEPT !.mixer[tag.elem].props = r.config.io_props,
                   !.config.io_props = NoProps, !.config.direction = "output"]
    [] tag.elem = "device" ->
         [r EXCEPT !.mixer[r.config.direction].devices = Append(@, r.config.device),
                   !.config.device = NoDevice]
    [] tag.elem = "path" -> [r EXCEPT !.config.list_start = "none"]
    [] OTHER -> r

ReadOne(r, tag) ==
  LET next == IF tag.start THEN ReadStart(r, tag) ELSE ReadEnd(r, tag)
  IN [next EXCEPT !.config.read = @ + 1]

(* tinyalsa_mixer_open(): the handlers of tinyalsa_mixer_config_parse(), tag *)
(* by tag.                                                                  *)
ReadTag ==
  /\ config.read < Len(Configs[config.file])
  /\ LET next == ReadOne([config |-> config, mixer |-> mixer], Configs[config.file][config.read + 1])
     IN config' = next.config /\ mixer' = next.mixer
  /\ UNCHANGED <<controls, mixerFaults>>

IsOpen == config.read = Len(Configs[config.file])

-----------------------------------------------------------------------------
(* Routes                                                                  *)

(* tinyalsa_mixer_get_device(): the first of the type.                      *)
FirstOf(devices, type) ==
  LET found == { i \in DOMAIN devices : devices[i].type = type } IN
  IF found = {} THEN NoDevice ELSE devices[Min(found)]
GetDevice(d, type) == FirstOf(mixer[d].devices, type)

(* tinyalsa_mixer_get_data_with_attr(): a <write> at the end matches too.   *)
GetData(list, attr) ==
  LET found == { i \in DOMAIN list : list[i].type = "ctrl" /\ list[i].attr = attr } IN
  CASE found # {} -> {list[Min(found)]}
    [] found = {} /\ list # << >> /\ Last(list).type = "write" -> {Last(list)}
    [] OTHER -> {}

(* tinyalsa_mixer_set_route_list(): each control takes the last of the values*)
(* the list has for it.  One that is refused is skipped, and so is the volume*)
(* of a call, which is set when it is asked for.                            *)
SetRouteList(values, list, refused) ==
  [c \in DOMAIN values |->
     LET writes == { i \in DOMAIN list : list[i].name = c /\ list[i].attr # "voice-volume" } IN
     IF c \in refused \/ writes = {} THEN values[c] ELSE list[Max(writes)].value]

(* Mutant of SetRoute: the controls of the old device are left on.          *)
SetRouteKeepsOld(m, d, type, opens, refused) ==
  LET device == GetDevice(d, type) IN
  IF ~opens \/ device = NoDevice THEN [m EXCEPT !.ok = FALSE]
  ELSE [m EXCEPT !.controls = SetRouteList(@, device.enable, refused),
                 !.mixer[d].device_current = device]

(* One direction of tinyalsa_mixer_set_device(): the mixers and the controls *)
(* after it, or what it found when the card or the device is missing.       *)
SetRoute(m, d, type, opens, refused) ==
  LET device == GetDevice(d, type)
      old    == m.mixer[d].device_current IN
  CASE ~opens \/ device = NoDevice -> [ok |-> FALSE, mixer |-> m.mixer, controls |-> m.controls]
    [] opens /\ device # NoDevice /\ device = old -> m
    [] OTHER ->
         [ok |-> m.ok, mixer |-> [m.mixer EXCEPT ![d].device_current = device],
          controls |-> SetRouteList(SetRouteList(m.controls, old.disable, refused),
                                    device.enable, refused)]

-----------------------------------------------------------------------------
(* What a call may meet: a card that does not open, a control refused.      *)
Meets(opens, refused) ==
  /\ ~opens \/ refused # {} => mixerFaults.budget > 0
  /\ mixerFaults' = [mixerFaults EXCEPT !.refused = @ \cup refused,
       !.budget = IF opens /\ refused = {} THEN @ ELSE @ - 1]
Refusals == {{}} \cup { {c} : c \in Refusable \cap DOMAIN controls }

(* tinyalsa_mixer_set_state(): a direction begins with its default device    *)
(* and ends with what its current device and the default one undo.          *)
SetState(d, on) ==
  LET current == mixer[d].device_current
      default == GetDevice(d, <<SideOf(d), "default">>) IN
  /\ IsOpen /\ mixer[d].state # on
  /\ \E opens \in BOOLEAN, refused \in Refusals :
       /\ Meets(opens, refused)
       /\ IF opens
          THEN /\ controls' =
                    IF on THEN SetRouteList(controls, default.enable, refused)
                    ELSE SetRouteList(SetRouteList(controls, current.disable, refused),
                                      default.disable, refused)
               /\ mixer' = [mixer EXCEPT ![d].state = on, ![d].device_current = NoDevice]
          ELSE UNCHANGED <<mixer, controls>>
  /\ UNCHANGED config

(* tinyalsa_mixer_set_device(): the running directions of its side, in this  *)
(* order, up to the first that fails.                                       *)
SetMixerDevice(type) ==
  \E opens \in BOOLEAN, refused \in Refusals :
    LET Turn(m, d) == IF m.ok /\ mixer[d].state /\ (type[1] = "in" <=> d = "input")
                      THEN SetRoute(m, d, type, opens, refused) ELSE m
        begin == [ok |-> TRUE, mixer |-> mixer, controls |-> controls]
        done  == Turn(Turn(Turn(begin, "output"), "input"), "modem")
    IN /\ IsOpen /\ Meets(opens, refused)
       /\ mixer' = done.mixer /\ controls' = done.controls
  /\ UNCHANGED config

(* tinyalsa_mixer_set_device_volume_with_attr(): a control with the attribute*)
(* and a range takes a value of it, whatever device is current.             *)
SetVolume(d, type, attr, percent) ==
  /\ mixer[d].state
  /\ \E e \in GetData(GetDevice(d, type).enable, attr), refused \in Refusals :
       /\ e.type = "ctrl" /\ Len(e.value) = 2
       /\ Meets(TRUE, refused \cap {e.name})
       /\ controls' = IF e.name \in refused THEN controls
                      ELSE [controls EXCEPT ![e.name] =
                              <<((e.value[2] - e.value[1]) * percent) \div 100 + e.value[1]>>]
  /\ UNCHANGED <<config, mixer>>

(* tinyalsa_mixer_set_device_state_with_attr(): for the microphones' mute.  *)
SetMute(d, type, mute) ==
  LET device == GetDevice(d, type) IN
  /\ mixer[d].state
  /\ \E e \in GetData(IF mute THEN device.enable ELSE device.disable, "mic-mute"),
        refused \in Refusals :
       /\ e.type = "ctrl"
       /\ Meets(TRUE, refused \cap {e.name})
       /\ controls' = SetRouteList(controls, <<e>>, refused)
  /\ UNCHANGED <<config, mixer>>

(* tinyalsa_mixer_close() of a mixer whose directions have ended; it may be  *)
(* opened again.                                                            *)
CloseMixer ==
  /\ IsOpen /\ \A d \in AllDirections : ~mixer[d].state
  /\ mixer' = NoMixer
  /\ config' = ParserBegins(config.file)
  /\ UNCHANGED <<controls, mixerFaults>>

MixerNext ==
  \/ ReadTag
  \/ \E d \in AllDirections, on \in BOOLEAN : SetState(d, on)
  \/ \E type \in RoutedDevices : SetMixerDevice(type)
  \/ \E type \in RoutedDevices, percent \in 0..100 :
       SetVolume("modem", type, "voice-volume", percent)
  \/ \E type \in RoutedDevices, mute \in BOOLEAN : SetMute("modem", type, mute)
  \/ CloseMixer

MixerSpec == MixerInit /\ [][MixerNext]_mixerVars

-----------------------------------------------------------------------------
(* What a configuration asks for: m is the mixer that has read it.          *)
ValueIn(list, c) == { e.value : e \in { x \in ToSet(list) : x.name = c } }
NamesIn(list) == { e.name : e \in list }
DevicesOf(m, d) == ToSet(m[d].devices)
ListsOf(m, d) == UNION { ToSet(v.enable) \cup ToSet(v.disable) : v \in DevicesOf(m, d) }
Shared(m) == FirstOf(m["output"].devices, <<"out", "default">>)
Switches(m) ==
  NamesIn({ x \in ListsOf(m, "output") : x.value = On }) \ NamesIn(ToSet(Shared(m).enable))
InputNames(m) == NamesIn(ListsOf(m, "input"))

(* The value is the one that the output's device asks for, or else the      *)
(* default one.                                                             *)
Suits(m, device, c, value) ==
  LET own == ValueIn(device.enable, c)  common == ValueIn(Shared(m).enable, c)
  IN IF own # {} THEN value \in own ELSE common # {} => value \in common

(* Whatever streams and phone calls came and went on whatever devices: a     *)
(* switch that only a device of the output turns on is on exactly while it   *)
(* is the current one; and without a phone call, what the output's device    *)
(* and the default one ask for is what the codec has, in spite of the        *)
(* volumes that a call put there.  Controls that were refused, and those the *)
(* inputs share, are left out.                                              *)
ControlsFollowRoutes ==
  IsOpen =>
    LET current == mixer["output"].device_current IN
    /\ \A c \in Switches(mixer) \ mixerFaults.refused :
         controls[c] = On <=> On \in ValueIn(current.enable, c)
    /\ mixer["output"].state /\ ~mixer["modem"].state =>
         \A c \in DOMAIN controls \ (mixerFaults.refused \cup InputNames(mixer)) :
           Suits(mixer, current, c, controls[c])

-----------------------------------------------------------------------------
(* The mixer that a configuration describes.                                *)
Contents(file) ==
  LET read[n \in Nat] == IF n = 0 THEN [config |-> ParserBegins(file), mixer |-> NoMixer]
                         ELSE ReadOne(read[n - 1], Configs[file][n])
  IN read[Len(Configs[file])].mixer

(* A device of the output turns each of its switches off, and leaves what it *)
(* shares with the default device as that one has it.                       *)
OutputUndoes(m, v) ==
  /\ \A c \in Switches(m) :
       /\ On \notin ValueIn(v.disable, c)
       /\ On \in ValueIn(v.enable, c) =>
            ValueIn(v.enable, c) = {On} /\ c \in NamesIn(ToSet(v.disable))
  /\ \A c \in NamesIn(ToSet(Shared(m).enable)) \ InputNames(m) :
       LET left == IF c \in NamesIn(ToSet(v.disable)) THEN v.disable ELSE v.enable
       IN ValueIn(left, c) \subseteq ValueIn(Shared(m).enable, c)

(* The controls that a device of the output asks for and the inputs do not.  *)
AskedControls(m) ==
  (UNION { NamesIn(ToSet(u.enable)) : u \in DevicesOf(m, "output") }) \ InputNames(m)

(* A device of the modem puts back what any device of the output asks for.  *)
ModemUndoes(m, v) ==
  /\ NamesIn(ToSet(v.enable)) \cap AskedControls(m) \subseteq NamesIn(ToSet(v.disable))
  /\ \A c \in AskedControls(m), u \in DevicesOf(m, "output") \cup {NoDevice} :
       \A value \in ValueIn(v.disable, c) : Suits(m, u, c, value)
  /\ \A e \in ToSet(v.enable) \cup ToSet(v.disable) :
       e.name \in AskedControls(m) => e.attr \notin {"voice-volume", "mic-mute"}

Undoes(m) ==
  /\ \A e \in ListsOf(m, "output") : e.attr # "voice-volume"
  /\ Switches(m) \cap (InputNames(m) \cup NamesIn(ListsOf(m, "modem"))) = {}
  /\ \A v \in DevicesOf(m, "output") : OutputUndoes(m, v)
  /\ \A v \in DevicesOf(m, "modem") : ModemUndoes(m, v)

(* What the configuration has to promise, as tinyalsa-audio.xml does: only   *)
(* then can the mixer, which undoes nothing but what it is told to, keep the *)
(* controls with the routes.                                                *)
ASSUME ConfigsUndo ==
  \A file \in DOMAIN Configs :
    Configs[file] \in Seq(ToSet(Configs[file])) /\ Undoes(Contents(file))
=============================================================================
