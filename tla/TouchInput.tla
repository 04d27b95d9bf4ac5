----------------------------- MODULE TouchInput -----------------------------
(***************************************************************************)
(* What the player touches, and the keys the game believes to be held: the *)
(* control buttons and the gestures of SurfaceViewController.m, the stick  *)
(* of ControlJoystick.m, the gamepad of ControllerInput.m, the hardware    *)
(* keyboard of KeyboardInput.m, the mouse, and nativeSendKey and           *)
(* nativeSendMouseButton of input_bridge_v3.m, which append to the queue   *)
(* of InputQueue.                                                          *)
(*                                                                         *)
(* UIKit calls every handler on the main thread, one after the other, so a *)
(* handler is one step; the game grabs and polls on its own thread. Nobody *)
(* ever asks what is still held: a key comes up only if the handler that   *)
(* ends a touch finds the state the one that began it has seen. Each press *)
(* that is orphaned is noted in "lost", at the step that orphans it.       *)
(***************************************************************************)
EXTENDS Integers, Sequences

CONSTANTS
    Button,             \* control buttons, shown in the game and in its menus
    Swipeable, Toggle,  \* those that can be swiped onto, those that latch
    keycodes,           \* the four codes of a button, in their order
    NoButton,
    Pad,                \* buttons of the gamepad
    gameMap, menuMap,   \* their codes while the game grabs, and in menus
    Direction,          \* directions a stick is pushed to, of 0 .. 7
    Slot,               \* hot bar keys
    Hardware,           \* keys of the keyboard
    MouseButtons,       \* buttons of the mouse
    Using,              \* bound: sources used together in one behaviour
    Capacity,           \* events the queue takes between two polls, 7999
    MaxClick            \* bound: taps that wait for their release

Centre == -1                \* of the directions of a stick
Never == -2
NoSlot == "none"
NoCode == "unknown"         \* GLFW_KEY_UNKNOWN
Sneak == "-shift"           \* -GLFW_KEY_LEFT_SHIFT: latches
Swallowed == {"enter", "backspace"}
StickKeys == {"w", "a", "s", "d"}
Stick == {"thumbstick", "joystick"}
Source == {"app", "buttons", "surface", "pad", "hardware", "mouse"} \cup Stick

(* The codes a button, the gamepad, and everything else may send.          *)
Codes(b) == {keycodes[b][i] : i \in 1 .. 4} \ {NoCode}
PadCodes ==
    {IF c = Sneak THEN "shift" ELSE c :
         c \in {gameMap[g] : g \in Pad} \cup {menuMap[g] : g \in Pad}} \ {NoCode}
OtherCodes ==
    {"left", "right", "q", "f", "escape"} \cup StickKeys \cup Slot \cup Hardware \cup MouseButtons

(* Control is sent again as Command, which Minecraft expects on macOS.     *)
WithCommand(codes) == codes \cup (IF "control" \in codes THEN {"super"} ELSE {})

Code == {"super"} \cup OtherCodes \cup PadCodes \cup UNION {Codes(b) : b \in Button}

ASSUME TouchAssumption ==
    /\ Swipeable \subseteq Button /\ Toggle \subseteq Button /\ NoButton \notin Button
    /\ Direction \subseteq 0 .. 7
    /\ NoSlot \notin Slot
    /\ Using \subseteq SUBSET Source
    /\ Capacity \in Nat \ {0} /\ MaxClick \in Nat \ {0}

VARIABLES
    using,
    isGrabbing,                         \* set by the game
    finger, swipingButton, isToggleOn,  \* control buttons
    slideableHotbar, enableMouseGestures,
    touches, hotbarTouch,               \* surface: fingers, one is the hot bar's
    shouldTriggerClick, long, over,     \* what the long press has pressed; too late
    currentHotbarSlot, clicks,          \* clicks to be released after 33 ms
    pressed, leftShiftHeld, AMControllerPassthrough,
    push, lastDirection,                \* sticks
    typed, textFieldActive, mouse,      \* keyboard and mouse
    room, held, lost                    \* queue; history: told to the game, orphaned

preferences == <<slideableHotbar, enableMouseGestures, using>>
buttons == <<finger, swipingButton, isToggleOn>>
gesture == <<hotbarTouch, shouldTriggerClick, long, over, currentHotbarSlot>>
surface == <<touches, gesture, clicks>>
pad == <<pressed, leftShiftHeld, AMControllerPassthrough>>
sticks == <<push, lastDirection>>
devices == <<typed, textFieldActive, mouse>>
queue == <<room, held, lost>>
vars == <<preferences, isGrabbing, buttons, surface, pad, sticks, devices, queue>>

Init ==
    /\ using \in Using /\ isGrabbing = FALSE
    /\ finger = [b \in Button |-> "up"] /\ swipingButton = NoButton
    /\ isToggleOn = [b \in Toggle |-> FALSE]
    /\ slideableHotbar \in BOOLEAN /\ enableMouseGestures \in BOOLEAN
    /\ "surface" \notin using => slideableHotbar /\ enableMouseGestures
    /\ touches = 0 /\ hotbarTouch = FALSE /\ shouldTriggerClick = FALSE
    /\ long = "none" /\ over = FALSE
    /\ currentHotbarSlot = NoSlot /\ clicks = 0
    /\ pressed = [g \in Pad |-> FALSE] /\ leftShiftHeld = FALSE
    /\ AMControllerPassthrough = FALSE
    /\ push = [s \in Stick |-> Centre] /\ lastDirection = [s \in Stick |-> Never]
    /\ typed = [k \in Hardware |-> FALSE] /\ textFieldActive = FALSE
    /\ mouse = [m \in MouseButtons |-> FALSE]
    /\ room = Capacity /\ held = {} /\ lost = {}

-----------------------------------------------------------------------------
(* The events of a handler, in their order.                                *)
Event(c, action) ==
    IF c = "control"
    THEN <<[code |-> c, down |-> action], [code |-> "super", down |-> action]>>
    ELSE <<[code |-> c, down |-> action]>>

Click(c) == Event(c, TRUE) \o Event(c, FALSE)

Events(codes, action) ==
    LET Part(i) == IF codes[i] = NoCode THEN <<>> ELSE Event(codes[i], action)
    IN  Part(1) \o Part(2) \o Part(3) \o Part(4)

(* A code is down after the events if the last of them about it says so.   *)
Told(evs) == {evs[i].code : i \in DOMAIN evs}
IsLast(evs, i) == \A j \in DOMAIN evs : evs[j].code = evs[i].code => j <= i
SaidDown(evs) == {evs[i].code : i \in {i \in DOMAIN evs : evs[i].down /\ IsLast(evs, i)}}
After(codes, evs) == (codes \ Told(evs)) \cup SaidDown(evs)

(* sendData takes what fits and drops the rest, until the game polls. The  *)
(* codes a handler orphans ("loses") stay lost until they are sent again;  *)
(* those whose last event is dropped are lost if that leaves them as they  *)
(* should not be.                                                          *)
SendAndLose(evs, loses) ==
    LET taken == IF Len(evs) <= room THEN Len(evs) ELSE room
    IN /\ room' = room - taken
       /\ held' = After(held, SubSeq(evs, 1, taken))
       /\ lost' = ((lost \cup loses) \ Told(evs))
                    \cup {c \in Told(evs) : (c \in held') # (c \in SaidDown(evs))}

Send(evs) == SendAndLose(evs, {})
Lose(codes) == lost' = lost \cup codes /\ UNCHANGED <<room, held>>

Poll ==
    /\ room # Capacity /\ room' = Capacity
    /\ UNCHANGED <<preferences, isGrabbing, buttons, surface, pad, sticks, devices,
                   held, lost>>

-----------------------------------------------------------------------------
(* Control buttons. executebtn sends the codes of a button.                *)
executebtn(b, action) == IF b = NoButton THEN <<>> ELSE Events(keycodes[b], action)

executebtn_downAny(b) ==    \* mutant: every button is swiped
    /\ "buttons" \in using /\ finger[b] = "up"
    /\ finger' = [finger EXCEPT ![b] = "down"]
    /\ swipingButton' = b
    /\ SendAndLose(IF b \in Toggle THEN <<>> ELSE executebtn(b, TRUE),
                   IF swipingButton \notin {b, NoButton} THEN Codes(swipingButton) ELSE {})
    /\ UNCHANGED <<preferences, isGrabbing, isToggleOn, surface, pad, sticks, devices>>

(* A latching button takes no notice of the finger going down.             *)
executebtn_down(b) ==
    /\ "buttons" \in using /\ finger[b] = "up"
    /\ finger' = [finger EXCEPT ![b] = "down"]
    /\ swipingButton' = IF b \in Swipeable THEN b ELSE swipingButton
    /\ SendAndLose(IF b \in Toggle THEN <<>> ELSE executebtn(b, TRUE),
                   IF b \in Swipeable /\ swipingButton \notin {b, NoButton}
                   THEN Codes(swipingButton) ELSE {})
    /\ UNCHANGED <<preferences, isGrabbing, isToggleOn, surface, pad, sticks, devices>>

(* What executebtn_up sends for a button, and whether it latches.          *)
Latches(b, isOutside) == b \in Toggle /\ ~isOutside
UpEvents(b, isOutside) ==
    (IF b = swipingButton \/ b \notin Toggle THEN executebtn(b, FALSE) ELSE <<>>) \o
    (IF Latches(b, isOutside) THEN executebtn(b, ~isToggleOn[b]) ELSE <<>>)
LatchedOutside(b, isOutside) ==     \* mutant: latches wherever the finger goes up
    [t \in Toggle |-> IF t = b THEN ~isToggleOn[t] ELSE isToggleOn[t]]
Latched(b, isOutside) ==
    [t \in Toggle |-> IF t = b /\ Latches(b, isOutside) THEN ~isToggleOn[t] ELSE isToggleOn[t]]

executebtn_up(b, isOutside) ==
    /\ finger[b] = "down"
    /\ finger' = [finger EXCEPT ![b] = "up"]
    /\ swipingButton' = IF b = swipingButton THEN NoButton ELSE swipingButton
    /\ isToggleOn' = Latched(b, isOutside)
    /\ Send(UpEvents(b, isOutside))
    /\ UNCHANGED <<preferences, isGrabbing, surface, pad, sticks, devices>>

(* Touch cancel has no target: iOS takes the finger away, and nobody says. *)
CancelButton(b) ==
    /\ finger[b] = "down"
    /\ finger' = [finger EXCEPT ![b] = "up"]
    /\ Lose(IF b \in Toggle THEN {} ELSE Codes(b))
    /\ UNCHANGED <<preferences, isGrabbing, swipingButton, isToggleOn, surface, pad, sticks,
                   devices>>

(* The pan of a swipeable button cancels its touch; from then on only the  *)
(* swipe is told.                                                          *)
Pan(b) ==
    /\ b \in Swipeable /\ finger[b] = "down"
    /\ finger' = [finger EXCEPT ![b] = "pan"]
    /\ UNCHANGED <<preferences, isGrabbing, swipingButton, isToggleOn, surface, pad, sticks,
                   devices, queue>>

executebtn_swipeOnto(b) ==  \* mutant: keeps the button it leaves
    /\ finger[b] = "pan"
    /\ \E other \in Swipeable \ {swipingButton} :
          /\ Send(executebtn(other, TRUE))
          /\ swipingButton' = other
    /\ UNCHANGED <<preferences, isGrabbing, finger, isToggleOn, surface, pad, sticks, devices>>

executebtn_swipe(b) ==
    /\ finger[b] = "pan"
    /\ \E other \in Swipeable \ {swipingButton} :
          /\ isToggleOn' = Latched(swipingButton, FALSE)
          /\ Send(UpEvents(swipingButton, FALSE) \o executebtn(other, TRUE))
          /\ swipingButton' = other
    /\ UNCHANGED <<preferences, isGrabbing, finger, surface, pad, sticks, devices>>

EndSwipe(b) ==
    /\ finger[b] = "pan"
    /\ finger' = [finger EXCEPT ![b] = "up"]
    /\ isToggleOn' = Latched(swipingButton, FALSE)
    /\ Send(UpEvents(swipingButton, FALSE))
    /\ swipingButton' = NoButton
    /\ UNCHANGED <<preferences, isGrabbing, surface, pad, sticks, devices>>

-----------------------------------------------------------------------------
(* The surface. touchHotbar finds no slot while the game does not grab.    *)
touchHotbar == IF isGrabbing THEN Slot \cup {NoSlot} ELSE {NoSlot}

(* What a long press presses: drop on the hot bar, or the mouse button.     *)
LongCode(slot) ==
    IF slot # NoSlot THEN "q" ELSE IF enableMouseGestures THEN "left" ELSE "nothing"

touchesBegan ==
    /\ "surface" \in using /\ touches < 2
    /\ touches' = touches + 1
    /\ currentHotbarSlot' \in touchHotbar
    /\ hotbarTouch' = (hotbarTouch \/ currentHotbarSlot' # NoSlot)
    /\ shouldTriggerClick' = TRUE
    /\ over' = (touches' = 2)
    /\ Lose(IF slideableHotbar /\ LongCode(currentHotbarSlot') # long
            THEN {long} \ {"none", "nothing"} ELSE {})
    /\ UNCHANGED <<preferences, isGrabbing, buttons, long, clicks, pad, sticks, devices>>

(* The finger leaves the range of a click, or slides to another slot.      *)
touchesMoved ==
    /\ touches > 0
    /\ \E slot \in touchHotbar :
          IF hotbarTouch /\ slideableHotbar /\ NoSlot \notin {slot, currentHotbarSlot}
             /\ slot # currentHotbarSlot
          THEN currentHotbarSlot' = slot /\ Send(Click(slot))
          ELSE shouldTriggerClick /\ UNCHANGED <<currentHotbarSlot, queue>>
    /\ shouldTriggerClick' = FALSE
    /\ UNCHANGED <<preferences, isGrabbing, buttons, touches, hotbarTouch, long, over, clicks,
                   pad, sticks, devices>>

(* A finger goes up, or is cancelled.                                      *)
Leave ==
    /\ touches > 0 /\ touches' = touches - 1
    /\ hotbarTouch' \in IF touches' = 0 THEN {FALSE} ELSE {hotbarTouch, FALSE}

touchesEnded ==
    /\ Leave /\ long = "none"
    /\ over' = (touches' # 0)
    /\ UNCHANGED <<preferences, isGrabbing, buttons, shouldTriggerClick, long,
                   currentHotbarSlot, clicks, pad, sticks, devices, queue>>

(* A tap presses the mouse button of the moment, and lets go of the mouse  *)
(* button of the moment 33 ms later.                                       *)
MouseButton == IF isGrabbing THEN "right" ELSE "left"

surfaceOnClick ==
    /\ Leave /\ touches = 1 /\ long = "none" /\ ~over /\ shouldTriggerClick
    /\ IF currentHotbarSlot # NoSlot
       THEN Send(Click(currentHotbarSlot)) /\ UNCHANGED clicks
       ELSE /\ enableMouseGestures /\ clicks < MaxClick
            /\ clicks' = clicks + 1 /\ Send(Event(MouseButton, TRUE))
    /\ UNCHANGED <<preferences, isGrabbing, buttons, shouldTriggerClick, long, over,
                   currentHotbarSlot, pad, sticks, devices>>

ReleaseGrabbed ==           \* mutant: lets go only while the game grabs
    /\ clicks > 0 /\ clicks' = clicks - 1
    /\ Send(IF isGrabbing THEN Event(MouseButton, FALSE) ELSE <<>>)
    /\ UNCHANGED <<preferences, isGrabbing, buttons, touches, gesture, pad, sticks, devices>>

Release ==
    /\ clicks > 0 /\ clicks' = clicks - 1
    /\ Send(Event(MouseButton, FALSE))
    /\ UNCHANGED <<preferences, isGrabbing, buttons, touches, gesture, pad, sticks, devices>>

(* The second tap on a slot swaps the hands.                               *)
surfaceOnDoubleClick ==
    /\ Leave /\ touches = 1 /\ long = "none" /\ ~over /\ isGrabbing
    /\ currentHotbarSlot # NoSlot
    /\ Send(Click("f"))
    /\ UNCHANGED <<preferences, isGrabbing, buttons, shouldTriggerClick, long, over,
                   currentHotbarSlot, clicks, pad, sticks, devices>>

(* The slot is looked up anew at every state of a long press, unless the   *)
(* finger slides over the hot bar.                                         *)
LookUp == currentHotbarSlot' \in IF slideableHotbar THEN {currentHotbarSlot} ELSE touchHotbar

LongEvent(slot, action) ==
    IF LongCode(slot) = "nothing" THEN <<>> ELSE Event(LongCode(slot), action)

surfaceOnLongpress ==
    /\ touches = 1 /\ long = "none" /\ ~over
    /\ LookUp
    /\ shouldTriggerClick' = FALSE
    /\ long' = LongCode(currentHotbarSlot')
    /\ Send(LongEvent(currentHotbarSlot', TRUE))
    /\ UNCHANGED <<preferences, isGrabbing, buttons, touches, hotbarTouch, over, clicks,
                   pad, sticks, devices>>

EndLongpress ==
    /\ Leave /\ long # "none"
    /\ LookUp
    /\ long' = "none" /\ over' = (touches' # 0)
    /\ SendAndLose(LongEvent(currentHotbarSlot', FALSE),
                   IF slideableHotbar THEN {} ELSE {long} \ {"nothing"})
    /\ UNCHANGED <<preferences, isGrabbing, buttons, shouldTriggerClick, clicks, pad, sticks,
                   devices>>

(* The settings are closed, with a finger still down: what the press would *)
(* let go of may not be what it has pressed.                               *)
updatePreferenceChanges ==
    /\ "surface" \in using
    /\ slideableHotbar' \in BOOLEAN /\ enableMouseGestures' \in BOOLEAN
    /\ UNCHANGED <<using, isGrabbing, buttons, surface, pad, sticks, devices>>
    /\ Lose(IF slideableHotbar' /\ LongCode(currentHotbarSlot)' # long
            THEN {long} \ {"none", "nothing"} ELSE {})

-----------------------------------------------------------------------------
(* The gamepad. A button is looked up in the map of the moment, when it is *)
(* pressed and again when it is released.                                  *)
PadCode(g) == IF isGrabbing THEN gameMap[g] ELSE menuMap[g]

PadEventUnlatched(c, down) ==   \* mutant: the shift of a button leaves the latch alone
    CASE c = NoCode -> Send(<<>>) /\ UNCHANGED leftShiftHeld
      [] c = Sneak -> IF down THEN Send(<<>>) /\ UNCHANGED leftShiftHeld
                      ELSE leftShiftHeld' = ~leftShiftHeld
                           /\ Send(Event("shift", leftShiftHeld'))
      [] OTHER -> Send(Event(c, down)) /\ UNCHANGED leftShiftHeld

PadEvent(c, down) ==
    CASE c = NoCode -> Send(<<>>) /\ UNCHANGED leftShiftHeld
      [] c = Sneak -> IF down THEN Send(<<>>) /\ UNCHANGED leftShiftHeld
                      ELSE leftShiftHeld' = ~leftShiftHeld
                           /\ Send(Event("shift", leftShiftHeld'))
      [] OTHER -> /\ Send(Event(c, down))
                  /\ leftShiftHeld' = IF c = "shift" THEN down ELSE leftShiftHeld

PadChanged(g) ==
    /\ "pad" \in using
    /\ pressed' = [pressed EXCEPT ![g] = ~@]
    /\ IF AMControllerPassthrough THEN UNCHANGED <<leftShiftHeld, queue>>
       ELSE PadEvent(PadCode(g), pressed'[g])
    /\ UNCHANGED <<preferences, isGrabbing, buttons, surface, AMControllerPassthrough,
                   sticks, devices>>

PadHolds == {PadCode(g) : g \in {g \in Pad : pressed[g]}} \ {NoCode, Sneak}

-----------------------------------------------------------------------------
(* Sticks: a change of direction sends all four keys; the last direction   *)
(* is remembered for each stick, whatever the other one has sent. A stick  *)
(* exactly on an axis counts as centred, and the joystick stays where it   *)
(* is when the finger ends on its lock.                                    *)
StickDown(d) ==
    {k \in StickKeys : d \in CASE k = "w" -> 1 .. 3 [] k = "a" -> 3 .. 5
                             [] k = "s" -> 5 .. 7 [] k = "d" -> {7, 0, 1}}

StickEvents(d) == [i \in 1 .. 4 |-> LET k == <<"w", "a", "s", "d">>[i]
                                    IN [code |-> k, down |-> k \in StickDown(d)]]

Listens(s) == isGrabbing /\ ~(s = "thumbstick" /\ AMControllerPassthrough)

StickMoved(s) ==
    /\ s \in using
    /\ \E d \in (Direction \cup {Centre}) \ {push[s]} :
          /\ push' = [push EXCEPT ![s] = d]
          /\ IF Listens(s) /\ lastDirection[s] # d
             THEN /\ Send(StickEvents(d))
                  /\ lastDirection' = [lastDirection EXCEPT ![s] = d]
             ELSE UNCHANGED <<lastDirection, queue>>
    /\ UNCHANGED <<preferences, isGrabbing, buttons, surface, pad, devices>>

StickHolds(s) == IF push[s] = Centre THEN {} ELSE StickDown(lastDirection[s])

(* The joystick does not hear of a cancelled touch.                        *)
CancelJoystick ==
    /\ push["joystick"] # Centre
    /\ push' = [push EXCEPT !["joystick"] = Centre]
    /\ Lose(StickHolds("joystick"))
    /\ UNCHANGED <<preferences, isGrabbing, buttons, surface, pad, lastDirection, devices>>

(* The controller is gone, or is not heard of while the app is away: its   *)
(* handlers are dropped and nothing is let go. The latch and the last      *)
(* direction are static, and outlive it.                                   *)
controllerDisconnect ==
    /\ using \cap {"pad", "thumbstick"} # {}
    /\ pressed' = [g \in Pad |-> FALSE]
    /\ push' = [push EXCEPT !["thumbstick"] = Centre]
    /\ Lose(PadHolds \cup StickHolds("thumbstick"))
    /\ UNCHANGED <<preferences, isGrabbing, buttons, surface, leftShiftHeld,
                   AMControllerPassthrough, lastDirection, devices>>

(* The codes the buttons hold: under a finger, by a swipe, or latched.      *)
ButtonHolds(b) ==
    \/ finger[b] = "down" /\ b \notin Toggle
    \/ swipingButton = b /\ \E f \in Swipeable : finger[f] # "up"
    \/ b \in Toggle /\ isToggleOn[b]

ButtonsHold == UNION {Codes(b) : b \in {b \in Button : ButtonHolds(b)}}

(* Custom controls: every button and the joystick are removed, and when    *)
(* the screen is closed new ones are made, none of them latched. A touch   *)
(* or a swipe that is told of its end has ended before. swipingButton is   *)
(* the old button still, until another one that can be swiped is touched.  *)
loadCustomControls ==
    /\ using \cap {"buttons", "joystick"} # {}
    /\ finger' = [b \in Button |-> "up"]
    /\ isToggleOn' = [b \in Toggle |-> FALSE]
    /\ push' = [push EXCEPT !["joystick"] = Centre]
    /\ Lose(ButtonsHold \cup StickHolds("joystick"))
    /\ UNCHANGED <<preferences, isGrabbing, swipingButton, surface, pad, lastDirection, devices>>

-----------------------------------------------------------------------------
(* The keyboard: keys that edit text are left to a text field; a cancelled *)
(* press counts as a release.                                              *)
Press(k) ==
    /\ "hardware" \in using
    /\ typed' = [typed EXCEPT ![k] = ~@]
    /\ Send(IF textFieldActive /\ k \in Swallowed THEN <<>> ELSE Event(k, typed'[k]))
    /\ UNCHANGED <<preferences, isGrabbing, buttons, surface, pad, sticks, textFieldActive,
                   mouse>>

ToggleTextField ==
    /\ "hardware" \in using
    /\ textFieldActive' = ~textFieldActive
    /\ Lose(IF textFieldActive' THEN {k \in Swallowed \cap Hardware : typed[k]} ELSE {})
    /\ UNCHANGED <<preferences, isGrabbing, buttons, surface, pad, sticks, typed, mouse>>

(* The mouse sends what it is told, and its handlers are dropped as it goes. *)
MouseChanged(m) ==
    /\ "mouse" \in using
    /\ mouse' = [mouse EXCEPT ![m] = ~@]
    /\ Send(Event(m, mouse'[m]))
    /\ UNCHANGED <<preferences, isGrabbing, buttons, surface, pad, sticks, typed,
                   textFieldActive>>

MouseHolds == {m \in MouseButtons : mouse[m]}

mouseDisconnect ==
    /\ "mouse" \in using
    /\ mouse' = [m \in MouseButtons |-> FALSE]
    /\ Lose(MouseHolds)
    /\ UNCHANGED <<preferences, isGrabbing, buttons, surface, pad, sticks, typed,
                   textFieldActive>>

-----------------------------------------------------------------------------
(* The game grabs the pointer, or opens one of its menus; it takes the     *)
(* gamepad over (SDL), or gives it back; it is paused when the app leaves. *)
nativeSetGrabbing ==
    /\ isGrabbing' = ~isGrabbing
    /\ Lose((IF clicks > 0 THEN {MouseButton} ELSE {}) \cup PadHolds
            \cup UNION {StickHolds(s) : s \in Stick})
    /\ UNCHANGED <<preferences, buttons, surface, pad, sticks, devices>>

SetPassthrough ==
    /\ using \cap {"pad", "thumbstick"} # {}
    /\ AMControllerPassthrough' = ~AMControllerPassthrough
    /\ Lose(PadHolds \cup StickHolds("thumbstick"))
    /\ UNCHANGED <<preferences, isGrabbing, buttons, surface, pressed, leftShiftHeld, sticks,
                   devices>>

pauseGameIfNeed ==
    /\ "app" \in using /\ isGrabbing
    /\ Send(Click("escape"))
    /\ UNCHANGED <<preferences, isGrabbing, buttons, surface, pad, sticks, devices>>

-----------------------------------------------------------------------------
Buttons ==
    \E b \in Button :
        \/ executebtn_down(b) \/ CancelButton(b) \/ Pan(b)
        \/ executebtn_swipe(b) \/ EndSwipe(b)
        \/ \E isOutside \in BOOLEAN : executebtn_up(b, isOutside)

Surface ==
    \/ touchesBegan \/ touchesMoved \/ touchesEnded \/ surfaceOnClick \/ Release
    \/ surfaceOnDoubleClick \/ surfaceOnLongpress \/ EndLongpress

(* What is held is taken out of the player's hands.                        *)
Taken == controllerDisconnect \/ mouseDisconnect \/ loadCustomControls \/ updatePreferenceChanges

Game == Poll \/ nativeSetGrabbing \/ SetPassthrough \/ pauseGameIfNeed

Next ==
    \/ Buttons \/ Surface \/ Game \/ Taken
    \/ \E g \in Pad : PadChanged(g)
    \/ \E s \in Stick : StickMoved(s)
    \/ CancelJoystick \/ ToggleTextField
    \/ \E k \in Hardware : Press(k)
    \/ \E m \in MouseButtons : MouseChanged(m)

(* The main queue runs the block of dispatch_after.                        *)
Spec == Init /\ [][Next]_vars /\ WF_vars(Release)

-----------------------------------------------------------------------------
(* Every variable has its type; only a button that can be swiped is ever   *)
(* the one being swiped.                                                   *)
TypeOK ==
    /\ using \in Using /\ isGrabbing \in BOOLEAN
    /\ finger \in [Button -> {"up", "down", "pan"}]
    /\ swipingButton \in Swipeable \cup {NoButton}
    /\ isToggleOn \in [Toggle -> BOOLEAN]
    /\ slideableHotbar \in BOOLEAN /\ enableMouseGestures \in BOOLEAN
    /\ touches \in 0 .. 2 /\ hotbarTouch \in BOOLEAN /\ shouldTriggerClick \in BOOLEAN
    /\ long \in {"none", "nothing", "left", "q"} /\ over \in BOOLEAN
    /\ currentHotbarSlot \in Slot \cup {NoSlot} /\ clicks \in 0 .. MaxClick
    /\ pressed \in [Pad -> BOOLEAN]
    /\ leftShiftHeld \in BOOLEAN /\ AMControllerPassthrough \in BOOLEAN
    /\ push \in [Stick -> Direction \cup {Centre}]
    /\ lastDirection \in [Stick -> Direction \cup {Centre, Never}]
    /\ typed \in [Hardware -> BOOLEAN] /\ textFieldActive \in BOOLEAN
    /\ mouse \in [MouseButtons -> BOOLEAN]
    /\ room \in 0 .. Capacity /\ held \in SUBSET Code /\ lost \in SUBSET Code

(* What the player holds at the moment, by the source.                     *)
Wanted ==
    ButtonsHold
    \cup (IF clicks > 0 THEN {MouseButton} ELSE {})
    \cup ({long} \ {"none", "nothing"})
    \cup PadHolds \cup (IF leftShiftHeld THEN {"shift"} ELSE {})
    \cup (UNION {StickHolds(s) : s \in Stick})
    \cup {k \in Hardware : typed[k]} \cup MouseHolds

(* A key the game holds is held by the player, or its release was lost at  *)
(* one of the steps above that say so: a full queue; a cancelled touch; a  *)
(* second finger on the buttons or the surface; a slot, a map, a setting,  *)
(* a text field or the pointer that changed in mid-press; a device or a    *)
(* layout taken away. The handlers leave no other key stuck.               *)
HeldIsWanted == held \subseteq WithCommand(Wanted \cup lost)

(* A latched button that looks pressed holds its keys, if nothing else     *)
(* sends them. (One that is swiped onto as well releases them outside.)    *)
Elsewhere(b) ==
    OtherCodes \cup PadCodes \cup UNION {Codes(c) : c \in Button \ {b}}

ToggleShown ==
    \A b \in Toggle \ Swipeable :
        isToggleOn[b] /\ Codes(b) \cap WithCommand(Elsewhere(b)) = {}
            => Codes(b) \subseteq held \cup lost

(* The latch of the gamepad, which the joystick reports as the shift       *)
(* modifier, is what the game holds, if nothing else sends shift.          *)
SneakShown ==
    "shift" \notin lost \cup OtherCodes \cup UNION {Codes(b) : b \in Button}
        => (leftShiftHeld <=> "shift" \in held)

(* Once the player's hands are off, the game is left with what is latched, *)
(* and with what was lost.                                                 *)
HandsOff ==
    /\ \A b \in Button : finger[b] = "up"
    /\ touches = 0
    /\ \A g \in Pad : ~pressed[g]
    /\ \A s \in Stick : push[s] = Centre
    /\ \A k \in Hardware : ~typed[k]
    /\ \A m \in MouseButtons : ~mouse[m]

Latching ==
    (UNION {Codes(b) : b \in {b \in Toggle : isToggleOn[b]}})
    \cup (IF leftShiftHeld THEN {"shift"} ELSE {})

LetGo == <>[]HandsOff => <>[](held \subseteq WithCommand(Latching \cup lost))
=============================================================================
