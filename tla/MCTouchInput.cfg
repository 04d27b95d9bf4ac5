SPECIFICATION Spec
CONSTANTS
    Button = {"latch", "left", "right"}
    Swipeable = {"left", "right"}
    Toggle = {"latch", "right"}
    keycodes <- MCKeycodes
    NoButton = NoButton
    Pad = {"A", "L3"}
    gameMap <- MCGameMap
    menuMap <- MCMenuMap
    Direction = {1, 2}
    Slot = {"1"}
    Hardware = {"enter"}
    MouseButtons = {"left"}
    Using <- MCUsing
    Capacity = 4
    MaxClick = 1
INVARIANTS
    TypeOK
    HeldIsWanted
    ToggleShown
    SneakShown
PROPERTIES
    LetGo
