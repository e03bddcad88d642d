--------------------------- MODULE ScreensProofs ---------------------------
(***************************************************************************)
(* Proofs about the touch UI, for any number of files, channels, timers    *)
(* and clear tasks, with a registry and a back stack large enough for the  *)
(* menus: Back, the active flags, the disarm timers, the two-tap buttons.  *)
(***************************************************************************)
EXTENDS Screens, TLAPS

\* What the registry and the stack must hold: eleven screens, three levels.
SizesSuffice == RegistryMax >= 11 /\ StackMax >= 3

\* The menus are a tree: each screen is reached from one other.
UnderTiles    == {"settings", "measurement", "graph"}
UnderSettings == {"time_settings", "wifi_settings", "log_manager", "sd_info"}
UnderTime     == {"set_time", "timezone"}

\* The back stack is the way to the screen shown.
Way(n, one, two, three) ==
    /\ Len(s_screen_stack) = n
    /\ n >= 1 => s_screen_stack[1] = one
    /\ n >= 2 => s_screen_stack[2] = two
    /\ n >= 3 => s_screen_stack[3] = three

OnTheWay ==
    /\ s_current_screen = "tiles" => Way(0, None, None, None)
    /\ s_current_screen \in UnderTiles => Way(1, "tiles", None, None)
    /\ s_current_screen \in UnderSettings => Way(2, "tiles", "settings", None)
    /\ s_current_screen = "graph_config" => Way(2, "tiles", "graph", None)
    /\ s_current_screen \in UnderTime => Way(3, "tiles", "settings", "time_settings")

\* The tiles in the table have their widgets while they are shown.
TilesDrawn == Shown("tiles") => s_tiles \subseteq widgets

\* A button that is armed on the screen shown was tapped there.
ArmedByTap ==
    \A b \in Buttons :
        Shown(ScreenOf(b)) /\ armed[b] # None => <<b, armed[b]>> \in tapped

\* The labels, one by one; Delete's is drawn with the list.
LabelsTrue ==
    /\ Shown("log_manager") => label["clear"] = armed["clear"]
    /\ Shown("log_manager") /\ ui = Idle => label["delete"] = armed["delete"]
    /\ Shown("wifi_settings") => label["forget"] = armed["forget"] \/ forgetting # "no"

\* A clear is announced before its task exists, and disarmed.
ClearAnnounced ==
    /\ \A i, j \in ClearTasks : clearTask[i] # None /\ clearTask[j] # None => i = j
    /\ (\E i \in ClearTasks : clearTask[i] # None) => s_clear_in_progress
    /\ s_clear_in_progress => armed["clear"] = None

ScreensInv ==
    /\ ScreensTypeOK /\ OnTheWay /\ ActiveIsShown /\ TilesDrawn
    /\ OnlyLeftoversUseDeleted /\ TimerPointers /\ ArmedWillDisarm /\ ArmedByTap
    /\ LabelsTrue /\ ClearAnnounced

-----------------------------------------------------------------------------
\* The three kinds of wait are told apart.
LEMMA Waits ==
    /\ Idle # Listing
    /\ \A f \in Files : Erasing(f) # Idle /\ Erasing(f) # Listing
    /\ \A f, g \in Files : Erasing(f) = Erasing(g) => f = g
  BY DEF Idle, Listing, Erasing

\* Every screen of the menus is registered, if the registry is large enough.
LEMMA AllRegistered ==
    ASSUME SizesSuffice
    PROVE  /\ Registry = AllScreens
           /\ AllScreens = {"tiles"} \cup UnderTiles \cup UnderSettings \cup UnderTime
                                \cup {"graph_config"}
  <1>1. DOMAIN RegisterOrder = 1..11
    BY DEF RegisterOrder
  <1>2. {j \in DOMAIN RegisterOrder : j <= RegistryMax} = DOMAIN RegisterOrder
    BY <1>1, ScreensAssumption DEF SizesSuffice, ScreensAssumption
  <1>3. AllScreens = {"tiles", "settings", "measurement", "set_time", "sd_info", "log_manager",
                      "graph", "graph_config", "timezone", "time_settings", "wifi_settings"}
    <2>1. 1..11 = {1, 2, 3, 4, 5, 6, 7, 8, 9, 10, 11}
      OBVIOUS
    <2>2. AllScreens = {RegisterOrder[i] : i \in {1, 2, 3, 4, 5, 6, 7, 8, 9, 10, 11}}
      BY <1>1, <2>1 DEF AllScreens
    <2>. QED
      BY <2>2 DEF RegisterOrder
  <1>. QED
    BY <1>2, <1>3 DEF Registry, AllScreens, UnderTiles, UnderSettings, UnderTime

\* What the navigation callbacks make of the screen and the stack.
LEMMA PushWay ==
    ASSUME SizesSuffice, ScreensTypeOK, OnTheWay,
           NEW s, <<s_current_screen, s>> \in Links \cup TileLinks,
           s_screen_stack' = IF Len(s_screen_stack) < StackMax
                             THEN Append(s_screen_stack, s_current_screen)
                             ELSE s_screen_stack,
           s_current_screen' = s
    PROVE  OnTheWay' /\ s \in AllScreens
  <1>1. \/ s_current_screen = "tiles" /\ s \in UnderTiles
        \/ s_current_screen = "settings" /\ s \in UnderSettings
        \/ s_current_screen = "time_settings" /\ s \in UnderTime
        \/ s_current_screen = "graph" /\ s = "graph_config"
    BY DEF Links, TileLinks, UnderTiles, UnderSettings, UnderTime
  <1>2. s \in AllScreens
    BY <1>1, AllRegistered
  <1>3. /\ s_current_screen = "tiles" => Way(0, None, None, None)
        /\ s_current_screen \in {"settings", "graph"} => Way(1, "tiles", None, None)
        /\ s_current_screen = "time_settings" => Way(2, "tiles", "settings", None)
    BY DEF OnTheWay, UnderTiles, UnderSettings
  <1>4. Len(s_screen_stack) < StackMax
    <2>1. Len(s_screen_stack) \in {0, 1, 2}
      BY <1>1, <1>3 DEF Way
    <2>2. \A n \in {0, 1, 2} : n < StackMax
      BY ScreensAssumption DEF SizesSuffice, ScreensAssumption
    <2>. QED
      BY <2>1, <2>2
  <1>5. /\ Len(s_screen_stack') = Len(s_screen_stack) + 1
        /\ \A i \in 1..Len(s_screen_stack) : s_screen_stack'[i] = s_screen_stack[i]
        /\ s_screen_stack'[Len(s_screen_stack) + 1] = s_current_screen
    BY <1>4 DEF ScreensTypeOK
  <1>6. /\ s_current_screen = "tiles" => Way(1, "tiles", None, None)'
        /\ s_current_screen = "settings" => Way(2, "tiles", "settings", None)'
        /\ s_current_screen = "graph" => Way(2, "tiles", "graph", None)'
        /\ s_current_screen = "time_settings" => Way(3, "tiles", "settings", "time_settings")'
    BY <1>3, <1>5 DEF Way
  <1>. QED
    BY <1>1, <1>2, <1>6 DEF OnTheWay, UnderTiles, UnderSettings, UnderTime

LEMMA PopWay ==
    ASSUME SizesSuffice, ScreensTypeOK, OnTheWay, ~Shown("tiles"), NEW flags,
           screen_pop(flags)
    PROVE  /\ s_screen_stack # <<>>
           /\ s_screen_stack[Len(s_screen_stack)] \in AllScreens
           /\ s_current_screen' = s_screen_stack[Len(s_screen_stack)] => OnTheWay'
  <1>1. \/ s_current_screen \in UnderTiles /\ Way(1, "tiles", None, None)
        \/ s_current_screen \in UnderSettings /\ Way(2, "tiles", "settings", None)
        \/ s_current_screen = "graph_config" /\ Way(2, "tiles", "graph", None)
        \/ s_current_screen \in UnderTime /\ Way(3, "tiles", "settings", "time_settings")
    BY AllRegistered DEF ScreensTypeOK, OnTheWay, Shown
  <1>2. s_screen_stack # <<>>
    BY <1>1 DEF Way
  <1>3. /\ Len(s_screen_stack') = Len(s_screen_stack) - 1
        /\ \A i \in 1..(Len(s_screen_stack) - 1) : s_screen_stack'[i] = s_screen_stack[i]
    BY <1>2 DEF screen_pop, ScreensTypeOK
  <1>4. \/ s_screen_stack[Len(s_screen_stack)] = "tiles" /\ Way(0, None, None, None)'
        \/ s_screen_stack[Len(s_screen_stack)] \in {"settings", "graph"}
              /\ Way(1, "tiles", None, None)'
        \/ s_screen_stack[Len(s_screen_stack)] = "time_settings"
              /\ Way(2, "tiles", "settings", None)'
    BY <1>1, <1>3 DEF Way, ScreensTypeOK
  <1>. QED
    BY <1>2, <1>4, AllRegistered DEF OnTheWay, UnderTiles, UnderSettings, UnderTime

\* Callback by callback: each that leaves a screen clears that screen's flag, so
\* none is set when the next screen is created.
LEMMA OpensClear ==
    ASSUME ActiveIsShown, OpenScreen
    PROVE  /\ ui = Idle /\ Unmoved
           /\ \E s \in AllScreens : <<s_current_screen, s>> \in Links \cup TileLinks
                                    /\ screen_push(s, {})
  <1>. USE DEF Opens, Shown, ActiveIsShown, Refreshing
  <1>0. {"settings", "measurement", "graph", "graph_config", "set_time", "timezone",
         "time_settings", "wifi_settings", "log_manager", "sd_info"} \subseteq AllScreens
    <2>1. \A i \in 2..11 : i \in DOMAIN RegisterOrder
      BY DEF RegisterOrder
    <2>. QED
      BY <2>1 DEF AllScreens, RegisterOrder
  <1>1. \A s \in Refreshing : active = {s} => active \ {s} = {}
    OBVIOUS
  <1>2. CASE tile_clicked_cb \/ tile_long_pressed_cb \/ tile_ui_settings_cb
    BY <1>0, <1>1, <1>2 DEF tile_clicked_cb, tile_long_pressed_cb, tile_ui_settings_cb, Links,
                            TileLinks
  <1>3. CASE settings_open_cb
    <2>1. active \ {} = {}
      BY <1>3 DEF settings_open_cb
    <2>. QED
      BY <1>0, <1>3, <2>1 DEF settings_open_cb, Links
  <1>4. CASE time_settings_set_time_cb \/ time_settings_timezone_cb
    BY <1>0, <1>1, <1>4 DEF time_settings_set_time_cb, time_settings_timezone_cb, Links
  <1>5. CASE graph_config_open_cb
    BY <1>0, <1>1, <1>5 DEF graph_config_open_cb, Links
  <1>. QED
    BY <1>2, <1>3, <1>4, <1>5 DEF OpenScreen

LEMMA ReturnsClear ==
    ASSUME ActiveIsShown, Back
    PROVE  ui = Idle /\ Unmoved /\ ~Shown("tiles") /\ screen_pop({})
  <1>. USE DEF Returns, Shown, ActiveIsShown, Refreshing
  <1>1. \A s \in Refreshing : active = {s} => active \ {s} = {}
    OBVIOUS
  <1>2. CASE measurement_back_cb \/ graph_back_cb \/ sd_info_back_cb
    BY <1>1, <1>2 DEF measurement_back_cb, graph_back_cb, sd_info_back_cb
  <1>3. CASE log_manager_back_cb \/ wifi_settings_back_cb \/ time_settings_back_cb
    BY <1>1, <1>3 DEF log_manager_back_cb, wifi_settings_back_cb, time_settings_back_cb
  <1>4. CASE graph_config_back_cb \/ settings_back_cb \/ set_time_back_cb \/ timezone_back_cb
    <2>1. active \ {} = {}
      BY <1>4 DEF graph_config_back_cb, settings_back_cb, set_time_back_cb, timezone_back_cb
    <2>. QED
      BY <1>4, <2>1 DEF graph_config_back_cb, settings_back_cb, set_time_back_cb,
                        timezone_back_cb
  <1>. QED
    BY <1>2, <1>3, <1>4 DEF Back

\* A screen that is registered is shown with all its deletions and resets.
LEMMA Shows ==
    ASSUME SizesSuffice, ScreensInv, ui = Idle, NEW s \in AllScreens, Activate(s, {}), Unmoved,
           OnTheWay', s_screen_stack' \in Seq(AllScreens)
    PROVE  ScreensInv'
  <1>. USE DEF ScreensInv
  <1>1. /\ s_current_screen' = s /\ active' = FlagsOn(s, {}) /\ widgets' = {}
        /\ s_tiles' = TilesOn(s) /\ armed' = ArmedOn(s) /\ rows' = {} /\ tapped' = {}
        /\ label' = [b \in Buttons |-> None] /\ forgetClickable' = ForgetOn(s)
        /\ forgetting' = IF s = "wifi_settings" THEN Unasked ELSE forgetting
        /\ ui' = IF s = "log_manager" THEN Listing ELSE Idle
    BY AllRegistered DEF Activate
  <1>2. UNCHANGED <<timers, disarmTimer, s_clear_in_progress, clearTask, channels>>
        /\ deadUse' = None
    BY DEF Unmoved, clearVars, TouchNone
  <1>3. \A b \in Buttons : armed'[b] \in {None, armed[b]}
            /\ (ScreenOf(b) = s => armed'[b] = None)
    BY <1>1 DEF ArmedOn
  <1>4. armed' \in [Buttons -> Files \cup {"card", "network", None}]
        /\ \A b \in Buttons : armed'[b] \in Targets(b) \cup {None}
    BY <1>1 DEF ArmedOn, ScreensTypeOK
  <1>5. ScreensTypeOK'
    BY <1>1, <1>2, <1>4 DEF ScreensTypeOK, FlagsOn, TilesOn, ForgetOn, Unasked
  <1>6. ActiveIsShown' /\ TilesDrawn' /\ OnlyLeftoversUseDeleted' /\ TimerPointers'
    BY <1>1, <1>2 DEF ActiveIsShown, FlagsOn, TilesDrawn, TilesOn, Shown,
                      OnlyLeftoversUseDeleted, TimerPointers
  <1>7. ArmedWillDisarm' /\ ArmedByTap'
    <2>1. forgetting' = forgetting \/ armed'["forget"] = None
      BY <1>1, <1>3 DEF ScreenOf, Buttons
    <2>2. \A b \in Buttons, f \in Files : armed[b] # None => ui # Erasing(f)
      BY Waits
    <2>3. ArmedWillDisarm'
      BY <1>1, <1>2, <1>3, <2>1, <2>2, Waits DEF ArmedWillDisarm, ScreensTypeOK, Targets
    <2>4. ArmedByTap'
      BY <1>1, <1>3 DEF ArmedByTap, Shown
    <2>. QED
      BY <2>3, <2>4
  <1>8. LabelsTrue' /\ ClearAnnounced'
    BY <1>1, <1>2, <1>3 DEF LabelsTrue, ClearAnnounced, Shown, ScreenOf, Buttons
  <1>. QED
    BY <1>5, <1>6, <1>7, <1>8

LEMMA NavigationKeeps ==
    ASSUME SizesSuffice, ScreensInv, Back \/ OpenScreen
    PROVE  ScreensInv'
  <1>. USE DEF ScreensInv
  <1>1. CASE OpenScreen
    <2>1. PICK s \in AllScreens : /\ <<s_current_screen, s>> \in Links \cup TileLinks
                                  /\ screen_push(s, {})
      BY <1>1, OpensClear
    <2>2. s_current_screen' = s
      BY <2>1, AllRegistered DEF screen_push, Activate
    <2>3. OnTheWay'
      BY <2>1, <2>2, PushWay DEF screen_push
    <2>4. s_screen_stack' \in Seq(AllScreens)
      BY <2>1 DEF screen_push, ScreensTypeOK
    <2>. QED
      BY <1>1, <2>1, <2>3, <2>4, Shows, OpensClear DEF screen_push
  <1>2. CASE Back
    <2>. DEFINE s == s_screen_stack[Len(s_screen_stack)]
    <2>0. ui = Idle /\ Unmoved /\ ~Shown("tiles") /\ screen_pop({})
      BY <1>2, ReturnsClear
    <2>1. s_screen_stack # <<>> /\ s \in AllScreens /\ (s_current_screen' = s => OnTheWay')
      BY <2>0, PopWay
    <2>2. Activate(s, {}) /\ s_screen_stack' = SubSeq(s_screen_stack, 1, Len(s_screen_stack) - 1)
      BY <2>0, <2>1 DEF screen_pop
    <2>3. s_current_screen' = s
      BY <2>1, <2>2, AllRegistered DEF Activate
    <2>4. s_screen_stack' \in Seq(AllScreens)
      BY <2>1, <2>2 DEF ScreensTypeOK
    <2>. QED
      BY <2>0, <2>1, <2>2, <2>3, <2>4, Shows
  <1>. QED
    BY <1>1, <1>2

-----------------------------------------------------------------------------
\* A step that leaves screen, stack and flags alone.
LEMMA StaysPut ==
    ASSUME ScreensInv, UNCHANGED <<navVars, tileVars>>
    PROVE  OnTheWay' /\ ActiveIsShown' /\ TilesDrawn'
  BY DEF ScreensInv, navVars, tileVars, OnTheWay, Way, ActiveIsShown, TilesDrawn, Shown

\* A step that leaves the buttons alone, and their labels.
LEMMA ButtonsLeftAlone ==
    ASSUME ScreensInv, UNCHANGED <<s_current_screen, armVars, forgetting>>, ui = Idle
    PROVE  /\ TimerPointers' /\ ArmedWillDisarm' /\ ArmedByTap' /\ LabelsTrue'
  <1>1. \A b \in Buttons, f \in Files : armed[b] # None => ui # Erasing(f)
    BY Waits
  <1>. QED
    BY <1>1, Waits DEF ScreensInv, armVars, TimerPointers, ArmedWillDisarm, ArmedByTap,
                  LabelsTrue, Shown, ScreensTypeOK, Targets

\* The refresh timers run on only for the screen shown.
LEMMA RefreshKeeps ==
    ASSUME ScreensInv, NEW s \in AllScreens, Refresh(s)
    PROVE  ScreensInv'
  <1>. USE DEF ScreensInv, Refresh
  <1>1. Shown(s) /\ ui = Idle /\ UNCHANGED <<navVars, armVars, clearVars, channels, forgetting, rows>>
    BY DEF ActiveIsShown, Shown
  <1>2. ScreensTypeOK'
    BY <1>1 DEF ScreensTypeOK, navVars, armVars, clearVars, tileVars, RefreshTiles, RefreshWifi,
                RefreshFiles, RefreshLabels, Touch, TouchNone
  <1>3. OnTheWay' /\ ActiveIsShown'
    BY <1>1 DEF navVars, OnTheWay, Way, ActiveIsShown
  <1>4. TilesDrawn'
    BY <1>1 DEF navVars, tileVars, TilesDrawn, Shown, ScreensTypeOK, RefreshTiles, RefreshWifi,
                RefreshFiles, RefreshLabels
  <1>5. OnlyLeftoversUseDeleted'
    BY <1>1 DEF OnlyLeftoversUseDeleted, TilesDrawn, RefreshTiles, RefreshWifi,
                RefreshFiles, RefreshLabels, Touch, TouchNone
  <1>6. TimerPointers' /\ ArmedWillDisarm' /\ ArmedByTap' /\ LabelsTrue'
    BY <1>1, ButtonsLeftAlone DEF navVars
  <1>7. ClearAnnounced'
    BY <1>1 DEF armVars, clearVars, ClearAnnounced
  <1>. QED
    BY <1>2, <1>3, <1>4, <1>5, <1>6, <1>7

\* What draws the list of files, for the callback or for the clear task.
LEMMA RedrawKeeps ==
    ASSUME ScreensInv, RedrawFiles
    PROVE  ScreensInv'
  <1>. USE DEF ScreensInv, RedrawFiles
  <1>1. PICK seen \in SUBSET Files :
            Draw(seen, IF "log_manager" \in active THEN "refresh" ELSE "timer")
    OBVIOUS
  <1>2. ScreensTypeOK'
    BY <1>1 DEF ScreensTypeOK, navVars, tileVars, clearVars, wifiVars, Draw, Touch
  <1>3. OnlyLeftoversUseDeleted'
    BY <1>1 DEF Draw, Touch, OnlyLeftoversUseDeleted, ActiveIsShown, Shown
  <1>4. TimerPointers' /\ ArmedWillDisarm' /\ ArmedByTap'
    BY Waits DEF TimerPointers, ArmedWillDisarm, ArmedByTap, Shown, navVars, wifiVars,
                 ScreensTypeOK, Targets
  <1>5. LabelsTrue'
    BY <1>1 DEF LabelsTrue, Shown, Draw, navVars, wifiVars, ScreensTypeOK, Buttons
  <1>6. ClearAnnounced'
    BY DEF ClearAnnounced, clearVars
  <1>. QED
    BY <1>2, <1>3, <1>4, <1>5, <1>6, StaysPut

LEMMA UseKeeps ==
    ASSUME ScreensInv, UseName \/ ChannelAppears
    PROVE  ScreensInv'
  <1>. USE DEF ScreensInv, UseName, ChannelAppears, navVars, tileVars, armVars, clearVars, wifiVars
  <1>1. ScreensTypeOK' /\ OnlyLeftoversUseDeleted'
    BY DEF ScreensTypeOK, OnlyLeftoversUseDeleted, TouchNone
  <1>2. TimerPointers' /\ ArmedWillDisarm' /\ ArmedByTap'
    BY Waits DEF TimerPointers, ArmedWillDisarm, ArmedByTap, Shown, ScreensTypeOK, Targets
  <1>3. LabelsTrue' /\ ClearAnnounced'
    BY Waits DEF LabelsTrue, ClearAnnounced, Shown
  <1>. QED
    BY <1>1, <1>2, <1>3, StaysPut

-----------------------------------------------------------------------------
\* The first tap: armed, with a timer that will disarm.
LEMMA ArmKeeps ==
    ASSUME ScreensInv, NEW b \in Buttons, NEW x \in Targets(b), Arm(b, x)
    PROVE  ScreensInv'
  <1>. USE DEF ScreensInv, Arm
  <1>1. /\ ui = Idle /\ Shown(ScreenOf(b)) /\ armed' = [armed EXCEPT ![b] = x]
        /\ tapped' = tapped \cup {<<b, x>>} /\ deadUse' = None
        /\ UNCHANGED <<navVars, tileVars, clearVars, channels, wifiVars, rows>>
        /\ ui' = IF b = "delete" THEN Listing ELSE Idle
        /\ label' = IF b = "delete" THEN label ELSE [label EXCEPT ![b] = x]
        /\ b = "clear" => ~s_clear_in_progress
    BY DEF CanTap, TouchNone
  <1>. DEFINE left == IF b = "delete" THEN timers[b] \ {disarmTimer[b]} ELSE timers[b]
  <1>2. PICK t \in Timers : /\ t \notin left
                            /\ timers' = [timers EXCEPT ![b] = left \cup {t}]
                            /\ disarmTimer' = [disarmTimer EXCEPT ![b] = t]
    OBVIOUS
  <1>3. x # None /\ x \in Files \cup {"card", "network"}
    BY ScreensAssumption DEF Targets, ScreensAssumption
  <1>4. ScreensTypeOK'
    BY <1>1, <1>2, <1>3 DEF ScreensTypeOK, navVars, tileVars, clearVars, wifiVars, Targets, Buttons
  <1>5. TimerPointers'
    BY <1>2 DEF TimerPointers, ScreensTypeOK, Buttons
  <1>6. ArmedWillDisarm' /\ ArmedByTap'
    BY <1>1, <1>2, Waits DEF ArmedWillDisarm, ArmedByTap, Shown, ScreensTypeOK, navVars, wifiVars,
                      Targets
  <1>7. LabelsTrue' /\ ClearAnnounced'
    BY <1>1, <1>3, Waits DEF LabelsTrue, ClearAnnounced, Shown, ScreensTypeOK, navVars, wifiVars,
                      clearVars, Buttons, ScreenOf
  <1>. QED
    BY <1>1, <1>4, <1>5, <1>6, <1>7, StaysPut DEF OnlyLeftoversUseDeleted

\* The second tap on Delete: the LVGL task goes on to wait for the card.
LEMMA ConfirmDeleteKeeps ==
    ASSUME ScreensInv, NEW f \in Files, ConfirmDelete(f)
    PROVE  ScreensInv'
  <1>. USE DEF ScreensInv, ConfirmDelete, Confirmed, navVars, tileVars, clearVars
  <1>1. ui = Idle /\ Shown("log_manager")
    BY DEF CanTap, ScreenOf
  <1>2. ScreensTypeOK' /\ OnlyLeftoversUseDeleted'
    BY DEF ScreensTypeOK, OnlyLeftoversUseDeleted, TouchNone, Buttons
  <1>3. TimerPointers'
    BY DEF TimerPointers, ScreensTypeOK, Buttons
  <1>4. ArmedWillDisarm' /\ ArmedByTap'
    BY <1>1, Waits DEF ArmedWillDisarm, ArmedByTap, Shown, ScreensTypeOK, Buttons, Targets
  <1>5. LabelsTrue' /\ ClearAnnounced'
    BY <1>1, Waits DEF LabelsTrue, ClearAnnounced, Shown
  <1>. QED
    BY <1>2, <1>3, <1>4, <1>5, StaysPut

LEMMA ConfirmClearKeeps ==
    ASSUME ScreensInv, ConfirmClear
    PROVE  ScreensInv'
  <1>. USE DEF ScreensInv, ConfirmClear, Confirmed, navVars, tileVars
  <1>1. ui = Idle /\ Shown("log_manager") /\ ~s_clear_in_progress
    BY DEF CanTap, ScreenOf
  <1>2. ScreensTypeOK' /\ OnlyLeftoversUseDeleted'
    BY DEF ScreensTypeOK, OnlyLeftoversUseDeleted, TouchNone, Buttons, Disarmed, ClearSteps
  <1>3. TimerPointers'
    BY DEF TimerPointers, ScreensTypeOK, Buttons
  <1>4. ArmedWillDisarm' /\ ArmedByTap'
    BY <1>1, Waits DEF ArmedWillDisarm, ArmedByTap, Shown, ScreensTypeOK, Buttons, Targets, Disarmed
  <1>5. LabelsTrue'
    BY <1>1 DEF LabelsTrue, Shown, Disarmed, ScreensTypeOK, Buttons
  <1>6. ClearAnnounced'
    BY <1>1 DEF ClearAnnounced, Disarmed, ScreensTypeOK, Buttons
  <1>. QED
    BY <1>2, <1>3, <1>4, <1>5, <1>6, StaysPut

LEMMA ConfirmForgetKeeps ==
    ASSUME ScreensInv, ConfirmForget
    PROVE  ScreensInv'
  <1>. USE DEF ScreensInv, ConfirmForget, Confirmed, navVars, tileVars, clearVars
  <1>1. ui = Idle /\ Shown("wifi_settings")
    BY DEF CanTap, ScreenOf
  <1>2. ScreensTypeOK' /\ OnlyLeftoversUseDeleted'
    BY DEF ScreensTypeOK, OnlyLeftoversUseDeleted, TouchNone, Buttons
  <1>3. TimerPointers'
    BY DEF TimerPointers, ScreensTypeOK, Buttons
  <1>4. ArmedWillDisarm' /\ ArmedByTap'
    BY <1>1, Waits DEF ArmedWillDisarm, ArmedByTap, Shown, ScreensTypeOK, Buttons, Targets
  <1>5. LabelsTrue' /\ ClearAnnounced'
    BY <1>1 DEF LabelsTrue, Shown, ScreensTypeOK, Buttons, ClearAnnounced
  <1>. QED
    BY <1>2, <1>3, <1>4, <1>5, StaysPut

LEMMA EraseKeeps ==
    ASSUME ScreensInv, EraseFile
    PROVE  ScreensInv'
  <1>. USE DEF ScreensInv, EraseFile, navVars, tileVars, clearVars, wifiVars, Disarmed
  <1>1. ScreensTypeOK' /\ OnlyLeftoversUseDeleted' /\ TimerPointers'
    BY DEF ScreensTypeOK, OnlyLeftoversUseDeleted, TimerPointers, TouchNone, Buttons
  <1>3. ArmedWillDisarm'
    <2>. SUFFICES ASSUME NEW b \in Buttons, armed'[b] # None
                  PROVE  timers[b] # {} \/ (b = "forget" /\ forgetting # "no")
      BY DEF ArmedWillDisarm
    <2>1. b # "delete" /\ armed[b] # None
      BY DEF ScreensTypeOK
    <2>. QED
      BY <2>1 DEF ArmedWillDisarm
  <1>4. ArmedByTap'
    BY DEF ArmedByTap, Shown, ScreensTypeOK
  <1>5. LabelsTrue' /\ ClearAnnounced'
    BY Waits DEF LabelsTrue, ClearAnnounced, Shown, ScreensTypeOK, Buttons
  <1>. QED
    BY <1>1, <1>3, <1>4, <1>5, StaysPut

\* A disarm timer, on whatever screen it fires.
LEMMA DisarmKeeps ==
    ASSUME ScreensInv, NEW b \in Buttons, NEW t \in Timers, Disarm(b, t)
    PROVE  ScreensInv'
  <1>. USE DEF ScreensInv, Disarm, navVars, tileVars, clearVars, wifiVars, Disarmed
  <1>1. OnlyLeftoversUseDeleted'
    BY DEF OnlyLeftoversUseDeleted, TouchNone, Touch
  <1>2. ScreensTypeOK'
    BY DEF ScreensTypeOK, TouchNone, Touch, Unasked
  <1>3. TimerPointers'
    BY DEF TimerPointers, ScreensTypeOK, Buttons
  <1>4. ArmedWillDisarm' /\ ArmedByTap'
    BY Waits DEF ArmedWillDisarm, ArmedByTap, Shown, ScreensTypeOK, Targets, Unasked
  <1>5. LabelsTrue' /\ ClearAnnounced'
    BY Waits DEF LabelsTrue, ClearAnnounced, Shown, ScreensTypeOK, Buttons, Unasked
  <1>. QED
    BY <1>1, <1>2, <1>3, <1>4, <1>5, StaysPut

\* The clear task draws the list and its own button, never another.
LEMMA ClearTaskKeeps ==
    ASSUME ScreensInv, NEW i \in ClearTasks, ClearTask(i)
    PROVE  ScreensInv'
  <1>. USE DEF ScreensInv
  <1>1. /\ UNCHANGED <<navVars, tileVars, channels, wifiVars, ui, armed, timers, disarmTimer,
                       tapped>>
        /\ clearTask[i] # None
        /\ \E to \in ClearSteps \cup {None} :
                clearTask' = [clearTask EXCEPT ![i] = to]
    BY ScreensAssumption DEF ScreensAssumption, ClearSteps, ClearTask, ClearStop, ClearFormat,
          ClearCheck, ClearLabel, ClearList, ClearDraw, ClearEnd, Step
  <1>2. /\ label' \in [Buttons -> Files \cup {"card", "network", None}]
        /\ rows' \subseteq Files /\ s_clear_in_progress' \in BOOLEAN
        /\ deadUse' \in {None, "clear_task"}
    BY DEF ClearTask, ClearStop, ClearFormat, ClearCheck, ClearLabel, ClearList, ClearDraw,
          ClearEnd, Draw, Touch, TouchNone, ScreensTypeOK
  <1>3. ScreensTypeOK'
    BY <1>1, <1>2 DEF ScreensTypeOK, navVars, tileVars, wifiVars
  <1>4. OnlyLeftoversUseDeleted' /\ TimerPointers' /\ ArmedWillDisarm' /\ ArmedByTap'
    BY <1>1, <1>2 DEF OnlyLeftoversUseDeleted, TimerPointers, ArmedWillDisarm, ArmedByTap, Shown,
                      navVars, wifiVars
  <1>5. s_clear_in_progress /\ armed["clear"] = None
    BY <1>1 DEF ClearAnnounced
  <1>6. LabelsTrue'
    <2>1. /\ label'["delete"] \in {label["delete"], armed["delete"]}
          /\ label'["clear"] \in {label["clear"], None} /\ label'["forget"] = label["forget"]
      BY DEF ClearTask, ClearStop, ClearFormat, ClearCheck, ClearLabel, ClearList, ClearDraw,
          ClearEnd, Draw, ScreensTypeOK, Buttons
    <2>. QED
      BY <1>1, <1>5, <2>1 DEF LabelsTrue, Shown, navVars, wifiVars
  <1>7. ClearAnnounced'
    <2>1. CASE ClearEnd(i)
      <3>1. \A j \in ClearTasks : clearTask'[j] = None
        BY <1>1, <2>1 DEF ClearEnd, Step, ClearAnnounced, ScreensTypeOK
      <3>. QED
        BY <1>1, <1>5, <3>1 DEF ClearAnnounced
    <2>2. CASE ~ClearEnd(i)
      <3>1. UNCHANGED s_clear_in_progress
        BY <2>2 DEF ClearTask, ClearStop, ClearFormat, ClearCheck, ClearLabel, ClearList, ClearDraw
      <3>. QED
        BY <1>1, <1>5, <3>1 DEF ClearAnnounced, ScreensTypeOK
    <2>. QED
      BY <2>1, <2>2
  <1>. QED
    BY <1>1, <1>3, <1>4, <1>6, <1>7, StaysPut

LEMMA RestartKeeps ==
    ASSUME SizesSuffice, ScreensInv, Restart
    PROVE  ScreensInv'
  <1>. USE DEF Restart
  <1>1. ScreensTypeOK'
    <2>1. s_current_screen' \in AllScreens /\ s_screen_stack' \in Seq(AllScreens)
          /\ active' \subseteq Refreshing
      BY AllRegistered DEF Home, Refreshing
    <2>2. /\ armed' \in [Buttons -> Files \cup {"card", "network", None}]
          /\ \A b \in Buttons : armed'[b] \in Targets(b) \cup {None}
      OBVIOUS
    <2>. QED
      BY <2>1, <2>2 DEF ScreensTypeOK
  <1>2. OnTheWay' /\ ActiveIsShown' /\ TilesDrawn'
    BY DEF OnTheWay, Way, ActiveIsShown, TilesDrawn, Home, Refreshing, UnderTiles, UnderSettings,
           UnderTime
  <1>3. OnlyLeftoversUseDeleted' /\ TimerPointers' /\ ArmedWillDisarm' /\ ArmedByTap'
    BY DEF OnlyLeftoversUseDeleted, TimerPointers, ArmedWillDisarm, ArmedByTap, Buttons
  <1>4. LabelsTrue' /\ ClearAnnounced'
    BY DEF LabelsTrue, ClearAnnounced, Buttons, Shown, Home
  <1>. QED
    BY <1>1, <1>2, <1>3, <1>4 DEF ScreensInv

LEMMA ScreensStart ==
    ASSUME SizesSuffice, Init
    PROVE  ScreensInv
  <1>. USE DEF Init
  <1>1. ScreensTypeOK
    <2>1. s_current_screen \in AllScreens /\ s_screen_stack \in Seq(AllScreens)
          /\ active \subseteq Refreshing
      BY AllRegistered DEF Home, Refreshing
    <2>2. /\ armed \in [Buttons -> Files \cup {"card", "network", None}]
          /\ \A b \in Buttons : armed[b] \in Targets(b) \cup {None}
      OBVIOUS
    <2>. QED
      BY <2>1, <2>2 DEF ScreensTypeOK
  <1>2. OnTheWay /\ ActiveIsShown /\ TilesDrawn
    BY DEF OnTheWay, Way, ActiveIsShown, TilesDrawn, Home, Refreshing, UnderTiles, UnderSettings,
           UnderTime
  <1>3. OnlyLeftoversUseDeleted /\ TimerPointers /\ ArmedWillDisarm /\ ArmedByTap
    BY DEF OnlyLeftoversUseDeleted, TimerPointers, ArmedWillDisarm, ArmedByTap, Buttons
  <1>4. LabelsTrue /\ ClearAnnounced
    BY DEF LabelsTrue, ClearAnnounced, Buttons, Shown, Home
  <1>. QED
    BY <1>1, <1>2, <1>3, <1>4 DEF ScreensInv

-----------------------------------------------------------------------------
LEMMA ScreensInvariant == ASSUME SizesSuffice PROVE Spec => []ScreensInv
<1>1. Init => ScreensInv
  BY ScreensStart
<1>2. ScreensInv /\ [Next]_vars => ScreensInv'
  <2>. SUFFICES ASSUME ScreensInv, [Next]_vars PROVE ScreensInv'
    OBVIOUS
  <2>1. CASE Back \/ OpenScreen
    BY <2>1, NavigationKeeps
  <2>2. ASSUME NEW s \in AllScreens, Refresh(s) PROVE ScreensInv'
    BY <2>2, RefreshKeeps
  <2>3. CASE RedrawFiles \/ UseName \/ ChannelAppears
    BY <2>3, RedrawKeeps, UseKeeps
  <2>4. ASSUME NEW b \in Buttons, NEW x \in Targets(b), Arm(b, x) PROVE ScreensInv'
    BY <2>4, ArmKeeps
  <2>5. CASE (\E f \in Files : ConfirmDelete(f)) \/ ConfirmClear \/ ConfirmForget
    BY <2>5, ConfirmDeleteKeeps, ConfirmClearKeeps, ConfirmForgetKeeps
  <2>6. CASE EraseFile \/ \E b \in Buttons, t \in Timers : Disarm(b, t)
    BY <2>6, EraseKeeps, DisarmKeeps
  <2>7. CASE Restart \/ \E i \in ClearTasks : ClearTask(i)
    BY <2>7, RestartKeeps, ClearTaskKeeps
  <2>8. CASE UNCHANGED vars
    <3>. USE <2>8 DEF vars, navVars, tileVars, armVars, clearVars, wifiVars, ScreensInv
    <3>1. ScreensTypeOK' /\ OnlyLeftoversUseDeleted' /\ ClearAnnounced'
      BY DEF ScreensTypeOK, OnlyLeftoversUseDeleted, ClearAnnounced
    <3>2. TimerPointers' /\ ArmedWillDisarm' /\ ArmedByTap' /\ LabelsTrue'
      BY DEF TimerPointers, ArmedWillDisarm, ArmedByTap, LabelsTrue, Shown
    <3>. QED
      BY <3>1, <3>2, StaysPut
  <2>. QED
    BY <2>1, <2>2, <2>3, <2>4, <2>5, <2>6, <2>7, <2>8 DEF Next, Lvgl
<1>. QED
  BY <1>1, <1>2, PTL DEF Spec

\* Back leads the way one came, for every sequence of taps: a registry of 11
\* and a stack of 3 (the code has 16 and 8) never drop a screen.
THEOREM ScreensNavPath == ASSUME SizesSuffice PROVE Spec => []NavPath
<1>1. ScreensInv => NavPath
  <2>. SUFFICES ASSUME ScreensInv PROVE NavPath
    OBVIOUS
  <2>. DEFINE trail == Append(s_screen_stack, s_current_screen)
  <2>1. \/ s_current_screen = "tiles" /\ Way(0, None, None, None)
        \/ s_current_screen \in UnderTiles /\ Way(1, "tiles", None, None)
        \/ s_current_screen \in UnderSettings /\ Way(2, "tiles", "settings", None)
        \/ s_current_screen = "graph_config" /\ Way(2, "tiles", "graph", None)
        \/ s_current_screen \in UnderTime /\ Way(3, "tiles", "settings", "time_settings")
    BY AllRegistered DEF ScreensInv, ScreensTypeOK, OnTheWay
  <2>2. /\ Len(trail) = Len(s_screen_stack) + 1
        /\ \A i \in 1..Len(s_screen_stack) : trail[i] = s_screen_stack[i]
        /\ trail[Len(s_screen_stack) + 1] = s_current_screen
        /\ Len(s_screen_stack) \in Nat
    BY DEF ScreensInv, ScreensTypeOK
  <2>. HIDE DEF trail
  <2>3. trail[1] = Home
    BY <2>1, <2>2 DEF Way, Home
  <2>4. ASSUME NEW i \in 1..(Len(trail) - 1)
        PROVE  <<trail[i], trail[i + 1]>> \in Links \cup TileLinks
    BY <2>1, <2>2, <2>4 DEF Way, Links, TileLinks, UnderTiles, UnderSettings, UnderTime
  <2>. QED
    BY <2>3, <2>4 DEF NavPath, trail
<1>. QED
  BY <1>1, ScreensInvariant, PTL

\* The flags by which timers and the clear task know the screen shown are true:
\* of the twelve callbacks that leave a screen with a flag, each clears that one
\* (the s_*_screen_active of every screen file).
THEOREM ScreensActiveIsShown == ASSUME SizesSuffice PROVE Spec => []ActiveIsShown
<1>1. ScreensInv => ActiveIsShown
  BY DEF ScreensInv
<1>. QED
  BY <1>1, ScreensInvariant, PTL

\* No timer is deleted twice, and every confirmation window closes, with any
\* number of timers left over from earlier visits (log_manager_screen.c and
\* wifi_settings_screen.c).
THEOREM ScreensTimers ==
    ASSUME SizesSuffice PROVE Spec => [](TimerPointers /\ ArmedWillDisarm)
<1>1. ScreensInv => TimerPointers /\ ArmedWillDisarm
  BY DEF ScreensInv
<1>. QED
  BY <1>1, ScreensInvariant, PTL

\* A button offers to confirm exactly what its next tap confirms, also when a
\* leftover timer fires or the clear task redraws the list.
THEOREM ScreensOffers == ASSUME SizesSuffice PROVE Spec => []OffersWhatItDoes
<1>1. ScreensInv => OffersWhatItDoes
  BY DEF ScreensInv, OffersWhatItDoes, LabelsTrue, ScreenOf, Buttons
<1>. QED
  BY <1>1, ScreensInvariant, PTL

\* No callback of a click or a periodic timer touches a deleted widget; what is
\* left are the one-shot timers of earlier visits and the clear task.
THEOREM ScreensRefreshLive == ASSUME SizesSuffice PROVE Spec => []OnlyLeftoversUseDeleted
<1>1. ScreensInv => OnlyLeftoversUseDeleted
  BY DEF ScreensInv
<1>. QED
  BY <1>1, ScreensInvariant, PTL

\* Nothing but the second tap starts an erasure, a clear or a forget.
LEMMA OnlyConfirmed ==
    ASSUME Next
    PROVE  /\ ui' \in {ui, Idle, Listing} \/ \E f \in Files : ConfirmDelete(f)
           /\ s_clear_in_progress' => s_clear_in_progress \/ ConfirmClear
           /\ forgetting' \in {forgetting, "no"} \/ ConfirmForget
  <1>1. CASE OpenScreen
    <2>1. PICK s, flags : screen_push(s, flags) /\ Unmoved
      BY <1>1 DEF OpenScreen, Opens, tile_clicked_cb, tile_long_pressed_cb, tile_ui_settings_cb,
                  settings_open_cb, time_settings_set_time_cb, time_settings_timezone_cb,
                  graph_config_open_cb
    <2>. QED
      BY <2>1 DEF screen_push, Activate, Unmoved, Unasked, clearVars, wifiVars
  <1>2. CASE Back
    <2>1. PICK flags : screen_pop(flags) /\ Unmoved
      BY <1>2 DEF Back, Returns, measurement_back_cb, graph_back_cb, graph_config_back_cb,
                  settings_back_cb, sd_info_back_cb, log_manager_back_cb, wifi_settings_back_cb,
                  time_settings_back_cb, set_time_back_cb, timezone_back_cb
    <2>. QED
      BY <2>1 DEF screen_pop, Activate, Unmoved, Unasked, clearVars, wifiVars
  <1>3. CASE \E s \in AllScreens : Refresh(s)
    BY <1>3 DEF Refresh, RefreshTiles, RefreshWifi, RefreshFiles, RefreshLabels, clearVars
  <1>4. CASE RedrawFiles \/ EraseFile \/ UseName
    BY <1>4 DEF RedrawFiles, EraseFile, UseName, clearVars, wifiVars
  <1>5. CASE \E b \in Buttons : \E x \in Targets(b) : Arm(b, x)
    BY <1>5 DEF Arm, clearVars, wifiVars
  <1>6. CASE \E b \in Buttons, t \in Timers : Disarm(b, t)
    BY <1>6 DEF Disarm, clearVars, Unasked
  <1>7. CASE (\E f \in Files : ConfirmDelete(f)) \/ ConfirmClear \/ ConfirmForget
    BY <1>7 DEF ConfirmDelete, ConfirmClear, ConfirmForget, clearVars
  <1>8. CASE \E i \in ClearTasks : ClearTask(i)
    BY <1>8 DEF ClearTask, ClearStop, ClearFormat, ClearCheck, ClearLabel, ClearList, ClearDraw,
                ClearEnd, Step, wifiVars
  <1>9. CASE ChannelAppears \/ Restart
    BY <1>9 DEF ChannelAppears, Restart, clearVars, wifiVars
  <1>. QED
    BY <1>1, <1>2, <1>3, <1>4, <1>5, <1>6, <1>7, <1>8, <1>9 DEF Next, Lvgl

\* Nothing is deleted, cleared or forgotten on one tap, whatever was armed on
\* an earlier visit and whichever of its timers still run.
THEOREM ScreensTwoTaps == ASSUME SizesSuffice PROVE Spec => ConfirmedByTwoTaps
<1>. DEFINE Tapped ==
        /\ \A f \in Files : ui # Erasing(f) /\ ui' = Erasing(f) => <<"delete", f>> \in tapped
        /\ ~s_clear_in_progress /\ s_clear_in_progress' => <<"clear", "card">> \in tapped
        /\ forgetting # forgetting' /\ forgetting' # "no" => <<"forget", "network">> \in tapped
<1>1. ScreensInv /\ [Next]_vars => [Tapped]_vars
  <2>. SUFFICES ASSUME ScreensInv, Next PROVE Tapped
    OBVIOUS
  <2>1. ASSUME NEW f \in Files, ui # Erasing(f), ui' = Erasing(f)
        PROVE  <<"delete", f>> \in tapped
    <3>1. PICK g \in Files : ConfirmDelete(g)
      BY <2>1, Waits, OnlyConfirmed
    <3>2. g = f /\ armed["delete"] = f /\ Shown("log_manager")
      BY <2>1, <3>1, Waits DEF ConfirmDelete, CanTap, ScreenOf
    <3>. QED
      BY <3>2, ScreensAssumption DEF ScreensInv, ArmedByTap, ScreenOf, Buttons, ScreensAssumption
  <2>2. ASSUME ConfirmClear PROVE <<"clear", "card">> \in tapped
    BY <2>2, ScreensAssumption DEF ConfirmClear, CanTap, ScreensInv, ArmedByTap, ScreenOf,
                                   Buttons, ScreensAssumption
  <2>3. ASSUME ConfirmForget PROVE <<"forget", "network">> \in tapped
    BY <2>3, ScreensAssumption DEF ConfirmForget, CanTap, ScreensInv, ArmedByTap, ScreenOf,
                                   Buttons, ScreensAssumption
  <2>. QED
    BY <2>1, <2>2, <2>3, OnlyConfirmed
<1>2. [][Tapped]_vars => ConfirmedByTwoTaps
  BY DEF ConfirmedByTwoTaps
<1>. QED
  BY <1>1, <1>2, ScreensInvariant, PTL DEF Spec
=============================================================================
