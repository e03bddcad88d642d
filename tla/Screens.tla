------------------------------ MODULE Screens ------------------------------
(***************************************************************************)
(* The touch UI: screen_nav.c's back stack, the flags and timers by which  *)
(* eleven screens share one LVGL display, the two-tap buttons that delete  *)
(* a log, clear the card or forget the network, and the task that clears.  *)
(*                                                                         *)
(* LVGL runs every click and timer callback on one task, under its lock,   *)
(* so a callback is one step -- up to the point where it waits for the     *)
(* card: then the LVGL task stays there (variable ui) with the lock held.  *)
(* Showing a screen deletes the widgets of the one before, while the       *)
(* static pointers to them stay; deadUse says who used one in the last step. *)
(***************************************************************************)
EXTENDS Naturals, Sequences, FiniteSets

CONSTANTS Files,         \* names of log files
          Channels,      \* names the hub may come to hold
          Timers,        \* identities of one-shot timers, per button: a bound
          ClearTasks,    \* identities of clear tasks: a bound
          RegistryMax,   \* SCREEN_REGISTRY_MAX
          StackMax,      \* SCREEN_STACK_MAX
          CreateFails,   \* the tasks xTaskCreate may fail to create
          None

\* What a clear task does next.
ClearSteps == {"stop", "format", "check", "label", "list", "draw", "end"}

ASSUME ScreensAssumption ==
    /\ RegistryMax \in Nat /\ StackMax \in Nat
    /\ CreateFails \subseteq {"clear", "forget"}
    /\ None \notin Files \cup Timers \cup ClearTasks \cup {"card", "network"}
    /\ None \notin ClearSteps

VARIABLES s_current_screen, s_screen_stack,
          active,              \* the screens whose s_*_screen_active is set
          s_tiles,             \* the tiles in the table of the tiles screen
          widgets,             \* the tiles whose widgets exist
          channels,            \* what the hub lists
          armed,               \* per button, what a second tap would act on
          timers,              \* per button, its one-shot timers still to fire
          disarmTimer,         \* per button, s_*_disarm_timer
          label,               \* per button, what it offers to confirm
          ui,                  \* what the LVGL task does: idle, or a wait
          rows,                \* files drawn with a Delete button
          forgetClickable,     \* Forget takes taps
          forgetting,          \* "task": a forget task runs, and will restart;
                               \* "asked": Forget was confirmed, but no task created
          s_clear_in_progress, clearTask,
          deadUse,             \* who used a deleted widget in the last step
          tapped               \* buttons tapped since the screen was shown

navVars   == <<s_current_screen, s_screen_stack, active>>
tileVars  == <<s_tiles, widgets>>
armVars   == <<armed, timers, disarmTimer, label, tapped>>
clearVars == <<s_clear_in_progress, clearTask>>
wifiVars  == <<forgetClickable, forgetting>>
vars == <<navVars, tileVars, armVars, clearVars, wifiVars, channels, ui, rows,
          deadUse>>

-----------------------------------------------------------------------------
\* The screens, in the order ui_init registers them; a full registry drops.
RegisterOrder == <<"tiles", "settings", "measurement", "set_time", "sd_info",
                   "log_manager", "graph", "graph_config", "timezone",
                   "time_settings", "wifi_settings">>
AllScreens == {RegisterOrder[i] : i \in DOMAIN RegisterOrder}
Registry == {RegisterOrder[i] :
                i \in {j \in DOMAIN RegisterOrder : j <= RegistryMax}}
Home == "tiles"

\* The screens that refresh themselves by a timer, while their flag is set.
Refreshing == {"tiles", "measurement", "graph", "sd_info", "log_manager",
               "time_settings", "wifi_settings"}

\* The menus: which screen's buttons lead where; tiles lead to their channel.
Links == {<<"tiles", "settings">>, <<"settings", "time_settings">>,
          <<"settings", "wifi_settings">>, <<"settings", "log_manager">>,
          <<"settings", "sd_info">>, <<"time_settings", "set_time">>,
          <<"time_settings", "timezone">>, <<"graph", "graph_config">>}
TileLinks == {<<"tiles", "measurement">>, <<"tiles", "graph">>}

\* The buttons that act on the second tap, where they are, and on what.
Buttons == {"delete", "clear", "forget"}
ScreenOf(b) == IF b = "forget" THEN "wifi_settings" ELSE "log_manager"
Targets(b) == IF b = "delete" THEN Files
              ELSE IF b = "clear" THEN {"card"} ELSE {"network"}

Idle == <<"idle">>
Listing == <<"list">>        \* waits in sd_storage_list_dir
Erasing(f) == <<"erase", f>> \* waits in sd_storage_erase

\* s_mutex of sd_storage is free for the LVGL task.
CardFree == \A i \in ClearTasks : clearTask[i] \notin {"format", "list"}

Shown(s) == s_current_screen = s
Touch(who, s) == deadUse' = IF Shown(s) THEN None ELSE who
TouchNone == deadUse' = None

Init ==
    /\ s_current_screen = Home /\ s_screen_stack = <<>> /\ active = {Home}
    /\ s_tiles = {} /\ widgets = {} /\ channels = {}
    /\ armed = [b \in Buttons |-> None]
    /\ timers = [b \in Buttons |-> {}]
    /\ disarmTimer = [b \in Buttons |-> None]
    /\ label = [b \in Buttons |-> None]
    /\ ui = Idle /\ rows = {}
    /\ forgetClickable = FALSE /\ forgetting = "no"
    /\ s_clear_in_progress = FALSE
    /\ clearTask = [i \in ClearTasks |-> None]
    /\ deadUse = None /\ tapped = {}

-----------------------------------------------------------------------------
\* Mutants: the tile count is not reset; nor is what was armed.
TilesOn_Keep(s) == s_tiles
ArmedOn_Keep(s) == armed

\* Navigation. What a create function makes of the flags -- it sets its own, if
\* its screen has one --, the tile table, the button that forgets and the armed
\* buttons.
FlagsOn(s, flags) == flags \cup ({s} \cap Refreshing)
TilesOn(s) == IF s = "tiles" THEN {} ELSE s_tiles
ForgetOn(s) == s = "wifi_settings"
ArmedOn(s) == [b \in Buttons |-> IF ScreenOf(b) = s THEN None ELSE armed[b]]

\* Once disarmed, a Forget that came to nothing has to be tapped twice again.
Unasked == IF forgetting = "asked" THEN "no" ELSE forgetting

\* screen_activate finds the screen and runs its create function, which first
\* deletes every widget. flags are those the callback has left set.
Activate(s, flags) ==
    IF s \in Registry
    THEN /\ s_current_screen' = s
         /\ active' = FlagsOn(s, flags)
         /\ widgets' = {}
         /\ s_tiles' = TilesOn(s)
         /\ armed' = ArmedOn(s)
         /\ label' = [b \in Buttons |-> None]
         /\ rows' = {}
         /\ forgetClickable' = ForgetOn(s)
         /\ forgetting' = IF s = "wifi_settings" THEN Unasked ELSE forgetting
         /\ tapped' = {}
         /\ ui' = IF s = "log_manager" THEN Listing ELSE Idle
    ELSE /\ active' = flags
         /\ UNCHANGED <<s_current_screen, tileVars, armed, label, rows, tapped,
                        wifiVars, ui>>

Unmoved == UNCHANGED <<timers, disarmTimer, clearVars, channels>> /\ TouchNone

screen_push(s, flags) ==
    /\ s_screen_stack' = IF Len(s_screen_stack) < StackMax
                         THEN Append(s_screen_stack, s_current_screen)
                         ELSE s_screen_stack
    /\ Activate(s, flags)

screen_pop_Peek(flags) ==
    /\ UNCHANGED s_screen_stack
    /\ Activate(IF s_screen_stack # <<>> THEN s_screen_stack[Len(s_screen_stack)] ELSE Home,
                flags)

screen_pop(flags) ==
    IF s_screen_stack # <<>>
    THEN /\ s_screen_stack' = SubSeq(s_screen_stack, 1, Len(s_screen_stack) - 1)
         /\ Activate(s_screen_stack[Len(s_screen_stack)], flags)
    ELSE /\ UNCHANGED s_screen_stack
         /\ Activate(Home, flags)

\* A callback of a button on one screen clears some flags and goes elsewhere.
Opens(on, cleared, to) ==
    ui = Idle /\ Shown(on) /\ screen_push(to, active \ cleared) /\ Unmoved
Returns(on, cleared) ==
    ui = Idle /\ Shown(on) /\ screen_pop(active \ cleared) /\ Unmoved

\* Mutant: the way from the graph to its settings leaves the graph's flag set.
graph_config_open_cb_Keep == Opens("graph", {}, "graph_config")

\* A short or a long press on a tile, and the menu buttons.
tile_clicked_cb == widgets # {} /\ Opens("tiles", {"tiles"}, "measurement")
tile_long_pressed_cb == widgets # {} /\ Opens("tiles", {"tiles"}, "graph")
tile_ui_settings_cb == Opens("tiles", {"tiles"}, "settings")
settings_open_cb ==
    \E s \in {"time_settings", "wifi_settings", "log_manager", "sd_info"} :
        Opens("settings", {}, s)
time_settings_set_time_cb == Opens("time_settings", {"time_settings"}, "set_time")
time_settings_timezone_cb == Opens("time_settings", {"time_settings"}, "timezone")
graph_config_open_cb == Opens("graph", {"graph"}, "graph_config")

OpenScreen ==
    \/ tile_clicked_cb \/ tile_long_pressed_cb \/ tile_ui_settings_cb \/ settings_open_cb
    \/ time_settings_set_time_cb \/ time_settings_timezone_cb \/ graph_config_open_cb

\* Back on every screen but tiles; Apply of graph_config and timezone too.
measurement_back_cb == Returns("measurement", {"measurement"})
graph_back_cb == Returns("graph", {"graph"})
graph_config_back_cb == Returns("graph_config", {})
settings_back_cb == Returns("settings", {})
sd_info_back_cb == Returns("sd_info", {"sd_info"})
log_manager_back_cb == Returns("log_manager", {"log_manager"})
wifi_settings_back_cb == Returns("wifi_settings", {"wifi_settings"})
time_settings_back_cb == Returns("time_settings", {"time_settings"})
set_time_back_cb == Returns("set_time", {})
timezone_back_cb == Returns("timezone", {})

Back ==
    \/ measurement_back_cb \/ graph_back_cb \/ graph_config_back_cb \/ settings_back_cb
    \/ sd_info_back_cb \/ log_manager_back_cb \/ wifi_settings_back_cb
    \/ time_settings_back_cb \/ set_time_back_cb \/ timezone_back_cb

-----------------------------------------------------------------------------
\* The periodic refresh of a screen; without its flag the callback returns.
RefreshTiles ==
    /\ s_tiles' = channels
    /\ widgets' = IF Shown("tiles") THEN widgets \cup (channels \ s_tiles)
                                    ELSE widgets
    /\ deadUse' = IF Shown("tiles") /\ s_tiles \subseteq widgets
                   THEN None ELSE "refresh"
    /\ UNCHANGED <<forgetClickable, ui>>

RefreshWifi ==
    /\ forgetClickable' \in BOOLEAN    \* whether the station is connected
    /\ Touch("refresh", "wifi_settings")
    /\ UNCHANGED <<tileVars, ui>>

RefreshFiles ==
    /\ ui' = Listing
    /\ TouchNone
    /\ UNCHANGED <<tileVars, forgetClickable>>

RefreshLabels(s) ==
    /\ Touch("refresh", s)
    /\ UNCHANGED <<tileVars, forgetClickable, ui>>

Refresh(s) ==
    /\ ui = Idle
    /\ s \in active
    /\ \/ s = "tiles" /\ RefreshTiles
       \/ s = "wifi_settings" /\ RefreshWifi
       \/ s = "log_manager" /\ RefreshFiles
       \/ s \notin {"tiles", "wifi_settings", "log_manager"} /\ RefreshLabels(s)
    /\ UNCHANGED <<navVars, armVars, clearVars, channels, forgetting, rows>>

\* log_manager_refresh_files on the LVGL task: it has waited for the card,
\* reads the directory and draws one row per file; the file being logged to
\* gets no Delete button. Other tasks write and remove files at any time, so
\* any list may be found.
Draw(seen, who) ==
    /\ rows' = IF Shown("log_manager") THEN seen ELSE rows
    /\ label' = [label EXCEPT !["delete"] =
                    IF Shown("log_manager") THEN armed["delete"] ELSE @]
    /\ Touch(who, "log_manager")

RedrawFiles ==
    /\ ui = Listing
    /\ CardFree
    /\ \E seen \in SUBSET Files :
            Draw(seen, IF "log_manager" \in active THEN "refresh" ELSE "timer")
    /\ ui' = Idle
    /\ UNCHANGED <<navVars, tileVars, clearVars, channels, wifiVars, armed, timers, disarmTimer, tapped>>

-----------------------------------------------------------------------------

\* The two-tap buttons.
CanTap(b, x) ==
    /\ ui = Idle
    /\ Shown(ScreenOf(b))
    /\ b = "delete" => x \in rows
    /\ b = "clear" => ~s_clear_in_progress
    /\ b = "forget" => forgetClickable

\* The first tap, or for Delete a tap on another row: arm, and start a timer.
\* Delete replaces a timer it knows of, the other two leave it running.
Arm(b, x) ==
    /\ CanTap(b, x)
    /\ IF b = "delete" THEN armed[b] # x ELSE armed[b] = None
    /\ LET left == IF b = "delete" THEN timers[b] \ {disarmTimer[b]} ELSE timers[b]
       IN  /\ Timers \ left # {}
           /\ LET t == CHOOSE t \in Timers : t \notin left
              IN  /\ timers' = [timers EXCEPT ![b] = left \cup {t}]
                  /\ disarmTimer' = [disarmTimer EXCEPT ![b] = t]
    /\ armed' = [armed EXCEPT ![b] = x]
    /\ label' = IF b = "delete" THEN label ELSE [label EXCEPT ![b] = x]
    /\ ui' = IF b = "delete" THEN Listing ELSE Idle
    /\ tapped' = tapped \cup {<<b, x>>}
    /\ UNCHANGED <<navVars, tileVars, clearVars, channels, wifiVars, rows>>
    /\ TouchNone

Confirmed_KeepPointer(b) ==
    /\ timers' = [timers EXCEPT ![b] = @ \ {disarmTimer[b]}]
    /\ UNCHANGED disarmTimer
    /\ UNCHANGED <<navVars, tileVars, channels, forgetClickable, rows, tapped>>
    /\ TouchNone

\* The second tap deletes the timer it knows of and goes ahead. Forget leaves
\* its flag set, and its label at "Forgetting...", also when no task was created.
Confirmed(b) ==
    /\ timers' = [timers EXCEPT ![b] = @ \ {disarmTimer[b]}]
    /\ disarmTimer' = [disarmTimer EXCEPT ![b] = None]
    /\ UNCHANGED <<navVars, tileVars, channels, forgetClickable, rows, tapped>>
    /\ TouchNone

ConfirmDelete(f) ==
    /\ CanTap("delete", f) /\ armed["delete"] = f
    /\ Confirmed("delete")
    /\ ui' = Erasing(f)
    /\ UNCHANGED <<armed, label, clearVars, forgetting>>

Disarmed_Not(b) == armed
Disarmed(b) == [armed EXCEPT ![b] = None]

ConfirmClear ==
    /\ CanTap("clear", "card") /\ armed["clear"] = "card"
    /\ Confirmed("clear")
    /\ armed' = Disarmed("clear")
    /\ label' = [label EXCEPT !["clear"] = None]
    /\ s_clear_in_progress' = TRUE
    /\ \/ LET free == {i \in ClearTasks : clearTask[i] = None}
          IN  /\ free # {}
              /\ clearTask' = [clearTask EXCEPT ![CHOOSE i \in free : TRUE] = "stop"]
       \/ "clear" \in CreateFails /\ UNCHANGED clearTask
    /\ UNCHANGED <<ui, forgetting>>

ConfirmForget ==
    /\ CanTap("forget", "network") /\ armed["forget"] = "network"
    /\ Confirmed("forget")
    /\ label' = [label EXCEPT !["forget"] = None]
    /\ \/ forgetting' = "task"
       \/ "forget" \in CreateFails /\ forgetting' = IF forgetting = "no" THEN "asked" ELSE forgetting
    /\ UNCHANGED <<armed, ui, clearVars>>

\* sd_storage_erase got the card; then the flag falls and the list is redrawn.
EraseFile ==
    \E f \in Files :
        /\ ui = Erasing(f)
        /\ CardFree
        /\ armed' = Disarmed("delete")
        /\ ui' = Listing
        /\ UNCHANGED <<navVars, tileVars, clearVars, channels, wifiVars, rows,
                       timers, disarmTimer, label, tapped>>
        /\ TouchNone

\* A one-shot timer fires, whatever is shown by then.
Disarm(b, t) ==
    /\ ui = Idle
    /\ t \in timers[b]
    /\ timers' = [timers EXCEPT ![b] = @ \ {t}]
    /\ disarmTimer' = [disarmTimer EXCEPT ![b] = None]
    /\ armed' = Disarmed(b)
    /\ IF b = "delete"
       THEN ui' = Listing /\ TouchNone /\ UNCHANGED label
       ELSE /\ label' = [label EXCEPT ![b] = None]
            /\ Touch("timer", ScreenOf(b))
            /\ UNCHANGED ui
    /\ forgetting' = IF b = "forget" THEN Unasked ELSE forgetting
    /\ UNCHANGED <<navVars, tileVars, clearVars, channels, forgetClickable, rows, tapped>>

\* Use: logger_start, then the list is redrawn.
UseName ==
    /\ ui = Idle
    /\ Shown("log_manager")
    /\ ui' = Listing
    /\ UNCHANGED <<navVars, tileVars, armVars, clearVars, channels, wifiVars, rows>>
    /\ TouchNone

-----------------------------------------------------------------------------
\* log_manager_clear_task. It holds s_mutex while it formats and lists, and
\* waits for the LVGL lock -- the LVGL task idle -- before it draws.
Step(i, from, to) ==
    /\ clearTask[i] = from
    /\ clearTask' = [clearTask EXCEPT ![i] = to]
    /\ UNCHANGED <<navVars, tileVars, channels, wifiVars, ui, armed, timers,
                   disarmTimer, tapped>>

OthersOffCard(i) == \A j \in ClearTasks \ {i} : clearTask[j] \notin {"format", "list"}

ClearStop(i) ==
    /\ OthersOffCard(i)
    /\ Step(i, "stop", "format")
    /\ TouchNone
    /\ UNCHANGED <<label, rows, s_clear_in_progress>>

ClearFormat(i) ==
    /\ Step(i, "format", "check")
    /\ TouchNone
    /\ UNCHANGED <<label, rows, s_clear_in_progress>>

ClearCheck_Return(i) ==
    /\ Step(i, "check", IF "log_manager" \in active THEN "label" ELSE None)
    /\ TouchNone
    /\ UNCHANGED <<label, rows, s_clear_in_progress>>

ClearCheck(i) ==
    /\ Step(i, "check", IF "log_manager" \in active THEN "label" ELSE "end")
    /\ TouchNone
    /\ UNCHANGED <<label, rows, s_clear_in_progress>>

ClearLabel(i) ==
    /\ ui = Idle
    /\ OthersOffCard(i)
    /\ Step(i, "label", "list")
    /\ label' = [label EXCEPT !["clear"] = None]
    /\ Touch("clear_task", "log_manager")
    /\ UNCHANGED <<rows, s_clear_in_progress>>

ClearList(i) ==
    /\ Step(i, "list", "draw")
    /\ TouchNone
    /\ UNCHANGED <<label, rows, s_clear_in_progress>>

\* The rows drawn are those of the list read before the lock was taken.
ClearDraw(i) ==
    /\ ui = Idle
    /\ Step(i, "draw", "end")
    /\ \E seen \in SUBSET Files : Draw(seen, "clear_task")
    /\ UNCHANGED s_clear_in_progress

ClearEnd(i) ==
    /\ Step(i, "end", None)
    /\ s_clear_in_progress' = FALSE
    /\ TouchNone
    /\ UNCHANGED <<label, rows>>

ClearTask(i) ==
    \/ ClearStop(i) \/ ClearFormat(i) \/ ClearCheck(i) \/ ClearLabel(i)
    \/ ClearList(i) \/ ClearDraw(i) \/ ClearEnd(i)

\* A channel appears in the hub. A forget ends in a restart.
ChannelAppears ==
    /\ \E c \in Channels \ channels : channels' = channels \cup {c}
    /\ UNCHANGED <<navVars, tileVars, armVars, clearVars, wifiVars, ui, rows>>
    /\ TouchNone

Restart ==
    /\ forgetting = "task"
    /\ s_current_screen' = Home /\ s_screen_stack' = <<>> /\ active' = {Home}
    /\ s_tiles' = {} /\ widgets' = {} /\ channels' = {}
    /\ armed' = [b \in Buttons |-> None]
    /\ timers' = [b \in Buttons |-> {}]
    /\ disarmTimer' = [b \in Buttons |-> None]
    /\ label' = [b \in Buttons |-> None]
    /\ ui' = Idle /\ rows' = {}
    /\ forgetClickable' = FALSE /\ forgetting' = "no"
    /\ s_clear_in_progress' = FALSE
    /\ clearTask' = [i \in ClearTasks |-> None]
    /\ deadUse' = None /\ tapped' = {}

Lvgl == \/ \E s \in AllScreens : Refresh(s)
        \/ OpenScreen \/ Back \/ RedrawFiles \/ EraseFile \/ UseName
        \/ \E b \in Buttons : \E x \in Targets(b) : Arm(b, x)
        \/ \E f \in Files : ConfirmDelete(f)
        \/ ConfirmClear \/ ConfirmForget
        \/ \E b \in Buttons, t \in Timers : Disarm(b, t)

Next == Lvgl \/ (\E i \in ClearTasks : ClearTask(i)) \/ ChannelAppears \/ Restart

Spec == Init /\ [][Next]_vars
-----------------------------------------------------------------------------
\* What the scheduler gives: a callback that waits for the card gets it, the
\* clear task runs on, and gets the LVGL lock the LVGL task gives up after
\* every callback.
Fairness ==
    /\ WF_vars(RedrawFiles \/ EraseFile)
    /\ WF_vars(\E i \in ClearTasks :
                    \/ ClearStop(i) \/ ClearFormat(i) \/ ClearCheck(i)
                    \/ ClearList(i) \/ ClearEnd(i))
    /\ SF_vars(\E i \in ClearTasks : ClearLabel(i) \/ ClearDraw(i))

FairSpec == Spec /\ Fairness

-----------------------------------------------------------------------------
\* The values the variables take.
ScreensTypeOK ==
    /\ s_current_screen \in AllScreens /\ s_screen_stack \in Seq(AllScreens)
    /\ active \subseteq Refreshing
    /\ s_tiles \subseteq Channels /\ widgets \subseteq Channels
    /\ channels \subseteq Channels
    /\ armed \in [Buttons -> Files \cup {"card", "network", None}]
    /\ \A b \in Buttons : armed[b] \in Targets(b) \cup {None}
    /\ timers \in [Buttons -> SUBSET Timers]
    /\ disarmTimer \in [Buttons -> Timers \cup {None}]
    /\ label \in [Buttons -> Files \cup {"card", "network", None}]
    /\ ui \in {Idle, Listing} \cup {Erasing(f) : f \in Files}
    /\ rows \subseteq Files
    /\ forgetClickable \in BOOLEAN /\ forgetting \in {"no", "asked", "task"}
    /\ s_clear_in_progress \in BOOLEAN
    /\ clearTask \in [ClearTasks -> ClearSteps \cup {None}]
    /\ deadUse \in {None, "refresh", "timer", "clear_task"}
    /\ tapped \subseteq Buttons \X (Files \cup {"card", "network"})

\* Back always leads the way one came: the stack and the screen shown are a
\* path of menu buttons from the tiles, whatever sequence of taps made it
\* (screen_push, screen_pop, and Apply that pops).
NavPath ==
    LET trail == Append(s_screen_stack, s_current_screen)
    IN  /\ trail[1] = Home
        /\ \A i \in 1..(Len(trail) - 1) :
                <<trail[i], trail[i + 1]>> \in Links \cup TileLinks

\* A screen's active flag is set exactly while it is the one shown: each of the
\* callbacks that leave a screen clears that screen's, and each create function
\* sets its own. Refresh timers, which live for ever, and the clear task rely on
\* it, and so does whoever adds a button that leads elsewhere.
ActiveIsShown == active = {s_current_screen} \cap Refreshing

\* No callback of a click or of a periodic timer uses a widget that was
\* deleted with its screen. Two others can: a disarm timer left over from an
\* earlier visit, and the clear task once the screen was left.
OnlyLeftoversUseDeleted == deadUse \in {None, "timer", "clear_task"}

\* A disarm pointer is NULL or names a timer still to fire, so lv_timer_del is
\* never given a freed one -- although timers outlive screens and the pointer
\* loses track of some. Delete never loses track of its own.
TimerPointers ==
    /\ \A b \in Buttons : disarmTimer[b] \in timers[b] \cup {None}
    /\ timers["delete"] \subseteq {disarmTimer["delete"]}

\* A confirmation window closes by itself: while a button is armed a timer is
\* pending that disarms it, unless the second tap was taken.
ArmedWillDisarm ==
    \A b \in Buttons :
        armed[b] # None => \/ timers[b] # {}
                           \/ b = "forget" /\ forgetting # "no"
                           \/ b = "delete" /\ ui = Erasing(armed[b])

\* What a button offers is what a tap does: on the screen it is on, it asks
\* for confirmation exactly when it is armed, and for the file it is armed for.
OffersWhatItDoes ==
    \A b \in Buttons :
        ui = Idle /\ Shown(ScreenOf(b)) =>
            label[b] = armed[b] \/ (b = "forget" /\ forgetting # "no")

\* At most one task clears the card, and s_clear_in_progress tells of it even
\* when the screen was left and entered again meanwhile.
OneClear ==
    /\ Cardinality({i \in ClearTasks : clearTask[i] # None}) <= 1
    /\ (\E i \in ClearTasks : clearTask[i] # None) => s_clear_in_progress

\* Nothing is deleted, cleared or forgotten on a single tap: the same button
\* was tapped before for the same thing, since the screen was last shown.
ConfirmedByTwoTaps ==
    [][/\ \A f \in Files : ui # Erasing(f) /\ ui' = Erasing(f) => <<"delete", f>> \in tapped
       /\ ~s_clear_in_progress /\ s_clear_in_progress' => <<"clear", "card">> \in tapped
       /\ forgetting # forgetting' /\ forgetting' # "no" => <<"forget", "network">> \in tapped]_vars

\* A clear ends and gives the button back, although its task waits for the
\* LVGL lock that callbacks hold while they wait for the card it formats.
ClearEnds == s_clear_in_progress ~> ~s_clear_in_progress

\* log_manager_screen.c:128-137: the format runs on a task of its own because
\* from a callback it "would block the whole esp_lvgl_port task".
UiAliveDuringFormat ==
    \A i \in ClearTasks : clearTask[i] = "format" => ui = Idle

\* log_manager_screen.c:141-146: the clear task skips the UI when the screen
\* was left, "unlike writing into whatever screen's now active".
ClearTaskDrawsOnItsScreen == deadUse # "clear_task"
=============================================================================
