---------------------------- MODULE WifiBringup ----------------------------
(***************************************************************************)
(* How web_server.c joins a network or falls back to the setup AP of       *)
(* wifi_provision.c, over restarts and power cuts: the bring-up task, the  *)
(* event-loop task that hears of an address, the portal form that stores   *)
(* credentials, the task that forgets them, and a reader of the status.    *)
(*                                                                         *)
(* NVS keeps each of the two strings by itself; a form stands for the SSID *)
(* and the password somebody entered together. Both HTTP servers want      *)
(* port 80, so the second one fails to start.                              *)
(***************************************************************************)
EXTENDS Naturals

CONSTANTS Forms,       \* what is entered into the portal form
          MaxBoots,    \* bound on restarts
          StartFaults, \* may the driver refuse the setup AP, or a server not start?
          NvsFaults,   \* may NVS refuse to write or erase?
          None

ASSUME WifiAssumption ==
    /\ None \notin Forms \cup {"setup", "station", "portal"}
    /\ MaxBoots \in Nat /\ {StartFaults, NvsFaults} \subseteq BOOLEAN

VARIABLES
    nvs,                              \* [ssid, pass] in flash
    bringup, used,                    \* wifi_bringup_task; what it loaded
    s_wifi_mode, s_wifi_ssid, s_wifi_ip,
    connectedBit,                     \* WIFI_CONNECTED_BIT
    radio, link,                      \* the driver
    gotIp, handler, started_once,     \* GOT_IP queued; the event-loop task
    httpd,                            \* whose server has port 80
    saving,                           \* the form being stored, if any
    saveStep, rebooting,              \* portal_save_handler, reboot_task
    forgetStep,                       \* forget_wifi_task
    reader,                           \* a web_server_get_status under way
    boots,
    raced, setupFault, torn, forgotten   \* history, for the properties

flashVars  == <<nvs, boots>>
statusVars == <<s_wifi_mode, s_wifi_ssid, s_wifi_ip>>
eventVars  == <<gotIp, handler, started_once, connectedBit>>
radioVars  == <<radio, link>>
saveVars   == <<saving, saveStep, rebooting>>
history    == <<raced, setupFault, torn, forgotten>>
vars == <<flashVars, statusVars, eventVars, radioVars, saveVars, history,
          bringup, used, httpd, forgetStep, reader>>

Reading == [at : {"mode", "ssid", "ip", "done"},
            mode : {"CONNECTING", "STA", "AP"},
            ssid : Forms \cup {None, "setup"}, ip : {None, "station", "setup"}]
NoReading == [at |-> "mode", mode |-> "CONNECTING", ssid |-> None, ip |-> None]

\* RAM as app_main finds it; flash is as it was left.
Booted ==
    /\ bringup' = "load" /\ used' = None
    /\ s_wifi_mode' = "CONNECTING" /\ s_wifi_ssid' = None /\ s_wifi_ip' = None
    /\ connectedBit' = FALSE /\ radio' = "off" /\ link' = "down"
    /\ gotIp' = FALSE /\ handler' = "idle" /\ started_once' = FALSE
    /\ httpd' = None /\ saving' = None /\ saveStep' = "ssid"
    /\ rebooting' = FALSE /\ forgetStep' = "none" /\ reader' = NoReading
    /\ raced' = FALSE /\ setupFault' = FALSE

WifiInit ==
    /\ nvs = [ssid |-> None, pass |-> None] /\ boots = 0
    /\ bringup = "load" /\ used = None
    /\ s_wifi_mode = "CONNECTING" /\ s_wifi_ssid = None /\ s_wifi_ip = None
    /\ connectedBit = FALSE /\ radio = "off" /\ link = "down"
    /\ gotIp = FALSE /\ handler = "idle" /\ started_once = FALSE
    /\ httpd = None /\ saving = None /\ saveStep = "ssid"
    /\ rebooting = FALSE /\ forgetStep = "none" /\ reader = NoReading
    /\ raced = FALSE /\ setupFault = FALSE /\ torn = FALSE /\ forgotten = FALSE

-----------------------------------------------------------------------------
\* Mutant: a stored password alone is taken for credentials.
Load_AnyKey ==
    /\ bringup = "load"
    /\ used' = nvs.ssid
    /\ IF nvs # [ssid |-> None, pass |-> None]
       THEN /\ s_wifi_ssid' = nvs.ssid
            /\ radio' = "sta" /\ link' = "connecting"
            /\ bringup' = "wait"
       ELSE bringup' = "ap" /\ UNCHANGED <<s_wifi_ssid, radioVars>>
    /\ UNCHANGED <<flashVars, s_wifi_mode, s_wifi_ip, eventVars, saveVars, history,
                   httpd, forgetStep, reader>>

\* wifi_bringup_task. Without an SSID in NVS it goes straight to the setup AP.
Load ==
    /\ bringup = "load"
    /\ used' = nvs.ssid
    /\ IF nvs.ssid # None
       THEN /\ s_wifi_ssid' = nvs.ssid
            /\ radio' = "sta" /\ link' = "connecting"
            /\ bringup' = "wait"
       ELSE /\ bringup' = "ap"
            /\ UNCHANGED <<s_wifi_ssid, radioVars>>
    /\ UNCHANGED <<flashVars, s_wifi_mode, s_wifi_ip, eventVars, saveVars, history,
                   httpd, forgetStep, reader>>

\* Mutants: a wait that gives up without the AP, and one without a bound.
WaitEnds_GiveUp ==
    /\ bringup = "wait" /\ bringup' = "done"
    /\ UNCHANGED <<flashVars, statusVars, eventVars, radioVars, saveVars, history,
                   used, httpd, forgetStep, reader>>
WaitEnds_Forever == connectedBit /\ WaitEnds_GiveUp

\* The bounded wait sees the bit and ends; or it times out, and the task goes
\* on to stop the driver -- the address may come all the same.
WaitEnds ==
    /\ bringup = "wait"
    /\ bringup' \in IF connectedBit THEN {"done"} ELSE {"stop"}
    /\ UNCHANGED <<flashVars, statusVars, eventVars, radioVars, saveVars, history,
                   used, httpd, forgetStep, reader>>

StopDriver ==
    /\ bringup = "stop"
    /\ radio' = "off" /\ link' = "down"
    /\ raced' = (gotIp \/ handler # "idle" \/ connectedBit)
    /\ bringup' = "ap"
    /\ UNCHANGED <<flashVars, statusVars, eventVars, saveVars, setupFault, torn,
                   forgotten, used, httpd, forgetStep, reader>>

\* wifi_provision_start_ap: the driver, then the portal's server; then the
\* task publishes SSID, address and mode, in that order. The server does not
\* start when the other one has the port, or for want of memory or a task: the
\* AP then stays on the air without the form, and nothing is published.
StartAp ==
    /\ bringup = "ap"
    /\ \/ radio' = "ap" /\ bringup' = "portal" /\ UNCHANGED setupFault
       \/ StartFaults /\ bringup' = "failed" /\ setupFault' = TRUE /\ UNCHANGED radio
    /\ UNCHANGED <<flashVars, statusVars, eventVars, link, saveVars, raced, torn,
                   forgotten, used, httpd, forgetStep, reader>>

\* Mutant: the failed start of the portal is ignored.
StartPortal_Ignore ==
    /\ bringup = "portal" /\ bringup' = "ap_ssid"
    /\ httpd' = IF httpd = None THEN "portal" ELSE httpd
    /\ UNCHANGED <<flashVars, statusVars, eventVars, radioVars, saveVars, history,
                   used, forgetStep, reader>>

StartPortal ==
    /\ bringup = "portal"
    /\ \/ httpd = None /\ httpd' = "portal" /\ bringup' = "ap_ssid" /\ UNCHANGED setupFault
       \/ httpd # None /\ bringup' = "failed" /\ UNCHANGED <<httpd, setupFault>>
       \/ StartFaults /\ bringup' = "failed" /\ setupFault' = TRUE /\ UNCHANGED httpd
    /\ UNCHANGED <<flashVars, statusVars, eventVars, radioVars, saveVars, raced, torn,
                   forgotten, used, forgetStep, reader>>

\* Mutant: the mode is published first.
PublishAp_ModeFirst ==
    /\ \/ /\ bringup = "ap_ssid" /\ bringup' = "ap_ip"
          /\ s_wifi_mode' = "AP" /\ UNCHANGED <<s_wifi_ip, s_wifi_ssid>>
       \/ /\ bringup = "ap_ip" /\ bringup' = "done"
          /\ s_wifi_ip' = "setup" /\ s_wifi_ssid' = "setup" /\ UNCHANGED s_wifi_mode
    /\ UNCHANGED <<flashVars, eventVars, radioVars, saveVars, history, used, httpd,
                   forgetStep, reader>>

PublishAp ==
    /\ \/ /\ bringup = "ap_ssid" /\ bringup' = "ap_ip"
          /\ s_wifi_ssid' = "setup" /\ UNCHANGED <<s_wifi_ip, s_wifi_mode>>
       \/ /\ bringup = "ap_ip" /\ bringup' = "ap_mode"
          /\ s_wifi_ip' = "setup" /\ UNCHANGED <<s_wifi_ssid, s_wifi_mode>>
       \/ /\ bringup = "ap_mode" /\ bringup' = "done"
          /\ s_wifi_mode' = "AP" /\ UNCHANGED <<s_wifi_ssid, s_wifi_ip>>
    /\ UNCHANGED <<flashVars, eventVars, radioVars, saveVars, history, used, httpd,
                   forgetStep, reader>>

Bringup == Load \/ WaitEnds \/ StopDriver \/ StartAp \/ StartPortal \/ PublishAp

-----------------------------------------------------------------------------
\* The driver: it connects and gets an address when it can, and may lose the
\* network; wifi_event_handler then connects again.
Associate ==
    /\ link = "connecting"
    /\ link' = "up" /\ gotIp' = TRUE
    /\ UNCHANGED <<flashVars, statusVars, handler, started_once, connectedBit, radio,
                   saveVars, history, bringup, used, httpd, forgetStep, reader>>

LoseLink ==
    /\ link = "up"
    /\ link' = "lost"
    /\ UNCHANGED <<flashVars, statusVars, eventVars, radio, saveVars, history,
                   bringup, used, httpd, forgetStep, reader>>

Reconnect ==
    /\ link = "lost" /\ handler = "idle"
    /\ link' = "connecting"
    /\ UNCHANGED <<flashVars, statusVars, eventVars, radio, saveVars, history,
                   bringup, used, httpd, forgetStep, reader>>

\* ip_event_handler, on the event-loop task: the address, then the mode, then
\* the bit the bring-up task waits for, then -- once -- the services.
Handle(from, to) ==
    /\ handler = from
    /\ handler' = to
    /\ UNCHANGED <<flashVars, s_wifi_ssid, radioVars, saveVars, history, bringup,
                   used, forgetStep, reader>>

HandleIp ==
    /\ Handle("idle", "mode")
    /\ gotIp /\ gotIp' = FALSE
    /\ s_wifi_ip' = "station"
    /\ UNCHANGED <<s_wifi_mode, connectedBit, started_once, httpd>>

HandleMode ==
    /\ Handle("mode", "bit")
    /\ s_wifi_mode' = "STA"
    /\ UNCHANGED <<s_wifi_ip, gotIp, connectedBit, started_once, httpd>>

HandleBit ==
    /\ Handle("bit", IF started_once THEN "idle" ELSE "httpd")
    /\ connectedBit' = TRUE
    /\ started_once' = TRUE
    /\ UNCHANGED <<s_wifi_ip, s_wifi_mode, gotIp, httpd>>

HandleHttpd ==
    /\ Handle("httpd", "idle")
    /\ \/ httpd = None /\ httpd' = "station"
       \/ (StartFaults \/ httpd # None) /\ UNCHANGED httpd
    /\ UNCHANGED <<s_wifi_ip, s_wifi_mode, gotIp, connectedBit, started_once>>

EventLoop == HandleIp \/ HandleMode \/ HandleBit \/ HandleHttpd

-----------------------------------------------------------------------------
\* portal_save_handler stores the SSID and then the password; each write goes
\* to flash, or is refused and ends the request. Success starts reboot_task.
SaveBegin ==
    /\ httpd = "portal" /\ radio = "ap" /\ saving = None
    /\ saving' \in Forms /\ saveStep' = "ssid"
    /\ UNCHANGED <<flashVars, statusVars, eventVars, radioVars, rebooting, history,
                   bringup, used, httpd, forgetStep, reader>>

SaveSsid ==
    /\ saving # None /\ saveStep = "ssid"
    /\ \/ /\ nvs' = [nvs EXCEPT !.ssid = saving]
          /\ saveStep' = "pass" /\ forgotten' = FALSE
          /\ UNCHANGED saving
       \/ /\ NvsFaults /\ saving' = None /\ UNCHANGED <<nvs, saveStep, forgotten>>
    /\ UNCHANGED <<boots, statusVars, eventVars, radioVars, rebooting, raced, setupFault,
                   torn, bringup, used, httpd, forgetStep, reader>>

\* Mutant: the password is optional, so without one the old one stays.
SavePass_Optional ==
    /\ saving # None /\ saveStep = "pass"
    /\ saving' = None /\ rebooting' = TRUE /\ torn' = FALSE
    /\ UNCHANGED <<nvs, boots, statusVars, eventVars, radioVars, saveStep, raced,
                   setupFault, forgotten, bringup, used, httpd, forgetStep, reader>>

SavePass ==
    /\ saving # None /\ saveStep = "pass"
    /\ saving' = None
    /\ \/ /\ nvs' = [nvs EXCEPT !.pass = saving]
          /\ rebooting' = TRUE /\ torn' = FALSE
       \/ /\ NvsFaults /\ torn' = TRUE /\ UNCHANGED <<nvs, rebooting>>
    /\ UNCHANGED <<boots, statusVars, eventVars, radioVars, saveStep, raced, setupFault,
                   forgotten, bringup, used, httpd, forgetStep, reader>>

\* web_server_forget_wifi: Forget is offered while the status says STA. The
\* task erases both keys, whatever that returns, and restarts.
ForgetBegin ==
    /\ s_wifi_mode = "STA" /\ forgetStep = "none"
    /\ forgetStep' = "ssid"
    /\ UNCHANGED <<flashVars, statusVars, eventVars, radioVars, saveVars, history,
                   bringup, used, httpd, reader>>

ForgetErase ==
    /\ \/ /\ forgetStep = "ssid" /\ forgetStep' = "pass"
          /\ \/ nvs' = [nvs EXCEPT !.ssid = None] /\ forgotten' = TRUE
             \/ NvsFaults /\ UNCHANGED <<nvs, forgotten>>
          /\ UNCHANGED torn
       \/ /\ forgetStep = "pass" /\ forgetStep' = "restart"
          /\ \/ nvs' = [nvs EXCEPT !.pass = None] /\ torn' = (nvs.ssid # None)
             \/ NvsFaults /\ UNCHANGED <<nvs, torn>>
          /\ UNCHANGED forgotten
    /\ UNCHANGED <<boots, statusVars, eventVars, radioVars, saveVars, raced, setupFault,
                   bringup, used, httpd, reader>>

\* esp_restart by either task, or the power is cut: flash stays as it is, also
\* between the two strings.
Restart ==
    /\ boots < MaxBoots
    /\ boots' = boots + 1
    /\ torn' = (torn \/ (saving # None /\ saveStep = "pass"))
    /\ UNCHANGED <<nvs, forgotten>>
    /\ Booted

-----------------------------------------------------------------------------
\* web_server_get_status, field by field and without a lock.
GetStatus ==
    /\ \/ reader.at = "mode" /\ reader' = [reader EXCEPT !.at = "ssid", !.mode = s_wifi_mode]
       \/ reader.at = "ssid" /\ reader' = [reader EXCEPT !.at = "ip", !.ssid = s_wifi_ssid]
       \/ reader.at = "ip" /\ reader' = [reader EXCEPT !.at = "done", !.ip = s_wifi_ip]
       \/ reader.at = "done" /\ reader' = NoReading
    /\ UNCHANGED <<flashVars, statusVars, eventVars, radioVars, saveVars, history,
                   bringup, used, httpd, forgetStep>>

Next == \/ Bringup \/ EventLoop \/ Associate \/ LoseLink \/ Reconnect
        \/ SaveBegin \/ SaveSsid \/ SavePass \/ ForgetBegin \/ ForgetErase
        \/ Restart \/ GetStatus

Spec == WifiInit /\ [][Next]_vars

\* The two tasks run; nothing promises that the network is there.
FairSpec == Spec /\ WF_vars(Bringup) /\ WF_vars(EventLoop)

-----------------------------------------------------------------------------
\* The values the variables take: in flash and the tasks that write it, in
\* the two tasks that bring Wi-Fi up, and in the status and its reader.
FlashTypeOK ==
    /\ nvs \in [ssid : Forms \cup {None}, pass : Forms \cup {None}]
    /\ boots \in 0..MaxBoots
    /\ saving \in Forms \cup {None} /\ saveStep \in {"ssid", "pass"}
    /\ forgetStep \in {"none", "ssid", "pass", "restart"}

TaskTypeOK ==
    /\ bringup \in {"load", "wait", "stop", "ap", "portal", "ap_ssid", "ap_ip",
                    "ap_mode", "done", "failed"}
    /\ used \in Forms \cup {None}
    /\ radio \in {"off", "sta", "ap"} /\ link \in {"down", "connecting", "up", "lost"}
    /\ handler \in {"idle", "mode", "bit", "httpd"}
    /\ httpd \in {None, "station", "portal"}

FlagTypeOK ==
    /\ connectedBit \in BOOLEAN /\ gotIp \in BOOLEAN /\ started_once \in BOOLEAN
    /\ raced \in BOOLEAN /\ setupFault \in BOOLEAN
    /\ rebooting \in BOOLEAN /\ torn \in BOOLEAN /\ forgotten \in BOOLEAN

StatusTypeOK ==
    /\ s_wifi_mode \in {"CONNECTING", "STA", "AP"}
    /\ s_wifi_ssid \in Forms \cup {None, "setup"}
    /\ s_wifi_ip \in {None, "station", "setup"}
    /\ reader \in Reading

WifiTypeOK == FlashTypeOK /\ TaskTypeOK /\ StatusTypeOK /\ FlagTypeOK

\* What a caller of web_server_get_status gets belongs together although it is
\* read and written field by field: with STA comes the station's address and
\* the stored network, with AP those of the setup AP (web_server.h:32-34).
\* It needs that no address arrived between the end of the wait and the stop
\* of the driver: then both tasks publish.
StatusTogether ==
    reader.at = "done" /\ ~raced =>
        /\ reader.mode = "STA" => reader.ssid = used /\ reader.ip = "station"
        /\ reader.mode = "AP"  => reader.ssid = "setup" /\ reader.ip = "setup"

\* Whoever reports AP has the setup network on the air and its form served,
\* in every order of the two tasks.
ApHasPortal == s_wifi_mode = "AP" => radio = "ap" /\ httpd = "portal"

\* The device is never stranded: when bring-up has ended and all events are
\* handled there is a form to fill in, or a status that offers Forget -- also
\* when both servers wanted the port, after a torn save and with a wrong
\* password. It needs that neither the driver refused the setup AP nor the
\* portal's server failed to start for want of memory or a task: then the
\* status stays CONNECTING, and the device needs a restart.
NeverStranded ==
    /\ bringup \in {"done", "failed"}
    /\ handler = "idle" /\ ~gotIp /\ ~setupFault
    => s_wifi_mode = "STA" \/ (s_wifi_mode = "AP" /\ httpd = "portal")

\* Once the SSID is erased the forgotten network is not joined again until
\* somebody enters one: neither a power cut between the two erasures nor a
\* refused second one brings it back. When NVS refuses to erase the SSID, the
\* code restarts all the same and joins the network again.
ForgetSticks ==
    forgotten /\ forgetStep = "none" => used = None /\ radio # "sta"

\* SSID and password in flash were entered together, unless a save was cut
\* short between them or only the SSID could not be erased.
CredentialsMatch ==
    /\ nvs.ssid # None
    /\ ~torn /\ ~(saving # None /\ saveStep = "pass")
    => nvs.pass = nvs.ssid

\* The screen does not say "Connecting..." for ever: bring-up lands on STA or
\* on AP, unless the AP or the portal's server would not start.
ConnectingEnds == s_wifi_mode = "CONNECTING" ~> (s_wifi_mode # "CONNECTING" \/ setupFault)
=============================================================================
