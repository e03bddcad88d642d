----------------------------- MODULE WifiProofs -----------------------------
(***************************************************************************)
(* Proofs about Wi-Fi bring-up, for any credentials, any number of         *)
(* restarts and every fault: what the status says, and that a form or      *)
(* Forget is always left to the user.                                      *)
(***************************************************************************)
EXTENDS WifiBringup, TLAPS

\* The bring-up task has turned to the setup AP.
TowardsAp == bringup \in {"ap", "portal", "ap_ssid", "ap_ip", "ap_mode", "failed"}

\* The AP is published only once it serves the form.
PortalFirst ==
    /\ bringup \in {"ap_ssid", "ap_ip", "ap_mode"} \/ s_wifi_mode = "AP" =>
            radio = "ap" /\ httpd = "portal"
    /\ s_wifi_mode = "AP" => bringup = "done"
    /\ bringup = "portal" => radio = "ap"
    /\ httpd = "portal" => bringup \in {"ap_ssid", "ap_ip", "ap_mode", "done"}

\* The station's side of the status and of the port.
StationKnown ==
    /\ handler \in {"bit", "httpd"} \/ connectedBit => s_wifi_mode # "CONNECTING"
    /\ s_wifi_mode = "STA" => connectedBit \/ handler # "idle"
    /\ handler = "httpd" => connectedBit
    /\ httpd = "station" => s_wifi_mode = "STA"
    /\ bringup = "done" => s_wifi_mode # "CONNECTING"
    /\ bringup = "failed" => httpd = "station" \/ setupFault

\* No address comes while no station runs, if none came as it was stopped.
Quiet == ~gotIp /\ handler = "idle" /\ ~connectedBit /\ link = "down"
NoStation ==
    /\ bringup = "load" => Quiet /\ s_wifi_mode = "CONNECTING" /\ radio = "off"
    /\ bringup \in {"load", "wait", "stop"} => ~raced
    /\ ~raced /\ (TowardsAp \/ s_wifi_mode = "AP") => Quiet

\* The fields of the status belong together, step by step.
StatusFields ==
    /\ ~raced /\ s_wifi_mode = "STA" => s_wifi_ssid = used /\ s_wifi_ip = "station"
    /\ ~raced /\ handler = "mode" => s_wifi_ip = "station"
    /\ bringup \in {"wait", "stop"} => s_wifi_ssid = used
    /\ bringup \in {"ap_ip", "ap_mode"} => s_wifi_ssid = "setup"
    /\ bringup = "ap_mode" /\ ~raced => s_wifi_ip = "setup"
    /\ ~raced /\ s_wifi_mode = "AP" => s_wifi_ssid = "setup" /\ s_wifi_ip = "setup"
    /\ ~raced /\ bringup = "done" => connectedBit \/ s_wifi_mode = "AP"
    /\ ~raced /\ bringup = "done" /\ connectedBit => s_wifi_ssid = used

\* A reader under way is not overtaken by another mode.
ReaderCurrent ==
    ~raced =>
        /\ reader.at # "mode" /\ reader.mode = "STA" => s_wifi_mode = "STA"
        /\ reader.at # "mode" /\ reader.mode = "AP" => s_wifi_mode = "AP"
        /\ reader.at \in {"ip", "done"} /\ reader.mode = "STA" => reader.ssid = used
        /\ reader.at \in {"ip", "done"} /\ reader.mode = "AP" => reader.ssid = "setup"
        /\ StatusTogether

\* What is in flash.
FlashInv ==
    /\ CredentialsMatch
    /\ saving # None /\ saveStep = "pass" => nvs.ssid \in {saving, None}
    /\ forgotten => nvs.ssid = None
    /\ ForgetSticks

StatusInv == PortalFirst /\ StationKnown /\ NoStation /\ StatusFields /\ ReaderCurrent
WifiInv == WifiTypeOK /\ FlashInv /\ StatusInv

-----------------------------------------------------------------------------
\* The first boot.
LEMMA WifiStarts ==
    ASSUME WifiInit
    PROVE  WifiInv
  <1>. USE WifiAssumption DEF WifiAssumption, WifiInit
  <1>1. WifiTypeOK
    <2>1. FlashTypeOK
      BY DEF FlashTypeOK
    <2>2. TaskTypeOK /\ FlagTypeOK
      BY DEF TaskTypeOK, FlagTypeOK
    <2>3. StatusTypeOK
      BY DEF StatusTypeOK, Reading, NoReading
    <2>. QED
      BY <2>1, <2>2, <2>3 DEF WifiTypeOK
  <1>2. FlashInv
    BY DEF FlashInv, CredentialsMatch, ForgetSticks
  <1>3. StatusInv
    BY DEF StatusInv, PortalFirst, StationKnown, NoStation, Quiet, TowardsAp,
           StatusFields, ReaderCurrent, StatusTogether, NoReading
  <1>. QED
    BY <1>1, <1>2, <1>3 DEF WifiInv

LEMMA LoadKeeps ==
    ASSUME WifiInv, Load
    PROVE  WifiInv'
  <1>. USE WifiAssumption DEF WifiAssumption, WifiInv, Load, flashVars,
               statusVars, eventVars, radioVars, saveVars, history
  <1>1. WifiTypeOK'
    <2>1. FlashTypeOK'
      BY DEF WifiTypeOK, FlashTypeOK
    <2>2. TaskTypeOK'
      BY DEF WifiTypeOK, TaskTypeOK, FlashTypeOK
    <2>3. StatusTypeOK'
      BY DEF WifiTypeOK, StatusTypeOK, FlashTypeOK
    <2>4. FlagTypeOK'
      BY DEF WifiTypeOK, FlagTypeOK
    <2>. QED
      BY <2>1, <2>2, <2>3, <2>4 DEF WifiTypeOK
  <1>2. FlashInv'
    BY DEF FlashInv, CredentialsMatch, ForgetSticks, WifiTypeOK, FlashTypeOK
  <1>3. PortalFirst' /\ StationKnown'
    BY DEF StatusInv, PortalFirst, StationKnown, NoStation, Quiet, WifiTypeOK, TaskTypeOK, StatusTypeOK
  <1>4. NoStation'
    BY DEF StatusInv, NoStation, StationKnown, PortalFirst, Quiet, TowardsAp, WifiTypeOK, TaskTypeOK, StatusTypeOK
  <1>5. StatusFields'
    BY DEF StatusInv, StatusFields, NoStation, StationKnown, PortalFirst, Quiet,
           TowardsAp, WifiTypeOK, TaskTypeOK, StatusTypeOK
  <1>6. ReaderCurrent'
    BY DEF StatusInv, ReaderCurrent, StatusTogether, StatusFields, NoStation,
           StationKnown, PortalFirst, Quiet, TowardsAp, WifiTypeOK, TaskTypeOK, StatusTypeOK, Reading, NoReading
  <1>. QED
    BY <1>1, <1>2, <1>3, <1>4, <1>5, <1>6 DEF StatusInv

LEMMA WaitEndsKeeps ==
    ASSUME WifiInv, WaitEnds
    PROVE  WifiInv'
  <1>. USE WifiAssumption DEF WifiAssumption, WifiInv, WaitEnds, flashVars,
               statusVars, eventVars, radioVars, saveVars, history
  <1>1. WifiTypeOK'
    <2>1. FlashTypeOK'
      BY DEF WifiTypeOK, FlashTypeOK
    <2>2. TaskTypeOK'
      BY DEF WifiTypeOK, TaskTypeOK
    <2>3. StatusTypeOK'
      BY DEF WifiTypeOK, StatusTypeOK
    <2>4. FlagTypeOK'
      BY DEF WifiTypeOK, FlagTypeOK
    <2>. QED
      BY <2>1, <2>2, <2>3, <2>4 DEF WifiTypeOK
  <1>2. FlashInv'
    BY DEF FlashInv, CredentialsMatch, ForgetSticks, WifiTypeOK, FlashTypeOK
  <1>3. PortalFirst' /\ StationKnown'
    BY DEF StatusInv, PortalFirst, StationKnown, NoStation, Quiet, WifiTypeOK, TaskTypeOK, StatusTypeOK
  <1>4. NoStation'
    BY DEF StatusInv, NoStation, StationKnown, PortalFirst, Quiet, TowardsAp, WifiTypeOK, TaskTypeOK, StatusTypeOK
  <1>5. StatusFields'
    BY DEF StatusInv, StatusFields, NoStation, StationKnown, PortalFirst, Quiet,
           TowardsAp, WifiTypeOK, TaskTypeOK, StatusTypeOK
  <1>6. ReaderCurrent'
    BY DEF StatusInv, ReaderCurrent, StatusTogether, StatusFields, NoStation,
           StationKnown, PortalFirst, Quiet, TowardsAp, WifiTypeOK, TaskTypeOK, StatusTypeOK, Reading, NoReading
  <1>. QED
    BY <1>1, <1>2, <1>3, <1>4, <1>5, <1>6 DEF StatusInv

LEMMA StopDriverKeeps ==
    ASSUME WifiInv, StopDriver
    PROVE  WifiInv'
  <1>. USE WifiAssumption DEF WifiAssumption, WifiInv, StopDriver, flashVars,
               statusVars, eventVars, radioVars, saveVars, history
  <1>1. WifiTypeOK'
    <2>1. FlashTypeOK'
      BY DEF WifiTypeOK, FlashTypeOK
    <2>2. TaskTypeOK'
      BY DEF WifiTypeOK, TaskTypeOK
    <2>3. StatusTypeOK'
      BY DEF WifiTypeOK, StatusTypeOK
    <2>4. FlagTypeOK'
      BY DEF WifiTypeOK, FlagTypeOK
    <2>. QED
      BY <2>1, <2>2, <2>3, <2>4 DEF WifiTypeOK
  <1>2. FlashInv'
    BY DEF FlashInv, CredentialsMatch, ForgetSticks, WifiTypeOK, FlashTypeOK
  <1>3. PortalFirst' /\ StationKnown'
    BY DEF StatusInv, PortalFirst, StationKnown, NoStation, Quiet, WifiTypeOK, TaskTypeOK, StatusTypeOK
  <1>4. NoStation'
    BY DEF StatusInv, NoStation, StationKnown, PortalFirst, Quiet, TowardsAp, WifiTypeOK, TaskTypeOK, StatusTypeOK
  <1>5. StatusFields'
    BY DEF StatusInv, StatusFields, NoStation, StationKnown, PortalFirst, Quiet,
           TowardsAp, WifiTypeOK, TaskTypeOK, StatusTypeOK
  <1>6. ReaderCurrent'
    BY DEF StatusInv, ReaderCurrent, StatusTogether, StatusFields, NoStation,
           StationKnown, PortalFirst, Quiet, TowardsAp, WifiTypeOK, TaskTypeOK, StatusTypeOK, Reading, NoReading
  <1>. QED
    BY <1>1, <1>2, <1>3, <1>4, <1>5, <1>6 DEF StatusInv

LEMMA StartApKeeps ==
    ASSUME WifiInv, StartAp
    PROVE  WifiInv'
  <1>. USE WifiAssumption DEF WifiAssumption, WifiInv, StartAp, flashVars,
               statusVars, eventVars, radioVars, saveVars, history
  <1>1. WifiTypeOK'
    <2>1. FlashTypeOK'
      BY DEF WifiTypeOK, FlashTypeOK
    <2>2. TaskTypeOK'
      BY DEF WifiTypeOK, TaskTypeOK
    <2>3. StatusTypeOK'
      BY DEF WifiTypeOK, StatusTypeOK
    <2>4. FlagTypeOK'
      BY DEF WifiTypeOK, FlagTypeOK
    <2>. QED
      BY <2>1, <2>2, <2>3, <2>4 DEF WifiTypeOK
  <1>2. FlashInv'
    BY DEF FlashInv, CredentialsMatch, ForgetSticks, WifiTypeOK, FlashTypeOK
  <1>3. PortalFirst' /\ StationKnown'
    BY DEF StatusInv, PortalFirst, StationKnown, NoStation, Quiet, WifiTypeOK, TaskTypeOK, StatusTypeOK
  <1>4. NoStation'
    BY DEF StatusInv, NoStation, StationKnown, PortalFirst, Quiet, TowardsAp, WifiTypeOK, TaskTypeOK, StatusTypeOK
  <1>5. StatusFields'
    BY DEF StatusInv, StatusFields, NoStation, StationKnown, PortalFirst, Quiet,
           TowardsAp, WifiTypeOK, TaskTypeOK, StatusTypeOK
  <1>6. ReaderCurrent'
    BY DEF StatusInv, ReaderCurrent, StatusTogether, StatusFields, NoStation,
           StationKnown, PortalFirst, Quiet, TowardsAp, WifiTypeOK, TaskTypeOK, StatusTypeOK, Reading, NoReading
  <1>. QED
    BY <1>1, <1>2, <1>3, <1>4, <1>5, <1>6 DEF StatusInv

LEMMA StartPortalKeeps ==
    ASSUME WifiInv, StartPortal
    PROVE  WifiInv'
  <1>. USE WifiAssumption DEF WifiAssumption, WifiInv, StartPortal, flashVars,
               statusVars, eventVars, radioVars, saveVars, history
  <1>1. WifiTypeOK'
    <2>1. FlashTypeOK'
      BY DEF WifiTypeOK, FlashTypeOK
    <2>2. TaskTypeOK'
      BY DEF WifiTypeOK, TaskTypeOK
    <2>3. StatusTypeOK'
      BY DEF WifiTypeOK, StatusTypeOK
    <2>4. FlagTypeOK'
      BY DEF WifiTypeOK, FlagTypeOK
    <2>. QED
      BY <2>1, <2>2, <2>3, <2>4 DEF WifiTypeOK
  <1>2. FlashInv'
    BY DEF FlashInv, CredentialsMatch, ForgetSticks, WifiTypeOK, FlashTypeOK
  <1>3. PortalFirst' /\ StationKnown'
    BY DEF StatusInv, PortalFirst, StationKnown, NoStation, Quiet, WifiTypeOK, TaskTypeOK, StatusTypeOK
  <1>4. NoStation'
    BY DEF StatusInv, NoStation, StationKnown, PortalFirst, Quiet, TowardsAp, WifiTypeOK, TaskTypeOK, StatusTypeOK
  <1>5. StatusFields'
    BY DEF StatusInv, StatusFields, NoStation, StationKnown, PortalFirst, Quiet,
           TowardsAp, WifiTypeOK, TaskTypeOK, StatusTypeOK
  <1>6. ReaderCurrent'
    BY DEF StatusInv, ReaderCurrent, StatusTogether, StatusFields, NoStation,
           StationKnown, PortalFirst, Quiet, TowardsAp, WifiTypeOK, TaskTypeOK, StatusTypeOK, Reading, NoReading
  <1>. QED
    BY <1>1, <1>2, <1>3, <1>4, <1>5, <1>6 DEF StatusInv

LEMMA PublishApKeeps ==
    ASSUME WifiInv, PublishAp
    PROVE  WifiInv'
  <1>. USE WifiAssumption DEF WifiAssumption, WifiInv, PublishAp, flashVars,
               statusVars, eventVars, radioVars, saveVars, history
  <1>1. WifiTypeOK'
    <2>1. FlashTypeOK'
      BY DEF WifiTypeOK, FlashTypeOK
    <2>2. TaskTypeOK'
      BY DEF WifiTypeOK, TaskTypeOK
    <2>3. StatusTypeOK'
      BY DEF WifiTypeOK, StatusTypeOK
    <2>4. FlagTypeOK'
      BY DEF WifiTypeOK, FlagTypeOK
    <2>. QED
      BY <2>1, <2>2, <2>3, <2>4 DEF WifiTypeOK
  <1>2. FlashInv'
    BY DEF FlashInv, CredentialsMatch, ForgetSticks, WifiTypeOK, FlashTypeOK
  <1>3. PortalFirst' /\ StationKnown'
    BY DEF StatusInv, PortalFirst, StationKnown, NoStation, Quiet, WifiTypeOK, TaskTypeOK, StatusTypeOK
  <1>4. NoStation'
    BY DEF StatusInv, NoStation, StationKnown, PortalFirst, Quiet, TowardsAp, WifiTypeOK, TaskTypeOK, StatusTypeOK
  <1>5. StatusFields'
    BY DEF StatusInv, StatusFields, NoStation, StationKnown, PortalFirst, Quiet,
           TowardsAp, WifiTypeOK, TaskTypeOK, StatusTypeOK
  <1>6. ReaderCurrent'
    BY DEF StatusInv, ReaderCurrent, StatusTogether, StatusFields, NoStation,
           StationKnown, PortalFirst, Quiet, TowardsAp, WifiTypeOK, TaskTypeOK, StatusTypeOK, Reading, NoReading
  <1>. QED
    BY <1>1, <1>2, <1>3, <1>4, <1>5, <1>6 DEF StatusInv

LEMMA LinkKeeps ==
    ASSUME WifiInv, Associate \/ LoseLink \/ Reconnect
    PROVE  WifiInv'
  <1>. USE WifiAssumption DEF WifiAssumption, WifiInv, Associate, LoseLink, Reconnect, flashVars,
               statusVars, eventVars, radioVars, saveVars, history
  <1>1. WifiTypeOK'
    <2>1. FlashTypeOK'
      BY DEF WifiTypeOK, FlashTypeOK
    <2>2. TaskTypeOK'
      BY DEF WifiTypeOK, TaskTypeOK
    <2>3. StatusTypeOK'
      BY DEF WifiTypeOK, StatusTypeOK
    <2>4. FlagTypeOK'
      BY DEF WifiTypeOK, FlagTypeOK
    <2>. QED
      BY <2>1, <2>2, <2>3, <2>4 DEF WifiTypeOK
  <1>2. FlashInv'
    BY DEF FlashInv, CredentialsMatch, ForgetSticks, WifiTypeOK, FlashTypeOK
  <1>3. PortalFirst' /\ StationKnown'
    BY DEF StatusInv, PortalFirst, StationKnown, NoStation, Quiet, WifiTypeOK, TaskTypeOK, StatusTypeOK
  <1>4. NoStation'
    BY DEF StatusInv, NoStation, StationKnown, PortalFirst, Quiet, TowardsAp, WifiTypeOK, TaskTypeOK, StatusTypeOK
  <1>5. StatusFields'
    BY DEF StatusInv, StatusFields, NoStation, StationKnown, PortalFirst, Quiet,
           TowardsAp, WifiTypeOK, TaskTypeOK, StatusTypeOK
  <1>6. ReaderCurrent'
    BY DEF StatusInv, ReaderCurrent, StatusTogether, StatusFields, NoStation,
           StationKnown, PortalFirst, Quiet, TowardsAp, WifiTypeOK, TaskTypeOK, StatusTypeOK, Reading, NoReading
  <1>. QED
    BY <1>1, <1>2, <1>3, <1>4, <1>5, <1>6 DEF StatusInv

LEMMA HandleIpKeeps ==
    ASSUME WifiInv, HandleIp
    PROVE  WifiInv'
  <1>. USE WifiAssumption DEF WifiAssumption, WifiInv, HandleIp, Handle, flashVars,
               statusVars, eventVars, radioVars, saveVars, history
  <1>1. WifiTypeOK'
    <2>1. FlashTypeOK'
      BY DEF WifiTypeOK, FlashTypeOK
    <2>2. TaskTypeOK'
      BY DEF WifiTypeOK, TaskTypeOK
    <2>3. StatusTypeOK'
      BY DEF WifiTypeOK, StatusTypeOK
    <2>4. FlagTypeOK'
      BY DEF WifiTypeOK, FlagTypeOK
    <2>. QED
      BY <2>1, <2>2, <2>3, <2>4 DEF WifiTypeOK
  <1>2. FlashInv'
    BY DEF FlashInv, CredentialsMatch, ForgetSticks, WifiTypeOK, FlashTypeOK
  <1>3. PortalFirst' /\ StationKnown'
    BY DEF StatusInv, PortalFirst, StationKnown, NoStation, Quiet, WifiTypeOK, TaskTypeOK, StatusTypeOK
  <1>4. NoStation'
    BY DEF StatusInv, NoStation, StationKnown, PortalFirst, Quiet, TowardsAp, WifiTypeOK, TaskTypeOK, StatusTypeOK
  <1>5. StatusFields'
    BY DEF StatusInv, StatusFields, NoStation, StationKnown, PortalFirst, Quiet,
           TowardsAp, WifiTypeOK, TaskTypeOK, StatusTypeOK
  <1>6. ReaderCurrent'
    BY DEF StatusInv, ReaderCurrent, StatusTogether, StatusFields, NoStation,
           StationKnown, PortalFirst, Quiet, TowardsAp, WifiTypeOK, TaskTypeOK, StatusTypeOK, Reading, NoReading
  <1>. QED
    BY <1>1, <1>2, <1>3, <1>4, <1>5, <1>6 DEF StatusInv

LEMMA HandleModeKeeps ==
    ASSUME WifiInv, HandleMode
    PROVE  WifiInv'
  <1>. USE WifiAssumption DEF WifiAssumption, WifiInv, HandleMode, Handle, flashVars,
               statusVars, eventVars, radioVars, saveVars, history
  <1>1. WifiTypeOK'
    <2>1. FlashTypeOK'
      BY DEF WifiTypeOK, FlashTypeOK
    <2>2. TaskTypeOK'
      BY DEF WifiTypeOK, TaskTypeOK
    <2>3. StatusTypeOK'
      BY DEF WifiTypeOK, StatusTypeOK
    <2>4. FlagTypeOK'
      BY DEF WifiTypeOK, FlagTypeOK
    <2>. QED
      BY <2>1, <2>2, <2>3, <2>4 DEF WifiTypeOK
  <1>2. FlashInv'
    BY DEF FlashInv, CredentialsMatch, ForgetSticks, WifiTypeOK, FlashTypeOK
  <1>3. PortalFirst' /\ StationKnown'
    BY DEF StatusInv, PortalFirst, StationKnown, NoStation, Quiet, WifiTypeOK, TaskTypeOK, StatusTypeOK
  <1>4. NoStation'
    BY DEF StatusInv, NoStation, StationKnown, PortalFirst, Quiet, TowardsAp, WifiTypeOK, TaskTypeOK, StatusTypeOK
  <1>5. StatusFields'
    BY DEF StatusInv, StatusFields, NoStation, StationKnown, PortalFirst, Quiet,
           TowardsAp, WifiTypeOK, TaskTypeOK, StatusTypeOK
  <1>6. ReaderCurrent'
    BY DEF StatusInv, ReaderCurrent, StatusTogether, StatusFields, NoStation,
           StationKnown, PortalFirst, Quiet, TowardsAp, WifiTypeOK, TaskTypeOK, StatusTypeOK, Reading, NoReading
  <1>. QED
    BY <1>1, <1>2, <1>3, <1>4, <1>5, <1>6 DEF StatusInv

LEMMA HandleBitKeeps ==
    ASSUME WifiInv, HandleBit
    PROVE  WifiInv'
  <1>. USE WifiAssumption DEF WifiAssumption, WifiInv, HandleBit, Handle, flashVars,
               statusVars, eventVars, radioVars, saveVars, history
  <1>1. WifiTypeOK'
    <2>1. FlashTypeOK'
      BY DEF WifiTypeOK, FlashTypeOK
    <2>2. TaskTypeOK'
      BY DEF WifiTypeOK, TaskTypeOK
    <2>3. StatusTypeOK'
      BY DEF WifiTypeOK, StatusTypeOK
    <2>4. FlagTypeOK'
      BY DEF WifiTypeOK, FlagTypeOK
    <2>. QED
      BY <2>1, <2>2, <2>3, <2>4 DEF WifiTypeOK
  <1>2. FlashInv'
    BY DEF FlashInv, CredentialsMatch, ForgetSticks, WifiTypeOK, FlashTypeOK
  <1>3. PortalFirst' /\ StationKnown'
    BY DEF StatusInv, PortalFirst, StationKnown, NoStation, Quiet, WifiTypeOK, TaskTypeOK, StatusTypeOK
  <1>4. NoStation'
    BY DEF StatusInv, NoStation, StationKnown, PortalFirst, Quiet, TowardsAp, WifiTypeOK, TaskTypeOK, StatusTypeOK
  <1>5. StatusFields'
    BY DEF StatusInv, StatusFields, NoStation, StationKnown, PortalFirst, Quiet,
           TowardsAp, WifiTypeOK, TaskTypeOK, StatusTypeOK
  <1>6. ReaderCurrent'
    BY DEF StatusInv, ReaderCurrent, StatusTogether, StatusFields, NoStation,
           StationKnown, PortalFirst, Quiet, TowardsAp, WifiTypeOK, TaskTypeOK, StatusTypeOK, Reading, NoReading
  <1>. QED
    BY <1>1, <1>2, <1>3, <1>4, <1>5, <1>6 DEF StatusInv

LEMMA HandleHttpdKeeps ==
    ASSUME WifiInv, HandleHttpd
    PROVE  WifiInv'
  <1>. USE WifiAssumption DEF WifiAssumption, WifiInv, HandleHttpd, Handle, flashVars,
               statusVars, eventVars, radioVars, saveVars, history
  <1>1. WifiTypeOK'
    <2>1. FlashTypeOK'
      BY DEF WifiTypeOK, FlashTypeOK
    <2>2. TaskTypeOK'
      BY DEF WifiTypeOK, TaskTypeOK
    <2>3. StatusTypeOK'
      BY DEF WifiTypeOK, StatusTypeOK
    <2>4. FlagTypeOK'
      BY DEF WifiTypeOK, FlagTypeOK
    <2>. QED
      BY <2>1, <2>2, <2>3, <2>4 DEF WifiTypeOK
  <1>2. FlashInv'
    BY DEF FlashInv, CredentialsMatch, ForgetSticks, WifiTypeOK, FlashTypeOK
  <1>3. PortalFirst' /\ StationKnown'
    <2>1. s_wifi_mode \in {"STA", "AP"} /\ (s_wifi_mode = "AP" => httpd = "portal")
      BY DEF StatusInv, PortalFirst, StationKnown, WifiTypeOK, StatusTypeOK
    <2>2. PortalFirst'
      BY DEF StatusInv, PortalFirst
    <2>3. httpd' = "station" => s_wifi_mode' = "STA"
      BY <2>1 DEF StatusInv, StationKnown
    <2>4. bringup = "failed" => httpd' = "station" \/ setupFault'
      BY DEF StatusInv, StationKnown
    <2>5. s_wifi_mode' = "STA" => connectedBit' \/ handler' # "idle"
      BY DEF StatusInv, StationKnown
    <2>. QED
      BY <2>1, <2>2, <2>3, <2>4, <2>5 DEF StationKnown, StatusInv
  <1>4. NoStation'
    BY DEF StatusInv, NoStation, StationKnown, PortalFirst, Quiet, TowardsAp, WifiTypeOK, TaskTypeOK, StatusTypeOK
  <1>5. StatusFields'
    BY DEF StatusInv, StatusFields, NoStation, StationKnown, PortalFirst, Quiet,
           TowardsAp, WifiTypeOK, TaskTypeOK, StatusTypeOK
  <1>6. ReaderCurrent'
    BY DEF StatusInv, ReaderCurrent, StatusTogether, StatusFields, NoStation,
           StationKnown, PortalFirst, Quiet, TowardsAp, WifiTypeOK, TaskTypeOK, StatusTypeOK, Reading, NoReading
  <1>. QED
    BY <1>1, <1>2, <1>3, <1>4, <1>5, <1>6 DEF StatusInv

LEMMA SaveKeeps ==
    ASSUME WifiInv, SaveBegin \/ SaveSsid \/ SavePass
    PROVE  WifiInv'
  <1>. USE WifiAssumption DEF WifiAssumption, WifiInv, SaveBegin, SaveSsid, SavePass, flashVars,
               statusVars, eventVars, radioVars, saveVars, history
  <1>1. WifiTypeOK'
    <2>1. FlashTypeOK'
      BY DEF WifiTypeOK, FlashTypeOK
    <2>2. TaskTypeOK'
      BY DEF WifiTypeOK, TaskTypeOK
    <2>3. StatusTypeOK'
      BY DEF WifiTypeOK, StatusTypeOK
    <2>4. FlagTypeOK'
      BY DEF WifiTypeOK, FlagTypeOK
    <2>. QED
      BY <2>1, <2>2, <2>3, <2>4 DEF WifiTypeOK
  <1>2. FlashInv'
    BY DEF FlashInv, CredentialsMatch, ForgetSticks, WifiTypeOK, FlashTypeOK
  <1>3. PortalFirst' /\ StationKnown'
    BY DEF StatusInv, PortalFirst, StationKnown, NoStation, Quiet, WifiTypeOK, TaskTypeOK, StatusTypeOK
  <1>4. NoStation'
    BY DEF StatusInv, NoStation, StationKnown, PortalFirst, Quiet, TowardsAp, WifiTypeOK, TaskTypeOK, StatusTypeOK
  <1>5. StatusFields'
    BY DEF StatusInv, StatusFields, NoStation, StationKnown, PortalFirst, Quiet,
           TowardsAp, WifiTypeOK, TaskTypeOK, StatusTypeOK
  <1>6. ReaderCurrent'
    BY DEF StatusInv, ReaderCurrent, StatusTogether, StatusFields, NoStation,
           StationKnown, PortalFirst, Quiet, TowardsAp, WifiTypeOK, TaskTypeOK, StatusTypeOK, Reading, NoReading
  <1>. QED
    BY <1>1, <1>2, <1>3, <1>4, <1>5, <1>6 DEF StatusInv

LEMMA ForgetKeeps ==
    ASSUME WifiInv, ForgetBegin \/ ForgetErase
    PROVE  WifiInv'
  <1>. USE WifiAssumption DEF WifiAssumption, WifiInv, ForgetBegin, ForgetErase, flashVars,
               statusVars, eventVars, radioVars, saveVars, history
  <1>1. WifiTypeOK'
    <2>1. FlashTypeOK'
      BY DEF WifiTypeOK, FlashTypeOK
    <2>2. TaskTypeOK'
      BY DEF WifiTypeOK, TaskTypeOK
    <2>3. StatusTypeOK'
      BY DEF WifiTypeOK, StatusTypeOK
    <2>4. FlagTypeOK'
      BY DEF WifiTypeOK, FlagTypeOK
    <2>. QED
      BY <2>1, <2>2, <2>3, <2>4 DEF WifiTypeOK
  <1>2. FlashInv'
    <2>0. nvs.ssid \in Forms \cup {None} /\ nvs = [ssid |-> nvs.ssid, pass |-> nvs.pass]
      BY DEF WifiTypeOK, FlashTypeOK
    <2>1. CASE nvs' = nvs /\ UNCHANGED <<torn, forgotten>>
      BY <2>1 DEF FlashInv, CredentialsMatch, ForgetSticks
    <2>2. CASE nvs' = [nvs EXCEPT !.ssid = None] /\ UNCHANGED torn
      BY <2>0, <2>2 DEF FlashInv, CredentialsMatch, ForgetSticks
    <2>3. CASE nvs' = [nvs EXCEPT !.pass = None] /\ torn' = (nvs.ssid # None) /\ UNCHANGED forgotten
      BY <2>0, <2>3 DEF FlashInv, CredentialsMatch, ForgetSticks
    <2>. QED
      BY <2>1, <2>2, <2>3
  <1>3. PortalFirst' /\ StationKnown'
    BY DEF StatusInv, PortalFirst, StationKnown, NoStation, Quiet, WifiTypeOK, TaskTypeOK, StatusTypeOK
  <1>4. NoStation'
    BY DEF StatusInv, NoStation, StationKnown, PortalFirst, Quiet, TowardsAp, WifiTypeOK, TaskTypeOK, StatusTypeOK
  <1>5. StatusFields'
    BY DEF StatusInv, StatusFields, NoStation, StationKnown, PortalFirst, Quiet,
           TowardsAp, WifiTypeOK, TaskTypeOK, StatusTypeOK
  <1>6. ReaderCurrent'
    BY DEF StatusInv, ReaderCurrent, StatusTogether, StatusFields, NoStation,
           StationKnown, PortalFirst, Quiet, TowardsAp, WifiTypeOK, TaskTypeOK, StatusTypeOK, Reading, NoReading
  <1>. QED
    BY <1>1, <1>2, <1>3, <1>4, <1>5, <1>6 DEF StatusInv

LEMMA RestartKeeps ==
    ASSUME WifiInv, Restart
    PROVE  WifiInv'
  <1>. USE WifiAssumption DEF WifiAssumption, WifiInv, Restart, Booted, flashVars,
               statusVars, eventVars, radioVars, saveVars, history
  <1>1. WifiTypeOK'
    <2>1. FlashTypeOK'
      BY DEF WifiTypeOK, FlashTypeOK
    <2>2. TaskTypeOK'
      BY DEF WifiTypeOK, TaskTypeOK
    <2>3. StatusTypeOK'
      BY DEF WifiTypeOK, StatusTypeOK, Reading, NoReading
    <2>4. FlagTypeOK'
      BY DEF WifiTypeOK, FlagTypeOK
    <2>. QED
      BY <2>1, <2>2, <2>3, <2>4 DEF WifiTypeOK
  <1>2. FlashInv'
    BY DEF FlashInv, CredentialsMatch, ForgetSticks, WifiTypeOK, FlashTypeOK
  <1>3. PortalFirst' /\ StationKnown'
    BY DEF StatusInv, PortalFirst, StationKnown, NoStation, Quiet, WifiTypeOK, TaskTypeOK, StatusTypeOK
  <1>4. NoStation'
    BY DEF StatusInv, NoStation, StationKnown, PortalFirst, Quiet, TowardsAp, WifiTypeOK, TaskTypeOK, StatusTypeOK
  <1>5. StatusFields'
    BY DEF StatusInv, StatusFields, NoStation, StationKnown, PortalFirst, Quiet,
           TowardsAp, WifiTypeOK, TaskTypeOK, StatusTypeOK
  <1>6. ReaderCurrent'
    BY DEF StatusInv, ReaderCurrent, StatusTogether, StatusFields, NoStation,
           StationKnown, PortalFirst, Quiet, TowardsAp, WifiTypeOK, TaskTypeOK, StatusTypeOK, Reading, NoReading
  <1>. QED
    BY <1>1, <1>2, <1>3, <1>4, <1>5, <1>6 DEF StatusInv

LEMMA GetStatusKeeps ==
    ASSUME WifiInv, GetStatus
    PROVE  WifiInv'
  <1>. USE WifiAssumption DEF WifiAssumption, WifiInv, GetStatus, flashVars,
               statusVars, eventVars, radioVars, saveVars, history
  <1>1. WifiTypeOK'
    <2>1. FlashTypeOK'
      BY DEF WifiTypeOK, FlashTypeOK
    <2>2. TaskTypeOK'
      BY DEF WifiTypeOK, TaskTypeOK
    <2>3. StatusTypeOK'
      <3>1. reader' \in Reading
        <4>0. /\ reader \in Reading /\ s_wifi_mode \in {"CONNECTING", "STA", "AP"}
              /\ s_wifi_ssid \in Forms \cup {None, "setup"}
              /\ s_wifi_ip \in {None, "station", "setup"}
          BY DEF WifiTypeOK, StatusTypeOK
        <4>1. CASE reader' = [reader EXCEPT !.at = "ssid", !.mode = s_wifi_mode]
          BY <4>0, <4>1 DEF Reading
        <4>2. CASE reader' = [reader EXCEPT !.at = "ip", !.ssid = s_wifi_ssid]
          BY <4>0, <4>2 DEF Reading
        <4>3. CASE reader' = [reader EXCEPT !.at = "done", !.ip = s_wifi_ip]
          BY <4>0, <4>3 DEF Reading
        <4>4. CASE reader' = NoReading
          BY <4>4 DEF Reading, NoReading
        <4>. QED
          BY <4>1, <4>2, <4>3, <4>4
      <3>. QED
        BY <3>1 DEF WifiTypeOK, StatusTypeOK
    <2>4. FlagTypeOK'
      BY DEF WifiTypeOK, FlagTypeOK
    <2>. QED
      BY <2>1, <2>2, <2>3, <2>4 DEF WifiTypeOK
  <1>2. FlashInv'
    BY DEF FlashInv, CredentialsMatch, ForgetSticks, WifiTypeOK, FlashTypeOK
  <1>3. PortalFirst' /\ StationKnown'
    BY DEF StatusInv, PortalFirst, StationKnown, NoStation, Quiet, WifiTypeOK, TaskTypeOK, StatusTypeOK
  <1>4. NoStation'
    BY DEF StatusInv, NoStation, StationKnown, PortalFirst, Quiet, TowardsAp, WifiTypeOK, TaskTypeOK, StatusTypeOK
  <1>5. StatusFields'
    BY DEF StatusInv, StatusFields, NoStation, StationKnown, PortalFirst, Quiet,
           TowardsAp, WifiTypeOK, TaskTypeOK, StatusTypeOK
  <1>6. ReaderCurrent'
    <2>1. CASE reader.at = "mode" /\ reader' = [reader EXCEPT !.at = "ssid", !.mode = s_wifi_mode]
      BY <2>1 DEF ReaderCurrent, StatusTogether, WifiTypeOK, StatusTypeOK, Reading
    <2>2. CASE reader.at = "ssid" /\ reader' = [reader EXCEPT !.at = "ip", !.ssid = s_wifi_ssid]
      BY <2>2 DEF StatusInv, ReaderCurrent, StatusTogether, StatusFields, WifiTypeOK,
                  StatusTypeOK, Reading
    <2>3. CASE reader.at = "ip" /\ reader' = [reader EXCEPT !.at = "done", !.ip = s_wifi_ip]
      BY <2>3 DEF StatusInv, ReaderCurrent, StatusTogether, StatusFields, WifiTypeOK,
                  StatusTypeOK, Reading
    <2>4. CASE reader' = NoReading
      BY <2>4 DEF ReaderCurrent, StatusTogether, NoReading
    <2>. QED
      BY <2>1, <2>2, <2>3, <2>4
  <1>. QED
    BY <1>1, <1>2, <1>3, <1>4, <1>5, <1>6 DEF StatusInv

LEMMA WifiIdles ==
    ASSUME WifiInv, UNCHANGED vars
    PROVE  WifiInv'
  <1>. USE DEF vars, flashVars, statusVars, eventVars, radioVars, saveVars, history
  <1>1. WifiTypeOK'
    BY DEF WifiInv, WifiTypeOK, FlashTypeOK, TaskTypeOK, StatusTypeOK, FlagTypeOK
  <1>2. FlashInv'
    BY DEF WifiInv, FlashInv, CredentialsMatch, ForgetSticks
  <1>3. StatusInv'
    BY DEF WifiInv, StatusInv, PortalFirst, StationKnown, NoStation, Quiet, TowardsAp,
           StatusFields, ReaderCurrent, StatusTogether
  <1>. QED
    BY <1>1, <1>2, <1>3 DEF WifiInv

\* What is known of Wi-Fi bring-up in every state, with every fault and over
\* every number of restarts.
THEOREM WifiInvariant == Spec => []WifiInv
  <1>1. WifiInit => WifiInv
    BY WifiStarts
  <1>2. WifiInv /\ [Next]_vars => WifiInv'
    BY LoadKeeps, WaitEndsKeeps, StopDriverKeeps, StartApKeeps, StartPortalKeeps,
       PublishApKeeps, LinkKeeps, HandleIpKeeps, HandleModeKeeps, HandleBitKeeps,
       HandleHttpdKeeps, SaveKeeps, ForgetKeeps, RestartKeeps, GetStatusKeeps,
       WifiIdles DEF Next, Bringup, EventLoop
  <1>. QED
    BY <1>1, <1>2, PTL DEF Spec

\* Whoever reads AP finds the setup network and its form: the AP is published
\* last, and nothing takes the port from the portal.
THEOREM WifiApHasPortal == Spec => []ApHasPortal
  <1>1. WifiInv => ApHasPortal
    BY DEF WifiInv, StatusInv, PortalFirst, ApHasPortal
  <1>. QED
    BY <1>1, WifiInvariant, PTL

\* A status read field by field belongs together, if no address came while
\* the driver was being stopped.
THEOREM WifiStatusTogether == Spec => []StatusTogether
  <1>1. WifiInv => StatusTogether
    BY DEF WifiInv, StatusInv, ReaderCurrent, StatusTogether
  <1>. QED
    BY <1>1, WifiInvariant, PTL

\* When the tasks have come to rest there is a form to fill in or Forget is
\* offered, unless the AP or the portal's server would not start: a server that
\* lost the port lost it to the other's way out.
THEOREM WifiNeverStranded == Spec => []NeverStranded
  <1>1. WifiInv => NeverStranded
    BY DEF WifiInv, WifiTypeOK, StatusTypeOK, StatusInv, PortalFirst, StationKnown,
           NeverStranded
  <1>. QED
    BY <1>1, WifiInvariant, PTL

\* A network whose SSID was erased is not joined again, whatever became of its
\* password and however often the device restarts; and what is in flash was
\* entered together unless a save or an erasure was cut short.
THEOREM WifiFlash == Spec => [](ForgetSticks /\ CredentialsMatch)
  <1>1. WifiInv => ForgetSticks /\ CredentialsMatch
    BY DEF WifiInv, FlashInv
  <1>. QED
    BY <1>1, WifiInvariant, PTL

=============================================================================
