-------------------------- MODULE MCWifiTransport --------------------------
(* Settings that differ from one another in one field: enabled, password,  *)
(* port and an empty SSID.                                                 *)
EXTENDS WifiTransport

Setting(e, s, p, n) == [enabled |-> e, ssid |-> s, pass |-> p, port |-> n]

MCConfigs == {Setting(FALSE, "home", "old", 1), Setting(TRUE, "home", "old", 1),
              Setting(TRUE, "home", "new", 1), Setting(TRUE, "home", "old", 2),
              Setting(TRUE, "", "old", 1)}
=============================================================================
