--------------------------- MODULE MCKnownDevices ---------------------------
(***************************************************************************)
(* Small instances of what the tracker keeps up to date about the devices  *)
(* it knows, with the tables of the fingerprints.                          *)
(***************************************************************************)
EXTENDS KnownDevices, TLC

CONSTANTS quiet, chatty

\* One device is known by ARP and DHCP only, the other one uses names, too.
TwoDevices == {quiet, chatty}
PacketKinds == quiet :> {"upsert"} @@ chatty :> {"upsert", "name"}

Sig(options, os, weight) == [options |-> options, os_name |-> os, weight |-> weight]

\* kDhcpSigs, in its order.
SigTable == <<
    Sig(<<1,15,3,6,44,46,47,31,33,121,249,43,252>>,     "Windows", 92),
    Sig(<<1,15,3,6,44,46,47,31,33,121,249,43>>,         "Windows", 90),
    Sig(<<1,15,3,6,44,46,47,31,33,121,249,43,252,12>>,  "Windows", 88),
    Sig(<<1,3,6,15,31,33,43,44,46,47,119,121,249,252>>, "Windows", 87),
    Sig(<<1,3,6,15,44,46,47,119,121,249,252,43>>,       "Windows", 85),
    Sig(<<1,121,3,6,15,119,252,95,44,46>>,              "macOS", 90),
    Sig(<<1,121,3,6,15,119,252,95,44,46,47>>,           "macOS", 87),
    Sig(<<1,121,3,6,15,119,252,114>>,                   "macOS", 85),
    Sig(<<1,121,3,6,15,119,252>>,                       "iOS", 82),
    Sig(<<1,121,3,6,15,119,252,44,46>>,                 "iOS", 82),
    Sig(<<1,121,3,6,15,119,252,114>>,                   "iOS", 85),
    Sig(<<1,33,3,6,15,28,51,58,59>>,                    "Android", 83),
    Sig(<<1,3,6,15,26,28,51,58,59>>,                    "Android", 82),
    Sig(<<1,3,6,12,15,17,23,28,29,31,33,40,41,42,43>>,  "Android", 80),
    Sig(<<1,3,6,15,121,28>>,                            "ChromeOS", 85),
    Sig(<<1,3,6,15,121,28,119>>,                        "ChromeOS", 83),
    Sig(<<1,28,2,3,15,6,12,42>>,                        "Linux", 80),
    Sig(<<1,2,3,4,5,6,7,11,12,13,15,16,17,18,43,54>>,   "Linux", 82),
    Sig(<<1,3,6,12,15,28,42>>,                          "Linux", 75),
    Sig(<<1,3,6>>,                                      "IoT/Embedded", 60),
    Sig(<<1,3,6,12>>,                                   "IoT/Embedded", 65),
    Sig(<<1,3,6,15,42>>,                                "IoT/Embedded", 62) >>

ASSUME TableApart == SignaturesApart

\* The rules for services and for SERVER headers, in their order.
ServiceTable == <<
    <<{"_airplay"}, "Apple/AirPlay">>, <<{"_googlecast"}, "Chromecast">>,
    <<{"_googlezone"}, "Chromecast">>, <<{"_spotify-connect"}, "IoT/Embedded">>,
    <<{"_printer"}, "IoT/Printer">>, <<{"_ipp"}, "IoT/Printer">>,
    <<{"_pdl-datastream"}, "IoT/Printer">>, <<{"_daap"}, "Apple/iTunes">>,
    <<{"_dacp"}, "Apple/iTunes">>, <<{"_airdrop"}, "Apple/AirDrop">>,
    <<{"_hap"}, "Apple/HomeKit">>, <<{"_companion-link"}, "Apple/HomeKit">>,
    <<{"_matter"}, "IoT/Matter">>, <<{"_matterc"}, "IoT/Matter">>,
    <<{"_meshcop"}, "IoT/Thread">> >>

ServerTable == <<
    <<{"UPnP", "Linux"}, "Linux">>, <<{"Windows"}, "Windows">>,
    <<{"TiVo"}, "IoT/Embedded">>, <<{"Roku"}, "IoT/Embedded">>,
    <<{"Samsung"}, "IoT/SmartTV">>, <<{"LG"}, "IoT/SmartTV">>,
    <<{"Sonos"}, "IoT/Embedded">> >>

\* Every signature, a list that is like none, and lists between signatures.
Lists == {SigTable[i].options : i \in DOMAIN SigTable}
    \union {<<77, 78>>, <<1, 3>>, <<1, 121, 3, 6, 15, 119, 252, 95>>}

ServiceSets == {{"_googlecast", "_airplay"}, {"_http"}}
ServerSets  == {{"Windows", "UPnP"}}
AnyMac      == {[listed |-> TRUE, random |-> FALSE], [listed |-> FALSE, random |-> TRUE]}
=============================================================================
