------------------------------- MODULE MCBoot -------------------------------
(***************************************************************************)
(* Instance: eight entries and four pages, with the shape of the code's    *)
(* sizes: every second entry lies across two pages, the last of them with  *)
(* exactly its key in the first (RealSizes shows the code's).  The         *)
(* application's global table has four entries and is followed in memory   *)
(* by valid-looking ones that fill any count; the Booster's fills a        *)
(* sector, the same keys at both ends of it, and an empty entry follows.   *)
(***************************************************************************)
EXTENDS Boot

MCKeys == {"MAGICVERSION", "BOOT_FEATURE", "WIFI_AUTH", "WIFI_DHCP", "WIFI_SSID",
           "APPS_CATALOG_URL", "FOLDER", "MODE", "BEHIND"}
MCMagic == Entry("MAGICVERSION", "305397761")
Copies(n, e) == [j \in 1 .. n |-> e]

MCDefaults ==
  << Entry("BOOT_FEATURE", "configurator"), Entry("WIFI_AUTH", "0"),
     Entry("WIFI_DHCP", "true"), Entry("WIFI_SSID", "") >>
  \o Copies(4, Entry("BEHIND", "the array"))
MCBoosterDefaults ==
  << Entry("BOOT_FEATURE", "configurator") >> \o Copies(3, Entry("APPS_CATALOG_URL", "url"))
  \o << Entry("WIFI_SSID", ""), Entry("WIFI_DHCP", "true"), Entry("", ""), Entry("BEHIND", "") >>
MCAppDefaults == << Entry("FOLDER", "/test"), Entry("MODE", "255") >>
RealSizes ==
  \A j \in 1 .. 4096 \div 127 :
    (127 * (j - 1) + 30) \div 256 = (127 * j - 1) \div 256
ASSUME RealSizesAssumption == RealSizes

MCSettable == {ThisApp, Entry("WIFI_SSID", "net"), Entry("WIFI_DHCP", "false")}
=============================================================================
