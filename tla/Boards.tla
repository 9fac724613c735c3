------------------------------- MODULE Boards -------------------------------
(***************************************************************************)
(* The nine boards: what the BoardInitDxe driver of each one does, in its  *)
(* order, and the settings of its .dsc file that PciHost depends on.       *)
(*                                                                         *)
(* A power rail is an LDO of the PMIC, known by its number (the switch or  *)
(* booster that PMIC_POWER_EN3 also turns on feeds nothing modelled).      *)
(* The pins a board multiplexes, its LEDs and its supply GPIOs are left    *)
(* out.                                                                    *)
(***************************************************************************)
EXTENDS Naturals, Sequences

Phy(n, mode) == [call |-> "phy", n |-> n, mode |-> mode]
Call(name) == [call |-> name]

\* A write to the PMIC: the voltage of a rail, or the rails to turn on.
Vsel(rail, v) == [reg |-> "vsel", rails |-> {rail}, v |-> v]
PowerEn(rails) == [reg |-> "power_en", rails |-> rails, v |-> "none"]
PowerOn == <<PowerEn(1..4), PowerEn(6..8), PowerEn({9})>>

\* The rails of an RK809 board and of an RK817 one.
Rails809 == <<Vsel(1, "0.9V"), Vsel(2, "0.9V"), Vsel(3, "0.9V"), Vsel(4, "3.3V"),
              Vsel(6, "3.3V"), Vsel(7, "1.8V"), Vsel(8, "1.8V"), Vsel(9, "1.8V")>> \o PowerOn
Rails817 == <<Vsel(1, "1.8V"), Vsel(2, "0.9V"), Vsel(3, "0.9V"), Vsel(4, "3.3V"),
              Vsel(6, "3.3V"), Vsel(7, "1.8V"), Vsel(8, "1.8V"), Vsel(9, "2.8V")>> \o PowerOn

\* The steps of BoardInitGmac.  The M1S takes its MAC out of reset first and
\* resets the PHY after; two boards leave the PHY as it comes.
GmacSteps  == <<"assert", "configure", "phyreset", "release", "address", "phyinit">>
GmacNoInit == <<"assert", "configure", "phyreset", "release", "address">>
GmacM1S    == <<"assert", "configure", "release", "phyreset", "address", "phyinit">>

\* PcdPcie*, PcdSata*Status: segment 0 is PCIe 2.0, 2 is PCIe 3.0 x2.
Pcie20(powered) == [segment |-> 0, powered |-> powered, speed |-> 2, lanes |-> 1]
Pcie30x2        == [segment |-> 2, powered |-> TRUE, speed |-> 3, lanes |-> 2]

Usb3Phys == <<Phy(0, "usb3"), Phy(1, "usb3")>>

-----------------------------------------------------------------------------
(***************************************************************************)
(* BoardInitDriverEntryPoint of each board.  "rails" are the writes of its *)
(* BoardInitPmic, "macs" the controllers of its BoardInitGmac, "sdmmc" the *)
(* controller whose clock its BoardInitWiFi sets.                          *)
(***************************************************************************)
Quartz64(phy1) ==
  [calls |-> <<Call("pmic"), Phy(0, "usb3"), Phy(1, phy1), Call("gmac")>>,
   rails |-> Rails817, macs |-> {1}, gmac |-> GmacSteps, sdmmc |-> {},
   pcie |-> Pcie20(TRUE), sata |-> <<1>>]

SOQuartz ==
  [calls |-> <<Call("pmic")>> \o Usb3Phys \o <<Call("gmac"), Call("wifi")>>,
   rails |-> <<PowerEn({1}), PowerEn({9})>>, macs |-> {1}, gmac |-> GmacSteps,
   sdmmc |-> {1}, pcie |-> Pcie20(FALSE), sata |-> <<>>]

PineTab2 ==
  [calls |-> <<Call("pmic")>> \o Usb3Phys, rails |-> Rails817, macs |-> {},
   gmac |-> <<>>, sdmmc |-> {}, pcie |-> Pcie20(TRUE), sata |-> <<1>>]

OrangePi3B ==
  [calls |-> <<Call("pmic")>> \o Usb3Phys \o <<Call("gmac"), Call("wifi")>>,
   rails |-> Rails809, macs |-> {1}, gmac |-> GmacSteps, sdmmc |-> {1},
   pcie |-> Pcie20(TRUE), sata |-> <<>>]

RocRk3566Pc ==
  [calls |-> <<Call("pmic")>> \o Usb3Phys \o <<Call("gmac"), Call("wifi")>>,
   rails |-> Rails809, macs |-> {1}, gmac |-> GmacNoInit, sdmmc |-> {1},
   pcie |-> Pcie20(TRUE), sata |-> <<>>]

RocRk3568Pc ==
  [calls |-> <<Call("pmic")>> \o Usb3Phys \o <<Phy(2, "sata"), Call("gmac"), Call("wifi")>>,
   rails |-> Rails809, macs |-> {0, 1}, gmac |-> GmacSteps, sdmmc |-> {2},
   pcie |-> Pcie30x2, sata |-> <<2>>]

OdroidM1S ==
  [calls |-> <<Call("pmic")>> \o Usb3Phys \o <<Call("gmac")>>,
   rails |-> Rails809, macs |-> {1}, gmac |-> GmacM1S, sdmmc |-> {},
   pcie |-> Pcie20(TRUE), sata |-> <<>>]

RadxaCM3 ==
  [calls |-> <<Call("pmic")>> \o Usb3Phys \o <<Call("gmac"), Call("wifi")>>,
   rails |-> <<>>, macs |-> {1}, gmac |-> GmacNoInit, sdmmc |-> {1},
   pcie |-> Pcie20(TRUE), sata |-> <<>>]

RadxaZero3W ==
  [calls |-> <<Call("pmic")>> \o Usb3Phys, rails |-> Rails817, macs |-> {},
   gmac |-> <<>>, sdmmc |-> {}, pcie |-> Pcie20(TRUE), sata |-> <<1>>]

\* MultiPhy1Mode of a Quartz64 is the user's choice.
Boards == {Quartz64("usb3"), Quartz64("sata"), SOQuartz, PineTab2, OrangePi3B,
           RocRk3566Pc, RocRk3568Pc, OdroidM1S, RadxaCM3, RadxaZero3W}
=============================================================================
