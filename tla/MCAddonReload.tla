----------------------------- MODULE MCAddonReload ----------------------------
(* Two addons, one with a directory of resources in a directory below it.   *)
EXTENDS AddonReload

CONSTANTS ads, skin, dist, fonts

MCOrder == <<ads, skin>>
MCDirs == {ads, skin, dist, fonts}
MCParent ==
  [d \in MCDirs |-> CASE d = fonts -> dist [] d = dist -> ads [] OTHER -> None]
MCStarts == {{skin}, MCDirs}
MCAbove ==
  [d \in MCDirs |-> CASE d = fonts -> {dist, ads} [] d = dist -> {ads} [] OTHER -> {}]
=============================================================================
