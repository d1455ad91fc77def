-------------------------- MODULE MCSnapshotHandler --------------------------
(* SnapshotHandler for TLC: one select key, one plain key, two URLs.        *)
EXTENDS SnapshotHandler

\* VK_BACK and VK_A.
MCKeys == {8, 65}
MCSelectKeys == {8}
MCUrls == {1, 2}

MCTypes == {"MouseDown", "MouseMove", "RawKeyDown"}

\* Selective screenshots, every DOM snapshot and the coin; every screenshot
\* but no DOM snapshot and no coin.
MCSwitches ==
  { [shot |-> "default", dom |-> "all",     random |-> TRUE],
    [shot |-> "all",     dom |-> "disable", random |-> FALSE] }

=============================================================================
