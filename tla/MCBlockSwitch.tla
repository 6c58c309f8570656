---------------------------- MODULE MCBlockSwitch ----------------------------
(***************************************************************************)
(* Small instances of BlockSwitch: real table sizes, three places for an   *)
(* attack (first, inner and last sub-window of AAC-LC, last one of         *)
(* AAC-LD), two energies, and configurations in which every option of      *)
(* every kind occurs.                                                      *)
(***************************************************************************)
EXTENDS BlockSwitch

Config(element, lowDelay, bias, shortGroups, shape) ==
    [element |-> element, lowDelay |-> lowDelay, blockBias |-> bias,
     shortGroups |-> shortGroups, windowShape |-> shape]

MCConfigurations ==
    {Config("pair", FALSE, "detect", 0, "stock"),
     Config("pair", FALSE, "always", 3, "kbd"),
     Config("pair", FALSE, "never", 2, "sine"),
     Config("pair", TRUE, "detect", 0, "kbd"),
     Config("single", FALSE, "detect", 3, "sine"),
     Config("single", FALSE, "detect", 1, "kbd"),
     Config("single", FALSE, "detect", 2, "stock"),
     Config("single", TRUE, "detect", 0, "stock"),
     Config("lfe", FALSE, "detect", 0, "kbd"),
     Config("lfe", TRUE, "detect", 0, "stock")}

=============================================================================
