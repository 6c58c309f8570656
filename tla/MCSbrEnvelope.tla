--------------------------- MODULE MCSbrEnvelope ---------------------------
(***************************************************************************)
(* Small instances of SbrEnvelope: the real slot counts and tuning.        *)
(***************************************************************************)
EXTENDS SbrEnvelope

Config(slots, lowDelay, static, stereo, res, transIsLow) ==
    [slots |-> slots, lowDelay |-> lowDelay, static |-> static, stereo |-> stereo,
     freqResFixFix |-> res, transIsLow |-> transIsLow]

(* HE-AAC, all positions *)
MCSingle ==
    {Config(16, FALSE, 0, "mono", <<1, 1>>, FALSE),
     Config(15, FALSE, 0, "mono", <<1, 1>>, FALSE),
     Config(16, FALSE, 4, "mono", <<1, 0>>, FALSE),
     Config(16, TRUE, 0, "mono", <<1, 0>>, FALSE),
     Config(15, TRUE, 0, "mono", <<0, 0>>, TRUE)}

MCPair ==
    {Config(16, FALSE, 0, "switch", <<1, 1>>, FALSE),
     Config(15, FALSE, 0, "switch", <<1, 1>>, FALSE),
     Config(16, FALSE, 0, "coupling", <<1, 1>>, FALSE),
     Config(16, FALSE, 0, "left_right", <<1, 1>>, FALSE),
     Config(15, FALSE, 2, "switch", <<1, 0>>, FALSE),
     Config(15, TRUE, 0, "switch", <<1, 0>>, FALSE)}

MCConfigurations == MCSingle \cup MCPair

MC960 == {Config(15, FALSE, 0, "mono", <<1, 1>>, FALSE)}

=============================================================================
