---------------------------- MODULE MCLaunchAgent ----------------------------
(* LaunchAgent for TLC: processes and output paths are interchangeable. *)
EXTENDS LaunchAgent, TLC

ProfileSymmetry ==
    Permutations(Processes) \cup Permutations(Documents) \cup Permutations(Agents)
=============================================================================
