---------------------------- MODULE MCSeedSupply ----------------------------
(* Words of eight bits in chunks of four; pools of up to 30 characters,    *)
(* with and without other characters, from which two or three seeds can be *)
(* cut; lengths around one and two words.                                  *)
EXTENDS SeedSupply

MCPools ==
  { [p \in 1 .. size |-> IF p \in others THEN "other" ELSE "bit"] :
      size \in {1, 18, 30}, others \in {{}, {1, 9, 10}, {8, 17, 18, 19}} }
=============================================================================
