-------------------------------- MODULE MCBus --------------------------------
(* Three agents, so that a broadcast has two recipients; a tuple that names
   the same agent twice; every direct message goes to ann or to bob. *)
EXTENDS Bus

CONSTANTS ann, bob, cho, all

MCAgents == {ann, bob, cho}
MCRecipients == {<<all>>, <<ann>>, <<bob, bob>>}
=============================================================================
