-------------------------- MODULE MCPromptAssembly --------------------------
(* TLC instances of PromptAssembly.                                        *)
EXTENDS PromptAssembly

MCCostOf == <<2, 1, 0, 4>>
=============================================================================
