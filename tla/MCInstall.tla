------------------------------ MODULE MCInstall ------------------------------
(* Every tool of the registry on every platform.                            *)
EXTENDS Install, Registry

AllRecipes == RecipesOf(TOOLS)
=============================================================================
