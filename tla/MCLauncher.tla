------------------------------ MODULE MCLauncher ------------------------------
(* Launcher for TLC: one folder, with a recipe of one agent.                *)
EXTENDS Launcher

MCBooks == [f \in Folders |-> {<<[cwd |-> "here", bypass |-> FALSE]>>}]
===============================================================================
