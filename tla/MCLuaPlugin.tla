----------------------------- MODULE MCLuaPlugin -----------------------------
(* The instance of LuaPlugin for TLC: the cfg gives the bounds. *)
EXTENDS LuaPlugin
===============================================================================
