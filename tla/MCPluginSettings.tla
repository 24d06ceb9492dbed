-------------------------- MODULE MCPluginSettings --------------------------
(* Small instances of PluginSettings: sites, old files and instances.      *)
EXTENDS PluginSettings

CONSTANTS
    eid, bank, shop,   \* sites
    A, B               \* plugin instances

(* Old files with both options, with an empty line in the middle, with     *)
(* nothing in them.                                                        *)
MCLegacyFiles ==
    {<<"@NODEFAULTS", eid, bank, "@NOLOCAL">>, <<bank, "", shop, "@NOLOCAL">>, << >>}
=============================================================================
