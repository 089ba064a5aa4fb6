---------------------------- MODULE MCRunCommand ----------------------------
(* A good file, and what one or two changed keys make of it.  Lengths and   *)
(* widths are small: cutoff 3 in a cell of 4 by 6.                          *)
EXTENDS RunCommand

MCDefaultOf ==
  [k \in Optional \ Critical |->
     CASE k = "thread_count" -> 1
       [] k = "cutoff_angstrom" -> 3
       [] k = "equilibration_steps" -> 2
       [] k = "production_steps" -> 4
       [] k = "probe_radius_angstrom" -> 1
       [] k = "energy_grid_spacing_angstrom" -> Absent
       [] OTHER -> 0]

MCElement(e) == [element |-> e, epsilon_kelvin |-> 1, sigma_angstrom |-> 1]
MCGood ==
  [tables |-> {"run", "gcmc"}, supercell |-> Absent,
   framework_lj |-> <<MCElement("Zn"), MCElement("O")>>,
   node |-> [k \in Keys |-> IF k \in Optional THEN Absent ELSE 1]]
MCWith(f, k, v) == [f EXCEPT !.node[k] = v]
MCPore == [MCGood EXCEPT !.tables = {"run", "pore"}]
MCSpaced == MCWith(MCGood, "energy_grid_spacing_angstrom", 20)
MCCritical == [MCGood EXCEPT !.node = [k \in Keys |-> IF k \in Critical THEN 1 ELSE @[k]]]

MCBadNodes == {Absent, Mistyped, NotANumber, 0, -1}
MCFiles ==
  {MCWith(MCGood, k, v) : k \in RunKeys \cup GcmcKeys, v \in MCBadNodes}
  \cup {MCWith(MCPore, "probe_radius_angstrom", v) : v \in MCBadNodes \cup {2}}
  \cup {MCWith(MCGood, "production_steps", v) : v \in {9, 10, 23}}
  \cup {MCWith(MCWith(MCGood, "cutoff_angstrom", v), "production_steps", 1) : v \in 1..5 \cup {1000}}
  \cup {[MCGood EXCEPT !.supercell = s] :
          s \in {Mistyped, <<2>>, <<2, 0>>, <<1, 2>>, <<2, 2>>, <<2, 3>>, <<3, 2>>, <<UnsignedRange, 2>>,
                <<UnsignedRange - 1, 2>>}}
  \cup {[MCGood EXCEPT !.tables = t] : t \in {{}, {"run"}, {"gcmc"}, {"run", "gcmc", "pore"}}}
  \cup {[MCGood EXCEPT !.framework_lj = s] : s \in {<< >>, <<MCElement("Zn")>>}}
  \cup {MCSpaced, MCCritical}

MCWorld(widths, atoms) ==
  [widths : {widths}, atoms : atoms, wellFormed : {TRUE}, writable : {TRUE}, cache : {"none"}]
MCWorlds ==
  MCWorld(<<4, 6>>, {<<"Zn", "O", "O">>, <<"Zn", "Xe">>, << >>})
  \cup MCWorld(<<20, 20>>, {<<"O">>, << >>})
  \cup [widths : {<<20, 20>>}, atoms : {<<"O">>}, wellFormed : {TRUE}, writable : BOOLEAN,
        cache : {"none", "whole", "bad header", "bad data"}]
  \cup [widths : {<<20, 20>>}, atoms : {<<"O">>}, wellFormed : {FALSE}, writable : {TRUE},
        cache : {"none"}]
=============================================================================
