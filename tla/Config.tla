------------------------------- MODULE Config -------------------------------
(***************************************************************************)
(* The run configuration (io/config.cc): which files are accepted, and     *)
(* what the rest of the program gets from one.  A file gives each key a    *)
(* node: a number (any well-typed value, for a key that is not a number),  *)
(* NotANumber, a node of the wrong type, or none.                          *)
(***************************************************************************)
EXTENDS Integers, Sequences, FiniteSets

CONSTANTS
  Absent, Mistyped, NotANumber,
  UnsignedRange,   \* 2^32: how many values an unsigned has
  DefaultOf        \* RunConfig's and GcmcConfig's defaults, by key

RunKeys == {"name", "output_directory", "rng_seed", "thread_count"}
Critical == {"critical_temperature_kelvin", "critical_pressure_pascal", "acentric_factor"}
AdsorbateKeys == {"adsorbate", "epsilon_kelvin", "sigma_angstrom", "mass_amu", "charge_e"} \cup Critical
GcmcKeys == {"framework_cif", "temperature_kelvin", "pressure_bar", "cutoff_angstrom",
  "equilibration_steps", "production_steps", "energy_grid_spacing_angstrom",
  "energy_grid_cache_directory"} \cup AdsorbateKeys
PoreKeys == {"pore_cif", "probe_radius_angstrom"}
Keys == RunKeys \cup GcmcKeys \cup PoreKeys

Optional == {"output_directory", "rng_seed", "thread_count", "cutoff_angstrom",
  "equilibration_steps", "production_steps", "energy_grid_spacing_angstrom",
  "energy_grid_cache_directory", "charge_e", "probe_radius_angstrom"} \cup Critical
Positive == {"temperature_kelvin", "pressure_bar", "cutoff_angstrom",
  "energy_grid_spacing_angstrom", "epsilon_kelvin", "sigma_angstrom", "mass_amu",
  "critical_temperature_kelvin", "critical_pressure_pascal", "probe_radius_angstrom"}
Integral == {"rng_seed", "thread_count", "equilibration_steps", "production_steps"}

(* A [[gcmc.framework_lj]] entry with the name of an element. *)
IsFile(f) ==
  /\ f.tables \subseteq {"run", "gcmc", "pore"}
  /\ f.node \in [Keys -> Int \cup {Absent, Mistyped, NotANumber}]
  /\ f.supercell \in Seq(Int) \cup {Absent, Mistyped}
  /\ \A i \in DOMAIN f.framework_lj :
       /\ {f.framework_lj[i].epsilon_kelvin, f.framework_lj[i].sigma_angstrom}
            \subseteq Int \cup {Absent, Mistyped, NotANumber}

Given(f, k) == f.node[k] # Absent

(* requirePositive: !(value > 0.0) is what it refuses. *)
IsPositive(v) == v \notin {Absent, Mistyped, NotANumber} /\ v > 0

(* requireValue, optionalValue, requirePositive. *)
KeyOK(f, k) ==
  /\ Given(f, k) \/ k \in Optional
  /\ f.node[k] # Mistyped
  /\ k \in Integral => f.node[k] # NotANumber
  /\ Given(f, k) /\ k \in Positive => IsPositive(f.node[k])

ValueOf(f, k) == IF Given(f, k) THEN f.node[k] ELSE DefaultOf[k]

(* parseRunTable: the count is cast to unsigned before it is compared. *)
RunTableOK(f) ==
  /\ "run" \in f.tables
  /\ \A k \in RunKeys : KeyOK(f, k)
  /\ ValueOf(f, "thread_count") % UnsignedRange = 1

(* Mutant: no production steps are as good as any. *)
StepsNotNegative(f) ==
  ValueOf(f, "equilibration_steps") >= 0 /\ ValueOf(f, "production_steps") >= 0

StepsOK(f) == ValueOf(f, "equilibration_steps") >= 0 /\ ValueOf(f, "production_steps") > 0

(* All or none of the critical properties. *)
CriticalOK(f) == {k \in Critical : Given(f, k)} \in {{}, Critical}

SupercellOK(f, axes) ==
  f.supercell # Absent =>
    f.supercell # Mistyped /\ Len(f.supercell) = axes /\ \A i \in 1..axes : f.supercell[i] >= 1

(* The entries after their cast to int. *)
AsInt(v) ==
  LET r == v % UnsignedRange IN IF 2 * r < UnsignedRange THEN r ELSE r - UnsignedRange
Requested(f) == [a \in DOMAIN f.supercell |-> AsInt(f.supercell[a])]

FrameworkLjOK(f) ==
  /\ f.framework_lj # << >>
  /\ \A i \in DOMAIN f.framework_lj :
       IsPositive(f.framework_lj[i].epsilon_kelvin) /\ IsPositive(f.framework_lj[i].sigma_angstrom)

loadGcmcConfig(f, axes) ==
  /\ RunTableOK(f)
  /\ "gcmc" \in f.tables
  /\ \A k \in GcmcKeys : KeyOK(f, k)
  /\ StepsOK(f) /\ SupercellOK(f, axes) /\ FrameworkLjOK(f) /\ CriticalOK(f)

loadPoreConfig(f) ==
  /\ RunTableOK(f)
  /\ "pore" \in f.tables
  /\ \A k \in PoreKeys : KeyOK(f, k)

detectConfigKind(f) ==
  CASE f.tables \cap {"gcmc", "pore"} = {"gcmc"} -> "Gcmc"
    [] f.tables \cap {"gcmc", "pore"} = {"pore"} -> "Pore"
    [] OTHER -> "Unknown"

(* The values a run gets, defaults resolved. *)
Settings(f, keys) ==
  [k \in keys |->
     CASE k \in Critical -> f.node[k]
       [] k = "thread_count" -> ValueOf(f, k) % UnsignedRange
       [] OTHER -> ValueOf(f, k)]
=============================================================================
