------------------------------ MODULE Registry ------------------------------
(***************************************************************************)
(* The plugin registry (library/registry.cpp), a process-wide table behind *)
(* an API that a client may call in any order, and the two loops over all  *)
(* drivers in transferapp/main.cpp.  The file system is a constant: paths  *)
(* stand for canonical paths, and a directory lists its entries in the     *)
(* order directory_iterator returns them.  A name is the sequence of its   *)
(* parts between the dots: a.b is <<"a", "b">>, and "" is one empty part.  *)
(***************************************************************************)
EXTENDS Manifest, FiniteSets

CONSTANTS
  Docs,        \* manifest files, and the documents in them
  Libs,        \* plugin files: [symbols, drivers], the entry points exported
               \* and the drivers known to plugin_load_driver
  Dirs,        \* directories, and their entries
  ManifestDir, PluginDir,   \* the directories registry_init adds
  Matches,     \* pairs of a library name and a file its pattern matches
  MaxAdds      \* files and paths the client adds at most

ManifestFiles == DOMAIN Docs
PluginFiles == DOMAIN Libs
Directories == DOMAIN Dirs
Paths == ManifestFiles \cup PluginFiles \cup Directories

Symbols == {"plugin_load", "plugin_unload", "plugin_load_driver"}

IsName(n) == n \in Seq(ToSet(n)) /\ n # <<>>

(* A document is what libxml2 makes of a file.                             *)
ASSUME RegistryAssumption ==
  /\ \A f \in ManifestFiles :
       /\ Docs[f].root \in {"plugin", "malformed", "none", "other"}
       /\ Docs[f].root = "plugin" => IsDocument(Docs[f])
  /\ \A n \in Convertible \cup {Unconverted, NoName} : IsName(n)
  /\ Len(NoName) = 1
  /\ \A d \in Directories : Dirs[d] \in Seq(Paths)
  /\ {ManifestDir, PluginDir} \subseteq Directories
  /\ \A f \in PluginFiles : Libs[f].symbols \subseteq Symbols
  /\ \A m \in Matches : m[2] \in PluginFiles
  /\ MaxAdds \in Nat

VARIABLES
  up,          \* g_registry is not null
  manifest_files, manifest_paths, plugin_files, plugin_paths,
  manifests,   \* plugin name in lower case -> manifest
  drivers,     \* the list of drivers, each with its plugin's name
  scan,        \* paths the scan for manifests in progress has yet to look at
  libraries,   \* plugin name in lower case -> plugin file loaded for it
  handles,     \* plugin file -> dlopen() calls not yet closed
  active,      \* plugin file -> plugin_load() calls not yet undone
  it,          \* a client's driver iterator: its place, 0 for none
  failed       \* drivers that list_drivers or test_drivers could not load

registryVars == <<up, manifest_files, manifest_paths, plugin_files, plugin_paths,
                  manifests, drivers, libraries>>
vars == <<registryVars, scan, handles, active, it, failed>>

NoFile == ""
EmptyTable == [x \in {} |-> 0]

Cleared ==
  /\ manifest_files' = <<>> /\ manifest_paths' = <<>>
  /\ plugin_files' = <<>> /\ plugin_paths' = <<>>
  /\ manifests' = EmptyTable /\ drivers' = <<>> /\ libraries' = EmptyTable

Init ==
  /\ up = FALSE
  /\ manifest_files = <<>> /\ manifest_paths = <<>>
  /\ plugin_files = <<>> /\ plugin_paths = <<>>
  /\ manifests = EmptyTable /\ drivers = <<>> /\ libraries = EmptyTable
  /\ handles = [f \in PluginFiles |-> 0] /\ active = [f \in PluginFiles |-> 0]
  /\ scan = <<>> /\ it = 0 /\ failed = {}

-----------------------------------------------------------------------------
(* Manifests.  A table is the pair of manifests and drivers.               *)

Table(m, d) == [manifests |-> m, drivers |-> d]

DriversOf(m) == [i \in 1 .. Len(m.drivers) |-> [plugin |-> m.name, driver |-> m.drivers[i].name]]

(* Variant: the drivers are listed before the plugin is looked up.         *)
register_manifest_early(t, file) ==
  LET parsed == benthos_dc_manifest_parse(Docs[file])
      m == parsed.val
  IN IF parsed.err # "none" THEN t
     ELSE IF Lower[m.name] \in DOMAIN t.manifests THEN [t EXCEPT !.drivers = @ \o DriversOf(m)]
     ELSE Table([p \in DOMAIN t.manifests \cup {Lower[m.name]} |->
                   IF p = Lower[m.name] THEN m ELSE t.manifests[p]],
                t.drivers \o DriversOf(m))

(* A file that does not parse, and one for a plugin that is registered,    *)
(* change nothing; the caller of a single file is told, a scan goes on.    *)
register_manifest(t, file) ==
  LET parsed == benthos_dc_manifest_parse(Docs[file])
      m == parsed.val
  IN IF parsed.err # "none" \/ Lower[m.name] \in DOMAIN t.manifests THEN t
     ELSE Table([p \in DOMAIN t.manifests \cup {Lower[m.name]} |->
                   IF p = Lower[m.name] THEN m ELSE t.manifests[p]],
                t.drivers \o DriversOf(m))

Crashes(file) == benthos_dc_manifest_parse(Docs[file]).err = "crash"

SetTable(t) == manifests' = t.manifests /\ drivers' = t.drivers

Known == Table(manifests, drivers)

-----------------------------------------------------------------------------
(* Plugin libraries.                                                       *)

(* The scan looks at the entries in order and returns what the first       *)
(* subdirectory gives it, even if that is nothing.                         *)
FirstMatch(library, entries) ==
  LET hits == {i \in 1 .. Len(entries) :
                 entries[i] \in Directories \/ <<library, entries[i]>> \in Matches}
  IN IF hits = {} THEN NoFile ELSE entries[CHOOSE i \in hits : \A j \in hits : i <= j]

ScanOf(library) ==
  LET found[d \in Directories] ==
        LET first == FirstMatch(library, Dirs[d])
        IN IF first \in Directories THEN found[first] ELSE first
  IN found

scan_plugin_path(dir, library) == ScanOf(library)[dir]

FirstFile(files) == IF files = <<>> THEN NoFile ELSE Head(files)

(* Files come before paths, and among them the first that matches.         *)
find_plugin(library) ==
  LET file == FirstFile(SelectSeq(plugin_files, LAMBDA f : <<library, f>> \in Matches))
      scans == [i \in 1 .. Len(plugin_paths) |-> scan_plugin_path(plugin_paths[i], library)]
  IN IF file # NoFile THEN file ELSE FirstFile(SelectSeq(scans, LAMBDA f : f # NoFile))

-----------------------------------------------------------------------------
(* Names are given as "driver" or "plugin.driver", split at the first dot. *)

Split(name) ==
  IF Len(name) = 1 THEN [plugin |-> NoName, driver |-> name]
  ELSE [plugin |-> <<Head(name)>>, driver |-> Tail(name)]

NotFound == [plugin |-> <<>>, driver |-> <<"not found">>]
Ambiguous == [plugin |-> <<>>, driver |-> <<"ambiguous">>]

(* Variant: the plugin is not looked at.                                   *)
CandidatesBare(name) == {i \in 1 .. Len(drivers) : SameName(drivers[i].driver, Split(name).driver)}

Candidates(name) ==
  LET wanted == Split(name) IN
  {i \in 1 .. Len(drivers) :
     /\ wanted.plugin = NoName \/ SameName(drivers[i].plugin, wanted.plugin)
     /\ SameName(drivers[i].driver, wanted.driver)}

benthos_dc_registry_driver_info(name) ==
  CASE Cardinality(Candidates(name)) = 0 -> NotFound
    [] Cardinality(Candidates(name)) = 1 -> drivers[CHOOSE i \in Candidates(name) : TRUE]
    [] OTHER -> Ambiguous

Names ==
  {drivers[i].driver : i \in 1 .. Len(drivers)}
    \cup {drivers[i].plugin \o drivers[i].driver : i \in 1 .. Len(drivers)}

dlopen(opened, file) == [opened EXCEPT ![file] = @ + 1]
dlclose(opened, file) == [opened EXCEPT ![file] = @ - 1]

(* Variant: the library stays open.                                        *)
GiveUpOpen(file) ==
  handles' = dlopen(handles, file) /\ UNCHANGED <<libraries, active>>

(* A library that lacks an entry point, or whose plugin_load fails, is     *)
(* closed again.                                                           *)
GiveUp(file) ==
  handles' = dlclose(dlopen(handles, file), file) /\ UNCHANGED <<libraries, active>>

(* A plugin's library is looked for and opened once; one that is not found *)
(* is not opened, and dlopen may fail.                                     *)
load_plugin(plugin) ==
  LET file == find_plugin(manifests[Lower[plugin]].library)
  IN IF Lower[plugin] \in DOMAIN libraries \/ file \notin PluginFiles
       THEN UNCHANGED <<libraries, handles, active>>
       ELSE \/ UNCHANGED <<libraries, handles, active>>
            \/ GiveUp(file)
            \/ /\ Libs[file].symbols = Symbols
               /\ libraries' = [p \in DOMAIN libraries \cup {Lower[plugin]} |->
                                  IF p = Lower[plugin] THEN file ELSE libraries[p]]
               /\ handles' = dlopen(handles, file)
               /\ active' = [active EXCEPT ![file] = @ + 1]

(* benthos_dc_registry_load succeeds if the library is there after that    *)
(* and has the driver under the manifest's spelling of its name.           *)
Loads(name) ==
  LET di == benthos_dc_registry_driver_info(name) IN
  /\ di \notin {NotFound, Ambiguous}
  /\ Lower[di.plugin] \in DOMAIN libraries'
  /\ di.driver \in Libs[libraries'[Lower[di.plugin]]].drivers

TryLoad(name) ==
  LET di == benthos_dc_registry_driver_info(name) IN
  IF di \in {NotFound, Ambiguous} THEN UNCHANGED <<libraries, handles, active>>
  ELSE load_plugin(di.plugin)

-----------------------------------------------------------------------------
(* The calls.  A call that scans a directory ends with its scan.           *)

Idle == up /\ scan = <<>>

Room == Len(manifest_files) + Len(manifest_paths) + Len(plugin_files) + Len(plugin_paths)
          < MaxAdds + 2   \* registry_init adds two

benthos_dc_registry_init ==
  /\ ~up /\ up' = TRUE
  /\ manifest_paths' = <<ManifestDir>> /\ plugin_paths' = <<PluginDir>>
  /\ scan' = <<ManifestDir>>
  /\ UNCHANGED <<manifest_files, plugin_files, manifests, drivers, libraries,
                 handles, active, it, failed>>

(* The parser has followed a null pointer: that ends the process, and with *)
(* it the registry and what it has loaded.                                 *)
ProcessEnds ==
  /\ up' = FALSE /\ Cleared /\ scan' = <<>> /\ it' = 0 /\ failed' = {}
  /\ handles' = [f \in PluginFiles |-> 0] /\ active' = [f \in PluginFiles |-> 0]

parser_crash ==
  /\ \/ up /\ scan # <<>> /\ Head(scan) \in ManifestFiles /\ Crashes(Head(scan))
     \/ Idle /\ Room /\ \E file \in ManifestFiles \ ToSet(manifest_files) : Crashes(file)
  /\ ProcessEnds

(* One entry of the scan: a directory gives way to its entries, a manifest *)
(* file is registered, any other file is passed over.                      *)
scan_manifest_path ==
  /\ up /\ scan # <<>> /\ ~(Head(scan) \in ManifestFiles /\ Crashes(Head(scan)))
  /\ \/ /\ Head(scan) \in Directories
        /\ scan' = Dirs[Head(scan)] \o Tail(scan) /\ UNCHANGED <<manifests, drivers>>
     \/ /\ Head(scan) \notin Directories /\ scan' = Tail(scan)
        /\ SetTable(IF Head(scan) \in ManifestFiles
                    THEN register_manifest(Known, Head(scan)) ELSE Known)
  /\ UNCHANGED <<up, manifest_files, manifest_paths, plugin_files, plugin_paths, libraries,
                 handles, active, it, failed>>

(* The name is kept also when the manifest cannot be registered.           *)
benthos_dc_registry_add_manifest ==
  /\ Idle /\ Room
  /\ \E file \in ManifestFiles \ ToSet(manifest_files) :
       /\ ~Crashes(file) /\ manifest_files' = Append(manifest_files, file)
       /\ SetTable(register_manifest(Known, file))
  /\ UNCHANGED <<up, manifest_paths, plugin_files, plugin_paths, libraries, scan,
                 handles, active, it, failed>>

benthos_dc_registry_add_manifest_path ==
  /\ Idle /\ Room
  /\ \E dir \in Directories \ ToSet(manifest_paths) :
       /\ manifest_paths' = Append(manifest_paths, dir)
       /\ scan' = <<dir>>
  /\ UNCHANGED <<up, manifest_files, plugin_files, plugin_paths, manifests, drivers,
                 libraries, handles, active, it, failed>>

benthos_dc_registry_add_plugin ==
  /\ Idle /\ Room
  /\ \E file \in PluginFiles \ ToSet(plugin_files) :
       plugin_files' = Append(plugin_files, file)
  /\ UNCHANGED <<up, manifest_files, manifest_paths, plugin_paths, manifests, drivers,
                 libraries, scan, handles, active, it, failed>>

benthos_dc_registry_add_plugin_path ==
  /\ Idle /\ Room
  /\ \E dir \in Directories \ ToSet(plugin_paths) :
       plugin_paths' = Append(plugin_paths, dir)
  /\ UNCHANGED <<up, manifest_files, manifest_paths, plugin_files, manifests, drivers,
                 libraries, scan, handles, active, it, failed>>

benthos_dc_registry_load ==
  /\ Idle
  /\ \E name \in Names : TryLoad(name)
  /\ UNCHANGED <<up, manifest_files, manifest_paths, plugin_files, plugin_paths,
                 manifests, drivers, scan, it, failed>>

(* list_drivers and test_drivers: an iterator over the drivers, and a load *)
(* of each by its bare name.                                               *)
benthos_dc_registry_drivers ==
  /\ Idle /\ it = 0 /\ drivers # <<>>
  /\ it' = 1 /\ failed' = {}
  /\ UNCHANGED <<registryVars, scan, handles, active>>

(* Variant: the iterator goes one step past the last driver.               *)
test_driver_past ==
  /\ Idle /\ it > 0
  /\ TryLoad(drivers[it].driver)
  /\ it' = IF it <= Len(drivers) THEN it + 1 ELSE 0
  /\ UNCHANGED <<up, manifest_files, manifest_paths, plugin_files, plugin_paths,
                 manifests, drivers, scan, failed>>

test_driver ==
  LET name == drivers[it].driver IN
  /\ Idle /\ it > 0
  /\ TryLoad(name)
  /\ failed' = IF Loads(name) THEN failed ELSE failed \cup {drivers[it]}
  /\ it' = IF it < Len(drivers) THEN it + 1 ELSE 0
  /\ UNCHANGED <<up, manifest_files, manifest_paths, plugin_files, plugin_paths,
                 manifests, drivers, scan>>

LoadedFrom(f) == {p \in DOMAIN libraries : libraries[p] = f}

(* Variant: a file that serves two plugins is unloaded once.               *)
benthos_dc_registry_cleanup_once ==
  /\ Idle /\ up' = FALSE /\ Cleared
  /\ handles' = [f \in PluginFiles |->
                   IF LoadedFrom(f) = {} THEN handles[f] ELSE handles[f] - 1]
  /\ active' = [f \in PluginFiles |->
                  IF LoadedFrom(f) = {} THEN active[f] ELSE active[f] - 1]
  /\ it' = 0 /\ failed' = {} /\ UNCHANGED scan

(* plugin_unload and dlclose for every entry of the table.                 *)
benthos_dc_registry_cleanup ==
  /\ Idle /\ up' = FALSE /\ Cleared
  /\ handles' = [f \in PluginFiles |-> handles[f] - Cardinality(LoadedFrom(f))]
  /\ active' = [f \in PluginFiles |-> active[f] - Cardinality(LoadedFrom(f))]
  /\ it' = 0 /\ failed' = {} /\ UNCHANGED scan

Next ==
  \/ benthos_dc_registry_init \/ scan_manifest_path \/ parser_crash
  \/ benthos_dc_registry_add_manifest \/ benthos_dc_registry_add_manifest_path
  \/ benthos_dc_registry_add_plugin \/ benthos_dc_registry_add_plugin_path
  \/ benthos_dc_registry_load
  \/ benthos_dc_registry_drivers \/ test_driver
  \/ benthos_dc_registry_cleanup

Spec == Init /\ [][Next]_vars

-----------------------------------------------------------------------------
(* The variables hold values of their kinds.                               *)
TypeOK ==
  /\ up \in BOOLEAN
  /\ manifest_files \in Seq(ManifestFiles) /\ manifest_paths \in Seq(Directories)
  /\ plugin_files \in Seq(PluginFiles) /\ plugin_paths \in Seq(Directories)
  /\ scan \in Seq(Paths)
  /\ \A p \in DOMAIN manifests : Lower[manifests[p].name] = p
  /\ \A p \in DOMAIN libraries : libraries[p] \in PluginFiles
  /\ handles \in [PluginFiles -> Nat] /\ active \in [PluginFiles -> Nat]
  /\ it \in 0 .. Len(drivers) /\ failed \subseteq ToSet(drivers)

(* Every driver in the registry can be had under the name plugin.driver,   *)
(* whatever manifests were added and in whatever order, also when several  *)
(* plugins have a driver of that name, and when the driver's name has dots *)
(* of its own: registry.h offers the dotted form for exactly that.  It     *)
(* takes a plugin name without a dot: driver_info takes the first one for  *)
(* the end of it.                                                          *)
DottedNamesResolve ==
  \A i \in 1 .. Len(drivers) :
    Len(drivers[i].plugin) = 1 =>
      benthos_dc_registry_driver_info(drivers[i].plugin \o drivers[i].driver) = drivers[i]

(* The drivers list shows the drivers of the registered manifests and no   *)
(* others: what it points to is owned by a manifest that cleanup disposes  *)
(* of, never by one that register_manifest turned away.                    *)
DriversOwned ==
  /\ \A i \in 1 .. Len(drivers) :
       /\ Lower[drivers[i].plugin] \in DOMAIN manifests
       /\ LET m == manifests[Lower[drivers[i].plugin]] IN
          /\ m.name = drivers[i].plugin
          /\ \E j \in 1 .. Len(m.drivers) : m.drivers[j].name = drivers[i].driver
  /\ \A p \in DOMAIN manifests :
       Cardinality({i \in 1 .. Len(drivers) : Lower[drivers[i].plugin] = p})
         = Len(manifests[p].drivers)

(* plugin_load and dlopen are undone exactly as often as they were done:   *)
(* one of each for every plugin in the table while the registry is up, and *)
(* none after cleanup, also when loads have failed on the way.             *)
LoadsBalanced ==
  \A f \in PluginFiles :
    /\ active[f] = Cardinality(LoadedFrom(f))
    /\ handles[f] = Cardinality(LoadedFrom(f))

(* The files under a directory, at any depth.                              *)
Below[d \in Directories] ==
  UNION {IF e \in Directories THEN Below[e] ELSE {e} : e \in ToSet(Dirs[d])}

(* registry.h on add_plugin_path: the directory is scanned "and all        *)
(* plugins found" are registered, so a library in it is found.             *)
PluginsOnPathAreFound ==
  \A p \in DOMAIN manifests, i \in 1 .. Len(plugin_paths), f \in PluginFiles :
    (f \in Below[plugin_paths[i]] /\ <<manifests[p].library, f>> \in Matches)
      => find_plugin(manifests[p].library) # NoFile
=============================================================================
