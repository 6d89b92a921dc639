----------------------------- MODULE Extensions -----------------------------
(***************************************************************************)
(* The extensions manager and the plugin host: what is installed in the    *)
(* extension directory, the saved overlay (config by extension, disabled   *)
(* set, models root, licence), the inventory the host took at its last     *)
(* boot, and the two jobs that outlive a request's await: a package        *)
(* install and a model download.                                           *)
(*                                                                         *)
(* One option stands for an extension's config: absent, a value its schema *)
(* accepts ("good") or one it does not ("bad"); "cache" is the key the     *)
(* models root is pushed into.  Writes need the API token.                 *)
(***************************************************************************)
EXTENDS Naturals, FiniteSets, SequencesExt

CONSTANTS Catalog,      \* extensions the index offers
          Broken,       \* those whose entry point does not resolve
          Voice,        \* those the voice client hosts
          Schema,       \* those that declare a schema, in which the option is required
          Paid, Unmet,  \* those that need a licence, those this host cannot run
          Cached,       \* those with a cache knob (config_defaults)
          Models,       \* those that declare an asset to download
          Files,        \* the files such an asset produces, its path first
          EnvOption,    \* the environment's value of each extension's option
          Roots, DefaultRoot, \* where models can be kept
          Bundled,      \* installed with the server, outside the extension directory
          MaxWrites, MaxRestarts \* bounds on requests and restarts

VARIABLES lib,        \* what is in the extension directory
          disk,       \* model files: set of [of, root, file]
          saved,      \* the overlay: [opt, cache] for each extension
          disabled, root, licensed, \* the rest of the persisted document
          wired,      \* the model path in the app's saved config, by extension
          inventory,  \* what the host discovered when it booted
          jobs,       \* installs and downloads that run
          writes, restarts

stored == <<saved, disabled, root, licensed, wired>>
vars == <<lib, disk, stored, inventory, jobs, writes, restarts>>

Absent == "absent"
Options == {"good", "bad"}
NoOverlay == [opt |-> Absent, cache |-> Absent]
NoFile == [root |-> Absent]

(***************************************************************************)
(* The plugin host, once at boot: saved over environment, key by key.      *)
(***************************************************************************)
Merged(x, opt) == IF opt = Absent THEN EnvOption[x] ELSE opt
Accepts(x, opt) == x \notin Schema \/ Merged(x, opt) = "good"

Resolves(x) == x \notin Broken

Resolve(x) ==
  IF ~Resolves(x) THEN "failed"
  ELSE IF x \in disabled THEN "disabled"
  ELSE IF x \in Voice THEN "hosted_by_client"
  ELSE IF Accepts(x, saved[x].opt) THEN "loaded" ELSE "failed"

\* The inventory, and with which option each extension was tried.
Load == [x \in lib \cup Bundled |-> [status |-> Resolve(x), tried |-> saved[x].opt]]

\* A failed one is listed without its manifest, whatever made it fail.
HasManifest(x) == inventory[x].status # "failed"

(***************************************************************************)
(* Requests that only touch the store.                                     *)
(***************************************************************************)
Write == writes < MaxWrites /\ writes' = writes + 1

\* The schema checks what the host would be given; the whole overlay is
\* replaced by what the form sent.
SetConfig(x, opt, cache) ==
  /\ Write /\ x \in DOMAIN inventory
  /\ HasManifest(x) => Accepts(x, opt)
  /\ saved' = [saved EXCEPT ![x] = [opt |-> opt, cache |-> cache]]
  /\ UNCHANGED <<lib, disk, disabled, root, licensed, wired, inventory, jobs, restarts>>

SetEnabled(x, enabled) ==
  /\ Write /\ x \in DOMAIN inventory
  /\ disabled' = IF enabled THEN disabled \ {x} ELSE disabled \cup {x}
  /\ UNCHANGED <<lib, disk, saved, root, licensed, wired, inventory, jobs, restarts>>

\* The chosen root goes to every cache knob that has no value yet.
ApplyConfigDefaults(r) ==
  saved' = [x \in Catalog |-> IF x \in Cached /\ r # Absent /\ saved[x].cache = Absent
                              THEN [saved[x] EXCEPT !.cache = r] ELSE saved[x]]

SetSettings(r, licence) ==
  /\ Write
  /\ root' = r /\ licensed' = licence
  /\ ApplyConfigDefaults(r)
  /\ UNCHANGED <<lib, disk, disabled, wired, inventory, jobs, restarts>>

\* What the settings read back: the default stands in for an unset root.
ModelsDir == IF root = Absent THEN DefaultRoot ELSE root

\* Toggling an app's autostart reads the settings and writes them back.
SetAutostart == SetSettings(ModelsDir, licensed)

(***************************************************************************)
(* Installing and removing packages.                                       *)
(***************************************************************************)
Entitled(x) == x \in Paid => licensed
CanRun(x) == x \notin Unmet
Job(op, x, r) == [op |-> op, of |-> x, root |-> r, watched |-> TRUE]

Install(x) ==
  /\ Write /\ CanRun(x) /\ Entitled(x)
  /\ jobs' = jobs \cup {Job("install", x, Absent)}
  /\ UNCHANGED <<lib, disk, stored, inventory, restarts>>

\* The installer exits well, or fails or times out.
InstallEnds(j) ==
  /\ j.op = "install" /\ jobs' = jobs \ {j}
  /\ lib' \in {lib, lib \cup {j.of}}
  /\ UNCHANGED <<disk, stored, inventory, writes, restarts>>

\* Its distributions go; a bundled one is in nobody's extension directory.
Removal(x) == x \in lib /\ lib' = lib \ {x}

Uninstall(x) ==
  /\ Write /\ Removal(x)
  /\ saved' = [saved EXCEPT ![x] = NoOverlay] /\ disabled' = disabled \ {x}
  /\ UNCHANGED <<disk, root, licensed, wired, inventory, jobs, restarts>>

(***************************************************************************)
(* Downloading the model files of an extension.  Its path reaches the      *)
(* app's config only when every declared file is there.                    *)
(***************************************************************************)
Missing(x, r) == {f \in Range(Files) : [of |-> x, root |-> r, file |-> f] \notin disk}
ApplyConfig(x, r) == wired' = [wired EXCEPT ![x] = [root |-> r]]

Download(x) ==
  /\ Write /\ x \in Models
  /\ IF Missing(x, ModelsDir) = {}
     THEN ApplyConfig(x, ModelsDir) /\ UNCHANGED jobs
     ELSE jobs' = jobs \cup {Job("download", x, ModelsDir)} /\ UNCHANGED wired
  /\ UNCHANGED <<lib, disk, saved, disabled, root, licensed, inventory, restarts>>

FileArrives(j) ==
  /\ j.op = "download"
  /\ \E f \in Missing(j.of, j.root) : disk' = disk \cup {[of |-> j.of, root |-> j.root, file |-> f]}
  /\ UNCHANGED <<lib, stored, inventory, jobs, writes, restarts>>

\* Defect: exit code zero is taken for the files.
DownloadEndsTrusting(j, ok) ==
  /\ j.op = "download" /\ jobs' = jobs \ {j}
  /\ IF ok /\ j.watched THEN ApplyConfig(j.of, j.root) ELSE UNCHANGED wired
  /\ UNCHANGED <<lib, disk, saved, disabled, root, licensed, inventory, writes, restarts>>

\* Exit code zero proves nothing; a failure or a timeout wires nothing.
DownloadEnds(j, ok) ==
  /\ j.op = "download" /\ jobs' = jobs \ {j}
  /\ IF ok /\ j.watched /\ Missing(j.of, j.root) = {}
     THEN ApplyConfig(j.of, j.root) ELSE UNCHANGED wired
  /\ UNCHANGED <<lib, disk, saved, disabled, root, licensed, inventory, writes, restarts>>

\* Someone deletes a model file.
FileLost(f) ==
  /\ Write /\ disk' = disk \ {f}
  /\ UNCHANGED <<lib, stored, inventory, jobs, restarts>>

(***************************************************************************)
(* A restart drops the requests, not the processes they had started: a     *)
(* cancelled wait kills nothing, and nobody reads the outcome any more.    *)
(***************************************************************************)
Restart ==
  /\ restarts < MaxRestarts /\ restarts' = restarts + 1
  /\ inventory' = Load
  /\ jobs' = {[j EXCEPT !.watched = FALSE] : j \in jobs}
  /\ UNCHANGED <<lib, disk, stored, writes>>

Init ==
  /\ lib = {} /\ disk = {} /\ disabled = {} /\ root = Absent /\ licensed = FALSE
  /\ saved = [x \in Catalog |-> NoOverlay] /\ wired = [x \in Models |-> NoFile]
  /\ inventory = Load /\ jobs = {} /\ writes = 0 /\ restarts = 0

Next ==
  \/ \E x \in Catalog :
        \/ \E opt \in Options \cup {Absent}, cache \in Roots \cup {Absent} : SetConfig(x, opt, cache)
        \/ \E enabled \in BOOLEAN : SetEnabled(x, enabled)
        \/ Install(x) \/ Uninstall(x) \/ Download(x)
  \/ \E r \in Roots, licence \in BOOLEAN : SetSettings(r, licence)
  \/ SetAutostart
  \/ \E j \in jobs : InstallEnds(j) \/ FileArrives(j) \/ \E ok \in BOOLEAN : DownloadEnds(j, ok)
  \/ \E f \in disk : FileLost(f)
  \/ Restart

Spec == Init /\ [][Next]_vars

-----------------------------------------------------------------------------
\* Where models are kept by default is one of the places.
ExtensionsBounds == DefaultRoot \in Roots

TypeOK ==
  /\ lib \subseteq Catalog \ Unmet /\ disabled \subseteq Catalog
  /\ root \in Roots \cup {Absent}
  /\ \A x \in Catalog : saved[x].opt \in Options \cup {Absent}
                        /\ saved[x].cache \in Roots \cup {Absent}
  /\ \A x \in Models : wired[x].root \in Roots \cup {Absent}
  /\ \A x \in DOMAIN inventory :
        inventory[x].status \in {"loaded", "failed", "hosted_by_client", "disabled"}

\* The app is pointed at a model only when every file of it is there, through
\* concurrent downloads, moved roots and restarts (download, _apply_config);
\* and choosing a root leaves alone a cache that already has a value
\* (_apply_config_defaults).
WiresWhole ==
  /\ \A x \in Models : wired'[x] # wired[x] => Missing(x, wired'[x].root) = {}
  /\ root' # root => \A x \in Catalog : saved[x].cache # Absent => saved'[x] = saved[x]

ModelsAreWhole == [][WiresWhole]_vars
=============================================================================
