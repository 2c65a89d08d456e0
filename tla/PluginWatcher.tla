---------------------------- MODULE PluginWatcher ----------------------------
(***************************************************************************)
(* crates/barqium-wasm: the watcher of the plugin directory and the        *)
(* registry it reloads.  Files change while they are read, the channel     *)
(* between the callback of the file system and the watcher has four places *)
(* and drops what does not fit, and a burst of changes is one reload.      *)
(***************************************************************************)
EXTENDS Naturals

CONSTANTS
  PluginFiles, \* the .wasm files that may be in the directory
  Contents,    \* what compiles
  Capacity,    \* of the channel; 4 in the code
  MaxChanges   \* bound: changes of the directory

(* A file that is not there, and one that does not compile.                *)
CONSTANTS Absent, Broken

VARIABLES
  disk,     \* by file, its content
  changes,  \* changes made so far
  unseen,   \* changes the file system has yet to report
  channel,  \* messages waiting
  watcher,  \* where it is: start, then in its loop recv, drain, load
  todo,     \* the files of the listing not read yet
  fresh,    \* by file, what load_all has compiled so far
  plugins,  \* by file, what the registry holds
  failed,   \* the last reload returned an error
  missed    \* a change came before the watch, and no reload since

watcherVars == <<disk, changes, unseen, channel, watcher, todo, fresh, plugins, failed, missed>>

NoPlugins == [f \in PluginFiles |-> Absent]
Compiled(content) == IF content = Broken THEN Absent ELSE content

(* PluginRuntime::new loads the directory before the watcher starts.       *)
WatcherInit ==
  /\ disk = NoPlugins
  /\ changes = 0
  /\ unseen = 0
  /\ channel = 0
  /\ watcher = "start"
  /\ todo = {}
  /\ fresh = NoPlugins
  /\ plugins = NoPlugins
  /\ failed = FALSE
  /\ missed = FALSE

-----------------------------------------------------------------------------
(* The task starts and watches the directory.                              *)
watch ==
  /\ watcher = "start"
  /\ watcher' = "recv"
  /\ UNCHANGED <<disk, changes, unseen, channel, todo, fresh, plugins, failed, missed>>

(* A file is created, modified or removed.                                 *)
Change(f, content) ==
  /\ changes < MaxChanges
  /\ content # disk[f]
  /\ disk' = [disk EXCEPT ![f] = content]
  /\ changes' = changes + 1
  /\ IF watcher = "start"
     THEN missed' = TRUE /\ UNCHANGED unseen
     ELSE unseen' = unseen + 1 /\ UNCHANGED missed
  /\ UNCHANGED <<channel, watcher, todo, fresh, plugins, failed>>

(* The callback: try_send drops the message when the channel is full.      *)
try_send ==
  /\ unseen > 0
  /\ unseen' = unseen - 1
  /\ channel' = IF channel < Capacity THEN channel + 1 ELSE channel
  /\ UNCHANGED <<disk, changes, watcher, todo, fresh, plugins, failed, missed>>

recv ==
  /\ watcher = "recv"
  /\ channel > 0
  /\ channel' = channel - 1
  /\ watcher' = "drain"
  /\ UNCHANGED <<disk, changes, unseen, todo, fresh, plugins, failed, missed>>

(* The rest of a burst.                                                    *)
drain ==
  /\ watcher = "drain"
  /\ channel > 0
  /\ channel' = channel - 1
  /\ UNCHANGED <<disk, changes, unseen, watcher, todo, fresh, plugins, failed, missed>>

(* 200 ms after the first: reload lists the directory, or cannot.          *)
reload ==
  /\ watcher = "drain"
  /\ \/ /\ watcher' = "load"
        /\ todo' = {f \in PluginFiles : disk[f] # Absent}
        /\ fresh' = NoPlugins
        /\ UNCHANGED failed
     \/ /\ watcher' = "recv"
        /\ failed' = TRUE
        /\ UNCHANGED <<todo, fresh>>
  /\ UNCHANGED <<disk, changes, unseen, channel, plugins, missed>>

(* A file of the listing is read as it is now, or is gone; one that does   *)
(* not compile is left out.                                                *)
from_file(f) ==
  /\ watcher = "load"
  /\ f \in todo
  /\ todo' = todo \ {f}
  /\ fresh' = [fresh EXCEPT ![f] = Compiled(disk[f])]
  /\ UNCHANGED <<disk, changes, unseen, channel, watcher, plugins, failed, missed>>

(* A slip: the messages of the time of the reload are taken for its own.   *)
store_and_drain ==
  /\ watcher = "load"
  /\ todo = {}
  /\ plugins' = fresh
  /\ failed' = FALSE
  /\ missed' = FALSE
  /\ watcher' = "recv"
  /\ channel' = 0
  /\ UNCHANGED <<disk, changes, unseen, todo, fresh>>

store ==
  /\ watcher = "load"
  /\ todo = {}
  /\ plugins' = fresh
  /\ failed' = FALSE
  /\ missed' = FALSE
  /\ watcher' = "recv"
  /\ UNCHANGED <<disk, changes, unseen, channel, todo, fresh>>

WatcherNext ==
  \/ \E f \in PluginFiles, content \in Contents \cup {Absent, Broken} : Change(f, content)
  \/ watch \/ try_send \/ recv \/ drain \/ reload
  \/ \E f \in PluginFiles : from_file(f)
  \/ store

(* Changes are reported, the task is scheduled, its deadline passes, files *)
(* are read.                                                               *)
ReloadFairness ==
  /\ WF_watcherVars(try_send) /\ WF_watcherVars(recv)
  /\ WF_watcherVars(reload) /\ WF_watcherVars(store)
  /\ \A f \in PluginFiles : WF_watcherVars(from_file(f))

WatcherFairness == WF_watcherVars(watch) /\ ReloadFairness

WatcherSpec == WatcherInit /\ [][WatcherNext]_watcherVars /\ WatcherFairness

-----------------------------------------------------------------------------
(* When the directory has come to rest, the registry comes to hold what    *)
(* compiles in it, though messages were dropped at a full channel, changes *)
(* fell between the drain and the listing or between two files, and a load *)
(* mixed old files with new.  Waived: the last reload failed, which nothing*)
(* tries again (watcher.rs:66-69); a change before the directory was       *)
(* watched, until another one causes a reload.                             *)
PluginsConverge == <>[](failed \/ missed \/ plugins = [f \in PluginFiles |-> Compiled(disk[f])])

=============================================================================
