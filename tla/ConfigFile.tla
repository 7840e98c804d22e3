------------------------------ MODULE ConfigFile ------------------------------
(***************************************************************************)
(* How config follows its file: the first read, the watcher on the file's  *)
(* directory, the hash that tells whether the file has changed, and the    *)
(* two reads of a reload, between which the file can change again.         *)
(*                                                                         *)
(* Sending a configuration to the listeners is one step here; module Bunny *)
(* has its detail.                                                         *)
(***************************************************************************)
EXTENDS Integers

CONSTANTS
  Contents,     \* what a file that holds a configuration can hold
  Empty,        \* an empty file
  Absent,       \* no file, or one that cannot be read
  Default,      \* the configuration of generateDefaultConfig
  NoHash,       \* the empty string configFileHash starts with
  MaxChanges    \* bound on what others do in the directory

ASSUME ContentsAssumption ==
  /\ Empty \notin Contents /\ Absent \notin Contents /\ Default \notin Contents
  /\ NoHash \notin Contents /\ NoHash # Empty
  /\ MaxChanges \in Nat

VARIABLES
  file,         \* what is at configFilePath
  held,         \* what the file has held
  reused,       \* has it returned to a content it held before?
  edits,        \* changes of the file so far
  touches,      \* changes of other files in its directory
  watching,     \* has watcher.Add succeeded?
  events,       \* events waiting in watcher.Events
  pc,           \* where GoConfig is
  fileHash,     \* configFileHash
  newHash,      \* newConfigFileHash
  bunnyConfig,  \* the configuration in use
  published,    \* the configuration sent to the listeners last
  sends         \* how often a configuration was sent

dirVars == <<file, held, reused, edits, touches>>
watchVars == <<watching, events>>
hashVars == <<fileHash, newHash>>
configVars == <<bunnyConfig, published, sends>>
vars == <<dirVars, watchVars, pc, hashVars, configVars>>

\* sha256 of what os.ReadFile returned: nothing, when it failed.
Hash(f) == IF f = Absent THEN Empty ELSE f

\* readBunnyConfigFile: the default, overlaid with what the file says.
ReadConfig(f) == IF f \in Contents THEN f ELSE Default

Init ==
  /\ file \in Contents \cup {Absent}
  /\ held = {file} /\ reused = FALSE
  /\ edits = 0 /\ touches = 0
  /\ watching = FALSE /\ events = 0
  /\ pc = "read"
  /\ fileHash = NoHash /\ newHash = NoHash
  /\ bunnyConfig = Default /\ published = Default /\ sends = 0

-----------------------------------------------------------------------------
(* GoConfig *)

ReadFirst ==
  /\ pc = "read"
  /\ pc' = "publishFirst"
  /\ bunnyConfig' = ReadConfig(file)
  /\ UNCHANGED <<dirVars, watchVars, hashVars, published, sends>>

Publish(from, to) ==
  /\ pc = from
  /\ pc' = to
  /\ published' = bunnyConfig
  /\ sends' = sends + 1
  /\ UNCHANGED <<dirVars, watchVars, hashVars, bunnyConfig>>

PublishFirst == Publish("publishFirst", "watch")

\* watcher.Add, which may fail; nothing is retried then.
Watch ==
  /\ pc = "watch"
  /\ pc' = "select"
  /\ watching' \in BOOLEAN
  /\ UNCHANGED <<dirVars, events, hashVars, configVars>>

\* Faulty: the new hash is remembered before it is compared.
HandleEventSwapped ==
  /\ pc = "select"
  /\ events > 0
  /\ events' = events - 1
  /\ newHash' = Hash(file)
  /\ fileHash' = Hash(file)
  /\ pc' = IF newHash' # fileHash' THEN "reload" ELSE "select"
  /\ UNCHANGED <<dirVars, watching, configVars>>

\* An event of any kind, for any file of the directory.
HandleEvent ==
  /\ pc = "select"
  /\ events > 0
  /\ events' = events - 1
  /\ newHash' = Hash(file)
  /\ pc' = IF newHash' # fileHash THEN "reload" ELSE "select"
  /\ UNCHANGED <<dirVars, watching, fileHash, configVars>>

\* Faulty: the new hash is not remembered.
ReloadForget ==
  /\ pc = "reload"
  /\ pc' = "publish"
  /\ bunnyConfig' = ReadConfig(file)
  /\ UNCHANGED <<dirVars, watchVars, hashVars, published, sends>>

\* The second read of the file: what the hash was taken of may be gone.
Reload ==
  /\ pc = "reload"
  /\ pc' = "publish"
  /\ bunnyConfig' = ReadConfig(file)
  /\ fileHash' = newHash
  /\ UNCHANGED <<dirVars, watchVars, newHash, published, sends>>

\* Faulty: events that came in during the reload are taken for its own.
PublishAndDrain ==
  /\ pc = "publish"
  /\ pc' = "select"
  /\ published' = bunnyConfig
  /\ sends' = sends + 1
  /\ events' = 0
  /\ UNCHANGED <<dirVars, watching, hashVars, bunnyConfig>>

PublishAgain == Publish("publish", "select")

Signal ==
  /\ pc = "select"
  /\ pc' = "done"
  /\ UNCHANGED <<dirVars, watchVars, hashVars, configVars>>

GoConfig ==
  \/ ReadFirst \/ PublishFirst \/ Watch \/ HandleEvent \/ Reload
  \/ PublishAgain

-----------------------------------------------------------------------------
(* Whoever writes to the directory. *)

\* The kernel queues an event; it drops one that equals the last one queued.
Change ==
  /\ edits + touches < MaxChanges
  /\ events' \in IF ~watching THEN {events}
                 ELSE IF events = 0 THEN {1} ELSE {events, events + 1}
  /\ UNCHANGED <<watching, pc, hashVars, configVars>>

Write(c) ==
  /\ Change
  /\ file # c
  /\ reused' = (reused \/ c \in held)
  /\ file' = c
  /\ held' = held \cup {c}
  /\ edits' = edits + 1
  /\ UNCHANGED touches

\* The file is truncated before it is written, or removed.
Clear(f) ==
  /\ Change
  /\ file # f
  /\ file' = f
  /\ held' = held \cup {f}
  /\ edits' = edits + 1
  /\ UNCHANGED <<reused, touches>>

TouchOther ==
  /\ Change
  /\ touches' = touches + 1
  /\ UNCHANGED <<file, held, reused, edits>>

Directory ==
  \/ \E c \in Contents : Write(c)
  \/ \E f \in {Empty, Absent} : Clear(f)
  \/ TouchOther

Next == GoConfig \/ Signal \/ Directory

Spec == Init /\ [][Next]_vars

\* Go's scheduler runs config whenever one of its steps is possible; nothing
\* is assumed of the directory or of signals.
FairSpec == Spec /\ WF_vars(GoConfig)

-----------------------------------------------------------------------------
\* The type of every variable.
TypeOK ==
  /\ file \in Contents \cup {Empty, Absent}
  /\ held \subseteq Contents \cup {Empty, Absent}
  /\ reused \in BOOLEAN
  /\ edits \in 0..MaxChanges /\ touches \in 0..MaxChanges
  /\ watching \in BOOLEAN /\ events \in Nat
  /\ pc \in {"read", "publishFirst", "watch", "select", "reload", "publish",
             "done"}
  /\ fileHash \in Contents \cup {Empty, NoHash}
  /\ newHash \in Contents \cup {Empty, NoHash}
  /\ bunnyConfig \in Contents \cup {Default}
  /\ published \in Contents \cup {Default}
  /\ sends \in Nat

\* config has handled every event, and at least one: a change before the
\* watcher is in place goes unnoticed until the first.
CaughtUp == pc = "select" /\ events = 0 /\ fileHash # NoHash

\* As long as the file has not returned to a content it held before, once
\* config has caught up the listeners were sent what the file holds, although
\* the reload reads the file a second time after the hash was taken.  Without
\* the first condition this fails: a content that is hashed, replaced before
\* the second read and then written again is taken for the one in use.
FollowsFile ==
  ~reused /\ CaughtUp /\ file \in Contents => published = file

\* The hash keeps other files of the directory from causing reloads: a
\* configuration is sent for the first read, for the first event, and then at
\* most once for every change of the file itself.
NoNeedlessReload == sends <= edits + 2

\* As long as the file does not return to a content it held before, a change
\* that comes with an event reaches the listeners, unless it is overwritten or
\* a signal ends config first.
ChangeIsApplied ==
  \A c \in Contents :
    (~reused /\ file = c /\ events > 0) ~>
      (published = c \/ file # c \/ pc = "done")

(* What the documentation says and the code does not do. *)

\* A comment in GoConfig: the existing configuration is kept when the file is
\* deleted.
KeepsConfigWhenDeleted ==
  [][(published \in Contents /\ file = Absent) => published' # Default]_vars
=============================================================================
