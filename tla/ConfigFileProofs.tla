-------------------------- MODULE ConfigFileProofs --------------------------
(***************************************************************************)
(* Proofs that config follows its file, for any contents and any number of *)
(* changes.                                                                *)
(***************************************************************************)
EXTENDS ConfigFile, TLAPS

\* Hashes are only taken of what the file has held.
HeldInv ==
  /\ file \in held
  /\ fileHash \in Contents => fileHash \in held
  /\ newHash \in Contents => newHash \in held

\* A configuration in use under the file's own hash is the file's: without
\* reuse the file cannot leave a content and come back between the two reads.
\* A file whose configuration is not in use has an event waiting.
FreshInv ==
  ~reused /\ file \in Contents =>
    /\ pc \in {"select", "publish"} /\ fileHash = file => bunnyConfig = file
    /\ pc \in {"select", "publish"} /\ fileHash # NoHash =>
         bunnyConfig = file \/ events > 0
    /\ pc = "reload" => newHash = file \/ events > 0

PublishedInv == pc \in {"watch", "select"} => published = bunnyConfig

\* Nothing is reloaded without a watcher.
WatchInv ==
  /\ pc \in {"read", "publishFirst", "watch"} => ~watching
  /\ ~watching =>
       events = 0 /\ fileHash = NoHash /\ pc \notin {"reload", "publish"}

\* Every hash but the first was paid for by a change.
SendInv ==
  /\ pc \in {"read", "publishFirst"} => sends = 0
  /\ pc = "watch" => sends = 1
  /\ pc \in {"read", "publishFirst", "watch"} => fileHash = NoHash
  /\ pc = "select" =>
       /\ fileHash = NoHash => sends <= edits + 1
       /\ Hash(file) # fileHash => sends <= edits + 1
  /\ pc = "reload" =>
       /\ newHash # NoHash
       /\ sends <= edits + 1
       /\ Hash(file) # newHash => sends <= edits
  /\ pc = "publish" =>
       /\ fileHash # NoHash
       /\ sends <= edits + 1
       /\ Hash(file) # fileHash => sends <= edits
  /\ sends <= edits + 2

IInv ==
  TypeOK /\ HeldInv /\ FreshInv /\ PublishedInv /\ WatchInv /\ SendInv

-----------------------------------------------------------------------------
\* The first read, the watcher and the reloads keep IInv.
LEMMA GoConfigStep == IInv /\ (GoConfig \/ Signal) => IInv'
<1> SUFFICES ASSUME IInv, GoConfig \/ Signal PROVE IInv'
  OBVIOUS
<1> USE ContentsAssumption
    DEF IInv, TypeOK, HeldInv, FreshInv, PublishedInv, WatchInv, SendInv, Hash,
        ReadConfig, dirVars, watchVars, hashVars, configVars
<1>1. CASE ReadFirst
  BY <1>1 DEF ReadFirst
<1>2. CASE PublishFirst
  BY <1>2 DEF PublishFirst, Publish
<1>3. CASE Watch
  <2>1. watching' \in BOOLEAN
    BY <1>3 DEF Watch
  <2>2. /\ pc = "watch" /\ pc' = "select"
        /\ UNCHANGED <<file, held, reused, edits, touches, events,
                       fileHash, newHash, bunnyConfig, published, sends>>
    BY <1>3 DEF Watch
  <2> QED
    BY <2>1, <2>2
<1>4. CASE HandleEvent
  BY <1>4 DEF HandleEvent
<1>5. CASE Reload
  BY <1>5 DEF Reload
<1>6. CASE PublishAgain
  BY <1>6 DEF PublishAgain, Publish
<1>7. CASE Signal
  BY <1>7 DEF Signal
<1> QED
  BY <1>1, <1>2, <1>3, <1>4, <1>5, <1>6, <1>7 DEF GoConfig

\* Whatever happens in the directory keeps IInv.
LEMMA DirectoryStep == IInv /\ Directory => IInv'
<1> SUFFICES ASSUME IInv, Directory PROVE IInv'
  OBVIOUS
<1> USE ContentsAssumption
    DEF IInv, TypeOK, HeldInv, FreshInv, PublishedInv, WatchInv, SendInv,
        Hash, Change, hashVars, configVars
<1>1. ASSUME NEW c \in Contents, Write(c) PROVE IInv'
  <2>1. TypeOK' /\ HeldInv'
    <3>1. events' \in Nat /\ reused' \in BOOLEAN
      BY <1>1 DEF Write
    <3>2. /\ file' = c /\ held' = held \cup {c}
          /\ edits' \in 0..MaxChanges /\ UNCHANGED touches
          /\ UNCHANGED <<watching, pc, hashVars, configVars>>
      BY <1>1 DEF Write
    <3> QED
      BY <1>1, <3>1, <3>2
  <2>2. FreshInv'
    BY <1>1 DEF Write
  <2>3. PublishedInv' /\ WatchInv' /\ SendInv'
    BY <1>1 DEF Write
  <2> QED
    BY <2>1, <2>2, <2>3, Zenon
<1>2. ASSUME NEW f \in {Empty, Absent}, Clear(f) PROVE IInv'
  BY <1>2 DEF Clear
<1>3. CASE TouchOther
  BY <1>3 DEF TouchOther
<1> QED
  BY <1>1, <1>2, <1>3 DEF Directory

\* IInv is an invariant of config and its directory.
THEOREM ConfigInvariance == Spec => []IInv
<1>1. ASSUME Init PROVE IInv
  <2>1. watching \in BOOLEAN /\ reused \in BOOLEAN
    BY <1>1, Zenon DEF Init
  <2>2. TypeOK
    BY <1>1, <2>1, ContentsAssumption DEF Init, TypeOK
  <2>3. HeldInv /\ FreshInv /\ PublishedInv /\ WatchInv /\ SendInv
    BY <1>1, ContentsAssumption
       DEF Init, HeldInv, FreshInv, PublishedInv, WatchInv, SendInv
  <2> QED
    BY <2>2, <2>3 DEF IInv
<1>2. IInv /\ [Next]_vars => IInv'
  <2>1. IInv /\ UNCHANGED vars => IInv'
    BY DEF vars, dirVars, watchVars, hashVars, configVars, IInv, TypeOK,
           HeldInv, FreshInv, PublishedInv, WatchInv, SendInv, Hash
  <2> QED
    BY <2>1, GoConfigStep, DirectoryStep DEF Next
<1> QED
  BY <1>1, <1>2, PTL DEF Spec

\* The type of every variable.
THEOREM TypeCorrect == Spec => []TypeOK
<1>1. IInv => TypeOK
  BY DEF IInv
<1> QED
  BY <1>1, ConfigInvariance, PTL

\* A file that has not returned to an earlier content is followed: when no event
\* is waiting its configuration is the one the listeners were sent.
THEOREM FileIsFollowed == Spec => []FollowsFile
<1>1. IInv => FollowsFile
  BY DEF IInv, TypeOK, FreshInv, PublishedInv, FollowsFile, CaughtUp
<1> QED
  BY <1>1, ConfigInvariance, PTL

\* The hash keeps config from sending what has not changed.
THEOREM ReloadsAreNeeded == Spec => []NoNeedlessReload
<1>1. IInv => NoNeedlessReload
  BY DEF IInv, SendInv, NoNeedlessReload
<1> QED
  BY <1>1, ConfigInvariance, PTL
=============================================================================
