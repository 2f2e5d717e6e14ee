------------------------------ MODULE SceneStore ------------------------------
(***************************************************************************)
(* The scenes of SceneManager and the text file they are kept in, over     *)
(* stops, crashes and restarts of the server.  updateSceneFile deletes the *)
(* file and writes it anew, one line of 513 numbers per scene, through a   *)
(* buffer that reaches the disk at any place of the text; the server       *)
(* rewrites the file at every start, when a scene is added and when the    *)
(* scene on show is deleted, but not when the last scene is deleted while  *)
(* none is on show.                                                        *)
(***************************************************************************)
EXTENDS Integers, SequencesExt

CONSTANTS
  Scenes,      \* the DMX images of scenes
  Damaged,     \* a scene whose last number has lost digits
  MaxScenes    \* bound of the model on the number of stored scenes

ASSUME SceneStoreAssumption == Damaged \notin Scenes /\ MaxScenes \in Nat

VARIABLES
  server,      \* "down", "delete" or "write" in updateSceneFile, "run", or "lost" when
               \* the constructor threw: the command loop has ended before its first command
  scenes,      \* SceneManager.scenes
  exists, lines, tail,   \* the file: its whole lines, and what follows them: "none",
                         \* "broken" (does not parse) or "cut" (parses as Damaged)
  last,        \* ghost: the scenes of the server that ran last
  hit          \* ghost: some server ended inside updateSceneFile

file == <<exists, lines, tail>>
storeVars == <<server, scenes, exists, lines, tail, last, hit>>

-----------------------------------------------------------------------------
\* What parseSceneFile makes of a file that it can read
Parsed == IF tail = "cut" THEN Append(lines, Damaged) ELSE lines

\* Mutated form of Load: the file is opened for writing and so emptied.
LoadEmpties ==
  /\ server = "down" /\ server' = "delete"
  /\ exists' = TRUE /\ scenes' = <<>> /\ lines' = <<>> /\ tail' = "none"
  /\ UNCHANGED <<last, hit>>

\* The constructor: a new file, or the scenes of the old one; then the rewrite of start-up
Load ==
  /\ server = "down"
  /\ exists' = TRUE
  /\ IF exists /\ tail = "broken" THEN server' = "lost" /\ scenes' = <<>>
     ELSE server' = "delete" /\ scenes' = IF exists THEN Parsed ELSE <<>>
  /\ UNCHANGED <<lines, tail, last, hit>>

\* updateSceneFile: deleteIfExists and a new file
Delete ==
  /\ server = "delete" /\ server' = "write"
  /\ \E e \in BOOLEAN : exists' = e     \* newBufferedWriter has run or not
  /\ lines' = <<>> /\ tail' = "none"
  /\ UNCHANGED <<scenes, last, hit>>

\* Some more of the text reaches the disk: n lines in all and a part of the next.
Flush ==
  /\ server = "write" /\ exists' = TRUE
  /\ \E n \in Len(lines) .. Len(scenes) :
       /\ n > Len(lines) \/ tail = "none"
       /\ lines' = SubSeq(scenes, 1, n)
       /\ tail' \in IF n = Len(scenes) THEN {"none"} ELSE {"none", "broken", "cut"}
  /\ UNCHANGED <<server, scenes, last, hit>>

\* The end of the try: the writer is closed and with it the rest written.
CloseFile ==
  /\ server = "write" /\ server' = "run"
  /\ exists' = TRUE /\ lines' = scenes /\ tail' = "none"
  /\ UNCHANGED <<scenes, last, hit>>

\* A write fails: the file is deleted and System.exit(-1) follows.
Fail ==
  /\ server = "write" /\ server' = "down"
  /\ exists' = FALSE /\ lines' = <<>> /\ tail' = "none"
  /\ last' = scenes /\ hit' = TRUE
  /\ UNCHANGED scenes

\* The server is stopped, or the process ends at any point.
Stop ==
  /\ server # "down" /\ server' = "down"
  /\ last' = scenes /\ hit' = (hit \/ server # "run")
  /\ UNCHANGED <<scenes, file>>

-----------------------------------------------------------------------------
(* Handlers of the command loop *)

\* Mutated form of addScene: the file is not rewritten.
addSceneUnsaved(s) ==
  /\ server = "run" /\ Len(scenes) < MaxScenes
  /\ scenes' = Append(scenes, s)
  /\ UNCHANGED <<server, file, last, hit>>

addScene(s) ==
  /\ server = "run" /\ Len(scenes) < MaxScenes
  /\ scenes' = Append(scenes, s) /\ server' = "delete"
  /\ UNCHANGED <<file, last, hit>>

\* deleteScene() of the scene on show, i counted from 1
deleteScene(i) ==
  /\ server = "run"
  /\ scenes' = RemoveAt(scenes, i) /\ server' = "delete"
  /\ UNCHANGED <<file, last, hit>>

\* deleteScene(getSceneCount() - 1): the file is left as it is.
deleteLastScene ==
  /\ server = "run" /\ scenes # <<>>
  /\ scenes' = Front(scenes)
  /\ UNCHANGED <<server, file, last, hit>>

-----------------------------------------------------------------------------
StoreInit ==
  /\ server = "down" /\ scenes = <<>> /\ exists = FALSE /\ lines = <<>> /\ tail = "none"
  /\ last = <<>> /\ hit = FALSE

StoreNext ==
  \/ Load \/ Delete \/ Flush \/ CloseFile \/ Fail \/ Stop
  \/ \E s \in Scenes : addScene(s)
  \/ \E i \in DOMAIN scenes : deleteScene(i)
  \/ deleteLastScene

StoreSpec == StoreInit /\ [][StoreNext]_storeVars

-----------------------------------------------------------------------------
(* Properties *)

\* Between two commands the file has every scene of the server, in the same places: a
\* stop or a crash of a server that is not writing loses none.  Scenes deleted as the
\* last may still be in the file, after the others, until the next rewrite.
NothingUnsaved ==
  server = "run" => exists /\ tail = "none" /\ IsPrefix(scenes, lines)

\* However often the server is stopped, crashes and starts again: if no server ended
\* inside updateSceneFile, the file parses and no scene is damaged.
DamageNeedsCrash ==
  ~hit => server # "lost" /\ \A i \in DOMAIN scenes : scenes[i] \in Scenes

\* A new server has all scenes of the one before it, in the same places, if that one
\* and those before it did not end inside updateSceneFile.
RestartKeeps == [][server = "down" /\ ~hit => IsPrefix(last, scenes')]_storeVars

=============================================================================
